---------------------------- MODULE PolicyEditor ----------------------------
(***************************************************************************)
(* Saving the desired NAS policy from the panel: ui/service-policy.js and  *)
(* the save path of ui/iscsi-preview.js against the handlers of            *)
(* nas_state_http_linux.go and its two companions.                         *)
(*                                                                         *)
(* The page holds what it loaded, the change under review and the save it  *)
(* could not confirm, for the SMB/NFS view (base, cand, att) and for the   *)
(* complete policy (nasCand, nasAtt); one operation of either runs at a    *)
(* time.  An operation awaits one answer after another, and in every wait  *)
(* the form may change, ten seconds may pass, the session may end, another *)
(* administrator may save.  A save the page has given up on may still be   *)
(* on its way.  A request reaches the server at most once.                 *)
(*                                                                         *)
(* A document is its revision and the two sets of definitions, opaque.     *)
(* The page compares policyGeneration only with the value it had when the  *)
(* operation began, so the model keeps whether it moved.                   *)
(***************************************************************************)
EXTENDS Naturals, SequencesExt, TLC

CONSTANTS FileServices, ISCSI,     \* the definitions a document may hold
          None,
          MaxRevision,             \* bound: revisions the store reaches
          MaxSaves                 \* bound: saves the page sends

Documents == [rev : 1..MaxRevision, fs : FileServices, is : ISCSI]
VARIABLES
    hist,      \* the store: every revision, the last one current
    page,      \* what the page holds
    op,        \* the running serviceOperation, None when the gate is open
    draft,     \* the iSCSI draft: its text, where it began, what is staged, its own request
    late,      \* saves the page no longer waits for
    sent,      \* how many saves it has sent
    done       \* history: the saves that took effect

vars == <<hist, page, op, draft, late, sent, done>>

Current == Last(hist)
View(d) == [rev |-> d.rev, fs |-> d.fs]
OldText == hist[1]     \* bound: a backup file, or a pasted text, is the first revision
SameDefinitions(d, e) == d.fs = e.fs /\ d.is = e.is

NoPage == [base |-> None, cand |-> None, att |-> None, nasCand |-> None, nasAtt |-> None,
           says |-> None, owed |-> FALSE]
NoDraft == [text |-> None, origin |-> None, staged |-> None, check |-> None]

Init ==
    /\ \E f \in FileServices, i \in ISCSI : hist = <<[rev |-> 1, fs |-> f, is |-> i]>>
    /\ page = NoPage /\ op = None /\ draft = NoDraft
    /\ late = {} /\ sent = 0 /\ done = {}

-----------------------------------------------------------------------------
(* The gate.  Every operation is the list of answers it awaits.            *)

Awaits(kind) ==
    CASE kind \in {"load", "backup", "iscsiLoad"} -> <<"get">>
      [] kind = "preview"    -> <<"session", "validate">>
      [] kind = "restore"    -> <<"file", "session", "validate">>
      [] kind = "nasRestore" -> <<"file", "get", "session", "validate">>
      [] kind = "nasReview"  -> <<"get", "session", "validate">>
      [] kind \in {"save", "nasSave"} -> <<"session", "put">>

\* invalidateServiceDraft: no review is on the screen.
Invalidated(p) == [p EXCEPT !.cand = None, !.nasCand = None]

Enter(kind, data) ==
    /\ op = None
    /\ kind \notin {"nasRestore", "nasReview", "nasSave"} => page.nasAtt = None
    /\ op' = [kind |-> kind, step |-> 1, reply |-> None, moved |-> FALSE, data |-> data]

Step == Awaits(op.kind)[op.step]
Waiting(what) == op # None /\ Step = what /\ op.reply = None
Answered(kind, what) == op # None /\ op.kind = kind /\ Step = what /\ op.reply # None
Onward(data) == op' = [op EXCEPT !.step = @ + 1, !.reply = None, !.data = data]
Leave == op' = None

Reply(r) == op' = [op EXCEPT !.reply = r]
Good == op # None /\ op.reply # None /\ op.reply.status = 200

\* The save on the wire when the page stops waiting for it.
Abandoned == late' = IF Waiting("put") THEN late \cup {op.data} ELSE late

-----------------------------------------------------------------------------
(* The server: one request at a time, a second one is told to come back    *)
(* (503).  A handler reads the policy once and commits with its revision.  *)

Takes(d, save) == IF save.kind = "save" THEN [d EXCEPT !.rev = save.doc.rev, !.fs = save.doc.fs]
                  ELSE save.doc

\* Commit(c.Revision - 1, c), and for the SMB/NFS view the comparison before it.
Commits(save) == Current.rev = save.doc.rev - 1

CommitSave(save) == /\ hist' = Append(hist, [Takes(Current, save) EXCEPT !.rev = Current.rev + 1])
                    /\ done' = done \cup {save.n}

\* Whatever is asked may be refused without effect.  A 401 does what Clear does.
Refuse == /\ op # None /\ Step # "file" /\ op.reply = None
          /\ Reply([status |-> 503]) /\ UNCHANGED <<hist, done>>

AnswerGet == Waiting("get") /\ Reply([status |-> 200, doc |-> Current]) /\ UNCHANGED <<hist, done>>

AnswerSession == Waiting("session") /\ Reply([status |-> 200]) /\ UNCHANGED <<hist, done>>

\* The preview of a change is about the change alone; a restore preview names the
\* revision it was asked for, and puts the next one on the backup.
AnswerValidate ==
    /\ Waiting("validate")
    /\ LET d == op.data IN
       Reply(CASE op.kind = "preview" -> [status |-> 200]
               [] op.kind # "preview" /\ Current.rev # d.expected -> [status |-> 409]
               [] op.kind = "restore" /\ Current.rev = d.expected ->
                     [status |-> 200, doc |-> [rev |-> d.expected + 1, fs |-> d.backup.fs]]
               [] OTHER ->
                     [status |-> 200, matches |-> SameDefinitions(Current, d.backup),
                      doc |-> [rev |-> d.expected + 1, fs |-> d.backup.fs, is |-> d.backup.is]])
    /\ UNCHANGED <<hist, done>>

\* A commit may be durable and the answer still be 503 (ErrUncertain).
AnswerPut ==
    /\ Waiting("put")
    /\ IF Commits(op.data) THEN CommitSave(op.data) /\ \E code \in {200, 503} : Reply([status |-> code])
       ELSE Reply([status |-> 409]) /\ UNCHANGED <<hist, done>>

Server == /\ Refuse \/ AnswerGet \/ AnswerSession \/ AnswerValidate \/ AnswerPut
          /\ UNCHANGED <<page, draft, late, sent>>

\* A save nobody waits for arrives after all, or never does.
LateSave(save) ==
    /\ late' = late \ {save}
    /\ \/ Commits(save) /\ CommitSave(save)
       \/ UNCHANGED <<hist, done>>
    /\ UNCHANGED <<page, op, draft, sent>>

OtherAdministrator ==
    /\ Len(hist) < MaxRevision
    /\ \E f \in FileServices \ {Current.fs}, i \in ISCSI \ {Current.is} :
          hist' = Append(hist, [rev |-> Current.rev + 1, fs |-> f, is |-> i])
    /\ UNCHANGED <<page, op, draft, late, sent, done>>

-----------------------------------------------------------------------------
(* Loading, and settling a save that was not confirmed.                    *)

BeginLoad ==
    /\ Enter("load", None)
    /\ page' = [Invalidated(page) EXCEPT !.base = None, !.says = None]
    /\ UNCHANGED <<hist, draft, late, sent, done>>

Loaded ==
    /\ Answered("load", "get") /\ Good /\ Leave
    /\ LET c == View(op.reply.doc) IN
       page' = [page EXCEPT !.base = c, !.att = None, !.owed = FALSE,
                            !.says = IF page.att = None THEN None
                                     ELSE [claim |-> IF page.att.doc = c THEN "saved" ELSE "differs",
                                           save |-> page.att]]
    /\ UNCHANGED <<hist, draft, late, sent, done>>

BeginBackup ==
    /\ page.base # None /\ page.att = None
    /\ Enter("backup", page.base)
    /\ UNCHANGED <<hist, page, draft, late, sent, done>>

\* The file is offered only when it is what the page shows; else the draft is dropped.
BackupRead ==
    /\ Answered("backup", "get") /\ Good /\ Leave
    /\ page' = IF View(op.reply.doc) = op.data THEN page ELSE Invalidated(page)
    /\ UNCHANGED <<hist, draft, late, sent, done>>

-----------------------------------------------------------------------------
(* A change of the SMB/NFS view: built from the loaded document or from a  *)
(* backup file, reviewed against it, saved.                                *)

BeginPreview ==
    /\ page.base # None /\ page.att = None
    /\ \E f \in FileServices \ {page.base.fs} :
          Enter("preview", [rev |-> page.base.rev + 1, fs |-> f])
    /\ page' = Invalidated(page)
    /\ UNCHANGED <<hist, draft, late, sent, done>>

BeginRestore ==
    /\ page.base # None /\ page.att = None
    /\ Enter("restore", [expected |-> page.base.rev, backup |-> OldText])
    /\ page' = Invalidated(page)
    /\ UNCHANGED <<hist, draft, late, sent, done>>

\* readServiceBackupFile; the selected file and the form must be what they were.
FileRead ==
    /\ Waiting("file")
    /\ IF op.moved THEN Leave ELSE Onward(op.data)
    /\ UNCHANGED <<hist, page, draft, late, sent, done>>

PreviewSession(kind) ==
    /\ Answered(kind, "session") /\ Good
    /\ IF op.moved THEN Leave ELSE Onward(op.data)
    /\ UNCHANGED <<hist, page, draft, late, sent, done>>

\* showServiceCandidate: the review on the screen compares c with the loaded document.
ShowServiceCandidate(kind) ==
    /\ Answered(kind, "validate") /\ Good /\ Leave
    /\ page' = IF op.moved THEN page
               ELSE [page EXCEPT !.cand = [kind |-> "save", n |-> 0, against |-> page.base,
                                           doc |-> IF kind = "preview" THEN op.data ELSE op.reply.doc]]
    /\ UNCHANGED <<hist, draft, late, sent, done>>

BeginSave ==
    /\ page.cand # None /\ page.att = None
    /\ Enter("save", page.cand)
    /\ page' = [page EXCEPT !.says = None]
    /\ UNCHANGED <<hist, draft, late, sent, done>>

Put(c) == /\ sent < MaxSaves /\ c.doc.rev <= MaxRevision
          /\ sent' = sent + 1
          /\ Onward([c EXCEPT !.n = sent + 1])

\* Mutant: the change is not looked at again once the session has answered.
PutServiceAnyway ==
    /\ Answered("save", "session") /\ Good
    /\ Put(op.data)
    /\ page' = [Invalidated(page) EXCEPT !.att = [op.data EXCEPT !.n = sent + 1], !.owed = TRUE]
    /\ UNCHANGED <<hist, draft, late, done>>

PutService ==
    /\ Answered("save", "session") /\ Good
    /\ IF page.cand # op.data THEN Leave /\ UNCHANGED <<page, sent>>
       ELSE /\ Put(op.data)
            /\ page' = [Invalidated(page) EXCEPT !.att = [op.data EXCEPT !.n = sent + 1], !.owed = TRUE]
    /\ UNCHANGED <<hist, draft, late, done>>

ServiceSaved ==
    /\ Answered("save", "put") /\ Good /\ Leave
    /\ page' = [page EXCEPT !.base = op.data.doc, !.att = None, !.owed = FALSE,
                            !.says = [claim |-> "saved", save |-> op.data]]
    /\ UNCHANGED <<hist, draft, late, sent, done>>

-----------------------------------------------------------------------------
(* The complete policy: from a backup file, from a save to settle, or from *)
(* a staged iSCSI draft.                                                   *)

BeginNASRestore ==
    /\ page.att = None
    /\ \/ page.nasAtt = None /\ Enter("nasRestore", [backup |-> OldText, pending |-> None, source |-> None])
       \/ page.nasAtt # None /\ Enter("nasReview", [backup |-> page.nasAtt.doc, pending |-> page.nasAtt, source |-> None])
    /\ page' = [Invalidated(page) EXCEPT !.says = None]
    /\ UNCHANGED <<hist, draft, late, sent, done>>

ReviewISCSIDraftSave ==
    /\ draft.staged # None /\ draft.check = None /\ page.nasAtt = None /\ page.att = None
    /\ Enter("nasReview", [backup |-> draft.staged.text, pending |-> None, source |-> draft.staged])
    /\ page' = [Invalidated(page) EXCEPT !.says = None]
    /\ UNCHANGED <<hist, draft, late, sent, done>>

\* The document to compare with.  A draft that began from another one is refused.
NASBefore(kind) ==
    /\ Answered(kind, "get") /\ Good
    /\ IF op.moved THEN Leave /\ UNCHANGED page
       ELSE IF op.data.source # None /\ op.data.source.base # op.reply.doc
            THEN Leave /\ page' = Invalidated(page)
            ELSE /\ Onward([backup |-> op.data.backup, pending |-> op.data.pending, source |-> op.data.source,
                            before |-> op.reply.doc, expected |-> op.reply.doc.rev])
                 /\ UNCHANGED page
    /\ UNCHANGED <<hist, draft, late, sent, done>>

NASReviewed(kind) ==
    /\ Answered(kind, "validate") /\ Good /\ Leave
    /\ LET d == op.data
           r == op.reply
           p == [page EXCEPT !.base = None, !.owed = FALSE] IN
       page' = IF op.moved THEN page
               ELSE [p EXCEPT !.nasAtt = IF d.pending # None THEN None ELSE @,
                              !.says = IF d.pending = None THEN @
                                       ELSE [claim |-> IF r.matches THEN "matches" ELSE "differs", save |-> d.pending],
                              !.nasCand = IF r.matches \/ d.pending # None THEN None
                                          ELSE [kind |-> "nasSave", n |-> 0, doc |-> r.doc, against |-> d.before,
                                                source |-> d.source]]
    /\ UNCHANGED <<hist, draft, late, sent, done>>

BeginNASSave ==
    /\ page.nasCand # None /\ page.nasAtt = None /\ page.att = None
    /\ Enter("nasSave", page.nasCand)
    /\ page' = [page EXCEPT !.says = None]
    /\ UNCHANGED <<hist, draft, late, sent, done>>

PutNAS ==
    /\ Answered("nasSave", "session") /\ Good
    /\ IF page.nasCand # op.data THEN Leave /\ UNCHANGED <<page, sent>>
       ELSE IF op.data.source # None /\ op.data.source # draft.staged
       THEN Leave /\ page' = Invalidated(page) /\ UNCHANGED sent
       ELSE /\ Put(op.data)
            /\ page' = [Invalidated(page) EXCEPT !.nasAtt = [op.data EXCEPT !.n = sent + 1], !.owed = TRUE]
    /\ UNCHANGED <<hist, draft, late, done>>

NASSaved ==
    /\ Answered("nasSave", "put") /\ Good /\ Leave
    /\ page' = [page EXCEPT !.nasAtt = None, !.owed = FALSE,
                            !.says = [claim |-> "saved", save |-> op.data]]
    /\ UNCHANGED <<hist, draft, late, sent, done>>

-----------------------------------------------------------------------------
(* An operation fails: refused, unreadable or out of time.                 *)

\* Mutant: the save that failed is forgotten.
FailedForgets(why) ==
    page' = [Invalidated(page) EXCEPT
               !.att = None,
               !.says = IF page.att = None THEN @
                        ELSE [claim |-> IF why = 409 THEN "refused" ELSE "unknown", save |-> page.att]]

\* Mutant: whatever the server answered but 200 is a refusal.
FailedRefused(why) ==
    page' = [Invalidated(page) EXCEPT
               !.says = IF page.att = None THEN @
                        ELSE [claim |-> IF why # 0 THEN "refused" ELSE "unknown", save |-> page.att]]

\* What the catch branch of serviceOperation leaves: the review goes, the save that
\* was sent stays to be settled.
Failed(why) ==
    page' = [Invalidated(page) EXCEPT
               !.says = IF page.att = None THEN @
                        ELSE [claim |-> IF why = 409 THEN "refused" ELSE "unknown", save |-> page.att]]

\* clearServicePolicy, clearPolicyDraft and clearISCSIPreview: sign-out, a password
\* change, or the page learning (a 401 among others) that its session is gone.
Clear ==
    /\ page # NoPage \/ op # None \/ draft # NoDraft
    /\ page' = [NoPage EXCEPT !.owed = page.owed]
    /\ op' = None /\ draft' = NoDraft /\ Abandoned
    /\ UNCHANGED <<hist, sent, done>>

Fail ==
    /\ op # None /\ op.reply # None /\ op.reply.status # 200
    /\ Failed(op.reply.status) /\ Leave
    /\ UNCHANGED <<hist, draft, late, sent, done>>

Timeout == /\ op # None /\ Failed(0) /\ Leave /\ Abandoned
           /\ UNCHANGED <<hist, draft, sent, done>>

-----------------------------------------------------------------------------
(* The form, the selected files and the iSCSI draft.                       *)

Moved(o) == IF o = None THEN None ELSE [o EXCEPT !.moved = TRUE]

\* invalidatePolicyPreview, and a change of either file selection.
EditForm == /\ page' = Invalidated(page) /\ op' = Moved(op)
            /\ UNCHANGED <<hist, draft, late, sent, done>>

\* retireISCSIPreview: what was staged or being checked goes with the old text.
Retired(text) ==
    /\ draft' = [text |-> text, staged |-> None, check |-> None,
                 origin |-> IF draft.origin # None /\ draft.origin.text = text THEN draft.origin ELSE None]
    /\ IF draft.staged # None THEN page' = Invalidated(page) /\ op' = Moved(op)
       ELSE UNCHANGED <<page, op>>

TypeDraft == /\ draft.text # OldText /\ Retired(OldText)
             /\ UNCHANGED <<hist, late, sent, done>>

BeginISCSILoad ==
    /\ draft.check = None /\ page.att = None
    /\ Enter("iscsiLoad", draft.text)
    /\ page' = Invalidated(page)
    /\ draft' = [draft EXCEPT !.staged = None]
    /\ UNCHANGED <<hist, late, sent, done>>

ISCSILoaded ==
    /\ Answered("iscsiLoad", "get") /\ Good /\ Leave
    /\ draft' = IF draft.text = op.data /\ draft.check = None
                THEN [draft EXCEPT !.text = op.reply.doc, !.origin = None] ELSE draft
    /\ UNCHANGED <<hist, page, late, sent, done>>

\* submitISCSIPreview with a guided edit: both texts are validated, then the new one
\* is put in the place of the old.
BeginGuidedEdit ==
    /\ draft.text # None /\ draft.check = None /\ draft.text.rev < MaxRevision
    /\ ~(op # None /\ op.kind = "iscsiLoad")
    /\ \E i \in ISCSI \ {draft.text.is} :
          draft' = [draft EXCEPT !.staged = None,
                                 !.check = [draft.text EXCEPT !.rev = @ + 1, !.is = i]]
    /\ IF draft.staged # None THEN page' = Invalidated(page) /\ op' = Moved(op)
       ELSE UNCHANGED <<page, op>>
    /\ UNCHANGED <<hist, late, sent, done>>

GuidedEdit ==
    /\ draft.check # None
    /\ \/ LET s == [base |-> IF draft.origin # None /\ draft.origin.text = draft.text
                             THEN draft.origin.base ELSE draft.text,
                    text |-> draft.check] IN
          /\ draft' = [text |-> draft.check, origin |-> s, staged |-> s, check |-> None]
          /\ page' = Invalidated(page) /\ op' = Moved(op)
       \/ draft' = [draft EXCEPT !.check = None] /\ UNCHANGED <<page, op>>
    /\ UNCHANGED <<hist, late, sent, done>>

-----------------------------------------------------------------------------

Service == \/ BeginLoad \/ Loaded \/ BeginBackup \/ BackupRead
           \/ BeginPreview \/ BeginRestore \/ FileRead
           \/ \E kind \in {"preview", "restore"} : ShowServiceCandidate(kind)
           \/ \E kind \in {"preview", "restore", "nasRestore", "nasReview"} : PreviewSession(kind)
           \/ BeginSave \/ PutService \/ ServiceSaved

NAS == \/ BeginNASRestore \/ ReviewISCSIDraftSave
       \/ \E kind \in {"nasRestore", "nasReview"} : NASBefore(kind) \/ NASReviewed(kind)
       \/ BeginNASSave \/ PutNAS \/ NASSaved

User == EditForm \/ TypeDraft \/ BeginISCSILoad \/ ISCSILoaded \/ BeginGuidedEdit \/ GuidedEdit

Next == Server \/ (\E save \in late : LateSave(save)) \/ OtherAdministrator
        \/ Service \/ NAS \/ Fail \/ Timeout \/ Clear \/ User

Spec == Init /\ [][Next]_vars

-----------------------------------------------------------------------------

TypeOK ==
    /\ \A n \in 1..Len(hist) : hist[n] \in Documents /\ hist[n].rev = n
    /\ sent \in 0..MaxSaves

\* This step carries out a save, awaited or late.
Carries(save) == save.n \in done' \ done

(***************************************************************************)
(* A save of the page, however late it arrives, takes effect only over the *)
(* very document its review was compared with, and it was sent while that  *)
(* review was still on the screen (saveServiceChange looks at the          *)
(* candidate again after the session answered, the store compares          *)
(* revisions).  The SMB/NFS view leaves the iSCSI definitions alone.       *)
(***************************************************************************)
SavesWhatWasReviewed ==
    [][/\ sent' # sent => op.data \in {page.cand, page.nasCand}
       /\ \A save \in late \cup (IF Waiting("put") THEN {op.data} ELSE {}) : Carries(save) =>
             /\ save.against = IF save.kind = "save" THEN View(Current) ELSE Current
             /\ Last(hist') = Takes(Current, save)]_vars

(***************************************************************************)
(* After a save whose outcome the page does not know, it sends another one *)
(* only once it has read the saved policy again: `attempted` blocks both   *)
(* views, and signing out drops what a new review would start from.        *)
(***************************************************************************)
NoBlindSave == [][sent' # sent => ~page.owed]_vars

(***************************************************************************)
(* What the page says of a save is so: confirmed saved means this very     *)
(* document became a revision of the store, and refused (409) that it did  *)
(* not and is no longer on its way.                                        *)
(***************************************************************************)
SaysWhatHappened ==
    page.says # None =>
        LET save == page.says.save IN
        /\ page.says.claim = "saved" =>
              /\ save.doc.rev <= Len(hist)
              /\ save.doc = IF save.kind = "save" THEN View(hist[save.doc.rev]) ELSE hist[save.doc.rev]
        /\ page.says.claim = "refused" => save.n \notin done /\ save \notin late
=============================================================================

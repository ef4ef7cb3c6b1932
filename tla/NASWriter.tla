----------------------------- MODULE NASWriter -----------------------------
(***************************************************************************)
(* internal/revisionstore, the confirmed NAS owner: NASOwnerBootstrap      *)
(* observes the policy directory and turns into an owner once a trusted    *)
(* parent confirms the exact bytes; the owner publishes a policy as a      *)
(* sequence of durable files: base, intent, (old receipt retired,)         *)
(* current, receipt.  A commit that stops anywhere leaves evidence, and    *)
(* the next start reads it; nothing is repaired automatically.             *)
(*                                                                         *)
(* Each file is staged under the pending name, synced, renamed, and the    *)
(* directory synced.  Any call may fail, possibly after it took effect;    *)
(* the process may be killed and the machine lose power anywhere.  Other   *)
(* programs leave the directory alone (OwnedPolicy is about those), so the *)
(* watch shows exactly the owner's own events.                             *)
(***************************************************************************)
EXTENDS Naturals, FiniteSets, Sequences

-----------------------------------------------------------------------------
(***************************************************************************)
(* internal/naspolicyevidence: what the files of the NAS policy directory  *)
(* say about the last publication.  A directory is a record with the       *)
(* current policy, the base it replaced, the intent and the receipt of the *)
(* operation (None when absent) and whether a pending file is there.  A    *)
(* document stands for its revision and its digest; the installation       *)
(* header is always there and always this installation's.                  *)
(***************************************************************************)
CONSTANTS Vals,        \* contents of valid policies
          OperationIds,
          None,        \* no such file
          MaxRevision  \* bound: revisions 1..MaxRevision

Docs == [rev : 1..MaxRevision, val : Vals]
Records == [op : OperationIds, base : Docs, next : Docs]
Roles == {"base", "intent", "current", "receipt"}
Dirs == [base : Docs \cup {None}, intent : Records \cup {None}, current : Docs \cup {None},
         receipt : Records \cup {None}, pending : BOOLEAN]

ASSUME NoneIsNoFile == None \notin Docs \cup Records

Kinds == {"Unavailable", "InvalidPolicy", "NoRecordedOperation", "UnconfirmedBase",
          "UnconfirmedPublication", "MatchingLocalRecords", "Inconsistent"}

\* The records, once there is a valid policy and an intent to compare it with.
Matches(current, intent, receipt) ==
    CASE receipt = None /\ current = intent.base -> "UnconfirmedBase"
      [] receipt = None /\ current = intent.next -> "UnconfirmedPublication"
      [] receipt = intent /\ current = intent.next -> "MatchingLocalRecords"
      [] OTHER -> "Inconsistent"

Inspect(current, intent, receipt) ==
    IF current = None THEN "Unavailable"
    ELSE IF current \notin Docs THEN "InvalidPolicy"
    ELSE IF intent = None /\ receipt = None THEN "NoRecordedOperation"
    ELSE IF intent = None \/ intent.next.rev # intent.base.rev + 1 THEN "Inconsistent"
    ELSE Matches(current, intent, receipt)

\* nasEvidenceKind: a base must be the intent's, and a pending file decides.
Kind(d) ==
    LET kind == Inspect(d.current, d.intent, d.receipt)
    IN CASE d.pending -> "Inconsistent"
         [] d.base = None \/ kind \in {"Unavailable", "InvalidPolicy", "Inconsistent"} -> kind
         [] kind = "NoRecordedOperation" \/ d.base # d.intent.base -> "Inconsistent"
         [] OTHER -> kind

\* Files in the directory, the installation header included.
RoleCount(d) == 1 + Cardinality({r \in Roles : d[r] # None}) + IF d.pending THEN 1 ELSE 0

\* Mutant: a publication without a receipt is taken for complete.
EligibleUnconfirmed(d) ==
    \/ Kind(d) = "NoRecordedOperation" /\ RoleCount(d) = 2
    \/ Kind(d) = "MatchingLocalRecords" /\ RoleCount(d) = 5
    \/ Kind(d) = "UnconfirmedPublication"

\* What a writer may be opened on: nothing recorded, or a complete operation.
Eligible(d) ==
    \/ Kind(d) = "NoRecordedOperation" /\ RoleCount(d) = 2
    \/ Kind(d) = "MatchingLocalRecords" /\ RoleCount(d) = 5

\* EncodeOperation refuses a next document that does not follow its base.
CanEncode(base, next, transitions) ==
    next.rev = base.rev + 1 /\ <<base.val, next.val>> \in transitions

-----------------------------------------------------------------------------
(* The owner and its commit.                                               *)
CONSTANTS Transitions    \* pairs of contents ValidateRetainedNFSBindings accepts

ASSUME TransitionsAssumption == Transitions \subseteq Vals \X Vals

VARIABLES
    dir,       \* the directory, as any process sees it
    disk,      \* the directories a power loss may leave
    life,      \* "none", "boot" (NASOwnerBootstrap) or "owner"
    seen,      \* NASOwnerBootstrap.seen
    review,    \* the review flag, sticky for the life of the process
    baseline,  \* nasWriter.files
    call,      \* the Commit in progress
    ret,       \* the result of the last call
    wrote,     \* history: this Commit touched the directory
    acked      \* history: documents whose Commit returned nil

vars == <<dir, disk, life, seen, review, baseline, call, ret, wrote, acked>>

\* The order in which Commit publishes.
Steps == <<"base", "intent", "current", "receipt">>
Idle == [phase |-> "-", step |-> 1, base |-> None, next |-> None, op |-> None]
Busy == call.phase # "-"

Record == [op |-> call.op, base |-> call.base, next |-> call.next]
Role == Steps[call.step]
\* What Commit writes under the role.
Data == CASE Role = "base" -> call.base
          [] Role = "current" -> call.next
          [] OTHER -> Record

Phases == {"retire", "retireSync", "retireCheck", "stage", "rename", "syncDir", "check"}
Commits == [phase : Phases, step : 1..4, base : Docs, next : Docs, op : OperationIds]

TypeOK ==
    /\ dir \in Dirs /\ disk \in SUBSET Dirs /\ dir \in disk
    /\ life \in {"none", "boot", "owner"} /\ seen \in BOOLEAN /\ review \in BOOLEAN
    /\ baseline \in Dirs \cup {None}
    /\ call \in Commits \cup {Idle}
    /\ ret \in {"-", "nil", "ErrReview", "ErrConflict", "ErrInvalid", "ErrClosed"}
    /\ wrote \in BOOLEAN /\ acked \in SUBSET Docs

\* A provisioned directory: a policy and the header, nothing recorded.
Init ==
    /\ \E d \in Docs : dir = [base |-> None, intent |-> None, current |-> d,
                              receipt |-> None, pending |-> FALSE]
    /\ disk = {dir}
    /\ life = "none" /\ seen = FALSE /\ review = FALSE /\ baseline = None
    /\ call = Idle /\ ret = "-" /\ wrote = FALSE /\ acked = {}

Returns(res) == call' = Idle /\ ret' = res

\* The deferred function of Commit, and quarantineLocked above it.
Review == review' = TRUE /\ Returns("ErrReview")

Goto(p) == call' = [call EXCEPT !.phase = p] /\ UNCHANGED ret

Same == UNCHANGED <<life, seen, baseline>>

\* The process, and all it knew, is gone.
Dies ==
    /\ life' = "none" /\ seen' = FALSE /\ review' = FALSE /\ baseline' = None
    /\ call' = Idle /\ ret' = "-" /\ wrote' = FALSE
    /\ UNCHANGED acked

-----------------------------------------------------------------------------
(* NASOwnerBootstrap.                                                      *)

OpenBootstrap ==
    /\ life = "none"
    /\ life' = "boot" /\ seen' = FALSE /\ review' = FALSE /\ baseline' = None
    /\ ret' = "-" /\ wrote' = FALSE
    /\ UNCHANGED <<dir, disk, call, acked>>

\* Observe; any failed read is review too.
Observe ==
    /\ life = "boot"
    /\ IF review
       THEN ret' = "ErrReview" /\ UNCHANGED <<seen, review>>
       ELSE \/ Eligible(dir) /\ seen' = TRUE /\ ret' = "nil" /\ UNCHANGED review
            \/ review' = TRUE /\ ret' = "ErrReview" /\ UNCHANGED seen
    /\ UNCHANGED <<dir, disk, life, baseline, call, wrote, acked>>

\* nasWriter.confirm: an eligible directory whose policy is the one the parent
\* knows.  Nothing is synced.
Admits(known) == Eligible(dir) /\ dir.current = known

Confirm(known) ==
    /\ life = "boot"
    /\ IF review \/ ~seen
       THEN /\ ret' = IF review THEN "ErrReview" ELSE "ErrInvalid"
            /\ UNCHANGED <<life, review, baseline>>
       ELSE \/ /\ Admits(known)
               /\ life' = "owner" /\ baseline' = dir /\ ret' = "nil"
               /\ UNCHANGED review
            \/ review' = TRUE /\ ret' = "ErrReview" /\ UNCHANGED <<life, baseline>>
    /\ UNCHANGED <<dir, disk, seen, call, wrote, acked>>

\* Close of the bootstrap, or of an owner without leases.
Close == life # "none" /\ ~Busy /\ Dies /\ UNCHANGED <<dir, disk>>

-----------------------------------------------------------------------------
(* OwnedStore.Commit over the NAS backend.                                 *)

\* capture: the directory is as the writer left it, with clean records.
Captures == dir = baseline /\ Kind(dir) \in {"NoRecordedOperation", "MatchingLocalRecords"}

CommitError(expected, next, op) ==
    CASE expected # dir.current.rev -> "ErrConflict"
      [] next.rev # expected + 1 -> "ErrInvalid"
      [] dir.intent # None /\ dir.intent.op = op -> "ErrConflict"
      [] ~CanEncode(dir.current, next, Transitions) -> "ErrInvalid"
      [] OTHER -> "-"

Commit(expected, next, op) ==
    /\ life = "owner" /\ ~Busy
    /\ wrote' = FALSE
    /\ \/ /\ ~review /\ Captures
          /\ LET err == CommitError(expected, next, op)
             IN IF err = "-"
                THEN /\ call' = [phase |-> "stage", step |-> 1, base |-> dir.current, next |-> next, op |-> op]
                     /\ ret' = "-"
                ELSE Returns(err)
          /\ UNCHANGED review
       \/ Review                  \* under review, or a read or the random source failed
    /\ UNCHANGED <<dir, disk, acked>> /\ Same

\* A step that changes the directory to d and goes on to phase p, or fails with
\* or without its effect.
Changes(d, p) ==
    /\ disk' = disk \cup {d} /\ wrote' = TRUE
    /\ \/ dir' = d /\ Goto(p) /\ UNCHANGED review
       \/ dir' = d /\ Review
       \/ dir' = dir /\ Review
    /\ UNCHANGED acked /\ Same

\* The directory is synced: what a process sees is what a power loss leaves.
Syncs(p) ==
    /\ \/ disk' = {dir} /\ Goto(p) /\ UNCHANGED review
       \/ UNCHANGED disk /\ Review
    /\ UNCHANGED <<dir, wrote, acked>> /\ Same

RetireReceipt == call.phase = "retire" /\ Changes([dir EXCEPT !.receipt = None], "retireSync")
RetireSync == call.phase = "retireSync" /\ Syncs("retireCheck")

\* stageNASEvidenceRole: create, write, sync and close the pending file; an
\* existing one is evidence, never overwritten.
Stage ==
    /\ call.phase = "stage"
    /\ IF dir.pending
       THEN Review /\ UNCHANGED <<dir, disk, wrote, acked>> /\ Same
       ELSE Changes([dir EXCEPT !.pending = TRUE], "rename")

Rename == call.phase = "rename" /\ Changes([dir EXCEPT ![Role] = Data, !.pending = FALSE], "syncDir")

SyncDir == call.phase = "syncDir" /\ Syncs("check")

\* Mutant: the old receipt is left in place until the new one replaces it.
StartWithoutRetiring(step, d) == "stage"

\* The phase the next file starts in: an old receipt is retired before the
\* policy it does not belong to appears.
StartOf(step, d) == IF Steps[step] = "current" /\ d.receipt # None THEN "retire" ELSE "stage"

\* refresh: the directory is the last one seen, with this one change.
Refreshes(expected) == dir = expected /\ baseline' = dir /\ UNCHANGED <<life, seen>>

RetireCheck ==
    /\ call.phase = "retireCheck"
    /\ \/ /\ Refreshes([baseline EXCEPT !.receipt = None])
          /\ Goto("stage") /\ UNCHANGED review
       \/ Review /\ Same
    /\ UNCHANGED <<dir, disk, wrote, acked>>

\* The owner's own events and nothing else, then refresh.  The receipt is the
\* last file, and the records must match then.
Check ==
    /\ call.phase = "check"
    /\ \/ /\ Refreshes([baseline EXCEPT ![Role] = Data])
          /\ IF Role # "receipt"
             THEN /\ call' = [call EXCEPT !.step = @ + 1, !.phase = StartOf(call.step + 1, dir)]
                  /\ UNCHANGED <<review, ret, acked>>
             ELSE IF Kind(dir) = "MatchingLocalRecords"
             THEN Returns("nil") /\ acked' = acked \cup {call.next} /\ UNCHANGED review
             ELSE Review /\ UNCHANGED acked
       \/ Review /\ Same /\ UNCHANGED acked
    /\ UNCHANGED <<dir, disk, wrote>>

-----------------------------------------------------------------------------
(* The environment.                                                        *)

Kill == life # "none" /\ Dies /\ UNCHANGED <<dir, disk>>

PowerLoss == dir' \in disk /\ disk' = {dir'} /\ Dies

Next ==
    \/ OpenBootstrap \/ Observe \/ Close
    \/ \E d \in Docs : Confirm(d)
    \/ \E r \in 1..MaxRevision, d \in Docs, op \in OperationIds : Commit(r, d, op)
    \/ RetireReceipt \/ RetireSync \/ RetireCheck
    \/ Stage \/ Rename \/ SyncDir \/ Check
    \/ Kill \/ PowerLoss

Spec == Init /\ [][Next]_vars

-----------------------------------------------------------------------------
(* Properties.                                                             *)

\* A policy whose Commit returned nil is never lost, only replaced by a later one;
\* and, although the bootstrap syncs nothing, what an owner serves survives a power
\* loss: the records it was admitted on, or its own commits, only exist once the
\* policy is durable.
PolicySurvives ==
    /\ \A a \in acked, d \in disk : a = d.current \/ a.rev < d.current.rev
    /\ life = "owner" /\ ~Busy /\ ~review => \A d \in disk : d.current = dir.current

\* What the records of any directory a crash can leave say is true: matching
\* records, the publication is durable; unconfirmed ones, nobody was told it
\* succeeded; none at all, nothing was ever acknowledged.  And whoever recovers can
\* say which of two policies is current: an interrupted commit leaves the base it
\* started from or the policy it was writing, both named by an intent that was
\* durable first, and the records say which.
EvidenceTrue ==
    /\ \A d \in disk :
          /\ Kind(d) = "MatchingLocalRecords" => \A e \in disk : e.current = d.current
          /\ Kind(d) \in {"UnconfirmedBase", "UnconfirmedPublication"} => d.intent.next \notin acked
          /\ Kind(d) = "NoRecordedOperation" => acked = {}
    /\ \A d, e \in disk : d.current # e.current =>
          /\ d.intent # None /\ d.intent = e.intent
          /\ {d.current, e.current} = {d.intent.base, d.intent.next}
          /\ d.pending \/ Kind(d) \in {"UnconfirmedBase", "UnconfirmedPublication"}
=============================================================================

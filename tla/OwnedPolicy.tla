---------------------------- MODULE OwnedPolicy ----------------------------
(***************************************************************************)
(* internal/revisionstore OwnedStore: the one owner of an initialized      *)
(* policy document.  It serves the document, grants leases on a revision,  *)
(* and publishes the next revision while no lease is live.  It trusts a    *)
(* read only if an inotify watch on the directory stayed silent around it  *)
(* and the metadata and digest equal the baseline; anything else puts it   *)
(* under review for good.                                                  *)
(*                                                                         *)
(* OwnedStore.mu runs one call at a time, so a call is a sequence of       *)
(* phases.  Between any two of them another program may touch the          *)
(* directory and the caller's context may be cancelled.  Store.Commit is   *)
(* reduced to what RevisionStore shows of it: nothing, or the next         *)
(* document under the current name, known or not.                          *)
(***************************************************************************)
EXTENDS Naturals, FiniteSets

CONSTANTS Contents,       \* contents of valid documents
          Lease,          \* lease objects
          None,           \* no document, no lease, no observation
          Bad,            \* a file that does not decode
          MaxPublished,   \* bound: revisions 1..MaxPublished
          MaxForeign,     \* bound: changes other programs make
          maxPolicyLeases

Policies == [rev : 1..MaxPublished, val : Contents]

ASSUME OwnedAssumption ==
    /\ MaxPublished \in Nat \ {0} /\ MaxForeign \in Nat /\ maxPolicyLeases \in Nat
    /\ IsFiniteSet(Lease) /\ None \notin Policies /\ Bad \notin Policies \cup {None}

VARIABLES
    current,      \* the current document, None when missing, Bad when undecodable
    stamp,        \* its metadata and the directory's
    queue,        \* the watch has an event nobody has read
    life,         \* "none", "live" or "closed"
    review,       \* OwnedStore.review
    closeFailed,  \* OwnedStore.closeFailed
    baseline,     \* OwnedStore.baseline: [doc, stamp]
    leases,       \* revision of every live lease, 0 for the others
    call,         \* the call that holds OwnedStore.mu
    cancelled,    \* its context is done
    answer,       \* the last call and its result
    pub,          \* history: the document last opened or written by the owner
    wrote,        \* history: this Commit may have replaced the current document
    tainted,      \* history: another program changed the directory under this watch
    everTainted,  \* history: and under this owner
    foreign       \* how many changes other programs made

dirVars == <<current, stamp, queue>>
ownVars == <<life, review, closeFailed, baseline, leases>>
history == <<pub, wrote, tainted, everTainted, foreign>>
ownerVars == <<dirVars, ownVars, call, cancelled, answer, history>>

Ops == {"Open", "Snapshot", "Acquire", "LeaseSnapshot", "Commit"}
Phases == {"quiet", "stat", "decode", "restat", "quiet2", "cas", "publish", "epoch"}
Idle == [op |-> "-", phase |-> "-", lease |-> None, expected |-> 0, next |-> None,
         before |-> None, doc |-> None, dirty |-> FALSE, everDirty |-> FALSE]
Busy == call.op # "-"
Live == {l \in Lease : leases[l] # 0}
Outcomes == {"-", "nil", "ErrReview", "ErrClosed", "ErrConflict", "ErrInvalid", "ErrBusy",
            "ErrNotInitialized", "ctx"}

Calls == [op : Ops \cup {"-"}, phase : Phases \cup {"-"}, lease : Lease \cup {None},
          expected : 0..MaxPublished, next : Policies \cup {None}, before : Nat \cup {None},
          doc : Policies \cup {None}, dirty : BOOLEAN, everDirty : BOOLEAN]
Returned == [op : Ops \cup {"-"}, res : Outcomes, doc : Policies \cup {None},
             dirty : BOOLEAN, everDirty : BOOLEAN]

OwnerTypeOK ==
    /\ current \in Policies \cup {None, Bad} /\ stamp \in Nat /\ queue \in BOOLEAN
    /\ life \in {"none", "live", "closed"}
    /\ review \in BOOLEAN /\ closeFailed \in BOOLEAN
    /\ baseline \in [doc : Policies, stamp : Nat] \cup {None}
    /\ leases \in [Lease -> 0..MaxPublished]
    /\ Cardinality(Live) <= maxPolicyLeases
    /\ call \in Calls /\ cancelled \in BOOLEAN /\ answer \in Returned
    /\ pub \in Policies \cup {None} /\ wrote \in BOOLEAN
    /\ tainted \in BOOLEAN /\ everTainted \in BOOLEAN /\ foreign \in 0..MaxForeign

OwnerInit ==
    /\ current \in Policies \cup {None} /\ stamp = 0 /\ queue = FALSE
    /\ life = "none" /\ review = FALSE /\ closeFailed = FALSE /\ baseline = None
    /\ leases = [l \in Lease |-> 0]
    /\ call = Idle /\ cancelled = FALSE
    /\ answer = [op |-> "-", res |-> "-", doc |-> None, dirty |-> FALSE, everDirty |-> FALSE]
    /\ pub = None /\ wrote = FALSE /\ tainted = FALSE /\ everTainted = FALSE /\ foreign = 0

\* The call is over: OwnedStore.mu is released.
Finish(res, doc) ==
    /\ call' = Idle /\ cancelled' = FALSE
    /\ answer' = [op |-> call.op, res |-> res, doc |-> doc,
               dirty |-> call.dirty, everDirty |-> call.everDirty]

At(p) == Busy /\ call.phase = p
Enter(p) == call' = [call EXCEPT !.phase = p] /\ UNCHANGED <<cancelled, answer>>

\* quarantineLocked
Quarantine ==
    /\ review' = TRUE
    /\ Finish("ErrReview", None)
    /\ UNCHANGED <<life, closeFailed, baseline, leases>>

\* A failed open closes the owner again; it has no leases yet.
Abandon(res) ==
    /\ life' = "closed"
    /\ Finish(res, None)
    /\ UNCHANGED <<review, closeFailed, baseline, leases>>

Fails == IF call.op = "Open" THEN Abandon("ErrReview") ELSE Quarantine

-----------------------------------------------------------------------------
(* The start of a call.                                                    *)

\* A call takes the mutex, and checkLocked lets it pass or ends it.
Begin(op, l, expected, next) ==
    /\ ~Busy
    /\ \E done \in BOOLEAN :
       LET check == CASE op = "LeaseSnapshot" /\ leases[l] = 0 -> "ErrClosed"
                      [] review \/ closeFailed -> "ErrReview"
                      [] life = "closed" -> "ErrClosed"
                      [] done -> "ctx"
                      [] OTHER -> "-"
           started == [Idle EXCEPT !.op = op, !.phase = "quiet", !.lease = l, !.expected = expected,
                                   !.next = next]
       IN IF check = "-"
          THEN /\ call' = started
               /\ answer' = [answer EXCEPT !.op = "-", !.res = "-", !.doc = None]
          ELSE /\ answer' = [op |-> op, res |-> check, doc |-> None, dirty |-> FALSE, everDirty |-> FALSE]
               /\ UNCHANGED call
    /\ wrote' = FALSE
    /\ UNCHANGED <<dirVars, ownVars, cancelled, pub, tainted, everTainted, foreign>>

Snapshot == life # "none" /\ Begin("Snapshot", None, 0, None)
Acquire(expected) == life # "none" /\ Begin("Acquire", None, expected, None)
LeaseSnapshot(l) == life # "none" /\ Begin("LeaseSnapshot", l, 0, None)
CommitOwned(expected, next) == life # "none" /\ Begin("Commit", None, expected, next)

\* OpenOwnedWithCodec: the Store refuses what does not decode; then the first
\* watch is set and the document captured.
OpenOwned ==
    /\ ~Busy /\ life # "live" /\ ~closeFailed
    /\ IF current = Bad
       THEN /\ answer' = [answer EXCEPT !.op = "Open", !.res = "ErrInvalid", !.doc = None]
            /\ UNCHANGED <<queue, ownVars, call, pub, wrote, tainted, everTainted>>
       ELSE /\ queue' = FALSE /\ tainted' = FALSE /\ everTainted' = FALSE
            /\ life' = "live" /\ review' = FALSE /\ baseline' = None
            /\ call' = [Idle EXCEPT !.op = "Open", !.phase = "quiet"]
            /\ answer' = [answer EXCEPT !.op = "-", !.res = "-", !.doc = None]
            /\ wrote' = FALSE /\ pub' = None
            /\ UNCHANGED <<closeFailed, leases>>
    /\ UNCHANGED <<current, stamp, cancelled, foreign>>

\* Release removes a claim, also under review.
Release(l) ==
    /\ ~Busy /\ leases[l] # 0
    /\ leases' = [leases EXCEPT ![l] = 0]
    /\ UNCHANGED <<dirVars, life, review, closeFailed, baseline, call, cancelled, answer, history>>

\* Close keeps the flock while a lease is live; a failed close is final.
CloseOwned ==
    /\ ~Busy /\ life = "live"
    /\ \E failed \in BOOLEAN :
        IF Live # {}
        THEN UNCHANGED <<life, review, closeFailed>>
        ELSE /\ life' = "closed"
             /\ closeFailed' = failed
             /\ review' = (review \/ failed)
    /\ UNCHANGED <<dirVars, baseline, leases, call, cancelled, answer, history>>

-----------------------------------------------------------------------------
(* captureLocked: a read of the current file between two looks at the      *)
(* watch and two looks at the metadata.                                    *)

\* Any system call of the capture may fail.
CaptureFault ==
    /\ Busy /\ call.phase \in {"quiet", "stat", "decode", "restat", "quiet2", "epoch"}
    /\ Fails
    /\ UNCHANGED <<dirVars, history>>

Quiet ==
    /\ At("quiet")
    /\ IF queue THEN Fails ELSE Enter("stat") /\ UNCHANGED ownVars
    /\ UNCHANGED <<dirVars, history>>

\* The directory's metadata, then the open file's.
Stat ==
    /\ At("stat")
    /\ IF current = None
       THEN IF call.op = "Open" THEN Abandon("ErrNotInitialized") ELSE Fails
       ELSE /\ call' = [call EXCEPT !.phase = "decode", !.before = stamp]
            /\ UNCHANGED <<ownVars, cancelled, answer>>
    /\ UNCHANGED <<dirVars, history>>

\* The file may have been replaced or removed under its descriptor since.
Decode ==
    /\ At("decode")
    /\ IF current \in Policies
       THEN /\ call' = [call EXCEPT !.phase = "restat", !.doc = current,
                                    !.dirty = tainted, !.everDirty = everTainted]
            /\ UNCHANGED <<ownVars, cancelled, answer>>
       ELSE Fails
    /\ UNCHANGED <<dirVars, history>>

Restat ==
    /\ At("restat")
    /\ IF stamp # call.before \/ current = None THEN Fails ELSE Enter("quiet2") /\ UNCHANGED ownVars
    /\ UNCHANGED <<dirVars, history>>

\* The second look at the watch: only an empty queue lets the read count.
Trusted == ~queue

Observed == [doc |-> call.doc, stamp |-> call.before]

\* observeLocked: the read counts only if it equals the baseline.
SameAsBaseline == Observed = baseline

-----------------------------------------------------------------------------
(* What each call does with a trusted read.                                *)

FinishSnapshot ==
    /\ call.op = "Snapshot"
    /\ IF ~SameAsBaseline
       THEN Quarantine
       ELSE /\ IF cancelled THEN Finish("ctx", None) ELSE Finish("nil", call.doc)
            /\ UNCHANGED ownVars
    /\ UNCHANGED history

FinishAcquire ==
    /\ call.op = "Acquire"
    /\ IF ~SameAsBaseline
       THEN Quarantine
       ELSE LET err == CASE call.expected # baseline.doc.rev -> "ErrConflict"
                         [] Cardinality(Live) >= maxPolicyLeases -> "ErrBusy"
                         [] cancelled -> "ctx"
                         [] OTHER -> "nil"
            IN /\ Finish(err, None)
               /\ IF err = "nil"
                  THEN \E l \in Lease \ Live : leases' = [leases EXCEPT ![l] = call.expected]
                  ELSE UNCHANGED leases
               /\ UNCHANGED <<life, review, closeFailed, baseline>>
    /\ UNCHANGED history

FinishLeaseSnapshot ==
    /\ call.op = "LeaseSnapshot"
    /\ IF ~SameAsBaseline \/ leases[call.lease] # baseline.doc.rev
       THEN Quarantine
       ELSE /\ IF cancelled THEN Finish("ctx", None) ELSE Finish("nil", call.doc)
            /\ UNCHANGED ownVars
    /\ UNCHANGED history

FinishOpen ==
    /\ call.op = "Open"
    /\ baseline' = Observed /\ pub' = call.doc
    /\ Finish("nil", None)
    /\ UNCHANGED <<life, review, closeFailed, leases, wrote, tainted, everTainted, foreign>>

\* Mutant: Commit does not look at the leases.
ObserveForCommitUnfenced ==
    /\ call.op = "Commit" /\ ~wrote
    /\ IF ~SameAsBaseline
       THEN Quarantine
       ELSE Enter("cas") /\ UNCHANGED ownVars
    /\ UNCHANGED history

\* Commit's first read: leases fence it, and a done context still costs nothing.
ObserveForCommit ==
    /\ call.op = "Commit" /\ ~wrote
    /\ IF ~SameAsBaseline
       THEN Quarantine
       ELSE /\ IF Live # {} THEN Finish("ErrBusy", None)
               ELSE IF cancelled THEN Finish("ctx", None)
               ELSE Enter("cas")
            /\ UNCHANGED ownVars
    /\ UNCHANGED history

\* Mutant: the document read back is not compared with the one written.
FinishCommitUnverified ==
    /\ call.op = "Commit" /\ wrote
    /\ baseline' = Observed
    /\ IF cancelled
       THEN review' = TRUE /\ Finish("ErrReview", None)
       ELSE Finish("nil", None) /\ UNCHANGED review
    /\ UNCHANGED <<life, closeFailed, leases, history>>

\* Its second read, under the new watch, must show what it wrote.
FinishCommit ==
    /\ call.op = "Commit" /\ wrote
    /\ baseline' = Observed
    /\ IF call.doc # call.next \/ cancelled
       THEN review' = TRUE /\ Finish("ErrReview", None)
       ELSE Finish("nil", None) /\ UNCHANGED review
    /\ UNCHANGED <<life, closeFailed, leases, history>>

Quiet2 ==
    /\ At("quiet2")
    /\ IF Trusted
       THEN \/ FinishSnapshot \/ FinishAcquire \/ FinishLeaseSnapshot
            \/ FinishOpen \/ ObserveForCommit \/ FinishCommit
       ELSE Fails /\ UNCHANGED history
    /\ UNCHANGED dirVars

-----------------------------------------------------------------------------
(* The publication.                                                        *)

\* Store.Commit reads the current file again and compares revisions.
CompareRevision ==
    /\ At("cas")
    /\ \/ LET err == CASE call.next.rev # call.expected + 1 -> "ErrConflict"
                       [] current = Bad -> "ErrInvalid"
                       [] (IF current = None THEN 0 ELSE current.rev) # call.expected -> "ErrConflict"
                       [] OTHER -> "-"
          IN /\ IF err = "-" THEN Enter("publish") ELSE Finish(err, None)
             /\ UNCHANGED ownVars
       \/ Finish("ErrInvalid", None) /\ UNCHANGED ownVars   \* the codec refuses next
       \/ Quarantine                                         \* reading or staging failed
    /\ UNCHANGED <<dirVars, history>>

\* The rename.  Its events, and the staging's, land in the watch.
Publish ==
    /\ At("publish")
    /\ current' = call.next /\ stamp' = stamp + 1 /\ queue' = TRUE
    /\ pub' = call.next /\ wrote' = TRUE
    /\ \/ Enter("epoch") /\ UNCHANGED ownVars
       \/ Quarantine                                         \* ErrUncertain
    /\ UNCHANGED <<tainted, everTainted, foreign>>

\* The rename failed, or may have.
PublishFails ==
    /\ At("publish")
    /\ Quarantine
    /\ queue' = TRUE
    /\ UNCHANGED <<current, stamp, history>>

\* newEpochLocked: a new watch replaces the old one, whose queue is never read.
NewEpoch ==
    /\ At("epoch")
    /\ queue' = FALSE /\ tainted' = FALSE
    /\ Enter("quiet")
    /\ UNCHANGED <<current, stamp, ownVars, pub, wrote, everTainted, foreign>>

-----------------------------------------------------------------------------
(* The environment: another program changes the directory (in place, by    *)
(* replacement, by removal, or beside the document); timestamps may be too *)
(* coarse to show it.                                                      *)

Foreign ==
    /\ foreign < MaxForeign
    /\ foreign' = foreign + 1
    /\ current' \in Policies \cup {None, Bad}
    /\ stamp' \in {stamp, stamp + 1}
    /\ queue' = (life = "live") /\ tainted' = (life = "live") /\ everTainted' = (life = "live")
    /\ UNCHANGED <<ownVars, call, cancelled, answer, pub, wrote>>

Cancel ==
    /\ Busy /\ call.op # "Open" /\ ~cancelled
    /\ cancelled' = TRUE
    /\ UNCHANGED <<dirVars, ownVars, call, answer, history>>

OwnerNext ==
    \/ OpenOwned \/ Snapshot \/ CloseOwned
    \/ \E r \in 1..MaxPublished : Acquire(r)
    \/ \E l \in Lease : LeaseSnapshot(l) \/ Release(l)
    \/ \E r \in 0..MaxPublished, d \in Policies : CommitOwned(r, d)
    \/ CaptureFault \/ Quiet \/ Stat \/ Decode \/ Restat \/ Quiet2
    \/ CompareRevision \/ Publish \/ PublishFails \/ NewEpoch
    \/ Foreign \/ Cancel

OwnerSpec == OwnerInit /\ [][OwnerNext]_ownerVars

-----------------------------------------------------------------------------
(* Properties.                                                             *)

\* What a returning call says is true.  A document handed out is the one the owner
\* opened or last wrote, whatever other programs put under its name in between,
\* also around a publication; nil from Commit means it wrote the document, a
\* refusal other than ErrReview that it wrote nothing, whenever the context was
\* cancelled; and no call succeeds whose read came after another program touched
\* the directory under the current watch, even if the bytes were put back and the
\* timestamps do not show it.
AnswersTrue ==
    /\ answer.op \in {"Snapshot", "LeaseSnapshot"} /\ answer.res = "nil" => answer.doc = pub
    /\ answer.op = "Commit" /\ answer.res = "nil" => wrote
    /\ answer.op = "Commit" /\ answer.res \in {"ErrConflict", "ErrInvalid", "ErrBusy", "ErrClosed", "ctx"} => ~wrote
    /\ answer.res = "nil" => ~answer.dirty

\* A live lease pins its revision and the owner: nothing is published over it and
\* the flock is kept, also once the owner is under review.
LeasePins == \A l \in Live : life = "live" /\ pub.rev = leases[l]

\* No call succeeds after another program changed the directory at any time in
\* the owner's life, as revisionstore/README.md has it: any event enters permanent
\* review.
EveryChangeReviewed == answer.res = "nil" => ~answer.everDirty
=============================================================================

--------------------------- MODULE RevisionStore ---------------------------
(***************************************************************************)
(* internal/revisionstore: the Store every persistent document of the API  *)
(* is kept in (policy, accounts, journals).  A Store holds an exclusive    *)
(* flock on a private directory with two names in it: the current document *)
(* and a pending one.  Commit stages the next revision under the pending   *)
(* name and renames it; every step is a system call that may fail, and     *)
(* between any two the process may be killed or the machine lose power.    *)
(*                                                                         *)
(* The file system is external.  It is modelled by what the code relies    *)
(* on: rename is atomic; a directory change that was not followed by a     *)
(* successful fsync of the directory may or may not survive a power loss;  *)
(* file data that was not fsynced may be torn by it; a call that reports   *)
(* failure may have had its effect.                                        *)
(***************************************************************************)
EXTENDS Naturals, FiniteSets

CONSTANTS Procs,         \* processes that may open the directory
          NoProc,        \* the flock has no holder
          Vals,          \* valid document contents
          NoVal,         \* a content the codec refuses, or no content
          Transitions,   \* pairs (current, next) ValidateTransition accepts
          MaxRevision    \* the largest uint64

ASSUME ConstantsAssumption ==
    /\ NoProc \notin Procs
    /\ NoVal \notin Vals
    /\ Transitions \subseteq Vals \X Vals
    /\ MaxRevision \in Nat \ {0}

Docs == [rev : 0..MaxRevision, val : Vals \cup {NoVal}]

\* No current file: Commit reads it as revision 0.
NoDoc == [rev |-> 0, val |-> NoVal]

Validate(d) == d.rev # 0 /\ d.val # NoVal

\* ok: the bytes decode to doc.  synced: the bytes are on stable storage.
Files == [doc : Docs, ok : BOOLEAN, synced : BOOLEAN]
Missing == [doc |-> NoDoc, ok |-> TRUE, synced |-> TRUE]
Torn == [doc |-> NoDoc, ok |-> FALSE, synced |-> FALSE]

\* uint64 addition.
Inc(r) == (r + 1) % (MaxRevision + 1)

VARIABLES
    cur,        \* the file under the current name, as any process sees it
    disk,       \* the files a power loss may leave under the current name
    pend,       \* the file under the pending name (Missing when there is none)
    lock,       \* holder of the flock
    pc,         \* where each process is
    uncertain,  \* Store.uncertain
    arg,        \* the document of the Commit in progress
    ret,        \* result of the last call, "-" while one is running
    promised    \* history: documents a Load returned or a Commit acknowledged

vars == <<cur, disk, pend, lock, pc, uncertain, arg, ret, promised>>
files == <<cur, disk, pend>>

Opening == {"load", "syncFile", "syncOpenDir"}
Staging == {"unlink", "create", "write", "sync", "close", "rename"}
Labels == {"closed", "idle", "syncDir"} \cup Opening \cup Staging
Results == {"-", "nil", "ErrBusy", "ErrConflict", "ErrInvalid", "ErrIO",
            "ErrUncertain", "ErrNotInitialized"}

\* Every variable has its type, and what is stored or handed out is valid: Commit
\* validates the next document before it writes it.
TypeOK ==
    /\ cur \in Files /\ pend \in Files /\ disk \in SUBSET Files
    /\ lock \in Procs \cup {NoProc}
    /\ pc \in [Procs -> Labels]
    /\ uncertain \in [Procs -> BOOLEAN]
    /\ arg \in [Procs -> Docs]
    /\ ret \in [Procs -> Results]
    /\ promised \in SUBSET Docs
    /\ \A f \in disk : f = Missing \/ Validate(f.doc)
    /\ \A d \in promised : Validate(d)

Init ==
    /\ cur = Missing /\ disk = {Missing} /\ pend = Missing
    /\ lock = NoProc
    /\ pc = [p \in Procs |-> "closed"]
    /\ uncertain = [p \in Procs |-> FALSE]
    /\ arg = [p \in Procs |-> NoDoc]
    /\ ret = [p \in Procs |-> "-"]
    /\ promised = {}

Goto(p, l) == pc' = [pc EXCEPT ![p] = l]
Result(p, r) == ret' = [ret EXCEPT ![p] = r]
Return(p, r) == Goto(p, "idle") /\ Result(p, r)

\* The Store is gone: closing its directory descriptor drops the flock.
Discard(p, r) ==
    /\ Goto(p, "closed") /\ Result(p, r)
    /\ lock' = NoProc
    /\ uncertain' = [uncertain EXCEPT ![p] = FALSE]
    /\ UNCHANGED <<cur, disk, pend, arg, promised>>

-----------------------------------------------------------------------------
(* OpenWithCodec: flock, decode the current file, then fsync it and the    *)
(* directory before the Store is handed out.                               *)

Open(p) ==
    /\ pc[p] = "closed"
    /\ IF lock = NoProc
       THEN lock' = p /\ Goto(p, "load") /\ Result(p, "-")
       ELSE Result(p, "ErrBusy") /\ UNCHANGED <<lock, pc>>
    /\ UNCHANGED <<cur, disk, pend, uncertain, arg, promised>>

OpenLoad(p) ==
    /\ pc[p] = "load"
    /\ \/ IF cur.ok
          THEN Goto(p, "syncFile") /\ UNCHANGED <<files, lock, uncertain, arg, ret, promised>>
          ELSE Discard(p, "ErrInvalid")
       \/ Discard(p, "ErrIO")

OpenSyncFile(p) ==
    /\ pc[p] = "syncFile"
    /\ \/ /\ cur' = [cur EXCEPT !.synced = TRUE]
          /\ disk' = (disk \ {cur}) \cup {cur'}
          /\ Goto(p, "syncOpenDir")
          /\ UNCHANGED <<pend, lock, uncertain, arg, ret, promised>>
       \/ Discard(p, "ErrIO")

\* Mutant: the store is handed out without syncing what the rename left unsynced.
OpenUnsynced(p) ==
    /\ pc[p] = "syncOpenDir"
    /\ Return(p, "nil")
    /\ UNCHANGED <<files, lock, uncertain, arg, promised>>

OpenSyncDir(p) ==
    /\ pc[p] = "syncOpenDir"
    /\ \/ /\ disk' = {cur}
          /\ Return(p, "nil")
          /\ UNCHANGED <<cur, pend, lock, uncertain, arg, promised>>
       \/ Discard(p, "ErrIO")

-----------------------------------------------------------------------------
(* Load and Commit on an open Store; Store.mu runs one at a time.          *)

Load(p) ==
    /\ pc[p] = "idle"
    /\ \/ LET err == CASE uncertain[p] -> "ErrUncertain"
                       [] cur = Missing -> "ErrNotInitialized"
                       [] ~cur.ok -> "ErrInvalid"
                       [] OTHER -> "nil"
          IN /\ Result(p, err)
             /\ promised' = IF err = "nil" THEN promised \cup {cur.doc} ELSE promised
       \/ ~uncertain[p] /\ Result(p, "ErrIO") /\ UNCHANGED promised
    /\ UNCHANGED <<files, lock, pc, uncertain, arg>>

\* Mutant: only the expected revision is checked, not the next one.
CommitErrorAnyNext(p, expected, next) ==
    CASE uncertain[p] -> "ErrUncertain"
      [] ~Validate(next) \/ ~cur.ok -> "ErrInvalid"
      [] cur.doc.rev # expected -> "ErrConflict"
      [] OTHER -> "-"

\* The checks Commit makes before it touches the directory.
CommitError(p, expected, next) ==
    CASE uncertain[p] -> "ErrUncertain"
      [] expected = MaxRevision \/ next.rev # Inc(expected) -> "ErrConflict"
      [] ~Validate(next) -> "ErrInvalid"
      [] ~cur.ok -> "ErrInvalid"
      [] cur.doc.rev # expected -> "ErrConflict"
      [] cur.doc.rev # 0 /\ <<cur.doc.val, next.val>> \notin Transitions -> "ErrInvalid"
      [] OTHER -> "-"

Commit(p, expected, next) ==
    /\ pc[p] = "idle"
    /\ \/ LET err == CommitError(p, expected, next)
          IN IF err = "-"
             THEN Goto(p, "unlink") /\ Result(p, "-") /\ arg' = [arg EXCEPT ![p] = next]
             ELSE Result(p, err) /\ UNCHANGED <<pc, arg>>
       \/ /\ ~uncertain[p] /\ next.rev = Inc(expected) /\ Validate(next)  \* the load fails
          /\ Result(p, "ErrIO") /\ UNCHANGED <<pc, arg>>
    /\ UNCHANGED <<files, lock, uncertain, promised>>

\* A step of Commit before the rename fails: whatever is under the pending name
\* stays there for the next Commit to discard.
StageFails(p) ==
    /\ Return(p, "ErrIO")
    /\ pend' \in {pend, Missing, Torn}
    /\ UNCHANGED <<cur, disk, lock, uncertain, arg, promised>>

\* A step of Commit that leaves a new pending file and goes on.
StageTo(p, f, l) ==
    /\ pend' = f
    /\ Goto(p, l)
    /\ UNCHANGED <<cur, disk, lock, uncertain, arg, ret, promised>>

\* A pending file left by an earlier attempt is thrown away, never read.
UnlinkPending(p) == pc[p] = "unlink" /\ (StageTo(p, Missing, "create") \/ StageFails(p))

CreatePending(p) == pc[p] = "create" /\ (StageTo(p, Torn, "write") \/ StageFails(p))

WritePending(p) ==
    /\ pc[p] = "write"
    /\ \/ StageTo(p, [doc |-> arg[p], ok |-> TRUE, synced |-> FALSE], "sync")
       \/ StageFails(p)

\* Mutant: the pending file is renamed without being synced.
SkipSyncPending(p) == pc[p] = "sync" /\ (StageTo(p, pend, "close") \/ StageFails(p))

SyncPending(p) ==
    /\ pc[p] = "sync"
    /\ \/ StageTo(p, [pend EXCEPT !.synced = TRUE], "close")
       \/ StageFails(p)

ClosePending(p) == pc[p] = "close" /\ (StageTo(p, pend, "rename") \/ StageFails(p))

\* From the rename on the outcome is unknown until the directory is synced.
Uncertain(p) ==
    /\ uncertain' = [uncertain EXCEPT ![p] = TRUE]
    /\ Return(p, "ErrUncertain")
    /\ UNCHANGED <<lock, arg, promised>>

RenamePending(p) ==
    /\ pc[p] = "rename"
    /\ disk' = disk \cup {pend}
    /\ \/ /\ cur' = pend /\ pend' = Missing
          /\ Goto(p, "syncDir")
          /\ UNCHANGED <<lock, uncertain, arg, ret, promised>>
       \/ cur' = pend /\ pend' = Missing /\ Uncertain(p)
       \/ UNCHANGED <<cur, pend>> /\ Uncertain(p)

\* Mutant: a failed directory sync is reported as an ordinary failure.
SyncDirPlainError(p) ==
    /\ pc[p] = "syncDir"
    /\ \/ /\ disk' = {cur}
          /\ Return(p, "nil")
          /\ promised' = promised \cup {cur.doc}
          /\ UNCHANGED <<cur, pend, lock, uncertain, arg>>
       \/ Return(p, "ErrIO") /\ UNCHANGED <<files, lock, uncertain, arg, promised>>

SyncDir(p) ==
    /\ pc[p] = "syncDir"
    /\ \/ /\ disk' = {cur}
          /\ Return(p, "nil")
          /\ promised' = promised \cup {cur.doc}
          /\ UNCHANGED <<cur, pend, lock, uncertain, arg>>
       \/ Uncertain(p) /\ UNCHANGED files

Close(p) == pc[p] = "idle" /\ (Discard(p, "nil") \/ Discard(p, "ErrIO"))

-----------------------------------------------------------------------------
(* The environment.                                                        *)

Kill(p) == pc[p] # "closed" /\ Discard(p, "-")

PowerLoss ==
    /\ \E f \in disk : cur' \in (IF f.synced THEN {f} ELSE {f, Torn})
    /\ disk' = {cur'}
    /\ pend' \in {Missing, Torn, pend}
    /\ lock' = NoProc
    /\ pc' = [p \in Procs |-> "closed"]
    /\ uncertain' = [p \in Procs |-> FALSE]
    /\ ret' = [p \in Procs |-> "-"]
    /\ UNCHANGED <<arg, promised>>

Next ==
    \/ \E p \in Procs :
        \/ Open(p) \/ OpenLoad(p) \/ OpenSyncFile(p) \/ OpenSyncDir(p)
        \/ Load(p)
        \/ \E expected \in 0..MaxRevision, next \in Docs : Commit(p, expected, next)
        \/ UnlinkPending(p) \/ CreatePending(p) \/ WritePending(p) \/ SyncPending(p)
        \/ ClosePending(p) \/ RenamePending(p) \/ SyncDir(p)
        \/ Close(p) \/ Kill(p)
    \/ PowerLoss

Spec == Init /\ [][Next]_vars

-----------------------------------------------------------------------------
(* Properties.                                                             *)

\* The current name never holds, and no power loss can leave under it, a file
\* that does not decode: Commit syncs the pending file before it renames it, so
\* Open's refusal of a corrupt document is never caused by the store itself.
CurrentIntact == cur.ok /\ \A f \in disk : f.ok /\ f.synced

\* A document a Load returned, or whose Commit returned nil, is still there, or
\* has been replaced by a later revision, whatever crash comes next: Open syncs
\* before it hands out the store, Commit before it returns, and an uncertain
\* store answers nothing.
PromisedDurable ==
    \A d \in promised, f \in disk : d.rev < f.doc.rev \/ d = f.doc

\* What a returning Commit tells its caller is true: nil means the next document
\* is current and survives a power loss, ErrIO means the current document is
\* still the one the caller expected; only ErrUncertain leaves both open.
CommitOutcome ==
    [][\A p \in Procs :
        (pc[p] \in Staging \cup {"syncDir"} /\ pc'[p] = "idle") =>
            /\ ret'[p] = "nil" => cur'.doc = arg[p] /\ disk' = {cur'}
            /\ ret'[p] = "ErrIO" => cur'.doc.rev + 1 = arg[p].rev /\ disk' = {cur'}
      ]_vars

\* The store behaves as a register that forgets only what nobody was told.
Register == INSTANCE DurableRegister WITH
                Documents <- Docs, Empty <- NoDoc, value <- cur.doc
ImplementsRegister == Register!RegSpec
=============================================================================

--------------------------- MODULE NativeJournal ---------------------------
(***************************************************************************)
(* The pattern smbprovision and identityprovision share: one account's     *)
(* journal in a revision store, and native commands that may run only      *)
(* between a durable intent and its confirmation.  This module is the part *)
(* that does not depend on the account database: the store as its callers  *)
(* see it (DurableRegister is its promise), the life of a command, which   *)
(* may outlive the process that started it, and the crashes.  A Store's    *)
(* mutex admits one call at a time.                                        *)
(***************************************************************************)
EXTENDS Naturals

CONSTANTS MaxRevision,   \* bound on the journal's revision
          MaxForeign     \* bound on the writes of other programs

BoundsAssumption == MaxRevision \in Nat \ {0} /\ MaxForeign \in Nat

VARIABLES
    cur,      \* the journal as the file shows it; rev 0: not initialized
    disk,     \* the journals a power loss may leave
    store,    \* "closed", "open" or "uncertain" (the engine refuses all calls)
    call,     \* the call in progress: op, step, and the SID last observed
    cmd,      \* the op whose native command is running, or "-"
    native,   \* the account in the native database
    foreign,  \* writes of other programs so far
    ret,      \* the last call's op and result
    starts    \* history: how often the command of intent revision r was started

vars == <<cur, disk, store, call, cmd, native, foreign, ret, starts>>
journal == <<cur, disk, store>>

Free == call.op = "-"
Idle == [op |-> "-", step |-> "-", seen |-> "-"]

JournalTypeOK ==
    /\ cur \in disk
    /\ store \in {"closed", "open", "uncertain"}
    /\ foreign \in 0..MaxForeign
    /\ starts \in [1..MaxRevision -> Nat]
    /\ store = "open" => disk = {cur}

JournalInit(empty) ==
    /\ cur = empty /\ disk = {empty} /\ store = "closed"
    /\ call = Idle /\ cmd = "-" /\ foreign = 0
    /\ ret = [op |-> "-", res |-> "-"]
    /\ starts = [r \in 1..MaxRevision |-> 0]

Returns(op, res) == call' = Idle /\ ret' = [op |-> op, res |-> res]
Goto(op, step, seen) ==
    /\ call' = [op |-> op, step |-> step, seen |-> seen]
    /\ ret' = [op |-> "-", res |-> "-"]

\* The call goes on, or a result names where it ends.
Proceeds(op, verdict, seen) ==
    IF verdict \in {"observe", "publish", "review"} THEN Goto(op, verdict, seen)
                                                    ELSE Returns(op, verdict)

Successor(j, phase) == [j EXCEPT !.rev = @ + 1, !.phase = phase]

-----------------------------------------------------------------------------
\* revisionstore.OpenWithCodec: a successful open has synced what it found.
Open ==
    /\ store = "closed"
    /\ store' = "open" /\ disk' = {cur}
    /\ UNCHANGED <<cur, call, cmd, native, foreign, ret, starts>>

Close ==
    /\ Free /\ store # "closed"
    /\ store' = "closed"
    /\ UNCHANGED <<cur, disk, call, cmd, native, foreign, ret, starts>>

\* engine.Load fails: nothing to load, or the read fails.
LoadFails(op) ==
    \/ store = "uncertain" /\ Returns(op, "ErrUncertain")
    \/ store = "open" /\ cur.rev = 0 /\ Returns(op, "ErrNotInitialized")
    \/ store = "open" /\ Returns(op, "ErrIO")

\* engine.Commit(cur.rev, next) succeeds.
Commits(next) == cur' = next /\ disk' = {next} /\ UNCHANGED store

\* engine.Commit returns an error: before the rename nothing changed; from the
\* rename on the file shows either journal, and the engine is poisoned.
CommitFails(next, valid, op, err) ==
    IF ~valid THEN Returns(op, "ErrFormat") /\ UNCHANGED journal
    ELSE \/ /\ Returns(op, IF err = "-" THEN "ErrIO" ELSE err)
            /\ UNCHANGED journal
         \/ /\ Returns(op, IF err = "-" THEN "ErrUncertain" ELSE err)
            /\ store' = "uncertain"
            /\ \/ UNCHANGED <<cur, disk>>
               \/ cur' = next /\ disk' = {cur, next}

-----------------------------------------------------------------------------
\* A command leaves the database changed, whoever still waits for it.
Effect(after) ==
    /\ cmd # "-"
    /\ native' = after /\ cmd' = "-"
    /\ UNCHANGED <<cur, disk, store, call, foreign, ret, starts>>

\* A command ends without effect, whatever it reports.
Vanish ==
    /\ cmd # "-"
    /\ cmd' = "-"
    /\ UNCHANGED <<cur, disk, store, call, native, foreign, ret, starts>>

\* Another program writes the account database.
Foreign(natives) ==
    /\ foreign < MaxForeign
    /\ foreign' = foreign + 1
    /\ native' \in natives \ {native}
    /\ UNCHANGED <<cur, disk, store, call, cmd, ret, starts>>

\* The process is killed; a command it started goes on.
Kill ==
    /\ store # "closed"
    /\ store' = "closed" /\ call' = Idle
    /\ UNCHANGED <<cur, disk, cmd, native, foreign, ret, starts>>

\* Power loss: processes and commands are gone, the journal is what was synced.
PowerLoss ==
    /\ store' = "closed" /\ call' = Idle /\ cmd' = "-"
    /\ cur' \in disk /\ disk' = {cur'}
    /\ UNCHANGED <<native, foreign, ret, starts>>

-----------------------------------------------------------------------------
\* No second attempt, through crashes, uncertain commits and repeated calls:
\* the command of one intent is started at most once ("resumed intent is
\* ambiguous and moves to review, never replay") and never while an earlier
\* command, which may have outlived its process, is still running; and once
\* review-required is durable nothing changes the journal or starts a command.
NoSecondAttempt ==
    [][/\ \A r \in DOMAIN starts : starts'[r] <= 1
       /\ starts' # starts => cmd = "-"
       /\ disk = {cur} /\ cur.phase = "ReviewRequired" =>
              disk' = disk /\ cur' = cur /\ starts' = starts]_vars

\* Every journal the code tries to record is one Validate accepts, so no call
\* is stuck between an intent and its review.
AlwaysRecordable == ret.res # "ErrFormat"
=============================================================================

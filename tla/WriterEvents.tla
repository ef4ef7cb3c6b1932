---------------------------- MODULE WriterEvents ----------------------------
(***************************************************************************)
(* revisionstore/nas_writer_events_linux.go: how the NAS policy's writer   *)
(* tells its own inotify events from anybody else's.  One step of its      *)
(* commit, a file that is staged under the pending name and renamed or a   *)
(* receipt that is removed, is followed by a bounded reading of the watch  *)
(* that accepts one sequence of events and nothing else.  Other programs   *)
(* change the directory between any two of its system calls, and between   *)
(* any two reads.                                                          *)
(***************************************************************************)
EXTENDS Naturals, Sequences, SequencesExt

CONSTANTS
    PerRead,    \* events that one read of 4096 bytes returns
    MaxQueue,   \* the kernel's max_queued_events
    MaxForeign  \* bound: acts of other programs

VARIABLES
    names,   \* what is at the two names: "none", "old", "own", "touched", "other"
    queue,   \* the unread events of the watch
    previous,\* what was at the role's name before
    cookies, \* the renames so far
    step,    \* where the writer is
    e,       \* nasWriterEvents: retirement, phase, modified, cookie
    reads,   \* reads of the watch
    others   \* history: the events that other programs caused

vars == <<names, queue, previous, cookies, step, e, reads, others>>

Event(mask, name, cookie) == [mask |-> mask, name |-> name, cookie |-> cookie]

\* An event that equals the last unread one is merged into it.
Queued(q, new) ==
    IF q # <<>> /\ Last(q).mask = new.mask /\ Last(q).name = new.name THEN q
    ELSE IF Len(q) < MaxQueue THEN Append(q, new)
    ELSE IF Last(q).mask = "overflow" THEN q ELSE Append(q, Event("overflow", "", 0))

Own(new) == queue' = Queued(queue, new) /\ UNCHANGED others
Review == step' = "review"
Ended == {"review", "failed", "accepted"}

-----------------------------------------------------------------------------
(* stageNASEvidenceRole, and the removal of a receipt.                      *)

\* The stamp of the role, if any; O_EXCL: a pending file is never disposable.
Create ==
    /\ step = "begin" /\ ~e.retirement
    /\ IF names.pending = "none"
       THEN /\ names' = [names EXCEPT !.pending = "own"]
            /\ Own(Event("create", "pending", 0)) /\ step' = "write"
       ELSE Review /\ UNCHANGED <<names, queue, others>>
    /\ previous' = names.role /\ UNCHANGED <<cookies, e, reads>>

Write ==
    /\ step = "write" /\ Own(Event("modify", "pending", 0)) /\ step' = "close"
    /\ UNCHANGED <<names, previous, cookies, e, reads>>

CloseFile ==
    /\ step = "close" /\ Own(Event("close", "pending", 0)) /\ step' = "check"
    /\ UNCHANGED <<names, previous, cookies, e, reads>>

\* The stamps of both names, once more, before the rename.
Check ==
    /\ step = "check"
    /\ step' = IF names.pending = "own" /\ names.role = previous THEN "rename" ELSE "review"
    /\ UNCHANGED <<names, queue, previous, cookies, e, reads, others>>

\* The rename takes whatever is at the name by now.
Rename ==
    /\ step = "rename"
    /\ IF names.pending = "none" THEN Review /\ UNCHANGED <<names, queue, cookies, others>>
       ELSE /\ names' = [pending |-> "none", role |-> names.pending] /\ cookies' = cookies + 1
            /\ queue' = Queued(Queued(queue, Event("from", "pending", cookies')), Event("to", "role", cookies'))
            /\ step' = "final" /\ UNCHANGED others
    /\ UNCHANGED <<previous, e, reads>>

\* The inode, its stamps and the bytes are those that were staged.
Final ==
    /\ step = "final" /\ step' = IF names.role = "own" THEN "read" ELSE "review"
    /\ UNCHANGED <<names, queue, previous, cookies, e, reads, others>>

remove ==
    /\ step = "begin" /\ e.retirement
    /\ IF names.role = "old"
       THEN names' = [names EXCEPT !.role = "none"] /\ Own(Event("delete", "role", 0)) /\ step' = "read"
       ELSE Review /\ UNCHANGED <<names, queue, others>>
    /\ UNCHANGED <<previous, cookies, e, reads>>

\* A write, a sync or a call of the writer's own that fails is not repeated.
Fails ==
    /\ step \in {"begin", "write", "close", "check", "rename", "final"} /\ step' = "failed"
    /\ UNCHANGED <<names, queue, previous, cookies, e, reads, others>>

-----------------------------------------------------------------------------
(* consumeNASWriterEvents.                                                  *)

complete(s) == IF s.retirement THEN s.phase = 1 ELSE s.phase = 4

\* One event; phase 9 is a refusal.  Merged writes are as good as many.
advance(s, x) ==
    CASE s.retirement /\ s.phase = 0 /\ x = Event("delete", "role", 0) -> [s EXCEPT !.phase = 1]
      [] ~s.retirement /\ s.phase = 0 /\ x = Event("create", "pending", 0) -> [s EXCEPT !.phase = 1]
      [] ~s.retirement /\ s.phase = 1 /\ x = Event("modify", "pending", 0) -> [s EXCEPT !.modified = TRUE]
      [] ~s.retirement /\ s.phase = 1 /\ x = Event("close", "pending", 0) /\ s.modified -> [s EXCEPT !.phase = 2]
      [] ~s.retirement /\ s.phase = 2 /\ x = Event("from", "pending", x.cookie) -> [s EXCEPT !.phase = 3, !.cookie = x.cookie]
      [] ~s.retirement /\ s.phase = 3 /\ x = Event("to", "role", s.cookie) -> [s EXCEPT !.phase = 4]
      [] OTHER -> [s EXCEPT !.phase = 9]

\* What follows the last event is left for the next step.
takenAtEnd(s, x) == IF complete(s) THEN s ELSE advance(s, x)
taken(s, x) == IF complete(s) THEN [s EXCEPT !.phase = 9] ELSE advance(s, x)

consume(batch) == FoldLeft(taken, e, batch)

\* A read of the watch; at most four, the last of which must find nothing.
Read ==
    /\ step = "read" /\ reads' = reads + 1
    /\ IF queue = <<>> THEN step' = (IF complete(e) THEN "accepted" ELSE "review") /\ UNCHANGED <<queue, e>>
       ELSE LET n == IF Len(queue) < PerRead THEN Len(queue) ELSE PerRead
                after == consume(SubSeq(queue, 1, n))
            IN  /\ e' = after /\ queue' = SubSeq(queue, n + 1, Len(queue))
                /\ step' = IF after.phase = 9 \/ reads' = 4 THEN "review" ELSE step
    /\ UNCHANGED <<names, previous, cookies, others>>

-----------------------------------------------------------------------------
(* Other programs: not heeding the lock, as long as the writer is at work.  *)

Touched(n) == IF names[n] = "own" THEN "touched" ELSE IF names[n] = "old" THEN "other" ELSE names[n]
Foreign(x, after) ==
    /\ step \notin Ended /\ Len(others) < MaxForeign
    /\ names' = after /\ queue' = Queued(queue, x) /\ others' = Append(others, x)

\* What is written before the stamp is taken may be the same bytes.
Other ==
    /\ \E n \in {"pending", "role"} :
          \/ names[n] = "none" /\ Foreign(Event("create", n, 0), [names EXCEPT ![n] = "other"])
          \/ names[n] # "none" /\ Foreign(Event("delete", n, 0), [names EXCEPT ![n] = "none"])
          \/ names[n] # "none" /\ Foreign(Event("modify", n, 0), [names EXCEPT ![n] = Touched(n)])
          \/ names[n] # "none" /\ step \in {"write", "close"} /\ Foreign(Event("modify", n, 0), names)
          \/ names[n] # "none" /\ Foreign(Event("close", n, 0), names)
          \/ Foreign(Event("create", "stray", 0), names)
    /\ UNCHANGED <<previous, cookies, step, e, reads>>

\* Another program's rename of the pending file.
OtherRename ==
    /\ step \notin Ended /\ Len(others) < MaxForeign /\ names.pending # "none"
    /\ names' = [pending |-> "none", role |-> names.pending] /\ cookies' = cookies + 1
    /\ LET from == Event("from", "pending", cookies')
           to == Event("to", "role", cookies')
       IN  queue' = Queued(Queued(queue, from), to) /\ others' = Append(others, to)
    /\ UNCHANGED <<previous, step, e, reads>>

Init ==
    /\ \E r \in BOOLEAN : e = [retirement |-> r, phase |-> 0, modified |-> FALSE, cookie |-> 0]
    /\ names \in [pending : {"none"}, role : {"none", "old"}]
    /\ e.retirement => names.role = "old"
    /\ queue = <<>> /\ previous = "none" /\ cookies = 0 /\ step = "begin" /\ reads = 0 /\ others = <<>>

Next ==
    \/ Create \/ Write \/ CloseFile \/ Check \/ Rename \/ Final \/ remove \/ Fails
    \/ Read
    \/ Other \/ OtherRename

Spec == Init /\ [][Next]_vars

-----------------------------------------------------------------------------
\* "A known event sequence is not attribution", but it leaves little: when the
\* events are accepted, the names are as the writer left them, and all that other
\* programs can have done is to write to, or close, the file while it was staged.
AcceptedIsOwn ==
    step = "accepted" =>
        /\ names = [pending |-> "none", role |-> IF e.retirement THEN "none" ELSE "own"]
        /\ \A i \in DOMAIN others : /\ ~e.retirement /\ others[i].name = "pending"
                                    /\ others[i].mask \in {"modify", "close"}

\* The other way round: a writer that is alone and whose system calls succeed is not
\* sent into review, however its events were merged and read.
AloneIsAccepted == step = "review" => others # <<>>
=============================================================================

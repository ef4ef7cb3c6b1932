---------------------------- MODULE UnixJournal ----------------------------
(***************************************************************************)
(* identityprovision: the journal of one account's Unix identity, a group  *)
(* and then a user, each made by one BusyBox command of identityexec.      *)
(* Step compares the registry it is given with the one of the reservation. *)
(***************************************************************************)
EXTENDS NativeJournal

Identities == [group : BOOLEAN, user : BOOLEAN, clash : BOOLEAN]
Nobody == [group |-> FALSE, user |-> FALSE, clash |-> FALSE]
GroupOnly == [Nobody EXCEPT !.group = TRUE]
Both == [GroupOnly EXCEPT !.user = TRUE]
Empty == [rev |-> 0, phase |-> "none"]
Intents == {"GroupIntent", "UserIntent"}

\* Snapshot.Inspect: entries that share a name or an id with the account but
\* are not it make a conflict, whatever else is there.
Status(e) == CASE e.clash -> "Conflict"
               [] e.user /\ e.group -> "Observed"
               [] e.user \/ e.group -> "Partial"
               [] OTHER -> "Absent"
GroupThere(e) == Status(e) = "Partial" /\ e.group /\ ~e.user

\* Journal.Validate: one monotonic operation, no resets, retries or compaction.
Validate(j) ==
    \/ <<j.phase, j.rev>> \in {<<"Reserved", 1>>, <<"GroupIntent", 2>>, <<"GroupConfirmed", 3>>,
                               <<"UserIntent", 4>>, <<"UnixConfirmed", 5>>}
    \/ j.phase = "ReviewRequired" /\ j.rev \in 2..6

TypeOK ==
    /\ JournalTypeOK
    /\ \A j \in disk : j = Empty \/ Validate(j)
    /\ call.op \in {"-", "Begin", "Step"}
    /\ call.step \in {"-", "observe", "publish", "dispatch", "running", "after", "confirm", "review"}
    /\ cmd \in Intents \cup {"-"}
    /\ native \in Identities

Init == JournalInit(Empty) /\ native = Nobody

-----------------------------------------------------------------------------
\* Begin: the caller's snapshot is still true, for it holds the all-writer
\* lock; a matching account is refused, never adopted.
Begin ==
    /\ Free
    /\ IF store = "closed" THEN Returns("Begin", "ErrClosed")
       ELSE \/ Returns("Begin", "ErrObservation")
            \/ Proceeds("Begin", IF Status(native) = "Absent" THEN "publish" ELSE "ErrReview", "-")
    /\ UNCHANGED <<cur, disk, store, cmd, native, foreign, starts>>

\* What Step makes of the journal it loaded; current: expected revision and
\* registry are those of the journal.
Verdict(current, cancelled) ==
    CASE ~current -> "ErrConflict"
      [] cur.phase = "ReviewRequired" -> "ErrReview"
      [] cur.phase \in Intents -> "review"
      [] cancelled -> "ctx.Err"
      [] OTHER -> "observe"

Step ==
    /\ Free
    /\ IF store = "closed" THEN Returns("Step", "ErrClosed")
       ELSE \/ LoadFails("Step")
            \/ /\ store = "open" /\ cur.rev # 0
               /\ \E current, cancelled \in BOOLEAN : Proceeds("Step", Verdict(current, cancelled), "-")
    /\ UNCHANGED <<cur, disk, store, cmd, native, foreign, starts>>

\* What Step makes of the identity it observed before acting.
Observed(e) ==
    CASE cur.phase = "UnixConfirmed" -> IF Status(e) = "Observed" THEN "nil" ELSE "review"
      [] cur.phase = "Reserved" -> IF Status(e) = "Absent" THEN "publish" ELSE "review"
      [] OTHER -> IF GroupThere(e) THEN "publish" ELSE "review"

Observe ==
    /\ call.step = "observe"
    /\ \/ Proceeds("Step", Observed(native), "-")
       \/ Returns("Step", "ErrObservation")
    /\ UNCHANGED <<cur, disk, store, cmd, native, foreign, starts>>

\* Begin's reservation, or Step's intent.
Published == CASE call.op = "Begin" -> [rev |-> 1, phase |-> "Reserved"]
               [] cur.phase = "GroupConfirmed" -> Successor(cur, "UserIntent")
               [] OTHER -> Successor(cur, "GroupIntent")

Publish ==
    /\ call.step = "publish"
    /\ IF call.op = "Begin" /\ (cur.rev # 0 \/ store = "uncertain")
       THEN /\ Returns("Begin", IF store = "uncertain" THEN "ErrUncertain" ELSE "ErrConflict")
            /\ UNCHANGED journal
       ELSE \/ /\ Validate(Published) /\ Commits(Published)
               /\ IF call.op = "Begin" THEN Returns("Begin", "nil") ELSE Goto("Step", "dispatch", "-")
            \/ CommitFails(Published, Validate(Published), call.op, "-")
    /\ UNCHANGED <<cmd, native, foreign, starts>>

\* Executor.create looks once more before it runs the command.
Ready(intent, e) == IF intent = "GroupIntent" THEN Status(e) = "Absent" ELSE GroupThere(e)

\* Mutant: an entry that is already there makes the command unnecessary.
DispatchAdopts ==
    /\ call.step = "dispatch"
    /\ IF Ready(cur.phase, native)
       THEN /\ Goto("Step", "running", "-")
            /\ cmd' = cur.phase /\ starts' = [starts EXCEPT ![cur.rev] = @ + 1]
       ELSE Goto("Step", "after", "-") /\ UNCHANGED <<cmd, starts>>
    /\ UNCHANGED <<cur, disk, store, native, foreign>>

\* The backend is called, unless the context was cancelled after the intent.
Dispatch ==
    /\ call.step = "dispatch"
    /\ \/ Goto("Step", "review", "-") /\ UNCHANGED <<cmd, starts>>
       \/ /\ Ready(cur.phase, native)
          /\ Goto("Step", "running", "-")
          /\ cmd' = cur.phase /\ starts' = [starts EXCEPT ![cur.rev] = @ + 1]
    /\ UNCHANGED <<cur, disk, store, native, foreign>>

\* addgroup and adduser.
CommandEffect ==
    /\ cmd # "-"
    /\ Effect(IF cmd = "GroupIntent" THEN [native EXCEPT !.group = TRUE]
                                     ELSE [native EXCEPT !.user = TRUE])

\* runPinned and the rest of Executor.create: nil once the command ended well,
\* an error at any time, with the command killed or still running.
CommandReturns ==
    /\ call.step = "running"
    /\ \/ cmd = "-" /\ Goto("Step", "after", "-") /\ UNCHANGED cmd
       \/ Goto("Step", "review", "-") /\ cmd' \in {cmd, "-"}
    /\ UNCHANGED <<cur, disk, store, native, foreign, starts>>

\* What Executor.create and then Step must find after the command.
Achieved(intent, e) == IF intent = "GroupIntent" THEN GroupThere(e) ELSE Status(e) = "Observed"

ObserveAfter ==
    /\ call.step = "after"
    /\ \/ Achieved(cur.phase, native) /\ Goto("Step", "confirm", "-")
       \/ Goto("Step", "review", "-")
    /\ UNCHANGED <<cur, disk, store, cmd, native, foreign, starts>>

\* A failed confirmation leaves the intent, or an uncertain commit.
Confirm ==
    /\ call.step = "confirm"
    /\ LET next == Successor(cur, IF cur.phase = "UserIntent" THEN "UnixConfirmed" ELSE "GroupConfirmed")
       IN  \/ Validate(next) /\ Commits(next) /\ Returns("Step", "nil")
           \/ CommitFails(next, Validate(next), "Step", "-")
    /\ UNCHANGED <<cmd, native, foreign, starts>>

\* Mutant: an intent whose command left nothing is taken back for a retry.
ReviewRetries ==
    /\ call.step = "review"
    /\ Commits(IF cur.phase = "GroupIntent" /\ cmd = "-" /\ native = Nobody
               THEN [rev |-> 1, phase |-> "Reserved"] ELSE Successor(cur, "ReviewRequired"))
    /\ Returns("Step", "ErrReview")
    /\ UNCHANGED <<cmd, native, foreign, starts>>

\* Store.review.
Review ==
    /\ call.step = "review"
    /\ LET next == Successor(cur, "ReviewRequired")
       IN  \/ Validate(next) /\ Commits(next) /\ Returns("Step", "ErrReview")
           \/ CommitFails(next, Validate(next), "Step", "ErrReview")
    /\ UNCHANGED <<cmd, native, foreign, starts>>

Next ==
    \/ Open \/ Close \/ Kill \/ PowerLoss \/ Vanish \/ Foreign(Identities)
    \/ Begin \/ Step \/ Observe \/ Publish \/ Dispatch \/ CommandEffect
    \/ CommandReturns \/ ObserveAfter \/ Confirm \/ Review

Spec == Init /\ [][Next]_vars

-----------------------------------------------------------------------------
\* As long as no other program writes the account files, every journal that a
\* restart may find describes them: nothing is there under a reservation, only
\* the group once it is confirmed, both at the end - and only the two intents
\* and a review leave it open what a command did.  Nothing is adopted: whoever
\* else wrote the account files, a confirmed group or user is one whose own
\* command was started, exactly once.
JournalTellsAccount ==
    \A j \in disk :
        /\ foreign = 0 => /\ j.phase \in {"none", "Reserved"} => native = Nobody /\ cmd = "-"
                          /\ j.phase = "GroupConfirmed" => native = GroupOnly /\ cmd = "-"
                          /\ j.phase = "UnixConfirmed" => native = Both /\ cmd = "-"
        /\ j.phase \in {"GroupConfirmed", "UserIntent", "UnixConfirmed"} => starts[2] = 1
        /\ j.phase = "UnixConfirmed" => starts[4] = 1
=============================================================================

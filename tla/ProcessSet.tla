----------------------------- MODULE ProcessSet -----------------------------
(***************************************************************************)
(* internal/processowner: a Set of foreground services, each in a process  *)
(* group of its own under an Owner, started in order, rolled back and      *)
(* stopped in reverse order.  The gates of the Set and of its Owners admit *)
(* one call at a time; any other gets ErrBusy and changes nothing.         *)
(*                                                                         *)
(* Signals are only requests: a leader or its descendants may end on their *)
(* own, late, or (stuck in the kernel) not within any deadline.  A process *)
(* group keeps its number while it has a member or an unreaped leader; the *)
(* reuse of a number is not modelled.                                      *)
(***************************************************************************)
EXTENDS Naturals

CONSTANTS N,        \* the members are 1..N
          MaxGen    \* bound on the generations started

SetAssumption == N \in Nat \ {0} /\ MaxGen \in Nat

Members == 1..N

VARIABLES
    state,    \* Set.state
    review,   \* Set.reviewRequired
    gen,      \* Set.generation
    own,      \* per member the Owner: current, its ready and stopAttempted, reviewRequired
    os,       \* per member the last process group: its leader, descendants, signals sent
    call,     \* the call in progress
    ret,      \* the last call and its result
    died      \* history: a ready leader was gone before anybody asked it to stop

vars == <<state, review, gen, own, os, call, ret, died>>

Idle == [op |-> "-", step |-> "-", m |-> 1, bad |-> FALSE, unexpected |-> FALSE]
Free == call.op = "-"
NoOwner == [current |-> FALSE, ready |-> FALSE, tried |-> FALSE, review |-> FALSE]
NoGroup == [leader |-> "done", kids |-> FALSE, terms |-> 0, kills |-> 0]

\* processGroupAlive: a leader that was not reaped still counts.
Alive(m) == os[m].leader \in {"running", "zombie"} \/ os[m].kids
\* managedProcess.exited: command.Wait has returned, after reaping the leader
\* and waiting for its output.
Exited(m) == os[m].leader = "done"

\* Mutant: the leader stands for the group.
GoneLeader(m) == Exited(m)

\* What awaitProcessGroupExit and verifyProcessGroupExited look for.
Gone(m) == Exited(m) /\ ~Alive(m)

TypeOK ==
    /\ state \in {"stopped", "starting", "ready", "stopping", "review"}
    /\ review \in BOOLEAN /\ gen \in 0..MaxGen /\ died \in [Members -> BOOLEAN]
    /\ own \in [Members -> [current : BOOLEAN, ready : BOOLEAN, tried : BOOLEAN, review : BOOLEAN]]
    /\ os \in [Members -> [leader : {"running", "zombie", "reaped", "done"}, kids : BOOLEAN,
                           terms : Nat, kills : Nat]]
    /\ call \in [op : {"-", "Start", "Stop", "Observe"}, m : Members, bad : BOOLEAN, unexpected : BOOLEAN,
                 step : {"-", "launch", "probe", "ownerStop", "stop", "await", "awaitKill", "observe"}]
    /\ state = "review" => review
    /\ review => state \in {"review", "stopping"}
    /\ Free => state \notin {"starting", "stopping"}

Init ==
    /\ state = "stopped" /\ review = FALSE /\ gen = 0
    /\ own = [m \in Members |-> NoOwner] /\ os = [m \in Members |-> NoGroup]
    /\ call = Idle /\ ret = [op |-> "-", res |-> "-"] /\ died = [m \in Members |-> FALSE]

Returns(op, res) == call' = Idle /\ ret' = [op |-> op, res |-> res]
Enters(op, step, m, bad) ==
    /\ call' = [Idle EXCEPT !.op = op, !.step = step, !.m = m, !.bad = bad]
    /\ ret' = [op |-> "-", res |-> "-"]
Goto(step) == call' = [call EXCEPT !.step = step] /\ UNCHANGED ret
Same == UNCHANGED <<state, review, gen>>

-----------------------------------------------------------------------------
\* Set.Start, up to the first member.
Start ==
    /\ Free /\ gen < MaxGen
    /\ CASE review -> Returns("Start", "ErrReviewRequired") /\ UNCHANGED state
         [] state = "ready" -> Returns("Start", "ErrAlreadyRunning") /\ UNCHANGED state
         [] state # "ready" /\ ~review -> Enters("Start", "launch", 1, FALSE) /\ state' = "starting"
    /\ UNCHANGED <<review, gen, own, os, died>>

\* The end of Set.Stop, and of a Set.Start that was rolled back.
Finish(bad) ==
    /\ state' = IF bad THEN "review" ELSE "stopped"
    /\ review' = (review \/ bad)
    /\ Returns(call.op, IF bad THEN "ErrReviewRequired" ELSE IF call.op = "Stop" THEN "nil" ELSE "failed")
    /\ UNCHANGED gen

\* On to the member before this one: the loops of Set.Stop and Set.rollback.
Down(bad) ==
    IF call.m > 1
    THEN call' = [call EXCEPT !.m = @ - 1, !.step = "ownerStop", !.bad = bad] /\ UNCHANGED ret /\ Same
    ELSE Finish(bad)

\* Owner.Start up to the launch; it is refused under review or with a
\* cancelled context, and the launch may fail.
Launch ==
    /\ call.step = "launch"
    /\ LET m == call.m
       IN  IF own[m].review \/ own[m].current
           THEN Down(own[m].review) /\ UNCHANGED <<own, os>>
           ELSE \/ Down(FALSE) /\ UNCHANGED <<own, os>>
                \/ /\ own' = [own EXCEPT ![m] = [NoOwner EXCEPT !.current = TRUE]]
                   /\ os' = [os EXCEPT ![m] = [NoGroup EXCEPT !.leader = "running"]]
                   /\ Goto("probe") /\ Same
    /\ UNCHANGED died

\* One round of Owner.Start's loop that decides: failStart on an exit, a
\* failed probe, the deadline or a cancellation; else the member is ready.
Probe ==
    /\ call.step = "probe"
    /\ LET m == call.m
       IN  \/ Goto("stop") /\ UNCHANGED <<own, state, gen>>
           \/ /\ ~Exited(m)
              /\ own' = [own EXCEPT ![m].ready = TRUE]
              /\ IF m = N THEN state' = "ready" /\ gen' = gen + 1 /\ Returns("Start", "nil")
                 ELSE /\ call' = [call EXCEPT !.m = @ + 1, !.step = "launch"]
                      /\ UNCHANGED <<state, gen, ret>>
    /\ UNCHANGED <<review, os, died>>

-----------------------------------------------------------------------------
\* Set.Stop, up to the last member.
Stop ==
    /\ Free
    /\ Enters("Stop", "ownerStop", N, review)
    /\ state' = "stopping"
    /\ UNCHANGED <<review, gen, own, os, died>>

\* Mutant: a second stop starts over.
OwnerStopAgain ==
    /\ call.step = "ownerStop"
    /\ LET m == call.m
       IN  IF ~own[m].current THEN Down(call.bad \/ own[m].review) /\ UNCHANGED own
           ELSE /\ call' = [call EXCEPT !.step = "stop", !.unexpected = own[m].ready /\ Exited(m)]
                /\ UNCHANGED <<own, ret>> /\ Same
    /\ UNCHANGED <<os, died>>

\* Owner.Stop up to stopProcess: nothing to stop; or a second stop, which only
\* verifies; or the first one, which notes whether the leader is gone already.
OwnerStop ==
    /\ call.step = "ownerStop"
    /\ LET m == call.m
       IN  IF ~own[m].current THEN Down(call.bad \/ own[m].review) /\ UNCHANGED own
           ELSE IF own[m].tried
           THEN own' = [own EXCEPT ![m].review = TRUE, ![m].current = ~Gone(m)] /\ Down(TRUE)
           ELSE /\ call' = [call EXCEPT !.step = "stop", !.unexpected = own[m].ready /\ Exited(m)]
                /\ UNCHANGED <<own, ret>> /\ Same
    /\ UNCHANGED <<os, died>>

\* stopProcess returned; the rest of Owner.Stop and of failStart.
Stopped(err) ==
    LET bad == err \/ call.unexpected
    IN  /\ own' = [own EXCEPT ![call.m].current = err, ![call.m].tried = TRUE, ![call.m].review = @ \/ bad]
        /\ Down(call.bad \/ bad)

\* stopProcess: SIGTERM to the group if it is alive; kill may be refused.
Signal ==
    /\ call.step = "stop"
    /\ \/ /\ Goto("await") /\ Same
          /\ own' = [own EXCEPT ![call.m].tried = TRUE]
          /\ os' = [os EXCEPT ![call.m].terms = @ + IF Alive(call.m) THEN 1 ELSE 0]
       \/ Alive(call.m) /\ Stopped(TRUE) /\ UNCHANGED os
    /\ UNCHANGED died

\* Mutant: the wait has no deadline.
AwaitForever ==
    /\ call.step = "await"
    /\ Gone(call.m) /\ Stopped(FALSE)
    /\ UNCHANGED <<os, died>>

\* awaitProcessGroupExit ends well, or at its deadline: SIGKILL, if the group
\* is still alive, which may be refused.
Await ==
    /\ call.step = "await"
    /\ \/ Gone(call.m) /\ Stopped(FALSE) /\ UNCHANGED os
       \/ /\ ~Gone(call.m)
          /\ os' = [os EXCEPT ![call.m].kills = @ + IF Alive(call.m) THEN 1 ELSE 0]
          /\ Goto("awaitKill") /\ Same /\ UNCHANGED own
       \/ Alive(call.m) /\ Stopped(TRUE) /\ UNCHANGED os
    /\ UNCHANGED died

\* The wait after SIGKILL; whatever it finds, a forced stop needs review.
AwaitKill ==
    /\ call.step = "awaitKill"
    /\ Stopped(TRUE)
    /\ UNCHANGED <<os, died>>

-----------------------------------------------------------------------------
Observe ==
    /\ Free
    /\ Enters("Observe", "observe", 1, FALSE)
    /\ UNCHANGED <<state, review, gen, own, os, died>>

\* Owner.Observe of one member; a cancellation ends Set.Observe on the spot,
\* with whatever the members before found kept only by their Owners.
ObserveMember ==
    /\ call.step = "observe"
    /\ LET m == call.m
           found == own[m].review \/ (own[m].current /\ own[m].ready /\ Exited(m))
           bad == call.bad \/ found
       IN  \/ Returns("Observe", "ErrUnavailable") /\ UNCHANGED <<state, review, own>>
           \/ /\ own' = [own EXCEPT ![m].review = found]
              /\ IF m < N
                 THEN /\ call' = [call EXCEPT !.m = @ + 1, !.bad = bad]
                      /\ UNCHANGED <<state, review, ret>>
                 ELSE /\ review' = (review \/ bad)
                      /\ state' = IF bad THEN "review" ELSE state
                      /\ Returns("Observe", IF review \/ bad THEN "ErrReviewRequired" ELSE "nil")
    /\ UNCHANGED <<gen, os, died>>

-----------------------------------------------------------------------------
\* The processes: a leader exits, is reaped, command.Wait returns; descendants
\* come and go in the group.
LeaderExits(m) ==
    /\ os[m].leader = "running"
    /\ os' = [os EXCEPT ![m].leader = "zombie"]
    /\ UNCHANGED <<state, review, gen, own, call, ret, died>>

Reaped(m) ==
    /\ os[m].leader = "zombie"
    /\ os' = [os EXCEPT ![m].leader = "reaped"]
    /\ UNCHANGED <<state, review, gen, own, call, ret, died>>

WaitReturns(m) ==
    /\ os[m].leader = "reaped"
    /\ os' = [os EXCEPT ![m].leader = "done"]
    /\ died' = [died EXCEPT ![m] = @ \/ (/\ own[m].current /\ own[m].ready /\ ~own[m].tried
                                         /\ ~(call.step = "stop" /\ call.m = m))]
    /\ UNCHANGED <<state, review, gen, own, call, ret>>

KidsChange(m) ==
    /\ os[m].leader = "running" \/ os[m].kids
    /\ os' = [os EXCEPT ![m].kids = ~@]
    /\ UNCHANGED <<state, review, gen, own, call, ret, died>>

CallStep ==
    \/ Launch \/ Probe \/ OwnerStop \/ Signal \/ Await \/ AwaitKill \/ ObserveMember

Next ==
    \/ Start \/ Stop \/ Observe \/ CallStep
    \/ \E m \in Members : LeaderExits(m) \/ Reaped(m) \/ WaitReturns(m) \/ KidsChange(m)

Spec == Init /\ [][Next]_vars

\* Every wait of a call has a deadline and every loop a ticker: a call that
\* can take its next step takes it.  Nothing is assumed of the processes.
Fairness == WF_vars(CallStep)
LiveSpec == Spec /\ Fairness

-----------------------------------------------------------------------------
\* Nothing is left behind: a process group that is alive, be it by a descendant
\* that outlived the leader, has an Owner that knows it, whatever start,
\* rollback or stop went wrong, and no Set with such a group says "stopped".
\* Nor is a ready service that ended by itself stopped away: the Set does not
\* come back to "stopped", from where it could be started again.
NothingLeftBehind ==
    \A m \in Members :
        /\ Alive(m) => own[m].current /\ state # "stopped"
        /\ died[m] => state # "stopped"

\* Each group gets its "one bounded stop attempt" (Set.Stop): after a Stop,
\* or a Start that failed, no group still owned was spared because of another
\* member's failure, and however often the Set is stopped, SIGTERM and SIGKILL
\* are sent at most once each ("never signal it a second time", Owner.Stop).
OneStopAttempt ==
    \A m \in Members :
        /\ os[m].terms <= 1 /\ os[m].kills <= 1
        /\ Free /\ (ret.op = "Stop" \/ (ret.op = "Start" /\ ret.res = "failed")) =>
               (own[m].current => own[m].tried)

\* Every call returns, even if no process ever obeys a signal.
EveryCallReturns == ~Free ~> Free
=============================================================================

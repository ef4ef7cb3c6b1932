--------------------------- MODULE IsolatedService ---------------------------
(***************************************************************************)
(* One isolated process: internal/mountowner's isolatedHandoffProcess,     *)
(* which pins the root of a handoff, and internal/processowner's           *)
(* IsolatedOwner, which keeps the executable, the launcher and its own     *)
(* copy of the root open and looks at them again after every start and at  *)
(* every observation.  The runtime that drives it starts it once and makes *)
(* one call at a time; another holder may close the handoff meanwhile.     *)
(***************************************************************************)
EXTENDS Naturals

CONSTANT MaxDrifts    \* bound: changes of the pinned inputs, restoring included

VARIABLES
    h,       \* ServiceHandoff: state, isolatedPins
    pin,     \* isolatedRootPin of the process
    owner,   \* IsolatedOwner and its private Owner
    child,   \* the process group: "none", "running", "exited" (not reaped)
    call,    \* the call that is under way, and the last answer
    drift,   \* the inputs differ from what was pinned
    drifts,  \* history: changes of the inputs
    noticed  \* history: a check met the drift

vars == <<h, pin, owner, child, call, drift, drifts, noticed>>

NoOwner == [made |-> FALSE, closed |-> FALSE, files |-> FALSE, current |-> FALSE,
            attempted |-> FALSE, state |-> "stopped", review |-> FALSE]
At(at) == call.at = at
Goto(at) == call' = [call EXCEPT !.at = at]
Return(answer) == call' = [at |-> "idle", answer |-> answer, started |-> TRUE]
machine == <<drift, drifts>>

-----------------------------------------------------------------------------
(* The pin and the inputs.                                                  *)

\* Verified first and again under the handoff's mutex; one pin at a time.
pinIsolatedRoot ==
    /\ At("idle") /\ ~call.started
    /\ \/ /\ h.pins = 0 /\ h.state = "active"
          /\ h' = [h EXCEPT !.pins = 1] /\ pin' = "open"
          /\ call' = [call EXCEPT !.at = "pinned", !.started = TRUE]
       \/ /\ h' \in {h, [h EXCEPT !.state = IF h.state = "active" THEN "review" ELSE @]}
          /\ Return("stopped") /\ UNCHANGED pin
    /\ UNCHANGED <<owner, child, machine, noticed>>

\* release: the pin is spent by the attempt; the count only by its success.
Release(stopped) ==
    \/ pin' = "none" /\ h' = [h EXCEPT !.pins = @ - 1] /\ Return(stopped)
    \/ pin' = "closed" /\ h' = [h EXCEPT !.state = "review"] /\ Return("review")

\* isolatedSpec, openExecutable, trustedExecutable and the copy of the root.
NewIsolated ==
    /\ At("pinned")
    /\ \/ /\ owner' = [NoOwner EXCEPT !.made = TRUE, !.files = TRUE]
          /\ Goto("launch") /\ UNCHANGED <<h, pin>>
       \/ Release("stopped") /\ UNCHANGED owner
    /\ UNCHANGED <<child, machine, noticed>>

revalidate == ~drift

\* Close of the owner and release of the pin, once no process is owned.
releaseInputs(answer) ==
    /\ ~owner.current
    /\ \/ /\ owner' = [owner EXCEPT !.closed = TRUE, !.files = FALSE, !.state = "stopped"]
          /\ pin = "open" /\ Release(answer)
       \/ /\ owner' = [owner EXCEPT !.closed = TRUE, !.files = FALSE, !.state = "stopped"]
          /\ Return("review") /\ UNCHANGED <<h, pin>>

-----------------------------------------------------------------------------
(* The private Owner: what stopping comes to.                               *)

Stopped == [owner EXCEPT !.current = FALSE, !.attempted = TRUE, !.state = "stopped"]
InReview(o) == [o EXCEPT !.state = "review", !.review = TRUE]
\* A stop that is in doubt, or had to be forced, is not repeated.
Doubtful == InReview([owner EXCEPT !.attempted = TRUE])

\* An executable that cannot be started, or a drift that is met in time.
launchFails ==
    /\ At("launch")
    /\ \/ revalidate /\ releaseInputs("stopped") /\ UNCHANGED noticed
       \/ ~revalidate /\ noticed' = TRUE /\ owner' = InReview(owner) /\ Return("review")
          /\ UNCHANGED <<h, pin>>
    /\ UNCHANGED <<child, machine>>

start ==
    /\ At("launch") /\ revalidate /\ child' = "running"
    /\ owner' = [owner EXCEPT !.current = TRUE, !.state = "starting"]
    /\ Goto("ready") /\ UNCHANGED <<h, pin, machine, noticed>>

\* Not ready in time, or gone: stopped, and only then are the inputs released.
failStart ==
    /\ At("ready")
    /\ \/ child' = "none" /\ owner' = Stopped /\ Goto("failed") /\ UNCHANGED <<h, pin>>
       \/ child' \in {child, "none"} /\ owner' = Doubtful /\ Return("review") /\ UNCHANGED <<h, pin>>
    /\ UNCHANGED <<machine, noticed>>
StartFailed ==
    /\ At("failed") /\ releaseInputs("stopped") /\ UNCHANGED <<child, machine, noticed>>

Ready ==
    /\ At("ready") /\ child = "running" /\ owner' = [owner EXCEPT !.state = "ready"]
    /\ Goto("check") /\ UNCHANGED <<h, pin, child, machine, noticed>>

\* Observe of the private Owner: a process that was ready and is gone.
Observe ==
    /\ At("idle") /\ owner.made /\ ~owner.closed
    /\ \/ owner.review /\ Return("review") /\ UNCHANGED owner
       \/ ~owner.review /\ owner.current /\ child = "exited" /\ owner' = InReview(owner) /\ Return("review")
       \/ ~owner.review /\ (owner.current => child = "running") /\ Goto("check") /\ UNCHANGED owner
    /\ UNCHANGED <<h, pin, child, machine, noticed>>

\* The drift stops the process, and nothing is remembered.
quarantineOnce ==
    IF owner.current
    THEN \/ child' = "none" /\ owner' = Stopped
         \/ child' \in {child, "none"} /\ owner' = Doubtful
    ELSE UNCHANGED <<child, owner>>

\* "Input drift stops a live child once and permanently blocks restart."
quarantineInputs ==
    IF owner.current
    THEN \/ child' = "none" /\ owner' = InReview(Stopped)
         \/ child' \in {child, "none"} /\ owner' = Doubtful
    ELSE owner' = InReview(owner) /\ UNCHANGED child

\* The end of Start and of Observe.
Checked ==
    /\ At("check")
    /\ IF revalidate THEN Return(owner.state) /\ UNCHANGED <<owner, child, noticed>>
       ELSE quarantineInputs /\ noticed' = TRUE /\ Return("review")
    /\ UNCHANGED <<h, pin, machine>>

\* The inputs are released after any stop.
StopReleases ==
    /\ At("idle") /\ owner.made /\ ~owner.closed
    /\ \/ child' = "none" /\ owner' = [Stopped EXCEPT !.closed = TRUE, !.files = FALSE]
       \/ child' \in {child, "none"} /\ owner' = [Doubtful EXCEPT !.closed = TRUE, !.files = FALSE]
    /\ Return("review") /\ UNCHANGED <<h, pin, machine, noticed>>

\* Stop: a stop that was attempted is only verified, and leaves the review.
Stop ==
    /\ At("idle") /\ owner.made /\ ~owner.closed
    /\ \/ ~owner.current /\ owner.review /\ Return("review") /\ UNCHANGED <<owner, child>>
       \/ /\ owner.current /\ owner.attempted /\ Return("review") /\ UNCHANGED child
          /\ owner' = IF child = "none" THEN InReview(Stopped) ELSE InReview(owner)
       \/ /\ owner.current /\ ~owner.attempted
          /\ \/ child' = "none" /\ child = "running" /\ owner' = Stopped /\ Goto("failed")
             \/ child' = "none" /\ child = "exited" /\ owner' = InReview(Stopped) /\ Return("review")
             \/ child' \in {child, "none"} /\ owner' = Doubtful /\ Return("review")
    /\ UNCHANGED <<h, pin, machine, noticed>>

-----------------------------------------------------------------------------
(* Around it.                                                               *)

\* Close of the handoff whatever is pinned.
CloseHandoffAnyway ==
    /\ h.state # "closed" /\ h' = [h EXCEPT !.state = "closed"]
    /\ UNCHANGED <<pin, owner, child, call, machine, noticed>>
CloseHandoff ==
    /\ h.state # "closed" /\ h.pins = 0 /\ h' = [h EXCEPT !.state = "closed"]
    /\ UNCHANGED <<pin, owner, child, call, machine, noticed>>

\* The process group ends by itself; its leader is reaped by its waiter.
Exit ==
    /\ \/ child = "running" /\ child' = "exited"
       \/ child = "exited" /\ owner.attempted /\ child' = "none"
    /\ UNCHANGED <<h, pin, owner, call, machine, noticed>>

Drift ==
    /\ drifts < MaxDrifts /\ drifts' = drifts + 1 /\ drift' = ~drift
    /\ UNCHANGED <<h, pin, owner, child, call, noticed>>

Init ==
    /\ h = [state |-> "active", pins |-> 0] /\ pin = "none" /\ owner = NoOwner /\ child = "none"
    /\ call = [at |-> "idle", answer |-> "-", started |-> FALSE]
    /\ drift = FALSE /\ drifts = 0 /\ noticed = FALSE

Next ==
    \/ pinIsolatedRoot \/ NewIsolated \/ launchFails \/ start \/ failStart \/ StartFailed \/ Ready
    \/ Observe \/ Checked \/ Stop \/ CloseHandoff \/ Exit \/ Drift

Spec == Init /\ [][Next]_vars

-----------------------------------------------------------------------------
\* "The pin prevents direct handoff teardown until the process owner has confirmed
\* stop/reap and closed its independently copied root descriptor": while the
\* process group may live, the handoff stands and the inputs are open.
RootOutlivesProcess ==
    child # "none" \/ owner.current => h.state # "closed" /\ h.pins = 1 /\ owner.files

\* "even after restoration": once a check met a drift the owner stays in review,
\* and a process that is left has had its one stop.
DriftIsFinal ==
    noticed => owner.state = "review" /\ (child # "none" => owner.attempted)
=============================================================================

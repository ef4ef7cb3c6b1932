----------------------------- MODULE NativeSamba -----------------------------
(***************************************************************************)
(* NativeSambaRuntimeQEMU: one retained tuple of code, configuration and   *)
(* state, from which credential workers, one smbd, two held clients and    *)
(* one planned client are run, and NativeIdentityServiceQEMU, which keeps  *)
(* an identity lease around it.  The runtime's gate admits one operation;  *)
(* an operation is the sequence `todo' of what it does in turn, and the    *)
(* daemon lives on between operations.                                     *)
(*                                                                         *)
(* A process may end, an input may change and be restored, a file may fail *)
(* to close or be removed, and a caller may give up, between any two steps.*)
(***************************************************************************)
EXTENDS Naturals, Sequences, FiniteSets

CONSTANTS
    Files,       \* the authentication files of a daemon
    MaxDrifts    \* bound: times that an input is changed or restored

VARIABLES
    r,         \* the fields of the runtime and of its owner
    sets,      \* its process sets: the daemon, the two clients, the planned client
    capture,   \* the pending capture
    auth,      \* the authentication files that exist
    op,        \* the operation that holds the gate
    svc,       \* the identity service, when one owns the runtime
    seen,      \* what the last stop observation said
    drift, drifts

vars == <<r, sets, capture, auth, op, svc, seen, drift, drifts>>

Idle == [name |-> "none", todo |-> <<>>, failed |-> FALSE, err |-> FALSE]
NoCapture == [state |-> "none", live |-> FALSE]
Absent == [live |-> "none", review |-> FALSE, asked |-> FALSE]

-----------------------------------------------------------------------------
(* The operations, as what they do in turn.  The clients that log in one    *)
(* after the other are one login.                                           *)

nativeClient == <<"run", "settle">>
executeWorker == <<"capture", "verify", "run", "settle", "verify">>
StartDaemon == <<"auth", "daemon">> \o nativeClient \o <<"ready", "verify">>
stopNativeDaemon == <<"stopHolder", "stopClients", "stopDaemon", "unlink">>

StartNativeDaemon == StartDaemon \o nativeClient \o <<"verify">>
VerifyNativeIdleDisable == <<"verify">> \o nativeClient \o <<"verify">>
StartNativeClients == <<"verify", "clients">> \o nativeClient \o <<"ready", "verify">>
CheckNativeStartup == <<"verify">>
RetainPlannedConfiguration == <<"match", "retain", "verify">>
PreparePlannedDataInputs == <<"match", "replace", "verify", "prepared">>
nativeDataClient == nativeClient
ProbePlannedDataAccess == <<"verify">> \o nativeDataClient \o <<"verify", "match", "verify">>
plannedFileClientReady == executeWorker
StartPlannedClient(ready) == <<"verify", "holder">> \o ready \o <<"ready", "verify">>
RequestPlannedDaemonExit == <<"verify", "signal">>
Close == (IF r.holderSet THEN stopNativeDaemon \o <<"closeHolder">> ELSE <<>>)
           \o <<"settled", "closeClients", "closeOwner", "unlink", "closeHelper">>

Todo(name) ==
    CASE name = "Execute" -> executeWorker
      [] name = "StartNativeDaemon" -> StartNativeDaemon
      [] name = "VerifyNativeIdleDisable" -> VerifyNativeIdleDisable
      [] name = "StartNativeClients" -> StartNativeClients
      [] name = "CheckNativeStartup" -> CheckNativeStartup
      [] name = "RetainPlannedConfiguration" -> RetainPlannedConfiguration
      [] name = "PreparePlannedDataInputs" -> PreparePlannedDataInputs
      [] name = "StartPlannedDaemon" -> StartDaemon
      [] name = "ProbePlannedDataAccess" -> ProbePlannedDataAccess
      [] name = "StartPlannedClient" -> StartPlannedClient(nativeClient)
      [] name = "StartPlannedFileClient" -> StartPlannedClient(plannedFileClientReady)
      [] name = "RequestPlannedDaemonExit" -> RequestPlannedDaemonExit
      [] name \in {"StopNativeDaemon", "StopNativeService"} -> stopNativeDaemon
      [] name = "Close" -> Close

Names == {"Execute", "StartNativeDaemon", "VerifyNativeIdleDisable", "StartNativeClients",
          "CheckNativeStartup", "RetainPlannedConfiguration", "PreparePlannedDataInputs",
          "StartPlannedDaemon", "ProbePlannedDataAccess", "StartPlannedClient",
          "StartPlannedFileClient", "RequestPlannedDaemonExit", "StopNativeDaemon",
          "StopNativeService", "Close"}
HolderOps == {"StartPlannedClient", "StartPlannedFileClient"}
DaemonOps == {"StartNativeDaemon", "StartPlannedDaemon"}

\* The operations whose failure stops everything that was started.
Containing == DaemonOps \cup HolderOps \cup {"StartNativeClients"}

\* The checks at the head of each method; a refused call changes nothing.
Admitted(name) ==
    /\ ~r.closed
    /\ name = "Close" => ~r.releaseErr
    /\ name \notin {"Close", "StopNativeDaemon", "StopNativeService"} => ~r.review /\ capture = NoCapture
    /\ name \in DaemonOps \cup {"CheckNativeStartup", "RetainPlannedConfiguration",
                               "PreparePlannedDataInputs"} => ~r.attempted
    /\ name \in {"CheckNativeStartup", "RetainPlannedConfiguration", "PreparePlannedDataInputs",
                 "StartPlannedDaemon", "StartNativeClients", "RequestPlannedDaemonExit"}
                \cup HolderOps => ~r.clientsTried
    /\ name \in {"StartNativeDaemon", "CheckNativeStartup", "RetainPlannedConfiguration"} => ~r.config
    /\ name = "PreparePlannedDataInputs" => r.config /\ ~r.prepared
    /\ name \in {"StartPlannedDaemon", "ProbePlannedDataAccess", "RequestPlannedDaemonExit"}
                \cup HolderOps => r.prepared
    /\ name \in {"VerifyNativeIdleDisable", "StartNativeClients", "ProbePlannedDataAccess",
                 "RequestPlannedDaemonExit"} \cup HolderOps => r.pid
    /\ name = "ProbePlannedDataAccess" => ~r.dataTried
    /\ name \in HolderOps => r.dataTried /\ r.holder = "none"
    /\ name = "RequestPlannedDaemonExit" => ~r.exitTried

\* The attempt is recorded before anything is done.
Attempt(name) ==
    [r EXCEPT !.attempted = @ \/ name \in DaemonOps,
              !.clientsTried = @ \/ name = "StartNativeClients",
              !.dataTried = @ \/ name = "ProbePlannedDataAccess",
              !.holder = IF name \in HolderOps THEN name ELSE @]

Call(name) ==
    IF Admitted(name)
    THEN op' = [Idle EXCEPT !.name = name, !.todo = Todo(name)] /\ r' = Attempt(name)
    ELSE op' = [Idle EXCEPT !.failed = ~(r.closed /\ ~r.releaseErr /\ name \in {"Close", "StopNativeDaemon"})]
         /\ r' = r

-----------------------------------------------------------------------------
(* How a step ends.                                                         *)

At(step) == op.todo # <<>> /\ Head(op.todo) = step
Done == op' = [op EXCEPT !.todo = Tail(@)]
Quit == op' = [op EXCEPT !.todo = <<>>, !.failed = TRUE]

\* The set that the operation starts, and whether its Start is under way.
Target ==
    CASE op.name \in HolderOps -> "holder"
      [] op.name = "StartNativeClients" -> "clients"
      [] OTHER -> "daemon"
Starting == (\E i \in DOMAIN op.todo : op.todo[i] = "ready") /\ sets[Target].live # "none"

\* The failure of a step, by the operation it belongs to; own is the runtime
\* as the step left it.
Fails(own) ==
    IF op.name \in Containing
    THEN /\ op' = [op EXCEPT !.failed = TRUE,
                             !.todo = (IF Starting THEN <<"rollback">> ELSE <<>>) \o stopNativeDaemon]
         /\ r' = [own EXCEPT !.review = TRUE]
    ELSE /\ Quit
         /\ r' = [own EXCEPT !.review =
              \/ @
              \/ op.name \in {"VerifyNativeIdleDisable", "ProbePlannedDataAccess"}
              \/ op.name = "Execute" /\ ~At("capture")
              \/ op.name = "RetainPlannedConfiguration" /\ At("verify")
              \/ op.name = "PreparePlannedDataInputs" /\ ~At("match")]

-----------------------------------------------------------------------------
(* The steps.                                                               *)

\* revalidate of the owner, and what is looked at of a daemon that is owned.
ownerRevalidates == ~drift
VerifyNativeDataViews == sets["daemon"].live = "up"
verifyNativeDaemon == VerifyNativeDataViews /\ ~sets["daemon"].review

\* revalidateNativeRuntimeQEMU: the whole retained tuple and, once a daemon is
\* owned, the daemon; an exit that is observed leaves the set in review.
Verify ==
    /\ At("verify")
    /\ sets' = [sets EXCEPT !["daemon"].review = @ \/ (r.pid /\ ownerRevalidates /\ sets["daemon"].live = "exited")]
    /\ \/ ownerRevalidates /\ (r.pid => verifyNativeDaemon) /\ Done /\ r' = r
       \/ Fails(r)
    /\ UNCHANGED <<capture, auth>>

\* The inputs of a worker are duplicated: it is pending, and not consumed.
NewCapture ==
    /\ At("capture")
    /\ \/ capture' = [state |-> "fresh", live |-> FALSE] /\ Done /\ r' = r
       \/ Fails(r) /\ capture' = capture
    /\ UNCHANGED <<sets, auth>>

\* Capture consumes it and launches.  Inputs that are no longer the same, and a
\* deadline before the launch, leave it unconsumed.
Capture == capture' = [state |-> "run", live |-> TRUE]
inputsChanged == capture' = [state |-> "fresh", live |-> FALSE]
Run ==
    /\ At("run") /\ (Capture \/ inputsChanged)
    /\ Done /\ UNCHANGED <<r, sets, auth>>

\* Settled and Close of the capture: a worker that may be alive, or inputs
\* that may be open, keep it pending, in review.
Settle ==
    /\ At("settle")
    /\ \/ /\ ~capture.live /\ capture' = NoCapture
          /\ \/ capture.state = "run" /\ Done /\ r' = r
             \/ Fails(r)
       \/ /\ ~capture.live /\ capture' = [state |-> "unclosed", live |-> FALSE]
          /\ Fails([r EXCEPT !.review = TRUE])
       \/ /\ capture.live /\ capture' = [capture EXCEPT !.state = "stuck"]
          /\ Fails([r EXCEPT !.review = TRUE])
    /\ UNCHANGED <<sets, auth>>

\* The files of the clients are created one by one, each recorded first.
WriteAuth ==
    /\ At("auth")
    /\ \/ auth' = Files /\ Done /\ r' = r
       \/ auth' \in SUBSET Files /\ Fails(r)
    /\ UNCHANGED <<sets, capture>>

\* owner.Start, or Start of a set: revalidate, then the group is launched and
\* asked for readiness by the steps that follow.
Launch(step, set) ==
    /\ At(step)
    /\ \/ /\ step = "daemon" => ~drift
          /\ sets' = [sets EXCEPT ![set].live = "up"] /\ Done
          /\ r' = [r EXCEPT !.holderSet = @ \/ set = "holder"]
       \/ \E made \in BOOLEAN :
            /\ Fails([r EXCEPT !.holderSet = @ \/ (made /\ set = "holder"),
                              !.holderStop = IF made /\ set = "holder" THEN "err" ELSE @])
            /\ sets' = sets
    /\ UNCHANGED <<capture, auth>>

\* Start answers: the process is the one that every later check compares.
Ready ==
    /\ At("ready")
    /\ \/ /\ sets[Target].live = "up" /\ Done
          /\ r' = [r EXCEPT !.pid = @ \/ op.name \in DaemonOps,
                            !.holderPID = @ \/ op.name \in HolderOps]
       \/ Fails(r)
    /\ UNCHANGED <<sets, capture, auth>>

\* failStart of a process that never was ready; for the planned client that
\* was its one attempt to stop.
Rollback ==
    /\ At("rollback") /\ Done
    /\ \E gone \in BOOLEAN :
         sets' = [sets EXCEPT ![Target] = IF gone THEN Absent
                                          ELSE [@ EXCEPT !.review = TRUE, !.asked = TRUE]]
    /\ r' = [r EXCEPT !.holderStop = IF op.name \in HolderOps THEN "err" ELSE @]
    /\ UNCHANGED <<capture, auth>>

\* Renderings and observed files are compared; a mismatch changes nothing.
Match ==
    /\ At("match") /\ ((Done /\ r' = r) \/ Fails(r))
    /\ UNCHANGED <<sets, capture, auth>>

RetainConfig ==
    /\ At("retain")
    /\ \/ Done /\ r' = [r EXCEPT !.config = TRUE]
       \/ Fails(r)
    /\ UNCHANGED <<sets, capture, auth>>

\* prepareNativeDaemonQEMU again, with the shares: the unused set is replaced.
Replace ==
    /\ At("replace") /\ ((Done /\ r' = r) \/ Fails(r))
    /\ UNCHANGED <<sets, capture, auth>>

Prepared ==
    /\ At("prepared") /\ Done /\ r' = [r EXCEPT !.prepared = TRUE]
    /\ UNCHANGED <<sets, capture, auth>>

\* RequestNativeDataExitQEMU: refused without a trace, or admitted once.
Signal ==
    /\ At("signal")
    /\ \/ Quit /\ UNCHANGED <<r, sets>>
       \/ /\ sets["daemon"].live = "up" /\ ~sets["daemon"].review
          /\ \/ Done /\ r' = [r EXCEPT !.exitTried = TRUE]
             \/ Quit /\ r' = [r EXCEPT !.exitTried = TRUE, !.review = TRUE]
          /\ sets' = sets
    /\ UNCHANGED <<capture, auth>>

-----------------------------------------------------------------------------
(* Stopping.                                                                *)

\* Stop of a set: signalled once; an exit nobody asked for, and an uncertain
\* or repeated stop, leave the review that no later stop removes.
StopSet(s) ==
    IF s.live = "none" THEN {s}
    ELSE {[live |-> "none", review |-> s.review \/ s.asked \/ s.live = "exited", asked |-> TRUE],
          [s EXCEPT !.review = TRUE, !.asked = TRUE]}

StopHolderAgain ==
    /\ At("stopHolder")
    /\ IF ~r.holderSet THEN Done /\ UNCHANGED <<r, sets>>
       ELSE \E s \in StopSet(sets["holder"]) :
              /\ sets' = [sets EXCEPT !["holder"] = s]
              /\ r' = [r EXCEPT !.holderStop = IF s.review THEN "err" ELSE "ok",
                                !.review = @ \/ s.review]
              /\ op' = [op EXCEPT !.todo = Tail(@), !.err = @ \/ s.review]
    /\ UNCHANGED <<capture, auth>>

\* stopPlannedClientQEMU: once, and its error is the answer ever after.
StopHolder ==
    /\ At("stopHolder")
    /\ IF ~r.holderSet \/ r.holderStop # "no"
       THEN /\ op' = [op EXCEPT !.todo = Tail(@), !.err = @ \/ r.holderStop = "err"]
            /\ UNCHANGED <<r, sets>>
       ELSE \E s \in StopSet(sets["holder"]) :
              /\ sets' = [sets EXCEPT !["holder"] = s]
              /\ r' = [r EXCEPT !.holderStop = IF s.review THEN "err" ELSE "ok",
                                !.review = @ \/ s.review]
              /\ op' = [op EXCEPT !.todo = Tail(@), !.err = @ \/ s.review]
    /\ UNCHANGED <<capture, auth>>

StopClients ==
    /\ At("stopClients")
    /\ \E s \in IF r.clientsSet THEN StopSet(sets["clients"]) ELSE {Absent} :
         /\ sets' = [sets EXCEPT !["clients"] = s]
         /\ op' = [op EXCEPT !.todo = Tail(@), !.err = @ \/ s.review]
    /\ UNCHANGED <<r, capture, auth>>

\* An error anywhere above keeps the process and the files, in review; Close
\* makes it the error of its release.
StopDaemon ==
    /\ At("stopDaemon")
    /\ \E s \in StopSet(sets["daemon"]) :
         /\ sets' = [sets EXCEPT !["daemon"] = s]
         /\ IF s.review \/ op.err
            THEN Quit /\ r' = [r EXCEPT !.review = TRUE, !.releaseErr = @ \/ op.name = "Close"]
            ELSE Done /\ r' = [r EXCEPT !.pid = FALSE]
    /\ UNCHANGED <<capture, auth>>

\* removeNativeAuthQEMU
Unlink ==
    /\ At("unlink")
    /\ auth' \in SUBSET auth
    /\ IF auth' = {} THEN Done /\ r' = r
       ELSE /\ Quit
            /\ r' = IF op.name = "Close" THEN [r EXCEPT !.review = TRUE, !.releaseErr = TRUE] ELSE r
    /\ UNCHANGED <<sets, capture>>

CloseHolder ==
    /\ At("closeHolder")
    /\ \/ sets["holder"].live = "none" /\ Done /\ r' = [r EXCEPT !.holderSet = FALSE]
       \/ Quit /\ r' = [r EXCEPT !.review = TRUE, !.releaseErr = TRUE]
    /\ UNCHANGED <<sets, capture, auth>>

\* Close waits for nobody: a pending capture must be settled by now.
CloseCapture ==
    /\ At("settled")
    /\ \/ capture = NoCapture /\ Done /\ capture' = capture
       \/ capture.state # "unclosed" /\ ~capture.live /\ capture' = NoCapture /\ Done
       \/ /\ capture # NoCapture /\ Quit
          /\ capture' = IF capture.live THEN capture ELSE [capture EXCEPT !.state = "unclosed"]
    /\ UNCHANGED <<r, sets, auth>>

\* Clients that may be alive, or a pin that failed to close, end Close here,
\* after an attempt to stop the daemon.
CloseClients ==
    /\ At("closeClients")
    /\ \E s \in IF r.clientsSet THEN StopSet(sets["clients"]) ELSE {Absent} :
         \/ /\ s.live = "none"
            /\ sets' = [sets EXCEPT !["clients"] = s]
            /\ op' = [op EXCEPT !.todo = Tail(@), !.err = s.review]
            /\ r' = [r EXCEPT !.review = @ \/ s.review, !.clientsSet = FALSE]
         \/ /\ r.clientsSet
            /\ \E d \in StopSet(sets["daemon"]) :
                 sets' = [sets EXCEPT !["clients"] = s, !["daemon"] = d]
            /\ Quit /\ r' = [r EXCEPT !.review = @ \/ s.review]
    /\ UNCHANGED <<capture, auth>>

CloseOwnerUp ==
    /\ At("closeOwner")
    /\ \E s \in StopSet(sets["daemon"]) :
         /\ sets' = [sets EXCEPT !["daemon"] = s]
         /\ r' = [r EXCEPT !.closed = TRUE, !.held = FALSE] /\ Done
    /\ UNCHANGED <<capture, auth>>

\* Close of the owner: refused while the group may be up.  Under review the
\* originals are released too, but Close ends there: files and helper stay.
CloseOwner ==
    /\ At("closeOwner")
    /\ \E s \in StopSet(sets["daemon"]), released \in BOOLEAN :
         /\ sets' = [sets EXCEPT !["daemon"] = s]
         /\ IF s.live # "none" THEN Quit /\ r' = [r EXCEPT !.review = TRUE]
            ELSE IF s.review \/ r.review \/ op.err \/ ~released
            THEN Quit /\ r' = [r EXCEPT !.closed = TRUE, !.held = FALSE, !.review = TRUE, !.releaseErr = TRUE]
            ELSE Done /\ r' = [r EXCEPT !.closed = TRUE, !.held = FALSE]
    /\ UNCHANGED <<capture, auth>>

CloseHelper ==
    /\ At("closeHelper")
    /\ \/ Done /\ r' = [r EXCEPT !.helper = FALSE]
       \/ Quit /\ r' = [r EXCEPT !.helper = FALSE, !.review = TRUE, !.releaseErr = TRUE]
    /\ UNCHANGED <<sets, capture, auth>>

\* The method returns; StopNativeService does not hide a pending capture.
Return ==
    /\ op.name # "none" /\ op.todo = <<>>
    /\ LET pending == op.name = "StopNativeService" /\ capture # NoCapture
       IN  /\ r' = [r EXCEPT !.review = @ \/ pending]
           /\ op' = [Idle EXCEPT !.failed = op.failed \/ op.err \/ pending]
    /\ UNCHANGED <<sets, capture, auth, svc, seen, drift, drifts>>

Step ==
    /\ \/ Verify \/ NewCapture \/ Run \/ Settle \/ WriteAuth \/ Ready \/ Rollback \/ Match
       \/ Launch("daemon", "daemon") \/ Launch("clients", "clients") \/ Launch("holder", "holder")
       \/ RetainConfig \/ Replace \/ Prepared \/ Signal
       \/ StopHolder \/ StopClients \/ StopDaemon \/ Unlink
       \/ CloseHolder \/ CloseCapture \/ CloseClients \/ CloseOwner \/ CloseHelper
    /\ UNCHANGED <<svc, seen, drift, drifts>>

-----------------------------------------------------------------------------
(* Stop observations: they signal, retry and release nothing.               *)

\* Observe of a set notices an exit nobody asked for, and is then an error.
Noticed(names) ==
    [s \in DOMAIN sets |-> [sets[s] EXCEPT !.review = @ \/ (s \in names /\ sets[s].live = "exited")]]
Quiet(names) == \A s \in names : ~Noticed(names)[s].review

Inputs == IF r.held /\ r.helper THEN {"InputsRetained"} ELSE {}
DaemonClaim == IF ~r.pid /\ sets["daemon"].live = "none" THEN {"DaemonStopped"} ELSE {}

CaptureClaims ==
    (IF capture.state \in {"fresh", "stuck"} /\ ~capture.live THEN {"CaptureSettled"} ELSE {})
      \cup (IF capture.state = "fresh" THEN {"BeforeWorker"} ELSE {})

ObserveNativeStop ==
    /\ ~r.closed /\ r.attempted /\ r.clientsSet /\ r.holder = "none"
    /\ sets' = Noticed({"daemon", "clients"})
    /\ seen' = IF Quiet({"daemon", "clients"}) /\ capture.state # "unclosed" /\ ~capture.live
               THEN DaemonClaim \cup Inputs \cup CaptureClaims
                      \cup (IF sets["clients"].live = "none" THEN {"ClientsStopped"} ELSE {})
               ELSE {}

\* The planned daemon, alone or with the client that was held.
ObservePlannedStop(client) ==
    /\ ~r.closed /\ r.prepared /\ r.attempted /\ r.clientsSet /\ ~r.clientsTried /\ capture = NoCapture
    /\ IF client THEN r.holderSet /\ r.holderPID /\ r.holderStop # "err" ELSE r.holder = "none"
    /\ LET names == {"daemon"} \cup (IF client THEN {"holder"} ELSE {})
       IN  /\ sets' = Noticed(names)
           /\ seen' = IF Quiet(names)
                      THEN DaemonClaim \cup Inputs
                             \cup (IF client /\ r.holderStop = "ok" /\ sets["holder"].live = "none"
                                   THEN {"ClientStopped"} ELSE {})
                      ELSE {}

\* The one generation that was launched is gone, and its set in review.
ObserveNativeDataReviewStop == sets["daemon"].review /\ sets["daemon"].live = "none"

ObserveReviewAnyCapture ==
    /\ ~r.closed /\ r.prepared /\ r.attempted /\ r.review /\ r.pid /\ r.holder = "none"
    /\ r.clientsSet /\ ~r.clientsTried
    /\ ObserveNativeDataReviewStop
    /\ seen' = {"GroupStopped", "InputsRetained"}
                 \cup (IF capture # NoCapture THEN {"BeforeWorker"} ELSE {})
    /\ sets' = sets

\* After review: a capture may be pending only if it was never consumed.
ObservePlannedReviewStop ==
    /\ ~r.closed /\ r.prepared /\ r.attempted /\ r.review /\ r.pid /\ r.holder = "none"
    /\ r.clientsSet /\ ~r.clientsTried
    /\ capture.state \in {"none", "fresh"}
    /\ ObserveNativeDataReviewStop /\ r.held /\ r.helper
    /\ seen' = {"GroupStopped", "InputsRetained"}
                 \cup (IF capture # NoCapture THEN {"BeforeWorker"} ELSE {})
    /\ sets' = sets

ObserveStop ==
    /\ op.name = "none"
    /\ \/ ObserveNativeStop \/ ObservePlannedReviewStop
       \/ \E client \in BOOLEAN : ObservePlannedStop(client)
    /\ UNCHANGED <<r, capture, auth, op, svc, drift, drifts>>

-----------------------------------------------------------------------------
(* NativeIdentityServiceQEMU: each of its methods is a sequence of calls of  *)
(* the runtime; Verify of the lease runs a worker, as does the observation   *)
(* of sessions.                                                              *)

ServiceTodo(method) ==
    CASE method = "Start"    -> <<"Execute", "StartNativeDaemon", "Execute">>
      [] method = "Observe"  -> <<"Execute">>
      [] method = "Sessions" -> <<"Execute", "StartNativeClients", "Execute", "Execute">>
      [] method = "Disabled" -> <<"Execute", "Execute", "VerifyNativeIdleDisable">>
      [] method = "Disable"  -> <<"Execute", "Execute">>
      [] method = "Stop"     -> <<"StopNativeService">>
      [] method = "Close"    -> <<"Close">>

Methods == {"Start", "Observe", "Sessions", "Disabled", "Disable", "Stop", "Close"}

\* A call of the service; Stop is what a cancelled Supervise does, and Observe
\* what its timer does.
BeginService(method) ==
    /\ svc.owns /\ svc.todo = <<>> /\ op.name = "none"
    /\ CASE method = "Start" -> ~svc.closed /\ ~svc.review /\ ~svc.attempted
         [] method = "Close" -> ~svc.uncertain /\ ~svc.closed
         [] OTHER -> ~svc.closed /\ ~svc.review /\ svc.started /\ ~svc.stopped
    /\ svc' = [svc EXCEPT !.attempted = @ \/ method = "Start", !.method = method,
                          !.todo = ServiceTodo(method), !.called = FALSE]
    /\ UNCHANGED <<r, sets, capture, auth, op, seen, drift, drifts>>

ServiceCalls ==
    /\ svc.todo # <<>> /\ ~svc.called /\ op.name = "none"
    /\ Call(Head(svc.todo))
    /\ svc' = [svc EXCEPT !.called = TRUE]
    /\ UNCHANGED <<sets, capture, auth, seen, drift, drifts>>

Answered == svc.todo # <<>> /\ svc.called /\ op.name = "none"

\* The call succeeded: after Close the lease is released, and a Disable hands
\* over to the successor.
ServiceGoesOn ==
    /\ Answered /\ ~op.failed
    /\ LET call == Head(svc.todo)
       IN  \E released \in (IF call = "Close" THEN BOOLEAN ELSE {TRUE}) :
             svc' = [svc EXCEPT !.todo = Tail(@), !.called = FALSE,
                       !.started = @ \/ call = "StartNativeDaemon",
                       !.stopped = @ \/ call \in {"StopNativeService", "Close"},
                       !.closed = @ \/ (call = "Close" /\ released),
                       !.lease = @ /\ ~(call = "Close" /\ released),
                       !.review = @ \/ ~released, !.uncertain = @ \/ ~released]
    /\ UNCHANGED <<r, sets, capture, auth, op, seen, drift, drifts>>

ServiceFailsOpen ==
    /\ Answered
    /\ svc' = [svc EXCEPT !.todo = <<>>, !.called = FALSE, !.review = TRUE, !.uncertain = @ \/ op.failed]
    /\ UNCHANGED <<r, sets, capture, auth, op, seen, drift, drifts>>

\* A failed observation, of the worker or of the lease itself, is quarantined:
\* review, and the service is stopped.  A failed start, stop or close has done
\* its own stopping: it is never repeated.
ServiceFails ==
    /\ Answered
    /\ LET call == Head(svc.todo)
       IN  \/ /\ call \in {"Execute", "VerifyNativeIdleDisable"}
              /\ svc' = [svc EXCEPT !.review = TRUE, !.called = FALSE,
                           !.todo = IF svc.stopped THEN <<>> ELSE <<"StopNativeService">>]
           \/ /\ op.failed /\ call \notin {"Execute", "VerifyNativeIdleDisable"}
              /\ svc' = [svc EXCEPT !.todo = <<>>, !.called = FALSE, !.review = TRUE, !.uncertain = TRUE]
    /\ UNCHANGED <<r, sets, capture, auth, op, seen, drift, drifts>>

-----------------------------------------------------------------------------
(* A runtime without a service is called by its campaign.                   *)

Begin(name) ==
    /\ ~svc.owns /\ op.name = "none" /\ Call(name)
    /\ UNCHANGED <<sets, capture, auth, svc, seen, drift, drifts>>

(* Processes and files, outside the program.                                *)

ProcessExits ==
    /\ \/ /\ \E s \in DOMAIN sets : sets[s].live = "up" /\ sets' = [sets EXCEPT ![s].live = "exited"]
          /\ capture' = capture
       \/ capture.live /\ capture' = [capture EXCEPT !.live = FALSE] /\ sets' = sets
    /\ UNCHANGED <<r, auth, op, svc, seen, drift, drifts>>

Drift ==
    /\ drifts < MaxDrifts /\ drifts' = drifts + 1 /\ drift' = ~drift
    /\ UNCHANGED <<r, sets, capture, auth, op, svc, seen>>

-----------------------------------------------------------------------------
Init ==
    /\ r = [closed |-> FALSE, review |-> FALSE, releaseErr |-> FALSE, attempted |-> FALSE, pid |-> FALSE,
            clientsSet |-> TRUE, clientsTried |-> FALSE, config |-> FALSE, prepared |-> FALSE,
            dataTried |-> FALSE, exitTried |-> FALSE, holder |-> "none", holderSet |-> FALSE,
            holderPID |-> FALSE, holderStop |-> "no", held |-> TRUE, helper |-> TRUE]
    /\ sets = [s \in {"daemon", "clients", "holder"} |-> Absent]
    /\ capture = NoCapture /\ auth = {} /\ op = Idle /\ seen = {} /\ drift = FALSE /\ drifts = 0
    /\ \E owns \in BOOLEAN :
         svc = [owns |-> owns, todo |-> <<>>, method |-> "none", called |-> FALSE, lease |-> owns,
                attempted |-> FALSE, started |-> FALSE, stopped |-> FALSE, closed |-> FALSE,
                review |-> FALSE, uncertain |-> FALSE]

Next ==
    \/ \E name \in Names : Begin(name)
    \/ \E method \in Methods : BeginService(method)
    \/ Step \/ Return \/ ObserveStop \/ ServiceCalls \/ ServiceGoesOn \/ ServiceFails
    \/ ProcessExits \/ Drift

Spec == Init /\ [][Next]_vars

-----------------------------------------------------------------------------
\* The originals outlive every process that was started from them, and the
\* identity lease outlives the runtime that serves under it.
InputsOutlive ==
    /\ (\E s \in DOMAIN sets : sets[s].live # "none") \/ capture.live => r.held /\ r.helper
    /\ svc.owns /\ ~svc.lease => r.closed /\ ~r.held

\* What a stop observation said stays true: nothing it saw stopped starts
\* again, a capture it saw unconsumed is never run, and the inputs it saw are
\* held until a Close.
StopsAreTrue ==
    /\ seen \cap {"DaemonStopped", "GroupStopped"} # {} => sets["daemon"].live = "none"
    /\ "ClientStopped" \in seen => sets["holder"].live = "none"
    /\ "BeforeWorker" \in seen => capture.state \in {"none", "fresh", "unclosed"}
    /\ "InputsRetained" \in seen /\ op.name # "Close" /\ ~r.closed => r.held /\ r.helper

\* A Close without an error has left nothing: no process, no capture, no file
\* with a password, no descriptor; and once the service is in review it is
\* stopped, or known as uncertain.
NothingLeft ==
    /\ r.closed /\ ~r.releaseErr /\ op.name = "none" =>
         /\ auth = {} /\ ~r.held /\ ~r.helper /\ capture = NoCapture
         /\ \A s \in DOMAIN sets : sets[s].live = "none"
    /\ svc.owns /\ svc.review /\ svc.todo = <<>> => svc.stopped \/ svc.uncertain

\* In review nothing is launched any more, and the planned client is asked to
\* stop once.
NoneAfterReview ==
    [][ /\ r.review => /\ r'.review
                       /\ \A s \in DOMAIN sets : sets'[s].live = "up" => sets[s].live = "up"
                       /\ capture'.state = "run" => capture.state = "run"
        /\ r.holderStop # "no" => r'.holderStop = r.holderStop /\ (sets'["holder"].asked = sets["holder"].asked) ]_vars
=============================================================================

---------------------------- MODULE ServerCapture ----------------------------
(***************************************************************************)
(* The capture composition: a client owner (pendingClientOwnerQEMU) with   *)
(* its process adapter, and a server runtime (serverObserverRuntimeQEMU)   *)
(* with its daemon, its status capture and the packet channel over which   *)
(* the server's workers report what they read.  An operation of the client *)
(* that needs the server holds both gates, the client's first; a busy gate *)
(* refuses, nobody waits.  Readings of the client are published only as    *)
(* frames of the worker that serves its connection.                        *)
(*                                                                         *)
(* An operation is the sequence `todo' of its fences and effects; any of   *)
(* them may fail.  Processes die, workers fork and report, inputs change   *)
(* and are restored between any two of them.                               *)
(***************************************************************************)
EXTENDS Naturals, Sequences, FiniteSets

CONSTANTS
    MaxWorkers,   \* bound: worker processes forked by the daemon
    MaxDrifts,    \* bound: times that an input is changed or restored
    MaxStray      \* bound: reports of workers that do not serve the client

VARIABLES
    o,          \* the client owner
    c,          \* its adapter
    p,          \* the client process: up, requests written, answers printed
    r,          \* the server runtime
    d,          \* its daemon adapter, and whether the group is up
    workers,    \* the live workers
    forked,     \* number of workers forked
    serving,    \* the worker of the client's connection, 0: none
    chan,       \* the packet channel
    reports,    \* reports sent by each worker
    stray,      \* number of reports by other workers
    cop, rop,   \* operation in progress on the client, on the runtime
    drift,      \* inputs of either side that differ from what was retained
    drifts,
    published   \* history: the frames returned by readCaptureFrameQEMU

clientVars == <<o, c, p, cop, published>>
runtimeVars == <<r, d, rop>>
worldVars == <<workers, forked, serving, reports, stray, drift, drifts>>
vars == <<clientVars, runtimeVars, worldVars, chan>>

Idle == [op |-> "none", todo |-> <<>>, peer |-> FALSE, got |-> 0]
Workers == 1..MaxWorkers

\* The fences of observeCaptureWorkerLockedQEMU: see the file and its share as
\* they were, start the status capture, see it settled, compare the worker with the one pinned first.
observeCaptureWorker == <<"source", "status", "settled", "witness">>

\* The methods of the client owner.
start == <<"inputs", "spawn", "ready", "inputs">>
initialHandle == <<"inputs", "handle", "inputs">>
captureConnection(tcp) ==
    <<"inputs">> \o observeCaptureWorker \o <<"client", tcp>> \o observeCaptureWorker \o <<"inputs">>
readCaptureFrame ==
    <<"inputs">> \o observeCaptureWorker \o <<"tcp", "client", "sender", "ask", "answer", "next">>
      \o observeCaptureWorker \o <<"sender", "tcp", "inputs", "last">>
closeClient == <<"inputs", "client", "bye", "gone", "inputs">>
close == <<"inputs", "adapter", "pins">>

\* The methods of the runtime.
Start == <<"server", "launch", "daemon", "server">>
Observe == <<"server", "daemon", "server">>
Stop == <<"dstop">>
Close == <<"dclose", "rpins">>

Todo(op) ==
    CASE op = "start"   -> start
      [] op = "handle"  -> initialHandle
      [] op = "bind"    -> captureConnection("bindtcp")
      [] op = "recheck" -> captureConnection("tcp")
      [] op = "read"    -> readCaptureFrame
      [] op = "close"   -> closeClient
      [] op = "release" -> close
      [] op = "Start"   -> Start
      [] op = "Observe" -> Observe
      [] op = "Stop"    -> Stop
      [] op = "Close"   -> Close

WithPeer == {"bind", "recheck", "read"}

-----------------------------------------------------------------------------
(* What the two sides look at.                                              *)

queueEmpty == chan.queue = <<>>
revalidateCode == ~drift["server"]
checkInputs == revalidateCode /\ queueEmpty
recheckCaptureSource == revalidateCode
revalidateInputs == ~drift["client"]

\* The client prints its handle once the file is open, and a line per reading.
parsePendingHandle == serving # 0
notices == p.up /\ parsePendingHandle
sampleAnswered == p.up /\ p.answered = c.reads
captureRecheckProcess == sampleAnswered /\ ~c.review
InitialHandleObservation == captureRecheckProcess /\ ~c.closeSent

\* What smbstatus lists: the worker that has the file open.
parsePendingStatus == serving

\* The kernel lists the client's connection by its two sockets; the other end
\* is looked for among those of a process whose generation is the one retained.
parsePendingTCPSocket == {serving} \ {0}
pendingTCPKernel == IF p.up THEN parsePendingTCPSocket ELSE {}
retainPendingProc(worker) == worker \in workers
pendingProcessSockets(worker) == {g \in {serving} : g = worker}
matchPendingTCPPair(sockets) == sockets \cap pendingTCPKernel # {}
matchPendingProcessPair(worker) == matchPendingTCPPair(pendingProcessSockets(worker))
recheckProcesses == p.up /\ retainPendingProc(c.peer)
observeConnection == recheckProcesses /\ matchPendingProcessPair(c.peer)

captureWorkerSender == r.worker \in workers
ObserveDaemon == d.up /\ ~d.review
lastFrame == chan.seq = 2 => queueEmpty

\* The fences that only look.
Sees(f) ==
    CASE f = "inputs"  -> revalidateInputs
      [] f = "server"  -> checkInputs
      [] f = "source"  -> recheckCaptureSource /\ checkInputs
      [] f = "ready"   -> notices
      [] f = "handle"  -> InitialHandleObservation
      [] f = "client"  -> captureRecheckProcess
      [] f = "tcp"     -> observeConnection
      [] f = "sender"  -> captureWorkerSender
      [] f = "answer"  -> sampleAnswered
      [] f = "daemon"  -> ObserveDaemon
      [] f = "last"    -> lastFrame
      [] OTHER -> FALSE

-----------------------------------------------------------------------------
(* Containment.                                                             *)

\* stopProcess: the group is gone, or the attempt failed and it may be up.
StopOutcomes(up) == {FALSE} \cup (IF up THEN {TRUE} ELSE {})

\* fail of the owner: review for good; the adapter is stopped at most once.
ClientFails(up, own) ==
    /\ o' = [own EXCEPT !.review = TRUE, !.stops = IF o.stopTried THEN @ ELSE @ + 1,
                        !.stopTried = TRUE]
    /\ c' = [c EXCEPT !.review = TRUE, !.stopErr = @ \/ (up /\ ~c.stopTried),
                      !.stopTried = TRUE]
    /\ p' = [p EXCEPT !.up = IF c.stopTried THEN @ ELSE up]

\* contain of the runtime: review for good, and the daemon is stopped.
contain(up) ==
    /\ r' = [r EXCEPT !.review = TRUE]
    /\ d' = [d EXCEPT !.up = up, !.review = TRUE, !.stopErr = up]
    /\ workers' = IF up THEN workers ELSE {}
    /\ serving' = IF up THEN serving ELSE 0

\* Only the client is contained.
ClientOpFailsAlone ==
    /\ \E up \in StopOutcomes(p.up) : ClientFails(up, o)
    /\ r' = [r EXCEPT !.review = cop.peer \/ @]
    /\ UNCHANGED <<d, workers, serving>>
    /\ cop' = Idle

\* An operation of the client fails: with the peer's gate held both sides are
\* contained, and the frame that was taken is not returned.
ClientOpFails ==
    /\ \E up \in StopOutcomes(p.up) : ClientFails(up, o)
    /\ IF cop.peer
       THEN \E up \in StopOutcomes(d.up) : contain(up)
       ELSE UNCHANGED <<r, d, workers, serving>>
    /\ cop' = Idle

RuntimeOpFails ==
    /\ \E up \in StopOutcomes(d.up) : contain(up)
    /\ rop' = Idle

-----------------------------------------------------------------------------
(* Operations begin: the gates and the conditions of admission.             *)

Admit(op) ==
    /\ ~o.closed /\ ~o.review
    /\ CASE op = "start" -> ~o.started
         [] op \in {"handle", "close"} -> o.started /\ ~o.settled
         [] op = "bind" -> o.started /\ ~o.settled /\ ~o.bound
         [] op = "recheck" -> o.started /\ ~o.settled /\ o.bound
         [] op = "read" -> o.started /\ ~o.settled /\ o.bound
                             /\ r.worker # 0 /\ chan.seq < 2
         [] op = "release" -> o.started => o.settled

\* enter, and peer.enter: the runtime must not be in another operation.  A
\* runtime that was stopped still has the pid of its daemon, and is entered.
BeginClient(op) ==
    /\ cop = Idle /\ Admit(op)
    /\ op \in WithPeer => rop = Idle /\ ~r.closed /\ ~r.review
    /\ op \in {"bind", "recheck"} => d.attempted
    /\ cop' = [op |-> op, todo |-> Todo(op), peer |-> op \in WithPeer, got |-> 0]
    /\ o' = [o EXCEPT !.bound = @ \/ op = "bind"]
    /\ UNCHANGED <<c, p, published, runtimeVars, worldVars, chan>>

\* bind and recheck of a runtime that is closed, in review or not started fail
\* the client, and so does a recheck of what was never bound.
PeerUnavailable ==
    /\ cop = Idle
    /\ \/ /\ rop = Idle /\ (Admit("bind") \/ Admit("recheck"))
          /\ r.closed \/ r.review \/ ~d.attempted
       \/ Admit("bind")
    /\ \E up \in StopOutcomes(p.up) : ClientFails(up, o)
    /\ UNCHANGED <<cop, published, runtimeVars, worldVars, chan>>

\* stop of the owner: containment, not a protocol close.
StopClient ==
    /\ cop = Idle /\ ~o.closed /\ ~o.review
    /\ \E up \in StopOutcomes(p.up) : ClientFails(up, o)
    /\ UNCHANGED <<cop, published, runtimeVars, worldVars, chan>>

BeginRuntime(op) ==
    /\ rop = Idle /\ ~cop.peer /\ ~r.closed
    /\ op \in {"Start", "Observe", "Close"} => ~r.review
    /\ op = "Start" => ~r.attempted
    /\ rop' = [Idle EXCEPT !.op = op, !.todo = Todo(op)]
    /\ r' = [r EXCEPT !.attempted = @ \/ op = "Start",
                      !.review = @ \/ (op = "Stop" /\ ~checkInputs)]
    /\ UNCHANGED <<d, clientVars, worldVars, chan>>

-----------------------------------------------------------------------------
(* The steps of an operation, of the client or of the runtime.              *)

CAt(f) == cop.todo # <<>> /\ Head(cop.todo) = f
RAt(f) == rop.todo # <<>> /\ Head(rop.todo) = f
CNext == cop' = [cop EXCEPT !.todo = Tail(@)]
RNext == rop' = [rop EXCEPT !.todo = Tail(@)]

Look ==
    \/ /\ cop.todo # <<>> /\ Sees(Head(cop.todo)) /\ CNext
       /\ UNCHANGED <<o, c, p, published, runtimeVars, worldVars, chan>>
    \/ /\ rop.todo # <<>> /\ Sees(Head(rop.todo)) /\ RNext
       /\ UNCHANGED <<r, d, clientVars, worldVars, chan>>

\* Any fence may fail, what it looked at or the call's own deadline; the
\* releases, and the stop of the runtime, have failures of their own.
Fail ==
    \/ /\ cop.todo # <<>> /\ Head(cop.todo) \notin {"adapter", "pins"}
       /\ ClientOpFails
       /\ chan' = [chan EXCEPT !.review = @ \/ CAt("next") \/ CAt("last")]
       /\ UNCHANGED <<published, rop, forked, reports, stray, drift, drifts>>
    \/ /\ rop.todo # <<>> /\ rop.op \in {"Start", "Observe"}
       /\ RuntimeOpFails
       /\ UNCHANGED <<clientVars, forked, reports, stray, drift, drifts, chan>>

\* Start of the adapter: `started' is set before the process exists.
Spawn ==
    /\ CAt("spawn") /\ CNext
    /\ o' = [o EXCEPT !.started = TRUE] /\ c' = [c EXCEPT !.started = TRUE]
    /\ p' = [p EXCEPT !.up = TRUE]
    /\ UNCHANGED <<published, runtimeVars, worldVars, chan>>

\* captureStatusLockedQEMU: a child of the runtime, reachable until settled.
Status ==
    /\ \/ CAt("status") /\ ~r.status /\ r' = [r EXCEPT !.status = TRUE]
       \/ CAt("settled") /\ r' = [r EXCEPT !.status = FALSE]
    /\ CNext
    /\ UNCHANGED <<o, c, p, published, d, rop, worldVars, chan>>

\* The worker that has the file open; pinned once, compared ever after.
pendingWorkerStat(worker) == worker \in workers
captureWorkerFileSlot(worker) == worker = parsePendingStatus
Witness ==
    /\ CAt("witness") /\ d.up
    /\ \E worker \in Workers :
         /\ pendingWorkerStat(worker) /\ captureWorkerFileSlot(worker) /\ r.worker \in {0, worker}
         /\ r' = [r EXCEPT !.worker = worker]
    /\ CNext
    /\ UNCHANGED <<o, c, p, published, d, rop, worldVars, chan>>

\* The peer is the worker that was witnessed; its end is bound once.
BindConnection ==
    /\ CAt("bindtcp") /\ c.peer = 0 /\ CNext
    /\ retainPendingProc(r.worker) /\ matchPendingProcessPair(r.worker)
    /\ c' = [c EXCEPT !.peer = r.worker]
    /\ UNCHANGED <<o, p, published, runtimeVars, worldVars, chan>>

\* ReadSample: the intent is counted before the one request is written.
ReadSample ==
    /\ CAt("ask") /\ p.up /\ c.reads < 2 /\ p.answered = c.reads
    /\ c' = [c EXCEPT !.reads = @ + 1] /\ p' = [p EXCEPT !.asked = @ + 1] /\ CNext
    /\ UNCHANGED <<o, published, runtimeVars, worldVars, chan>>

\* next of the channel, and what readCaptureFrameQEMU compares at once.
NextFrame ==
    /\ CAt("next") /\ ~queueEmpty
    /\ LET frame == Head(chan.queue)
       IN  /\ frame.number = chan.seq + 1
           /\ chan.seq = 1 => frame.from = chan.first /\ Len(chan.queue) = 1
           /\ chan' = [chan EXCEPT !.queue = Tail(@), !.seq = @ + 1,
                                   !.first = IF @ = 0 THEN frame.from ELSE @]
           /\ IF frame.from = r.worker /\ Len(chan.queue) = 1
              THEN /\ cop' = [cop EXCEPT !.todo = Tail(@), !.got = frame.from]
                   /\ UNCHANGED <<o, c, p, r, d, workers, serving>>
              ELSE ClientOpFails
    /\ UNCHANGED <<published, rop, forked, reports, stray, drift, drifts>>

\* CloseClient: one request to close, then the group must be gone.
CloseClient ==
    /\ \/ /\ CAt("bye") /\ p.up /\ (c.peer # 0 => c.peer = serving)
          /\ c' = [c EXCEPT !.closeSent = TRUE] /\ p' = [p EXCEPT !.closing = TRUE]
       \/ /\ CAt("gone") /\ ~p.up /\ p.closing
          /\ c' = [c EXCEPT !.settled = TRUE] /\ p' = p
    /\ CNext
    /\ UNCHANGED <<o, published, runtimeVars, worldVars, chan>>

\* The worker is not looked at.
AdapterCloseAnyway ==
    /\ CAt("adapter")
    /\ c' = [c EXCEPT !.held = FALSE] /\ CNext /\ o' = o
    /\ UNCHANGED <<p, published, runtimeVars, worldVars, chan>>

\* Close of the adapter: not while the worker it was bound to is alive; the
\* owner makes every refusal final.
AdapterClose ==
    /\ CAt("adapter")
    /\ IF (c.started => c.settled) /\ ~c.review /\ c.peer \notin workers
       THEN \/ /\ c' = [c EXCEPT !.held = FALSE] /\ CNext /\ o' = o
            \/ /\ c' = [c EXCEPT !.held = FALSE, !.review = TRUE]
               /\ o' = [o EXCEPT !.review = TRUE] /\ cop' = Idle
       ELSE o' = [o EXCEPT !.review = TRUE] /\ cop' = Idle /\ c' = c
    /\ UNCHANGED <<p, published, runtimeVars, worldVars, chan>>

ReleaseInputs ==
    /\ CAt("pins")
    /\ \/ o' = [o EXCEPT !.held = FALSE] /\ CNext
       \/ o' = [o EXCEPT !.held = FALSE, !.review = TRUE] /\ cop' = Idle
    /\ UNCHANGED <<c, p, published, runtimeVars, worldVars, chan>>

\* Start of the daemon: a single attempt of its own.
Launch ==
    /\ RAt("launch") /\ ~d.attempted /\ RNext
    /\ d' = [d EXCEPT !.attempted = TRUE, !.up = TRUE]
    /\ UNCHANGED <<r, clientVars, worldVars, chan>>

\* Stop of the runtime: inputs that changed only add the review.
StopDaemon ==
    /\ RAt("dstop") /\ RNext
    /\ \E up \in StopOutcomes(d.up) :
         /\ d' = [d EXCEPT !.up = up, !.stopErr = up, !.review = @ \/ up]
         /\ r' = [r EXCEPT !.review = @ \/ up \/ d.review \/ ~checkInputs]
         /\ workers' = IF up THEN workers ELSE {}
         /\ serving' = IF up THEN serving ELSE 0
    /\ UNCHANGED <<clientVars, forked, reports, stray, drift, drifts, chan>>

\* Close lets go of the inputs of a group that is up.
CloseDaemonUp ==
    /\ RAt("dclose") /\ RNext
    /\ UNCHANGED <<r, d, clientVars, worldVars, chan>>

\* Close of the runtime: refused while the group is up, without a trace.
CloseDaemon ==
    /\ RAt("dclose")
    /\ IF d.up THEN rop' = Idle /\ UNCHANGED <<r, d>>
       ELSE \/ RNext /\ UNCHANGED <<r, d>>
            \/ r' = [r EXCEPT !.review = TRUE] /\ rop' = Idle /\ d' = d
    /\ UNCHANGED <<clientVars, worldVars, chan>>

\* The originals in their order; the first failure keeps the rest, for good.
ReleaseRuntime ==
    /\ RAt("rpins")
    /\ \/ r' = [r EXCEPT !.held = FALSE] /\ RNext
       \/ r' = [r EXCEPT !.held = FALSE, !.review = TRUE] /\ rop' = Idle
    /\ UNCHANGED <<d, clientVars, worldVars, chan>>

Return ==
    \/ /\ cop.op # "none" /\ cop.todo = <<>> /\ cop' = Idle
       /\ o' = [o EXCEPT !.settled = @ \/ cop.op = "close",
                         !.closed = @ \/ cop.op = "release"]
       /\ published' = IF cop.op = "read" THEN Append(published, cop.got) ELSE published
       /\ UNCHANGED <<c, p, runtimeVars, worldVars, chan>>
    \/ /\ rop.op # "none" /\ rop.todo = <<>> /\ rop' = Idle
       /\ r' = [r EXCEPT !.closed = @ \/ rop.op = "Close"]
       /\ UNCHANGED <<d, clientVars, worldVars, chan>>

-----------------------------------------------------------------------------
(* Processes and files, outside the program.                                *)

Fork(g) == forked' = forked + 1 /\ workers' = workers \cup {g}

\* The client connects: the daemon forks the worker that serves it.
Connect ==
    /\ p.up /\ serving = 0 /\ c.peer = 0 /\ d.up /\ forked < MaxWorkers
    /\ p.answered = 0 /\ p.asked = 0 /\ ~p.closing
    /\ serving' = forked + 1 /\ Fork(forked + 1)
    /\ UNCHANGED <<clientVars, runtimeVars, reports, stray, drift, drifts, chan>>

OtherWorker ==
    /\ d.up /\ forked < MaxWorkers /\ Fork(forked + 1)
    /\ UNCHANGED <<clientVars, runtimeVars, serving, reports, stray, drift, drifts, chan>>

WorkerExits ==
    /\ \E g \in workers :
         /\ workers' = workers \ {g}
         /\ serving' = IF serving = g THEN 0 ELSE serving
    /\ UNCHANGED <<clientVars, runtimeVars, forked, reports, stray, drift, drifts, chan>>

Send(g) ==
    /\ chan' = [chan EXCEPT !.queue = Append(@, [from |-> g, number |-> reports[g] + 1])]
    /\ reports' = [reports EXCEPT ![g] = @ + 1]

\* The worker reads for the client: it reports, and then the client answers.
Report ==
    /\ serving # 0 /\ reports[serving] < p.asked /\ Send(serving)
    /\ UNCHANGED <<clientVars, runtimeVars, workers, forked, serving, stray, drift, drifts>>

Answer ==
    /\ p.up /\ serving # 0 /\ p.answered < reports[serving] /\ p.answered < p.asked
    /\ p' = [p EXCEPT !.answered = @ + 1]
    /\ UNCHANGED <<o, c, cop, published, runtimeVars, worldVars, chan>>

\* A worker that does not serve the client has something to report as well.
StrayReport ==
    /\ stray < MaxStray /\ stray' = stray + 1
    /\ \E g \in workers \ {serving} : Send(g)
    /\ UNCHANGED <<clientVars, runtimeVars, workers, forked, serving, drift, drifts>>

\* Closing, the client ends its connection; the worker may live on for a while.
ClientExits ==
    /\ p.up /\ p' = [p EXCEPT !.up = FALSE]
    /\ serving' = 0
    /\ UNCHANGED <<o, c, cop, published, runtimeVars, workers, forked, reports,
                   stray, drift, drifts, chan>>

Drift ==
    /\ drifts < MaxDrifts /\ drifts' = drifts + 1
    /\ \E s \in {"client", "server"} : drift' = [drift EXCEPT ![s] = ~@]
    /\ UNCHANGED <<clientVars, runtimeVars, workers, forked, serving, reports, stray, chan>>

-----------------------------------------------------------------------------
newPendingClientOwner ==
    [started |-> FALSE, settled |-> FALSE, review |-> FALSE, closed |-> FALSE,
     stopTried |-> FALSE, stops |-> 0, bound |-> FALSE, held |-> TRUE]
NewServerCaptureClient ==
    [started |-> FALSE, settled |-> FALSE, review |-> FALSE, closeSent |-> FALSE,
     stopTried |-> FALSE, stopErr |-> FALSE, reads |-> 0, peer |-> 0, held |-> TRUE]
newServerObserverRuntime ==
    [attempted |-> FALSE, review |-> FALSE, closed |-> FALSE, status |-> FALSE,
     worker |-> 0, held |-> TRUE]
NewNativeObserverDaemon == [attempted |-> FALSE, up |-> FALSE, review |-> FALSE, stopErr |-> FALSE]
newPendingServerPacket == [queue |-> <<>>, seq |-> 0, first |-> 0, review |-> FALSE]

Init ==
    /\ o = newPendingClientOwner /\ c = NewServerCaptureClient
    /\ r = newServerObserverRuntime /\ d = NewNativeObserverDaemon
    /\ p = [up |-> FALSE, asked |-> 0, answered |-> 0, closing |-> FALSE]
    /\ workers = {} /\ forked = 0 /\ serving = 0 /\ stray = 0
    /\ reports = [g \in Workers |-> 0]
    /\ chan = newPendingServerPacket
    /\ cop = Idle /\ rop = Idle /\ published = <<>> /\ drifts = 0
    /\ drift = [s \in {"client", "server"} |-> FALSE]

ClientOps == {"start", "handle", "bind", "recheck", "read", "close", "release"}
RuntimeOps == {"Start", "Observe", "Stop", "Close"}

Next ==
    \/ \E op \in ClientOps : BeginClient(op)
    \/ \E op \in RuntimeOps : BeginRuntime(op)
    \/ PeerUnavailable \/ StopClient \/ Look \/ Fail \/ Spawn \/ Status \/ Witness
    \/ BindConnection \/ ReadSample \/ NextFrame \/ CloseClient \/ AdapterClose
    \/ ReleaseInputs \/ Launch \/ StopDaemon \/ CloseDaemon \/ ReleaseRuntime \/ Return
    \/ Connect \/ OtherWorker \/ WorkerExits \/ Report \/ Answer \/ StrayReport
    \/ ClientExits \/ Drift

Spec == Init /\ [][Next]_vars

-----------------------------------------------------------------------------
\* What readCaptureFrameQEMU returns is a reading of its own client: at most
\* two, each by the worker that the connection was bound to, and each the
\* report of a request the client has answered.
FramesAreReadings ==
    /\ Len(published) <= p.answered /\ p.answered <= c.reads /\ c.reads <= 2
    /\ \A i \in DOMAIN published : published[i] = c.peer /\ c.peer = r.worker

\* The originals outlive every process that was started from them: the client's
\* its process and the worker it is bound to, the server's the whole group and
\* the status capture.
OriginalsOutlive ==
    /\ p.up \/ c.peer \in workers => o.held /\ c.held
    /\ d.up \/ workers # {} \/ r.status => r.held

\* Between operations a side in review is contained: its process is gone, or
\* the one attempt to stop it has failed.
Contained ==
    /\ cop = Idle /\ o.review => ~p.up \/ c.stopErr
    /\ rop = Idle /\ ~cop.peer /\ r.review => ~d.up \/ d.stopErr
    /\ o.stops <= 1

\* Review is final: nothing is released, read or started after it, and no frame
\* is taken from the queue that was left, even when the input is restored.
ReviewIsFinal ==
    [][ /\ o.review => /\ o'.review /\ o'.held = o.held /\ c'.held = c.held
                       /\ c'.reads = c.reads /\ published' = published
                       /\ chan'.seq = chan.seq /\ (p'.up => p.up)
        /\ r.review => /\ r'.review /\ (rop.op # "Close" => r'.held = r.held)
                       /\ chan'.seq = chan.seq /\ (d'.up => d.up) ]_vars
=============================================================================

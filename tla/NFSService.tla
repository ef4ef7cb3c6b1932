----------------------------- MODULE NFSService -----------------------------
(***************************************************************************)
(* The lifetime of the NFS service: the owner (internal/nfsowner), which   *)
(* is prepared, running, stopped, closed or in review; its back end, which *)
(* opens the kernel controller, starts rpcbind, the kernel threads and     *)
(* mountd, and exports; the controller (internal/nfskernel), one per       *)
(* machine; and the sources the service is built from, given back last.    *)
(*                                                                         *)
(* A call is a sequence of steps `todo'; every step may fail, also after   *)
(* its effect.  Calls are serialised by a gate, so a lifetime has one call *)
(* at a time; helpers die, sources move and clients mount between steps.   *)
(***************************************************************************)
EXTENDS Naturals, Sequences, FiniteSets, SequencesExt

CONSTANTS
    MaxLives,   \* bound: lifetimes constructed one after another
    MaxChecks   \* bound: calls of Check in a lifetime

VARIABLES
    life,       \* number of the current lifetime
    lives,      \* what each lifetime owns
    call,       \* the call in progress: [op, todo, late, before]
    nfsd,       \* the kernel: threads, listener, exported table
    active,     \* kernelRetention.active: the lifetime whose controller it is
    retained,   \* kernelRetention.objects is not empty
    client,     \* a client has the export mounted
    foreign,    \* another program has the port
    stops       \* history: stop requests written for each lifetime

vars == <<life, lives, call, nfsd, active, retained, client, foreign, stops>>

Idle == [op |-> "none", todo |-> <<>>, late |-> FALSE, before |-> FALSE]
Quiet == [threads |-> 0, listener |-> FALSE, table |-> FALSE]
Sources == {"roots", "storage", "identity", "policy"}

NoController ==
    [open |-> FALSE, review |-> FALSE, started |-> FALSE, stopped |-> FALSE,
     closed |-> FALSE, socket |-> "none", unattached |-> "no"]

\* NewQEMU: no I/O; the sources are retained before and handed to it.
New(enabled) ==
    [state |-> "prepared", enabled |-> enabled, k |-> NoController,
     rpcbind |-> "none", mountd |-> "none", exported |-> FALSE,
     moved |-> FALSE, src |-> [s \in Sources |-> "held"], checks |-> 0]

me == lives[life]
k == me.k

\* The order of the calls of the back end, and of the steps inside them.
KernelStart == <<"initial", "bind", "attach", "threads", "running">>
StartSteps == <<"empty", "open", "rpcbind", "portmap">> \o KernelStart
                \o <<"mountd", "mounts", "export">>
ReadySteps == <<"running", "helpers", "listed">>
StopSteps == <<"stop", "zero", "socket", "idle", "unexport", "unlisted",
               "endmountd", "endrpcbind", "stopped">>
ReleaseSteps == <<"kclose", "roots", "rmdir", "storage", "identity", "policy">>

-----------------------------------------------------------------------------
(* Every step: what it needs, and what it does.                             *)

Up(p) == me[p] = "running"

AllUp ==
    /\ nfsd = [threads |-> 2, listener |-> TRUE, table |-> TRUE]
    /\ Up("rpcbind") /\ Up("mountd") /\ ~me.moved

\* VerifyStopped of the back end, with CheckStopped of the controller.
VerifyStopped ==
    /\ ~me.exported /\ me.rpcbind = "none" /\ me.mountd = "none" /\ ~client
    /\ nfsd.threads = 0 /\ ~nfsd.listener
    /\ k.open => ~k.review /\ k.started /\ k.stopped /\ k.socket = "none"

CheckInputs == ~me.moved

\* The profile of the kernel's server before the start, while it runs, and idle.
initialProfile == nfsd.threads = 0 /\ ~nfsd.listener
CheckRunning == nfsd.threads = 2 /\ nfsd.listener /\ ~k.stopped
idleProfile == initialProfile /\ ~k.review

\* waitRPC: the helper that registers is up.
waitRPC(p) == Up(p)
VerifyReadyHelpers == Up("rpcbind") /\ Up("mountd")

\* The steps that only look: enabled when what they see is as it must be.
Sees(s) ==
    CASE s = "inputs"   -> CheckInputs
      [] s = "empty"    -> ~nfsd.table
      [] s = "portmap"  -> waitRPC("rpcbind")
      [] s = "initial"  -> initialProfile
      [] s = "running"  -> CheckRunning
      [] s = "mounts"   -> waitRPC("mountd")
      [] s = "helpers"  -> VerifyReadyHelpers
      [] s = "listed"   -> nfsd.table
      [] s = "idle"     -> idleProfile
      [] s = "stopped"  -> VerifyStopped
      [] OTHER -> FALSE

\* Steps of the controller: their failure puts it into review for good.
OfController == ToSet(KernelStart) \cup {"stop", "zero", "socket", "idle", "kclose"}

At(s) == call.todo # <<>> /\ Head(call.todo) = s
Continue == call' = [call EXCEPT !.todo = Tail(@)]
Mine(m) == lives' = [lives EXCEPT ![life] = m]
Review(m) == [m EXCEPT !.state = "review"]
Controller(c) == [me EXCEPT !.k = c]

\* retain: sticky for the controller and for every later one.
Retain(m) == [m EXCEPT !.k.review = TRUE]

\* settleReview after an uncertain start or a failed check, review otherwise.
Settles ==
    \/ call.op = "start"
    \/ call.op = "check" /\ me.state = "running"

Failed(m) ==
    IF Settles
    THEN Mine(m) /\ call' = [call EXCEPT !.op = "settle", !.todo = StopSteps]
    ELSE Mine(Review(m)) /\ call' = Idle

Elsewhere == UNCHANGED <<life, client, foreign>>

\* A step that looks finds all in order.
Look ==
    /\ call.todo # <<>> /\ Sees(Head(call.todo))
    /\ Continue
    /\ UNCHANGED <<lives, nfsd, active, retained, stops>> /\ Elsewhere

\* Any step may fail before it has had an effect: what it sees is wrong, the
\* command failed, or the deadline of the call has passed.  Only `exported' is
\* set by then.
Fail ==
    /\ call.todo # <<>>
    /\ LET s == Head(call.todo)
           bad == s \in OfController \/ (s = "stopped" /\ k.open)
           m == [me EXCEPT !.exported = @ \/ s = "export"]
       IN  /\ k.open \/ s \notin {"stop", "zero", "socket", "idle", "kclose"}
           /\ s = "unexport" => me.exported
           /\ Failed(IF bad THEN Retain(m) ELSE m)
           /\ retained' = (retained \/ bad)
           /\ stops' = stops
    /\ UNCHANGED <<nfsd, active>> /\ Elsewhere

-----------------------------------------------------------------------------
(* Start of the back end.                                                   *)

\* A controller in review does not keep others from opening.
OpenAfterReview ==
    /\ At("open")
    /\ IF active # 0 /\ ~retained
       THEN Failed(me) /\ UNCHANGED <<active, retained>>
       ELSE /\ active' = life
            /\ Mine(Controller([k EXCEPT !.open = TRUE])) /\ Continue
            /\ UNCHANGED retained
    /\ UNCHANGED <<nfsd, stops>> /\ Elsewhere

\* openQEMU: one controller at a time, and none after one was retained.
Open ==
    /\ At("open")
    /\ IF retained \/ active # 0
       THEN Failed(me) /\ UNCHANGED <<active, retained>>
       ELSE /\ active' = life
            /\ \/ Mine(Controller([k EXCEPT !.open = TRUE])) /\ Continue
                    /\ UNCHANGED retained
               \/ Failed(me) /\ retained' = TRUE
    /\ UNCHANGED <<nfsd, stops>> /\ Elsewhere

startOwnerNFSChild ==
    /\ \E p \in {"rpcbind", "mountd"} :
         At(p) /\ Mine([me EXCEPT ![p] = "running"])
    /\ Continue
    /\ UNCHANGED <<nfsd, active, retained, stops>> /\ Elsewhere

\* socket, bind and listen; a port in use is remembered, nothing is attached.
Bind ==
    /\ At("bind")
    /\ IF foreign
       THEN /\ Failed(Retain(Controller([k EXCEPT !.socket = "open",
                                                  !.unattached = "pending"])))
            /\ retained' = TRUE
       ELSE \/ Mine(Controller([k EXCEPT !.socket = "bound"])) /\ Continue
                 /\ UNCHANGED retained
            \/ /\ Failed(Retain(Controller([k EXCEPT !.socket = "open"])))
               /\ retained' = TRUE
    /\ UNCHANGED <<nfsd, active, stops>> /\ Elsewhere

\* The two requests to the kernel; `started' is set before the first one.
Request ==
    /\ \/ /\ At("attach") /\ nfsd' = [nfsd EXCEPT !.listener = TRUE]
       \/ /\ At("threads") /\ nfsd' = [nfsd EXCEPT !.threads = 2]
    /\ LET m == Controller([k EXCEPT !.started = TRUE])
       IN  \/ Mine(m) /\ Continue /\ UNCHANGED retained
           \/ Failed(Retain(m)) /\ retained' = TRUE
    /\ UNCHANGED <<active, stops>> /\ Elsewhere

\* `exported' is set before the command, whose outcome may be uncertain.
Export ==
    /\ At("export")
    /\ nfsd' = [nfsd EXCEPT !.table = TRUE]
    /\ LET m == [me EXCEPT !.exported = TRUE]
       IN  (Mine(m) /\ Continue) \/ Failed(m)
    /\ UNCHANGED <<active, retained, stops>> /\ Elsewhere

-----------------------------------------------------------------------------
(* Stop of the back end.                                                    *)

\* Without a controller its steps are skipped.
SkipController ==
    /\ At("stop") /\ ~k.open
    /\ call' = [call EXCEPT !.todo = SubSeq(@, 5, Len(@))]
    /\ UNCHANGED <<lives, nfsd, active, retained, stops>> /\ Elsewhere

\* Stop of the controller: one attempt, and only of what it attached itself.
StopController ==
    /\ At("stop") /\ k.open /\ k.unattached = "no"
    /\ IF k.started /\ ~k.stopped /\ k.socket # "none"
       THEN /\ Mine(Controller([k EXCEPT !.stopped = TRUE])) /\ Continue
            /\ UNCHANGED retained
       ELSE Failed(Retain(me)) /\ retained' = TRUE
    /\ UNCHANGED <<nfsd, active, stops>> /\ Elsewhere

\* stopUnattachedSocketQEMU: close the socket that was never attached, once;
\* even then the call fails, and what follows in Stop is not reached.
StopUnattached ==
    /\ At("stop") /\ k.open /\ k.unattached # "no"
    /\ \/ /\ k.unattached = "pending" /\ k.socket = "open"
          /\ Failed(Retain(Controller([k EXCEPT !.stopped = TRUE, !.socket = "none",
                                                !.unattached = "closed"])))
       \/ Failed(Retain(Controller([k EXCEPT !.stopped = TRUE, !.unattached = "closed"])))
    /\ retained' = TRUE
    /\ UNCHANGED <<nfsd, active, stops>> /\ Elsewhere

\* No threads: the kernel lets go of its listener too.
Zero ==
    /\ At("zero")
    /\ nfsd' = [nfsd EXCEPT !.threads = 0, !.listener = FALSE]
    /\ stops' = [stops EXCEPT ![life] = @ + 1]
    /\ \/ Continue /\ UNCHANGED <<lives, retained>>
       \/ Failed(Retain(me)) /\ retained' = TRUE
    /\ UNCHANGED active /\ Elsewhere

CloseSocket ==
    /\ At("socket")
    /\ LET m == Controller([k EXCEPT !.socket = "none"])
       IN  \/ Mine(m) /\ Continue /\ UNCHANGED retained
           \/ Failed(Retain(m)) /\ retained' = TRUE
    /\ UNCHANGED <<nfsd, active, stops>> /\ Elsewhere

Unexport ==
    /\ \/ /\ At("unexport") /\ me.exported
          /\ nfsd' = [nfsd EXCEPT !.table = FALSE]
          /\ (Continue /\ UNCHANGED lives) \/ Failed(me)
       \/ /\ At("unexport") /\ ~me.exported
          /\ call' = [call EXCEPT !.todo = SubSeq(@, 3, Len(@))]
          /\ UNCHANGED <<lives, nfsd>>
       \/ /\ At("unlisted") /\ ~nfsd.table
          /\ Mine([me EXCEPT !.exported = FALSE]) /\ Continue
          /\ UNCHANGED nfsd
    /\ UNCHANGED <<active, retained, stops>> /\ Elsewhere

\* The helpers end; one that had already exited counts as a failure.
EndHelper ==
    /\ \E s \in {<<"endmountd", "mountd">>, <<"endrpcbind", "rpcbind">>} :
         /\ At(s[1]) /\ me[s[2]] # "exited"
         /\ Mine([me EXCEPT ![s[2]] = "none"])
    /\ Continue
    /\ UNCHANGED <<nfsd, active, retained, stops>> /\ Elsewhere

-----------------------------------------------------------------------------
(* Release of the back end: controller, roots, then the leases.             *)

CloseController ==
    /\ At("kclose")
    /\ IF ~k.open THEN Continue /\ UNCHANGED <<lives, active, retained>>
       ELSE /\ ~k.review /\ k.stopped /\ k.socket = "none"
            /\ nfsd.threads = 0 /\ ~nfsd.listener /\ active = life /\ ~retained
            /\ Mine(Controller([k EXCEPT !.closed = TRUE])) /\ Continue
            /\ active' = 0 /\ UNCHANGED retained
    /\ UNCHANGED <<nfsd, stops>> /\ Elsewhere

Release ==
    /\ \E s \in Sources :
         /\ At(s)
         /\ LET m == [me EXCEPT !.src[s] = "released"]
            IN  (Mine(m) /\ Continue) \/ Failed(m)
    /\ UNCHANGED <<nfsd, active, retained, stops>> /\ Elsewhere

\* The client's directory is removed; it is not a mount point any more.
RemoveDirectory ==
    /\ At("rmdir") /\ ~client
    /\ Continue
    /\ UNCHANGED <<lives, nfsd, active, retained, stops>> /\ Elsewhere

-----------------------------------------------------------------------------
(* The owner.                                                               *)

Begin(op, todo) ==
    /\ call = Idle
    /\ call' = [op |-> op, todo |-> todo, late |-> FALSE, before |-> AllUp]
    /\ UNCHANGED <<nfsd, active, retained, stops>> /\ Elsewhere

Start ==
    /\ me.state = "prepared"
    /\ Begin("admit", <<"inputs", "stopped">>) /\ UNCHANGED lives

Stop ==
    /\ me.state = "running"
    /\ Begin("stop", StopSteps) /\ UNCHANGED lives

Check ==
    /\ me.state \in {"running", "disabled"} /\ me.checks < MaxChecks
    /\ Mine([me EXCEPT !.checks = @ + 1])
    /\ Begin("check", IF me.state = "running"
                      THEN <<"inputs">> \o ReadySteps \o <<"inputs">>
                      ELSE <<"inputs", "stopped", "inputs">>)

\* Close of a running service stops it first.
Close ==
    /\ me.state \in {"prepared", "disabled", "running", "stopped"}
    /\ IF me.state = "running"
       THEN Begin("stopclose", StopSteps)
       ELSE Begin("close", <<"inputs", "stopped">> \o ReleaseSteps)
    /\ UNCHANGED lives

\* The caller gives up: a stop goes on and is then reviewed.
Cancel ==
    /\ call.op \in {"stop", "stopclose"} /\ ~call.late
    /\ call' = [call EXCEPT !.late = TRUE]
    /\ UNCHANGED <<lives, nfsd, active, retained, stops>> /\ Elsewhere

\* All steps are done.
Return ==
    /\ call.op # "none" /\ call.todo = <<>>
    /\ CASE call.op = "admit" /\ me.enabled ->
              /\ call' = [call EXCEPT !.op = "start",
                            !.todo = StartSteps \o ReadySteps \o <<"inputs">>]
              /\ UNCHANGED lives
         [] call.op = "admit" /\ ~me.enabled ->
              Mine([me EXCEPT !.state = "disabled"]) /\ call' = Idle
         [] call.op = "start" ->
              Mine([me EXCEPT !.state = "running"]) /\ call' = Idle
         [] call.op = "check" -> UNCHANGED lives /\ call' = Idle
         [] call.op \in {"stop", "stopclose"} /\ call.late ->
              Mine(Review(me)) /\ call' = Idle
         [] call.op = "stop" /\ ~call.late ->
              Mine([me EXCEPT !.state = "stopped"]) /\ call' = Idle
         [] call.op = "stopclose" /\ ~call.late ->
              /\ Mine([me EXCEPT !.state = "stopped"])
              /\ call' = [call EXCEPT !.op = "close",
                            !.todo = <<"inputs", "stopped">> \o ReleaseSteps]
         [] call.op = "close" ->
              Mine([me EXCEPT !.state = "closed"]) /\ call' = Idle
         [] call.op = "settle" -> Mine(Review(me)) /\ call' = Idle
    /\ UNCHANGED <<nfsd, active, retained, stops>> /\ Elsewhere

\* A new lifetime with fresh sources, as when a saved policy is applied again.
Reapply ==
    /\ call = Idle /\ me.state \in {"closed", "review"} /\ life < MaxLives
    /\ life' = life + 1
    /\ \E enabled \in BOOLEAN : lives' = Append(lives, New(enabled))
    /\ stops' = Append(stops, 0)
    /\ UNCHANGED <<call, nfsd, active, retained, client, foreign>>

-----------------------------------------------------------------------------
(* The world.                                                               *)

HelperExits ==
    /\ \E l \in DOMAIN lives, p \in {"rpcbind", "mountd"} :
         /\ lives[l][p] = "running"
         /\ lives' = [lives EXCEPT ![l][p] = "exited"]
    /\ UNCHANGED <<life, call, nfsd, active, retained, client, foreign, stops>>

SourcesMove ==
    /\ ~me.moved /\ me.state # "closed"
    /\ Mine([me EXCEPT !.moved = TRUE])
    /\ UNCHANGED <<life, call, nfsd, active, retained, client, foreign, stops>>

Client ==
    /\ client' = ~client
    /\ client' => nfsd = [threads |-> 2, listener |-> TRUE, table |-> TRUE]
    /\ UNCHANGED <<life, lives, call, nfsd, active, retained, foreign, stops>>

Foreign ==
    /\ k.socket # "bound" /\ foreign' = ~foreign
    /\ UNCHANGED <<life, lives, call, nfsd, active, retained, client, stops>>

Init ==
    /\ life = 1 /\ \E enabled \in BOOLEAN : lives = <<New(enabled)>>
    /\ call = Idle /\ nfsd = Quiet /\ active = 0 /\ retained = FALSE
    /\ client = FALSE /\ foreign = FALSE /\ stops = <<0>>

Steps ==
    \/ Look \/ Fail \/ Open \/ startOwnerNFSChild \/ Bind \/ Request \/ Export
    \/ SkipController \/ StopController \/ StopUnattached \/ Zero \/ CloseSocket
    \/ Unexport \/ EndHelper \/ CloseController \/ Release \/ RemoveDirectory
    \/ Return

Next ==
    \/ Steps \/ Start \/ Stop \/ Check \/ Close \/ Cancel \/ Reapply
    \/ HelperExits \/ SourcesMove \/ Client \/ Foreign

Spec == Init /\ [][Next]_vars

-----------------------------------------------------------------------------
Serving(l) ==
    \/ lives[l].rpcbind = "running" \/ lives[l].mountd = "running"
    \/ active = l /\ (nfsd.threads > 0 \/ nfsd.listener \/ nfsd.table)

\* While anything of a lifetime may still serve (threads, a listener, the
\* export or a helper), Release has given back none of the sources it serves.
SourcesOutliveService ==
    \A l \in DOMAIN lives : Serving(l) =>
        \A s \in Sources : lives[l].src[s] = "held"

\* Stopped, disabled and closed say what is true: nothing of the lifetime
\* serves, and a closed one has given everything back, its controller included.
RestIsRest ==
    \A l \in DOMAIN lives :
        /\ lives[l].state \in {"stopped", "disabled", "closed"}
              /\ (call.op = "none" \/ l # life) => ~Serving(l)
        /\ lives[l].state = "closed" =>
              /\ \A s \in Sources : lives[l].src[s] = "released"
              /\ active # l

\* The kernel's server has one master: whatever it runs or exports belongs to
\* the lifetime that is registered, and a reviewed controller has no successor.
OneController ==
    /\ nfsd # Quiet => active # 0
    /\ \A l \in DOMAIN lives : lives[l].k.open /\ ~lives[l].k.closed => active = l
    /\ \A l \in DOMAIN lives : lives[l].k.review => active = l

\* A Check of a running service that reports no error found it whole: all of it
\* was up when the call began, or came and went while it ran.
CheckedWhole ==
    [][ call.op = "check" /\ me.state = "running" /\ call'.op = "none"
          /\ lives'[life].state = "running" => call.before ]_vars

\* The threads are ended at most once in a lifetime, whatever failed, and never
\* started again after that.
StoppedOnce ==
    [][ \A l \in DOMAIN stops :
          /\ stops'[l] <= 1
          /\ stops[l] = 1 /\ life' = l => nfsd'.threads <= nfsd.threads ]_vars
=============================================================================

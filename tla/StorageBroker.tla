--------------------------- MODULE StorageBroker ---------------------------
(***************************************************************************)
(* The storage broker as a service: storage_broker_linux.go, and the       *)
(* handler that asks it for GPT observations (storage_partition_http.go).  *)
(* A broker takes the directory's lock, clears a stale socket, binds its   *)
(* own, and serves at most Workers connections, of which one at a time may *)
(* observe block devices.  Brokers are stopped, killed and started again,  *)
(* and their socket is removed, while requests are queued, served or given *)
(* up.  Processes and connections are reused, so nothing is bounded but    *)
(* how many of them there are at once.                                     *)
(***************************************************************************)
EXTENDS Integers, FiniteSets

CONSTANTS
    Procs,      \* broker processes
    Conns,      \* connections
    Workers,    \* storageBrokerWorkers
    Backlog     \* storageBrokerBacklog

BrokerAssumption == 0 \notin Procs \cup Conns /\ {Workers, Backlog} \subseteq Nat

VARIABLES
    proc,       \* broker -> [pc, cancelled]
    lock,       \* the broker that has the directory's flock, or 0
    file,       \* the broker whose socket has the name, or 0
    slot,       \* storageBlockObservationActive: broker -> connection or 0
    conn,       \* connection -> [op, to, client, server]
    web         \* the handler's only slot: a connection or 0

vars == <<proc, lock, file, slot, conn, web>>

Ops == {"inventory", "gpt", "md"}
NoProc == [pc |-> "none", cancelled |-> FALSE]
NoConn == [op |-> "inventory", to |-> 0, client |-> "none", server |-> "closed"]

TypeOK ==
    /\ proc \in [Procs -> [pc : {"none", "probe", "unlink", "bind", "listen", "run", "drain"}, cancelled : BOOLEAN]]
    /\ lock \in Procs \cup {0} /\ file \in Procs \cup {0}
    /\ slot \in [Procs -> Conns \cup {0}] /\ web \in Conns \cup {0}
    /\ conn \in [Conns -> [op : Ops, to : Procs \cup {0}, client : {"none", "waiting", "gaveup"},
                           server : {"queued", "read", "work", "release", "closed"}]]

Init ==
    /\ proc = [p \in Procs |-> NoProc] /\ lock = 0 /\ file = 0
    /\ slot = [p \in Procs |-> 0] /\ conn = [k \in Conns |-> NoConn] /\ web = 0

Listening(p) == p # 0 /\ proc[p].pc = "run" /\ ~proc[p].cancelled
Served(p) == {k \in Conns : conn[k].to = p /\ conn[k].server \in {"read", "work", "release"}}
Queued(p) == {k \in Conns : conn[k].to = p /\ conn[k].server = "queued"}

\* A connection nobody uses any more is forgotten.
Both(c) == IF c.client # "waiting" /\ c.server = "closed" THEN NoConn ELSE c
Hangup(ks) == [k \in Conns |-> IF k \in ks THEN Both([conn[k] EXCEPT !.server = "closed"]) ELSE conn[k]]

---------------------------------------------------------------------------
(* The broker's life.                                                      *)

Step(p, from, to) == proc[p].pc = from /\ proc' = [proc EXCEPT ![p].pc = to]

\* Close, and the end of the process: the socket is unlinked if it is this
\* broker's, and the directory's descriptor, which has the lock, is closed.
End(p, mine) ==
    /\ proc' = [proc EXCEPT ![p] = NoProc]
    /\ file' = (IF mine /\ file = p THEN 0 ELSE file)
    /\ lock' = (IF lock = p THEN 0 ELSE lock)

\* listenStorageBroker up to the flock; a broker that does not get it exits.
Start(p) ==
    /\ lock = 0 /\ Step(p, "none", "probe") /\ lock' = p
    /\ UNCHANGED <<file, slot, conn, web>>

\* removeStale: only a socket that refuses connections is unlinked.
Probe(p) ==
    /\ proc[p].pc = "probe"
    /\ IF Listening(file) THEN End(p, FALSE)
       ELSE Step(p, "probe", IF file = 0 THEN "bind" ELSE "unlink") /\ UNCHANGED <<file, lock>>
    /\ UNCHANGED <<slot, conn, web>>

Unlink(p) == Step(p, "unlink", "bind") /\ file' = 0 /\ UNCHANGED <<lock, slot, conn, web>>
Bind(p) == Step(p, "bind", "listen") /\ file' = p /\ UNCHANGED <<lock, slot, conn, web>>

\* fchmod, the check of the name, listen.
Listen(p) ==
    /\ file = p /\ Step(p, "listen", "run")
    /\ UNCHANGED <<lock, file, slot, conn, web>>

\* A start that fails closes what it made.
StartFails(p) ==
    /\ proc[p].pc \in {"probe", "unlink", "bind", "listen"} /\ End(p, proc[p].pc = "listen")
    /\ UNCHANGED <<slot, conn, web>>

\* SIGTERM: the context is cancelled; its callbacks close the listening socket
\* and the served connections.
Stop(p) ==
    /\ proc[p].pc \in {"run", "drain"} /\ ~proc[p].cancelled /\ proc' = [proc EXCEPT ![p].cancelled = TRUE] /\ conn' = Hangup(Queued(p))
    /\ UNCHANGED <<lock, file, slot, web>>

\* The accept loop returns on the closed socket.
Leave(p) == proc[p].cancelled /\ Step(p, "run", "drain") /\ UNCHANGED <<lock, file, slot, conn, web>>

\* A broker that closes its listener without waiting for its workers.
CloseEarly(p) ==
    /\ proc[p].pc = "drain" /\ (lock = p \/ Served(p) = {})
    /\ file' = (IF file = p THEN 0 ELSE file) /\ lock' = (IF lock = p THEN 0 ELSE lock)
    /\ proc' = (IF Served(p) = {} THEN [proc EXCEPT ![p] = NoProc] ELSE proc)
    /\ UNCHANGED <<slot, conn, web>>

\* Run's deferred end: Close, when the workers are done.
Close(p) == proc[p].pc = "drain" /\ Served(p) = {} /\ End(p, TRUE) /\ UNCHANGED <<slot, conn, web>>

\* A killed broker leaves its socket; the kernel releases the rest.  The probe it
\* may have started, which has a deadline of seconds, is not counted as its own.
Kill(p) ==
    /\ proc[p].pc # "none" /\ End(p, FALSE)
    /\ conn' = Hangup(Served(p) \cup Queued(p)) /\ slot' = [slot EXCEPT ![p] = 0]
    /\ UNCHANGED web

\* Somebody removes the socket's name.
Meddle == file # 0 /\ file' = 0 /\ UNCHANGED <<proc, lock, slot, conn, web>>

---------------------------------------------------------------------------
(* The clients.                                                            *)

\* requestStorageBroker.  The handler of GPT observations refuses a second
\* request while it has one; the dial fails, and nothing comes of it, without
\* a listener or when the backlog is full.
Dial(k, op) ==
    /\ conn[k] = NoConn /\ (op = "gpt" => web = 0)
    /\ Listening(file) /\ Cardinality(Queued(file)) <= Backlog
    /\ conn' = [conn EXCEPT ![k] = [op |-> op, to |-> file, client |-> "waiting", server |-> "queued"]]
    /\ web' = (IF op = "gpt" THEN k ELSE web)
    /\ UNCHANGED <<proc, lock, file, slot>>

Returns(k, client) ==
    /\ conn[k].client = "waiting" /\ conn' = [conn EXCEPT ![k] = Both([@ EXCEPT !.client = client])]
    /\ web' = (IF web = k THEN 0 ELSE web)
    /\ UNCHANGED <<proc, lock, file, slot>>

\* decodeStorageBrokerFrame reads up to the end of the stream, so an answer,
\* or the lack of one, counts once the broker has closed the connection.
Receive(k) == conn[k].server = "closed" /\ Returns(k, "none")

\* The deadline of the connection.
GiveUp(k) == Returns(k, "gaveup")

---------------------------------------------------------------------------
(* The broker serves.                                                      *)

Serve(k, from, to) ==
    /\ conn[k].server = from /\ conn' = [conn EXCEPT ![k] = Both([@ EXCEPT !.server = to])]
    /\ UNCHANGED <<proc, lock, file, web>>

\* The accept loop.  A socket that lost its name ends it, without a cancellation:
\* what was accepted is served.
Accept(k) ==
    LET p == conn[k].to
    IN \/ /\ conn[k].server = "queued" /\ proc[p].pc = "run" /\ file # p
          /\ proc' = [proc EXCEPT ![p].pc = "drain"] /\ conn' = Hangup(Queued(p))
          /\ UNCHANGED <<lock, file, slot, web>>
       \/ /\ conn[k].server = "queued" /\ proc[p].pc = "run" /\ file = p
          /\ Serve(k, "queued", IF Cardinality(Served(p)) < Workers THEN "read" ELSE "closed") /\ UNCHANGED slot

\* storageBrokerPeer, decodeStorageBrokerRequest within its two seconds and the
\* choice of the operation.  "busy", a refused peer and a request that does not
\* come are answered at once.
Read(k) ==
    LET p == conn[k].to
        block == conn[k].op \in {"gpt", "md"}
    IN \/ Serve(k, "read", "release") /\ UNCHANGED slot
       \/ /\ conn[k].server = "read" /\ ~proc[p].cancelled /\ (block => slot[p] = 0)
          /\ Serve(k, "read", "work") /\ slot' = (IF block THEN [slot EXCEPT ![p] = k] ELSE slot)

\* The observation ends and the answer, whatever it is, is written.
Work(k) == Serve(k, "work", "release") /\ UNCHANGED slot

\* A worker that closes the connection before it gives the slot back.
CloseBeforeRelease(k) ==
    \/ Serve(k, "release", "closed") /\ UNCHANGED slot
    \/ \E p \in Procs :
        /\ slot[p] = k /\ (conn[k].server = "closed" \/ conn[k].to # p)
        /\ slot' = [slot EXCEPT ![p] = 0] /\ UNCHANGED <<proc, lock, file, conn, web>>

\* The deferred calls: first the slot, at the very end the connection.
Release(k) ==
    LET p == conn[k].to
    IN \/ /\ conn[k].server = "release" /\ slot[p] = k
          /\ slot' = [slot EXCEPT ![p] = 0] /\ UNCHANGED <<proc, lock, file, conn, web>>
       \/ /\ conn[k].server = "release" /\ slot[p] # k
          /\ Serve(k, "release", "closed") /\ UNCHANGED slot

Worker(k) == Accept(k) \/ Read(k) \/ Work(k) \/ Release(k)

Next ==
    \/ \E p \in Procs :
        \/ Start(p) \/ Probe(p) \/ Unlink(p) \/ Bind(p) \/ Listen(p) \/ StartFails(p)
        \/ Stop(p) \/ Leave(p) \/ Close(p) \/ Kill(p)
    \/ \E k \in Conns : Worker(k) \/ Receive(k) \/ GiveUp(k) \/ \E op \in Ops : Dial(k, op)
    \/ Meddle

Spec == Init /\ [][Next]_vars

---------------------------------------------------------------------------
(* Properties.                                                             *)

Observing == {k \in Conns : conn[k].server = "work" /\ conn[k].op \in {"gpt", "md"}}

\* Block devices are observed for one request at a time, over all brokers: a
\* broker that is being stopped keeps the lock until its workers are done.
\* And the name of a broker that serves never leads to another one.
OneBroker ==
    /\ \A j, k \in Observing : j = k
    /\ \A p \in Procs : proc[p].pc = "run" => file \in {p, 0}

\* A client that has its answer no longer takes up the observation slot, so
\* its next request is not answered "busy" because of the one before.
AnsweredHoldsNothing == \A p \in Procs : slot[p] # 0 => conn[slot[p]] # NoConn
=============================================================================

----------------------------- MODULE MCStorage -----------------------------
(***************************************************************************)
(* The broker's scan of the disks, the review of registered volumes, the   *)
(* inventory of arrays, the broker as a service, the inventory of the      *)
(* network and the observation of a policy's directory, each by itself     *)
(* (the parts that are not at work stay in their initial states):          *)
(*  - two disks with a partition each, which are two halves of an array or *)
(*    one half and a blank disk with the same serial, and two changes;     *)
(*  - two mount points over a disk and an array, two filesystems, and      *)
(*    two changes;                                                         *)
(*  - two arrays of two disks, to one of which two things happen;          *)
(*  - two broker processes and three connections, started, stopped, killed *)
(*    and used again without bound;                                        *)
(*  - the network inventory: two entries of a table, two routing rules and *)
(*    two changes of the kernel's tables during one collection after       *)
(*    another;                                                             *)
(*  - a directory with any of three names and two changes.                 *)
(***************************************************************************)
EXTENDS StorageScan, TLC

VARIABLES part, disk, array, fs, mount, claims, queue, reader, events, r, linear,
          proc, lock, file, slot, conn, web, arr, ticks, o, then,
          nKernel, nPast, nPhase, nPass, nAt, nDump, nGot, nFirst, nPrior, nFrom, nLost,
          bDir, bWrites, bLock, bEvent, bAuth, bObs, bSeen

reviewVars == <<disk, array, fs, mount, claims, queue, reader, events, r, linear>>

MCBehind == ("d" :> {"sda"}) @@ ("m" :> {"sdb"})
MCWanted == ("v" :> "u1")

Review == INSTANCE StorageReview WITH
    Points <- {"p", "q"}, Nodes <- {"d", "m"}, Behind <- MCBehind, MD <- {"m"}, Proven <- {"sdb"},
    Uuids <- {"u1", "u2"}, Wanted <- MCWanted, MaxEvents <- 2

Broker == INSTANCE StorageBroker WITH Procs <- {1, 2}, Conns <- {1, 2, 3}, Workers <- 2, Backlog <- 1

brokerVars == <<proc, lock, file, slot, conn, web>>

MDArrays == <<"md0", "md1">>
MD == INSTANCE MDInventory WITH
    Arrays <- MDArrays, Unsteady <- {"md0"}, Drives <- {"sda", "sdb"}, Uuids <- {"u", "v", ""}, MaxEvents <- 2

mdVars == <<arr, ticks, o, then>>

netVars == <<nKernel, nPast, nPhase, nPass, nAt, nDump, nGot, nFirst, nPrior, nFrom, nLost>>

Net == INSTANCE NetworkInventory WITH
    MaxEntries <- 2, MaxRules <- 2, MaxEvents <- 2, Shuffled <- {"objects"}, Odd <- {<<"objects", 1>>},
    kernel <- nKernel, past <- nPast, phase <- nPhase, pass <- nPass, at <- nAt, dump <- nDump,
    got <- nGot, first <- nFirst, prior <- nPrior, from <- nFrom, lost <- nLost

Boot == INSTANCE Bootstrap WITH
    MaxWrites <- 2, dir <- bDir, writes <- bWrites, lock <- bLock, event <- bEvent, a <- bAuth,
    o <- bObs, seen <- bSeen

bootVars == <<bDir, bWrites, bLock, bEvent, bAuth, bObs, bSeen>>

ASSUME ReviewAssumption == Review!ReviewAssumption
ASSUME BrokerAssumption == Broker!BrokerAssumption

Block(role, ev) == [status |-> "candidate", array |-> "x", shape |-> 1, disks |-> 2, role |-> role,
                    num |-> role, id |-> role, events |-> ev]
Gpt(g, u, geo) == [scheme |-> "gpt", guid |-> g,
                   parts |-> {[num |-> 1, geo |-> geo, uuid |-> u, raid |-> TRUE]}]

MCParent == ("a1" :> "a") @@ ("b1" :> "b")
MCRank == ("a" :> 1) @@ ("a1" :> 2) @@ ("b" :> 3) @@ ("b1" :> 4) @@ ("m" :> 5)
MCContent ==
    ("raid" :> [serial |-> "s1", table |-> Gpt("g1", "u1", 1), block |-> Block(0, 1)])
    @@ ("mate" :> [serial |-> "s2", table |-> Gpt("g2", "u2", 2), block |-> Block(1, 1)])
    @@ ("blank" :> [serial |-> "s1", table |-> [scheme |-> "none", guid |-> "", parts |-> {}], block |-> Block(1, 1)])
MCStores == {("a" :> "raid") @@ ("b" :> "mate"), ("a" :> "raid") @@ ("b" :> "blank")}

MCInit ==
    /\ part \in {"scan", "review", "broker", "arrays", "network", "directory"}
    /\ Init /\ Review!Init /\ Broker!Init /\ MD!Init /\ Net!Init /\ Boot!Init
    /\ part # "review" => fs = [n \in {"d", "m"} |-> "u1"] /\ claims = [v \in {"v"} |-> Review!None]
    /\ part # "arrays" => arr = [n \in {"md0", "md1"} |-> MD!NoArray]
    /\ part # "network" => nKernel = Net!Full
    /\ part # "directory" => bDir.names = {} /\ bDir.doc = "valid"
    /\ part # "scan" => world["b"].medium = "mate"

MCNext ==
    \/ part = "scan" /\ Next /\ UNCHANGED <<part, reviewVars, brokerVars, mdVars, netVars, bootVars>>
    \/ part = "review" /\ Review!Next /\ UNCHANGED <<part, vars, brokerVars, mdVars, netVars, bootVars>>
    \/ part = "broker" /\ Broker!Next /\ UNCHANGED <<part, vars, reviewVars, mdVars, netVars, bootVars>>
    \/ part = "arrays" /\ MD!Next /\ UNCHANGED <<part, vars, reviewVars, brokerVars, netVars, bootVars>>
    \/ part = "network" /\ Net!Next /\ UNCHANGED <<part, vars, reviewVars, brokerVars, mdVars, bootVars>>
    \/ part = "directory" /\ Boot!Next /\ UNCHANGED <<part, vars, reviewVars, brokerVars, mdVars, netVars>>

MCSpec == MCInit /\ [][MCNext]_<<part, vars, reviewVars, brokerVars, mdVars, netVars, bootVars>>

\* What is answered about several things was true of all of them at one moment:
\* ReviewTrueAtOnce of the review, HealthyWasWhole and BoundTogether of the
\* arrays, ObservedTogether of the network's tables, whose collection is refused
\* only for a cause (RefusedForCause), ObservedAtOnce of a policy's directory, with
\* no store at work in it (ObservedAlone).
TrueAtOnce ==
    CASE part = "review"  -> Review!ReviewTrueAtOnce
      [] part = "arrays"  -> MD!HealthyWasWhole /\ MD!BoundTogether
      [] part = "network" -> Net!ObservedTogether /\ Net!RefusedForCause
      [] part = "directory" -> Boot!ObservedAtOnce /\ Boot!ObservedAlone
      [] OTHER -> TRUE

\* OneBroker of the broker: one block observation at a time, and a broker that
\* serves has its name; and no client is "busy" with itself (AnsweredHoldsNothing).
OneBroker == Broker!OneBroker /\ Broker!AnsweredHoldsNothing
=============================================================================

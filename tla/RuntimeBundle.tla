---------------------------- MODULE RuntimeBundle ----------------------------
(***************************************************************************)
(* The owner of a verified runtime tree (internal/runtimebundle): NewOwner *)
(* inspects the tree, records the identity of every node, pins every file  *)
(* and inspects again; Start, Observe and Supervise repeat the inspection  *)
(* and compare with the record; drift stops the process set once and is    *)
(* final; Close gives the pins back only when the processes are known to   *)
(* be gone.  Another mount of the same file system may change the tree     *)
(* between any two steps.  The process set is modelled by what its calls   *)
(* return (ProcessSet models it in full).                                  *)
(***************************************************************************)
EXTENDS Naturals, Sequences, FiniteSets, SequencesExt

CONSTANTS
    Files,      \* the files of the plan: code and immutable configuration
    Dirs,       \* directories of mutable state: pinned by identity only
    MaxEvents   \* bound: changes of the tree

VARIABLES
    paths,      \* name -> the inode its path names (0: none)
    inodes,     \* inode -> [ver, good]: change stamp, bytes as planned
    dir,        \* [ver, extra]: the directory's stamp, an undeclared entry
    events,     \* changes so far
    op,         \* the call that holds the gate
    todo,       \* its remaining steps
    dirver,     \* the directory stamp this inspection began with
    table,      \* the record of every node's identity
    pins,       \* name -> the inode pinned
    held,       \* descriptors open: the names and "root"
    owner,      \* "none", "open", "closed" or "failed"
    review,     \* the owner's review flag
    unclosed,   \* releaseErr: a close failed
    procs,      \* the process set: "none", "running" or "uncertain"
    answer,     \* what the last call returned
    began,      \* history: [events, drifted] when the last call began
    drifted     \* history: something recorded or retained has changed

tree == <<paths, inodes, dir, events>>
vars == <<tree, op, todo, dirver, table, pins, held, owner, review, unclosed,
          procs, answer, began, drifted>>

Node == Files \cup {"root"}
Names == Files \cup Dirs
Descriptors == Names \cup {"root"}
NoInode == [ver |-> 0, good |-> FALSE]
Inode == 1 .. Cardinality(Names) + MaxEvents

Now == [events |-> events, drifted |-> drifted]

Stamp(f) == <<paths[f], inodes[paths[f]].ver>>
Identity(n) == IF n = "root" THEN <<0, dir.ver>> ELSE Stamp(n)

-----------------------------------------------------------------------------
(* The steps of a call.                                                     *)

Each(kind, S) == LET s == SetToSeq(S) IN [i \in DOMAIN s |-> <<kind, s[i]>>]

Inspect == <<<<"census", "root">>>> \o Each("hash", Files) \o <<<<"final", "root">>>>
RevalidateInspectOnly == Inspect
Revalidate ==
    Inspect \o Each("compare", Node) \o Each("pinned", Files) \o Each("state", Dirs)
prepareRetainedCode == Inspect \o Each("record", Node) \o Each("pin", Files)
retainSambaState == Each("retain", Dirs)

\* The whole directory holds what the plan names and nothing else.
census == ~dir.extra /\ \A f \in Files : paths[f] # 0

\* The bytes and the metadata of an open file are as planned.
Verified(i) == i # 0 /\ inodes[i].good

\* An entry of this kind can be read, and holds what the inspection asks.
Holds(kind, n) ==
    CASE kind = "census" -> census
      [] kind \in {"hash", "pin"} -> Verified(paths[n])
      [] kind = "final" -> dir.ver = dirver
      [] kind \in {"record", "compare"} -> n # "root" => paths[n] # 0
      [] kind = "pinned" -> TRUE
      [] kind \in {"retain", "state"} -> paths[n] # 0

\* The comparisons with the record: the node the path names, the file that is
\* pinned, and a state directory, whatever is in it by now.
verifyNodeMetadata(n) == table[n] = Identity(n)
PinUnchanged(n) == table[n] = <<pins[n], inodes[pins[n]].ver>>
StateRetained(n) == pins[n] = paths[n]

Matches(kind, n) ==
    /\ kind = "compare" => verifyNodeMetadata(n)
    /\ kind = "pinned" => PinUnchanged(n)
    /\ kind = "state" => StateRetained(n)

-----------------------------------------------------------------------------
Begin(what, steps) ==
    /\ op = "free"
    /\ op' = what /\ todo' = steps /\ began' = Now /\ answer' = "none"
    /\ UNCHANGED <<tree, dirver, table, pins, held, owner, review, unclosed,
                   procs, drifted>>

NewOwner ==
    /\ owner = "none"
    /\ Begin("new", prepareRetainedCode \o retainSambaState \o Revalidate)

Start ==
    /\ owner = "open" /\ ~review
    /\ Begin("start", Revalidate)

Observe ==
    /\ owner = "open" /\ ~review
    /\ Begin("observe", Revalidate)

\* Supervise holds the gate from here; every interval it scans.
Supervise ==
    /\ owner = "open" /\ ~review /\ procs = "running"
    /\ Begin("watch", <<>>)

Scan ==
    /\ op = "watch"
    /\ op' = "scan" /\ todo' = Revalidate /\ began' = Now /\ answer' = "none"
    /\ UNCHANGED <<tree, dirver, table, pins, held, owner, review, unclosed,
                   procs, drifted>>

\* Cancelled: the set is stopped; the pins stay until Close.  A stop may err
\* although nothing is left of the set.
Cancel ==
    /\ op = "watch"
    /\ op' = "free" /\ answer' = "stopped"
    /\ procs' \in {"none", "uncertain"}
    /\ review' \in BOOLEAN /\ (procs' = "uncertain" => review')
    /\ UNCHANGED <<tree, todo, dirver, table, pins, held, owner, unclosed,
                   began, drifted>>

\* release: the files, then the root, then the state directories; the first
\* close that fails ends it.
release(h) ==
    \/ held' = {} /\ unclosed' = FALSE
    \/ \E f \in h : \E done \in SUBSET (h \ {f}) :
         /\ f = "root" => done = h \cap Files
         /\ f \in Files => done \subseteq Files
         /\ f \in Dirs => h \ Dirs \subseteq done
         /\ held' = h \ (done \cup {f}) /\ unclosed' = TRUE

\* quarantine: one stop attempt, and no start ever after.
quarantine ==
    /\ review' = TRUE /\ answer' = "review" /\ op' = "free" /\ todo' = <<>>
    /\ procs' \in IF procs = "none" THEN {"none"} ELSE {"none", "uncertain"}
    /\ UNCHANGED <<held, owner, unclosed>>

Refuse ==
    IF op = "new"
    THEN /\ owner' = "failed" /\ answer' = "refused" /\ op' = "free"
         /\ todo' = <<>> /\ release(held)
         /\ UNCHANGED <<review, procs>>
    ELSE quarantine

Step ==
    /\ todo # <<>>
    /\ LET k == Head(todo)[1]
           n == Head(todo)[2]
           ok == Holds(k, n) /\ Matches(k, n)
       IN  /\ dirver' = IF k = "census" THEN dir.ver ELSE dirver
           /\ table' = IF k = "record" /\ ok
                       THEN [table EXCEPT ![n] = Identity(n)] ELSE table
           /\ pins' = IF k \in {"pin", "retain"} /\ ok THEN [pins EXCEPT ![n] = paths[n]] ELSE pins
           /\ IF ok
              THEN /\ todo' = Tail(todo)
                   /\ held' = IF op = "new" /\ k \in {"pin", "retain"} THEN held \cup {n}
                              ELSE IF op = "new" /\ k = "census" THEN held \cup {"root"}
                              ELSE held
                   /\ UNCHANGED <<op, owner, review, unclosed, procs, answer>>
              ELSE Refuse
    /\ UNCHANGED <<tree, began, drifted>>

\* A call is cancelled, or a system call fails, between two steps.
Interrupted ==
    /\ todo # <<>>
    /\ Refuse
    /\ UNCHANGED <<tree, dirver, table, pins, began, drifted>>

Finish ==
    /\ todo = <<>> /\ op \notin {"free", "watch"}
    /\ \/ /\ op = "new" /\ owner' = "open" /\ op' = "free" /\ answer' = "stopped"
          /\ UNCHANGED <<todo, review, held, unclosed, procs>>
       \/ /\ op = "start" /\ procs = "running"    \* ErrAlreadyRunning
          /\ op' = "free" /\ answer' = "already"
          /\ UNCHANGED <<todo, owner, review, held, unclosed, procs>>
       \/ /\ op = "start" /\ procs # "running"
          /\ procs' = "running" /\ op' = "started" /\ todo' = Revalidate
          /\ UNCHANGED <<answer, owner, review, held, unclosed>>
       \/ /\ op = "start" /\ procs # "running"    \* the set failed to start
          /\ review' = TRUE /\ answer' = "review" /\ op' = "free"
          /\ procs' \in {"none", "uncertain"}
          /\ UNCHANGED <<todo, owner, held, unclosed>>
       \/ /\ op = "started" /\ op' = "free" /\ answer' = "ready"
          /\ UNCHANGED <<todo, owner, review, held, unclosed, procs>>
       \/ /\ op = "observe" /\ op' = "free"
          /\ answer' = IF procs = "running" THEN "ready" ELSE "stopped"
          /\ UNCHANGED <<todo, owner, review, held, unclosed, procs>>
       \/ /\ op = "scan" /\ op' = "watch" /\ answer' = "ready"
          /\ UNCHANGED <<todo, owner, review, held, unclosed, procs>>
       \/ /\ op \in {"observe", "scan"} /\ procs = "running"
          /\ quarantine                           \* a member has exited
    /\ UNCHANGED <<tree, dirver, table, pins, began, drifted>>

\* Close: stop, make sure of it, then give every pin back, each once.
CloseUnsure ==
    /\ op = "free" /\ owner = "open"
    /\ owner' = "closed" /\ procs' \in {"none", "uncertain"}
    /\ release(held)
    /\ review' = (review \/ unclosed' \/ procs' = "uncertain")
    /\ answer' = IF review' THEN "review" ELSE "closed"
    /\ UNCHANGED <<tree, op, todo, dirver, table, pins, began, drifted>>

Close ==
    /\ op = "free" /\ owner = "open"
    /\ \/ /\ procs' = "none"
          /\ owner' = "closed" /\ release(held)
          /\ review' \in {review \/ unclosed'} \cup (IF procs # "none" THEN {TRUE} ELSE {})
       \/ /\ procs # "none" /\ procs' = "uncertain"
          /\ review' = TRUE
          /\ UNCHANGED <<owner, held, unclosed>>
    /\ answer' = IF review' THEN "review" ELSE "closed"
    /\ UNCHANGED <<tree, op, todo, dirver, table, pins, began, drifted>>

-----------------------------------------------------------------------------
(* The tree, changed by somebody else.                                      *)

Fresh(i) == inodes[i] = NoInode /\ \A j \in Inode : j < i => inodes[j] # NoInode

Recorded == \A n \in Node : table[n] # <<0, 0>>

Change ==
    /\ events < MaxEvents
    /\ events' = events + 1
    /\ \/ \E f \in Names, i \in Inode, good \in BOOLEAN :
            /\ Fresh(i)
            /\ paths' = [paths EXCEPT ![f] = i]
            /\ inodes' = [inodes EXCEPT ![i] = [ver |-> 1, good |-> good]]
            /\ dir' = IF f \in Files THEN [dir EXCEPT !.ver = @ + 1] ELSE dir
       \/ \E i \in Inode :
            /\ \E f \in Files : i \in {paths[f], pins[f]}
            /\ inodes' = [inodes EXCEPT ![i] = [ver |-> @.ver + 1, good |-> ~@.good]]
            /\ UNCHANGED <<paths, dir>>
       \/ \E f \in Files :
            /\ paths' = [paths EXCEPT ![f] = 0]
            /\ dir' = [dir EXCEPT !.ver = @ + 1]
            /\ UNCHANGED inodes
       \/ /\ dir' = [ver |-> dir.ver + 1, extra |-> ~dir.extra]
          /\ UNCHANGED <<paths, inodes>>
    /\ drifted' = (drifted \/ (Recorded /\ <<dir', [f \in Files |-> Stamp(f)']>>
                                             # <<dir, [f \in Files |-> Stamp(f)]>>)
                          \/ \E d \in Dirs : pins[d] # 0 /\ paths'[d] # paths[d])
    /\ UNCHANGED <<op, todo, dirver, table, pins, held, owner, review, unclosed,
                   procs, answer, began>>

Init ==
    /\ paths = [f \in Names |-> CHOOSE i \in 1 .. Cardinality(Names) :
                                  SetToSeq(Names)[i] = f]
    /\ inodes = [i \in Inode \cup {0} |->
                   IF i \in 1 .. Cardinality(Names)
                   THEN [ver |-> 1, good |-> TRUE] ELSE NoInode]
    /\ dir = [ver |-> 1, extra |-> FALSE] /\ events = 0
    /\ op = "free" /\ todo = <<>> /\ dirver = 0
    /\ table = [n \in Node |-> <<0, 0>>] /\ pins = [f \in Names |-> 0]
    /\ held = {} /\ owner = "none" /\ review = FALSE /\ unclosed = FALSE
    /\ procs = "none" /\ answer = "none"
    /\ began = [events |-> 0, drifted |-> FALSE] /\ drifted = FALSE

Next ==
    \/ NewOwner \/ Start \/ Observe \/ Supervise \/ Scan \/ Cancel
    \/ Step \/ Interrupted \/ Finish \/ Close \/ Change

Spec == Init /\ [][Next]_vars

-----------------------------------------------------------------------------
\* An answer "ready" is true: nothing had changed between the record taken by
\* NewOwner and the call, and, if nothing changed during the call either, every
\* path still names the pinned inode, the files have the planned bytes, and
\* nothing else is in the tree.
ReadyIsTrue ==
    answer = "ready" =>
        /\ ~began.drifted
        /\ events = began.events =>
             /\ census /\ \A f \in Files : Verified(pins[f])
             /\ \A n \in Names : pins[n] = paths[n]

\* While a process of the set may be running every pin and the root are held,
\* and an owner under review starts none.
InputsOutliveProcesses ==
    /\ procs # "none" => held = Descriptors
    /\ review => op \notin {"start", "started", "watch", "scan"}
=============================================================================

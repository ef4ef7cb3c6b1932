--------------------------- MODULE StorageReview ---------------------------
(***************************************************************************)
(* The review of registered volumes (storage_registry_*.go): a bracket of  *)
(* registry read, mounted-filesystem census, comparison, second census and *)
(* registry recheck, while filesystems are mounted and unmounted, arrays   *)
(* are stopped and assembled, disks are swapped and the registry is        *)
(* rewritten.                                                              *)
(*                                                                         *)
(* The program compares whole observations at the end of each bracket; the *)
(* model compares every reading with the first of its kind, which refuses  *)
(* the same observations.  A listing of sysfs is one reading here:         *)
(* StorageScan treats what happens inside it.                              *)
(***************************************************************************)
EXTENDS Naturals, Sequences, FiniteSets, TLC

CONSTANTS
    Points,       \* mount points
    Nodes,        \* block nodes that can carry a filesystem
    Behind,       \* node -> the disks behind it
    MD,           \* the nodes that are MD arrays
    Proven,       \* disks whose serial or WWN is present and unique
    Uuids,        \* filesystem UUIDs
    Wanted,       \* the policy: volume -> expected UUID
    MaxEvents     \* bound on the changes during a run

None == "none"
Volumes == DOMAIN Wanted
Disks == UNION {Behind[n] : n \in Nodes}

ReviewAssumption ==
    /\ Behind \in [Nodes -> SUBSET Disks] /\ MD \subseteq Nodes /\ Proven \subseteq Disks
    /\ Wanted \in [Volumes -> Uuids] /\ None \notin Uuids /\ None \notin Nodes /\ MaxEvents \in Nat

VARIABLES
    disk,         \* disk -> diskseq
    array,        \* array -> diskseq, 0 when stopped
    fs,           \* node -> UUID of the filesystem on it
    mount,        \* mount point -> [id, node]
    claims,       \* the registry: volume -> UUID or None
    queue,        \* inotify: "", "changed" or "lost"
    reader,       \* [generation, broken]
    events,       \* changes so far
    r,            \* the review: [at, generation, data, result]
    linear        \* ghost: the review of the machine at the chosen instant

machine == <<disk, array, fs, mount, claims, queue, events>>
vars == <<machine, reader, r, linear>>

\* Readings of one census, in the order of collectTrustedMountedExtCensusWith:
\* the mount table, the block nodes and arrays (each twice), the roots
\* (ObserveMounted opens and then verifies each, and runs twice), and again.
Roots == <<"root", "root", "root", "root">>
Blocks == <<"storage", "arrays", "arrays", "storage">>
Census == <<"mounts">> \o Blocks \o Roots \o Blocks \o <<"mounts">>
Script == <<"claims", "settle">> \o Census \o Census \o <<"claims", "settle">>

\* The mount-table reading that ends the first census.
Instant == 2 + Len(Census)

NoReview == [at |-> 0, generation |-> 0, data |-> <<>>, result |-> <<>>]
Unmounted == [id |-> 0, node |-> None]

Init ==
    /\ disk = [d \in Disks |-> 1] /\ array = [m \in MD |-> 1]
    /\ fs \in [Nodes -> Uuids] /\ mount = [p \in Points |-> Unmounted]
    /\ claims \in [Volumes -> Uuids \cup {None}]
    /\ queue = "" /\ reader = [generation |-> 0, broken |-> FALSE]
    /\ events = 0 /\ r = NoReview /\ linear = <<>>

---------------------------------------------------------------------------
(* The machine.                                                            *)

Event == events < MaxEvents /\ events' = events + 1 /\ UNCHANGED <<reader, r, linear>>
Running(n) == n \in MD => array[n] # 0
Mounted(n) == \E p \in Points : mount[p].node = n

\* STATX_MNT_ID_UNIQUE never comes back.
MountAt(p, n) ==
    /\ Event /\ mount[p] = Unmounted /\ Running(n)
    /\ mount' = [mount EXCEPT ![p] = [id |-> events + 1, node |-> n]]
    /\ UNCHANGED <<disk, array, fs, claims, queue>>

UnmountAt(p) ==
    /\ Event /\ mount[p] # Unmounted /\ mount' = [mount EXCEPT ![p] = Unmounted]
    /\ UNCHANGED <<disk, array, fs, claims, queue>>

StopArray(m) ==
    /\ Event /\ array[m] # 0 /\ ~Mounted(m) /\ array' = [array EXCEPT ![m] = 0]
    /\ UNCHANGED <<disk, fs, mount, claims, queue>>

AssembleArray(m) ==
    /\ Event /\ array[m] = 0 /\ array' = [array EXCEPT ![m] = events + 2]
    /\ UNCHANGED <<disk, fs, mount, claims, queue>>

\* Another disk takes the place of an unused one.
SwapDisk(d) ==
    /\ Event /\ \A n \in Nodes : d \in Behind[n] => ~Mounted(n) /\ (n \in MD => array[n] = 0)
    /\ disk' = [disk EXCEPT ![d] = events + 2]
    /\ \E u \in Uuids : fs' = [n \in Nodes |-> IF d \in Behind[n] THEN u ELSE fs[n]]
    /\ UNCHANGED <<array, mount, claims, queue>>

\* Some other process rewrites the registry, or the watch overflows.
WriteClaims ==
    /\ Event /\ \E c \in [Volumes -> Uuids \cup {None}] : c # claims /\ claims' = c
    /\ queue' = IF queue = "" THEN "changed" ELSE queue
    /\ UNCHANGED <<disk, array, fs, mount>>

LoseWatch ==
    Event /\ queue' = "lost" /\ UNCHANGED <<disk, array, fs, mount, claims>>

Environment ==
    \/ \E p \in Points : UnmountAt(p) \/ \E n \in Nodes : MountAt(p, n)
    \/ \E m \in MD : StopArray(m) \/ AssembleArray(m)
    \/ \E d \in Disks : SwapDisk(d)
    \/ WriteClaims \/ LoseWatch

---------------------------------------------------------------------------
(* The comparison.                                                         *)

\* mountguard.ObserveMounted and correlateMountedStorageIdentity: what the
\* anchors show, per UUID the kernel objects that carry it.
Objects(roots, u) == {roots[p].node : p \in {q \in DOMAIN roots : roots[q].uuid = u}}

\* reviewDesiredMountedVolumes
Status(objects) ==
    CASE objects = {} -> "not-observed-in-scope"
      [] Cardinality(objects) = 1 -> "observed-in-scope"
      [] OTHER -> "ambiguous-in-scope"

\* reviewRegisteredBacking: the kind of the one object.
Kind(objects) ==
    IF Cardinality(objects) # 1 THEN ""
    ELSE IF objects \subseteq MD THEN "md-device" ELSE "physical-partition"

Unresolved(objects) == \E n \in objects : ~(Behind[n] \subseteq Proven)

\* reviewRegisteredPolicyVolumes: the registry's word comes before the policy's.
PolicyVolumes(reg, roots) ==
    [v \in Volumes |->
        LET objects == Objects(roots, Wanted[v])
        IN CASE reg[v] = None -> [status |-> "not-registered", kind |-> "", unresolved |-> FALSE]
             [] reg[v] # None /\ reg[v] # Wanted[v] ->
                    [status |-> "registry-policy-conflict", kind |-> "", unresolved |-> FALSE]
             [] OTHER -> [status |-> Status(objects), kind |-> Kind(objects), unresolved |-> Unresolved(objects)]]

Compare(reg, roots) ==
    [volumes |-> PolicyVolumes(reg, roots),
     unclaimed |-> Cardinality(UNION {Objects(roots, u) : u \in Uuids \ {reg[v] : v \in Volumes}})]

\* What a reading that saw everything at once would compare.
Now == Compare(claims, [p \in {q \in Points : mount[q] # Unmounted} |->
                            [id |-> mount[p].id, node |-> mount[p].node, uuid |-> fs[mount[p].node]]])

---------------------------------------------------------------------------
(* The review.                                                             *)

Reading(kind) ==
    CASE kind = "mounts" -> [p \in Points |-> mount[p].node]
      [] kind = "storage" -> [disks |-> disk, arrays |-> array]
      [] kind = "arrays" -> {m \in MD : array[m] # 0}
      [] kind = "root" -> [p \in {q \in Points : r.data["mounts"][q] # None} |->
                              [id |-> mount[p].id, node |-> mount[p].node,
                               uuid |-> IF mount[p] = Unmounted THEN None ELSE fs[mount[p].node]]]
      [] kind = "claims" -> claims

\* mountedCensusRootsMatch, planMountedExtCensus and correlateMDStorageIdentity
\* applied to a reading: every anchor is there and on the device the mount
\* table named, that device is a known node, and a running array stands on
\* disks with unique evidence.
Acceptable(kind, v) ==
    CASE kind = "root" -> \A p \in DOMAIN v : v[p].node = r.data["mounts"][p]
      [] kind = "storage" ->
            \A p \in Points : r.data["mounts"][p] \in MD => v.arrays[r.data["mounts"][p]] # 0
      [] kind = "arrays" -> /\ v = {m \in MD : r.data["storage"].arrays[m] # 0}
                            /\ \A m \in v : Behind[m] \subseteq Proven
      [] OTHER -> TRUE

Keeps(kind, v) == kind \notin DOMAIN r.data \/ r.data[kind] = v

\* drainChangesLocked: one generation per drained change, and sticky doubt.
Drain ==
    /\ reader' = CASE queue = "lost" -> [reader EXCEPT !.broken = TRUE]
                   [] queue = "changed" -> [reader EXCEPT !.generation = @ + 1]
                   [] OTHER -> reader
    /\ queue' = "" /\ UNCHANGED <<disk, array, fs, mount, claims, events>>

\* A reader that compares what it reads and not its generation.
CurrentAnyway == ~reader'.broken

\* Read takes the generation it starts with; Recheck requires that one.
Current == ~reader'.broken /\ (r.at > 1 => r.generation = reader'.generation)

Begin == r.at = 0 /\ r' = [NoReview EXCEPT !.at = 1] /\ UNCHANGED <<machine, reader, linear>>

Step(kind) == r.at \in DOMAIN Script /\ Script[r.at] = kind

\* volumeregistry.Reader.Read and Recheck.
ReadClaims ==
    /\ Step("claims") /\ ~reader.broken /\ Drain
    /\ r' = IF Current /\ Keeps("claims", claims)
            THEN [r EXCEPT !.at = @ + 1, !.generation = reader'.generation,
                           !.data = ("claims" :> claims) @@ @]
            ELSE NoReview
    /\ UNCHANGED linear

Settle ==
    /\ Step("settle") /\ Drain
    /\ r' = IF Current THEN [r EXCEPT !.at = @ + 1] ELSE NoReview
    /\ UNCHANGED linear

Observe(kind) ==
    /\ Step(kind) /\ UNCHANGED <<machine, reader>>
    /\ LET v == Reading(kind)
       IN r' = IF Acceptable(kind, v) /\ Keeps(kind, v)
               THEN [r EXCEPT !.at = @ + 1, !.data = (kind :> v) @@ @,
                              !.result = IF r.at = Instant THEN Compare(r.data["claims"], r.data["root"]) ELSE @]
               ELSE NoReview
    /\ linear' = IF r.at = Instant THEN Now ELSE linear

\* The result is returned; a read that fails, or a cancelled context, ends the
\* review with nothing.
Return == r.at = Len(Script) + 1 /\ r' = NoReview /\ UNCHANGED <<machine, reader, linear>>
Fail == r.at \in DOMAIN Script /\ r' = NoReview /\ UNCHANGED <<machine, reader, linear>>

Review ==
    \/ Begin \/ ReadClaims \/ Settle \/ Return \/ Fail
    \/ \E kind \in {"mounts", "storage", "arrays", "root"} : Observe(kind)

Next == Review \/ Environment
Spec == Init /\ [][Next]_vars

---------------------------------------------------------------------------
\* A review that is returned is what a look at everything at once would have
\* found at one instant of the bracket, the mount-table reading that ends the
\* first census: for every volume of the policy, registered or not, mounted
\* once, twice or not at all, and on what.
ReviewTrueAtOnce == r.at = Len(Script) + 1 => r.result = linear
=============================================================================

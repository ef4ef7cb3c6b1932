---------------------------- MODULE StorageScan ----------------------------
(***************************************************************************)
(* One read-only observation of the disks, as the storage broker makes it: *)
(* collectStorage (storage.go), discoverTrustedStorageWith, the GPT and MD *)
(* probes behind it, and the revalidations between them.  Nothing stops    *)
(* the machine from changing meanwhile: disks come and go, arrays are      *)
(* assembled, partitions are mounted or rewritten between any two reads.   *)
(*                                                                         *)
(* An observation collects the inventory, the mount table and the swap     *)
(* table up to four times.  Collection 1 gives the plan, 2 follows the     *)
(* opening of the candidates, 3 the GPT probe and 4 the superblock reads.  *)
(***************************************************************************)
EXTENDS Naturals, FiniteSets, Sequences

-----------------------------------------------------------------------------
(***************************************************************************)
(* The decisions of storage observation that are functions of what was     *)
(* read: the block graph (storage.go, storage_source_set.go, mounts.go),   *)
(* the discovery plan (storage_discovery.go), GPT correlation and          *)
(* classification (storage_partition_*.go) and the comparison of MD 1.0    *)
(* superblocks (mdmetadata/array.go).                                      *)
(*                                                                         *)
(* An inventory is a function from node names to what sysfs said of them:  *)
(* kind, generation (diskseq, 0 for a partition), the parent of a          *)
(* partition, slaves and holders, geometry, serial.                        *)
(***************************************************************************)
NoParent == "-"

\* observeSCSISerial and observeSCSIWWN leave a value or one of these.
NoValue == {"unavailable", "invalid", "unreadable"}

---------------------------------------------------------------------------
(* The block graph.                                                        *)

Disks(inv) == {n \in DOMAIN inv : inv[n].kind = "block"}

\* correlateStoragePartitionParents: one whole disk behind every partition.
ParentsKnown(inv) ==
    \A n \in DOMAIN inv : inv[n].kind = "partition" => inv[n].parent \in Disks(inv)

\* correlateStorageBlockRelations: each holder and slave link has its mirror.
Reciprocal(inv) ==
    \A n \in DOMAIN inv :
        /\ \A h \in inv[n].holders : h \in DOMAIN inv /\ n \in inv[h].slaves
        /\ \A s \in inv[n].slaves : s \in DOMAIN inv /\ n \in inv[s].holders

\* What a node stands on: its parent or its slaves.
Under(inv, n) == inv[n].slaves \cup ({inv[n].parent} \ {NoParent})

Closed(inv, C) == \A n \in C : Under(inv, n) \subseteq C

\* The search of observedBlockNodeDependsOnWholeDisk and of
\* validateObservedStorageTopology: all that is reached from n, which is what
\* every closed set holds that holds what n stands on.
Beneath(inv, n) ==
    {m \in DOMAIN inv : \A C \in SUBSET DOMAIN inv :
        Under(inv, n) \subseteq C /\ Closed(inv, C) => m \in C}

DependsOn(inv, n, disk) == n = disk \/ disk \in Beneath(inv, n)
Acyclic(inv) == \A n \in DOMAIN inv : n \notin Beneath(inv, n)

\* completeObservedBlockDeviceSet
Complete(inv) ==
    /\ ParentsKnown(inv) /\ Reciprocal(inv)
    /\ \A n \in DOMAIN inv : (inv[n].kind = "block") = (inv[n].seq # 0)
    /\ \A d, e \in Disks(inv) : inv[d].seq = inv[e].seq => d = e
    /\ Acyclic(inv)

\* markDuplicateIdentities: a value shared by two whole disks identifies none.
IdentityStatus(inv, d) ==
    LET v == inv[d].serial
    IN CASE v \in NoValue -> v
         [] \E e \in Disks(inv) \ {d} : inv[e].serial = v -> "ambiguous"
         [] OTHER -> "present"

---------------------------------------------------------------------------
(* planTrustedStorageDiscovery                                             *)

Stacked(inv, d) ==
    \E n \in Disks(inv) \ {d} : inv[n].slaves # {} /\ DependsOn(inv, n, d)

\* observedWholeDiskHasVisibleDependentMount walks the mount table in order and
\* stops at the first mount that stands on the disk or names no known node.
MountVerdict(inv, d, mounts) ==
    LET hits == {i \in DOMAIN mounts :
                    mounts[i].on \notin DOMAIN inv \/ DependsOn(inv, mounts[i].on, d)}
    IN CASE hits = {} -> "free"
         [] \E i \in hits : mounts[i].on \notin DOMAIN inv /\ \A j \in hits : i <= j -> "orphan"
         [] OTHER -> "mounted"

\* The reasons are tried in this order; "" is a candidate.
Excluded(inv, d, mounts) ==
    CASE inv[d].virtual -> "virtual-block-node"
      [] inv[d].slaves # {} -> "stacked-block-node"
      [] Stacked(inv, d) -> "member-of-stacked-block-node"
      [] MountVerdict(inv, d, mounts) = "orphan" -> "error"
      [] MountVerdict(inv, d, mounts) = "mounted" -> "visible-dependent-mount"
      [] inv[d].removable -> "removable-device"
      [] OTHER -> ""

\* A multi-device filesystem, or a mount of a device the inventory does not
\* hold, leaves the plan incomplete.
Plannable(inv, mounts) ==
    /\ Complete(inv)
    /\ \A i \in DOMAIN mounts : ~mounts[i].multi
    /\ \A d \in Disks(inv) : Excluded(inv, d, mounts) # "error"

Candidates(inv, mounts) == {d \in Disks(inv) : Excluded(inv, d, mounts) = ""}

---------------------------------------------------------------------------
(* GPT tables.  A table is [scheme, guid, parts], a part [num, geo, uuid,  *)
(* raid]; geo stands for start and size.                                   *)

KernelParts(inv, d) == {n \in DOMAIN inv : inv[n].kind = "partition" /\ inv[n].parent = d}

\* correlateDiskPartitionTable: the table read from the disk and the
\* partitions the kernel has must be the same set, entry by entry.
Correlates(inv, d, table) ==
    CASE table.scheme = "none" -> KernelParts(inv, d) = {}
      [] table.scheme = "dos" -> TRUE
      [] table.scheme = "gpt" ->
            /\ Cardinality(table.parts) = Cardinality(KernelParts(inv, d))
            /\ \A e, f \in table.parts : e.num = f.num => e = f
            /\ \A e \in table.parts :
                \E n \in KernelParts(inv, d) : inv[n].num = e.num /\ inv[n].geo = e.geo

GPTDisks(tables) == {d \in DOMAIN tables : tables[d].scheme = "gpt"}

\* classifyGPTPartitionIdentities: no PARTUUID twice on one disk.
Classifiable(tables) ==
    \A d \in GPTDisks(tables) : \A e, f \in tables[d].parts : e.uuid = f.uuid => e = f

AmbiguousDisks(tables) ==
    {d \in GPTDisks(tables) : \E e \in GPTDisks(tables) \ {d} : tables[e].guid = tables[d].guid}

\* Pairs of a disk and one of its entries.
Entries(tables) == UNION {{d} \X tables[d].parts : d \in GPTDisks(tables)}

AmbiguousParts(tables) ==
    {x \in Entries(tables) :
        \E y \in Entries(tables) : y[1] # x[1] /\ y[2].uuid = x[2].uuid}

Coverage(tables) ==
    LET all == Cardinality(DOMAIN tables)
        gpt == Cardinality(GPTDisks(tables))
    IN CASE all = 0 -> "empty-candidate-set"
         [] gpt = 0 -> "no-gpt-candidates"
         [] gpt = all -> "all-candidates-gpt"
         [] OTHER -> "partial-gpt-candidates"

\* summarizeGPTIdentityObservation
Summary(tables) ==
    [candidates |-> Cardinality(DOMAIN tables), gpt |-> Cardinality(GPTDisks(tables)),
     coverage |-> Coverage(tables), ambiguousDisks |-> Cardinality(AmbiguousDisks(tables)),
     ambiguousParts |-> Cardinality(AmbiguousParts(tables)),
     parts |-> Cardinality(Entries(tables))]

---------------------------------------------------------------------------
(* MD 1.0 superblocks (mdmetadata/array.go).  An observation is [status,   *)
(* array, shape, disks, role, num, id, events]: shape stands for level,    *)
(* layout, sizes and max_dev, array is "" for an all-zero UUID.            *)

NotActive == {65533, 65534, 65535}   \* journal, faulty, spare

\* validComponentObservation
ValidComponent(o) ==
    o.status = "candidate" /\ o.disks # 0 /\ (o.role < o.disks \/ o.role \in NotActive)

Repeats(seq, F(_)) == \E i, j \in DOMAIN seq : i < j /\ F(seq[i]) = F(seq[j])

\* compareArray: the first member sets what the others must agree with.
CompareArray(members) ==
    LET first == members[1]
        active == SelectSeq(members, LAMBDA o : o.role < first.disks)
        roles == {active[i].role : i \in DOMAIN active}
    IN CASE \/ Repeats(members, LAMBDA o : o.num)
            \/ Repeats(members, LAMBDA o : o.id)
            \/ Repeats(active, LAMBDA o : o.role) -> "ambiguous"
         [] \E i \in DOMAIN members : members[i].shape # first.shape \/ members[i].disks # first.disks -> "conflicting"
         [] \E i \in DOMAIN members : members[i].events # first.events -> "divergent-events"
         [] roles # 0..(first.disks - 1) -> "incomplete"
         [] OTHER -> "metadata-consistent"

\* CompareComponents: one status for every array named by a valid superblock.
CompareComponents(comps) ==
    LET valid == SelectSeq(comps, ValidComponent)
        known == SelectSeq(valid, LAMBDA o : o.array # "")
    IN [unqualified |-> Len(comps) - Len(valid), unidentified |-> Len(valid) - Len(known),
        arrays |-> [a \in {known[i].array : i \in DOMAIN known} |->
                        CompareArray(SelectSeq(known, LAMBDA o : o.array = a))]]

\* summarizeTrustedMDV10Observation: MetadataActiveRoleCoverageComplete
RolesCovered(cmp) ==
    /\ DOMAIN cmp.arrays # {} /\ cmp.unqualified = 0 /\ cmp.unidentified = 0
    /\ \A a \in DOMAIN cmp.arrays : cmp.arrays[a] = "metadata-consistent"

-----------------------------------------------------------------------------
(* The machine and the observation of it.                                  *)
CONSTANTS
    Slots,        \* names of whole disks
    Parts,        \* names of partitions
    Arrays,       \* names of MD arrays
    Parent,       \* the slot of a partition
    Rank,         \* the place of a name among all names, sorted
    Removable,    \* the slots of removable drives
    Media,        \* what a disk can carry
    Content,      \* medium -> [serial, table, blocks]
    Stores,       \* the initial media: functions from Slots to Media
    MaxEvents     \* bound on what happens during the run

Names == Slots \cup Parts \cup Arrays

ASSUME ScanAssumption ==
    /\ Slots \cap Parts = {} /\ Slots \cap Arrays = {} /\ Parts \cap Arrays = {} /\ NoParent \notin Names
    /\ Parent \in [Parts -> Slots] /\ Stores \subseteq [Slots -> Media] /\ MaxEvents \in Nat
    /\ Cardinality(Names) \in Nat /\ Rank \in [Names -> 1..Cardinality(Names)]

VARIABLES
    world,        \* name -> what the kernel has there
    mounts,       \* the mount table
    swaps,        \* nodes used as swap
    clock,        \* the next diskseq; also counts the events
    s,            \* the observation
    mid,          \* ghost: diskseqs between the two passes of a collection
    held          \* ghost: uses that have lasted since this collection began

vars == <<world, mounts, swaps, clock, s, mid, held>>

Nothing == [seq |-> 0, serial |-> "", medium |-> "", geo |-> 0, slaves |-> {}]
Present(n) == world[n].seq # 0 \/ world[n].geo # 0

\* The kernel's reading of a partition table: the geometry of each partition.
KernelGeo(m, p) ==
    LET t == Content[m].table
        mine == {e \in t.parts : e.num = 1}
    IN IF t.scheme = "none" \/ mine = {} THEN 0 ELSE (CHOOSE e \in mine : TRUE).geo

Idle == [op |-> "none", pc |-> "idle", stage |-> 0, todo |-> {},
         seen |-> <<>>, tab |-> <<>>, inv |-> <<>>, mnt |-> <<>>,
         fds |-> <<>>, tables |-> <<>>, comps |-> <<>>, report |-> <<>>]

WithDisk(w, d, seq, m) ==
    [n \in Names |->
        CASE n = d -> [Nothing EXCEPT !.seq = seq, !.serial = Content[m].serial, !.medium = m]
          [] n \in Parts /\ Parent[n] = d -> [Nothing EXCEPT !.geo = KernelGeo(m, n)]
          [] OTHER -> w[n]]

\* The disks of a store, numbered as they were found.
Found(store) ==
    [n \in Names |->
        CASE n \in Slots -> [Nothing EXCEPT !.seq = Rank[n], !.serial = Content[store[n]].serial, !.medium = store[n]]
          [] n \in Parts -> [Nothing EXCEPT !.geo = KernelGeo(store[Parent[n]], n)]
          [] OTHER -> Nothing]

Init ==
    /\ \E store \in Stores : world = Found(store)
    /\ mounts = <<>> /\ swaps = {} /\ clock = Cardinality(Names) + 1
    /\ s = Idle /\ mid = <<>> /\ held = {}

---------------------------------------------------------------------------
(* The machine.                                                            *)

Holders(n) == {m \in Arrays : n \in world[m].slaves}

\* The kernel's exclusive claims: a disk and its partitions exclude each other.
Kin(n) == {n} \cup {p \in Parts : Parent[p] = n} \cup {d \in Slots : n \in Parts /\ Parent[n] = d}
Claimed(n) ==
    \E k \in Kin(n) : Holders(k) # {} \/ k \in swaps \/ \E i \in DOMAIN mounts : mounts[i].on = k

\* What is in use, by whom: a mount, an array or a swap area stands on a node.
Uses(w, mt, sw) ==
    {[by |-> "mount", on |-> mt[i].on] : i \in DOMAIN mt}
    \cup {[by |-> "swap", on |-> n] : n \in sw}
    \cup {[by |-> "array", on |-> m] : m \in {a \in Arrays : w[a].seq # 0}}

Event(w, mt, sw) ==
    /\ clock <= Cardinality(Names) + MaxEvents
    /\ world' = w /\ mounts' = mt /\ swaps' = sw /\ clock' = clock + 1
    /\ held' = held \cap Uses(w, mt, sw)
    /\ UNCHANGED <<s, mid>>

\* A disk is pulled: its partitions go with it and arrays lose them.
Unplug(d) ==
    LET gone == {d} \cup {p \in Parts : Parent[p] = d}
    IN /\ Present(d)
       /\ Event([n \in Names |-> IF n \in gone THEN Nothing
                                 ELSE [world[n] EXCEPT !.slaves = @ \ gone]], mounts, swaps \ gone)

\* A name in use by a stale mount is not given out again.
Plug(d, m) == ~Present(d) /\ ~Claimed(d) /\ Event(WithDisk(world, d, clock, m), mounts, swaps)

Assemble(m, members) ==
    /\ ~Present(m) /\ members # {}
    /\ \A n \in members : Present(n) /\ ~Claimed(n)
    /\ Event([world EXCEPT ![m] = [Nothing EXCEPT !.seq = clock, !.slaves = members]], mounts, swaps)

StopArray(m) ==
    Present(m) /\ ~Claimed(m) /\ Event([world EXCEPT ![m] = Nothing], mounts, swaps)

Mount(n, multi) ==
    Present(n) /\ ~Claimed(n) /\ Event(world, Append(mounts, [on |-> n, multi |-> multi]), swaps)

Unmount(i) == Event(world, [j \in 1..(Len(mounts) - 1) |-> mounts[IF j < i THEN j ELSE j + 1]], swaps)
SwapOn(n) == Present(n) /\ ~Claimed(n) /\ Event(world, mounts, swaps \cup {n})
SwapOff(n) == Event(world, mounts, swaps \ {n})

\* Somebody writes another partition table, and the kernel may read it again.
Rewrite(d, m) ==
    Present(d) /\ m # world[d].medium /\ Event([world EXCEPT ![d].medium = m], mounts, swaps)
Reread(d) ==
    LET mine == {p \in Parts : Parent[p] = d}
        new == [n \in Names |-> IF n \in mine THEN [Nothing EXCEPT !.geo = KernelGeo(world[d].medium, n)] ELSE world[n]]
    IN Present(d) /\ (\A p \in mine : ~Claimed(p)) /\ new # world /\ Event(new, mounts, swaps)

Environment ==
    \/ \E d \in Slots : Unplug(d) \/ Reread(d)
    \/ \E d \in Slots, m \in Media : Plug(d, m) \/ Rewrite(d, m)
    \/ \E m \in Arrays : StopArray(m) \/ \E members \in SUBSET (Parts \cup Slots) : Assemble(m, members)
    \/ \E n \in Names : SwapOn(n) \/ \E multi \in BOOLEAN : Mount(n, multi)
    \/ \E i \in DOMAIN mounts : Unmount(i)
    \/ \E n \in swaps : SwapOff(n)

---------------------------------------------------------------------------
(* The observation.                                                        *)

Listed == {n \in Names : Present(n)}

\* The names left are taken in their order.
First(n) == n \in s.todo /\ \A m \in s.todo : Rank[n] <= Rank[m]
With(f, n, v) == [m \in DOMAIN f \cup {n} |-> IF m = n THEN v ELSE f[m]]

\* observeStorageBlockMetadata
Observed(n) ==
    [kind |-> IF n \in Parts THEN "partition" ELSE "block", seq |-> world[n].seq,
     parent |-> IF n \in Parts THEN Parent[n] ELSE NoParent, num |-> IF n \in Parts THEN 1 ELSE 0,
     geo |-> world[n].geo, slaves |-> world[n].slaves, holders |-> Holders(n),
     serial |-> world[n].serial, virtual |-> n \in Arrays, removable |-> n \in Removable]

\* Every error closes what was opened and reports nothing.
Refused == [Idle EXCEPT !.op = s.op, !.pc = "refused"]
Machine == <<world, mounts, swaps, clock>>
Go(pc) == s.pc = pc /\ UNCHANGED Machine

Request(op) ==
    /\ Go("idle") /\ s' = [Idle EXCEPT !.op = op, !.pc = "list", !.stage = 1]
    /\ UNCHANGED <<mid, held>>

\* collectStorage, the first listing.
List ==
    /\ Go("list")
    /\ s' = [s EXCEPT !.pc = "first", !.todo = Listed, !.seen = <<>>]
    /\ held' = Uses(world, mounts, swaps) /\ UNCHANGED mid

\* The first pass; parents and relations are correlated when it is complete.
FirstPass ==
    /\ Go("first") /\ UNCHANGED held
    /\ \/ \E n \in s.todo :
            /\ First(n) /\ UNCHANGED mid
            /\ s' = IF Present(n) THEN [s EXCEPT !.seen = With(@, n, Observed(n)), !.todo = @ \ {n}] ELSE Refused
       \/ /\ s.todo = {}
          /\ s' = IF ParentsKnown(s.seen) /\ Reciprocal(s.seen)
                  THEN [s EXCEPT !.pc = "second", !.todo = DOMAIN s.seen] ELSE Refused
          /\ mid' = [d \in DOMAIN s.seen \ Parts |-> world[d].seq]

\* A second pass that looks only at whether the node is still there.
SecondPassExistence ==
    /\ Go("second") /\ UNCHANGED <<mid, held>>
    /\ \/ \E n \in s.todo :
            First(n) /\ s' = IF Present(n) THEN [s EXCEPT !.todo = @ \ {n}] ELSE Refused
       \/ s.todo = {} /\ s' = [s EXCEPT !.pc = "relist"]

\* sameStorageBlockMetadata against the first pass, node by node.
SecondPass ==
    /\ Go("second") /\ UNCHANGED <<mid, held>>
    /\ \/ \E n \in s.todo :
            /\ First(n)
            /\ s' = IF Present(n) /\ Observed(n) = s.seen[n] THEN [s EXCEPT !.todo = @ \ {n}] ELSE Refused
       \/ s.todo = {} /\ s' = [s EXCEPT !.pc = "relist"]

\* The second listing; then the mount table.
Relist ==
    /\ Go("relist") /\ UNCHANGED <<mid, held>>
    /\ s' = IF Listed = DOMAIN s.seen THEN [s EXCEPT !.pc = "mounts"] ELSE Refused

CollectMounts ==
    /\ Go("mounts") /\ UNCHANGED <<mid, held>>
    /\ s' = [s EXCEPT !.pc = "swap", !.tab = mounts]

\* planTrustedStorageDiscovery on the first collection.
Plan ==
    IF Plannable(s.seen, s.tab)
    THEN [s EXCEPT !.pc = "open", !.inv = s.seen, !.mnt = s.tab, !.seen = <<>>, !.tab = <<>>,
                   !.todo = Candidates(s.seen, s.tab)]
    ELSE Refused

\* storageGPTObservationMaxDisks and storageMDV10MaximumDisks
MaxDisks(op) == IF op = "gpt" THEN 6 ELSE 4

Again(stage, pc) == [s EXCEPT !.pc = pc, !.stage = stage, !.seen = <<>>, !.tab = <<>>,
                              !.todo = IF pc \in {"probe", "inspect"} THEN DOMAIN s.fds ELSE {}]

\* What is answered: the whole disks and what identifies them, the summary of
\* the tables, or the arrays that the superblocks tell of.
Accepted(stage) ==
    [Again(stage, "accepted") EXCEPT !.report =
        CASE s.op = "inventory" -> [d \in Disks(s.inv) |-> IdentityStatus(s.inv, d)]
          [] s.op = "gpt" -> Summary(s.tables)
          [] OTHER -> LET cmp == CompareComponents(s.comps)
                      IN [arrays |-> cmp.arrays, covered |-> RolesCovered(cmp)]]

\* observeCandidateGPTIdentities and, for MD, the conditions under which
\* inspectTrustedMDV10Candidates reads superblocks at all.
GPTAccepted ==
    /\ \A d \in DOMAIN s.tables : Correlates(s.inv, d, s.tables[d])
    /\ Classifiable(s.tables)

\* What follows a collection that found the same inventory and mounts.
Resume ==
    CASE s.stage = 2 /\ s.op = "inventory" -> Accepted(2)
      [] s.stage = 2 /\ s.op # "inventory" ->
            IF Cardinality(DOMAIN s.fds) <= MaxDisks(s.op) THEN Again(3, "probe") ELSE Refused
      [] s.stage = 3 /\ s.op = "gpt" -> IF GPTAccepted THEN Accepted(3) ELSE Refused
      [] s.stage = 3 /\ s.op = "md" ->
            IF GPTAccepted /\ Coverage(s.tables) = "all-candidates-gpt" THEN Again(4, "inspect") ELSE Refused
      [] OTHER -> Accepted(4)

\* A revalidation that forgets the mount table.
CollectSwapOnly ==
    /\ Go("swap") /\ UNCHANGED <<mid, held>>
    /\ s' = CASE swaps # {} -> Refused
              [] swaps = {} /\ s.stage = 1 -> Plan
              [] OTHER -> IF s.seen = s.inv THEN Resume ELSE Refused

\* Any active swap refuses; a later collection must repeat the first.
CollectSwap ==
    /\ Go("swap") /\ UNCHANGED <<mid, held>>
    /\ s' = CASE swaps # {} -> Refused
              [] swaps = {} /\ s.stage = 1 -> Plan
              [] OTHER -> IF s.seen = s.inv /\ s.tab = s.mnt THEN Resume ELSE Refused

\* openObservedBlockSourcesAt: the descriptor must have the planned diskseq.
OpenSource ==
    /\ Go("open") /\ UNCHANGED <<mid, held>>
    /\ \/ \E d \in s.todo :
            /\ First(d)
            /\ s' = IF world[d].seq = s.inv[d].seq
                    THEN [s EXCEPT !.todo = @ \ {d}, !.fds = With(@, d, world[d].seq)] ELSE Refused
       \/ s.todo = {} /\ s' = Again(2, "list")

\* ObserveGPTBlockSet reads the table of the disk behind the descriptor, which
\* fails once that disk is gone.
Probe ==
    /\ Go("probe") /\ UNCHANGED <<mid, held>>
    /\ \/ \E d \in s.todo :
            /\ First(d)
            /\ s' = IF world[d].seq = s.fds[d]
                    THEN [s EXCEPT !.todo = @ \ {d}, !.tables = With(@, d, Content[world[d].medium].table)]
                    ELSE Refused
       \/ s.todo = {} /\ s' = [s EXCEPT !.pc = "list"]

\* inspectTrustedMDV10Candidates: the superblock of every RAID partition.
Inspect ==
    /\ Go("inspect") /\ UNCHANGED <<mid, held>>
    /\ \/ \E d \in s.todo :
            LET raid == {e \in s.tables[d].parts : e.raid}
            IN /\ First(d)
               /\ s' = IF world[d].seq = s.fds[d]
                       THEN [s EXCEPT !.todo = @ \ {d},
                                      !.comps = @ \o (IF raid = {} THEN <<>> ELSE <<Content[world[d].medium].block>>)]
                       ELSE Refused
       \/ s.todo = {} /\ s' = [s EXCEPT !.pc = "list"]

\* Any read or open can fail; the probe's slot can be taken (ErrBusy).
Fails ==
    /\ s.pc \notin {"idle", "refused", "accepted"} /\ UNCHANGED <<Machine, mid, held>>
    /\ s' = Refused

\* The answer is sent and the descriptors are closed.
Answered ==
    /\ s.pc \in {"refused", "accepted"} /\ UNCHANGED Machine
    /\ s' = Idle /\ mid' = <<>> /\ held' = {}

Observation ==
    \/ \E op \in {"inventory", "gpt", "md"} : Request(op)
    \/ List \/ FirstPass \/ SecondPass \/ Relist \/ CollectMounts \/ CollectSwap
    \/ OpenSource \/ Probe \/ Inspect \/ Fails \/ Answered

Next == Observation \/ Environment
Spec == Init /\ [][Next]_vars

---------------------------------------------------------------------------
(* Properties.                                                             *)

\* The whole disks of an inventory that is reported were all there, in those
\* generations, at one instant, although the two passes of collectStorage read
\* them one after another while disks come and go.
InventoryCoexisted ==
    s.pc = "accepted" => \A d \in Disks(s.inv) : d \in DOMAIN mid /\ mid[d] = s.inv[d].seq

\* A mount, array or swap area that has been there since the last collection
\* began does not stand on a disk the observation opened: a use that began
\* after the plan and lasts is always noticed before anything is reported.
OpenedAreFree ==
    s.pc = "accepted" =>
        LET now == [n \in Listed |-> Observed(n)]
        IN \A u \in held, d \in DOMAIN s.fds :
            u.on \in Listed => ~DependsOn(now, u.on, d)
=============================================================================

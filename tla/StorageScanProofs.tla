------------------------ MODULE StorageScanProofs ------------------------
(***************************************************************************)
(* What the storage observation reports is true, for any disks, partitions *)
(* and arrays, any contents and any number of changes of the machine while *)
(* it runs.                                                                *)
(***************************************************************************)
EXTENDS StorageScan, TLAPS

Fields == {"op", "pc", "stage", "todo", "seen", "tab", "inv", "mnt", "fds", "tables", "comps", "report"}
Collecting == {"first", "second", "relist", "mounts", "swap"}

Mediums == {""} \cup Media
Serials == {""} \cup {Content[m].serial : m \in Media}
Geometries == {0} \cup {KernelGeo(m, p) : m \in Mediums, p \in Parts}
Node == [seq : Nat, serial : Serials, medium : Mediums, geo : Geometries, slaves : SUBSET (Slots \cup Parts)]

\* The machine: a disk has a generation, a partition a geometry and an array
\* the nodes it was made of; what stands on something stands on what is there.
WorldInv ==
    /\ world \in [Names -> Node] /\ clock \in Nat
    /\ \A n \in Names : world[n].seq < clock
    /\ \A n \in Names \ Parts : world[n].geo = 0
    /\ \A n \in Names \ Arrays : world[n].slaves = {}
    /\ \A m \in Arrays : \A n \in world[m].slaves : Present(n)
    /\ \A p \in Parts : Present(p) => Present(Parent[p])
    /\ mounts \in Seq([on : Names, multi : BOOLEAN])
    /\ \A i \in DOMAIN mounts : mounts[i].on \in Arrays => world[mounts[i].on].seq # 0

\* What an inventory says of a node that does not change.
ShapeOf(e, n, now) ==
    /\ e.kind = IF n \in Parts THEN "partition" ELSE "block"
    /\ e.parent = IF n \in Parts THEN Parent[n] ELSE NoParent
    /\ e.virtual = (n \in Arrays)
    /\ e.slaves \subseteq IF n \in Arrays THEN Slots \cup Parts ELSE {}
    /\ n \notin Parts => e.seq \in Nat \ {0} /\ e.seq < now

Shape(inv, now) == DOMAIN inv \subseteq Names /\ \A n \in DOMAIN inv : ShapeOf(inv[n], n, now)

\* The observation: what was opened are candidates of the plan.
PlanInv ==
    /\ s = [f \in Fields |-> s[f]]
    /\ Shape(s.inv, clock) /\ Shape(s.seen, clock)
    /\ s.pc = "first" => s.todo \subseteq Names
    /\ DOMAIN s.fds \subseteq Candidates(s.inv, s.mnt)
    /\ s.stage = 1 /\ s.pc # "open" => DOMAIN s.fds = {}
    /\ s.pc = "open" => s.stage = 1 /\ s.todo \subseteq Candidates(s.inv, s.mnt)

\* A disk whose generation the second pass has confirmed had it at the moment
\* between the two passes; one that has changed since the first pass never
\* comes back to the generation read there.
GenerationInv ==
    /\ s.pc \in Collecting \ {"first"} =>
        /\ DOMAIN mid = DOMAIN s.seen \ Parts
        /\ \A d \in DOMAIN mid :
            \/ mid[d] = s.seen[d].seq
            \/ s.pc = "second" /\ d \in s.todo /\ world[d].seq # s.seen[d].seq
    /\ InventoryCoexisted

\* An array in use since the collection began loses members, and gains none;
\* every use that lasts is in the inventory and the mount table.
Lasting(u) ==
    /\ s.pc \in Collecting /\ u.by # "swap" /\ u.on \in Arrays \cap DOMAIN s.seen =>
            world[u.on].slaves \subseteq s.seen[u.on].slaves
    /\ s.pc \in {"mounts", "swap"} /\ u.by = "array" => u.on \in DOMAIN s.seen
    /\ s.pc = "swap" /\ u.by = "mount" => \E i \in DOMAIN s.tab : s.tab[i].on = u.on
    /\ s.pc = "accepted" =>
        /\ u.by # "swap"
        /\ u.on \in Arrays \cap DOMAIN s.inv => world[u.on].slaves \subseteq s.inv[u.on].slaves
        /\ u.by = "array" => u.on \in DOMAIN s.inv
        /\ u.by = "mount" => \E i \in DOMAIN s.mnt : s.mnt[i].on = u.on

HeldInv == held \subseteq Uses(world, mounts, swaps) /\ \A u \in held : Lasting(u)

IInv == WorldInv /\ PlanInv /\ GenerationInv /\ HeldInv

-----------------------------------------------------------------------------
(* The machine changes.                                                    *)

\* What a node is made of.
LEMMA NodeFields ==
    ASSUME NEW e \in Node
    PROVE  /\ e.seq \in Nat /\ e.medium \in Mediums /\ e.slaves \subseteq Slots \cup Parts
           /\ \A S : LET g == [e EXCEPT !.slaves = @ \ S]
                     IN g \in Node /\ g.seq = e.seq /\ g.geo = e.geo /\ g.slaves = e.slaves \ S
           /\ \A m \in Media : LET g == [e EXCEPT !.medium = m]
                               IN g \in Node /\ g.seq = e.seq /\ g.geo = e.geo /\ g.slaves = e.slaves
BY DEF Node, Mediums

\* The absent node is a node, and the empty values are values.
LEMMA NothingFields ==
    /\ Nothing \in Node /\ Nothing.seq = 0 /\ Nothing.geo = 0 /\ Nothing.slaves = {}
    /\ "" \in Serials /\ "" \in Mediums /\ 0 \in Geometries /\ 0 \in Nat /\ {} \in SUBSET (Slots \cup Parts)
<1>1. "" \in Serials /\ "" \in Mediums /\ 0 \in Geometries
  BY DEF Mediums, Serials, Geometries
<1> QED BY <1>1 DEF Nothing, Node

\* A node with a geometry only is a node: what the kernel keeps of a partition.
LEMMA PartNode ==
    ASSUME NEW v \in Geometries, NEW g, g = [seq |-> 0, serial |-> "", medium |-> "", geo |-> v, slaves |-> {}]
    PROVE  g \in Node /\ g.seq = 0 /\ g.slaves = {}
BY NothingFields DEF Node

\* A node with a generation, a serial and a medium is a node: a disk.
LEMMA DiskNode ==
    ASSUME NEW q \in Nat, NEW r \in Serials, NEW m \in Mediums,
           NEW g, g = [seq |-> q, serial |-> r, medium |-> m, geo |-> 0, slaves |-> {}]
    PROVE  g \in Node /\ g.seq = q /\ g.geo = 0 /\ g.slaves = {}
BY NothingFields DEF Node

\* A name is that of a disk, of a partition or of an array.
LEMMA Kinds ==
    /\ Slots \subseteq Names \ (Parts \cup Arrays) /\ Parts \subseteq Names \ (Slots \cup Arrays)
    /\ Arrays \subseteq Names \ (Slots \cup Parts) /\ Parent \in [Parts -> Slots]
BY ScanAssumption DEF Names

\* A member of an array, and what is mounted, is claimed.
LEMMA ClaimedMember ==
    /\ \A m \in Arrays : \A n \in world[m].slaves : Claimed(n)
    /\ \A i \in DOMAIN mounts : Claimed(mounts[i].on)
BY DEF Claimed, Kin, Holders

\* A later moment does not change what an inventory says.
LEMMA ShapeLasts ==
    ASSUME NEW inv, NEW now \in Nat, NEW later \in Nat, now <= later, Shape(inv, now)
    PROVE  Shape(inv, later)
<1> SUFFICES ASSUME NEW n \in DOMAIN inv PROVE ShapeOf(inv[n], n, later)
  BY DEF Shape
<1>1. ShapeOf(inv[n], n, now)
  BY DEF Shape
<1> QED BY <1>1 DEF ShapeOf

\* An array that is in use, or on which something is mounted, is there.
LEMMA UsedArrayPresent ==
    ASSUME NEW w, NEW mt, NEW sw, NEW u \in Uses(w, mt, sw), u.by # "swap", u.on \in Arrays,
           \A i \in DOMAIN mt : mt[i].on \in Arrays => w[mt[i].on].seq # 0
    PROVE  w[u.on].seq # 0
<1>1. CASE u \in {[by |-> "mount", on |-> mt[i].on] : i \in DOMAIN mt}
  BY <1>1
<1>2. CASE u \in {[by |-> "array", on |-> m] : m \in {a \in Arrays : w[a].seq # 0}}
  BY <1>2
<1> QED BY <1>1, <1>2 DEF Uses

\* A change of the machine that gives new generations only, and new members
\* only to an array that was not there, keeps what the observation relies on.
LEMMA EventKeeps ==
    ASSUME IInv, WorldInv', Event(world', mounts', swaps'),
           \A n \in Names \ Parts : world'[n].seq \in {world[n].seq, 0, clock},
           \A m \in Arrays : world[m].seq # 0 /\ world'[m].seq # 0 => world'[m].slaves \subseteq world[m].slaves
    PROVE  IInv'
<1>1. /\ clock' = clock + 1 /\ clock \in Nat /\ s' = s /\ mid' = mid
      /\ held' = held \cap Uses(world', mounts', swaps')
  BY DEF Event, IInv, WorldInv
<1>2. PlanInv'
  <2>1. Shape(s.inv, clock') /\ Shape(s.seen, clock')
    BY <1>1, ShapeLasts DEF IInv, PlanInv
  <2> QED BY <1>1, <2>1 DEF IInv, PlanInv
<1>3. GenerationInv'
  <2>1. ASSUME s.pc \in Collecting \ {"first"}, NEW d \in DOMAIN mid, world[d].seq # s.seen[d].seq
        PROVE  world'[d].seq # s.seen[d].seq
    <3>1. d \in DOMAIN s.seen \ Parts
      BY <2>1 DEF IInv, GenerationInv
    <3>2. d \in Names \ Parts /\ s.seen[d].seq \in Nat \ {0} /\ s.seen[d].seq < clock
      BY <3>1 DEF IInv, PlanInv, Shape, ShapeOf
    <3> QED BY <1>1, <2>1, <3>2
  <2> QED BY <1>1, <2>1 DEF IInv, GenerationInv, InventoryCoexisted
<1>4. HeldInv'
  <2> SUFFICES ASSUME NEW u \in held' PROVE Lasting(u)'
    BY <1>1 DEF HeldInv
  <2>1. u \in held /\ u \in Uses(world, mounts, swaps) /\ u \in Uses(world', mounts', swaps') /\ Lasting(u)
    BY <1>1 DEF IInv, HeldInv, Uses
  <2>2. ASSUME u.by # "swap", u.on \in Arrays PROVE world'[u.on].slaves \subseteq world[u.on].slaves
    <3>1. world[u.on].seq # 0
      BY <2>1, <2>2, UsedArrayPresent DEF IInv, WorldInv
    <3>2. world'[u.on].seq # 0
      BY <2>1, <2>2, UsedArrayPresent DEF WorldInv
    <3> QED BY <1>1, <2>2, <3>1, <3>2
  <2> QED BY <1>1, <2>1, <2>2 DEF Lasting
<1> QED BY <1>2, <1>3, <1>4 DEF IInv

\* A disk is pulled, with its partitions, out of whatever stands on them.
LEMMA UnplugKeeps == ASSUME IInv, NEW d \in Slots, Unplug(d) PROVE IInv'
<1> DEFINE gone == {d} \cup {p \in Parts : Parent[p] = d}
<1>1. /\ world' = [n \in Names |-> IF n \in gone THEN Nothing ELSE [world[n] EXCEPT !.slaves = @ \ gone]]
      /\ mounts' = mounts /\ swaps' = swaps \ gone /\ Event(world', mounts', swaps')
  BY DEF Unplug, Event
<1>2. ASSUME NEW n \in Names
      PROVE  /\ world'[n] \in Node
             /\ n \in gone => world'[n] = Nothing
             /\ n \notin gone => /\ world'[n].seq = world[n].seq /\ world'[n].geo = world[n].geo
                                 /\ world'[n].slaves = world[n].slaves \ gone
  <2>1. world[n] \in Node
    BY DEF IInv, WorldInv
  <2> QED BY <1>1, <2>1, NothingFields, NodeFields
<1>4. WorldInv'
  <2>1. \A n \in Names : Present(n)' <=> Present(n) /\ n \notin gone
    BY <1>2, NothingFields DEF Present
  <2>2. clock' \in Nat /\ clock < clock'
    BY <1>1 DEF Event, IInv, WorldInv
  <2>3. \A n \in Names : world'[n].seq < clock'
    <3> SUFFICES ASSUME NEW n \in Names PROVE world'[n].seq < clock'
      OBVIOUS
    <3>1. world[n].seq \in Nat /\ world[n].seq < clock /\ clock \in Nat
      BY NodeFields DEF IInv, WorldInv
    <3>2. world'[n].seq \in {0, world[n].seq}
      BY <1>2, NothingFields
    <3> QED BY <2>2, <3>1, <3>2
  <2>4. \A n \in Names \ Parts : world'[n].geo = 0
    BY <1>2, NothingFields DEF IInv, WorldInv
  <2>5. \A n \in Names \ Arrays : world'[n].slaves = {}
    BY <1>2, NothingFields DEF IInv, WorldInv
  <2>6. \A m \in Arrays : \A n \in world'[m].slaves : Present(n)'
    <3> SUFFICES ASSUME NEW m \in Arrays, NEW n \in world'[m].slaves PROVE Present(n)'
      OBVIOUS
    <3>1. m \in Names /\ m \notin gone /\ world[m] \in Node
      BY Kinds DEF IInv, WorldInv
    <3>2. n \in world[m].slaves /\ n \notin gone
      BY <1>2, <3>1
    <3>3. n \in Names /\ Present(n)
      BY <3>1, <3>2, NodeFields, Kinds DEF IInv, WorldInv
    <3> QED BY <2>1, <3>2, <3>3
  <2>7. \A p \in Parts : Present(p)' => Present(Parent[p])'
    BY Kinds, <2>1 DEF IInv, WorldInv
  <2>8. \A i \in DOMAIN mounts : mounts[i].on \in Arrays => world'[mounts[i].on].seq # 0
    BY <1>2, Kinds DEF IInv, WorldInv
  <2>9. world' \in [Names -> Node]
    BY <1>1, <1>2
  <2> QED BY <1>1, <2>2, <2>3, <2>4, <2>5, <2>6, <2>7, <2>8, <2>9, Zenon DEF IInv, WorldInv
<1>5. \A n \in Names \ Parts : world'[n].seq \in {world[n].seq, 0, clock}
  BY <1>2, NothingFields
<1>6. \A m \in Arrays : world'[m].slaves \subseteq world[m].slaves
  BY <1>2, Kinds
<1> QED BY <1>1, <1>4, <1>5, <1>6, EventKeeps, Zenon

\* The kernel reads the partition table of a disk again.
LEMMA RereadKeeps == ASSUME IInv, NEW d \in Slots, Reread(d) PROVE IInv'
<1> DEFINE mine == {p \in Parts : Parent[p] = d}
<1>1. /\ world' = [n \in Names |-> IF n \in mine
                                   THEN [Nothing EXCEPT !.geo = KernelGeo(world[d].medium, n)] ELSE world[n]]
      /\ mounts' = mounts /\ swaps' = swaps /\ Event(world', mounts', swaps')
      /\ Present(d) /\ \A p \in mine : ~Claimed(p)
  BY DEF Reread, Event
<1>2. \A n \in Names : n \notin mine => world'[n] = world[n]
  BY <1>1
<1>3. \A p \in mine : world'[p] \in Node /\ world'[p].seq = 0 /\ world'[p].slaves = {}
  <2>1. world[d].medium \in Mediums
    BY Kinds, NodeFields DEF IInv, WorldInv
  <2> SUFFICES ASSUME NEW p \in mine
               PROVE  world'[p] \in Node /\ world'[p].seq = 0 /\ world'[p].slaves = {}
    OBVIOUS
  <2>2. world'[p] = [seq |-> 0, serial |-> "", medium |-> "", geo |-> KernelGeo(world[d].medium, p), slaves |-> {}]
    BY <1>1, Kinds DEF Nothing
  <2>3. KernelGeo(world[d].medium, p) \in Geometries
    BY <2>1 DEF Geometries
  <2> QED BY <2>2, <2>3, PartNode
<1>4. WorldInv'
  <2>1. world' \in [Names -> Node]
    BY <1>1, <1>2, <1>3, Zenon DEF IInv, WorldInv
  <2>2. clock' \in Nat /\ clock < clock'
    BY <1>1 DEF Event, IInv, WorldInv
  <2>3. \A n \in Names : world'[n].seq < clock'
    BY <1>2, <1>3, <2>2, NodeFields DEF IInv, WorldInv
  <2>4. \A n \in Names \ Parts : world'[n].geo = 0
    BY <1>2 DEF IInv, WorldInv
  <2>5. \A n \in Names \ Arrays : world'[n].slaves = {}
    BY <1>2, <1>3 DEF IInv, WorldInv
  <2>6. \A n \in Names : n \notin mine => (Present(n)' <=> Present(n))
    BY <1>2 DEF Present
  <2>7. \A m \in Arrays : \A n \in world'[m].slaves : Present(n)'
    <3> SUFFICES ASSUME NEW m \in Arrays, NEW n \in world[m].slaves PROVE Present(n)'
      BY <1>2, Kinds
    <3>1. n \in Names /\ Present(n) /\ n \notin mine
      BY <1>1, Kinds, ClaimedMember, NodeFields DEF IInv, WorldInv
    <3> QED BY <2>6, <3>1
  <2>8. \A p \in Parts : Present(p)' => Present(Parent[p])'
    <3> SUFFICES ASSUME NEW p \in Parts, Present(p)' PROVE Present(Parent[p])'
      OBVIOUS
    <3>1. Parent[p] \in Names /\ Parent[p] \notin mine
      BY Kinds
    <3>2. Present(Parent[p])
      BY <1>1, <2>6, Kinds DEF IInv, WorldInv
    <3> QED BY <2>6, <3>1, <3>2
  <2>9. \A i \in DOMAIN mounts : mounts[i].on \in Arrays => world'[mounts[i].on].seq # 0
    BY <1>2, Kinds DEF IInv, WorldInv
  <2> QED BY <1>1, <2>1, <2>2, <2>3, <2>4, <2>5, <2>7, <2>8, <2>9, Zenon DEF IInv, WorldInv
<1>5. \A n \in Names \ Parts : world'[n] = world[n]
  BY <1>2
<1> QED BY <1>1, <1>4, <1>5, Kinds, EventKeeps

\* A disk is plugged in where there was none.
LEMMA PlugKeeps == ASSUME IInv, NEW d \in Slots, NEW m \in Media, Plug(d, m) PROVE IInv'
<1> DEFINE mine == {p \in Parts : Parent[p] = d}
<1>1. /\ world' = WithDisk(world, d, clock, m) /\ mounts' = mounts /\ swaps' = swaps
      /\ Event(world', mounts', swaps') /\ ~Present(d)
  BY DEF Plug, Event
<1>2. \A n \in Names : n # d /\ n \notin mine => world'[n] = world[n]
  BY <1>1 DEF WithDisk
<1>3. \A p \in mine : world'[p] \in Node /\ world'[p].seq = 0 /\ world'[p].slaves = {}
  <2> SUFFICES ASSUME NEW p \in Parts, Parent[p] = d
               PROVE  world'[p] \in Node /\ world'[p].seq = 0 /\ world'[p].slaves = {}
    OBVIOUS
  <2>1. world'[p] = [seq |-> 0, serial |-> "", medium |-> "", geo |-> KernelGeo(m, p), slaves |-> {}]
    BY <1>1, Kinds DEF WithDisk, Nothing
  <2>2. KernelGeo(m, p) \in Geometries
    <3>1. m \in Mediums
      BY DEF Mediums
    <3> QED BY <3>1 DEF Geometries
  <2> QED BY <2>1, <2>2, PartNode
<1>4. world'[d] \in Node /\ world'[d].seq = clock /\ world'[d].slaves = {} /\ world'[d].geo = 0
  <2>1. world'[d] = [seq |-> clock, serial |-> Content[m].serial, medium |-> m, geo |-> 0, slaves |-> {}]
    BY <1>1, Kinds DEF WithDisk, Nothing
  <2>2. clock \in Nat
    BY DEF IInv, WorldInv
  <2>3. Content[m].serial \in Serials
    BY DEF Serials
  <2>4. m \in Mediums
    BY DEF Mediums
  <2> QED BY <2>1, <2>2, <2>3, <2>4, DiskNode
<1>5. WorldInv'
  <2>1. world' \in [Names -> Node]
    BY <1>1, <1>2, <1>3, <1>4, Zenon DEF IInv, WorldInv, WithDisk
  <2>2. clock' \in Nat /\ clock < clock' /\ clock # 0
    BY <1>1, Kinds, NodeFields DEF Event, IInv, WorldInv
  <2>3. \A n \in Names : world'[n].seq < clock'
    BY <1>2, <1>3, <1>4, <2>2, NodeFields DEF IInv, WorldInv
  <2>4. \A n \in Names \ Parts : world'[n].geo = 0
    BY <1>2, <1>4 DEF IInv, WorldInv
  <2>5. \A n \in Names \ Arrays : world'[n].slaves = {}
    BY <1>2, <1>3, <1>4 DEF IInv, WorldInv
  <2>6. \A n \in Names : n # d /\ n \notin mine => (Present(n)' <=> Present(n))
    BY <1>2 DEF Present
  <2>7. \A a \in Arrays : \A n \in world'[a].slaves : Present(n)'
    <3> SUFFICES ASSUME NEW a \in Arrays, NEW n \in world[a].slaves PROVE Present(n)'
      BY <1>2, Kinds
    <3>1. n \in Names /\ Present(n) /\ n # d /\ n \notin mine
      BY <1>1, Kinds, NodeFields DEF IInv, WorldInv
    <3> QED BY <2>6, <3>1
  <2>8. \A p \in Parts : Present(p)' => Present(Parent[p])'
    <3> SUFFICES ASSUME NEW p \in Parts, Present(p)' PROVE Present(Parent[p])'
      OBVIOUS
    <3>1. CASE p \in mine
      BY <1>4, <2>2, <3>1 DEF Present
    <3>2. CASE p \notin mine
      <4>1. Parent[p] \in Names /\ Parent[p] # d /\ Parent[p] \notin mine /\ p # d
        BY <3>2, Kinds
      <4>2. Present(Parent[p])
        BY <2>6, <3>2, <4>1, Kinds DEF IInv, WorldInv
      <4> QED BY <2>6, <4>1, <4>2
    <3> QED BY <3>1, <3>2
  <2>9. \A i \in DOMAIN mounts : mounts[i].on \in Arrays => world'[mounts[i].on].seq # 0
    BY <1>2, Kinds DEF IInv, WorldInv
  <2> QED BY <1>1, <2>1, <2>2, <2>3, <2>4, <2>5, <2>7, <2>8, <2>9 DEF IInv, WorldInv
<1>6. \A n \in Names \ Parts : world'[n].seq \in {world[n].seq, 0, clock}
  BY <1>2, <1>4
<1>7. \A a \in Arrays : world'[a].slaves \subseteq world[a].slaves
  BY <1>2, Kinds
<1> QED BY <1>1, <1>5, <1>6, <1>7, EventKeeps

\* Another partition table is written, and nobody reads it yet.
LEMMA RewriteKeeps == ASSUME IInv, NEW d \in Slots, NEW m \in Media, Rewrite(d, m) PROVE IInv'
<1>1. /\ world' = [world EXCEPT ![d].medium = m] /\ mounts' = mounts /\ swaps' = swaps
      /\ Event(world', mounts', swaps')
  BY DEF Rewrite, Event
<1>2. \A n \in Names : /\ world'[n] \in Node /\ world'[n].seq = world[n].seq
                       /\ world'[n].geo = world[n].geo /\ world'[n].slaves = world[n].slaves
  BY <1>1, Kinds, NodeFields DEF IInv, WorldInv
<1>3. WorldInv'
  <2>1. world' \in [Names -> Node]
    BY <1>1, <1>2, Zenon DEF IInv, WorldInv
  <2>2. clock' \in Nat /\ clock < clock'
    BY <1>1 DEF Event, IInv, WorldInv
  <2>3. \A n \in Names : world'[n].seq < clock'
    BY <1>2, <2>2, NodeFields DEF IInv, WorldInv
  <2>4. \A n \in Names : Present(n)' <=> Present(n)
    BY <1>2 DEF Present
  <2>5. \A a \in Arrays : \A n \in world'[a].slaves : Present(n)'
    BY <1>2, <2>4, Kinds, NodeFields DEF IInv, WorldInv
  <2>6. \A p \in Parts : Present(p)' => Present(Parent[p])'
    BY <2>4, Kinds DEF IInv, WorldInv
  <2>7. \A i \in DOMAIN mounts : mounts[i].on \in Arrays => world'[mounts[i].on].seq # 0
    BY <1>2, Kinds DEF IInv, WorldInv
  <2> QED BY <1>1, <1>2, <2>1, <2>2, <2>3, <2>5, <2>6, <2>7 DEF IInv, WorldInv
<1> QED BY <1>1, <1>2, <1>3, Kinds, EventKeeps

\* An array is stopped, which is not in use.
LEMMA StopArrayKeeps == ASSUME IInv, NEW m \in Arrays, StopArray(m) PROVE IInv'
<1>1. /\ world' = [world EXCEPT ![m] = Nothing] /\ mounts' = mounts /\ swaps' = swaps
      /\ Event(world', mounts', swaps') /\ ~Claimed(m)
  BY DEF StopArray, Event
<1>2. \A n \in Names : n # m => world'[n] = world[n]
  BY <1>1 DEF IInv, WorldInv
<1>3. world'[m] = Nothing
  BY <1>1, Kinds DEF IInv, WorldInv
<1>4. WorldInv'
  <2>1. world' \in [Names -> Node]
    BY <1>1, NothingFields, Kinds DEF IInv, WorldInv
  <2>2. clock' \in Nat /\ clock < clock' /\ clock \in Nat
    BY <1>1 DEF Event, IInv, WorldInv
  <2>3. \A n \in Names : world'[n].seq < clock'
    <3> SUFFICES ASSUME NEW n \in Names PROVE world'[n].seq < clock'
      OBVIOUS
    <3>1. world[n].seq \in Nat /\ world[n].seq < clock
      BY NodeFields DEF IInv, WorldInv
    <3>2. world'[n].seq \in {0, world[n].seq}
      BY <1>2, <1>3, NothingFields
    <3> QED BY <2>2, <3>1, <3>2
  <2>4. \A n \in Names \ Parts : world'[n].geo = 0
    BY <1>2, <1>3, NothingFields DEF IInv, WorldInv
  <2>5. \A n \in Names \ Arrays : world'[n].slaves = {}
    BY <1>2, <1>3, NothingFields DEF IInv, WorldInv
  <2>6. \A n \in Slots \cup Parts : n \in Names /\ (Present(n)' <=> Present(n))
    BY <1>2, Kinds DEF Present
  <2>7. \A a \in Arrays : \A n \in world'[a].slaves : Present(n)'
    <3> SUFFICES ASSUME NEW a \in Arrays, NEW n \in world'[a].slaves PROVE Present(n)'
      OBVIOUS
    <3>1. a \in Names /\ world[a] \in Node
      BY Kinds DEF IInv, WorldInv
    <3>2. n \in world[a].slaves
      BY <1>2, <1>3, <3>1, NothingFields
    <3>3. n \in Slots \cup Parts /\ Present(n)
      BY <3>1, <3>2, NodeFields DEF IInv, WorldInv
    <3> QED BY <2>6, <3>3
  <2>8. \A p \in Parts : Present(p)' => Present(Parent[p])'
    BY <2>6, Kinds DEF IInv, WorldInv
  <2>9. \A i \in DOMAIN mounts : mounts[i].on \in Arrays => world'[mounts[i].on].seq # 0
    <3> SUFFICES ASSUME NEW i \in DOMAIN mounts, mounts[i].on \in Arrays PROVE world'[mounts[i].on].seq # 0
      OBVIOUS
    <3>1. mounts[i].on # m
      BY <1>1 DEF Claimed, Kin
    <3> QED BY <1>2, <3>1, Kinds DEF IInv, WorldInv
  <2> QED BY <1>1, <2>1, <2>2, <2>3, <2>4, <2>5, <2>7, <2>8, <2>9 DEF IInv, WorldInv
<1>5. \A n \in Names \ Parts : world'[n].seq \in {world[n].seq, 0, clock}
  BY <1>2, <1>3, NothingFields
<1>6. \A a \in Arrays : world'[a].slaves \subseteq world[a].slaves
  BY <1>2, <1>3, NothingFields, Kinds
<1> QED BY <1>1, <1>4, <1>5, <1>6, EventKeeps

\* An array is assembled of nodes that nothing uses.
LEMMA AssembleKeeps ==
    ASSUME IInv, NEW m \in Arrays, NEW members \in SUBSET (Parts \cup Slots), Assemble(m, members)
    PROVE  IInv'
<1>1. /\ world' = [world EXCEPT ![m] = [Nothing EXCEPT !.seq = clock, !.slaves = members]]
      /\ mounts' = mounts /\ swaps' = swaps /\ Event(world', mounts', swaps')
      /\ ~Present(m) /\ \A n \in members : Present(n)
  BY DEF Assemble, Event
<1>2. \A n \in Names : n # m => world'[n] = world[n]
  BY <1>1 DEF IInv, WorldInv
<1>3. world'[m] \in Node /\ world'[m].seq = clock /\ world'[m].geo = 0 /\ world'[m].slaves = members
  <2>1. world'[m] = [seq |-> clock, serial |-> "", medium |-> "", geo |-> 0, slaves |-> members]
    BY <1>1, Kinds DEF IInv, WorldInv, Nothing
  <2>2. clock \in Nat
    BY DEF IInv, WorldInv
  <2> DEFINE g == world'[m]
  <2>3. g = [seq |-> clock, serial |-> "", medium |-> "", geo |-> 0, slaves |-> members]
    BY <2>1
  <2> HIDE DEF g
  <2>4. g \in Node /\ g.seq = clock /\ g.geo = 0 /\ g.slaves = members
    BY <2>2, <2>3, NothingFields DEF Node
  <2> QED BY <2>4 DEF g
<1>4. WorldInv'
  <2>1. world' \in [Names -> Node]
    BY <1>1, <1>2, <1>3, Kinds DEF IInv, WorldInv
  <2>2. clock' \in Nat /\ clock < clock' /\ clock \in Nat /\ clock # 0
    BY <1>1, Kinds, NodeFields DEF Event, IInv, WorldInv
  <2>3. \A n \in Names : world'[n].seq < clock'
    <3> SUFFICES ASSUME NEW n \in Names PROVE world'[n].seq < clock'
      OBVIOUS
    <3>1. world[n].seq \in Nat /\ world[n].seq < clock
      BY NodeFields DEF IInv, WorldInv
    <3>2. world'[n].seq \in {clock, world[n].seq}
      BY <1>2, <1>3
    <3> QED BY <2>2, <3>1, <3>2
  <2>4. \A n \in Names \ Parts : world'[n].geo = 0
    BY <1>2, <1>3 DEF IInv, WorldInv
  <2>5. \A n \in Names \ Arrays : world'[n].slaves = {}
    BY <1>2 DEF IInv, WorldInv
  <2>6. \A n \in Slots \cup Parts : n \in Names /\ (Present(n)' <=> Present(n))
    BY <1>2, Kinds DEF Present
  <2>7. \A a \in Arrays : \A n \in world'[a].slaves : Present(n)'
    <3> SUFFICES ASSUME NEW a \in Arrays, NEW n \in world'[a].slaves PROVE Present(n)'
      OBVIOUS
    <3>1. a \in Names /\ world[a] \in Node
      BY Kinds DEF IInv, WorldInv
    <3>2. n \in members \/ n \in world[a].slaves
      BY <1>2, <1>3, <3>1
    <3>3. n \in Slots \cup Parts /\ Present(n)
      BY <1>1, <3>1, <3>2, NodeFields DEF IInv, WorldInv
    <3> QED BY <2>6, <3>3
  <2>8. \A p \in Parts : Present(p)' => Present(Parent[p])'
    BY <2>6, Kinds DEF IInv, WorldInv
  <2>9. \A i \in DOMAIN mounts : mounts[i].on \in Arrays => world'[mounts[i].on].seq # 0
    BY <1>2, <1>3, <2>2, Kinds DEF IInv, WorldInv
  <2> QED BY <1>1, <2>1, <2>2, <2>3, <2>4, <2>5, <2>7, <2>8, <2>9 DEF IInv, WorldInv
<1>5. \A n \in Names \ Parts : world'[n].seq \in {world[n].seq, 0, clock}
  BY <1>2, <1>3
<1>6. \A a \in Arrays : world[a].seq # 0 /\ world'[a].seq # 0 => world'[a].slaves \subseteq world[a].slaves
  BY <1>1, <1>2, Kinds DEF Present
<1> QED BY <1>1, <1>4, <1>5, <1>6, EventKeeps

\* Mounts and swap areas change, and the devices do not.
LEMMA UseKeeps ==
    ASSUME IInv, Event(world, mounts', swaps'), mounts' \in Seq([on : Names, multi : BOOLEAN]),
           \A i \in DOMAIN mounts' : mounts'[i].on \in Arrays => world[mounts'[i].on].seq # 0
    PROVE  IInv'
<1>1. world' = world /\ clock' = clock + 1 /\ Event(world', mounts', swaps')
  BY DEF Event
<1>2. WorldInv'
  <2>1. \A n : Present(n)' <=> Present(n)
    BY <1>1 DEF Present
  <2>2. clock' \in Nat /\ \A n \in Names : world'[n].seq < clock'
    BY <1>1, NodeFields DEF IInv, WorldInv
  <2> QED BY <1>1, <2>1, <2>2 DEF IInv, WorldInv
<1> QED BY <1>1, <1>2, EventKeeps

\* Mounting a file system of a node that is there keeps the invariant.
LEMMA MountKeeps == ASSUME IInv, NEW n \in Names, NEW multi \in BOOLEAN, Mount(n, multi) PROVE IInv'
<1> DEFINE e == [on |-> n, multi |-> multi]
<1>1. mounts' = Append(mounts, e) /\ Event(world, mounts', swaps') /\ Present(n)
  BY DEF Mount, Event
<1>2. e \in [on : Names, multi : BOOLEAN] /\ mounts \in Seq([on : Names, multi : BOOLEAN])
  BY DEF IInv, WorldInv
<1>3. n \in Arrays => world[n].seq # 0
  BY <1>1, Kinds DEF Present, IInv, WorldInv
<1>4. \A i \in DOMAIN mounts' : mounts'[i] = e \/ (i \in DOMAIN mounts /\ mounts'[i] = mounts[i])
  BY <1>1, <1>2
<1>5. mounts' \in Seq([on : Names, multi : BOOLEAN])
  BY <1>1, <1>2
<1>6. \A i \in DOMAIN mounts' : mounts'[i].on \in Arrays => world[mounts'[i].on].seq # 0
  BY <1>3, <1>4 DEF IInv, WorldInv
<1> QED BY <1>1, <1>5, <1>6, UseKeeps

\* So does unmounting, which leaves the other entries of the table in their order.
LEMMA UnmountKeeps == ASSUME IInv, NEW i \in DOMAIN mounts, Unmount(i) PROVE IInv'
<1> DEFINE M == [on : Names, multi : BOOLEAN]
           n == Len(mounts) - 1
           at(j) == IF j < i THEN j ELSE j + 1
<1>1. mounts' = [j \in 1..n |-> mounts[at(j)]] /\ Event(world, mounts', swaps')
  BY DEF Unmount, Event
<1>2. mounts \in Seq(M)
  BY DEF IInv, WorldInv
<1> HIDE DEF M
<1>3. n \in Nat /\ \A j \in 1..n : at(j) \in DOMAIN mounts
  BY <1>2
<1> HIDE DEF n, at
<1>4. mounts' \in Seq(M) /\ DOMAIN mounts' = 1..n
  <2>1. \A j \in 1..n : mounts[at(j)] \in M
    BY <1>2, <1>3
  <2> QED BY <1>1, <1>3, <2>1
<1>5. \A j \in DOMAIN mounts' : mounts'[j].on \in Arrays => world[mounts'[j].on].seq # 0
  BY <1>1, <1>3, <1>4 DEF IInv, WorldInv
<1> QED BY <1>1, <1>4, <1>5, UseKeeps DEF M

\* So does turning a swap area on or off.
LEMMA SwapKeeps == ASSUME IInv, NEW n, SwapOn(n) \/ SwapOff(n) PROVE IInv'
<1>1. mounts' = mounts /\ Event(world, mounts', swaps')
  BY DEF SwapOn, SwapOff, Event
<1> QED BY <1>1, UseKeeps DEF IInv, WorldInv

\* Every change the administrator or the kernel makes keeps the invariant.
LEMMA EnvironmentKeeps == ASSUME IInv, Environment PROVE IInv'
BY UnplugKeeps, RereadKeeps, PlugKeeps, RewriteKeeps, StopArrayKeeps, AssembleKeeps, MountKeeps, UnmountKeeps,
   SwapKeeps DEF Environment
-----------------------------------------------------------------------------
(* The observation goes on.                                                *)

\* A step of the observation changes nothing of the machine.
LEMMA MachineSame == ASSUME IInv, UNCHANGED Machine PROVE WorldInv'
BY DEF IInv, Machine, WorldInv, Present

\* An observation that holds nothing: refused, answered or just begun.
LEMMA QuietKeeps ==
    ASSUME IInv, UNCHANGED Machine, held' \in SUBSET held, NEW o, NEW c, NEW t,
           c \notin Collecting \cup {"open", "accepted"},
           s' = [op |-> o, pc |-> c, stage |-> t, todo |-> {}, seen |-> <<>>, tab |-> <<>>, inv |-> <<>>,
                 mnt |-> <<>>, fds |-> <<>>, tables |-> <<>>, comps |-> <<>>, report |-> <<>>]
    PROVE  IInv'
<1>1. s'.pc = c /\ s'.inv = <<>> /\ s'.seen = <<>> /\ s'.fds = <<>> /\ s' = [f \in Fields |-> s'[f]]
  BY Zenon DEF Fields
<1>2. PlanInv'
  <2>1. Shape(<<>>, clock')
    BY DEF Shape
  <2>2. s'.pc # "first" /\ s'.pc # "open" /\ DOMAIN s'.fds = {}
    BY <1>1 DEF Collecting
  <2> QED BY <1>1, <2>1, <2>2 DEF PlanInv
<1>3. GenerationInv'
  BY <1>1 DEF GenerationInv, InventoryCoexisted
<1>4. HeldInv'
  BY <1>1 DEF IInv, HeldInv, Machine, Lasting, Collecting
<1> QED BY <1>2, <1>3, <1>4, MachineSame DEF IInv

\* A refusal keeps nothing of what was read.
LEMMA RefusedKeeps == ASSUME IInv, UNCHANGED Machine, held' = held, s' = Refused PROVE IInv'
<1>1. s' = [op |-> s.op, pc |-> "refused", stage |-> 0, todo |-> {}, seen |-> <<>>, tab |-> <<>>, inv |-> <<>>,
            mnt |-> <<>>, fds |-> <<>>, tables |-> <<>>, comps |-> <<>>, report |-> <<>>]
  BY Zenon DEF Refused, Idle
<1>2. "refused" \notin Collecting \cup {"open", "accepted"} /\ held' \in SUBSET held
  BY DEF Collecting
<1> QED BY <1>1, <1>2, QuietKeeps

\* The first listing.
LEMMA ListKeeps == ASSUME IInv, List PROVE IInv'
<1>1. /\ s.pc = "list" /\ UNCHANGED Machine /\ s = [f \in Fields |-> s[f]]
      /\ s' = [s EXCEPT !.pc = "first", !.todo = Listed, !.seen = <<>>] /\ held' = Uses(world, mounts, swaps)
  BY DEF List, Go, IInv, PlanInv
<1>2. /\ s'.pc = "first" /\ s'.todo = Listed /\ s'.seen = <<>> /\ s'.inv = s.inv /\ s'.mnt = s.mnt
      /\ s'.fds = s.fds /\ s'.stage = s.stage /\ s' = [f \in Fields |-> s'[f]]
  BY <1>1, Zenon DEF Fields
<1>3. PlanInv'
  <2>1. Shape(<<>>, clock')
    BY DEF Shape
  <2> QED BY <1>1, <1>2, <2>1 DEF PlanInv, IInv, Machine, Listed
<1>4. GenerationInv'
  BY <1>2 DEF GenerationInv, InventoryCoexisted
<1>5. HeldInv'
  <2> SUFFICES ASSUME NEW u \in held' PROVE Lasting(u)'
    BY <1>1 DEF HeldInv, Machine
  <2> QED BY <1>2 DEF Lasting
<1> QED BY <1>1, <1>3, <1>4, <1>5, MachineSame DEF IInv

\* A node of the first pass is as the kernel has it.
LEMMA ObservedShape == ASSUME IInv, NEW n \in Names, Present(n) PROVE ShapeOf(Observed(n), n, clock)
<1>1. world[n] \in Node /\ world[n].seq \in Nat /\ world[n].seq < clock
  BY NodeFields DEF IInv, WorldInv
<1>2. n \notin Parts => world[n].seq # 0
  BY DEF Present, IInv, WorldInv
<1>3. world[n].slaves \subseteq IF n \in Arrays THEN Slots \cup Parts ELSE {}
  BY <1>1, NodeFields DEF IInv, WorldInv
<1> QED BY <1>1, <1>2, <1>3 DEF ShapeOf, Observed

\* The first pass of the collection reads a node, or the listing is exhausted.
LEMMA FirstPassKeeps == ASSUME IInv, FirstPass PROVE IInv'
<1>1. s.pc = "first" /\ UNCHANGED Machine /\ held' = held /\ s = [f \in Fields |-> s[f]]
  BY DEF FirstPass, Go, IInv, PlanInv
<1>2. CASE s' = Refused
  BY <1>1, <1>2, RefusedKeeps
<1>3. ASSUME NEW n \in s.todo, Present(n), mid' = mid,
             s' = [s EXCEPT !.seen = With(@, n, Observed(n)), !.todo = @ \ {n}]
      PROVE  IInv'
  <2>1. /\ s'.pc = "first" /\ s'.todo = s.todo \ {n} /\ s'.seen = With(s.seen, n, Observed(n)) /\ s'.inv = s.inv
        /\ s'.mnt = s.mnt /\ s'.fds = s.fds /\ s'.stage = s.stage /\ s' = [f \in Fields |-> s'[f]]
    BY <1>1, <1>3, Zenon DEF Fields
  <2>2. n \in Names
    BY <1>1 DEF IInv, PlanInv
  <2>3. DOMAIN s'.seen = DOMAIN s.seen \cup {n} /\ s'.seen[n] = Observed(n)
        /\ \A m \in DOMAIN s.seen : m # n => s'.seen[m] = s.seen[m]
    BY <2>1 DEF With
  <2>4. PlanInv'
    <3>1. Shape(s'.seen, clock')
      BY <1>1, <1>3, <2>2, <2>3, ObservedShape, Zenon DEF Shape, IInv, PlanInv, Machine
    <3> QED BY <1>1, <2>1, <3>1 DEF PlanInv, IInv, Machine
  <2>5. GenerationInv'
    BY <2>1 DEF GenerationInv, InventoryCoexisted
  <2>6. HeldInv'
    <3> SUFFICES ASSUME NEW u \in held, u.by # "swap", u.on \in Arrays \cap DOMAIN s'.seen
                 PROVE  world[u.on].slaves \subseteq s'.seen[u.on].slaves
      BY <1>1, <2>1 DEF HeldInv, IInv, Lasting, Machine
    <3>1. CASE u.on = n
      BY <2>3, <3>1 DEF Observed
    <3>2. CASE u.on # n
      BY <1>1, <2>3, <3>2 DEF HeldInv, IInv, Lasting, Collecting
    <3> QED BY <3>1, <3>2
  <2> QED BY <1>1, <2>4, <2>5, <2>6, MachineSame DEF IInv
<1>4. ASSUME s' = [s EXCEPT !.pc = "second", !.todo = DOMAIN s.seen],
             mid' = [d \in DOMAIN s.seen \ Parts |-> world[d].seq]
      PROVE  IInv'
  <2>1. /\ s'.pc = "second" /\ s'.todo = DOMAIN s.seen /\ s'.seen = s.seen /\ s'.inv = s.inv /\ s'.mnt = s.mnt
        /\ s'.fds = s.fds /\ s'.stage = s.stage /\ s' = [f \in Fields |-> s'[f]]
    BY <1>1, <1>4, Zenon DEF Fields
  <2>2. PlanInv'
    BY <1>1, <2>1 DEF PlanInv, IInv, Machine
  <2>3. GenerationInv'
    BY <1>1, <1>4, <2>1 DEF GenerationInv, InventoryCoexisted, Machine
  <2>4. HeldInv'
    BY <1>1, <2>1 DEF HeldInv, IInv, Lasting, Machine, Collecting
  <2> QED BY <1>1, <2>2, <2>3, <2>4, MachineSame DEF IInv
<1> QED BY <1>2, <1>3, <1>4 DEF FirstPass

\* The second pass compares the generation of a node with the one first read.
LEMMA SecondPassKeeps == ASSUME IInv, SecondPass PROVE IInv'
<1>1. s.pc = "second" /\ UNCHANGED Machine /\ held' = held /\ mid' = mid /\ s = [f \in Fields |-> s[f]]
  BY DEF SecondPass, Go, IInv, PlanInv
<1>2. CASE s' = Refused
  BY <1>1, <1>2, RefusedKeeps
<1>3. ASSUME NEW c \in {"second", "relist"}, NEW S \in SUBSET s.todo, s' = [s EXCEPT !.pc = c, !.todo = S],
             c = "relist" => s.todo = {}, \A n \in s.todo \ S : world[n].seq = s.seen[n].seq
      PROVE  IInv'
  <2>1. /\ s'.pc = c /\ s'.todo = S /\ s'.seen = s.seen /\ s'.inv = s.inv /\ s'.mnt = s.mnt
        /\ s'.fds = s.fds /\ s'.stage = s.stage /\ s' = [f \in Fields |-> s'[f]]
    BY <1>1, <1>3, Zenon DEF Fields
  <2>2. PlanInv'
    BY <1>1, <1>3, <2>1 DEF PlanInv, IInv, Machine
  <2>3. GenerationInv'
    <3>1. /\ DOMAIN mid = DOMAIN s.seen \ Parts
          /\ \A d \in DOMAIN mid : mid[d] = s.seen[d].seq \/ (d \in s.todo /\ world[d].seq # s.seen[d].seq)
      BY <1>1 DEF IInv, GenerationInv, Collecting
    <3>2. \A d \in DOMAIN mid : \/ mid[d] = s.seen[d].seq
                                \/ c = "second" /\ d \in S /\ world[d].seq # s.seen[d].seq
      BY <1>3, <3>1
    <3> QED BY <1>1, <1>3, <2>1, <3>1, <3>2 DEF GenerationInv, InventoryCoexisted, Machine
  <2>4. HeldInv'
    BY <1>1, <1>3, <2>1 DEF HeldInv, IInv, Lasting, Machine, Collecting
  <2> QED BY <1>1, <2>2, <2>3, <2>4, MachineSame DEF IInv
<1>4. ASSUME NEW n \in s.todo, Observed(n) = s.seen[n], s' = [s EXCEPT !.todo = @ \ {n}] PROVE IInv'
  <2>1. s' = [s EXCEPT !.pc = "second", !.todo = s.todo \ {n}]
    BY <1>1, <1>4, Zenon DEF Fields
  <2>2. world[n].seq = s.seen[n].seq
    BY <1>4 DEF Observed
  <2> QED BY <1>3, <2>1, <2>2
<1>5. ASSUME s.todo = {}, s' = [s EXCEPT !.pc = "relist"] PROVE IInv'
  <2>1. s' = [s EXCEPT !.pc = "relist", !.todo = s.todo]
    BY <1>1, <1>5, Zenon DEF Fields
  <2> QED BY <1>3, <1>5, <2>1
<1> QED BY <1>2, <1>4, <1>5 DEF SecondPass

\* The collection ends: the second listing, the mount table and the swap table.
LEMMA RelistKeeps == ASSUME IInv, Relist PROVE IInv'
<1>1. s.pc = "relist" /\ UNCHANGED Machine /\ held' = held /\ mid' = mid /\ s = [f \in Fields |-> s[f]]
  BY DEF Relist, Go, IInv, PlanInv
<1>2. CASE s' = Refused
  BY <1>1, <1>2, RefusedKeeps
<1>3. ASSUME Listed = DOMAIN s.seen, s' = [s EXCEPT !.pc = "mounts"] PROVE IInv'
  <2>1. /\ s'.pc = "mounts" /\ s'.todo = s.todo /\ s'.seen = s.seen /\ s'.inv = s.inv /\ s'.mnt = s.mnt
        /\ s'.fds = s.fds /\ s'.stage = s.stage /\ s' = [f \in Fields |-> s'[f]]
    BY <1>1, <1>3 DEF Fields
  <2>2. PlanInv'
    BY <1>1, <2>1 DEF PlanInv, IInv, Machine
  <2>3. GenerationInv'
    BY <1>1, <2>1 DEF GenerationInv, IInv, InventoryCoexisted, Machine, Collecting
  <2>4. HeldInv'
    <3>1. \A u \in held : u.by = "array" => u.on \in DOMAIN s.seen
      <4> SUFFICES ASSUME NEW u \in held, u.by = "array" PROVE u.on \in Listed
        BY <1>3
      <4>1. u \in Uses(world, mounts, swaps)
        BY DEF IInv, HeldInv
      <4>2. u.on \in Arrays /\ world[u.on].seq # 0
        BY <4>1 DEF Uses
      <4> QED BY <4>2, Kinds DEF Listed, Present
    <3> QED BY <1>1, <2>1, <3>1 DEF HeldInv, IInv, Lasting, Machine, Collecting
  <2> QED BY <1>1, <2>2, <2>3, <2>4, MachineSame DEF IInv
<1> QED BY <1>2, <1>3 DEF Relist

\* The mount table is read after the second listing.
LEMMA CollectMountsKeeps == ASSUME IInv, CollectMounts PROVE IInv'
<1>1. /\ s.pc = "mounts" /\ UNCHANGED Machine /\ held' = held /\ mid' = mid /\ s = [f \in Fields |-> s[f]]
      /\ s' = [s EXCEPT !.pc = "swap", !.tab = mounts]
  BY DEF CollectMounts, Go, IInv, PlanInv
<1>2. /\ s'.pc = "swap" /\ s'.todo = s.todo /\ s'.seen = s.seen /\ s'.inv = s.inv /\ s'.mnt = s.mnt /\ s'.tab = mounts
      /\ s'.fds = s.fds /\ s'.stage = s.stage /\ s' = [f \in Fields |-> s'[f]]
  BY <1>1, Zenon DEF Fields
<1>3. PlanInv'
  BY <1>1, <1>2 DEF PlanInv, IInv, Machine
<1>4. GenerationInv'
  BY <1>1, <1>2 DEF GenerationInv, IInv, InventoryCoexisted, Machine, Collecting
<1>5. HeldInv'
  <2>1. \A u \in held : u.by = "mount" => \E i \in DOMAIN mounts : mounts[i].on = u.on
    <3> SUFFICES ASSUME NEW u \in held, u.by = "mount" PROVE \E i \in DOMAIN mounts : mounts[i].on = u.on
      OBVIOUS
    <3>1. u \in Uses(world, mounts, swaps)
      BY DEF IInv, HeldInv
    <3> QED BY <3>1 DEF Uses
  <2> SUFFICES ASSUME NEW u \in held PROVE Lasting(u)'
    BY <1>1 DEF HeldInv, IInv, Machine
  <2>2. Lasting(u) /\ (u.by = "mount" => \E i \in DOMAIN mounts : mounts[i].on = u.on)
    BY <2>1 DEF HeldInv, IInv
  <2>3. u.by = "mount" => \E i \in DOMAIN s'.tab : s'.tab[i].on = u.on
    BY <1>2, <2>2
  <2>4. /\ u.by # "swap" /\ u.on \in Arrays \cap DOMAIN s.seen => world[u.on].slaves \subseteq s.seen[u.on].slaves
        /\ u.by = "array" => u.on \in DOMAIN s.seen
    BY <1>1, <2>2 DEF Lasting, Collecting
  <2> QED BY <1>1, <1>2, <2>3, <2>4 DEF Lasting, Machine
<1> QED BY <1>1, <1>3, <1>4, <1>5, MachineSame DEF IInv

\* The first collection gives the plan.
LEMMA PlanKeeps ==
    ASSUME IInv, UNCHANGED Machine, held' = held, mid' = mid, s.pc = "swap", s.stage = 1, s' = Plan
    PROVE  IInv'
<1>1. s = [f \in Fields |-> s[f]]
  BY DEF IInv, PlanInv
<1>2. CASE s' = Refused
  BY <1>2, RefusedKeeps
<1>3. ASSUME s' = [s EXCEPT !.pc = "open", !.inv = s.seen, !.mnt = s.tab, !.seen = <<>>, !.tab = <<>>,
                            !.todo = Candidates(s.seen, s.tab)]
      PROVE  IInv'
  <2>1. /\ s'.pc = "open" /\ s'.todo = Candidates(s.seen, s.tab) /\ s'.seen = <<>> /\ s'.inv = s.seen
        /\ s'.mnt = s.tab /\ s'.fds = s.fds /\ s'.stage = s.stage /\ s' = [f \in Fields |-> s'[f]]
    BY <1>1, <1>3, Zenon DEF Fields
  <2>2. PlanInv'
    <3>1. Shape(<<>>, clock')
      BY DEF Shape
    <3>2. DOMAIN s.fds = {}
      BY DEF IInv, PlanInv
    <3> QED BY <2>1, <3>1, <3>2 DEF PlanInv, IInv, Machine
  <2>3. GenerationInv'
    BY <2>1 DEF GenerationInv, InventoryCoexisted, Collecting
  <2>4. HeldInv'
    BY <2>1 DEF HeldInv, IInv, Lasting, Machine, Collecting
  <2> QED BY <2>2, <2>3, <2>4, MachineSame DEF IInv
<1> QED BY <1>2, <1>3 DEF Plan

\* The next collection or the next reading begins, of what was planned and opened.
LEMMA AgainKeeps ==
    ASSUME IInv, UNCHANGED Machine, held' = held, NEW stage \in {2, 3, 4}, NEW c \in {"list", "probe", "inspect"},
           s' = Again(stage, c)
    PROVE  IInv'
<1>1. /\ s'.pc = c /\ s'.stage = stage /\ s'.seen = <<>> /\ s'.inv = s.inv /\ s'.mnt = s.mnt /\ s'.fds = s.fds
      /\ s' = [f \in Fields |-> s'[f]]
  <2> DEFINE r == Again(stage, c)
  <2>1. /\ r.pc = c /\ r.stage = stage /\ r.seen = <<>> /\ r.inv = s.inv /\ r.mnt = s.mnt /\ r.fds = s.fds
        /\ r = [f \in Fields |-> r[f]]
    <3>1. s = [f \in Fields |-> s[f]]
      BY DEF IInv, PlanInv
    <3> QED BY <3>1, Zenon DEF Again, Fields
  <2> HIDE DEF r
  <2> QED BY <2>1 DEF r
<1>2. PlanInv'
  <2>1. Shape(<<>>, clock')
    BY DEF Shape
  <2> QED BY <1>1, <2>1 DEF PlanInv, IInv, Machine
<1>3. GenerationInv'
  BY <1>1 DEF GenerationInv, InventoryCoexisted, Collecting
<1>4. HeldInv'
  BY <1>1 DEF HeldInv, IInv, Lasting, Machine, Collecting
<1> QED BY <1>2, <1>3, <1>4, MachineSame DEF IInv

\* The last collection repeats the first, with no swap: the answer is given.
LEMMA AcceptedKeeps ==
    ASSUME IInv, UNCHANGED Machine, held' = held, mid' = mid, s.pc = "swap", swaps = {}, s.seen = s.inv, s.tab = s.mnt,
           NEW stage \in {2, 3, 4}, s' = Accepted(stage)
    PROVE  IInv'
<1>1. /\ s'.pc = "accepted" /\ s'.stage = stage /\ s'.seen = <<>> /\ s'.inv = s.inv /\ s'.mnt = s.mnt /\ s'.fds = s.fds
      /\ s' = [f \in Fields |-> s'[f]]
  <2>1. s = [f \in Fields |-> s[f]]
    BY DEF IInv, PlanInv
  <2>2. PICK x : s' = [Again(stage, "accepted") EXCEPT !.report = x]
    BY Zenon DEF Accepted
  <2> DEFINE r == Again(stage, "accepted")
  <2>3. /\ r.pc = "accepted" /\ r.stage = stage /\ r.seen = <<>> /\ r.inv = s.inv /\ r.mnt = s.mnt /\ r.fds = s.fds
        /\ r = [f \in Fields |-> r[f]]
    BY <2>1, Zenon DEF Again, Fields
  <2> HIDE DEF r
  <2>4. s' = [r EXCEPT !.report = x]
    BY <2>2 DEF r
  <2> QED BY <2>3, <2>4 DEF Fields
<1>2. PlanInv'
  <2>1. Shape(<<>>, clock')
    BY DEF Shape
  <2> QED BY <1>1, <2>1 DEF PlanInv, IInv, Machine
<1>3. GenerationInv'
  <2>1. DOMAIN mid = DOMAIN s.inv \ Parts /\ \A d \in DOMAIN mid : mid[d] = s.inv[d].seq
    BY DEF IInv, GenerationInv, Collecting
  <2>2. \A d \in Disks(s.inv) : d \in DOMAIN s.inv \ Parts
    BY DEF Disks, IInv, PlanInv, Shape, ShapeOf
  <2> QED BY <1>1, <2>1, <2>2 DEF GenerationInv, InventoryCoexisted, Collecting
<1>4. HeldInv'
  <2> SUFFICES ASSUME NEW u \in held PROVE Lasting(u)'
    BY DEF HeldInv, IInv, Machine
  <2>1. Lasting(u) /\ u \in Uses(world, mounts, swaps)
    BY DEF HeldInv, IInv
  <2>2. u.by # "swap"
    BY <2>1 DEF Uses
  <2> QED BY <1>1, <2>1, <2>2 DEF Lasting, Machine, Collecting
<1> QED BY <1>2, <1>3, <1>4, MachineSame DEF IInv

\* The swap table is read last: the collection is planned from, refused or compared.
LEMMA CollectSwapKeeps == ASSUME IInv, CollectSwap PROVE IInv'
<1>1. s.pc = "swap" /\ UNCHANGED Machine /\ held' = held /\ mid' = mid
  BY DEF CollectSwap, Go
<1>2. CASE s' = Refused
  BY <1>1, <1>2, RefusedKeeps
<1>3. CASE s.stage = 1 /\ s' = Plan
  BY <1>1, <1>3, PlanKeeps
<1>4. ASSUME swaps = {}, s.seen = s.inv, s.tab = s.mnt, s' = Resume PROVE IInv'
  <2>1. \/ s' = Refused
        \/ \E stage \in {2, 3, 4} : s' = Accepted(stage)
        \/ \E stage \in {2, 3, 4}, c \in {"list", "probe", "inspect"} : s' = Again(stage, c)
    BY <1>4 DEF Resume
  <2> QED BY <1>1, <1>2, <1>4, <2>1, AcceptedKeeps, AgainKeeps
<1> QED BY <1>2, <1>3, <1>4 DEF CollectSwap

\* The candidates are opened, and read.
LEMMA OpenSourceKeeps == ASSUME IInv, OpenSource PROVE IInv'
<1>1. s.pc = "open" /\ UNCHANGED Machine /\ held' = held /\ s = [f \in Fields |-> s[f]]
  BY DEF OpenSource, Go, IInv, PlanInv
<1>2. CASE s' = Refused
  BY <1>1, <1>2, RefusedKeeps
<1>3. CASE s' = Again(2, "list")
  BY <1>1, <1>3, AgainKeeps
<1>4. ASSUME NEW d \in s.todo, s' = [s EXCEPT !.todo = @ \ {d}, !.fds = With(@, d, world[d].seq)] PROVE IInv'
  <2>1. /\ s'.pc = "open" /\ s'.todo = s.todo \ {d} /\ s'.seen = s.seen /\ s'.inv = s.inv /\ s'.mnt = s.mnt
        /\ s'.fds = With(s.fds, d, world[d].seq) /\ s'.stage = s.stage /\ s' = [f \in Fields |-> s'[f]]
    BY <1>1, <1>4, Zenon DEF Fields
  <2>2. DOMAIN s'.fds = DOMAIN s.fds \cup {d}
    BY <2>1 DEF With
  <2>3. PlanInv'
    BY <1>1, <2>1, <2>2 DEF PlanInv, IInv, Machine
  <2>4. GenerationInv'
    BY <2>1 DEF GenerationInv, InventoryCoexisted, Collecting
  <2>5. HeldInv'
    BY <1>1, <2>1 DEF HeldInv, IInv, Lasting, Machine, Collecting
  <2> QED BY <1>1, <2>3, <2>4, <2>5, MachineSame DEF IInv
<1> QED BY <1>2, <1>3, <1>4 DEF OpenSource

\* Reading a disk or a superblock through its descriptor changes no part of the plan.
LEMMA ReadKeeps == ASSUME IInv, Probe \/ Inspect PROVE IInv'
<1>1. s.pc \in {"probe", "inspect"} /\ UNCHANGED Machine /\ held' = held /\ s = [f \in Fields |-> s[f]]
  BY DEF Probe, Inspect, Go, IInv, PlanInv
<1>2. CASE s' = Refused
  BY <1>1, <1>2, RefusedKeeps
<1>3. ASSUME s'.pc \in {s.pc, "list"}, s'.inv = s.inv, s'.seen = s.seen, s'.mnt = s.mnt, s'.fds = s.fds,
             s'.stage = s.stage, s' = [f \in Fields |-> s'[f]]
      PROVE  IInv'
  <2>1. PlanInv'
    BY <1>1, <1>3 DEF PlanInv, IInv, Machine
  <2>2. GenerationInv'
    BY <1>1, <1>3 DEF GenerationInv, InventoryCoexisted, Collecting
  <2>3. HeldInv'
    BY <1>1, <1>3 DEF HeldInv, IInv, Lasting, Machine, Collecting
  <2> QED BY <1>1, <2>1, <2>2, <2>3, MachineSame DEF IInv
<1>4. ASSUME NEW S, NEW x, s' = [s EXCEPT !.todo = S, !.tables = x] PROVE IInv'
  BY <1>1, <1>3, <1>4, Zenon DEF Fields
<1>5. ASSUME NEW S, NEW x, s' = [s EXCEPT !.todo = S, !.comps = x] PROVE IInv'
  BY <1>1, <1>3, <1>5, Zenon DEF Fields
<1>6. ASSUME s' = [s EXCEPT !.pc = "list"] PROVE IInv'
  BY <1>1, <1>3, <1>6 DEF Fields
<1> QED BY <1>2, <1>4, <1>5, <1>6 DEF Probe, Inspect

\* Every step of the observation keeps the invariant.
LEMMA ObservationKeeps == ASSUME IInv, Observation PROVE IInv'
<1>1. ASSUME NEW op, Request(op) PROVE IInv'
  <2>1. s' = [op |-> op, pc |-> "list", stage |-> 1, todo |-> {}, seen |-> <<>>, tab |-> <<>>, inv |-> <<>>,
              mnt |-> <<>>, fds |-> <<>>, tables |-> <<>>, comps |-> <<>>, report |-> <<>>]
    BY <1>1, Zenon DEF Request, Idle
  <2>2. "list" \notin Collecting \cup {"open", "accepted"} /\ held' \in SUBSET held /\ UNCHANGED Machine
    BY <1>1 DEF Collecting, Request, Go
  <2> QED BY <2>1, <2>2, QuietKeeps
<1>2. CASE Answered
  <2>1. s' = [op |-> "none", pc |-> "idle", stage |-> 0, todo |-> {}, seen |-> <<>>, tab |-> <<>>, inv |-> <<>>,
              mnt |-> <<>>, fds |-> <<>>, tables |-> <<>>, comps |-> <<>>, report |-> <<>>]
    BY <1>2 DEF Answered, Idle
  <2>2. "idle" \notin Collecting \cup {"open", "accepted"} /\ held' \in SUBSET held /\ UNCHANGED Machine
    BY <1>2 DEF Collecting, Answered
  <2> QED BY <2>1, <2>2, QuietKeeps
<1>3. CASE Fails
  BY <1>3, RefusedKeeps DEF Fails
<1> QED BY <1>1, <1>2, <1>3, ListKeeps, FirstPassKeeps, SecondPassKeeps, RelistKeeps, CollectMountsKeeps,
           CollectSwapKeeps, OpenSourceKeeps, ReadKeeps DEF Observation
-----------------------------------------------------------------------------
(* The theorems.                                                           *)

\* The machine as it is found at the start.
LEMMA InitWorld == ASSUME NEW store \in Stores, world = Found(store), mounts = <<>>, clock = Cardinality(Names) + 1
                   PROVE  WorldInv
<1>1. Cardinality(Names) \in Nat /\ clock \in Nat /\ store \in [Slots -> Media]
  BY ScanAssumption
<1>2. ASSUME NEW n \in Slots
      PROVE  world[n] \in Node /\ world[n].seq = Rank[n] /\ world[n].geo = 0 /\ world[n].slaves = {}
  <2>1. world[n] = [seq |-> Rank[n], serial |-> Content[store[n]].serial, medium |-> store[n], geo |-> 0, slaves |-> {}]
    BY Kinds DEF Found, Nothing
  <2>2. Rank[n] \in Nat /\ store[n] \in Media
    BY <1>1, Kinds, ScanAssumption
  <2>3. Content[store[n]].serial \in Serials
    BY <2>2 DEF Serials
  <2>4. store[n] \in Mediums
    BY <2>2 DEF Mediums
  <2> QED BY <2>1, <2>2, <2>3, <2>4, DiskNode
<1>3. ASSUME NEW p \in Parts PROVE world[p] \in Node /\ world[p].seq = 0 /\ world[p].slaves = {}
  <2>1. world[p] = [seq |-> 0, serial |-> "", medium |-> "", geo |-> KernelGeo(store[Parent[p]], p), slaves |-> {}]
    BY Kinds DEF Found, Nothing
  <2>2. store[Parent[p]] \in Mediums
    BY <1>1, ScanAssumption DEF Mediums
  <2>3. KernelGeo(store[Parent[p]], p) \in Geometries
    BY <2>2 DEF Geometries
  <2> QED BY <2>1, <2>3, PartNode
<1>4. ASSUME NEW m \in Arrays PROVE world[m] = Nothing
  BY Kinds DEF Found
<1>5. \A n \in Names : n \in Slots \/ n \in Parts \/ n \in Arrays
  BY DEF Names
<1>6. world \in [Names -> Node]
  BY <1>2, <1>3, <1>4, <1>5, NothingFields DEF Found
<1>7. \A n \in Names : world[n].seq < clock
  <2>1. \A n \in Slots : Rank[n] \in 1..Cardinality(Names)
    BY Kinds, ScanAssumption
  <2>2. \A n \in Slots : world[n].seq < clock
    BY <1>1, <1>2, <2>1
  <2>3. \A n \in Parts \cup Arrays : world[n].seq < clock
    <3>1. \A n \in Parts \cup Arrays : world[n].seq = 0
      BY <1>3, <1>4, NothingFields
    <3>2. 0 < clock
      BY <1>1
    <3> QED BY <3>1, <3>2
  <2> QED BY <1>5, <2>2, <2>3
<1>8. \A n \in Names \ Parts : world[n].geo = 0
  BY <1>2, <1>4, <1>5, NothingFields
<1>9. \A n \in Names : world[n].slaves = {}
  BY <1>2, <1>3, <1>4, <1>5, NothingFields
<1>10. \A p \in Parts : Present(Parent[p])
  <2> SUFFICES ASSUME NEW p \in Parts PROVE Present(Parent[p])
    OBVIOUS
  <2>1. Parent[p] \in Slots /\ Rank[Parent[p]] # 0
    BY Kinds, ScanAssumption
  <2> QED BY <1>2, <2>1 DEF Present
<1>11. mounts \in Seq([on : Names, multi : BOOLEAN]) /\ DOMAIN mounts = {}
  OBVIOUS
<1> QED BY <1>1, <1>6, <1>7, <1>8, <1>9, <1>10, <1>11, Kinds DEF WorldInv

\* Nothing is being observed at the start.
LEMMA InitKeeps == ASSUME Init PROVE IInv
<1>1. WorldInv
  BY InitWorld DEF Init
<1>2. s.pc = "idle" /\ s.inv = <<>> /\ s.seen = <<>> /\ s.fds = <<>> /\ s = [f \in Fields |-> s[f]] /\ held = {}
  BY DEF Init, Idle, Fields
<1>3. PlanInv
  <2>1. Shape(<<>>, clock)
    BY DEF Shape
  <2> QED BY <1>2, <2>1 DEF PlanInv
<1>4. GenerationInv /\ HeldInv
  BY <1>2 DEF GenerationInv, InventoryCoexisted, HeldInv, Collecting
<1> QED BY <1>1, <1>3, <1>4 DEF IInv

\* The invariant holds of every behaviour, whatever the machine does meanwhile.
LEMMA Inductive == Spec => []IInv
<1>1. Init => IInv
  BY InitKeeps
<1>2. IInv /\ [Next]_vars => IInv'
  <2> SUFFICES ASSUME IInv, [Next]_vars PROVE IInv'
    OBVIOUS
  <2>1. CASE UNCHANGED vars
    <3>1. UNCHANGED Machine /\ s' = s /\ mid' = mid /\ held' = held /\ world' = world /\ clock' = clock
      BY <2>1 DEF vars, Machine
    <3>2. PlanInv'
      BY <3>1 DEF IInv, PlanInv
    <3>3. GenerationInv'
      BY <3>1 DEF IInv, GenerationInv, InventoryCoexisted
    <3>4. HeldInv'
      BY <3>1 DEF IInv, HeldInv, Lasting, Machine
    <3> QED BY <3>1, <3>2, <3>3, <3>4, MachineSame DEF IInv
  <2> QED BY <2>1, ObservationKeeps, EnvironmentKeeps DEF Next
<1> QED BY <1>1, <1>2, PTL DEF Spec

\* What discoverTrustedStorageWith reports existed at one instant: every whole
\* disk of an accepted inventory had, between the two passes of collectStorage,
\* the generation (diskseq) that the inventory gives it.
THEOREM ReportedDisksCoexisted == Spec => []InventoryCoexisted
BY Inductive, PTL DEF IInv, GenerationInv

\* A candidate of the plan is neither below an array nor below a mount of it.
LEMMA CandidateFree ==
    ASSUME NEW inv, NEW mt, NEW d \in Candidates(inv, mt)
    PROVE  /\ d \in DOMAIN inv /\ inv[d].virtual # TRUE
           /\ \A n \in Disks(inv) : n # d /\ inv[n].slaves # {} => ~DependsOn(inv, n, d)
           /\ \A i \in DOMAIN mt : mt[i].on \in DOMAIN inv /\ ~DependsOn(inv, mt[i].on, d)
<1>1. d \in Disks(inv) /\ Excluded(inv, d, mt) = ""
  BY DEF Candidates
<1>2. inv[d].virtual # TRUE /\ ~Stacked(inv, d) /\ MountVerdict(inv, d, mt) \notin {"orphan", "mounted"}
  BY <1>1, Zenon DEF Excluded
<1>3. {i \in DOMAIN mt : mt[i].on \notin DOMAIN inv \/ DependsOn(inv, mt[i].on, d)} = {}
  BY <1>2 DEF MountVerdict
<1> QED BY <1>1, <1>2, <1>3 DEF Stacked, Disks

\* Nothing that has lasted since the collection began stands, in the inventory,
\* on an opened disk.
LEMMA HeldStandsElsewhere ==
    ASSUME IInv, s.pc = "accepted", NEW u \in held, NEW d \in DOMAIN s.fds
    PROVE  u.on \in DOMAIN s.inv /\ ~DependsOn(s.inv, u.on, d)
<1>1. d \in Candidates(s.inv, s.mnt) /\ Shape(s.inv, clock)
  BY DEF IInv, PlanInv
<1>2. Lasting(u) /\ u \in Uses(world, mounts, swaps)
  BY DEF IInv, HeldInv
<1>3. u.by \in {"mount", "array"} /\ (u.by = "array" => u.on \in Arrays)
  BY <1>2 DEF Lasting, Uses
<1>4. CASE u.by = "mount"
  BY <1>1, <1>2, <1>4, CandidateFree, Zenon DEF Lasting
<1>5. CASE u.by = "array"
  <2>1. u.on \in Arrays \cap DOMAIN s.inv
    BY <1>2, <1>3, <1>5 DEF Lasting
  <2>2. s.inv[u.on].virtual = TRUE /\ s.inv[u.on].parent = NoParent /\ u.on \in Disks(s.inv)
    BY <1>1, <2>1, Kinds, Zenon DEF Shape, ShapeOf, Disks
  <2>3. u.on # d
    BY <1>1, <2>2, CandidateFree, Zenon
  <2>4. CASE s.inv[u.on].slaves # {}
    BY <1>1, <2>1, <2>2, <2>3, <2>4, CandidateFree, Zenon
  <2>5. CASE s.inv[u.on].slaves = {}
    <3>1. Under(s.inv, u.on) = {} /\ Closed(s.inv, {})
      BY <2>2, <2>5 DEF Under, Closed
    <3>2. {} \in SUBSET DOMAIN s.inv
      OBVIOUS
    <3>3. d \notin Beneath(s.inv, u.on)
      BY <3>1, <3>2 DEF Beneath
    <3> QED BY <2>1, <2>3, <3>3 DEF DependsOn
  <2> QED BY <2>4, <2>5
<1> QED BY <1>3, <1>4, <1>5

\* In an accepted observation no disk that was opened is claimed.
LEMMA FreeWhenAccepted == ASSUME IInv PROVE OpenedAreFree
<1> DEFINE now == [n \in Listed |-> Observed(n)]
<1> SUFFICES ASSUME s.pc = "accepted", NEW u \in held, NEW d \in DOMAIN s.fds, u.on \in Listed
             PROVE  ~DependsOn(now, u.on, d)
  BY DEF OpenedAreFree
<1> DEFINE x == u.on
<1>1. x \in DOMAIN s.inv /\ x # d /\ d \notin Beneath(s.inv, x)
  BY HeldStandsElsewhere DEF DependsOn
<1>2. d \in DOMAIN s.inv /\ Shape(s.inv, clock)
  BY CandidateFree, Zenon DEF IInv, PlanInv
<1>3. PICK C \in SUBSET DOMAIN s.inv : Under(s.inv, x) \subseteq C /\ Closed(s.inv, C) /\ d \notin C
  BY <1>1, <1>2 DEF Beneath
<1> DEFINE B == (C \ Arrays) \cap Listed
<1>4. DOMAIN now = Listed /\ \A n \in Listed : now[n] = Observed(n)
  OBVIOUS
<1> HIDE DEF now
<1>5. ASSUME NEW n \in Listed, n \in DOMAIN s.inv, Under(s.inv, n) \subseteq C,
             n \in Arrays => world[n].slaves \subseteq s.inv[n].slaves
      PROVE  Under(now, n) \subseteq B
  <2>1. n \in Names /\ Present(n)
    BY DEF Listed
  <2>2. /\ now[n].slaves = world[n].slaves
        /\ now[n].parent = IF n \in Parts THEN Parent[n] ELSE NoParent
    BY <1>4 DEF Observed
  <2>3. \A k \in world[n].slaves : k \in B
    <3> SUFFICES ASSUME NEW k \in world[n].slaves PROVE k \in B
      OBVIOUS
    <3>1. n \in Arrays /\ world[n] \in Node
      BY <2>1 DEF IInv, WorldInv
    <3>2. k \in C
      BY <1>5, <3>1 DEF Under
    <3>3. k \in Slots \cup Parts /\ Present(k)
      BY <3>1, NodeFields DEF IInv, WorldInv
    <3> QED BY <3>2, <3>3, Kinds DEF Listed
  <2>4. n \in Parts => Parent[n] \in B
    <3> SUFFICES ASSUME n \in Parts PROVE Parent[n] \in B
      OBVIOUS
    <3>1. Parent[n] \in Slots /\ Parent[n] \in Names /\ Parent[n] # NoParent /\ Parent[n] \notin Arrays
      BY Kinds, ScanAssumption
    <3>2. s.inv[n].parent = Parent[n]
      BY <1>2, <1>5 DEF Shape, ShapeOf
    <3>3. Parent[n] \in C
      BY <1>5, <3>1, <3>2 DEF Under
    <3>4. Present(Parent[n])
      BY <2>1 DEF IInv, WorldInv
    <3> QED BY <3>1, <3>3, <3>4 DEF Listed
  <2> QED BY <2>2, <2>3, <2>4 DEF Under
<1>6. Under(now, x) \subseteq B
  <2>1. x \in Arrays => world[x].slaves \subseteq s.inv[x].slaves
    BY <1>1 DEF IInv, HeldInv, Lasting
  <2> QED BY <1>1, <1>3, <1>5, <2>1
<1>7. Closed(now, B)
  <2> SUFFICES ASSUME NEW n \in B PROVE Under(now, n) \subseteq B
    BY DEF Closed
  <2>1. n \in Listed /\ n \in DOMAIN s.inv /\ n \notin Arrays /\ Under(s.inv, n) \subseteq C
    BY <1>3 DEF Closed
  <2> QED BY <1>5, <2>1
<1>8. B \in SUBSET DOMAIN now /\ d \notin B
  BY <1>3, <1>4
<1>9. d \notin Beneath(now, x)
  BY <1>6, <1>7, <1>8 DEF Beneath
<1> QED BY <1>1, <1>9 DEF DependsOn

\* When an observation is accepted, no mount, array or swap area that has been
\* there since the last collection began stands on a disk that the observation
\* opened, whatever was plugged, assembled, mounted or rewritten meanwhile.
THEOREM AcceptedDisksAreFree == Spec => []OpenedAreFree
<1>1. IInv => OpenedAreFree
  BY FreeWhenAccepted
<1> QED BY <1>1, Inductive, PTL

---------------------------------------------------------------------------
(* The broker that observes block devices on behalf of its clients         *)
(* (StorageBroker).                                                        *)

CONSTANTS Procs, Conns, Workers, Backlog
VARIABLES proc, lock, file, slot, conn, web

Broker == INSTANCE StorageBroker

\* The life of a broker and of a connection to it.
Phases == {"none", "probe", "unlink", "bind", "listen", "run", "drain"}
Links == [op : Broker!Ops, to : Procs \cup {0}, client : {"none", "waiting", "gaveup"},
          server : {"queued", "read", "work", "release", "closed"}]
\* A live broker has the lock, so there is one; nobody else binds the name
\* while it serves, and its slot belongs to a connection it has not let go.
OfBroker(p) ==
    /\ proc[p].pc # "none" => lock = p
    /\ proc[p].pc = "run" => file \in {p, 0}
    /\ slot[p] # 0 => conn[slot[p]].to = p /\ conn[slot[p]].server \in {"work", "release"}
\* Whoever serves a connection is alive, and has the slot if it observes; a
\* connection waits only for a broker that was not told to stop.
OfConnection(k) ==
    conn[k].server # "closed" =>
        /\ conn[k].to \in Procs
        /\ proc[conn[k].to].pc \in {"run", "drain"}
        /\ conn[k].server = "queued" => proc[conn[k].to].pc = "run" /\ ~proc[conn[k].to].cancelled
        /\ conn[k].server = "work" /\ conn[k].op # "inventory" => slot[conn[k].to] = k
BrokerInv == Broker!TypeOK /\ (\A p \in Procs : OfBroker(p)) /\ \A k \in Conns : OfConnection(k)

\* What every step of a broker's life has in common: it has the lock from its
\* start to its end, lets go only of its own connections, and has none that
\* wait once it was told to stop, none at all once it is gone.
BrokerMoves(p, pc, c) ==
    /\ proc' \in [Procs -> [pc : Phases, cancelled : BOOLEAN]]
    /\ proc'[p].pc = pc /\ proc'[p].cancelled = c /\ \A q \in Procs \ {p} : proc'[q] = proc[q]
    /\ lock \in {0, p} /\ lock' = (IF pc = "none" THEN 0 ELSE p)
    /\ file' \in {0, p, file} /\ (pc = "run" => file' \in {0, p}) /\ UNCHANGED web
    /\ conn' \in [Conns -> Links]
    /\ \A k \in Conns : conn'[k] # conn[k] => conn'[k].server = "closed" /\ conn[k].to = p
    /\ \A k \in Conns : conn'[k].server # "closed" /\ conn[k].to = p =>
          pc \in {"run", "drain"} /\ (conn[k].server = "queued" => pc = "run" /\ ~c)
    /\ \/ slot' = slot /\ (slot[p] # 0 => conn'[slot[p]] = conn[slot[p]])
       \/ slot' = [slot EXCEPT ![p] = 0] /\ \A k \in Conns : conn[k].to = p => conn'[k].server = "closed"

\* Such a step keeps the invariant: no other broker is alive beside one that
\* takes or has the lock of listenStorageBroker.
LEMMA BrokerMovesKeep ==
    ASSUME Broker!BrokerAssumption, BrokerInv, NEW p \in Procs, NEW pc, NEW c, BrokerMoves(p, pc, c)
    PROVE  BrokerInv'
<1> USE DEF Broker!BrokerAssumption, BrokerMoves
<1>1. Broker!TypeOK'
  BY DEF BrokerInv, Broker!TypeOK, Phases, Links
<1>2. \A q \in Procs : q # p => proc'[q] = proc[q] /\ slot'[q] = slot[q] /\ proc[q].pc = "none"
  BY DEF BrokerInv, Broker!TypeOK, OfBroker
<1>3. proc'[p].pc = pc
  BY DEF BrokerInv, Broker!TypeOK
<1>4. ASSUME NEW q \in Procs PROVE OfBroker(q)'
  <2>1. CASE q = p
    BY <2>1, <1>3 DEF BrokerInv, Broker!TypeOK, OfBroker
  <2>2. CASE q # p
    BY <2>2, <1>2 DEF BrokerInv, Broker!TypeOK, OfBroker, OfConnection
  <2> QED BY <2>1, <2>2
<1>5. ASSUME NEW k \in Conns PROVE OfConnection(k)'
  <2>1. SUFFICES ASSUME conn'[k].server # "closed" PROVE OfConnection(k)'
    BY DEF OfConnection
  <2>2. conn'[k] = conn[k] /\ OfConnection(k)
    BY <2>1 DEF BrokerInv
  <2>3. conn[k].to = p
    BY <2>1, <2>2, <1>2 DEF OfConnection
  <2> QED BY <2>1, <2>2, <2>3, <1>3 DEF OfConnection, BrokerInv, Broker!TypeOK
<1> QED BY <1>1, <1>4, <1>5 DEF BrokerInv

\* What every step of a connection has in common: the slot passes only between
\* this connection and nobody, and stays with it while it observes.
ConnectionMoves(k, c) ==
    /\ c \in Links /\ conn' = [conn EXCEPT ![k] = c] /\ UNCHANGED <<proc, lock, file>>
    /\ web' \in Conns \cup {0} /\ slot' \in [Procs -> Conns \cup {0}]
    /\ \A q \in Procs : slot'[q] = slot[q] \/ {slot[q], slot'[q]} \subseteq {0, k}
    /\ \A q \in Procs : slot'[q] = k => c.to = q /\ c.server \in {"work", "release"}
    /\ c.server # "closed" =>
          /\ c.to \in Procs /\ proc[c.to].pc \in {"run", "drain"}
          /\ c.server = "queued" => proc[c.to].pc = "run" /\ ~proc[c.to].cancelled
          /\ c.server = "work" /\ c.op # "inventory" => slot'[c.to] = k

\* Such a step of a worker or of a client keeps the invariant.
LEMMA ConnectionMovesKeep ==
    ASSUME Broker!BrokerAssumption, BrokerInv, NEW k \in Conns, NEW c, ConnectionMoves(k, c)
    PROVE  BrokerInv'
<1> USE DEF Broker!BrokerAssumption, ConnectionMoves
<1>1. Broker!TypeOK'
  BY DEF BrokerInv, Broker!TypeOK, Links
<1>2. ASSUME NEW q \in Procs PROVE OfBroker(q)'
  <2>1. CASE slot'[q] \in {0, k}
    BY <2>1 DEF BrokerInv, Broker!TypeOK, OfBroker
  <2>2. CASE slot'[q] \notin {0, k}
    BY <2>2 DEF BrokerInv, Broker!TypeOK, OfBroker
  <2> QED BY <2>1, <2>2
<1>3. ASSUME NEW l \in Conns PROVE OfConnection(l)'
  <2>1. CASE l = k
    BY <2>1 DEF BrokerInv, Broker!TypeOK, OfConnection
  <2>2. CASE l # k
    <3>1. conn'[l] = conn[l] /\ OfConnection(l)
      BY <2>2 DEF BrokerInv, Broker!TypeOK
    <3> QED BY <2>2, <3>1 DEF OfConnection
  <2> QED BY <2>1, <2>2
<1> QED BY <1>1, <1>2, <1>3 DEF BrokerInv

\* Hanging up closes the given connections at the broker's end, and no other
\* connection is touched (the context's callbacks, and the kernel).
LEMMA Hangups ==
    ASSUME conn \in [Conns -> Links], NEW ks \in SUBSET Conns
    PROVE  /\ Broker!Hangup(ks) \in [Conns -> Links]
           /\ \A k \in ks : Broker!Hangup(ks)[k].server = "closed"
           /\ \A k \in Conns \ ks : Broker!Hangup(ks)[k] = conn[k]
BY DEF Broker!Hangup, Broker!Both, Broker!NoConn, Links, Broker!Ops

\* listenStorageBroker, Run, Close, and the signals that end a broker, keep the
\* invariant; Close does because Run waits for its workers first.
LEMMA LifeKeeps ==
    ASSUME Broker!BrokerAssumption, BrokerInv, NEW p \in Procs,
           \/ Broker!Start(p) \/ Broker!Probe(p) \/ Broker!Unlink(p) \/ Broker!Bind(p)
           \/ Broker!Listen(p) \/ Broker!StartFails(p)
           \/ Broker!Stop(p) \/ Broker!Leave(p) \/ Broker!Close(p) \/ Broker!Kill(p)
    PROVE  BrokerInv'
<1> USE DEF Broker!BrokerAssumption
<1>1. /\ proc \in [Procs -> [pc : Phases, cancelled : BOOLEAN]] /\ conn \in [Conns -> Links]
      /\ slot \in [Procs -> Conns \cup {0}]
      /\ proc[p].pc # "none" => lock = p
      /\ slot[p] # 0 => slot[p] \in Conns /\ conn[slot[p]].to = p /\ conn[slot[p]].server \in {"work", "release"}
      /\ \A k \in Conns : conn[k].server # "closed" /\ conn[k].to = p =>
            /\ proc[p].pc \in {"run", "drain"}
            /\ conn[k].server = "queued" => proc[p].pc = "run" /\ ~proc[p].cancelled
  BY DEF BrokerInv, Broker!TypeOK, OfBroker, OfConnection, Phases, Links
<1> DEFINE c == proc[p].cancelled
<1>2. CASE Broker!Start(p)
  <2>1. BrokerMoves(p, "probe", c)
    BY <1>1, <1>2 DEF Broker!Start, Broker!Step, BrokerMoves, Phases
  <2> QED BY <2>1, BrokerMovesKeep
<1>3. CASE Broker!Probe(p) /\ ~Broker!Listening(file)
  <2>1. BrokerMoves(p, "bind", c) \/ BrokerMoves(p, "unlink", c)
    BY <1>1, <1>3 DEF Broker!Probe, Broker!Step, BrokerMoves, Phases
  <2> QED BY <2>1, BrokerMovesKeep
<1>4. CASE Broker!Unlink(p)
  <2>1. BrokerMoves(p, "bind", c)
    BY <1>1, <1>4 DEF Broker!Unlink, Broker!Step, BrokerMoves, Phases
  <2> QED BY <2>1, BrokerMovesKeep
<1>5. CASE Broker!Bind(p)
  <2>1. BrokerMoves(p, "listen", c)
    BY <1>1, <1>5 DEF Broker!Bind, Broker!Step, BrokerMoves, Phases
  <2> QED BY <2>1, BrokerMovesKeep
<1>6. CASE Broker!Listen(p)
  <2>1. BrokerMoves(p, "run", c)
    BY <1>1, <1>6 DEF Broker!Listen, Broker!Step, BrokerMoves, Phases
  <2> QED BY <2>1, BrokerMovesKeep
<1>7. CASE (Broker!Probe(p) /\ Broker!Listening(file)) \/ Broker!StartFails(p)
  <2>1. /\ proc' = [proc EXCEPT ![p] = [pc |-> "none", cancelled |-> FALSE]]
        /\ lock = p /\ lock' = 0 /\ file' \in {file, 0} /\ proc[p].pc \notin {"run", "drain"}
        /\ UNCHANGED <<conn, slot, web>>
    BY <1>1, <1>7 DEF Broker!Probe, Broker!StartFails, Broker!End, Broker!NoProc
  <2>2. BrokerMoves(p, "none", FALSE)
    BY <1>1, <2>1 DEF BrokerMoves, Phases
  <2> QED BY <2>2, BrokerMovesKeep
<1>8. CASE Broker!Stop(p)
  <2>1. proc[p].pc \in {"run", "drain"} /\ (proc[p].pc = "run" => file \in {p, 0})
    BY <1>8 DEF Broker!Stop, BrokerInv, OfBroker
  <2>2. /\ conn' \in [Conns -> Links]
        /\ \A k \in Conns : IF conn[k].to = p /\ conn[k].server = "queued" THEN conn'[k].server = "closed"
                            ELSE conn'[k] = conn[k]
    BY <1>1, <1>8, Hangups, Broker!Queued(p) \in SUBSET Conns DEF Broker!Stop, Broker!Queued
  <2>3. /\ proc' \in [Procs -> [pc : Phases, cancelled : BOOLEAN]]
        /\ proc'[p].pc = proc[p].pc /\ proc'[p].cancelled = TRUE /\ \A q \in Procs \ {p} : proc'[q] = proc[q]
    BY <1>1, <1>8, <2>1 DEF Broker!Stop, Phases
  <2>4. BrokerMoves(p, proc[p].pc, TRUE)
    BY <1>1, <1>8, <2>1, <2>2, <2>3 DEF Broker!Stop, BrokerMoves
  <2> QED BY <2>4, BrokerMovesKeep
<1>9. CASE Broker!Leave(p)
  <2>1. BrokerMoves(p, "drain", c)
    BY <1>1, <1>9 DEF Broker!Leave, Broker!Step, BrokerMoves, Phases
  <2> QED BY <2>1, BrokerMovesKeep
<1>10. CASE Broker!Close(p)
  <2>1. BrokerMoves(p, "none", FALSE)
    BY <1>1, <1>10 DEF Broker!Close, Broker!Served, Broker!End, Broker!NoProc, BrokerMoves, Phases, Links
  <2> QED BY <2>1, BrokerMovesKeep
<1>11. CASE Broker!Kill(p)
  <2>1. /\ conn' \in [Conns -> Links]
        /\ \A k \in Conns : IF conn[k].to = p /\ conn[k].server # "closed" THEN conn'[k].server = "closed"
                            ELSE conn'[k] = conn[k]
    BY <1>1, <1>11, Hangups, Broker!Served(p) \cup Broker!Queued(p) \in SUBSET Conns
       DEF Broker!Kill, Broker!Served, Broker!Queued, Links
  <2>2. /\ proc' = [proc EXCEPT ![p] = [pc |-> "none", cancelled |-> FALSE]]
        /\ lock = p /\ lock' = 0 /\ file' = file /\ web' = web /\ slot' = [slot EXCEPT ![p] = 0]
    BY <1>1, <1>11 DEF Broker!Kill, Broker!End, Broker!NoProc
  <2>3. BrokerMoves(p, "none", FALSE)
    BY <1>1, <2>1, <2>2 DEF BrokerMoves, Phases
  <2> QED BY <2>3, BrokerMovesKeep
<1> QED BY <1>2, <1>3, <1>4, <1>5, <1>6, <1>7, <1>8, <1>9, <1>10, <1>11

\* The accept loop, the workers and requestStorageBroker keep the invariant;
\* a worker gives the slot back before it closes its connection.
LEMMA ServiceKeeps ==
    ASSUME Broker!BrokerAssumption, BrokerInv, NEW k \in Conns,
           Broker!Worker(k) \/ Broker!Receive(k) \/ Broker!GiveUp(k) \/ \E op \in Broker!Ops : Broker!Dial(k, op)
    PROVE  BrokerInv'
<1> USE DEF Broker!BrokerAssumption
<1> DEFINE p == conn[k].to
<1>1. /\ proc \in [Procs -> [pc : Phases, cancelled : BOOLEAN]] /\ conn \in [Conns -> Links]
      /\ slot \in [Procs -> Conns \cup {0}] /\ web \in Conns \cup {0}
      /\ conn[k].server # "closed" => p \in Procs /\ proc[p].pc \in {"run", "drain"} /\ lock = p
      /\ conn[k].server = "queued" => proc[p].pc = "run" /\ ~proc[p].cancelled
      /\ conn[k].server = "work" /\ conn[k].op # "inventory" => slot[p] = k
      /\ \A q \in Procs : slot[q] # 0 =>
            slot[q] \in Conns /\ conn[slot[q]].to = q /\ conn[slot[q]].server \in {"work", "release"}
  BY DEF BrokerInv, Broker!TypeOK, OfBroker, OfConnection, Phases, Links
<1>2. \A c \in Links : Broker!Both(c) \in Links /\ (Broker!Both(c).server # "closed" => Broker!Both(c) = c)
                       /\ (c.server # "closed" => Broker!Both(c) = c)
  BY DEF Broker!Both, Links, Broker!NoConn, Broker!Ops
<1> DEFINE Now(to) == Broker!Both([conn[k] EXCEPT !.server = to])
<1>3. ASSUME NEW to \in {"read", "work", "release", "closed"}
      PROVE  /\ Now(to) \in Links /\ (to = "closed" => Now(to).server = "closed")
             /\ to # "closed" => Now(to).server = to /\ Now(to).to = p /\ Now(to).op = conn[k].op
  <2>1. [conn[k] EXCEPT !.server = to] \in Links
    BY <1>1 DEF Links
  <2> QED BY <1>1, <1>2, <2>1 DEF Broker!Both, Broker!NoConn, Links
<1> HIDE DEF Now
<1>4. CASE Broker!Accept(k) /\ file # p
  <2>1. /\ conn' \in [Conns -> Links]
        /\ \A l \in Conns : IF conn[l].to = p /\ conn[l].server = "queued" THEN conn'[l].server = "closed"
                            ELSE conn'[l] = conn[l]
    BY <1>1, <1>4, Hangups, Broker!Queued(p) \in SUBSET Conns DEF Broker!Accept, Broker!Queued
  <2>2. /\ p \in Procs /\ lock = p /\ proc' = [proc EXCEPT ![p].pc = "drain"]
        /\ UNCHANGED <<lock, file, slot, web>>
    BY <1>1, <1>4 DEF Broker!Accept
  <2>3. BrokerMoves(p, "drain", proc[p].cancelled)
    BY <1>1, <2>1, <2>2 DEF BrokerMoves, Phases
  <2> QED BY <2>2, <2>3, BrokerMovesKeep
<1>5. CASE Broker!Accept(k) /\ file = p
  <2>1. PICK to \in {"read", "closed"} : conn' = [conn EXCEPT ![k] = Now(to)]
    BY <1>5 DEF Broker!Accept, Broker!Serve, Now
  <2>2. conn[k].server = "queued" /\ UNCHANGED <<proc, lock, file, slot, web>>
    BY <1>5 DEF Broker!Accept, Broker!Serve
  <2>3. \A q \in Procs : slot[q] # k
    BY <1>1, <2>2
  <2>4. ConnectionMoves(k, Now(to))
    BY <1>1, <1>3, <2>1, <2>2, <2>3 DEF ConnectionMoves
  <2> QED BY <2>4, ConnectionMovesKeep
<1>6. CASE Broker!Read(k)
  <2>1. CASE conn' = [conn EXCEPT ![k] = Now("release")] /\ UNCHANGED slot
    <3>1. ConnectionMoves(k, Now("release"))
      BY <1>1, <1>3, <1>6, <2>1 DEF Broker!Read, Broker!Serve, ConnectionMoves
    <3> QED BY <3>1, ConnectionMovesKeep
  <2>2. CASE /\ conn' = [conn EXCEPT ![k] = Now("work")] /\ conn[k].server = "read"
             /\ IF conn[k].op \in {"gpt", "md"} THEN slot[p] = 0 /\ slot' = [slot EXCEPT ![p] = k] ELSE slot' = slot
    <3>1. conn[k].op \in {"gpt", "md"} <=> conn[k].op # "inventory"
      BY <1>1 DEF Links, Broker!Ops
    <3>2. ConnectionMoves(k, Now("work"))
      BY <1>1, <1>3, <1>6, <2>2, <3>1 DEF Broker!Read, Broker!Serve, ConnectionMoves
    <3> QED BY <3>2, ConnectionMovesKeep
  <2> QED BY <1>6, <2>1, <2>2 DEF Broker!Read, Broker!Serve, Now
<1>7. CASE Broker!Work(k)
  <2>1. /\ conn' = [conn EXCEPT ![k] = Now("release")] /\ conn[k].server = "work"
        /\ UNCHANGED <<proc, lock, file, slot, web>>
    BY <1>7 DEF Broker!Work, Broker!Serve, Now
  <2>2. ConnectionMoves(k, Now("release"))
    BY <1>1, <1>3, <2>1 DEF ConnectionMoves
  <2> QED BY <2>2, ConnectionMovesKeep
<1>8. CASE Broker!Release(k) /\ slot[p] = k
  <2>1. ConnectionMoves(k, conn[k])
    BY <1>1, <1>8 DEF Broker!Release, ConnectionMoves, Links
  <2> QED BY <2>1, ConnectionMovesKeep
<1>9. CASE Broker!Release(k) /\ slot[p] # k
  <2>1. conn' = [conn EXCEPT ![k] = Now("closed")]
    BY <1>9 DEF Broker!Release, Broker!Serve, Now
  <2>2. ConnectionMoves(k, Now("closed"))
    BY <1>1, <1>3, <1>9, <2>1 DEF Broker!Release, Broker!Serve, ConnectionMoves
  <2> QED BY <2>2, ConnectionMovesKeep
<1>10. CASE Broker!Receive(k) \/ Broker!GiveUp(k)
  <2>1. PICK client \in {"none", "gaveup"} : Broker!Returns(k, client)
    BY <1>10 DEF Broker!Receive, Broker!GiveUp
  <2>2. [conn[k] EXCEPT !.client = client] \in Links
    BY <1>1 DEF Links
  <2>3. ConnectionMoves(k, Broker!Both([conn[k] EXCEPT !.client = client]))
    BY <1>1, <1>2, <2>1, <2>2 DEF Broker!Returns, ConnectionMoves, Links
  <2> QED BY <2>3, ConnectionMovesKeep
<1>11. ASSUME NEW op \in Broker!Ops, Broker!Dial(k, op) PROVE BrokerInv'
  <2>1. file \in Procs /\ proc[file].pc = "run" /\ ~proc[file].cancelled
    BY <1>1, <1>11 DEF Broker!Dial, Broker!Listening, BrokerInv, Broker!TypeOK
  <2>2. ConnectionMoves(k, [op |-> op, to |-> file, client |-> "waiting", server |-> "queued"])
    BY <1>1, <1>11, <2>1 DEF Broker!Dial, ConnectionMoves, Links, Broker!NoConn
  <2> QED BY <2>2, ConnectionMovesKeep
<1> QED BY <1>4, <1>5, <1>6, <1>7, <1>8, <1>9, <1>10, <1>11 DEF Broker!Worker

\* For any number of broker processes, connections, workers and any backlog:
\* block devices are observed for one request at a time, over all brokers that
\* are started, stopped, killed and started again; the name of a broker that
\* serves never leads to another; and a client that has its answer no longer
\* has the observation slot (storage_broker_linux.go).
THEOREM OneBrokerObserves ==
    ASSUME Broker!BrokerAssumption
    PROVE  Broker!Spec => [](Broker!OneBroker /\ Broker!AnsweredHoldsNothing)
<1>1. Broker!Init => BrokerInv
  BY
     DEF Broker!BrokerAssumption, Broker!Init, BrokerInv, Broker!TypeOK, OfBroker, OfConnection,
         Broker!NoProc, Broker!NoConn, Broker!Ops
<1>2. BrokerInv /\ [Broker!Next]_Broker!vars => BrokerInv'
  <2>1. ASSUME BrokerInv, UNCHANGED Broker!vars PROVE BrokerInv'
    BY <2>1 DEF BrokerInv, Broker!TypeOK, OfBroker, OfConnection, Broker!vars
  <2>2. ASSUME BrokerInv, Broker!Meddle PROVE BrokerInv'
    BY <2>2 DEF BrokerInv, Broker!TypeOK, OfBroker, OfConnection, Broker!Meddle
  <2> QED BY <2>1, <2>2, LifeKeeps, ServiceKeeps DEF Broker!Next
<1>3. ASSUME BrokerInv PROVE Broker!OneBroker /\ Broker!AnsweredHoldsNothing
  <2>1. ASSUME NEW k \in Broker!Observing, NEW l \in Broker!Observing PROVE k = l
    BY <1>3, <2>1 DEF BrokerInv, OfBroker, OfConnection, Broker!Observing
  <2>2. Broker!AnsweredHoldsNothing
    BY <1>3 DEF BrokerInv, OfBroker, Broker!AnsweredHoldsNothing, Broker!NoConn
  <2>3. \A p \in Procs : proc[p].pc = "run" => file \in {p, 0}
    BY <1>3 DEF BrokerInv, OfBroker
  <2> QED BY <2>1, <2>2, <2>3 DEF Broker!OneBroker
<1> QED BY <1>1, <1>2, <1>3, PTL DEF Broker!Spec
=============================================================================

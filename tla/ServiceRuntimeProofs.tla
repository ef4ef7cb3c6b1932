----------------------- MODULE ServiceRuntimeProofs -----------------------
(***************************************************************************)
(* For every roster, set of group leases and set of root pins: a roster    *)
(* lease is complete or absent, the consumers of a service are stopped     *)
(* before anything of its storage is given back, and Owner.Unmount takes   *)
(* no volume away under a lease, a pin, a clone or a process.              *)
(*                                                                         *)
(* None of them is inductive alone.  What an Unmount may not find is a     *)
(* clone on a service path, and no field of the Owner says so: the child   *)
(* lease does, because a member of the handoff that is attached, or in     *)
(* doubt, or has a directory, keeps the handoff's group lease (Held), and  *)
(* a group lease is open exactly while every Owner has its child (Leased). *)
(* A process that may live keeps the members attached through where the    *)
(* runtime is, or through the root pin when the process is isolated        *)
(* (Running).                                                              *)
(***************************************************************************)
EXTENDS ServiceRuntime, WellFoundedInduction, TLAPS

OwnerRecords == [st : OwnerStates, gen : 0..MaxMounts, kids : SUBSET Groups]
Evidences == [gen : 0..MaxGeneration, fp : [Volumes -> 0..MaxMounts]]
GroupRecords == [st : {"none", "open", "closed"}, seen : Evidences]
PinRecords == [st : {"none", "held", "released"}, lease : Groups \cup {""},
               review : BOOLEAN, uncertain : BOOLEAN]
Members == [dir : BOOLEAN, mounted : BOOLEAN, uncertain : BOOLEAN]
Handoffs == [st : {"prepared", "active", "review", "closed"}, lease : BOOLEAN,
             members : SUBSET Shares, of : [Shares -> Members], review : BOOLEAN,
             closed : BOOLEAN, isolated : BOOLEAN, pinned : BOOLEAN]
Runs == [st : {"prepared", "starting", "ready", "stopping", "review", "stopped"},
         pc : {"", "mount", "attach", "bind", "launch", "check", "stop", "close"},
         to : {"", "stopped", "review"}]

\* The Owners; only one that may still be mounted is qualified.
Owners(o) ==
    /\ o \in [Volumes -> OwnerRecords]
    /\ \A v \in Volumes : o[v].st = "qualified" => o[v].gen < MaxMounts

\* q is o except that some Owners are in review.
Reviewed(o, q) ==
    /\ Owners(q)
    /\ \A v \in Volumes : q[v].kids = o[v].kids /\ q[v].st \in {o[v].st, "review"}

RosterTypes ==
    /\ at \in [Volumes -> SUBSET {"ours", "other"}]
    /\ Owners(own)
    /\ set \in Evidences
    /\ grp \in [Groups -> GroupRecords]
    /\ pin \in [Pins -> PinRecords]
    /\ faults \in 0..MaxFaults

Types ==
    /\ RosterTypes
    /\ hand \in Handoffs
    /\ path \in [Shares -> SUBSET {"ours", "other"}]
    /\ run \in Runs
    /\ proc \in {"off", "on", "unknown"}

\* A group lease is open exactly while its children are in the Owners' maps.
Complete(o, g) ==
    \A l \in Groups, v \in Volumes : l \in o[v].kids <=> g[l].st = "open"

\* Only another consumer's lease is pinned, and it is open while it is.
Pinned(q, g) ==
    \A p \in Pins : q[p].st = "held" => q[p].lease \in Others /\ g[q[p].lease].st = "open"

Leased == Complete(own, grp) /\ Pinned(pin, grp)

\* A member of which anything is left.
Left(m) == m.mounted \/ m.uncertain \/ m.dir

Held(h, g, w) ==
    /\ h.lease <=> g["handoff"].st = "open"
    /\ h.lease => ~h.closed
    /\ \A s \in Shares : Left(h.of[s]) => h.lease
    /\ \A s \in Shares : "ours" \in w[s] => h.of[s].mounted \/ h.of[s].uncertain

Attached(h) == h.lease /\ \A s \in Shares : h.of[s].mounted

Running(h, r, p) ==
    /\ r.pc = "attach" => h.lease /\ ~h.of[NVolumes].mounted
    /\ r.pc \in {"mount", "attach", "bind", "launch", "close"} => p = "off"
    /\ r.pc = "" /\ r.st = "prepared" => p = "off"
    /\ r.pc = "launch" /\ ~h.isolated => Attached(h)
    /\ p # "off" => Attached(h) /\ (h.isolated => h.pinned)

IInv == Types /\ Leased /\ Held(hand, grp, path) /\ Running(hand, run, proc)

\* What a step does to the Owners when no volume is unmounted by it.
Untaken == \A v \in Volumes : own[v].st = "draining" => own'[v].st # "unavailable"

-----------------------------------------------------------------------------
(* The operators of the roster.                                            *)

\* reviewLocked of one Owner.
LEMMA InReviewKeeps ==
    ASSUME NEW o, Owners(o), NEW v
    PROVE  Reviewed(o, [o EXCEPT ![v] = InReview(@)])
<1>1. ASSUME NEW u \in Volumes
      PROVE  /\ InReview(o[u]) \in OwnerRecords
             /\ InReview(o[u]).st = "review" /\ InReview(o[u]).kids = o[u].kids
  BY DEF Owners, OwnerRecords, OwnerStates, InReview
<1>2. PICK q : q = [o EXCEPT ![v] = InReview(@)]
  BY Zenon
<1>3. \A u \in Volumes : q[u] = IF u = v THEN InReview(o[u]) ELSE o[u]
  BY <1>2 DEF Owners
<1>4. q \in [Volumes -> OwnerRecords]
  BY <1>1, <1>2, <1>3, Zenon DEF Owners
<1>5. \A u \in Volumes : q[u].kids = o[u].kids /\ q[u].st \in {o[u].st, "review"} /\ (q[u].st = "review" \/ q[u] = o[u])
  BY <1>1, <1>3
<1> QED BY <1>2, <1>4, <1>5 DEF Owners, Reviewed

\* Nothing at all is a special case of it.
LEMMA SameReviewed ==
    ASSUME NEW o, Owners(o)
    PROVE  Reviewed(o, o)
BY DEF Reviewed

\* observeLocked.
LEMMA ObservedKeeps ==
    ASSUME Owners(own)
    PROVE  Reviewed(own, Observed)
BY InReviewKeeps, SameReviewed DEF Observed

\* The children of one group lease are given back.
LEMMA ReturnedGives ==
    ASSUME NEW o, Owners(o), NEW l \in Groups, NEW doubtful, NEW q, q = Returned(o, l, doubtful)
    PROVE  /\ Owners(q)
           /\ \A v \in Volumes : q[v].kids = o[v].kids \ {l} /\ q[v].st \in {o[v].st, "review"}
<1>1. ASSUME NEW v \in Volumes
      PROVE  /\ q[v] \in OwnerRecords /\ q[v].kids = o[v].kids \ {l} /\ q[v].st \in {o[v].st, "review"}
             /\ q[v].gen = o[v].gen
  <2>1. PICK e \in OwnerRecords : e = o[v]
    BY DEF Owners
  <2>2. PICK less : less = [e EXCEPT !.kids = e.kids \ {l}]
    BY Zenon
  <2>3. less \in OwnerRecords /\ less.kids = e.kids \ {l} /\ less.st = e.st /\ less.gen = e.gen
    BY <2>2 DEF OwnerRecords
  <2>4. q[v] = less \/ q[v] = InReview(less)
    BY <2>1, <2>2 DEF Returned
  <2> QED BY <2>1, <2>3, <2>4 DEF InReview, OwnerRecords, OwnerStates
<1>2. q \in [Volumes -> OwnerRecords]
  BY <1>1 DEF Returned
<1> QED BY <1>1, <1>2 DEF Owners

\* Every Owner hands out a child lease.
LEMMA GiveGives ==
    ASSUME NEW o, Owners(o), NEW l \in Groups, NEW q, q = GiveChildren(o, l, Volumes)
    PROVE  /\ Owners(q)
           /\ \A v \in Volumes : q[v].kids = o[v].kids \cup {l} /\ q[v].st = o[v].st
<1>1. ASSUME NEW v \in Volumes
      PROVE  /\ q[v] \in OwnerRecords /\ q[v].kids = o[v].kids \cup {l} /\ q[v].st = o[v].st
             /\ q[v].gen = o[v].gen
  <2>1. PICK e \in OwnerRecords : e = o[v]
    BY DEF Owners
  <2>2. q[v] = [e EXCEPT !.kids = e.kids \cup {l}]
    BY <2>1 DEF GiveChildren
  <2> QED BY <2>1, <2>2 DEF OwnerRecords
<1>2. q \in [Volumes -> OwnerRecords]
  BY <1>1 DEF GiveChildren
<1> QED BY <1>1, <1>2 DEF Owners

\* The evidence the roster issues.
LEMMA EvidenceTyped ==
    ASSUME RosterTypes
    PROVE  AfterObserve \in Evidences /\ (Vouched => NextEvidence \in Evidences)
<1>1. Evidence \in [Volumes -> 0..MaxMounts]
  BY DEF RosterTypes, Owners, OwnerRecords, Evidence
<1>2. set \in Evidences /\ set.gen \in 0..MaxGeneration /\ MaxGeneration \in Nat \ {0}
  BY RosterAssumption DEF RosterTypes, Evidences
<1>3. Vouched => NextEvidence.gen \in 0..MaxGeneration
  BY <1>2 DEF Vouched, Exhausted, NextEvidence
<1>4. Vouched => NextEvidence \in Evidences
  BY <1>1, <1>3 DEF NextEvidence, Evidences
<1> QED BY <1>2, <1>4 DEF AfterObserve

-----------------------------------------------------------------------------
(* The steps of the roster.                                                *)

\* The Owners and leases after a step that reviews some Owners.
LEMMA ReviewedLeased ==
    ASSUME NEW o, NEW q, NEW g, Reviewed(o, q), Complete(o, g)
    PROVE  Complete(q, g)
BY DEF Reviewed, Complete

\* A step of one Owner: its children are left alone.
LEMMA OwnerStepKeeps ==
    ASSUME RosterTypes, Leased, NEW v \in Volumes, NEW e \in OwnerRecords, own' = [own EXCEPT ![v] = e],
           e.kids = own[v].kids, e.st = "qualified" => e.gen < MaxMounts,
           at' \in [Volumes -> SUBSET {"ours", "other"}], UNCHANGED <<set, grp, pin, faults>>
    PROVE  /\ RosterTypes' /\ Leased'
           /\ (own[v].st = "draining" => e.st # "unavailable") => Untaken
<1>1. own \in [Volumes -> OwnerRecords] /\ \A u \in Volumes : own'[u] = IF u = v THEN e ELSE own[u]
  BY DEF RosterTypes, Owners
<1>2. Owners(own')
  BY <1>1 DEF RosterTypes, Owners
<1>3. Complete(own', grp)
  BY <1>1 DEF Leased, Complete
<1> QED BY <1>1, <1>2, <1>3 DEF RosterTypes, Leased, Untaken

\* The records an Owner's step makes of another.
LEMMA OwnerRecordsAre ==
    ASSUME NEW e \in OwnerRecords, NEW x \in OwnerStates, NEW f, f = [e EXCEPT !.st = x]
    PROVE  f \in OwnerRecords /\ f.kids = e.kids /\ f.st = x /\ f.gen = e.gen
BY DEF OwnerRecords

\* Qualify, Drain, Verify and Close of an Owner; none of them unmounts.
LEMMA OwnerKeeps ==
    ASSUME RosterTypes, Leased, NEW v \in Volumes,
           Qualify(v) \/ Drain(v) \/ Verify(v) \/ CloseOwner(v)
    PROVE  RosterTypes' /\ Leased' /\ Untaken /\ UNCHANGED <<set, grp, pin, faults>>
<1>1. PICK e \in OwnerRecords : e = own[v]
  BY DEF RosterTypes, Owners
<1>2. own \in [Volumes -> OwnerRecords] /\ at \in [Volumes -> SUBSET {"ours", "other"}]
  BY DEF RosterTypes, Owners
<1>3. UNCHANGED <<at, set, grp, pin, faults>>
  BY DEF Qualify, Drain, Verify, CloseOwner
<1>4. PICK x \in OwnerStates : /\ own' = [own EXCEPT ![v] = [e EXCEPT !.st = x]]
                               /\ x = "qualified" => e.gen < MaxMounts
                               /\ e.st = "draining" => x # "unavailable"
  <2>1. CASE Qualify(v)
    <3>1. PICK x \in {"qualified", "rejected"} : own' = [own EXCEPT ![v].st = x]
      BY <2>1, Zenon DEF Qualify
    <3>2. e.st = "unavailable" /\ e.gen < MaxMounts
      BY <1>1, <2>1 DEF Qualify
    <3> QED BY <1>1, <1>2, <3>1, <3>2, Zenon DEF OwnerStates
  <2>2. CASE Drain(v)
    <3>1. CASE Exact(v)
      BY <1>1, <1>2, <2>2, <3>1 DEF Drain, OwnerStates
    <3>2. CASE ~Exact(v)
      BY <1>1, <1>2, <2>2, <3>2 DEF Drain, InReview, OwnerStates
    <3> QED BY <3>1, <3>2
  <2>3. CASE Verify(v)
    BY <1>1, <1>2, <2>3 DEF Verify, InReview, OwnerStates
  <2>4. CASE CloseOwner(v)
    <3>1. CASE e.st \in {"mounted", "draining", "review"}
      BY <1>1, <1>2, <2>4, <3>1, Zenon DEF CloseOwner, InReview, OwnerStates
    <3>2. CASE e.st \notin {"mounted", "draining", "review"}
      BY <1>1, <1>2, <2>4, <3>2 DEF CloseOwner, OwnerStates
    <3> QED BY <3>1, <3>2
  <2> QED BY <2>1, <2>2, <2>3, <2>4
<1>5. PICK f : f = [e EXCEPT !.st = x]
  BY Zenon
<1>6. f \in OwnerRecords /\ f.kids = own[v].kids /\ f.st = x /\ f.gen = e.gen
  BY <1>1, <1>5, OwnerRecordsAre
<1>7. own' = [own EXCEPT ![v] = f] /\ at' \in [Volumes -> SUBSET {"ours", "other"}]
  BY <1>2, <1>3, <1>4, <1>5
<1>8. (f.st = "qualified" => f.gen < MaxMounts) /\ (own[v].st = "draining" => f.st # "unavailable")
  BY <1>1, <1>4, <1>6
<1> QED BY <1>3, <1>6, <1>7, <1>8, OwnerStepKeeps, Zenon

\* Mount: one bind, or review.
LEMMA MountKeeps ==
    ASSUME RosterTypes, Leased, NEW v \in Volumes, Mount(v)
    PROVE  RosterTypes' /\ Leased' /\ Untaken /\ UNCHANGED <<set, grp, pin, faults>>
<1>1. PICK e \in OwnerRecords : e = own[v]
  BY DEF RosterTypes, Owners
<1>2. own \in [Volumes -> OwnerRecords] /\ at \in [Volumes -> SUBSET {"ours", "other"}]
  BY DEF RosterTypes, Owners
<1>3. e.st = "qualified" /\ e.gen \in Nat /\ MaxMounts \in Nat /\ e.gen < MaxMounts
  BY <1>1, RosterAssumption DEF Mount, OwnerRecords, RosterTypes, Owners
<1>4. UNCHANGED <<set, grp, pin, faults>> /\ at' \in [Volumes -> SUBSET {"ours", "other"}]
  BY <1>2 DEF Mount
<1>5. PICK bound : bound = [e EXCEPT !.st = "mounted", !.gen = e.gen + 1]
  OBVIOUS
<1>6. bound \in OwnerRecords /\ bound.kids = e.kids /\ bound.st = "mounted"
  <2>1. bound = [st |-> "mounted", gen |-> e.gen + 1, kids |-> e.kids] /\ e.kids \in SUBSET Groups
    BY <1>5, Zenon DEF OwnerRecords
  <2>2. e.gen + 1 \in 0..MaxMounts
    BY <1>3
  <2> QED BY <2>1, <2>2 DEF OwnerRecords, OwnerStates
<1>7. PICK f : /\ own' = [own EXCEPT ![v] = f]
               /\ f = bound \/ \E x \in {"rejected", "review"} : f = [e EXCEPT !.st = x]
  <2>1. CASE own' = [own EXCEPT ![v].st = "rejected"]
    BY <1>1, <1>2, <2>1, Zenon
  <2>2. CASE own' # [own EXCEPT ![v].st = "rejected"]
    <3>1. PICK made \in BOOLEAN, sure \in BOOLEAN :
            own' = [own EXCEPT ![v] = IF made /\ sure THEN [@ EXCEPT !.st = "mounted", !.gen = own[v].gen + 1] ELSE InReview(@)]
      BY <2>2 DEF Mount
    <3>2. CASE made /\ sure
      BY <1>1, <1>2, <1>5, <3>1, <3>2, Zenon
    <3>3. CASE ~(made /\ sure)
      BY <1>1, <1>2, <3>1, <3>3, Zenon DEF InReview
    <3> QED BY <3>2, <3>3
  <2> QED BY <2>1, <2>2
<1>8. f \in OwnerRecords /\ f.kids = own[v].kids /\ f.st \notin {"qualified", "unavailable"}
  BY <1>1, <1>6, <1>7, OwnerRecordsAre DEF OwnerStates
<1> QED BY <1>4, <1>7, <1>8, OwnerStepKeeps, Zenon

\* Unmount, which takes the volume of an Owner without children.
LEMMA UnmountKeeps ==
    ASSUME RosterTypes, Leased, NEW v \in Volumes, Unmount(v)
    PROVE  /\ RosterTypes' /\ Leased' /\ UNCHANGED <<set, grp, pin, faults>> /\ own[v].kids = {}
           /\ \A u \in Volumes : u # v => own'[u] = own[u]
<1>1. PICK e \in OwnerRecords : e = own[v]
  BY DEF RosterTypes, Owners
<1>2. own \in [Volumes -> OwnerRecords] /\ at \in [Volumes -> SUBSET {"ours", "other"}]
  BY DEF RosterTypes, Owners
<1>3. UNCHANGED <<set, grp, pin, faults>> /\ own[v].kids = {}
  BY DEF Unmount
<1>4. at' \in [Volumes -> SUBSET {"ours", "other"}]
  BY <1>2 DEF Unmount
<1>5. PICK f : own' = [own EXCEPT ![v] = f] /\ f \in {[e EXCEPT !.st = "unavailable"], [e EXCEPT !.st = "review"]}
  BY <1>1, <1>2 DEF Unmount, InReview
<1>6. f \in OwnerRecords /\ f.kids = e.kids /\ f.st \in {"unavailable", "review"}
  BY <1>5 DEF OwnerRecords, OwnerStates
<1>7. RosterTypes' /\ Leased'
  BY <1>1, <1>3, <1>4, <1>5, <1>6, OwnerStepKeeps, Zenon
<1> QED BY <1>2, <1>3, <1>5, <1>7

\* Somebody else changes the mount table.
LEMMA MeddleKeeps ==
    ASSUME RosterTypes, Leased, NEW v \in Volumes, Meddle(v)
    PROVE  RosterTypes' /\ Leased' /\ UNCHANGED <<own, set, grp, pin>>
<1>1. UNCHANGED <<own, set, grp, pin>>
  BY DEF Meddle
<1>2. at' \in [Volumes -> SUBSET {"ours", "other"}]
  BY DEF Meddle, RosterTypes
<1>3. faults' \in 0..MaxFaults
  BY RosterAssumption DEF Meddle, RosterTypes
<1> QED BY <1>1, <1>2, <1>3 DEF RosterTypes, Leased

\* A verification of the roster, whoever asks for it.
LEMMA ObserveKeeps ==
    ASSUME RosterTypes, Leased, own' = Observed, set' = AfterObserve, UNCHANGED <<at, grp, faults>>,
           pin' \in [Pins -> PinRecords], Pinned(pin', grp)
    PROVE  RosterTypes' /\ Leased' /\ Untaken
<1>1. PICK q : q = Observed
  OBVIOUS
<1>2. Reviewed(own, q) /\ Owners(own)
  BY <1>1, ObservedKeeps DEF RosterTypes
<1>3. Complete(q, grp)
  BY <1>2, ReviewedLeased DEF Leased
<1>4. AfterObserve \in Evidences
  BY EvidenceTyped
<1>5. RosterTypes'
  BY <1>1, <1>2, <1>4 DEF RosterTypes, Reviewed
<1> QED BY <1>1, <1>2, <1>3, <1>5 DEF Leased, Untaken, Reviewed

\* A pin is verified, opened or released: it is held, or was.
LEMMA PinStepKeeps ==
    ASSUME RosterTypes, Leased, NEW p \in Pins, VerifyPin(p) \/ OpenPin(p) \/ ReleasePin(p)
    PROVE  RosterTypes' /\ Leased' /\ Untaken /\ UNCHANGED <<at, grp, faults>>
<1>1. PICK e \in PinRecords : e = pin[p]
  BY DEF RosterTypes
<1>2. pin \in [Pins -> PinRecords] /\ Pinned(pin, grp)
  BY DEF RosterTypes, Leased
<1>3. UNCHANGED <<at, grp, faults>>
  BY DEF VerifyPin, OpenPin, ReleasePin
<1>4. PICK f \in PinRecords : /\ pin' = [pin EXCEPT ![p] = f]
                              /\ f.st = "held" => e.st = "held" /\ f.lease = e.lease
  <2>1. ASSUME NEW a \in BOOLEAN, NEW b \in BOOLEAN, NEW f, f = [e EXCEPT !.review = a, !.uncertain = b]
        PROVE  f \in PinRecords /\ f.st = e.st /\ f.lease = e.lease
    BY <2>1, Zenon DEF PinRecords
  <2>2. CASE VerifyPin(p)
    <3>1. PICK a \in BOOLEAN : pin' = [pin EXCEPT ![p].review = a]
      BY <2>2, Zenon DEF VerifyPin
    <3>2. PICK f : f = [e EXCEPT !.review = a]
      BY Zenon
    <3>3. f \in PinRecords /\ f.st = e.st /\ f.lease = e.lease
      BY <3>2, Zenon DEF PinRecords
    <3>4. pin' = [pin EXCEPT ![p] = f]
      BY <1>1, <1>2, <3>1, <3>2
    <3> QED BY <3>3, <3>4, Zenon
  <2>3. CASE OpenPin(p)
    <3>1. PICK a \in BOOLEAN, b \in BOOLEAN : pin' = [pin EXCEPT ![p].review = a, ![p].uncertain = b]
      BY <2>3, Zenon DEF OpenPin
    <3>2. PICK f : f = [e EXCEPT !.review = a, !.uncertain = b]
      OBVIOUS
    <3>3. f \in PinRecords /\ f.st = e.st /\ f.lease = e.lease
      BY <2>1, <3>2, Zenon
    <3>4. pin' = [pin EXCEPT ![p] = f]
      BY <1>1, <1>2, <3>1, <3>2, Zenon
    <3> QED BY <3>3, <3>4, Zenon
  <2>4. CASE ReleasePin(p)
    <3>1. PICK f : f = [NoPin EXCEPT !.st = "released"]
      BY Zenon
    <3>2. f \in PinRecords /\ f.st = "released"
      BY <3>1, Zenon DEF NoPin, PinRecords
    <3> QED BY <2>4, <3>1, <3>2, Zenon DEF ReleasePin
  <2> QED BY <2>2, <2>3, <2>4
<1>5. \A r \in Pins : pin'[r] = IF r = p THEN f ELSE pin[r]
  BY <1>2, <1>4
<1>6. pin' \in [Pins -> PinRecords] /\ Pinned(pin', grp)
  BY <1>1, <1>2, <1>4, <1>5 DEF Pinned
<1>7. CASE VerifyPin(p) \/ OpenPin(p)
  <2>1. own' = Observed /\ set' = AfterObserve
    BY <1>7 DEF VerifyPin, OpenPin, VerifyGroup
  <2> QED BY <1>3, <1>6, <2>1, ObserveKeeps
<1>8. CASE ReleasePin(p)
  <2>1. UNCHANGED <<own, set>>
    BY <1>8 DEF ReleasePin
  <2> QED BY <1>3, <1>6, <2>1 DEF RosterTypes, Leased, Untaken
<1> QED BY <1>3, <1>7, <1>8

\* PinVolumeRoot of another consumer's lease.
LEMMA PinRootKeeps ==
    ASSUME RosterTypes, Leased, NEW p \in Pins, NEW l \in Others, PinRoot(p, l)
    PROVE  RosterTypes' /\ Leased' /\ Untaken /\ UNCHANGED <<at, grp, faults>>
<1>1. pin \in [Pins -> PinRecords] /\ Pinned(pin, grp)
  BY DEF RosterTypes, Leased
<1>2. UNCHANGED <<at, grp, faults>> /\ own' = Observed /\ set' = AfterObserve /\ grp[l].st = "open"
  BY DEF PinRoot, VerifyGroup
<1>3. PICK f : f = [NoPin EXCEPT !.st = "held", !.lease = l]
  OBVIOUS
<1>4. f \in PinRecords /\ f.lease = l
  BY <1>3, Zenon DEF NoPin, PinRecords, Others
<1>5. pin' = pin \/ pin' = [pin EXCEPT ![p] = f]
  BY <1>3 DEF PinRoot
<1>6. pin' \in [Pins -> PinRecords] /\ Pinned(pin', grp)
  BY <1>1, <1>2, <1>4, <1>5 DEF Pinned
<1> QED BY <1>2, <1>6, ObserveKeeps

\* MountedVolumeSet.Acquire: every member's child, or none.
LEMMA AcquireKeeps ==
    ASSUME RosterTypes, Leased, NEW l \in Groups, Acquire(l)
    PROVE  /\ RosterTypes' /\ Leased' /\ Untaken /\ UNCHANGED <<at, pin, faults>>
           /\ grp[l].st = "none" /\ (grp' = grp \/ grp'[l].st = "open")
           /\ \A k \in Groups : k # l => grp'[k] = grp[k]
<1>1. /\ UNCHANGED <<at, pin, faults>> /\ grp[l].st = "none" /\ set' = AfterObserve
      /\ Owners(own) /\ grp \in [Groups -> GroupRecords] /\ pin \in [Pins -> PinRecords] /\ Pinned(pin, grp)
  BY DEF Acquire, RosterTypes, Leased
<1>2. CASE own' = Observed /\ grp' = grp
  BY <1>1, <1>2, ObserveKeeps
<1>3. CASE ~(own' = Observed /\ grp' = grp)
  <2>1. /\ Vouched /\ own' = GiveChildren(own, l, Volumes)
        /\ grp' = [grp EXCEPT ![l] = [st |-> "open", seen |-> NextEvidence]]
    BY <1>3 DEF Acquire
  <2>2. PICK q, e : q = GiveChildren(own, l, Volumes) /\ e = [st |-> "open", seen |-> NextEvidence]
    BY Zenon
  <2>3. Owners(q) /\ \A v \in Volumes : q[v].kids = own[v].kids \cup {l} /\ q[v].st = own[v].st
    BY <1>1, <2>2, GiveGives
  <2>4. e \in GroupRecords /\ e.st = "open"
    BY <2>1, <2>2, EvidenceTyped DEF GroupRecords
  <2>5. \A k \in Groups : grp'[k] = IF k = l THEN e ELSE grp[k]
    BY <1>1, <2>1, <2>2
  <2>6. grp' \in [Groups -> GroupRecords]
    BY <1>1, <2>1, <2>2, <2>4
  <2>7. Complete(own', grp')
    BY <2>1, <2>2, <2>3, <2>4, <2>5 DEF Leased, Complete
  <2>8. Pinned(pin', grp')
    BY <1>1, <2>4, <2>5 DEF Pinned, Others
  <2>9. RosterTypes'
    BY <1>1, <2>1, <2>2, <2>3, <2>6, EvidenceTyped DEF RosterTypes
  <2>10. Untaken
    BY <2>1, <2>2, <2>3 DEF Untaken
  <2> QED BY <1>1, <2>4, <2>5, <2>7, <2>8, <2>9, <2>10 DEF Leased
<1> QED BY <1>2, <1>3

\* The children of a lease are given back and the lease is closed, after the
\* Owners went from own to o by reviews alone.
LEMMA GiveBackKeeps ==
    ASSUME RosterTypes, Leased, NEW l \in Groups, NEW o, Reviewed(own, o), NEW doubtful,
           own' = Returned(o, l, doubtful), grp' = [grp EXCEPT ![l] = Closed],
           UNCHANGED <<at, set, pin, faults>>, \A p \in Pins : pin[p].st = "held" => pin[p].lease # l
    PROVE  RosterTypes' /\ Leased' /\ Untaken /\ grp'[l].st = "closed" /\ \A k \in Groups : k # l => grp'[k] = grp[k]
<1>1. PICK q, e : q = Returned(o, l, doubtful) /\ e = Closed
  OBVIOUS
<1>2. Owners(q) /\ \A v \in Volumes : q[v].kids = o[v].kids \ {l} /\ q[v].st \in {o[v].st, "review"}
  BY <1>1, ReturnedGives DEF Reviewed
<1>3. e \in GroupRecords /\ e.st = "closed"
  BY <1>1, RosterAssumption DEF Closed, NoEvidence, GroupRecords, Evidences
<1>4. grp \in [Groups -> GroupRecords] /\ \A k \in Groups : grp'[k] = IF k = l THEN e ELSE grp[k]
  BY <1>1 DEF RosterTypes
<1>5. grp' \in [Groups -> GroupRecords]
  BY <1>1, <1>3, <1>4
<1>6. \A v \in Volumes : q[v].kids = own[v].kids \ {l} /\ q[v].st \in {own[v].st, "review"}
  BY <1>2 DEF Reviewed
<1>7. Complete(own', grp')
  BY <1>1, <1>3, <1>4, <1>6 DEF Leased, Complete
<1>8. Pinned(pin', grp')
  BY <1>3, <1>4 DEF Leased, Pinned, Others
<1>9. RosterTypes'
  BY <1>1, <1>2, <1>5 DEF RosterTypes
<1>10. Untaken
  BY <1>1, <1>6 DEF Untaken
<1> QED BY <1>3, <1>4, <1>7, <1>8, <1>9, <1>10 DEF Leased

\* The Close of another consumer's lease.
LEMMA CloseGroupKeeps ==
    ASSUME RosterTypes, Leased, NEW l \in Others, NEW doubtful, CloseGroup(l, doubtful),
           UNCHANGED <<at, set, pin, faults>>
    PROVE  RosterTypes' /\ Leased' /\ Untaken /\ grp'["handoff"] = grp["handoff"]
<1>1. Reviewed(own, own) /\ l \in Groups
  BY SameReviewed DEF RosterTypes, Others
<1>2. own' = Returned(own, l, doubtful) /\ grp' = [grp EXCEPT ![l] = Closed]
  BY DEF CloseGroup
<1>3. \A p \in Pins : pin[p].st = "held" => pin[p].lease # l
  BY DEF CloseGroup, HeldPins
<1>4. RosterTypes' /\ Leased' /\ Untaken /\ \A k \in Groups : k # l => grp'[k] = grp[k]
  BY <1>1, <1>2, <1>3, GiveBackKeeps, Zenon
<1> QED BY <1>4, HandoffAssumption DEF Others

-----------------------------------------------------------------------------
(* The steps of the handoff.                                               *)

\* The handoff's lease has no root pins.
LEMMA HandoffUnpinned ==
    ASSUME Leased
    PROVE  "handoff" \in Groups /\ \A p \in Pins : pin[p].st = "held" => pin[p].lease # "handoff"
BY HandoffAssumption DEF Leased, Pinned, Others

\* The first share that is not attached yet.
LEMMA NextShare ==
    ASSUME NEW of, ~of[NVolumes].mounted, NEW s, s = Min({x \in Shares : ~of[x].mounted})
    PROVE  s \in Shares /\ ~of[s].mounted /\ (s = NVolumes => \A x \in Shares : x # s => of[x].mounted)
<1>1. NVolumes \in Nat /\ NVolumes \in Shares
  BY RosterAssumption DEF Shares, Volumes
<1>2. PICK S : S = {x \in Shares : ~of[x].mounted}
  OBVIOUS
<1>3. S \subseteq Nat /\ NVolumes \in S
  BY <1>1, <1>2 DEF Shares, Volumes
<1>4. \E x \in S : \A y \in S : x <= y
  <2> DEFINE less == OpToRel(<, Nat)
  <2>1. IsWellFoundedOn(less, Nat)
    BY NatLessThanWellFounded, Zenon
  <2>2. \A x, y \in Nat : y < x => <<y, x>> \in less
    BY DEF OpToRel
  <2> HIDE DEF less
  <2>3. PICK x \in S : \A y \in S : ~(<<y, x>> \in less)
    BY <1>3, <2>1, WFMin, Zenon
  <2>4. \A y \in S : x \in Nat /\ y \in Nat /\ ~(y < x)
    BY <1>3, <2>2, <2>3, Zenon
  <2> QED BY <2>4
<1>5. s \in S /\ \A y \in S : s <= y
  BY <1>2, <1>4 DEF Min
<1>6. ASSUME s = NVolumes, NEW x \in Shares, x # s PROVE x \notin S
  <2>1. x \in Nat /\ x <= NVolumes
    BY <1>1 DEF Shares, Volumes
  <2>2. x \in S => NVolumes <= x
    BY <1>5, <1>6, Zenon
  <2> QED BY <1>1, <1>6, <2>1, <2>2
<1> QED BY <1>2, <1>5, <1>6

\* The members Close leaves behind.
LEMMA DetachedGives ==
    ASSUME hand \in Handoffs, NEW s \in Shares, NEW e \in {"clean", "busy", "dirty"}, NEW m, m = Detached(s, e)
    PROVE  /\ m \in Members /\ (Left(m) => Left(hand.of[s]))
           /\ "ours" \in PathAfter(s, e) /\ (hand.of[s].mounted \/ hand.of[s].uncertain) => m.uncertain
<1>1. PICK d \in BOOLEAN, a \in BOOLEAN, u \in BOOLEAN : hand.of[s] = [dir |-> d, mounted |-> a, uncertain |-> u]
  BY Zenon DEF Handoffs, Members
<1> PICK k : k = hand.of[s]
  OBVIOUS
<1>0. k = [dir |-> d, mounted |-> a, uncertain |-> u] /\ k.dir = d /\ k.mounted = a /\ k.uncertain = u
  BY <1>1
<1>2. PICK c \in BOOLEAN : c = (d /\ e # "clean")
  BY Zenon
<1>3. CASE u
  <2>1. m = hand.of[s]
    BY <1>1, <1>3 DEF Detached
  <2> QED BY <1>1, <1>3, <2>1 DEF Members
<1>4. CASE ~u /\ a /\ (path[s] # {"ours"} \/ e = "busy")
  <2>1. m = [dir |-> d, mounted |-> a, uncertain |-> TRUE]
    <3>1. m = [k EXCEPT !.uncertain = TRUE]
      BY <1>0, <1>4 DEF Detached
    <3> QED BY <1>0, <3>1, Zenon
  <2> QED BY <1>1, <1>4, <2>1 DEF Members, Left
<1>5. CASE ~u /\ ~(a /\ (path[s] # {"ours"} \/ e = "busy"))
  <2>1. m = [dir |-> c, mounted |-> FALSE, uncertain |-> c]
    <3>1. m = [k EXCEPT !.mounted = FALSE, !.dir = c, !.uncertain = c]
      BY <1>0, <1>2, <1>5 DEF Detached
    <3> QED BY <1>0, <3>1, Zenon
  <2>2. Left(m) => Left(hand.of[s])
    BY <1>1, <1>2, <2>1 DEF Left
  <2>3. a => PathAfter(s, e) = {}
    BY <1>1, <1>5 DEF PathAfter
  <2> QED BY <1>1, <1>5, <2>1, <2>2, <2>3 DEF Members
<1> QED BY <1>3, <1>4, <1>5

\* Close of the handoff, when no process may live and nothing is being
\* attached.
LEMMA CloseHandoffKeeps ==
    ASSUME Types, Leased, Held(hand, grp, path), CloseHandoff, UNCHANGED <<at, set, pin, faults>>
    PROVE  /\ RosterTypes' /\ Leased' /\ Untaken /\ hand' \in Handoffs /\ hand'.isolated = hand.isolated
           /\ path' \in [Shares -> SUBSET {"ours", "other"}] /\ Held(hand', grp', path')
<1> USE DEF Shares
<1>1. PICK end \in Ends, doubtful \in Doubts("handoff"), rootCloses \in BOOLEAN :
        IF hand.pinned \/ hand.closed THEN UNCHANGED <<own, grp, hand, path>>
        ELSE LET of == [s \in Shares |-> Detached(s, end[s])]
                 drop == AllDetached(of) /\ hand.lease
                 sure == AllDetached(of) /\ (drop => doubtful = {})
                 review == hand.review \/ ~sure \/ ~rootCloses
             IN /\ path' = [s \in Shares |-> PathAfter(s, end[s])]
                /\ own' = IF drop THEN Returned(own, "handoff", doubtful) ELSE own
                /\ grp' = IF drop THEN [grp EXCEPT !["handoff"] = Closed] ELSE grp
                /\ hand' = [hand EXCEPT
                      !.of = of,
                      !.lease = @ /\ ~drop,
                      !.review = review,
                      !.st = IF review THEN "review" ELSE "closed",
                      !.closed = sure]
  BY Zenon DEF CloseHandoff
<1>2. CASE hand.pinned \/ hand.closed
  BY <1>1, <1>2 DEF Types, RosterTypes, Leased, Untaken
<1>3. CASE ~(hand.pinned \/ hand.closed)
  <2>1. PICK of : of = [s \in Shares |-> Detached(s, end[s])]
    BY Zenon
  <2>2. end \in [Shares -> {"clean", "busy", "dirty"}]
    BY DEF Ends
  <2>3. ASSUME NEW s \in Shares
        PROVE  /\ of[s] \in Members /\ (Left(of[s]) => Left(hand.of[s]))
               /\ "ours" \in PathAfter(s, end[s]) /\ (hand.of[s].mounted \/ hand.of[s].uncertain) => of[s].uncertain
    BY <2>1, <2>2, DetachedGives DEF Types
  <2>4. of \in [Shares -> Members]
    BY <2>1, <2>3
  <2>5. PICK drop \in BOOLEAN : drop = (AllDetached(of) /\ hand.lease)
    BY Zenon
  <2>6. PICK sure \in BOOLEAN : sure = (AllDetached(of) /\ (drop => doubtful = {}))
    BY Zenon
  <2>7. PICK review \in BOOLEAN : review = (hand.review \/ ~sure \/ ~rootCloses)
    BY Zenon
  <2>8. PICK lease \in BOOLEAN : lease = (hand.lease /\ ~drop)
    BY Zenon
  <2>9. /\ path' = [s \in Shares |-> PathAfter(s, end[s])]
        /\ own' = IF drop THEN Returned(own, "handoff", doubtful) ELSE own
        /\ grp' = IF drop THEN [grp EXCEPT !["handoff"] = Closed] ELSE grp
        /\ hand' = [hand EXCEPT !.of = of, !.lease = lease, !.review = review,
                                !.st = IF review THEN "review" ELSE "closed", !.closed = sure]
    BY <1>1, <1>3, <2>1, <2>5, <2>6, <2>7, <2>8, Zenon
  <2>10. /\ hand' \in Handoffs /\ hand'.isolated = hand.isolated
         /\ hand'.of = of /\ hand'.lease = lease /\ hand'.closed = sure
    BY <2>4, <2>9, Zenon DEF Types, Handoffs
  <2>11. path' \in [Shares -> SUBSET {"ours", "other"}] /\ \A s \in Shares : path'[s] = PathAfter(s, end[s])
    BY <2>9 DEF Types, PathAfter
  <2>12. RosterTypes' /\ Leased' /\ Untaken /\ (grp'["handoff"].st = "open" <=> lease)
    <3>1. CASE drop
      <4>1. Reviewed(own, own)
        BY SameReviewed DEF Types, RosterTypes
      <4>2. RosterTypes' /\ Leased' /\ Untaken /\ grp'["handoff"].st = "closed"
        BY <2>9, <3>1, <4>1, HandoffUnpinned, GiveBackKeeps, Zenon DEF Types
      <4> QED BY <2>8, <3>1, <4>2, Zenon
    <3>2. CASE ~drop
      BY <2>8, <2>9, <3>2, Zenon DEF Types, RosterTypes, Leased, Untaken, Held
    <3> QED BY <3>1, <3>2
  <2>13. \A s \in Shares : Left(of[s]) => lease
    BY <2>3, <2>5, <2>8, Zenon DEF Held, AllDetached, Left
  <2>14. lease => ~sure
    BY <2>5, <2>6, <2>8, Zenon
  <2>15. \A s \in Shares : "ours" \in path'[s] => of[s].mounted \/ of[s].uncertain
    BY <2>3, <2>11 DEF Held, PathAfter
  <2> QED BY <2>10, <2>11, <2>12, <2>13, <2>14, <2>15 DEF Held
<1> QED BY <1>2, <1>3

\* A share that was not attached: the Owners went from own to o by reviews, of
\* is what the members are and path' what the service paths show by now.
LEMMA AttachFailedKeeps ==
    ASSUME Types, Leased, Held(hand, grp, path), hand.lease, NEW of \in [Shares -> Members],
           NEW o, Reviewed(own, o), NEW cause, AttachFailed(of, o, cause), UNCHANGED <<at, set, pin, faults>>,
           \A s \in Shares : "ours" \in path'[s] => of[s].mounted \/ of[s].uncertain
    PROVE  /\ RosterTypes' /\ Leased' /\ Untaken /\ hand' \in Handoffs /\ Held(hand', grp', path')
           /\ run' = [run EXCEPT !.pc = "close", !.to = "stopped"]
<1>1. PICK stuck \in SUBSET {s \in Shares : of[s].dir}, doubtful \in Doubts("handoff") :
        LET undo == ~Attempted(of) /\ stuck = {}
            clean == undo /\ doubtful = {}
        IN /\ own' = IF undo THEN Returned(o, "handoff", doubtful) ELSE o
           /\ grp' = IF undo THEN [grp EXCEPT !["handoff"] = Closed] ELSE grp
           /\ hand' = [hand EXCEPT
                !.lease = ~undo,
                !.members = IF clean THEN {} ELSE @,
                !.of = IF Attempted(of) THEN of
                       ELSE [s \in Shares |-> IF s \in stuck THEN StuckMember ELSE NoMember],
                !.review = @ \/ ~clean \/ cause = "review",
                !.st = IF clean /\ cause # "review" THEN "prepared" ELSE "review"]
  BY Zenon DEF AttachFailed
<1>2. PICK undo \in BOOLEAN : undo = (~Attempted(of) /\ stuck = {})
  BY Zenon
<1>3. PICK clean \in BOOLEAN : clean = (undo /\ doubtful = {})
  BY Zenon
<1>4. PICK w : w = IF Attempted(of) THEN of
                   ELSE [s \in Shares |-> IF s \in stuck THEN StuckMember ELSE NoMember]
  BY Zenon
<1>5. PICK lease \in BOOLEAN : lease = ~undo
  BY Zenon
<1>6. PICK review \in BOOLEAN : review = (hand.review \/ ~clean \/ cause = "review")
  BY Zenon
<1>7. PICK mm, st : /\ mm = (IF clean THEN {} ELSE hand.members)
                    /\ st = (IF clean /\ cause # "review" THEN "prepared" ELSE "review")
  BY Zenon
<1>8. /\ own' = IF undo THEN Returned(o, "handoff", doubtful) ELSE o
      /\ grp' = IF undo THEN [grp EXCEPT !["handoff"] = Closed] ELSE grp
      /\ hand' = [hand EXCEPT !.lease = lease, !.members = mm, !.of = w, !.review = review, !.st = st]
  BY <1>1, <1>2, <1>3, <1>4, <1>5, <1>6, <1>7, Zenon
<1>9. ASSUME NEW s \in Shares
      PROVE  /\ w[s] \in Members /\ (Attempted(of) => w[s] = of[s])
             /\ (~Attempted(of) /\ Left(w[s]) => stuck # {})
  <2>1. CASE Attempted(of)
    BY <1>4, <2>1
  <2>2. CASE ~Attempted(of)
    <3>1. w[s] = IF s \in stuck THEN StuckMember ELSE NoMember
      BY <1>4, <2>2
    <3> QED BY <2>2, <3>1 DEF StuckMember, NoMember, Members, Left
  <2> QED BY <2>1, <2>2
<1>10. w \in [Shares -> Members]
  BY <1>4, <1>9
<1>11. mm \in SUBSET Shares /\ st \in {"prepared", "review"}
  BY <1>7 DEF Types, Handoffs
<1>12. hand' \in Handoffs /\ hand'.of = w /\ hand'.lease = lease /\ hand'.closed = hand.closed
  BY <1>8, <1>10, <1>11, Zenon DEF Types, Handoffs
<1>13. RosterTypes' /\ Leased' /\ Untaken /\ (grp'["handoff"].st = "open" <=> lease)
  <2>1. CASE undo
    <3>1. RosterTypes' /\ Leased' /\ Untaken /\ grp'["handoff"].st = "closed"
      BY <1>8, <2>1, HandoffUnpinned, GiveBackKeeps, Zenon DEF Types
    <3> QED BY <1>5, <2>1, <3>1, Zenon
  <2>2. CASE ~undo
    <3>1. own' = o /\ grp' = grp /\ Complete(o, grp)
      BY <1>8, <2>2, ReviewedLeased DEF Leased
    <3>2. RosterTypes' /\ Leased' /\ Untaken
      BY <3>1 DEF Types, RosterTypes, Leased, Untaken, Reviewed
    <3> QED BY <1>5, <2>2, <3>1, <3>2, Zenon DEF Held
  <2> QED BY <2>1, <2>2
<1>14. \A s \in Shares : Left(w[s]) => lease
  BY <1>2, <1>5, <1>9, Zenon
<1>15. \A s \in Shares : "ours" \in path'[s] => w[s].mounted \/ w[s].uncertain
  BY <1>9 DEF Attempted
<1>16. ~hand.closed
  BY DEF Held
<1>17. run' = [run EXCEPT !.pc = "close", !.to = "stopped"]
  BY DEF AttachFailed, Goto
<1> QED BY <1>12, <1>13, <1>14, <1>15, <1>16, <1>17 DEF Held

\* A member of which a clone is, or may be, in place.
Cloned(m) == m.mounted \/ m.uncertain

\* A member whose directory is made.
WithDir(of, s) == [of EXCEPT ![s].dir = TRUE]

\* ... may have been cloned before.
LEMMA MemberMade ==
    ASSUME NEW of \in [Shares -> Members], NEW s \in Shares, NEW w, w = WithDir(of, s)
    PROVE  w \in [Shares -> Members] /\ (\A x \in Shares : x # s => w[x] = of[x]) /\ (Cloned(of[s]) => Cloned(w[s]))
<1>1. PICK d \in BOOLEAN, a \in BOOLEAN, u \in BOOLEAN : of[s] = [dir |-> d, mounted |-> a, uncertain |-> u]
  BY DEF Members
<1> QED BY <1>1, Zenon DEF Members, Cloned, WithDir

\* A member in doubt.
LEMMA MemberDoubted ==
    ASSUME NEW of \in [Shares -> Members], NEW s \in Shares, NEW w, w = [of EXCEPT ![s].uncertain = TRUE]
    PROVE  w \in [Shares -> Members] /\ (\A x \in Shares : x # s => w[x] = of[x]) /\ w[s].uncertain
<1>1. PICK d \in BOOLEAN, a \in BOOLEAN, u \in BOOLEAN : of[s] = [dir |-> d, mounted |-> a, uncertain |-> u]
  BY DEF Members
<1> QED BY <1>1, Zenon DEF Members

\* A member whose clone is in place.
LEMMA MemberAttached ==
    ASSUME NEW of \in [Shares -> Members], NEW s \in Shares, NEW w, w = [of EXCEPT ![s].mounted = TRUE]
    PROVE  w \in [Shares -> Members] /\ (\A x \in Shares : x # s => w[x] = of[x]) /\ w[s].mounted
<1>1. PICK d \in BOOLEAN, a \in BOOLEAN, u \in BOOLEAN : of[s] = [dir |-> d, mounted |-> a, uncertain |-> u]
  BY DEF Members
<1> QED BY <1>1, Zenon DEF Members

\* What a step owes to the invariant once its own part is known.
LEMMA Assembled ==
    ASSUME RosterTypes', Leased', hand' \in Handoffs, path' \in [Shares -> SUBSET {"ours", "other"}],
           run' \in Runs, proc' \in {"off", "on", "unknown"}, Held(hand', grp', path'), Running(hand', run', proc')
    PROVE  IInv'
BY DEF IInv, Types

\* The mutex holder goes on, or answers.
LEMMA RunIs ==
    ASSUME run \in Runs
    PROVE  /\ \A pc, to : /\ Goto(pc, to) => run'.pc = pc /\ run'.to = to /\ run'.st = run.st
                          /\ /\ Goto(pc, to)
                             /\ pc \in {"mount", "attach", "bind", "launch", "check", "stop", "close"}
                             /\ to \in {"", "stopped", "review"}
                             => run' \in Runs
           /\ \A st : /\ Answer(st) => run'.pc = "" /\ run'.st = st
                      /\ Answer(st) /\ st \in {"ready", "review", "stopped"} => run' \in Runs
BY Zenon DEF Runs, Goto, Answer

\* attachLocked of the next share.
LEMMA AttachKeeps ==
    ASSUME IInv, Attach
    PROVE  IInv' /\ Untaken
<1>1. /\ Types /\ Leased /\ Held(hand, grp, path) /\ Running(hand, run, proc) /\ hand \in Handoffs /\ run \in Runs
      /\ run.pc = "attach" /\ hand.lease /\ ~hand.of[NVolumes].mounted /\ proc = "off"
      /\ UNCHANGED <<at, set, pin, faults, proc>> /\ hand.of \in [Shares -> Members] /\ ~hand.closed
      /\ path \in [Shares -> SUBSET {"ours", "other"}]
  BY Zenon DEF IInv, Types, Attach, Running, Held, Handoffs
<1>2. PICK s : s = Min({x \in Shares : ~hand.of[x].mounted})
  OBVIOUS
<1>3. s \in Shares /\ ~hand.of[s].mounted /\ (s = NVolumes => \A x \in Shares : x # s => hand.of[x].mounted)
  BY <1>1, <1>2, NextShare
<1>4. PICK o : o = IF own[s].st = "mounted" /\ ~Exact(s) THEN [own EXCEPT ![s] = InReview(@)] ELSE own
  BY Zenon
<1>5. Reviewed(own, o) /\ Reviewed(own, own)
  BY <1>1, <1>4, InReviewKeeps, SameReviewed, Zenon DEF Types, RosterTypes
<1>6. PICK made : made = [hand.of EXCEPT ![s].dir = TRUE]
  BY Zenon
<1>7. /\ made \in [Shares -> Members] /\ \A x \in Shares : x # s => made[x] = hand.of[x]
      /\ (Cloned(hand.of[s]) => Cloned(made[s]))
  <2>1. PICK w \in [Shares -> Members] : w = hand.of
    BY <1>1
  <2>2. made = WithDir(w, s)
    BY <1>6, <2>1 DEF WithDir
  <2>3. /\ made \in [Shares -> Members] /\ \A x \in Shares : x # s => made[x] = w[x]
        /\ (Cloned(w[s]) => Cloned(made[s]))
    BY <1>3, <2>2, MemberMade
  <2> QED BY <2>1, <2>3
<1>8. \A x \in Shares : "ours" \in path[x] => hand.of[x].mounted \/ hand.of[x].uncertain
  BY <1>1 DEF Held
<1>9. \A x \in Shares : "ours" \in path[x] => made[x].mounted \/ made[x].uncertain
  BY <1>7, <1>8 DEF Cloned
<1>10. ASSUME NEW of \in [Shares -> Members], NEW q, Reviewed(own, q), NEW cause, AttachFailed(of, q, cause),
              path' \in [Shares -> SUBSET {"ours", "other"}],
              \A x \in Shares : "ours" \in path'[x] => of[x].mounted \/ of[x].uncertain
       PROVE  IInv' /\ Untaken
  <2>1. /\ RosterTypes' /\ Leased' /\ Untaken /\ hand' \in Handoffs /\ Held(hand', grp', path')
        /\ run' = [run EXCEPT !.pc = "close", !.to = "stopped"]
    BY <1>1, <1>10, AttachFailedKeeps
  <2>2. run' \in Runs /\ run'.pc = "close"
    BY <1>1, <2>1, Zenon DEF Runs
  <2>3. Running(hand', run', proc')
    BY <1>1, <2>2 DEF Running
  <2> QED BY <1>1, <1>10, <2>1, <2>2, <2>3, Assembled
<1>11. CASE AttachFailed(hand.of, own, "unavailable") /\ UNCHANGED path
  BY <1>1, <1>5, <1>8, <1>10, <1>11
<1>12. CASE (\E cause \in {"unavailable", "review"} : AttachFailed(made, o, cause)) /\ UNCHANGED path
  BY <1>1, <1>5, <1>7, <1>9, <1>10, <1>12
<1>13. CASE \E moved \in BOOLEAN : /\ path' = [path EXCEPT ![s] = IF moved THEN {"ours"} ELSE {}]
                                   /\ AttachFailed([made EXCEPT ![s].uncertain = TRUE], o, "review")
  <2>1. PICK of : of = [made EXCEPT ![s].uncertain = TRUE]
    BY Zenon
  <2>2. of \in [Shares -> Members] /\ of[s].uncertain /\ \A x \in Shares : x # s => of[x] = made[x]
    BY <1>3, <1>7, <2>1, MemberDoubted, Zenon
  <2>3. path' \in [Shares -> SUBSET {"ours", "other"}] /\ \A x \in Shares : x # s => path'[x] = path[x]
    BY <1>1, <1>3, <1>13
  <2>4. \A x \in Shares : "ours" \in path'[x] => of[x].mounted \/ of[x].uncertain
    BY <1>9, <2>2, <2>3
  <2>5. AttachFailed(of, o, "review")
    BY <1>13, <2>1
  <2> QED BY <1>5, <1>10, <2>2, <2>3, <2>4, <2>5
<1>14. CASE /\ path' = [path EXCEPT ![s] = {"ours"}]
            /\ hand' = [hand EXCEPT !.of = [made EXCEPT ![s].mounted = TRUE], !.st = IF s = NVolumes THEN "active" ELSE @]
            /\ Goto(IF s = NVolumes THEN "bind" ELSE "attach", "")
            /\ UNCHANGED <<own, grp>>
  <2>1. PICK of : of = [made EXCEPT ![s].mounted = TRUE]
    BY Zenon
  <2>2. of \in [Shares -> Members] /\ of[s].mounted /\ \A x \in Shares : x # s => of[x] = made[x]
    BY <1>3, <1>7, <2>1, MemberAttached, Zenon
  <2>3. path' \in [Shares -> SUBSET {"ours", "other"}] /\ \A x \in Shares : x # s => path'[x] = path[x]
    BY <1>1, <1>3, <1>14, Zenon
  <2>4. /\ hand' \in Handoffs /\ hand'.of = of /\ hand'.lease = hand.lease /\ hand'.closed = hand.closed
        /\ hand'.isolated = hand.isolated
    BY <1>1, <1>14, <2>1, <2>2, Zenon DEF Handoffs
  <2>5. run' \in Runs /\ run'.pc = (IF s = NVolumes THEN "bind" ELSE "attach")
    BY <1>1, <1>14, RunIs, Zenon
  <2>6. Held(hand', grp', path')
    BY <1>1, <1>9, <1>14, <2>2, <2>3, <2>4, Zenon DEF Held
  <2>7. NVolumes \in Shares
    BY RosterAssumption DEF Shares, Volumes
  <2>8. Running(hand', run', proc')
    BY <1>1, <1>7, <2>2, <2>4, <2>5, <2>7 DEF Running
  <2>9. RosterTypes' /\ Leased' /\ Untaken
    BY <1>1, <1>14, Zenon DEF Types, RosterTypes, Leased, Untaken
  <2> QED BY <1>1, <2>3, <2>4, <2>5, <2>6, <2>8, <2>9, Assembled
<1> QED BY <1>2, <1>4, <1>6, <1>11, <1>12, <1>13, <1>14, Zenon DEF Attach

\* The roster's lease is taken, or the start is given up.
LEMMA TakeRosterKeeps ==
    ASSUME IInv, TakeRoster
    PROVE  IInv' /\ Untaken
<1>1. /\ Types /\ RosterTypes /\ Leased /\ Held(hand, grp, path) /\ Running(hand, run, proc) /\ hand \in Handoffs
      /\ run \in Runs /\ run.pc = "mount" /\ proc = "off" /\ UNCHANGED <<path, proc>>
      /\ path \in [Shares -> SUBSET {"ours", "other"}]
  BY Zenon DEF IInv, Types, TakeRoster, Running
<1>2. CASE Goto("close", "stopped") /\ UNCHANGED <<at, own, set, grp, pin, faults, hand>>
  <2>1. run' \in Runs /\ run'.pc = "close"
    BY <1>1, <1>2, RunIs, Zenon
  <2>2. RosterTypes' /\ Leased' /\ Untaken
    BY <1>1, <1>2 DEF RosterTypes, Leased, Untaken
  <2>3. Held(hand', grp', path') /\ Running(hand', run', proc')
    BY <1>1, <1>2, <2>1 DEF Held, Running
  <2> QED BY <1>1, <1>2, <2>1, <2>2, <2>3, Assembled
<1>3. CASE ~hand.closed /\ Acquire("handoff")
  <2>1. /\ RosterTypes' /\ Leased' /\ Untaken /\ grp["handoff"].st = "none"
        /\ (grp' = grp \/ grp'["handoff"].st = "open")
    BY <1>1, <1>3, HandoffAssumption, AcquireKeeps
  <2>2. ~hand.lease /\ \A s \in Shares : ~Left(hand.of[s])
    BY <1>1, <2>1 DEF Held
  <2>3. CASE grp'["handoff"].st = "open"
    <3>1. hand' = [hand EXCEPT !.lease = TRUE, !.members = Shares] /\ Goto("attach", "")
      BY <1>1, <1>3, <2>1, <2>3, Zenon DEF TakeRoster
    <3>2. hand' \in Handoffs /\ hand'.lease /\ hand'.of = hand.of /\ hand'.closed = hand.closed
      BY <1>1, <3>1, Zenon DEF Handoffs
    <3>3. run' \in Runs /\ run'.pc = "attach"
      BY <1>1, <3>1, RunIs, Zenon
    <3>4. Held(hand', grp', path')
      BY <1>1, <1>3, <2>3, <3>2 DEF Held
    <3>5. NVolumes \in Shares
      BY RosterAssumption DEF Shares, Volumes
    <3>6. Running(hand', run', proc')
      BY <1>1, <2>2, <3>2, <3>3, <3>5 DEF Running, Left
    <3> QED BY <1>1, <2>1, <3>2, <3>3, <3>4, <3>6, Assembled
  <2>4. CASE grp'["handoff"].st # "open"
    <3>1. Goto("close", "stopped") /\ UNCHANGED hand /\ grp' = grp
      BY <1>1, <1>3, <2>1, <2>4 DEF TakeRoster
    <3>2. run' \in Runs /\ run'.pc = "close"
      BY <1>1, <3>1, RunIs, Zenon
    <3>3. Held(hand', grp', path') /\ Running(hand', run', proc')
      BY <1>1, <3>1, <3>2 DEF Held, Running
    <3> QED BY <1>1, <2>1, <3>1, <3>2, <3>3, Assembled
  <2> QED BY <2>3, <2>4
<1> QED BY <1>2, <1>3, Zenon DEF TakeRoster

\* Verify and Bindings change nothing but where the handoff and its Owners
\* stand.
LEMMA VerifiedKeeps ==
    ASSUME IInv, (own' = own /\ set' = set) \/ VerifyLease, UNCHANGED <<at, grp, pin, faults>>
    PROVE  /\ RosterTypes' /\ Leased' /\ Untaken
           /\ Verified \in Handoffs /\ Verified.of = hand.of /\ Verified.lease = hand.lease
           /\ Verified.closed = hand.closed /\ Verified.isolated = hand.isolated /\ Verified.pinned = hand.pinned
<1>1. RosterTypes /\ Leased /\ hand \in Handoffs /\ pin \in [Pins -> PinRecords] /\ Pinned(pin, grp)
  BY DEF IInv, Types, RosterTypes, Leased
<1>2. RosterTypes' /\ Leased' /\ Untaken
  <2>1. CASE own' = Observed /\ set' = AfterObserve
    BY <1>1, <2>1, ObserveKeeps
  <2>2. CASE own' = own /\ set' = set
    BY <1>1, <2>2 DEF RosterTypes, Leased, Untaken
  <2> QED BY <2>1, <2>2 DEF VerifyLease, VerifyGroup
<1> QED BY <1>1, <1>2, Zenon DEF Verified, Handoffs

\* Start's two looks at the handoff.
LEMMA CheckKeeps ==
    ASSUME IInv, Check
    PROVE  IInv' /\ Untaken
<1>1. /\ Held(hand, grp, path) /\ Running(hand, run, proc) /\ hand \in Handoffs /\ run \in Runs
      /\ run.pc \in {"bind", "check"} /\ proc \in {"off", "on", "unknown"} /\ hand' = Verified
      /\ UNCHANGED <<at, grp, pin, faults, path, proc>> /\ path \in [Shares -> SUBSET {"ours", "other"}]
  BY Zenon DEF IInv, Types, Check
<1>2. /\ RosterTypes' /\ Leased' /\ Untaken
      /\ hand' \in Handoffs /\ hand'.of = hand.of /\ hand'.lease = hand.lease
      /\ hand'.closed = hand.closed /\ hand'.isolated = hand.isolated /\ hand'.pinned = hand.pinned
  BY <1>1, VerifiedKeeps, Zenon DEF Check
<1>3. Held(hand', grp', path')
  BY <1>1, <1>2 DEF Held
<1>4. Usable => Attached(hand')
  BY <1>2 DEF Usable, Attached
<1>5. \/ run.pc = "bind" /\ Usable /\ Goto("launch", "")
      \/ run.pc = "bind" /\ Goto("close", "stopped")
      \/ run.pc = "check" /\ Answer("ready")
      \/ run.pc = "check" /\ Goto("stop", "review")
  BY <1>1, Zenon DEF Check
<1>6. run' \in Runs /\ \/ run.pc = "bind" /\ Usable /\ run'.pc = "launch"
                       \/ run.pc = "bind" /\ run'.pc = "close"
                       \/ run'.pc = "" /\ run'.st = "ready"
                       \/ run'.pc = "stop"
  BY <1>1, <1>5, RunIs, Zenon
<1>7. Running(hand', run', proc')
  BY <1>1, <1>2, <1>4, <1>6, Zenon DEF Running, Attached
<1> QED BY <1>1, <1>2, <1>3, <1>6, <1>7, Assembled, Zenon

\* processes.Start.
LEMMA LaunchKeeps ==
    ASSUME IInv, Launch
    PROVE  IInv' /\ Untaken
<1>1. /\ Held(hand, grp, path) /\ Running(hand, run, proc) /\ hand \in Handoffs /\ run \in Runs
      /\ run.pc = "launch" /\ proc = "off"
      /\ UNCHANGED <<at, grp, pin, faults, path>> /\ path \in [Shares -> SUBSET {"ours", "other"}]
  BY Zenon DEF IInv, Types, Launch, Running
<1>2. PICK seen : seen = IF hand.isolated THEN Verified ELSE hand
  OBVIOUS
<1>3. /\ RosterTypes' /\ Leased' /\ Untaken /\ seen \in Handoffs /\ seen.of = hand.of /\ seen.lease = hand.lease
      /\ seen.closed = hand.closed /\ seen.isolated = hand.isolated
  BY <1>1, <1>2, VerifiedKeeps, Zenon DEF Launch
<1>4. PICK pinned : pinned = [seen EXCEPT !.pinned = hand.isolated]
  BY Zenon
<1>5. /\ pinned \in Handoffs /\ pinned.of = hand.of /\ pinned.lease = hand.lease
      /\ pinned.closed = hand.closed /\ pinned.isolated = hand.isolated /\ pinned.pinned = hand.isolated
  BY <1>1, <1>3, <1>4 DEF Handoffs
<1>6. ASSUME hand' \in Handoffs, hand'.of = hand.of, hand'.lease = hand.lease, hand'.closed = hand.closed,
             run' \in Runs, proc' \in {"off", "on", "unknown"}, Running(hand', run', proc')
      PROVE  IInv' /\ Untaken
  <2>1. Held(hand', grp', path')
    BY <1>1, <1>6 DEF Held
  <2> QED BY <1>1, <1>3, <1>6, <2>1, Assembled
<1>7. CASE /\ hand.isolated => Usable
           /\ \E end \in {"ready", "not ready", "review"} :
                 /\ proc' = IF end = "review" THEN "unknown" ELSE "on"
                 /\ hand' = pinned
                 /\ CASE end = "ready" -> Goto("check", "")
                      [] end = "not ready" -> Goto("stop", "review")
                      [] OTHER -> Answer("review")
  <2>1. hand' = pinned /\ proc' \in {"on", "unknown"} /\ (Goto("check", "") \/ Goto("stop", "review") \/ Answer("review"))
    BY <1>7, Zenon
  <2>2. run' \in Runs /\ (run'.pc \in {"check", "stop"} \/ (run'.pc = "" /\ run'.st = "review"))
    BY <1>1, <2>1, RunIs, Zenon
  <2>3. Attached(hand)
    BY <1>1, <1>7, Zenon DEF Running, Attached, Usable
  <2>4. Running(hand', run', proc')
    BY <1>5, <2>1, <2>2, <2>3, Zenon DEF Running, Attached
  <2> QED BY <1>5, <1>6, <2>1, <2>2, <2>4, Zenon
<1>8. CASE hand' = seen /\ Goto("close", "stopped") /\ UNCHANGED proc
  <2>1. run' \in Runs /\ run'.pc = "close"
    BY <1>1, <1>8, RunIs, Zenon
  <2>2. Running(hand', run', proc')
    BY <1>1, <1>8, <2>1 DEF Running
  <2> QED BY <1>1, <1>3, <1>6, <1>8, <2>1, <2>2
<1>9. CASE hand' = [pinned EXCEPT !.st = "review", !.review = TRUE] /\ Answer("review") /\ UNCHANGED proc
  <2>1. run' \in Runs /\ run'.pc = "" /\ run'.st = "review"
    BY <1>1, <1>9, RunIs, Zenon
  <2>2. hand' \in Handoffs /\ hand'.of = hand.of /\ hand'.lease = hand.lease /\ hand'.closed = hand.closed
    BY <1>5, <1>9, Zenon DEF Handoffs
  <2>3. Running(hand', run', proc')
    BY <1>1, <1>9, <2>1, Zenon DEF Running
  <2> QED BY <1>1, <1>6, <1>9, <2>1, <2>2, <2>3, Zenon
<1> QED BY <1>2, <1>4, <1>7, <1>8, <1>9, Zenon DEF Launch

\* Observe of a ready runtime.
LEMMA ObserveRuntimeKeeps ==
    ASSUME IInv, NEW seen, Observe(seen)
    PROVE  IInv' /\ Untaken
<1>1. /\ Held(hand, grp, path) /\ Running(hand, run, proc) /\ hand \in Handoffs /\ run \in Runs
      /\ run.pc = "" /\ run.st = "ready" /\ hand' = Verified /\ proc \in {"off", "on", "unknown"}
      /\ UNCHANGED <<at, grp, pin, faults, path, proc>> /\ path \in [Shares -> SUBSET {"ours", "other"}]
  BY Zenon DEF IInv, Types, Observe
<1>2. /\ RosterTypes' /\ Leased' /\ Untaken
      /\ hand' \in Handoffs /\ hand'.of = hand.of /\ hand'.lease = hand.lease
      /\ hand'.closed = hand.closed /\ hand'.isolated = hand.isolated /\ hand'.pinned = hand.pinned
  BY <1>1, VerifiedKeeps, Zenon DEF Observe
<1>3. run' \in Runs /\ (run' = run \/ run'.pc = "stop")
  BY <1>1, RunIs, Zenon DEF Observe
<1>4. Held(hand', grp', path') /\ Running(hand', run', proc')
  BY <1>1, <1>2, <1>3, Zenon DEF Held, Running, Attached
<1> QED BY <1>1, <1>2, <1>3, <1>4, Assembled, Zenon

\* Start, Stop, the one stop of the processes, and somebody else's change of a
\* service path: the roster is left alone.
LEMMA PlainKeeps ==
    ASSUME IInv, Start \/ Stop \/ StopProcesses \/ (\E s \in Shares : MeddlePath(s))
    PROVE  IInv' /\ Untaken
<1>1. /\ Types /\ Held(hand, grp, path) /\ Running(hand, run, proc) /\ hand \in Handoffs /\ run \in Runs /\ RosterTypes
      /\ Leased /\ path \in [Shares -> SUBSET {"ours", "other"}] /\ proc \in {"off", "on", "unknown"}
      /\ UNCHANGED <<at, own, set, grp, pin>>
  BY Zenon DEF IInv, Types, Start, Stop, StopProcesses, MeddlePath
<1>2. Leased' /\ Untaken
  BY <1>1 DEF Leased, Untaken, RosterTypes
<1>3. CASE Start \/ Stop
  <2>1. /\ UNCHANGED <<faults, hand, path, proc>> /\ run.pc = "" /\ run' \in Runs
        /\ \/ run.st = "prepared" /\ run'.pc = "mount"
           \/ run'.pc = "stop"
    <3>1. CASE Start
      BY <3>1, Zenon DEF Start, Runs
    <3>2. CASE Stop
      BY <3>2, Zenon DEF Stop, Runs
    <3> QED BY <1>3, <3>1, <3>2, Zenon
  <2>2. RosterTypes' /\ Held(hand', grp', path') /\ Running(hand', run', proc')
    BY <1>1, <2>1, Zenon DEF RosterTypes, Held, Running, Attached
  <2> QED BY <1>1, <1>2, <2>1, <2>2, Assembled, Zenon
<1>4. CASE StopProcesses
  <2>1. UNCHANGED <<faults, path>> /\ run.pc = "stop"
    BY <1>4 DEF StopProcesses
  <2>2. \/ proc' = "off" /\ hand' = [hand EXCEPT !.pinned = FALSE] /\ Goto("close", run.to)
        \/ proc' = "unknown" /\ proc = "on" /\ hand' = hand /\ Answer("review")
        \/ proc' = "off" /\ hand' = [hand EXCEPT !.st = "review", !.review = TRUE] /\ Answer("review")
    BY <1>4 DEF StopProcesses
  <2>3. /\ hand' \in Handoffs /\ hand'.of = hand.of /\ hand'.lease = hand.lease /\ hand'.closed = hand.closed
        /\ (proc' = "off" \/ hand' = hand)
    BY <1>1, <2>2, Zenon DEF Handoffs
  <2>4. run.to \in {"", "stopped", "review"}
    BY <1>1, Zenon DEF Runs
  <2>5. run' \in Runs /\ (run'.pc = "close" \/ (run'.pc = "" /\ run'.st = "review"))
    BY <1>1, <2>2, <2>4, RunIs, Zenon
  <2>6. run'.pc = "close" => proc' = "off"
    BY <1>1, <2>2, RunIs, Zenon
  <2>7. proc' \in {"off", "on", "unknown"} /\ (proc' # "off" => hand' = hand /\ proc # "off")
    BY <2>2
  <2>8. RosterTypes' /\ Held(hand', grp', path')
    BY <1>1, <2>1, <2>3 DEF RosterTypes, Held
  <2>9. Running(hand', run', proc')
    BY <1>1, <2>5, <2>6, <2>7, Zenon DEF Running
  <2> QED BY <1>1, <1>2, <2>1, <2>3, <2>5, <2>7, <2>8, <2>9, Assembled, Zenon
<1>5. ASSUME NEW s \in Shares, MeddlePath(s) PROVE IInv' /\ Untaken
  <2>1. UNCHANGED <<hand, run, proc>> /\ hand.of[s].mounted
    BY <1>5 DEF MeddlePath
  <2>2. path' \in [Shares -> SUBSET {"ours", "other"}] /\ \A x \in Shares : x # s => path'[x] = path[x]
    BY <1>1, <1>5 DEF MeddlePath
  <2>3. faults' \in 0..MaxFaults
    <3>1. faults \in 0..MaxFaults
      BY <1>1 DEF RosterTypes
    <3>2. faults' = faults \/ (faults < MaxFaults /\ faults' = faults + 1)
      BY <1>5, Zenon DEF MeddlePath
    <3> QED BY <3>1, <3>2, RosterAssumption
  <2>4. RosterTypes' /\ Held(hand', grp', path') /\ Running(hand', run', proc')
    BY <1>1, <2>1, <2>2, <2>3 DEF RosterTypes, Held
  <2> QED BY <1>1, <1>2, <2>1, <2>2, <2>4, Assembled
<1> QED BY <1>3, <1>4, <1>5

\* Close of the handoff, by the runtime or directly: no process may live.
LEMMA CloseKeeps ==
    ASSUME IInv, CloseOnce \/ CloseDirectly
    PROVE  IInv' /\ Untaken
<1>1. /\ Types /\ Leased /\ Held(hand, grp, path) /\ Running(hand, run, proc) /\ run \in Runs /\ proc = proc'
      /\ proc \in {"off", "on", "unknown"} /\ UNCHANGED <<at, set, pin, faults>> /\ CloseHandoff
  BY Zenon DEF IInv, Types, CloseOnce, CloseDirectly
<1>2. /\ RosterTypes' /\ Leased' /\ Untaken /\ hand' \in Handoffs /\ hand'.isolated = hand.isolated
      /\ path' \in [Shares -> SUBSET {"ours", "other"}] /\ Held(hand', grp', path')
  BY <1>1, CloseHandoffKeeps
<1>3. proc = "off" /\ run' \in Runs /\ \/ run'.pc = "" /\ run'.st \in {"stopped", "review"}
                                       \/ run' = run /\ run.pc # "attach" /\ (hand.isolated \/ run.pc = "")
  <2>1. CASE CloseOnce
    BY <1>1, <2>1, RunIs, Zenon DEF CloseOnce, Running
  <2>2. CASE CloseDirectly
    BY <1>1, <2>2, Zenon DEF CloseDirectly, Running
  <2> QED BY <2>1, <2>2, Zenon
<1>4. Running(hand', run', proc')
  BY <1>1, <1>2, <1>3, Zenon DEF Running
<1> QED BY <1>1, <1>2, <1>3, <1>4, Assembled, Zenon

-----------------------------------------------------------------------------
(* What the service promises.                                              *)

\* What a step of the roster alone leaves of the handoff and the runtime.
LEMMA RosterStepKeeps ==
    ASSUME IInv, RosterTypes', Leased', grp'["handoff"] = grp["handoff"], UNCHANGED <<hand, path, run, proc>>
    PROVE  IInv'
<1>1. Held(hand', grp', path') /\ Running(hand', run', proc')
  BY DEF IInv, Held
<1> QED BY <1>1 DEF IInv, Types

\* The steps of the Owners and of the root pins; only Unmount takes a volume.
LEMMA OwnerNextKeeps ==
    ASSUME IInv, OwnerNext, UNCHANGED <<hand, path, run, proc>>
    PROVE  IInv' /\ (Untaken \/ \E v \in Volumes : Unmount(v))
<1>1. RosterTypes /\ Leased /\ pin \in [Pins -> PinRecords] /\ Pinned(pin, grp)
  BY DEF IInv, Types, RosterTypes, Leased
<1>2. ASSUME NEW v \in Volumes, Qualify(v) \/ Mount(v) \/ Drain(v) \/ Verify(v) \/ CloseOwner(v)
      PROVE  IInv' /\ Untaken
  <2>1. RosterTypes' /\ Leased' /\ Untaken /\ grp' = grp
    BY <1>1, <1>2, OwnerKeeps, MountKeeps
  <2> QED BY <2>1, RosterStepKeeps
<1>3. ASSUME NEW v \in Volumes, Unmount(v) PROVE IInv'
  <2>1. RosterTypes' /\ Leased' /\ grp' = grp
    BY <1>1, <1>3, UnmountKeeps
  <2> QED BY <2>1, RosterStepKeeps
<1>4. ASSUME NEW v \in Volumes, Meddle(v) PROVE IInv' /\ Untaken
  <2>1. RosterTypes' /\ Leased' /\ UNCHANGED <<own, grp>>
    BY <1>1, <1>4, MeddleKeeps
  <2>2. Untaken
    BY <1>1, <2>1 DEF Untaken
  <2> QED BY <2>1, <2>2, RosterStepKeeps
<1>5. CASE ObserveRoster
  <2>1. own' = Observed /\ set' = AfterObserve /\ UNCHANGED <<at, grp, pin, faults>>
    BY <1>5 DEF ObserveRoster
  <2>2. RosterTypes' /\ Leased' /\ Untaken
    BY <1>1, <2>1, ObserveKeeps
  <2> QED BY <2>1, <2>2, RosterStepKeeps
<1>6. ASSUME NEW p \in Pins, VerifyPin(p) \/ OpenPin(p) \/ ReleasePin(p) PROVE IInv' /\ Untaken
  <2>1. RosterTypes' /\ Leased' /\ Untaken /\ grp' = grp
    BY <1>1, <1>6, PinStepKeeps
  <2> QED BY <2>1, RosterStepKeeps
<1> QED BY <1>2, <1>3, <1>4, <1>5, <1>6 DEF OwnerNext

\* The leases of other consumers.
LEMMA OtherLeaseKeeps ==
    ASSUME IInv, OtherLease, UNCHANGED <<hand, path, run, proc>>
    PROVE  IInv' /\ Untaken
<1>1. RosterTypes /\ Leased /\ "handoff" \in Groups /\ "handoff" \notin Others /\ Others \subseteq Groups
  BY HandoffAssumption DEF IInv, Types, Others
<1>2. ASSUME NEW l \in Others, Acquire(l) PROVE IInv' /\ Untaken
  <2>1. RosterTypes' /\ Leased' /\ Untaken /\ \A k \in Groups : k # l => grp'[k] = grp[k]
    BY <1>1, <1>2, AcquireKeeps
  <2> QED BY <1>1, <2>1, RosterStepKeeps
<1>3. ASSUME NEW l \in Others, NEW doubtful, CloseGroup(l, doubtful), UNCHANGED <<at, set, pin, faults>>
      PROVE  IInv' /\ Untaken
  <2>1. RosterTypes' /\ Leased' /\ Untaken /\ grp'["handoff"] = grp["handoff"]
    BY <1>1, <1>3, CloseGroupKeeps, Zenon
  <2> QED BY <2>1, RosterStepKeeps
<1>4. ASSUME NEW l \in Others, NEW p \in Pins, PinRoot(p, l) PROVE IInv' /\ Untaken
  <2>1. RosterTypes' /\ Leased' /\ Untaken /\ grp' = grp
    BY <1>1, <1>4, PinRootKeeps
  <2> QED BY <2>1, RosterStepKeeps
<1> QED BY <1>2, <1>3, <1>4 DEF OtherLease

\* Every step keeps the invariant, and takes a volume only as Unmount.
LEMMA NextKeeps ==
    ASSUME IInv, Next
    PROVE  IInv' /\ (Untaken \/ (UNCHANGED <<hand, path, proc>> /\ \E v \in Volumes : Unmount(v)))
<1>1. CASE Start \/ Stop \/ StopProcesses \/ (\E s \in Shares : MeddlePath(s))
  BY <1>1, PlainKeeps
<1>2. CASE TakeRoster
  BY <1>2, TakeRosterKeeps
<1>3. CASE Attach
  BY <1>3, AttachKeeps
<1>4. CASE Check
  BY <1>4, CheckKeeps
<1>5. CASE Launch
  BY <1>5, LaunchKeeps
<1>6. CASE CloseOnce \/ CloseDirectly
  BY <1>6, CloseKeeps
<1>7. ASSUME NEW seen, Observe(seen) PROVE IInv' /\ Untaken
  BY <1>7, ObserveRuntimeKeeps
<1>8. CASE OwnerNext /\ UNCHANGED <<hand, path, run, proc>>
  BY <1>8, OwnerNextKeeps
<1>9. CASE OtherLease /\ UNCHANGED <<hand, path, run, proc>>
  BY <1>9, OtherLeaseKeeps
<1> QED BY <1>1, <1>2, <1>3, <1>4, <1>5, <1>6, <1>7, <1>8, <1>9 DEF Next, RunStep

\* Nothing is mounted, leased or started at first.
LEMMA InitEstablishes ==
    ASSUME Init
    PROVE  IInv
<1>1. RosterTypes
  <2>1. NoEvidence \in Evidences /\ 0 \in 0..MaxFaults /\ 0 \in 0..MaxMounts
    BY RosterAssumption DEF NoEvidence, Evidences
  <2>2. Owners(own)
    BY <2>1, Zenon DEF Init, RosterInit, Owners, OwnerRecords, OwnerStates
  <2>3. grp \in [Groups -> GroupRecords] /\ pin \in [Pins -> PinRecords]
    BY <2>1, Zenon DEF Init, RosterInit, GroupRecords, PinRecords, NoPin
  <2> QED BY <2>1, <2>2, <2>3, Zenon DEF Init, RosterInit, RosterTypes
<1>2. PICK isolated \in BOOLEAN :
        hand = [st |-> "prepared", lease |-> FALSE, members |-> {}, of |-> [s \in Shares |-> NoMember],
                review |-> FALSE, closed |-> FALSE, isolated |-> isolated, pinned |-> FALSE]
  BY Zenon DEF Init
<1>3. hand \in Handoffs /\ ~hand.lease /\ \A s \in Shares : hand.of[s] = NoMember
  BY <1>2 DEF Handoffs, NoMember, Members
<1>4. \A s \in Shares : ~Left(hand.of[s]) /\ path[s] = {}
  <2>1. ~Left(NoMember) /\ \A s \in Shares : path[s] = {}
    BY Zenon DEF Init, NoMember, Left
  <2> QED BY <1>3, <2>1
<1>5. path \in [Shares -> SUBSET {"ours", "other"}] /\ run \in Runs /\ run.pc = "" /\ proc = "off"
  BY Zenon DEF Init, Runs
<1>6. Leased
  BY Zenon DEF Init, RosterInit, Leased, Complete, Pinned, NoPin
<1>7. grp["handoff"].st = "none"
  BY HandoffAssumption, Zenon DEF Init, RosterInit
<1>8. Held(hand, grp, path) /\ Running(hand, run, proc)
  BY <1>3, <1>4, <1>5, <1>7, Zenon DEF Held, Running
<1> QED BY <1>1, <1>3, <1>5, <1>6, <1>8, Zenon DEF IInv, Types

\* The invariant, for every roster and every set of leases and pins.
THEOREM Invariance == Spec => []IInv
<1>1. Init => IInv
  BY InitEstablishes
<1>2. IInv /\ [Next]_vars => IInv'
  <2>1. ASSUME IInv, UNCHANGED vars PROVE IInv'
    BY <2>1 DEF vars, IInv, Types, RosterTypes, Leased
  <2> QED BY <2>1, NextKeeps
<1> QED BY <1>1, <1>2, PTL DEF Spec

\* Every variable keeps its type; the set's generation never passes its width
\* and no volume is mounted more often than the bound says.
THEOREM TypeCorrect == Spec => []TypeOK
<1>1. IInv => TypeOK
  BY Zenon DEF IInv, Types, RosterTypes, Owners, OwnerRecords, Evidences, GroupRecords, PinRecords, Handoffs, Runs,
         TypeOK, RosterTypeOK
<1> QED BY <1>1, Invariance, PTL

\* MountedVolumeSet: a group lease has every Owner's child or none, and a root
\* pin keeps its lease open.
THEOREM AllOrNothingHolds == Spec => []AllOrNothing
<1>1. IInv => AllOrNothing
  BY DEF IInv, Leased, Complete, Pinned, AllOrNothing
<1> QED BY <1>1, Invariance, PTL

\* ServiceRuntime: while a process may live, the lease is open and every clone
\* it reads through is recorded as attached.
THEOREM ConsumersStopFirstHolds == Spec => []ConsumersStopFirst
<1>1. IInv => ConsumersStopFirst
  BY Zenon DEF IInv, Held, Running, Attached, ConsumersStopFirst
<1> QED BY <1>1, Invariance, PTL

\* Owner.Unmount: no child lease, root pin, clone or process is left when a
\* volume is taken away.
THEOREM NoUnmountUnderUseHolds == Spec => NoUnmountUnderUse
<1> DEFINE Unused(v) == /\ own[v].kids = {} /\ "ours" \notin path[v] /\ proc = "off"
                        /\ \A p \in Pins : pin[p].st = "held" => pin[p].lease = ""
           Taken(v) == own[v].st = "draining" /\ own'[v].st = "unavailable"
<1>1. ASSUME IInv, NEW v \in Volumes, own[v].kids = {} PROVE Unused(v)
  <2>1. \A l \in Groups : grp[l].st # "open"
    BY <1>1 DEF IInv, Leased, Complete
  <2>2. ~hand.lease
    BY <1>1, <2>1, HandoffAssumption DEF IInv, Held
  <2>3. "ours" \notin path[v] /\ proc = "off"
    BY <1>1, <2>2, Zenon DEF IInv, Held, Running, Attached, Left, Shares
  <2>4. \A p \in Pins : pin[p].st # "held"
    BY <1>1, <2>1 DEF IInv, Leased, Pinned, Others
  <2> QED BY <1>1, <2>3, <2>4, Zenon
<1>2. ASSUME IInv, [Next]_vars, NEW v \in Volumes, Taken(v) PROVE Unused(v)
  <2>1. CASE \E u \in Volumes : Unmount(u)
    <3>1. PICK u \in Volumes : Unmount(u)
      BY <2>1
    <3>2. own[u].kids = {} /\ (u # v => own'[v] = own[v])
      BY <1>2, <3>1, UnmountKeeps, Zenon DEF IInv, Types
    <3> QED BY <1>1, <1>2, <3>2, Zenon
  <2>2. CASE Untaken
    BY <1>2, <2>2, Zenon DEF Untaken
  <2>3. CASE UNCHANGED vars
    BY <1>2, <2>3, Zenon DEF vars
  <2> QED BY <1>2, <2>1, <2>2, <2>3, NextKeeps, Zenon
<1>3. IInv /\ [Next]_vars => [\A v \in Volumes : Taken(v) => Unused(v)]_vars
  BY <1>2, Zenon
<1> QED BY <1>3, Invariance, PTL DEF Spec, NoUnmountUnderUse
=============================================================================

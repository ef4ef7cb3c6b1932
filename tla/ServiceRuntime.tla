--------------------------- MODULE ServiceRuntime ---------------------------
(***************************************************************************)
(* A storage-backed service: internal/mountowner's ServiceHandoff, which   *)
(* clones one directory of every volume under a private path, and          *)
(* ServiceRuntime, which starts and stops a fixed process set around it,   *)
(* over the roster of the mounted volumes.                                 *)
(*                                                                         *)
(* The handoff takes the group lease "handoff" and has one share per       *)
(* volume; path[s] is what sits on the service path of share s, read like  *)
(* at[v].  proc is the process set of ProcessSet seen from here: "off",    *)
(* "on", or "unknown" when its owner answered review and children may      *)
(* live.  run.pc is where the runtime's mutex holder is; "" is free.       *)
(***************************************************************************)
EXTENDS Naturals, FiniteSets, FiniteSetsExt

-----------------------------------------------------------------------------
(***************************************************************************)
(* The mounted volumes and the leases on them: internal/mountowner's       *)
(* Owner, MountedVolumeSet, MountedVolumeSetLease and VolumeRootPin.       *)
(*                                                                         *)
(* One Owner per volume bind-mounts a qualified source on a fixed target.  *)
(* A group lease holds one child lease of every Owner of the fixed roster, *)
(* and a root pin keeps a group lease from being closed.  The kernel's     *)
(* mount table is outside the program: at[v] is what sits on the target of *)
(* v, "ours" being the bind of the current generation and "other" anything *)
(* that hides it or changes what statx and statfs report of it.            *)
(*                                                                         *)
(* Every call holds its Owner's mutex, or every Owner's mutex in target    *)
(* order, until it returns, so a call is one step.                         *)
(***************************************************************************)
CONSTANTS
    NVolumes,        \* the volumes of the roster are 1..NVolumes
    Groups,          \* the group leases that callers ask for
    Pins,            \* the root pins that holders of a group lease take
    MaxMounts,       \* bound: mounts of one volume
    MaxGeneration,   \* stands for math.MaxUint64, where the set's generation ends
    MaxFaults        \* bound: targets and paths hidden or taken by somebody else

ASSUME RosterAssumption ==
    /\ NVolumes \in Nat \ {0} /\ MaxMounts \in Nat /\ MaxFaults \in Nat
    /\ MaxGeneration \in Nat \ {0}

VARIABLES at, own, set, grp, pin, faults

rosterVars == <<at, own, set, grp, pin, faults>>

Volumes == 1..NVolumes

\* StateAbsent and StateUnavailable differ in name only, and StateDiscovered
\* and StateMounting never outlast the call that sets them.
OwnerStates == {"qualified", "rejected", "mounted", "draining",
                "review", "unavailable"}
NoPin == [st |-> "none", lease |-> "", review |-> FALSE, uncertain |-> FALSE]
NoEvidence == [gen |-> 0, fp |-> [v \in Volumes |-> 0]]

Closed == [st |-> "closed", seen |-> NoEvidence]

RosterInit ==
    /\ at = [v \in Volumes |-> {}]
    /\ own = [v \in Volumes |-> [st |-> "unavailable", gen |-> 0, kids |-> {}]]
    /\ set = NoEvidence
    /\ grp = [l \in Groups |-> [st |-> "none", seen |-> NoEvidence]]
    /\ pin = [p \in Pins |-> NoPin]
    /\ faults = 0

---------------------------------------------------------------------------
(* One Owner.                                                              *)

\* verifyMountedLocked: the retained root and a fresh observation of the
\* target both still name the mount this Owner made.
Exact(v) == at[v] = {"ours"}

\* reviewLocked: the references are closed, the leases stay in the map.
InReview(o) == [o EXCEPT !.st = "review"]

Qualify(v) ==
    /\ own[v].st = "unavailable"
    /\ own[v].gen < MaxMounts
    /\ \E good \in BOOLEAN :
          own' = [own EXCEPT ![v].st =
                    IF good /\ at[v] = {} THEN "qualified" ELSE "rejected"]
    /\ UNCHANGED <<at, set, grp, pin, faults>>

\* One bind.  Once the driver is called every doubt is review, whether or not
\* the kernel made the mount.
Mount(v) ==
    /\ own[v].st = "qualified"
    /\ \/ /\ own' = [own EXCEPT ![v].st = "rejected"]
          /\ UNCHANGED at
       \/ /\ at[v] = {}
          /\ \E made, sure \in BOOLEAN :
                /\ at' = [at EXCEPT ![v] = IF made THEN {"ours"} ELSE {}]
                /\ own' = [own EXCEPT ![v] =
                            IF made /\ sure
                            THEN [@ EXCEPT !.st = "mounted", !.gen = own[v].gen + 1]
                            ELSE InReview(@)]
    /\ UNCHANGED <<set, grp, pin, faults>>

\* Draining stays even when the call answers ErrBusy for a live lease.
Drain(v) ==
    /\ own[v].st = "mounted"
    /\ own' = [own EXCEPT ![v] = IF Exact(v) THEN [@ EXCEPT !.st = "draining"]
                                             ELSE InReview(@)]
    /\ UNCHANGED <<at, set, grp, pin, faults>>

Verify(v) ==
    /\ own[v].st \in {"mounted", "draining"}
    /\ ~Exact(v)
    /\ own' = [own EXCEPT ![v] = InReview(@)]
    /\ UNCHANGED <<at, set, grp, pin, faults>>

\* One umount, only when no lease is left and the mount is still ours.
Unmount(v) ==
    /\ own[v].st = "draining"
    /\ own[v].kids = {}
    /\ IF ~Exact(v)
       THEN own' = [own EXCEPT ![v] = InReview(@)] /\ UNCHANGED at
       ELSE \E gone, sure \in BOOLEAN :
              /\ at' = [at EXCEPT ![v] = IF gone THEN {} ELSE @]
              /\ own' = [own EXCEPT ![v] = IF gone /\ sure
                           THEN [@ EXCEPT !.st = "unavailable"] ELSE InReview(@)]
    /\ UNCHANGED <<set, grp, pin, faults>>

\* Close never unmounts: a mounted Owner is quarantined instead.
CloseOwner(v) ==
    /\ own' = [own EXCEPT ![v] =
                 IF @.st \in {"mounted", "draining", "review"} THEN InReview(@)
                 ELSE [@ EXCEPT !.st = "unavailable"]]
    /\ own' # own
    /\ UNCHANGED <<at, set, grp, pin, faults>>

---------------------------------------------------------------------------
(* The roster.                                                             *)

Evidence == [v \in Volumes |-> own[v].gen]
Bad == {v \in Volumes : own[v].st # "mounted" \/ ~Exact(v)}

\* observeLocked stops at the first member it cannot vouch for, and that
\* member goes to review when it was mounted.
Observed ==
    IF Bad = {} \/ own[Min(Bad)].st # "mounted" THEN own
    ELSE [own EXCEPT ![Min(Bad)] = InReview(@)]

\* The set's generation moves when any member's does, and ends at its width.
Exhausted == set.gen = MaxGeneration /\ Evidence # set.fp
NextEvidence ==
    [gen |-> IF set.gen = 0 THEN 1
             ELSE IF Evidence # set.fp THEN set.gen + 1 ELSE set.gen,
     fp |-> Evidence]
Vouched == Bad = {} /\ ~Exhausted
AfterObserve == IF Vouched THEN NextEvidence ELSE set

\* WithEvidence and Observe.
ObserveRoster ==
    /\ own' = Observed
    /\ set' = AfterObserve
    /\ UNCHANGED <<at, grp, pin, faults>>

GiveChildren(o, l, vs) ==
    [v \in Volumes |-> IF v \in vs THEN [o[v] EXCEPT !.kids = @ \cup {l}] ELSE o[v]]

AcquireKeepsPrefix(l) ==
    /\ grp[l].st = "none"
    /\ set' = AfterObserve
    /\ \E n \in 0..NVolumes :
          LET all == Vouched /\ n = NVolumes
          IN /\ own' = IF Vouched THEN GiveChildren(own, l, 1..n) ELSE Observed
             /\ grp' = IF all THEN [grp EXCEPT ![l] = [st |-> "open", seen |-> NextEvidence]]
                       ELSE grp
    /\ UNCHANGED <<at, pin, faults>>

\* Every member's child lease or none: a cancellation after n members gives
\* the children back before any mutex is released.
Acquire(l) ==
    /\ grp[l].st = "none"
    /\ set' = AfterObserve
    /\ \E n \in 0..NVolumes :
          LET all == Vouched /\ n = NVolumes
          IN /\ own' = IF all THEN GiveChildren(own, l, Volumes) ELSE Observed
             /\ grp' = IF all THEN [grp EXCEPT ![l] = [st |-> "open", seen |-> NextEvidence]]
                       ELSE grp
    /\ UNCHANGED <<at, pin, faults>>

\* A lease vouches for the roster only while the evidence is what it was when
\* the lease was issued and all its children are in their Owners' maps.
Holds(l) ==
    /\ grp[l].st = "open"
    /\ Vouched
    /\ NextEvidence = grp[l].seen
    /\ \A v \in Volumes : l \in own[v].kids

VerifyGroup(l) ==
    /\ grp[l].st = "open"
    /\ own' = Observed
    /\ set' = AfterObserve

HeldPins(l) == {p \in Pins : pin[p].st = "held" /\ pin[p].lease = l}

\* The members of a group lease, at most one, whose descriptors do not close.
Doubts(l) == {{}} \cup {{v} : v \in {x \in Volumes : l \in own[x].kids}}

\* The children are given back; one whose descriptors do not close cleanly
\* puts its Owner in review.
Returned(o, l, doubtful) ==
    [v \in Volumes |->
        LET less == [o[v] EXCEPT !.kids = @ \ {l}]
        IN IF v \in doubtful /\ l \in o[v].kids THEN InReview(less) ELSE less]

CloseGroup(l, doubtful) ==
    /\ grp[l].st = "open"
    /\ HeldPins(l) = {}
    /\ own' = Returned(own, l, doubtful)
    /\ grp' = [grp EXCEPT ![l] = Closed]

\* PinVolumeRoot, which verifies the whole roster first.
PinRoot(p, l) ==
    /\ pin[p].st = "none"
    /\ VerifyGroup(l)
    /\ pin' = IF Holds(l)
              THEN [pin EXCEPT ![p] = [NoPin EXCEPT !.st = "held", !.lease = l]]
              ELSE pin
    /\ UNCHANGED <<at, grp, faults>>

\* A failure is sticky, also one of a member this pin did not select.
VerifyPin(p) ==
    /\ pin[p].st = "held"
    /\ ~pin[p].review
    /\ VerifyGroup(pin[p].lease)
    /\ pin' = [pin EXCEPT ![p].review = ~Holds(pin[p].lease)]
    /\ UNCHANGED <<at, grp, faults>>

\* OpenDirectory of a pin.  A directory that does not open is review as well,
\* and a descriptor opened before the roster changed may not close.
OpenPin(p) ==
    /\ pin[p].st = "held"
    /\ ~pin[p].review
    /\ VerifyGroup(pin[p].lease)
    /\ \E opened, closed \in BOOLEAN :
          pin' = [pin EXCEPT
                    ![p].review = ~(opened /\ Holds(pin[p].lease)),
                    ![p].uncertain = opened /\ ~Holds(pin[p].lease) /\ ~closed]
    /\ UNCHANGED <<at, grp, faults>>

\* An uncertain pin is never released: its group lease stays open for review.
ReleasePin(p) ==
    /\ pin[p].st = "held"
    /\ ~pin[p].uncertain
    /\ pin' = [pin EXCEPT ![p] = [NoPin EXCEPT !.st = "released"]]
    /\ UNCHANGED <<at, own, set, grp, faults>>

---------------------------------------------------------------------------
(* Somebody else changes the mount table: hides a target, uncovers it, or  *)
(* takes the bind away.                                                    *)

Meddle(v) ==
    /\ \/ /\ faults < MaxFaults
          /\ faults' = faults + 1
          /\ \E now \in {{}, at[v] \cup {"other"}} :
                now # at[v] /\ at' = [at EXCEPT ![v] = now]
       \/ /\ "other" \in at[v]
          /\ at' = [at EXCEPT ![v] = @ \ {"other"}]
          /\ UNCHANGED faults
    /\ UNCHANGED <<own, set, grp, pin>>

OwnerNext ==
    \/ \E v \in Volumes :
          \/ Qualify(v) \/ Mount(v) \/ Drain(v) \/ Verify(v) \/ Unmount(v)
          \/ CloseOwner(v) \/ Meddle(v)
    \/ ObserveRoster
    \/ \E p \in Pins : VerifyPin(p) \/ OpenPin(p) \/ ReleasePin(p)

RosterTypeOK ==
    /\ at \in [Volumes -> SUBSET {"ours", "other"}]
    /\ own \in [Volumes -> [st : OwnerStates, gen : 0..MaxMounts, kids : SUBSET Groups]]
    /\ set.gen \in 0..MaxGeneration
    /\ grp \in [Groups -> [st : {"none", "open", "closed"},
                           seen : [gen : 0..MaxGeneration, fp : [Volumes -> 0..MaxMounts]]]]
    /\ pin \in [Pins -> [st : {"none", "held", "released"}, lease : Groups \cup {""},
                         review : BOOLEAN, uncertain : BOOLEAN]]
    /\ faults \in 0..MaxFaults

-----------------------------------------------------------------------------
(* The service over the roster.                                            *)
ASSUME HandoffAssumption == "handoff" \in Groups

VARIABLES hand, path, run, proc

vars == <<at, own, set, grp, pin, faults, hand, path, run, proc>>

Shares == Volumes
NoMember == [dir |-> FALSE, mounted |-> FALSE, uncertain |-> FALSE]
\* A member of which only the directory is left, and would not go.
StuckMember == [dir |-> TRUE, mounted |-> FALSE, uncertain |-> TRUE]
Others == Groups \ {"handoff"}

\* An isolated handoff belongs to one process that is confined to it.
Init ==
    /\ RosterInit
    /\ \E isolated \in BOOLEAN :
          hand = [st |-> "prepared", lease |-> FALSE, members |-> {},
                  of |-> [s \in Shares |-> NoMember], review |-> FALSE,
                  closed |-> FALSE, isolated |-> isolated, pinned |-> FALSE]
    /\ path = [s \in Shares |-> {}]
    /\ run = [st |-> "prepared", pc |-> "", to |-> ""]
    /\ proc = "off"

Goto(pc, to) == run' = [run EXCEPT !.pc = pc, !.to = to]
Answer(st) == run' = [run EXCEPT !.st = st, !.pc = "", !.to = ""]

---------------------------------------------------------------------------
(* The handoff.                                                            *)

\* Mount takes a lease of the complete roster first.
TakeRoster ==
    /\ run.pc = "mount"
    /\ IF hand.st # "prepared" \/ hand.closed
       THEN /\ Goto("close", "stopped")
            /\ UNCHANGED <<at, own, set, grp, pin, faults, hand>>
       ELSE /\ Acquire("handoff")
            /\ IF grp'["handoff"].st = "open"
               THEN /\ hand' = [hand EXCEPT !.lease = TRUE, !.members = Shares]
                    /\ Goto("attach", "")
               ELSE Goto("close", "stopped") /\ UNCHANGED hand
    /\ UNCHANGED <<path, proc>>

\* The attempted mark of a member is one of these two as soon as it is read.
Attempted(of) == \E s \in Shares : of[s].mounted \/ of[s].uncertain

\* failBeforeOrDuringAttachLocked, given the members and Owners as the failed
\* attach left them.  Without an attempt the directories and the lease are
\* given back, and a doubt in that is review; after an attempt nothing is.
AttachFailed(of, o, cause) ==
    /\ \E stuck \in SUBSET {s \in Shares : of[s].dir}, doubtful \in Doubts("handoff") :
          LET undo == ~Attempted(of) /\ stuck = {}
              clean == undo /\ doubtful = {}
          IN /\ own' = IF undo THEN Returned(o, "handoff", doubtful) ELSE o
             /\ grp' = IF undo THEN [grp EXCEPT !["handoff"] = Closed] ELSE grp
             /\ hand' = [hand EXCEPT
                  !.lease = ~undo,
                  !.members = IF clean THEN {} ELSE @,
                  !.of = IF Attempted(of) THEN of
                         ELSE [s \in Shares |-> IF s \in stuck THEN StuckMember ELSE NoMember],
                  !.review = @ \/ ~clean \/ cause = "review",
                  !.st = IF clean /\ cause # "review" THEN "prepared" ELSE "review"]
    /\ Goto("close", "stopped")

\* attachLocked of the next share: make its directory, open the source through
\* the lease, clone it, and move the clone onto the directory.
Attach ==
    /\ run.pc = "attach"
    /\ LET s == Min({x \in Shares : ~hand.of[x].mounted})
           o == IF own[s].st = "mounted" /\ ~Exact(s) THEN [own EXCEPT ![s] = InReview(@)] ELSE own
           made == [hand.of EXCEPT ![s].dir = TRUE]
       IN \/ /\ AttachFailed(hand.of, own, "unavailable")
             /\ UNCHANGED path
          \/ /\ \E cause \in {"unavailable", "review"} :
                   /\ o[s].st = "review" => cause = "review"
                   /\ AttachFailed(made, o, cause)
             /\ UNCHANGED path
          \/ /\ o[s].st = "mounted"
             /\ \E moved \in BOOLEAN :
                   /\ path' = [path EXCEPT ![s] = IF moved THEN {"ours"} ELSE {}]
                   /\ AttachFailed([made EXCEPT ![s].uncertain = TRUE], o, "review")
          \/ /\ o[s].st = "mounted"
             /\ path' = [path EXCEPT ![s] = {"ours"}]
             /\ hand' = [hand EXCEPT !.of = [made EXCEPT ![s].mounted = TRUE],
                                     !.st = IF s = NVolumes THEN "active" ELSE @]
             /\ Goto(IF s = NVolumes THEN "bind" ELSE "attach", "")
             /\ UNCHANGED <<own, grp>>
    /\ UNCHANGED <<at, set, pin, faults, proc>>

\* Verify and Bindings agree on what makes the handoff usable: the lease holds
\* and every service path still shows the clone that was attached.
Usable ==
    /\ hand.st = "active" /\ hand.lease
    /\ Holds("handoff")
    /\ \A s \in Shares : hand.of[s].mounted /\ ~hand.of[s].uncertain /\ path[s] = {"ours"}

Verified ==
    IF hand.st = "active" /\ ~Usable
    THEN [hand EXCEPT !.st = "review", !.review = TRUE] ELSE hand
VerifyLease == IF hand.st = "active" THEN VerifyGroup("handoff") ELSE UNCHANGED <<own, set>>

\* Close of one member.  Only a path that still shows exactly what was
\* attached is unmounted, once; any doubt about it stays with the member.
Detached(s, end) ==
    LET m == hand.of[s]
    IN CASE m.uncertain -> m
         [] ~m.uncertain /\ m.mounted /\ (path[s] # {"ours"} \/ end = "busy") ->
              [m EXCEPT !.uncertain = TRUE]
         [] OTHER -> [m EXCEPT !.mounted = FALSE,
                               !.dir = m.dir /\ end # "clean",
                               !.uncertain = m.dir /\ end # "clean"]
PathAfter(s, end) ==
    IF hand.of[s].mounted /\ ~hand.of[s].uncertain /\ path[s] = {"ours"} /\ end # "busy"
    THEN {} ELSE path[s]

\* How the unmount and the rmdir of each member end.
Ends == {end \in [Shares -> {"clean", "busy", "dirty"}] :
           \A s \in Shares : hand.of[s].uncertain \/ ~hand.of[s].dir => end[s] = "clean"}

NoneMounted(of) == \A s \in Shares : ~of[s].mounted

\* The lease may go: every member is detached and nothing about one is in doubt.
AllDetached(of) == \A s \in Shares : ~of[s].mounted /\ ~of[s].uncertain /\ ~of[s].dir

\* Close: every member, then the lease, then the root.  A member in doubt
\* keeps the lease and the root.
CloseHandoff ==
    \E end \in Ends, doubtful \in Doubts("handoff"), rootCloses \in BOOLEAN :
      IF hand.pinned \/ hand.closed THEN UNCHANGED <<own, grp, hand, path>>
      ELSE LET of == [s \in Shares |-> Detached(s, end[s])]
               drop == AllDetached(of) /\ hand.lease
               sure == AllDetached(of) /\ (drop => doubtful = {})
               review == hand.review \/ ~sure \/ ~rootCloses
           IN /\ path' = [s \in Shares |-> PathAfter(s, end[s])]
              /\ own' = IF drop THEN Returned(own, "handoff", doubtful) ELSE own
              /\ grp' = IF drop THEN [grp EXCEPT !["handoff"] = Closed] ELSE grp
              /\ hand' = [hand EXCEPT
                    !.of = of,
                    !.lease = @ /\ ~drop,
                    !.review = review,
                    !.st = IF review THEN "review" ELSE "closed",
                    !.closed = sure]

\* What Close answered, read off the state it left.
ClosedWell == hand'.closed /\ ~hand'.review /\ ~hand'.pinned

---------------------------------------------------------------------------
(* The runtime.                                                            *)

Start ==
    /\ run.pc = "" /\ run.st = "prepared"
    /\ run' = [st |-> "starting", pc |-> "mount", to |-> ""]
    /\ UNCHANGED <<at, own, set, grp, pin, faults, hand, path, proc>>

\* Start reads Bindings and Verify before any process exists, and Verify once
\* more when every readiness probe has passed.
Check ==
    /\ run.pc \in {"bind", "check"}
    /\ VerifyLease
    /\ hand' = Verified
    /\ CASE run.pc = "bind" /\ Usable -> Goto("launch", "")
         [] run.pc = "bind" /\ ~Usable -> Goto("close", "stopped")
         [] run.pc = "check" /\ Usable -> Answer("ready")
         [] OTHER -> Goto("stop", "review")
    /\ UNCHANGED <<at, grp, pin, faults, path, proc>>

\* processes.Start.  An isolated process pins the handoff's root first, after
\* one more verification, and gives the pin back when nothing was started.
Launch ==
    /\ run.pc = "launch"
    /\ IF hand.isolated THEN VerifyLease ELSE UNCHANGED <<own, set>>
    /\ LET seen == IF hand.isolated THEN Verified ELSE hand
           pinned == [seen EXCEPT !.pinned = hand.isolated]
       IN \/ /\ hand.isolated => Usable
             /\ \E end \in {"ready", "not ready", "review"} :
                   /\ proc' = IF end = "review" THEN "unknown" ELSE "on"
                   /\ hand' = pinned
                   /\ CASE end = "ready" -> Goto("check", "")
                        [] end = "not ready" -> Goto("stop", "review")
                        [] OTHER -> Answer("review")
          \/ /\ hand' = seen
             /\ Goto("close", "stopped")
             /\ UNCHANGED proc
          \/ /\ hand.isolated /\ Usable
             /\ hand' = [pinned EXCEPT !.st = "review", !.review = TRUE]
             /\ Answer("review")
             /\ UNCHANGED proc
    /\ UNCHANGED <<at, grp, pin, faults, path>>

ObserveProcessesOnly(seen) ==
    /\ run.pc = "" /\ run.st = "ready"
    /\ IF seen # "review" THEN UNCHANGED run ELSE Goto("stop", "review")
    /\ UNCHANGED <<at, own, set, grp, pin, faults, hand, path, proc>>

\* Storage before processes: seen is what the process set answers.  An error
\* of it that is not review changes nothing.
Observe(seen) ==
    /\ run.pc = "" /\ run.st = "ready"
    /\ VerifyLease
    /\ hand' = Verified
    /\ IF Usable /\ seen # "review" THEN UNCHANGED run ELSE Goto("stop", "review")
    /\ UNCHANGED <<at, grp, pin, faults, path, proc>>

Stop ==
    /\ run.pc = "" /\ run.st \in {"prepared", "ready"}
    /\ run' = [st |-> "stopping", pc |-> "stop", to |-> "stopped"]
    /\ UNCHANGED <<at, own, set, grp, pin, faults, hand, path, proc>>

StopProcessesOnce ==
    /\ run.pc = "stop"
    /\ \/ /\ proc' = "off"
          /\ hand' = [hand EXCEPT !.pinned = FALSE]
          /\ Goto("close", run.to)
       \/ /\ proc = "on"
          /\ proc' = "unknown"
          /\ Goto("close", "review")
          /\ UNCHANGED hand
    /\ UNCHANGED <<at, own, set, grp, pin, faults, path>>

\* The one stop of a started set.  Only a confirmed stop, with the isolated
\* process's root pin released, goes on to the handoff.
StopProcesses ==
    /\ run.pc = "stop"
    /\ \/ /\ proc' = "off"
          /\ hand' = [hand EXCEPT !.pinned = FALSE]
          /\ Goto("close", run.to)
       \/ /\ proc = "on"
          /\ proc' = "unknown"
          /\ Answer("review")
          /\ UNCHANGED hand
       \/ /\ hand.pinned
          /\ proc' = "off"
          /\ hand' = [hand EXCEPT !.st = "review", !.review = TRUE]
          /\ Answer("review")
    /\ UNCHANGED <<at, own, set, grp, pin, faults, path>>

\* closeHandoffOnceLocked.  A runtime on its way to review ends there however
\* the handoff closed.
CloseOnce ==
    /\ run.pc = "close"
    /\ CloseHandoff
    /\ Answer(IF run.to = "stopped" /\ ClosedWell THEN "stopped" ELSE "review")
    /\ UNCHANGED <<at, set, pin, faults, proc>>

\* Another holder of the handoff calls Close.  Unless the process is isolated
\* it has to leave that to the runtime while one runs.
CloseDirectly ==
    /\ run.pc # "attach"
    /\ ~hand.pinned /\ ~hand.closed
    /\ hand.isolated \/ (run.pc = "" /\ run.st # "ready" /\ proc = "off")
    /\ CloseHandoff
    /\ UNCHANGED <<at, set, pin, faults, run, proc>>

\* Somebody else changes what a service path shows.
MeddlePath(s) ==
    /\ hand.of[s].mounted
    /\ \/ /\ faults < MaxFaults
          /\ faults' = faults + 1
          /\ \E now \in {{}, path[s] \cup {"other"}} :
                now # path[s] /\ path' = [path EXCEPT ![s] = now]
       \/ /\ "other" \in path[s]
          /\ path' = [path EXCEPT ![s] = @ \ {"other"}]
          /\ UNCHANGED faults
    /\ UNCHANGED <<at, own, set, grp, pin, hand, run, proc>>

---------------------------------------------------------------------------

RunStep == TakeRoster \/ Attach \/ Check \/ Launch \/ StopProcesses \/ CloseOnce

\* A group lease of another consumer; its Verify is ObserveRoster.
OtherLease ==
    \E l \in Others :
       \/ Acquire(l)
       \/ \E doubtful \in Doubts(l) :
             CloseGroup(l, doubtful) /\ UNCHANGED <<at, set, pin, faults>>
       \/ \E p \in Pins : PinRoot(p, l)

Next ==
    \/ Start \/ Stop \/ RunStep \/ CloseDirectly
    \/ \E seen \in {"ready", "error", "review"} : Observe(seen)
    \/ \E s \in Shares : MeddlePath(s)
    \/ (OwnerNext \/ OtherLease) /\ UNCHANGED <<hand, path, run, proc>>

Spec == Init /\ [][Next]_vars

\* The mutex holder's call goes on, and the caller keeps observing a runtime
\* that is ready, as ServiceRuntime asks of it; the processes need not fail.
Fairness == WF_vars(RunStep) /\ WF_vars(Observe("ready"))

LiveSpec == Spec /\ Fairness

---------------------------------------------------------------------------

TypeOK ==
    /\ RosterTypeOK
    /\ hand.st \in {"prepared", "active", "review", "closed"}
    /\ path \in [Shares -> SUBSET {"ours", "other"}]
    /\ run.st \in {"prepared", "starting", "ready", "stopping", "review", "stopped"}
    /\ run.pc \in {"", "mount", "attach", "bind", "launch", "check", "stop", "close"}
    /\ proc \in {"off", "on", "unknown"}

(* A roster lease is complete or absent: an open group lease has a child in *)
(* every Owner's map, one that is not open has none (MountedVolumeSet's     *)
(* Acquire and its rollback, MountedVolumeSetLease.Close), and a root pin   *)
(* that is held keeps its group lease open.                                 *)
AllOrNothing ==
    /\ \A l \in Groups : LET has == {v \in Volumes : l \in own[v].kids}
                         IN has = IF grp[l].st = "open" THEN Volumes ELSE {}
    /\ \A p \in Pins : pin[p].st = "held" => grp[pin[p].lease].st = "open"

(* While a consumer process may live, the roster lease is open and every    *)
(* clone it reads through is still recorded as attached: ServiceRuntime     *)
(* closes the handoff only after a confirmed stop, and an isolated process  *)
(* pins the handoff's root against a direct Close.                          *)
ConsumersStopFirst ==
    proc # "off" =>
        /\ hand.lease /\ ~hand.closed /\ grp["handoff"].st = "open"
        /\ \A s \in Shares : hand.of[s].mounted

(* Owner.Unmount takes a volume away only when nothing of this program      *)
(* still uses it: no child lease, no root pin, no clone on a service path,  *)
(* no process.                                                              *)
NoUnmountUnderUse ==
    [][\A v \in Volumes :
          own[v].st = "draining" /\ own'[v].st = "unavailable" =>
             /\ own[v].kids = {} /\ "ours" \notin path[v] /\ proc = "off"
             /\ \A p \in Pins : pin[p].st = "held" => pin[p].lease = ""]_vars

Lost == \E v \in Volumes : own[v].st # "mounted" \/ ~Exact(v) \/ path[v] # {"ours"}

(* A volume that is lost, drained or hidden, or a service path that no      *)
(* longer shows its clone, takes the service out of ready unless it is      *)
(* restored first (ServiceRuntime.Observe).                                 *)
LossStopsService == (run.st = "ready" /\ Lost) ~> (run.st # "ready" \/ ~Lost)
=============================================================================

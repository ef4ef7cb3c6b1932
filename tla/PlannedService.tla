--------------------------- MODULE PlannedService ---------------------------
(***************************************************************************)
(* The two consumers of a file-service plan: BuildFromLeasedNASOwners,     *)
(* which plans from a policy held under a lease, and the planned Samba     *)
(* service of internal/smbexec, which keeps the identity lease and the     *)
(* share pins of its plan, verifies all three before and after every       *)
(* lifecycle step, starts its daemon once and stops it on the first doubt. *)
(*                                                                         *)
(* A verification reads the pins first and the owners' evidence second, so *)
(* it takes two steps between which the world may change.  The runtime     *)
(* below (internal/runtimebundle) is modelled by its promises: a start or  *)
(* a stop that fails leaves the daemon in an unknown state.                *)
(***************************************************************************)
EXTENDS Naturals, FiniteSets

-----------------------------------------------------------------------------
(***************************************************************************)
(* internal/fileserviceplan: the compiler that turns a desired policy, the *)
(* evidence of the identity owner and the evidence of the mounted roster   *)
(* into an inert plan, and binds the plan to all it was built from.        *)
(*                                                                         *)
(* A fingerprint is a hash of everything it covers, so it is modelled by   *)
(* the covered value itself.  Rendered text is modelled by what it grants: *)
(* the accounts of a lookup document and the roots of a share or export.   *)
(* The evidence changes between any two steps; only Build sees both parts  *)
(* at once, under the storage lock and then the identity lock.             *)
(***************************************************************************)
CONSTANTS Users,      \* accounts of the registry
          Vols,       \* logical volumes, each with one expected filesystem
          Policies,   \* valid desired file-service policies
          MaxEvents   \* bound: changes of the evidence and of the policy

VARIABLES ident,    \* the identity owner's evidence
          stor,     \* the mounted roster's evidence
          events    \* changes so far

NoPlan == [made |-> FALSE]

-----------------------------------------------------------------------------
(* The evidence *)

GoodAccount == [state |-> "enabled", unix |-> TRUE, journal |-> "enabled", passdb |-> "on"]
GoodVolume  == [mount |-> 1, expected |-> TRUE, ro |-> FALSE]

InitEvidence ==
  /\ ident = [rev |-> 1, whole |-> TRUE, acct |-> [u \in Users |-> GoodAccount], anon |-> TRUE]
  /\ stor  = [gen |-> 1, complete |-> TRUE, vols |-> [v \in Vols |-> GoodVolume]]
  /\ events = 0

\* Samba credentials of an account are turned off through the owner, or behind it.
RevokeSamba(u) ==
  /\ ident.acct[u].passdb = "on"
  /\ \E j \in {ident.acct[u].journal, "disabled"} :
        ident' = [ident EXCEPT !.acct[u].passdb = "off", !.acct[u].journal = j]
  /\ UNCHANGED stor

\* An account is disabled or retired in the registry.
ChangeState(u) ==
  /\ \E s \in {"disabled", "retired"} :
        /\ ident.acct[u].state \notin {s, "retired"}
        /\ ident' = [ident EXCEPT !.rev = @ + 1, !.acct[u].state = s]
  /\ UNCHANGED stor

\* The Unix identity of an account, or of the anonymous client, disappears, or
\* the owner can no longer vouch for every account of its registry.
LoseUnix ==
  /\ \/ \E u \in Users : ident.acct[u].unix /\ ident' = [ident EXCEPT !.acct[u].unix = FALSE]
     \/ ident.anon /\ ident' = [ident EXCEPT !.anon = FALSE]
     \/ ident.whole /\ ident' = [ident EXCEPT !.whole = FALSE]
  /\ UNCHANGED stor

\* The roster mounts a volume anew: read-only, or with another filesystem.
Remount(v) ==
  /\ v \in DOMAIN stor.vols
  /\ \E ro, expected \in BOOLEAN :
        stor' = [stor EXCEPT !.gen = @ + 1, !.vols[v] = [mount |-> stor.gen + 1, expected |-> expected, ro |-> ro]]
  /\ UNCHANGED ident

\* A mount turns read-only where it is, and the roster's generation stays.
TurnReadOnly(v) ==
  /\ v \in DOMAIN stor.vols /\ ~stor.vols[v].ro
  /\ stor' = [stor EXCEPT !.vols[v].ro = TRUE]
  /\ UNCHANGED ident

\* A volume leaves the roster, or the roster can no longer vouch for itself.
LoseStorage ==
  /\ \/ \E v \in DOMAIN stor.vols :
           stor' = [stor EXCEPT !.gen = @ + 1, !.vols = [w \in DOMAIN stor.vols \ {v} |-> stor.vols[w]]]
     \/ stor.complete /\ stor' = [stor EXCEPT !.complete = FALSE]
  /\ UNCHANGED ident

Change ==
  /\ events < MaxEvents /\ events' = events + 1
  /\ \/ \E u \in Users : RevokeSamba(u) \/ ChangeState(u)
     \/ \E v \in Vols : Remount(v) \/ TurnReadOnly(v)
     \/ LoseUnix \/ LoseStorage

-----------------------------------------------------------------------------
(* Build *)

Granted(p) == UNION { { g.user : g \in s.grants } : s \in p.shares }

\* identityFromOwnerEvidence: the journal of every account is confirmed, and its
\* passdb entry is absent or its own.
identityFromOwnerEvidence(i) == i.whole

\* Registry.BindShares: every granted account exists and is enabled.
BindShares(p, i) == \A u \in Granted(p) : i.acct[u].state = "enabled"

\* Only the journal is asked; the live passdb observation is not.
validateSMBJournals(p, i) ==
  /\ BindShares(p, i)
  /\ \A u \in Granted(p) : i.acct[u].unix /\ i.acct[u].journal = "enabled"

validateSMBAccounts(p, i) ==
  /\ BindShares(p, i)
  /\ \A u \in Granted(p) : i.acct[u].unix /\ i.acct[u].journal = "enabled" /\ i.acct[u].passdb = "on"

validateNFSIdentities(p, i) == p.exports # {} => i.anon

\* Volumes of the policy that only shares write to.
writesByShares(p) == { s.vol : s \in { x \in p.shares : \E g \in x.grants : g.access = "rw" } }

used(p) == { s.vol : s \in p.shares } \cup { e.vol : e \in p.exports }
writes(p) == writesByShares(p) \cup { e.vol : e \in { x \in p.exports : x.access = "rw" } }

StorageFromMountedOwnerSet(s) == s.complete /\ DOMAIN s.vols # {}

VolumesReady(p, s) ==
  \A v \in used(p) : v \in DOMAIN s.vols /\ s.vols[v].expected /\ (v \in writes(p) => ~s.vols[v].ro)

\* renderSambaNSS: the accounts a share names, and nobody else.
renderSambaNSS(p) == Granted(p)

\* sambaManagementLookup: every live account, or none when one is unknown to Unix.
sambaManagementLookup(i) ==
  LET live == { u \in Users : i.acct[u].state # "retired" }
  IN  IF \A u \in live : i.acct[u].unix THEN live ELSE {}

\* Two registries of one revision are taken for the same evidence.
FreshnessByRevision(p, active, i, s) ==
  [policy |-> p.rev, active |-> active, ident |-> [i EXCEPT !.acct = [u \in Users |-> GoodAccount]],
   stor |-> s]

Freshness(p, active, i, s) ==
  [policy |-> p.rev, active |-> active, ident |-> i, stor |-> s]

Ready(p, i, s) ==
  /\ StorageFromMountedOwnerSet(s) /\ identityFromOwnerEvidence(i)
  /\ validateSMBAccounts(p, i)
  /\ validateNFSIdentities(p, i)
  /\ \A e \in p.exports : e.sec = "sys"      \* Kerberos is never ready
  /\ VolumesReady(p, s)

Build(p, active, i, s) ==
  IF Ready(p, i, s)
  THEN [made |-> TRUE, fresh |-> Freshness(p, active, i, s), policy |-> p,
        service |-> renderSambaNSS(p), management |-> sambaManagementLookup(i),
        mounts |-> [v \in used(p) |-> s.vols[v].mount]]
  ELSE NoPlan

FreshAgainst(plan, fresh) == plan.made /\ plan.fresh = fresh

\* SambaShareCandidates: a root is read-only unless some grant writes.
SambaShareRoots(p) ==
  { [vol |-> s.vol, ro |-> \A g \in s.grants : g.access # "rw"] : s \in p.shares }

\* BuildIsolated refuses no shares at all, and a share of a whole volume.
SambaIsolatedCandidate(plan) ==
  plan.made /\ plan.policy.shares # {} /\ \A s \in plan.policy.shares : ~s.whole

\* Both lookups and the service come from one plan.
SambaRoleCandidate(plan) == SambaIsolatedCandidate(plan) /\ plan.management # {}

\* nfsCandidateRoots: an export is read-only unless some client writes.
nfsCandidateRoots(plan) ==
  { [vol |-> e.vol, mount |-> plan.mounts[e.vol], ro |-> e.access # "rw"] : e \in plan.policy.exports }

NFSv3TCPCandidate(plan) == plan.made /\ \A e \in plan.policy.exports : e.sec = "sys"

\* The candidate's own storage evidence is compared, and nothing else.
FreshAgainstStorage(plan, s) ==
  NFSv3TCPCandidate(plan) /\ s.complete /\ plan.fresh.stor = s

-----------------------------------------------------------------------------
(* What a plan claims, whenever it is taken for current: every account it    *)
(* lets in is enabled in the registry, known to Unix and on in Samba; every  *)
(* volume is the mount it was planned on, with the expected filesystem, and  *)
(* writable where the policy writes.                                         *)

PlanHolds(plan) ==
  LET p == plan.policy
  IN  /\ \A u \in plan.service : ident.acct[u] = GoodAccount
      /\ stor.complete
      /\ \A v \in used(p) : /\ v \in DOMAIN stor.vols
                            /\ stor.vols[v].mount = plan.mounts[v] /\ stor.vols[v].expected
      /\ \A s \in p.shares : \A g \in s.grants : g.access = "rw" => ~stor.vols[s.vol].ro
      /\ \A e \in p.exports : ident.anon /\ (e.access = "rw" => ~stor.vols[e.vol].ro)

-----------------------------------------------------------------------------
(* The consumers of a plan.                                                *)
CONSTANTS MaxChecks   \* bound: observations of one supervision

VARIABLES policy,  \* the stored policy
          leased,  \* the leased planner: step, the policy it read, its plan, and
                   \* (history) whether that policy stood as the evidence was read
          srv,     \* the planned service
          call,    \* its call in progress: op and step
          daemon,  \* the daemon: off, running or unknown
          good     \* history: the plan held at the last evidence step of the call

vars == <<ident, stor, events, policy, leased, srv, call, daemon, good>>

Idle == [op |-> "none", step |-> "idle"]
NoService == [made |-> FALSE]
NoLeased == [step |-> "idle", policy |-> {}, plan |-> NoPlan, stood |-> FALSE]

Init ==
  /\ InitEvidence
  /\ policy \in Policies
  /\ leased = NoLeased
  /\ srv = NoService /\ call = Idle /\ daemon = "off" /\ good = FALSE

World == <<ident, stor, events>>

-----------------------------------------------------------------------------
(* BuildFromLeasedNASOwners *)

\* The document changes while no lease pins it, or is damaged under a lease:
\* either way the lease no longer verifies.
ChangePolicy ==
  /\ events < MaxEvents /\ events' = events + 1
  /\ \E p \in Policies : p # policy /\ policy' = [p EXCEPT !.rev = policy.rev + 1]
  /\ UNCHANGED <<ident, stor, leased, srv, call, daemon, good>>

LeasedSnapshot ==
  /\ leased.step = "idle"
  /\ leased' = [leased EXCEPT !.step = "build", !.policy = policy, !.plan = NoPlan]
  /\ UNCHANGED <<World, policy, srv, call, daemon, good>>

LeasedBuild ==
  /\ leased.step = "build"
  /\ LET plan == Build(leased.policy, 0, ident, stor)
     IN  leased' = IF plan.made
                   THEN [leased EXCEPT !.step = "verify", !.plan = plan, !.stood = policy = leased.policy]
                   ELSE NoLeased
  /\ UNCHANGED <<World, policy, srv, call, daemon, good>>

\* The plan is returned without asking the lease again.
LeasedReturn ==
  /\ leased.step = "verify"
  /\ leased' = [leased EXCEPT !.step = "done"]
  /\ UNCHANGED <<World, policy, srv, call, daemon, good>>

LeasedVerify ==
  /\ leased.step = "verify"
  /\ leased' = IF policy = leased.policy THEN [leased EXCEPT !.step = "done"] ELSE NoLeased
  /\ UNCHANGED <<World, policy, srv, call, daemon, good>>

-----------------------------------------------------------------------------
(* The planned service *)

At(op, step) == call.op = op /\ call.step = step
Go(step) == call' = [call EXCEPT !.step = step]
Return == call' = Idle

\* stop: nothing is retried once an outcome is uncertain.
Stop(s) ==
  IF s.uncertain \/ ~s.started \/ s.stopped
  THEN srv' = s /\ UNCHANGED daemon
  ELSE \/ srv' = [s EXCEPT !.stopped = TRUE] /\ daemon' = "off"
       \/ srv' = [s EXCEPT !.uncertain = TRUE, !.review = TRUE] /\ daemon' = "unknown"

quarantine == Stop([srv EXCEPT !.review = TRUE]) /\ Return

\* RetainShareRoots: the pins are of the roster as it is now, and of the roots
\* that were declared.
RetainShareRoots(declared) == [op |-> "new", step |-> "plan", pins |-> stor, roots |-> declared]

\* NewNativePlannedService: the caller has pins for some policy; then the plan.
New ==
  /\ ~srv.made /\ call = Idle
  /\ \E p \in Policies : call' = RetainShareRoots(SambaShareRoots(p))
  /\ UNCHANGED <<World, policy, leased, srv, daemon, good>>

\* VerifySharePins: the pins were declared for the very roots of the plan.
sameDeclaredRoots(required, actual) == required = actual
VerifySharePins(roots, plan) == sameDeclaredRoots(SambaShareRoots(plan.policy), roots)

NewPlan ==
  /\ At("new", "plan")
  /\ LET plan == Build(policy, 0, ident, stor)
     IN  IF /\ plan.made /\ policy.exports = {}
            /\ SambaRoleCandidate(plan) /\ VerifySharePins(call.roots, plan)
         THEN call' = [op |-> "new", step |-> "retain", pins |-> call.pins, plan |-> plan]
         ELSE Return
  /\ UNCHANGED <<World, policy, leased, srv, daemon, good>>

\* RetainSMBFileServiceSnapshot: only while the evidence is still the plan's.
NewRetain ==
  /\ At("new", "retain")
  /\ IF ident = call.plan.fresh.ident
     THEN /\ srv' = [made |-> TRUE, plan |-> call.plan, pins |-> call.pins, attempted |-> FALSE, started |-> FALSE,
                     stopped |-> FALSE, closed |-> FALSE, review |-> FALSE, uncertain |-> FALSE,
                     file |-> "none", lease |-> "held", shares |-> "held", checks |-> 0, data |-> "no"]
          /\ call' = [op |-> "prepare", step |-> "pins"]
     ELSE UNCHANGED srv /\ Return
  /\ UNCHANGED <<World, policy, leased, daemon, good>>

\* verify, first half: the pins against the roster they were taken from.
VerifySourceSet == stor = srv.pins
VerifyPins ==
  /\ call.step \in {"pins", "pins2"}
  /\ IF VerifySourceSet
     THEN Go(IF call.step = "pins" THEN "fresh" ELSE "fresh2") /\ UNCHANGED <<srv, daemon>>
     ELSE quarantine
  /\ UNCHANGED <<World, policy, leased, good>>

\* The evidence is not collected anew.
VerifyFreshAsked ==
  /\ call.step \in {"fresh", "fresh2"}
  /\ good' = PlanHolds(srv.plan)
  /\ Go(IF call.step = "fresh" THEN "act" ELSE "publish")
  /\ UNCHANGED <<World, policy, leased, srv, daemon>>

\* verify, second half: plan again under the retained lease and compare.  The
\* lease itself refuses once the evidence moved, and never recovers.  The held
\* session or file is not what it was, or the caller's time is over.
VerifyFresh ==
  /\ call.step \in {"fresh", "fresh2"}
  /\ good' = PlanHolds(srv.plan)
  /\ LET fresh == Build(srv.plan.policy, 0, ident, stor)
     IN  IF ident = srv.plan.fresh.ident /\ fresh.made /\ FreshAgainst(srv.plan, fresh.fresh)
         THEN \/ Go(IF call.step = "fresh" THEN "act" ELSE "publish") /\ UNCHANGED <<srv, daemon>>
              \/ quarantine
         ELSE quarantine
  /\ UNCHANGED <<World, policy, leased>>

\* PreparePlannedDataInputs with duplicates of the pinned roots.
Prepare ==
  /\ At("prepare", "act")
  /\ \/ Go("pins2") /\ UNCHANGED <<srv, daemon>>
     \/ quarantine
  /\ UNCHANGED <<World, policy, leased, good>>

Start ==
  /\ srv.made /\ call = Idle
  /\ ~srv.closed /\ ~srv.review /\ ~srv.attempted
  /\ srv' = [srv EXCEPT !.attempted = TRUE]
  /\ call' = [op |-> "start", step |-> "pins"]
  /\ UNCHANGED <<World, policy, leased, daemon, good>>

\* StartPlannedDaemon: its failure is no witness of what it left behind.
StartDaemon ==
  /\ At("start", "act")
  /\ \/ /\ daemon' = "running" /\ srv' = [srv EXCEPT !.started = TRUE] /\ Go("pins2")
     \/ /\ daemon' \in {"off", "unknown"}
        /\ srv' = [srv EXCEPT !.uncertain = TRUE, !.review = TRUE] /\ Return
  /\ UNCHANGED <<World, policy, leased, good>>

\* VerifyDataAccess, and the held session or the held file that follows it.
Use(next) ==
  /\ srv.made /\ call = Idle
  /\ ~srv.closed /\ ~srv.review /\ srv.started /\ ~srv.stopped
  /\ \/ srv.data = "no" /\ next = "data"
     \/ srv.data = "verified" /\ next \in {"session", "file"}
  /\ srv' = [srv EXCEPT !.data = next]
  /\ call' = [op |-> next, step |-> "pins"]
  /\ UNCHANGED <<World, policy, leased, daemon, good>>

\* ProbePlannedDataAccess, or the client of the held session is started.
UseAct ==
  /\ call.op \in {"data", "session"} /\ call.step = "act"
  /\ \/ Go("pins2") /\ UNCHANGED <<srv, daemon>>
     \/ quarantine
  /\ UNCHANGED <<World, policy, leased, good>>

\* retainPlannedOpenFile: the file is opened through a duplicate of its root; a
\* duplicate that does not close is uncertain.
RetainFile ==
  /\ At("file", "act")
  /\ \/ srv' = [srv EXCEPT !.file = "held"] /\ Go("client") /\ UNCHANGED daemon
     \/ \E o \in {"none", "held"}, u \in BOOLEAN :
          Stop([srv EXCEPT !.file = o, !.uncertain = u, !.review = TRUE]) /\ Return
  /\ UNCHANGED <<World, policy, leased, good>>

FileClient ==
  /\ At("file", "client")
  /\ \/ Go("pins2") /\ UNCHANGED <<srv, daemon>>
     \/ quarantine
  /\ UNCHANGED <<World, policy, leased, good>>

\* A client that fails to start is left to the runtime, never stopped from here.
ClientFails ==
  /\ At("session", "act") \/ At("file", "client")
  /\ daemon' \in {"off", "unknown"}
  /\ srv' = [srv EXCEPT !.uncertain = TRUE, !.review = TRUE] /\ Return
  /\ UNCHANGED <<World, policy, leased, good>>

\* Observe, also the body of Supervise.
Observe(op) ==
  /\ srv.made /\ call = Idle
  /\ ~srv.closed /\ ~srv.review /\ ~srv.stopped /\ srv.checks < MaxChecks
  /\ op # "observe" => srv.started
  /\ op = "fault" => srv.data = "verified"
  /\ call' = [op |-> op, step |-> "pins"]
  /\ UNCHANGED <<World, policy, leased, srv, daemon, good>>

ObserveAct ==
  /\ call.op \in {"observe", "supervise", "fault", "faulted"} /\ call.step = "act"
  /\ srv' = [srv EXCEPT !.checks = @ + 1]
  /\ \/ call.op = "observe" /\ Return
     \/ call.op \in {"supervise", "faulted"} /\ srv.checks + 1 < MaxChecks /\ Go("pins")
     \/ call.op = "fault" /\ Go("exit")
  /\ UNCHANGED <<World, policy, leased, daemon, good>>

\* SuperviseExitFault asks the daemon to exit, once and after a complete check;
\* a request that is not answered as expected is a doubt.
RequestExit ==
  /\ At("fault", "exit")
  /\ \/ /\ call' = [call EXCEPT !.op = "faulted", !.step = "pins"]
        /\ daemon' \in {"running", "off"} /\ UNCHANGED srv
     \/ quarantine
  /\ UNCHANGED <<World, policy, leased, good>>

\* A supervision that is cancelled while idle stops the daemon, keeps the rest;
\* a daemon that was asked to exit is not one to stop and forget.
CancelSupervise ==
  /\ call.op \in {"supervise", "fault", "faulted"} /\ call.step = "pins"
  /\ IF call.op = "faulted" THEN quarantine ELSE Stop(srv) /\ Return
  /\ UNCHANGED <<World, policy, leased, good>>

\* The second verification passed: the call publishes and returns.
Publish ==
  /\ call.step = "publish"
  /\ srv' = IF call.op = "data" THEN [srv EXCEPT !.data = "verified"] ELSE srv
  /\ Return
  /\ UNCHANGED <<World, policy, leased, daemon, good>>

Released(parts, s) ==
  [s EXCEPT !.stopped = TRUE,
            !.file = IF "file" \in parts /\ @ = "held" THEN "released" ELSE @,
            !.lease = IF "lease" \in parts THEN "released" ELSE @,
            !.shares = IF "shares" \in parts THEN "released" ELSE @]

\* Close lets the originals go although the service is under review.
CloseReviewed ==
  /\ srv.made /\ call = Idle /\ ~srv.closed
  /\ srv' = [Released({"file", "lease", "shares"}, srv) EXCEPT !.closed = TRUE]
  /\ UNCHANGED daemon
  /\ UNCHANGED <<World, policy, leased, call, good>>

\* Close: the runtime first, then the file, the lease and the pins; each only
\* after the one before is certain, and never under review.
Close ==
  /\ srv.made /\ call = Idle /\ ~srv.uncertain /\ ~srv.review /\ ~srv.closed
  /\ \/ /\ daemon' = "off"
        /\ srv' = [Released({"file", "lease", "shares"}, srv) EXCEPT !.closed = TRUE]
     \/ \E parts \in {{}, {"file"}, {"file", "lease"}} :
          /\ daemon' = "off"
          /\ srv' = [Released(parts, srv) EXCEPT !.uncertain = TRUE, !.review = TRUE]
     \/ /\ daemon' = IF daemon = "off" THEN "off" ELSE "unknown"
        /\ srv' = [srv EXCEPT !.uncertain = TRUE, !.review = TRUE]
  /\ UNCHANGED <<World, policy, leased, call, good>>

Next ==
  \/ Change /\ UNCHANGED <<policy, leased, srv, call, daemon, good>>
  \/ ChangePolicy
  \/ LeasedSnapshot \/ LeasedBuild \/ LeasedVerify
  \/ New \/ NewPlan \/ NewRetain \/ VerifyPins \/ VerifyFresh \/ Prepare
  \/ Start \/ StartDaemon \/ UseAct \/ RetainFile \/ FileClient \/ ClientFails
  \/ ObserveAct \/ RequestExit \/ CancelSupervise \/ Publish \/ Close
  \/ \E next \in {"data", "session", "file"} : Use(next)
  \/ \E op \in {"observe", "supervise", "fault"} : Observe(op)

Spec == Init /\ [][Next]_vars

-----------------------------------------------------------------------------
(* Properties *)

\* BuildFromLeasedNASOwners asks the policy lease before and after it reads the
\* evidence of the other owners: the policy of a plan that is returned was the
\* stored one, and ready, at the moment that evidence was read, whatever was
\* saved in between; the promises of a plan that is still fresh are true.
PlanIsCoherent ==
  /\ leased.step = "done" =>
        leased.stood /\ leased.plan.fresh.policy = leased.policy.rev /\ Ready(leased.policy, leased.plan.fresh.ident, leased.plan.fresh.stor)
  /\ leased.step = "done" /\ FreshAgainst(leased.plan, Freshness(policy, 0, ident, stor)) => PlanHolds(leased.plan)
  /\ leased.step = "done" /\ FreshAgainstStorage(leased.plan, stor) =>
        \A x \in nfsCandidateRoots(leased.plan) : stor.vols[x.vol].mount = x.mount /\ (x.ro \/ ~stor.vols[x.vol].ro)

\* A call of the planned service that succeeds saw its whole plan hold at one
\* moment after its last effect: every account it serves enabled, every volume
\* the planned mount, and the pinned roots those of the plan.
ServesWhatHolds ==
  [][ /\ call # Idle /\ call.step \in {"publish"} /\ call' = Idle => good
      /\ srv.made /\ srv'.made /\ srv'.checks > srv.checks => good /\ srv.pins = srv.plan.fresh.stor ]_vars

\* While the daemon runs or may run, its identity lease and share pins are held,
\* and so is the file that a client has open.
OriginalsOutliveDaemon ==
  srv.made /\ daemon # "off" => srv.lease = "held" /\ srv.shares = "held" /\ srv.file # "released"

\* After a doubt nothing starts again: a reviewed service is at rest, or an
\* outcome is uncertain and nothing may touch it, and no call ever starts the
\* daemon twice.
DoubtStops ==
  /\ srv.made /\ srv.review => daemon # "running" \/ srv.uncertain
  /\ srv.made /\ daemon = "unknown" => srv.uncertain /\ srv.review
StartedOnce == [][ daemon # "running" /\ daemon' = "running" => ~srv.started /\ ~srv.review ]_vars
=============================================================================

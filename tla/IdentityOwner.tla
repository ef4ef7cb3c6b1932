--------------------------- MODULE IdentityOwner ---------------------------
(***************************************************************************)
(* identityowner: the one authority over the account registry, the native  *)
(* journal of every account, its optional Samba child journal, and the     *)
(* leases of the file services that rely on them.  All calls take one      *)
(* mutex, so only Reserve, the native and Samba steps and the Samba Begin, *)
(* which publish more than once, have more than one step here.             *)
(*                                                                         *)
(* Each document is a revision store (DurableRegister is its promise); the *)
(* journals' own rules are in UnixJournal and SMBJournal, of which this    *)
(* module keeps the phases the owner tells apart: group and user commands  *)
(* are one intent, a confirmed group is a reservation still, and the       *)
(* disabled phases are one.                                                *)
(***************************************************************************)
EXTENDS Naturals, Sequences, FiniteSets

-----------------------------------------------------------------------------
(***************************************************************************)
(* serviceaccounts: the ledger of NAS identities, as operators.  A registry *)
(* is a revision and a sequence of accounts; every account keeps its id,    *)
(* its name and its number for ever, retired or not.  UID and GID of an     *)
(* account are one number.  What others use is an inventory of numbers      *)
(* (UIDs and GIDs together, as Create merges them) and of names.            *)
(***************************************************************************)
CONSTANTS FirstID, LastID,   \* the range numbers are taken from
          MaxRecords,        \* accounts a registry may hold, retired ones included
          MaxLive            \* accounts that are not retired

ASSUME RangeAssumption == /\ FirstID \in Nat /\ LastID \in Nat /\ FirstID <= LastID
                          /\ MaxRecords \in Nat /\ MaxLive \in Nat

States == {"disabled", "enabled", "retired"}
Records(r) == {r.accounts[i] : i \in DOMAIN r.accounts}
Ids(r) == {a.id : a \in Records(r)}
Live(r) == {i \in DOMAIN r.accounts : r.accounts[i].state # "retired"}

NewRegistry == [rev |-> 1, accounts |-> << >>]

\* Registry.Validate.
ValidRegistry(r) ==
    /\ r.rev # 0
    /\ Len(r.accounts) <= MaxRecords
    /\ \A i, k \in DOMAIN r.accounts : i # k =>
           /\ r.accounts[i].id # r.accounts[k].id
           /\ r.accounts[i].name # r.accounts[k].name
           /\ r.accounts[i].uid # r.accounts[k].uid
    /\ \A a \in Records(r) : a.uid \in FirstID..LastID /\ a.state \in States
    /\ Cardinality(Live(r)) <= MaxLive

\* The numbers Create may give: nobody's, and no account's, retired or not.
Free(r, reserved) ==
    {n \in FirstID..LastID : n \notin reserved /\ \A a \in Records(r) : a.uid # n}

\* Why Create refuses, or "nil".
CreateError(r, expected, id, name, reserved, names) ==
    CASE ~ValidRegistry(r) -> "ErrInvalid"
      [] r.rev # expected -> "ErrConflict"
      [] name \in names -> "ErrCollision"
      [] \E a \in Records(r) : a.id = id \/ a.name = name -> "ErrCollision"
      [] Len(r.accounts) >= MaxRecords -> "ErrExhausted"
      [] Cardinality(Live(r)) >= MaxLive -> "ErrExhausted"
      [] Free(r, reserved) = {} -> "ErrExhausted"
      [] OTHER -> "nil"

\* Registry.Create: the first free number, and the account starts disabled.
Create(r, id, name, reserved) ==
    LET free == Free(r, reserved)
        first == CHOOSE n \in free : \A k \in free : n <= k
    IN  [rev |-> r.rev + 1,
         accounts |-> Append(r.accounts, [id |-> id, name |-> name, uid |-> first, state |-> "disabled"])]

\* Why SetState refuses, or "nil": retiring needs a disabled account and is
\* for ever.
SetStateError(r, expected, id, state) ==
    CASE ~ValidRegistry(r) -> "ErrInvalid"
      [] r.rev # expected -> "ErrConflict"
      [] \A a \in Records(r) : a.id # id -> "ErrTransition"
      [] \E a \in Records(r) : /\ a.id = id
                               /\ \/ a.state = "retired" \/ a.state = state
                                  \/ state \notin States
                                  \/ state = "retired" /\ a.state # "disabled" -> "ErrTransition"
      [] OTHER -> "nil"

SetState(r, id, state) ==
    [rev |-> r.rev + 1,
     accounts |-> [i \in DOMAIN r.accounts |->
                      IF r.accounts[i].id = id THEN [r.accounts[i] EXCEPT !.state = state]
                                               ELSE r.accounts[i]]]

\* Registry.BindShares: every granted user, by id and by name, is an enabled
\* account; users maps the policy's user ids to names, grants is the set of
\* user ids its shares grant.
Bindable(r, users, grants) ==
    /\ ValidRegistry(r)
    /\ \A u \in grants : \E a \in Records(r) :
           a.id = u /\ a.name = users[u] /\ a.state = "enabled"
BoundAccounts(r, grants) == {a \in Records(r) : a.id \in grants}

-----------------------------------------------------------------------------
(* The owner.                                                              *)
CONSTANTS Accounts,      \* requests: an id, which is also the name
          Others,        \* numbers that other programs use
          Leases,        \* tokens, Cardinality(Leases) > maxFileServiceLeases
          MaxLeases,     \* maxFileServiceLeases
          MaxRevision,   \* bound on the registry's revision
          MaxSMB,        \* bound on a Samba journal's revision
          MaxForeign     \* bound on the writes of other programs

ASSUME OwnerAssumption == MaxLeases \in Nat /\ MaxRevision \in Nat /\ MaxSMB \in Nat /\ MaxForeign \in Nat

VARIABLES
    files,    \* what the directory shows: reg, nat, smb, dirs, smbDirs
    disk,     \* what a power loss may leave of it
    own,      \* the Owner: st, and what it still holds: lock, stores, backend
    call,     \* the call in progress: op, step, account, lease
    lease,    \* every token: st, review, fp
    passdb,   \* every account's Samba entry
    unix,     \* the accounts whose Unix identity is there
    foreign,  \* writes of other programs so far
    torn      \* history: a Reserve or a Begin was cut off after its mkdir, or a
              \* step found no identity under an account with a Samba journal

vars == <<files, disk, own, call, lease, passdb, unix, foreign, torn>>
world == <<passdb, unix, foreign>>

NoJournal == [phase |-> "none", reg |-> 0, uid |-> 0]
NoSMB == [phase |-> "none", rev |-> 0]
Intents == {"CreateIntent", "PasswordIntent", "EnableIntent", "DisableIntent"}
Idle == [op |-> "-", step |-> "-", account |-> "-", lease |-> "-"]
NoLease == [st |-> "free", review |-> FALSE, fp |-> "-"]
Closed == [st |-> "closed", lock |-> FALSE, stores |-> FALSE, backend |-> FALSE]
Opened == [st |-> "open", lock |-> TRUE, stores |-> TRUE, backend |-> TRUE]

Registered(f) == Ids(f.reg)
Entry(f, a) == CHOOSE e \in Records(f.reg) : e.id = a
Confirmed(f, a) == f.nat[a].phase = "UnixConfirmed"
Retained == {l \in Leases : lease[l].st = "held"}

Init ==
    /\ files = [reg |-> NewRegistry, nat |-> [a \in Accounts |-> NoJournal],
                smb |-> [a \in Accounts |-> NoSMB], dirs |-> {}, smbDirs |-> {}]
    /\ disk = {files}
    /\ own = Closed /\ call = Idle
    /\ lease = [l \in Leases |-> NoLease]
    /\ passdb = [a \in Accounts |-> "absent"] /\ unix = {} /\ foreign = 0
    /\ torn = FALSE

-----------------------------------------------------------------------------
\* A document is published: for sure, or its store fails the call, before the
\* rename or with an outcome only a reopening decides.
Put(f, doc, value) == [f EXCEPT ![doc] = value]
Commits(doc, value) ==
    /\ files' = Put(files, doc, value)
    /\ disk' = {Put(d, doc, value) : d \in disk}
CommitFails(doc, value) ==
    \/ UNCHANGED <<files, disk>>
    \/ /\ disk' = disk \cup {Put(d, doc, value) : d \in disk}
       /\ files' \in {files, Put(files, doc, value)}
\* A directory entry is made, and then synced with the ones beside it.
Makes(doc, value) == files' = Put(files, doc, value) /\ disk' = disk \cup {Put(d, doc, value) : d \in disk}
Syncs(doc) == disk' = {Put(d, doc, files[doc]) : d \in disk} /\ UNCHANGED files

Returns == call' = Idle
Goto(op, step, a, l) == call' = [op |-> op, step |-> step, account |-> a, lease |-> l]
Fails == own' = [own EXCEPT !.st = "failed"]
Entered == own.st = "open" /\ call.op = "-"

\* Mutant: a directory without an account is not noticed.
ScanIgnoresOrphans(f) ==
    /\ Registered(f) \subseteq f.dirs
    /\ \A i \in DOMAIN f.reg.accounts : f.nat[f.reg.accounts[i].id].uid = f.reg.accounts[i].uid

\* loadSMBForAccount: a Samba journal needs a finished native one.
Children(f) ==
    \A a \in Registered(f) \cap f.smbDirs : Confirmed(f, a) /\ f.smb[a].phase # "none"

\* The journal of the registry's account i is there, is the account's own and
\* was created in the order of the registry.
Journal(f, i) == f.nat[f.reg.accounts[i].id]
InPlace(f, i) ==
    /\ f.reg.accounts[i].state \in {"disabled", "enabled"}
    /\ Journal(f, i).phase # "none" /\ Journal(f, i).uid = f.reg.accounts[i].uid
    /\ Journal(f, i).reg >= i + 1 /\ Journal(f, i).reg <= f.reg.rev
    /\ i > 1 => Journal(f, i).reg > Journal(f, i - 1).reg

\* Only the newest creation may be unfinished.
Unfinished(f) == {i \in 1..Len(f.reg.accounts) : Journal(f, i).phase # "UnixConfirmed"}
Ordered(f) ==
    /\ f.reg.rev >= Len(f.reg.accounts) + 1
    /\ \A i \in 1..Len(f.reg.accounts) : InPlace(f, i)
    /\ \A i, k \in Unfinished(f) : i = k
    /\ \A i \in Unfinished(f) : Journal(f, i).reg = f.reg.rev

\* scanSnapshot: the registry and the directories are the same accounts.
Scan(f) == Registered(f) = f.dirs /\ Ordered(f) /\ Children(f)

\* RecoverInterrupted: an intent found on opening becomes a review.
Recovered(f) ==
    [a \in Accounts |-> IF f.smb[a].phase \in Intents
                        THEN [phase |-> "ReviewRequired", rev |-> f.smb[a].rev + 1] ELSE f.smb[a]]

\* Opening a store syncs its document; the directories' entries are not synced.
Reopened(smb) ==
    {[d EXCEPT !.reg = files.reg, !.nat = files.nat, !.smb = smb] : d \in disk}

Open ==
    /\ ~own.lock /\ own.st = "closed"
    /\ IF Scan(files)
       THEN \/ /\ files' = Put(files, "smb", Recovered(files)) /\ disk' = Reopened(Recovered(files))
               /\ own' = Opened
            \/ /\ \/ UNCHANGED <<files, disk>>
                  \/ Recovered(files) # files.smb /\ CommitFails("smb", Recovered(files))
               /\ own' \in {Closed, [Opened EXCEPT !.st = "quarantined"]}
       ELSE /\ own' \in {Closed, [Opened EXCEPT !.st = "quarantined"]}
            /\ UNCHANGED <<files, disk>>
    /\ UNCHANGED <<call, lease, world, torn>>

\* A snapshot a call starts with cannot be read, or its directories changed.
ScanFails == Entered /\ Fails /\ UNCHANGED <<files, disk, call, lease, world, torn>>

\* Mutant: the stores are released although the backend may still work.
CloseReleasesAll ==
    /\ own.st \in {"open", "failed"} /\ call.op = "-" /\ Retained = {}
    /\ own' \in {Closed, [Closed EXCEPT !.st = "quarantined", !.backend = TRUE]}
    /\ UNCHANGED <<files, disk, call, lease, world, torn>>

\* Close: refused while a file service is retained; the backend is closed
\* before any store, the stores before the root's lock, and the first of them
\* that does not close for sure keeps what is left, for ever.
Close ==
    /\ own.st \in {"open", "failed"} /\ call.op = "-" /\ Retained = {}
    /\ own' \in {Closed,
                 [own EXCEPT !.st = "quarantined"],
                 [own EXCEPT !.st = "quarantined", !.backend = FALSE],
                 [own EXCEPT !.st = "quarantined", !.backend = FALSE, !.stores = FALSE]}
    /\ UNCHANGED <<files, disk, call, lease, world, torn>>

-----------------------------------------------------------------------------
\* Numbers in use, as the inventory and the observation show them.
Reserved == Others \cup {files.nat[a].uid : a \in unix}

\* Reserve: with every creation finished, the account's directory is made.
Reserve(a) ==
    /\ Entered /\ Scan(files)
    /\ \A b \in Registered(files) : Confirmed(files, b)
    /\ files.reg.rev < MaxRevision
    /\ CreateError(files.reg, files.reg.rev, a, a, Reserved, {}) = "nil"
    /\ \/ /\ Makes("dirs", files.dirs \cup {a})
          /\ Goto("Reserve", "sync", a, "-")
          /\ UNCHANGED own
       \/ Fails /\ UNCHANGED <<files, disk, call>>
    /\ UNCHANGED <<lease, world, torn>>

\* The directory is synced and its journal opened.
ReserveSync ==
    /\ call.op = "Reserve" /\ call.step = "sync"
    /\ \/ Syncs("dirs") /\ Goto("Reserve", "journal", call.account, "-") /\ UNCHANGED <<own, torn>>
       \/ Fails /\ Returns /\ torn' = TRUE /\ UNCHANGED <<files, disk>>
    /\ UNCHANGED <<lease, world>>

Planned == Create(files.reg, call.account, call.account, Reserved)
Reservation == [phase |-> "Reserved", reg |-> files.reg.rev + 1,
                uid |-> Planned.accounts[Len(Planned.accounts)].uid]

\* The journal is published before the registry.
ReserveJournal ==
    /\ call.op = "Reserve" /\ call.step = "journal"
    /\ LET nat == [files.nat EXCEPT ![call.account] = Reservation]
       IN  \/ Commits("nat", nat) /\ Goto("Reserve", "registry", call.account, "-") /\ UNCHANGED <<own, torn>>
           \/ CommitFails("nat", nat) /\ Fails /\ Returns /\ torn' = TRUE
    /\ UNCHANGED <<lease, world>>

\* The registry is published and everything is read back.
ReserveRegistry ==
    /\ call.op = "Reserve" /\ call.step = "registry"
    /\ Returns
    /\ \/ Commits("reg", Planned) /\ UNCHANGED <<own, torn>>
       \/ CommitFails("reg", Planned) /\ Fails /\ torn' = TRUE
    /\ UNCHANGED <<lease, world>>

\* Mutant: the desired state changes under an unfinished creation.
SetDesiredStateAnyway(a, state) ==
    /\ Entered /\ Scan(files) /\ files.reg.rev < MaxRevision
    /\ SetStateError(files.reg, files.reg.rev, a, state) = "nil"
    /\ Commits("reg", SetState(files.reg, a, state))
    /\ UNCHANGED <<own, call, lease, world, torn>>

\* SetDesiredState: only with every creation finished and the identity there.
SetDesiredState(a, state) ==
    /\ Entered /\ Scan(files) /\ files.reg.rev < MaxRevision
    /\ SetStateError(files.reg, files.reg.rev, a, state) = "nil"
    /\ \A b \in Registered(files) : Confirmed(files, b)
    /\ a \in unix
    /\ LET reg == SetState(files.reg, a, state)
       IN  \/ Commits("reg", reg) /\ UNCHANGED own
           \/ CommitFails("reg", reg) /\ Fails
    /\ UNCHANGED <<call, lease, world, torn>>

\* What a step may put on record at once: an intent before its command; review
\* for a name or number that is taken, for an intent that is found, and for a
\* finished creation whose identity is gone.
StepPhases(a) ==
    CASE files.nat[a].phase = "Reserved" -> {"Intent", "ReviewRequired"}
      [] files.nat[a].phase = "Intent" -> {"ReviewRequired"}
      [] files.nat[a].phase = "UnixConfirmed" /\ a \notin unix -> {"ReviewRequired"}
      [] OTHER -> {}

\* Operation.Step: only for the registry's newest revision.
Step(a) ==
    /\ Entered /\ Scan(files) /\ a \in Registered(files) /\ files.nat[a].reg = files.reg.rev
    /\ \E phase \in StepPhases(a) :
           LET nat == [files.nat EXCEPT ![a].phase = phase]
           IN  \/ /\ Commits("nat", nat) /\ UNCHANGED own
                  /\ IF phase = "Intent" THEN Goto("Step", "command", a, "-") ELSE Returns
               \/ CommitFails("nat", nat) /\ Fails /\ Returns
    /\ torn' = (torn \/ (Confirmed(files, a) /\ a \in files.smbDirs))
    /\ UNCHANGED <<lease, world>>

\* The native commands run and the journal records what was observed.
StepDone ==
    /\ call.op = "Step"
    /\ Returns
    /\ unix' \in {unix, unix \cup {call.account}}
    /\ \E phase \in {"Reserved", "UnixConfirmed", "ReviewRequired"} :
           /\ phase = "UnixConfirmed" => call.account \in unix'
           /\ LET nat == [files.nat EXCEPT ![call.account].phase = phase]
              IN  \/ Commits("nat", nat) /\ UNCHANGED own
                  \/ CommitFails("nat", nat) /\ Fails
    /\ UNCHANGED <<lease, passdb, foreign, torn>>

-----------------------------------------------------------------------------
\* SMBOperation.Begin: a finished creation whose identity is there and which
\* has no Samba journal gets the journal's directory.
SMBBegin(a) ==
    /\ Entered /\ Scan(files) /\ a \in Registered(files) \cap unix
    /\ Confirmed(files, a) /\ a \notin files.smbDirs
    /\ Makes("smbDirs", files.smbDirs \cup {a}) /\ Goto("Begin", "sync", a, "-")
    /\ UNCHANGED <<own, lease, world, torn>>

SMBBeginSync ==
    /\ call.op = "Begin" /\ call.step = "sync"
    /\ \/ Syncs("smbDirs") /\ Goto("Begin", "journal", call.account, "-") /\ UNCHANGED <<own, torn>>
       \/ Fails /\ Returns /\ torn' = TRUE /\ UNCHANGED <<files, disk>>
    /\ UNCHANGED <<lease, world>>

\* The store observes passdb and publishes the reservation; a refusal before
\* that takes the empty directory away again (discardFreshSMB).
SMBBeginJournal ==
    /\ call.op = "Begin" /\ call.step = "journal"
    /\ LET smb == [files.smb EXCEPT ![call.account] = [phase |-> "Reserved", rev |-> 1]]
       IN  \/ /\ passdb[call.account] = "absent"
              /\ \/ Commits("smb", smb) /\ Returns /\ UNCHANGED <<own, torn>>
                 \/ CommitFails("smb", smb) /\ Fails /\ Returns /\ torn' = TRUE
           \/ /\ files' = Put(files, "smbDirs", files.smbDirs \ {call.account})
              /\ disk' = disk \cup {Put(d, "smbDirs", d.smbDirs \ {call.account}) : d \in disk}
              /\ Goto("Begin", "discard", call.account, "-") /\ UNCHANGED <<own, torn>>
           \/ Fails /\ Returns /\ torn' = TRUE /\ UNCHANGED <<files, disk>>
    /\ UNCHANGED <<lease, world>>

SMBDiscardSync ==
    /\ call.op = "Begin" /\ call.step = "discard"
    /\ Returns
    /\ \/ Syncs("smbDirs") /\ UNCHANGED <<own, torn>>
       \/ Fails /\ torn' = TRUE /\ UNCHANGED <<files, disk>>
    /\ UNCHANGED <<lease, world>>

\* The intents of Step, SetPasswordDisabled, Enable and Disable, the phases
\* they start from, and the phase and entry they confirm.
SMBCalls == [CreateIntent   |-> [from |-> {"Reserved"}, phase |-> "Disabled", entry |-> "disabled"],
             PasswordIntent |-> [from |-> {"Disabled"}, phase |-> "Disabled", entry |-> "disabled"],
             EnableIntent   |-> [from |-> {"Disabled"}, phase |-> "Enabled", entry |-> "enabled"],
             DisableIntent  |-> [from |-> {"Enabled"}, phase |-> "Disabled", entry |-> "disabled"]]
SMBNext(a, phase) == [files.smb EXCEPT ![a] = [phase |-> phase, rev |-> @.rev + 1]]

\* The intent of one Samba step; smbFailure makes the owner fail with its store.
SMBIntent(a, intent, l) ==
    /\ Entered /\ Scan(files) /\ a \in Registered(files) \cap unix \cap files.smbDirs
    /\ Confirmed(files, a)
    /\ files.smb[a].phase \in SMBCalls[intent].from /\ files.smb[a].rev + 2 <= MaxSMB
    /\ \/ Commits("smb", SMBNext(a, intent)) /\ Goto(intent, "command", a, l) /\ UNCHANGED own
       \/ CommitFails("smb", SMBNext(a, intent)) /\ Fails /\ Returns

SMBStep(a, intent) == SMBIntent(a, intent, "-") /\ UNCHANGED <<lease, world, torn>>

\* Journal.ValidateObservation, and an account without a journal is absent.
Agrees(a) == passdb[a] = CASE files.smb[a].phase = "Enabled" -> "enabled"
                           [] files.smb[a].phase = "Disabled" -> "disabled"
                           [] OTHER -> "absent"

\* observeConfirmedNativeLocked: every creation finished, its identity there.
ConfirmedNative == \A a \in Registered(files) : Confirmed(files, a) /\ a \in unix

\* nativeEvidenceLocked reads without recovering: an intent is not rewritten,
\* it makes the evidence unusable.
NativeEvidence ==
    /\ Scan(files)
    /\ \A a \in Accounts : files.smb[a].phase \notin Intents \cup {"ReviewRequired"}
    /\ ConfirmedNative

\* fileServiceSnapshotLocked: passdb agrees with every journal as well.
Healthy == NativeEvidence /\ \A a \in Registered(files) : Agrees(a)
Fingerprint == [reg |-> files.reg, nat |-> files.nat, smb |-> files.smb, unix |-> unix]

\* A Samba command runs; the journal confirms what it observed, or asks for
\* review.  DisableForFileService then hands its slot to a successor.
SMBDone ==
    /\ call.op \in Intents
    /\ Returns
    /\ UNCHANGED <<unix, foreign, torn>>
    /\ LET a == call.account
           step == SMBCalls[call.op]
       IN  /\ passdb' \in {passdb, [passdb EXCEPT ![a] = step.entry]}
           /\ \E phase \in {step.phase, "ReviewRequired"} :
                  /\ phase = step.phase => passdb'[a] = step.entry
                  /\ \/ Commits("smb", SMBNext(a, phase)) /\ UNCHANGED own
                     \/ CommitFails("smb", SMBNext(a, phase)) /\ Fails
           /\ IF call.lease # "-" /\ own'.st = "open" /\ Healthy'
              THEN \/ UNCHANGED lease
                   \/ lease' = [lease EXCEPT ![call.lease] =
                                    [st |-> "held", review |-> FALSE, fp |-> Fingerprint']]
              ELSE UNCHANGED lease

-----------------------------------------------------------------------------
Retain(l) ==
    /\ Entered /\ lease[l].st = "free" /\ Cardinality(Retained) < MaxLeases
    /\ Healthy
    /\ lease' = [lease EXCEPT ![l] = [st |-> "held", review |-> FALSE, fp |-> Fingerprint]]
    /\ UNCHANGED <<files, disk, own, call, world, torn>>

\* Mutant: a review is not kept.
VerifyForgets(l) ==
    /\ Entered /\ lease[l].st = "held" /\ Scan(files)
    /\ \E ok \in BOOLEAN :
           /\ ok => Healthy /\ Fingerprint = lease[l].fp
           /\ lease' = [lease EXCEPT ![l].review = ~ok]
    /\ UNCHANGED <<files, disk, own, call, world, torn>>

\* FileServiceLease.Verify: any other outcome than the retained evidence makes
\* the token useless.  scanSnapshot's own refusal fails the owner as well.
Verify(l) ==
    /\ Entered /\ lease[l].st = "held" /\ ~lease[l].review
    /\ \E ok \in BOOLEAN :
           /\ ok => Healthy /\ Fingerprint = lease[l].fp
           /\ lease' = [lease EXCEPT ![l].review = ~ok]
           /\ IF Scan(files) THEN UNCHANGED own ELSE Fails
    /\ UNCHANGED <<files, disk, call, world, torn>>

\* Release works in every state of the owner.
Release(l) ==
    /\ call.op = "-" /\ lease[l].st = "held"
    /\ lease' = [lease EXCEPT ![l] = NoLease]
    /\ UNCHANGED <<files, disk, own, call, world, torn>>

\* DisableForFileService: the token is in review before the intent is written.
DisableForFileService(l, a) ==
    /\ Entered /\ lease[l].st = "held" /\ ~lease[l].review
    /\ IF Healthy /\ Fingerprint = lease[l].fp
       THEN SMBIntent(a, "DisableIntent", l)
       ELSE UNCHANGED <<files, disk, own, call>>
    /\ lease' = [lease EXCEPT ![l].review = TRUE]
    /\ UNCHANGED <<world, torn>>

-----------------------------------------------------------------------------
\* Another program changes an account's entry or removes its identity.
Foreign(a) ==
    /\ foreign < MaxForeign /\ foreign' = foreign + 1
    /\ \/ /\ passdb' \in [Accounts -> {"absent", "disabled", "enabled"}]
          /\ \A b \in Accounts \ {a} : passdb'[b] = passdb[b]
          /\ UNCHANGED unix
       \/ unix' = unix \ {a} /\ UNCHANGED passdb
    /\ UNCHANGED <<files, disk, own, call, lease, torn>>

\* The process dies with its locks and its consumers' tokens.
Dies == own' = Closed /\ call' = Idle /\ lease' = [l \in Leases |-> NoLease]
        /\ torn' = (torn \/ call.op \in {"Reserve", "Begin"})
Kill == own.st # "closed" /\ Dies /\ UNCHANGED <<files, disk, world>>
PowerLoss ==
    /\ Dies
    /\ files' \in disk /\ disk' = {files'}
    /\ UNCHANGED world

Next ==
    \/ Open \/ Close \/ ScanFails \/ Kill \/ PowerLoss
    \/ ReserveSync \/ ReserveJournal \/ ReserveRegistry \/ StepDone
    \/ SMBBeginSync \/ SMBBeginJournal \/ SMBDiscardSync \/ SMBDone
    \/ \E a \in Accounts : \/ Reserve(a) \/ Step(a) \/ SMBBegin(a) \/ Foreign(a)
                           \/ \E state \in {"enabled", "disabled"} : SetDesiredState(a, state)
                           \/ \E intent \in Intents : SMBStep(a, intent)
    \/ \E l \in Leases : \/ Retain(l) \/ Verify(l) \/ Release(l)
                         \/ \E a \in Accounts : DisableForFileService(l, a)

Spec == Init /\ [][Next]_vars

-----------------------------------------------------------------------------
Registries == [rev : Nat, accounts : Seq([id : Accounts, name : Accounts, uid : Nat, state : States])]
Journals == [phase : {"none", "Reserved", "Intent", "ReviewRequired", "UnixConfirmed"}, reg : Nat, uid : Nat]
SMBs == [phase : Intents \cup {"none", "Reserved", "Disabled", "Enabled", "ReviewRequired"}, rev : Nat]
Directories == [reg : Registries, nat : [Accounts -> Journals], smb : [Accounts -> SMBs],
                dirs : SUBSET Accounts, smbDirs : SUBSET Accounts]

Prints == [reg : Registries, nat : [Accounts -> Journals], smb : [Accounts -> SMBs], unix : SUBSET Accounts]

TypeOK ==
    /\ files \in disk /\ disk \subseteq Directories
    /\ own \in [st : {"closed", "open", "failed", "quarantined"}, lock : BOOLEAN, stores : BOOLEAN, backend : BOOLEAN]
    /\ call.op \in {"-", "Reserve", "Step", "Begin"} \cup Intents
    /\ call.op # "-" => call.account \in Accounts
    /\ lease \in [Leases -> [st : {"free", "held"}, review : BOOLEAN, fp : Prints \cup {"-"}]]
    /\ passdb \in [Accounts -> {"absent", "disabled", "enabled"}] /\ unix \subseteq Accounts
    /\ torn \in BOOLEAN

\* Reserve writes the journal before the registry so that a crash "leaves an
\* orphan and refuses reopening, never silently frees/reuses its UID": in every
\* directory a crash or a power loss can leave, no two accounts' records,
\* orphans included, name one number, nor one that other programs had.
IdentityNeverReused ==
    \A d \in disk :
        LET begun == {a \in Accounts : d.nat[a].phase # "none"}
        IN  /\ \A a, b \in begun : a # b => d.nat[a].uid # d.nat[b].uid
            /\ \A a \in begun : d.nat[a].uid \notin Others
            /\ \A a \in begun, e \in Records(d.reg) : (e.id = a) <=> (e.uid = d.nat[a].uid)

\* Two things leave a directory that scanSnapshot refuses: a Reserve or Begin
\* that was cut off after its mkdir, and a step that sent an account to review,
\* its identity gone, under a Samba journal that needs it finished.  But for
\* them an owner that died or closed, at any point and with any uncertain
\* commit, can be opened again.
ReopensUnlessTorn == ~torn /\ call.op = "-" => \A d \in disk : Scan(d)

\* What relies on the authority keeps it: a backend or a store that is not
\* closed for sure keeps the root's lock, so no second owner can open; a file
\* service that is retained keeps all three, and the owner is not closed.
AuthorityOutlivesUse ==
    /\ own.backend \/ own.stores => own.lock
    /\ Retained # {} => own.lock /\ own.stores /\ own.backend

\* "The old token never revives": once in review a token stays so until it is
\* released, dies with the process, or DisableForFileService replaces it by a
\* successor that shows the account disabled.
TokenNeverRevives ==
    [][\A l \in Leases :
          lease[l].review /\ lease'[l].st = "held" /\ ~lease'[l].review =>
              /\ call.op = "DisableIntent" /\ call.lease = l
              /\ lease'[l].fp = Fingerprint'
              /\ files'.smb[call.account].phase = "Disabled" /\ passdb'[call.account] # "enabled"]_vars
=============================================================================

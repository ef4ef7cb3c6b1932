# PhantoWD API: TLA+ models and proofs

PhantoWD is replacement firmware for a NAS. Its control plane, `src/src/phantowd-api`, is a
Go program built of *owners*: objects that hold an exclusive lock on some persistent or
kernel state, publish it one revision at a time, never retry, and go into permanent *review*
when they meet anything they cannot explain; around them are observers that read a machine
which changes while it is read, and a panel in the browser. This directory models those
parts, checks them with TLC on small instances and proves the safety of ten of them with
TLAPS for every value of the constants. Source paths below are relative to
`src/src/phantowd-api`.

## The system

| Part | State | Hard behaviour |
|---|---|---|
| revision store (`internal/revisionstore/store_linux.go`) | current and pending file, flock, `uncertain` | crash or failed call between any two system calls; two processes |
| owned store (`owner_linux.go`) | baseline, watch, leases, `review` | other programs in the directory; cancellation; a watch replaced in the middle of a commit |
| NAS writer (`nas_writer_linux.go`, `nas_stage_linux.go`, `nas_bootstrap_linux.go`, `internal/naspolicyevidence`) | five evidence files, the inotify queue, `review` | a commit of several files interrupted anywhere; events of others among its own |
| login (`account_store.go`, `auth_*.go`) | account, sticky failure, sessions, epoch, password slot | hashing outside the mutex; failed writes after a revocation |
| policy channel (`internal/naspolicyrpc`), identity channel (`identityrpc`) | streams, workers, admission | deadlines on both ends, late answers, one process closing what the other uses |
| identity owner (`identityowner`, `serviceaccounts`) and its journals (`identityprovision`, `internal/smbprovision`) | registry, directories, journals, file-service leases | crash between an external effect and its record; directories made before the documents in them |
| mounts and services (`internal/mountowner`, `internal/processowner`) | mounts, leases, pins, clones, processes | partial failure, failed rollback, teardown order |
| block targets (`internal/backingpin`) | pins, use claims, configfs | admissions that race, stops that fail |
| file services (`internal/fileserviceplan`, `internal/smbexec`, `internal/nfsowner`, `internal/runtimebundle`, the captures) | plans, leases, pinned inputs, daemons | evidence that changes between the look and the use; starts and stops that fail half way |
| storage and network observation (`storage*.go`, `mdraid.go`, `mdmetadata`, `internal/volumeregistry`, `internal/networkinventory`) | none that lasts; the broker's lock and socket | disks, arrays, mounts and kernel tables change between two reads |
| policy documents (`shareconfig`, `nfsconfig`, `smbconfig`, `internal/iscsipolicy`, `internal/naspolicy`, `internal/networkpolicy`) | one document under one revision | two tabs, halves edited apart, backups restored late |
| panel (`ui/app.js`, `ui/service-policy.js`, `ui/iscsi-preview.js`, `nas_state_http_linux.go`) | what the page shows and awaits | callbacks out of order, sign-out while waiting, a save whose answer is lost |

A request of the panel is authorized by the login and goes through the policy channel to an
owned store whose backend is the NAS writer or a revision store; account operations go
through the identity channel to the identity owner; inventories come from the storage
broker. Services are started over leases of mounts, policies and identities. Every
document, the administrator's account included, is kept in a revision store.

## Modules

`PROJECT.json` maps every definition to the source lines it stands for. An operator
commented `Mutant:` is a plausible bug of the definition after it; put in its place, it
breaks the property `PROJECT.json` pairs it with. History variables and fields, which are
not in the code, are named in the modules.

**Stores.** *DurableRegister* is the abstract promise of a store: a value that moves forward
one revision at a time; a power loss may take back the last publication, never anything a
caller was told is stored. *RevisionStore* is `Store[T]`: `cur` and `pend` are the files
under the two names, `disk` what a power loss may leave under the current one (a rename adds
to it, a directory sync reduces it to what is visible), `pc` has one label per system call.
*OwnedPolicy* is `OwnedStore[T]`: a call is a sequence of phases (look at the watch, stat,
decode, stat, look again; for Commit also compare, publish, new epoch), between which other
programs and cancellation act. *NASWriter* has the classification of the evidence files as
operators, then the bootstrap and the commit that publishes base, intent, policy and
receipt in this order and retires the old receipt before the policy. *WriterEvents* is how
that commit tells its own inotify events from anybody else's, one file at a time, over a
bounded queue that merges and overflows. *Bootstrap* is the observation of a policy's
directory before any store is opened on it: names, stamps, the document, stamps again.

**Login.** *Auth*: a request steps at each lock section of its handler; `mu` is held across
steps where the code holds it.

**Channels.** *PolicyRPC* is the client, the stream and the server loop; a frame is whole or
torn. *IdentityRPC* is the listener with its workers, the admission of one request at a
time, both request versions and both callers, and the teardown that closes the authority
behind it. Of an operation it has what that leaves of the journal's revision and phase: a
refusal, nothing left to do (a step of what is finished answers ok), done, review, or a
commit that fails with or without effect; every Samba operation starts with the scan that
sets an interrupted intent aside. Callers use the current or the oldest revision.

**Identities.** *NativeJournal* is what the
two journals share: the document in its store, the native command, which may fail, lie about
success or outlive the process, and the crashes; *SMBJournal* and *UnixJournal* add the two
account databases. *SMBSessions* is what Disable does besides: it ends the sessions of the
account while logins that passdb accepted earlier are still being listed. *IdentityOwner*
has the registry (`serviceaccounts`) as operators, then the owner over all of them: `files` is what its
directory shows (registry, journals, and the entries of both kinds of directories), `disk`
the set of directories a power loss may leave, since a document is certain once committed
and an entry once its parent is synced; Reserve and the Samba Begin, which make a directory
before the document in it, have one step per publication; leases are tokens with a
fingerprint.

**Services.** *ServiceRuntime* has first the roster: Owner, MountedVolumeSet, its leases and
root pins, where a call holds the mutexes of every Owner it uses until it returns and is one
step; then ServiceHandoff and ServiceRuntime over it; the process set is seen as off, on or unknown.
StateAbsent and StateUnavailable are one state. *ProcessSet* is that set: `own` is what an
Owner knows, `os` the process group, a leader (running, zombie, reaped, waited for) and
descendants, which end whenever they like. Signals are counted, not obeyed.
*IsolatedService* is one process confined to the root of a handoff, with the pin that keeps
the root and the inputs that are looked at again at every start and observation.

**File services.** *PlannedService* has the compiler of plans, in which a fingerprint is the
value it covers, then its two consumers: the leased planner, and the planned Samba service,
whose verification reads the pins and the owners' evidence in two steps. *NFSService* is
the owner, its back end and the one kernel controller per machine. *RuntimeBundle* is the
owner of a verified tree of files that another mount may change. *NativeSamba* is the
retained tuple from which credential workers, one daemon and its clients are run, alone or
under the identity service. *ServerCapture* is the client owner and the server runtime that
publish what a worker read. In the last four an operation is the sequence `todo` of what it
does in turn, and every element may fail, also after its effect.

**Block targets.** *BlockTarget* is Pin, the use table, the four admissions of
`writableOwner`, its supervisor and the LIO back end. The credential bundle and the policy
lease are held or drifted, and both are acquired in one step; the review and closed flags
of the use table are not kept as state, and a consumer that is retained blocks another
admission of its objects.

**Storage and network.** *StorageScan* has first the decisions that are functions of what
was read: block graph, discovery plan, GPT correlation, comparison of MD superblocks; then
one observation with its four collections and the opened candidates; reading the metadata of one
node is one step, and a disk that appears after the listing and is gone before the next one
is not noticed, as in the code. *StorageReview* is the bracket of registry, census,
comparison, census and registry. *MDInventory* is the inventory of arrays and the binding of
their UUIDs; aliases of device numbers are left out, and attributes are unreadable only when
the array is gone. Health "paused" is never reported, because mdstat shows a frozen array as
idle. *StorageBroker* is the broker as a service: lock, stale socket, workers and the one
observation at a time; a refused peer, an undecodable request and a busy answer are one step
each, and the start-up checks of privileges are left out. *NetworkInventory* dumps six
kernel tables over one netlink socket, twice, and answers when both passes agree.

**Policy.** *NASPolicy* is the desired document with its Samba, NFS and iSCSI parts: what
Validate accepts, and the handlers by which browser tabs read, replace, back up and restore
it. *NetworkPolicy* is the validation of the network settings and the comparison of an
accepted policy with an address table, over addresses of a few bits.

**Panel.** *Dashboard* has the sections, each read by a call of its own, and the calls that
change who is signed in; everything after an await is a step of its own, and the four
requests of the snapshot are one. *PolicyEditor* is the policy form against the handlers of
the server; a request reaches the server at most once, a save the page has given up on may
still commit, but only over the document that was reviewed, and a reconciliation whose
restored preview is refused stays locked until sign-out.

**MC\*** modules give the constants values and put several specifications side by side: one
is chosen initially, and the others stay in their initial states. So one run asks each of
them its own question, and the number of states is the sum, not the product. A property of
such a module is, for each part, the property of the part's module its comment names. *Auth*
and *BlockTarget*, and the three modules with a finding, are run directly by their own
configurations.

### Abstractions

* Documents are a revision and a content; encoding is represented by what it may refuse.
* A call that reports failure may or may not have had its effect.
* The file system does what the code relies on: rename is atomic, a directory sync makes
  earlier directory changes durable, unsynced data may be torn. NASWriter assumes in
  addition that directory changes reach the disk in order, because each is synced before
  the next role is started, and that other programs leave its directory alone; what it does
  when they do not is in WriterEvents.
* Wrong ownership or mode of files (`ErrUnsafe`), calls on a closed store and malformed
  requests are refusals without effect and are left out; so are rate limits.
* An observed passdb entry is a SID, the disabled bit and whether a password was set; the
  code sees only the first two, so the exit status of the password command is trusted; for
  the others success without effect is possible. `Foreign` writes the account databases; the
  properties that compare a journal with them say "as long as nobody else writes", which the
  code demands of its caller (the all-writer lock).
* In the journals Disable is one command; what it does to open sessions is in SMBSessions.
  The reuse of process group numbers is left out.
* A broker that is killed takes its observation with it; the probe it may have started,
  which ends at a deadline of seconds, is not counted.
* The label `compareArray` gives an array that is not consistent (ambiguous or conflicting)
  may depend on the order of the members; "metadata-consistent" does not.

## Runs

| Run | Bounds | Distinct states | Shows |
|---|---|---|---|
| `store` | 2 processes, 2 contents, largest revision 3; the owner: 2 contents, 2 revisions, 2 lease objects with a limit of 1, 2 foreign changes | 364,507 | the current file always decodes (`CurrentIntact`), nothing promised is lost (`PromisedDurable`), Commit's results are true (`CommitOutcome`), the store implements DurableRegister (`ImplementsRegister`); what the owner answers is true (`AnswersTrue`) and a lease keeps its revision (`LeasePins`) |
| `owned_policy_review` | the owner as above | violation | see Findings |
| `records` | the writer: 2 contents, 2 operation ids, 4 revisions; its events: 2 in a read, 6 in the queue, 3 acts of others; its channel: 2 calls, 3 revisions; the journals: 2 SIDs, 12 revisions, 1 foreign write, and 6 revisions (all there are), 2 foreign writes; the identity channel: 2 connections and 2 workers over the 6 revisions of a Unix journal, 1 connection over 7 of a Samba journal; 2 logins of an account and 2 of its peer | 817,080 | acknowledged policies survive (`PolicySurvives`) and records are true after any crash (`EvidenceTrue`); what a call, a session witness or the reading of events answers is so (`AnswerIsTrue`), and every call of the policy's channel returns (`EveryCallReturns`); journals describe the account databases and revoked sessions are gone (`ConfirmedTrue`), no command is repeated (`NoSecondAttempt`) |
| `auth` | 2 concurrent requests, 3 tokens, 2 passwords, 2 sessions, 3 revisions | 1,171,134 | no session outlives its password or a revocation (`NoStaleSession`); failure is final; a change that revoked is decided |
| `auth_liveness` | 2 requests, 1 token, 2 passwords | 273,206 | every request is answered, the slot comes back |
| `smb_journal_enable` | the Samba journal as above | violation | see Findings |
| `administration` | identities: 2 accounts, 3 numbers of which 1 is another program's, 1 lease, registry revisions to 3, Samba revisions to 5, 1 foreign write; documents: 2 tabs and 2 revisions, or 1 tab and 3, 8 file halves and 5 iSCSI halves, valid and not; network: every pair of ports over 3-bit addresses; editor: 2 saves, with 2 definitions of each kind and 1 commit or fewer definitions and 2 commits; dashboard: 3 sections, 2 refreshes | 1,564,423 | identities are never reused (`IdentityNeverReused`), only a creation that was cut off, or a step that finds the identity under a Samba account gone, keeps an owner from opening again (`ReopensUnlessTorn`), the authority outlives its use (`AuthorityOutlivesUse`), a token in review never revives (`TokenNeverRevives`); a policy that is kept leaves nothing to interpretation (`NothingAmbiguous`), no edit is lost or made unseen (`EditsAreKept`), and the page says what happened, of this sign-in only (`PageIsTrue`) |
| `services` | 2 volumes, 2 group leases, 1 pin, 1 fault; a set of 2 members, 2 generations | 181,186 | roster leases are complete or absent (`AllOrNothing`), consumers stop before their storage goes (`ConsumersStopFirst`, `NoUnmountUnderUse`), a lost volume stops the service (`LossStopsService`); "stopped" means nothing is left (`NothingLeftBehind`), every call returns |
| `block_targets` | a complete target over 2 files against a plain consumer of one of them under another name; 1 fault, 2 admissions each | 104,132 | what a target borrows is retained while configfs may hold it, failed admissions leave nothing, supervision ends |
| `storage` | 2 disks with a partition each and an array; 2 mount points over a disk and an array; 2 arrays; a table of 2 entries and 2 rules; a directory with 3 names; 2 events each; 2 brokers, 3 connections | 1,938,057 | an inventory lists what existed together (`InventoryCoexisted`), only free devices are opened (`OpenedAreFree`), reviews, bindings, network snapshots and directory observations were true at one moment (`TrueAtOnce`), one broker observes at a time (`OneBroker`) |
| `file_services` | planning: 2 users, 1 volume, 3 policies of which 1 asks for Kerberos, 2 changes, 2 observations; NFS: 2 lifetimes; capture: 2 workers, 1 change of inputs, 1 stray report; a bundle of 2 files and a directory, 2 changes; the native runtime with 1 change; an isolated process with 3 | 2,036,388 | what a process was started with is kept while it may run (`KeptWhileUsed`), what owners answer is so (`AnswersAreSo`), doubt stops or contains a service (`DoubtContains`), nothing is done twice, out of turn or on what no longer holds (`NoneOutOfTurn`) |
| `identity_status` | 1 connection, 7 revisions | violation | see Findings |

Why the bounds are enough for the cases of interest: two processes contend for a flock
and a third adds nothing to it; three revisions allow a commit on top of a commit that was
itself uncertain, and the largest one makes `expected+1` wrap. Two foreign changes allow a
change and its undoing. Four revisions of the writer give a commit without an old receipt
and two with one. Two requests suffice for every pair of handlers to race; three tokens let
a third session meet the limit of two. Two calls let a late answer meet a later call. Twelve
Samba revisions take a credential through create, password, enable, disable and once more
through enable or password. Two accounts and three numbers let an orphan's number be given
to the other account, if it could be. Two volumes and two members are enough for a start that
fails half way and a rollback that fails. Two disk events make a disk leave and come back
between two reads; two changes of a kernel table or of an input are a change and its undoing.
Two tabs suffice for every lost update, three revisions for a restore over
a document that differs from the backup, and documents of two shares, exports or targets for
every overlap. Two lifetimes of the NFS service let a second controller meet what the first
left. Six queued events are one more than a step of the writer causes, so the queue overflows
only with the help of others.

The proofs below need no bounds. Larger instances that passed by hand and would make the runs
long: ServiceRuntime with remounts and an exhausted generation (`MaxMounts` 2),
`IdentityOwner` with `MaxSMB` 7 (2.25 million states), StorageReview with three events, and
MDInventory with both arrays unsteady (16.8 million states); IdentityRPC with version 2 and
two connections (1.65 million states); Dashboard with other sections. Uncovering a target that somebody hid costs
no fault in ServiceRuntime, so that a hidden volume may come back.

Symmetry is used only in runs without liveness properties; contents, processes, requests,
leases and definitions are interchangeable there. Deadlock is not checked where the system
may stop: when a finite number of calls has returned (`records`), when a runtime, a target or
a service is closed or under review (`services`, `block_targets`, `file_services`), and when
the identity owner is quarantined or a policy was answered (`administration`).

The `TypeOK` of a module with proofs is proved and not checked again by a run.

**Fairness.** `Auth` assumes strong fairness of each request's steps: goroutines are
scheduled, and `sync.Mutex` passes itself to a waiter that has starved. Nothing is assumed
of clients, expiry, damage or restarts. `PolicyRPC` assumes weak fairness of each call's
steps, which the 5-second deadline on every call justifies; the server need do nothing.
`ProcessSet` assumes weak fairness of the steps of the call in progress: each of its waits
has a deadline and a ticker; nothing is assumed of the services. `ServiceRuntime` assumes it of
the call that holds the mutex, and that the caller keeps observing a runtime that is ready,
which is what the supervisor's ticker does. `BlockTarget` assumes it of the call in progress
and of the supervisor's turns.

### Findings

`internal/revisionstore/README.md:117` says any event "enters permanent review". During a
Commit, `newEpochLocked` (`owner_linux.go:153`) installs a new watch and closes the old
one unread. In `owned_policy_review` another program removes the current file between
Commit's first read and its publication; the Commit returns nil and nothing is reviewed.
`AnswersTrue` still holds: only the promise about *any* change fails.

`internal/smbprovision/store_linux.go:243` and the package's README say that Enable accepts
only a `credential-set-disabled` account; the code (line 269) accepts a `disabled` one too,
as the comment on Disable expects. `smb_journal_enable` shows an account enabled, disabled
and enabled again. The other properties hold with this transition; the text is out of date.

`identityrpc/smb_channel_linux.go:163` takes an intent or a confirmed credential only at the
revision it has the first time round, while the journal admits it at every later one of the
same parity. In `identity_status` a password is set twice; the second answer is whole and
successful, and CallSMB and every later status request take it for a broken channel.

## Proofs

Every property below is proved for all values of the constants: any number of processes,
requests, accounts, leases, volumes, targets and contents, and any bounds. The constants'
assumptions are named and stated where they are declared: finite sets where the code counts
them, limits that are natural numbers, null values that are not members; nothing the program
does not provide. TLC evaluates them in the runs. Each specification has an
inductive invariant (`IInv`, or `SetInv` and `BrokerInv`), which TLC checked on the run's
instance before it was proved, one lemma per action or family of actions, and a theorem that
the specification keeps it.

| Module | Proved | What the invariant adds, and why |
|---|---|---|
| RevisionStoreProofs | `CurrentIntact`, `PromisedDurable`, `OneDocumentPerRevision`, `CommitOutcome`, the refinement of DurableRegister | Whether a rename keeps the promises depends on what was staged, by whom, and on what a power loss could have left before: whoever is past the flock holds it (`LockInv`); while a Commit stages, only the current file can be on disk, and after the sync the successor is intact in the pending file (`StagingInv`); an idle store that is not uncertain has nothing unsynced (`RestInv`); a power loss moves the name by one revision at most (`DiskInv`) |
| the same, for OwnedPolicy | `LeasePins`, `AnswersTrue` | The watch shows every foreign change made under it (`WatchInv`), nobody holds a lease while the owner opens or publishes (`FenceInv`), and outside these the baseline is the document last opened or published (`BaselineInv`) |
| NASWriterProofs | `PolicySurvives`, `EvidenceTrue` | Five shapes of the directory, one per stage of a commit; where a commit in progress is decides the shape of what is visible (`Wanted`) and of all that a power loss may leave (`Left`), and two of those differ in their policy only under one durable intent without a receipt (`DiskInv`) |
| AuthProofs | `NoStaleSession`, `FailureIsFinal`, `RevokedChangeIsDecided` | Who holds the mutex over several steps (`MutexInv`), what holds while they do (`HolderInv`), that a request overtaken by a revocation carries an epoch that is over although addresses of epochs are reused (`EpochInv`), and how far a request gets that came after the failure (`LateInv`) |
| BlockTargetProofs | `RetainedWhileBorrowed`, `FailedAdmissionIsWhole` | One relation between a consumer's phase, its next call, configfs and the pins and objects it has claimed (`Fits`); claims of different consumers are disjoint because each is a function of the pin or object |
| the same, for ProcessSet | `NothingLeftBehind`, `OneStopAttempt` | Where a call is says what the set is doing (`SetControl`); what the loop of a stop or a rollback has passed was attempted and, as long as nothing went wrong, is gone, and a ready member that ended by itself is on record with its Owner, in the stop in progress or in the review (`OfMember`) |
| IdentityFilesProofs, IdentityOwnerProofs | `IdentityNeverReused`, `ReopensUnlessTorn`, `AuthorityOutlivesUse`, `TokenNeverRevives` | A journal's directory is durable before the journal, and an account's record before its Samba directory (`Durable`); an open owner's documents are certain (`Certain`); what Reserve and Begin were admitted with still holds at each of their steps (`CallFits`); unless a creation was cut off or an identity was lost under its Samba account, a scan finds everything but the entry being made in order (`Whole`). Create computes the number a second time when the registry is published: it is the one in the journal because the numbers of registered accounts are not free anyway (`FreeSame`) |
| ServiceRuntimeProofs | `AllOrNothing`, `ConsumersStopFirst`, `NoUnmountUnderUse` | A group lease is open exactly while every Owner has its child (`Leased`); a member of the handoff that is attached, in doubt or has a directory keeps the handoff's lease, and every clone on a service path is such a member (`Held`); a process that may live keeps the members attached, through where the runtime is or through the root pin of an isolated process (`Running`) |
| StorageScanProofs | `InventoryCoexisted`, `OpenedAreFree` | What stands on something stands on what is there (`WorldInv`); what was opened are candidates of the plan (`PlanInv`); a disk confirmed by the second pass had its generation between the passes, because a generation never comes back (`GenerationInv`); a use that lasts is in the inventory and the mount table that were read (`HeldInv`) |
| the same, for StorageBroker | `OneBroker`, `AnsweredHoldsNothing` | A live broker has the lock, and its slot belongs to a connection it has not let go (`OfBroker`); whoever serves a connection is alive and has the slot if it observes, and a connection waits only for a broker that was not told to stop (`OfConnection`) |

`TypeCorrect` of RevisionStoreProofs, AuthProofs, BlockTargetProofs, IdentityOwnerProofs and
ServiceRuntimeProofs, and `OwnerTypeCorrect` for OwnedPolicy, state the modules' `TypeOK`,
which the invariants contain. `CommitOutcome`, `TokenNeverRevives` and `NoUnmountUnderUse` are
action properties, proved from the invariant of the state before the step. The refinement
maps each step of the store to Advance, Promise, Recover or a stutter.

ProcessSet and StorageBroker are instantiated by the modules that prove about them, as they
are by their runs, so their theorems (`NothingIsLeftBehind`, `OneBrokerObserves`) take the
assumptions on their constants as a hypothesis; the runs evaluate it for their instances. The
two sets of theorems in one module share nothing but the module.

Model-checked only:

* liveness (`EveryRequestAnswered`, `EveryCallReturns`, `LossStopsService`,
  `SupervisionEnds`): fairness and ENABLED are outside the proof system;
* the journals, the two channels, sessions, the writer's events and the bootstrap
  (`AnswerIsTrue`, `ConfirmedTrue`, `NoSecondAttempt`), reviews, arrays and the network
  (`TrueAtOnce`), the file services (`KeptWhileUsed`, `AnswersAreSo`, `DoubtContains`,
  `NoneOutOfTurn`), and the documents and the page (`NothingAmbiguous`, `EditsAreKept`,
  `PageIsTrue`); their invariants have not been proved. Several of these modules work on
  sequences, of events, table entries, members or steps still to do, and what a fold over
  them computes for every input needs induction over data, which the provers cannot do.

## Not modelled

`PROJECT.json` lists every component with its status. Not modelled: the writer's diagnostic
reader, the descriptors of the pinned launcher of the process owner, and disk health, whose
collection runs one command per disk and keeps no state.

Left out for good: parsers of kernel and tool output, generated configuration text,
rendering, start-up and TLS of the web server, build, laboratory and emulator tooling, and
the single-shot C helpers (service launcher and volume probe). The page's sign-in request
has no deadline, so nothing ends a sign-in whose server never answers; there is no property
to state about it.

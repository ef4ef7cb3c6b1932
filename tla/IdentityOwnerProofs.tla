------------------------ MODULE IdentityOwnerProofs ------------------------
(***************************************************************************)
(* What IdentityOwner promises, for any accounts, numbers, leases and      *)
(* bounds: identities are never reused, an owner whose creations were not  *)
(* cut off can be opened again, the authority outlives its use, and a      *)
(* token in review never revives.                                          *)
(***************************************************************************)
EXTENDS IdentityFilesProofs

-----------------------------------------------------------------------------
(* The owner, its call and its leases.                                     *)

\* A step on the token l alone, by an owner that is open or has failed.
LEMMA TokenKeeps ==
    ASSUME OwnerTypes, AuthorityInv, own.st \in {"open", "failed"}, UNCHANGED <<own, call>>,
           NEW l \in Leases, NEW t \in Tokens, t.review => t.st = "held", lease' = [lease EXCEPT ![l] = t]
    PROVE  OwnerTypes' /\ AuthorityInv'
<1>1. lease' \in [Leases -> Tokens] /\ \A k \in Leases : lease'[k] = IF k = l THEN t ELSE lease[k]
  BY DEF OwnerTypes
<1>2. \A k \in Leases : lease'[k].review => lease'[k].st = "held"
  BY <1>1 DEF AuthorityInv
<1> QED BY <1>1, <1>2 DEF OwnerTypes, AuthorityInv

\* What Retain and SMBDone remember.
LEMMA PrintIsPrint ==
    ASSUME files \in Directories, unix \subseteq Accounts
    PROVE  Fingerprint \in Prints
BY DEF Fingerprint, Prints, Directories

\* Opening and closing: the lock is taken with everything and is the last to go.
LEMMA OpenCloseKeeps ==
    ASSUME OwnerTypes, AuthorityInv, Open \/ Close
    PROVE  OwnerTypes' /\ AuthorityInv'
<1>1. /\ UNCHANGED <<call, lease>> /\ ((own.st = "closed" /\ ~own.lock) \/ own.st \in {"open", "failed"})
      /\ (Close => Retained = {} /\ call.op = "-")
  BY DEF Open, Close
<1>2. \A l \in Leases : lease[l].st # "held"
  <2>1. CASE Open
    BY <2>1 DEF Open, AuthorityInv
  <2>2. CASE Close
    BY <1>1, <2>2 DEF Retained
  <2> QED BY <2>1, <2>2
<1>3. call.op = "-"
  BY <1>1 DEF Open, AuthorityInv
<1>4. /\ own' \in Owners /\ (own'.backend \/ own'.stores => own'.lock)
      /\ own'.st \in {"open", "failed"} => own'.lock /\ own'.stores /\ own'.backend
  <2>1. CASE Open
    <3>1. own' \in {Opened, Closed, [Opened EXCEPT !.st = "quarantined"]}
      BY <2>1 DEF Open
    <3>2. CASE own' = Opened
      BY <3>2 DEF Opened, Owners
    <3>3. CASE own' = Closed
      BY <3>3 DEF Closed, Owners
    <3>4. CASE own' = [Opened EXCEPT !.st = "quarantined"]
      <4>1. own' = [st |-> "quarantined", lock |-> TRUE, stores |-> TRUE, backend |-> TRUE]
        BY <3>4, Zenon DEF Opened
      <4> QED BY <4>1 DEF Owners
    <3> QED BY <3>1, <3>2, <3>3, <3>4
  <2>2. CASE Close
    <3>1. own \in Owners /\ own.lock
      BY <2>2 DEF Close, AuthorityInv, OwnerTypes
    <3>2. own' \in {Closed, [own EXCEPT !.st = "quarantined"],
                    [own EXCEPT !.st = "quarantined", !.backend = FALSE],
                    [own EXCEPT !.st = "quarantined", !.backend = FALSE, !.stores = FALSE]}
      BY <2>2 DEF Close
    <3>3. CASE own' = Closed
      BY <3>3 DEF Closed, Owners
    <3>4. CASE own' = [own EXCEPT !.st = "quarantined"]
      BY <3>1, <3>4 DEF Owners
    <3>5. CASE own' = [own EXCEPT !.st = "quarantined", !.backend = FALSE]
      BY <3>1, <3>5, Zenon DEF Owners
    <3>6. CASE own' = [own EXCEPT !.st = "quarantined", !.backend = FALSE, !.stores = FALSE]
      BY <3>1, <3>6, Zenon DEF Owners
    <3> QED BY <3>2, <3>3, <3>4, <3>5, <3>6
  <2> QED BY <2>1, <2>2
<1> QED BY <1>1, <1>2, <1>3, <1>4 DEF OwnerTypes, AuthorityInv

\* The process dies: nothing is held.
LEMMA DiesKeeps ==
    ASSUME Dies
    PROVE  OwnerTypes' /\ AuthorityInv'
<1>1. own' = Closed /\ call' = Idle /\ lease' = [l \in Leases |-> NoLease]
  BY DEF Dies
<1>2. own' \in Owners /\ own'.st = "closed" /\ ~own'.lock /\ ~own'.stores /\ ~own'.backend
  BY <1>1 DEF Closed, Owners
<1>3. call'.op = "-" /\ call'.lease = "-" /\ "-" \in Ops
  BY <1>1 DEF Idle, Ops
<1>4. NoLease \in Tokens /\ NoLease.st = "free" /\ ~NoLease.review
  BY DEF NoLease, Tokens
<1>5. lease' \in [Leases -> Tokens] /\ \A l \in Leases : lease'[l].st = "free" /\ ~lease'[l].review
  BY <1>1, <1>4
<1> QED BY <1>2, <1>3, <1>5 DEF OwnerTypes, AuthorityInv

\* Retain, Verify and Release.
LEMMA LeaseStepKeeps ==
    ASSUME OwnerTypes, AuthorityInv, files \in Directories, unix \subseteq Accounts, NEW l \in Leases,
           Retain(l) \/ Verify(l) \/ Release(l)
    PROVE  OwnerTypes' /\ AuthorityInv'
<1>1. lease \in [Leases -> Tokens] /\ lease[l] \in Tokens
  BY DEF OwnerTypes
<1>2. CASE Retain(l)
  <2>1. PICK t : t = [st |-> "held", review |-> FALSE, fp |-> Fingerprint]
    BY Zenon
  <2>2. t \in Tokens /\ ~t.review
    BY <2>1, PrintIsPrint DEF Tokens
  <2>3. lease' = [lease EXCEPT ![l] = t] /\ UNCHANGED <<own, call>> /\ own.st = "open"
    BY <1>2, <2>1 DEF Retain, Entered
  <2> QED BY <2>2, <2>3, TokenKeeps, Zenon
<1>3. CASE Release(l)
  <2>1. NoLease \in Tokens /\ ~NoLease.review
    BY DEF NoLease, Tokens
  <2>2. lease' = [lease EXCEPT ![l] = NoLease] /\ UNCHANGED <<own, call>> /\ own.st \in {"open", "failed"}
    BY <1>3 DEF Release, AuthorityInv
  <2> QED BY <2>1, <2>2, TokenKeeps, Zenon
<1>4. CASE Verify(l)
  <2>1. PICK b \in BOOLEAN : lease' = [lease EXCEPT ![l].review = b]
    BY <1>4, Zenon DEF Verify
  <2>2. PICK t : t = [lease[l] EXCEPT !.review = b]
    BY Zenon
  <2>3. t \in Tokens /\ t.st = "held" /\ lease' = [lease EXCEPT ![l] = t]
    BY <1>1, <1>4, <2>1, <2>2, Zenon DEF Verify, Tokens
  <2>4. UNCHANGED call /\ call.op = "-" /\ own.st = "open" /\ (own' = own \/ Fails)
    BY <1>4 DEF Verify, Entered
  <2>5. CASE own' = own
    BY <2>3, <2>4, <2>5, TokenKeeps, Zenon
  <2>6. CASE Fails
    <3>1. own' \in Owners /\ own'.st = "failed" /\ own'.lock = own.lock /\ own'.stores = own.stores /\ own'.backend = own.backend
      BY <2>6 DEF OwnerTypes, Owners, Fails
    <3>2. lease' \in [Leases -> Tokens] /\ \A k \in Leases : lease'[k] = IF k = l THEN t ELSE lease[k]
      BY <1>1, <2>3
    <3>3. own.lock /\ own.stores /\ own.backend
      BY <2>4 DEF AuthorityInv
    <3>4. \A k \in Leases : lease'[k].review => lease'[k].st = "held"
      BY <2>3, <3>2 DEF AuthorityInv
    <3> QED BY <2>4, <3>1, <3>2, <3>3, <3>4 DEF OwnerTypes, AuthorityInv
  <2> QED BY <2>4, <2>5, <2>6
<1> QED BY <1>2, <1>3, <1>4

-----------------------------------------------------------------------------
(* Publishing.                                                             *)

\* Tame changes keep what is durable, and mild ones what a scan finds.
LEMMA MildKeeps ==
    ASSUME files \in disk, Durable(disk, unix), files' \in disk',
           \A d \in disk' : \E e \in disk : Tame(e, d)
    PROVE  /\ Durable(disk', unix)
           /\ Settled(files, disk) /\ (\A d \in disk' : \E e \in disk : Mild(e, d)) => Settled(files', disk')
<1>1. Durable(disk', unix)
  BY DEF Durable, Tame
<1>2. ASSUME Settled(files, disk), \A d \in disk' : \E e \in disk : Mild(e, d), NEW d \in disk'
      PROVE  /\ Ordered(d) /\ d.dirs = files'.dirs /\ Registered(d) = d.dirs
             /\ d.smbDirs = files'.smbDirs /\ Children(d)
  <2>1. PICK e \in disk : Mild(e, d)
    BY <1>2
  <2>2. PICK f \in disk : Mild(f, files')
    BY <1>2
  <2> QED BY <1>2, <2>1, <2>2 DEF Settled, Mild, Tame
<1> QED BY <1>1, <1>2 DEF Settled

\* Nothing changes.
LEMMA SelfMild ==
    ASSUME NEW d \in Directories, Named(d)
    PROVE  Mild(d, d)
BY DEF Mild, Tame

\* Another Samba journal of accounts that have one, or of one without directory.
LEMMA SMBMild ==
    ASSUME NEW d \in Directories, NEW g \in Directories, Named(d),
           g.reg = d.reg, g.nat = d.nat, g.dirs = d.dirs, g.smbDirs = d.smbDirs,
           \A a \in d.smbDirs : d.smb[a].phase # "none" => g.smb[a].phase # "none"
    PROVE  Mild(d, g)
<1>1. Begun(g) = Begun(d) /\ Registered(g) = Registered(d) /\ Named(g)
  BY DEF Begun, Registered, Named
<1>2. \A a : Confirmed(g, a) = Confirmed(d, a)
  BY DEF Confirmed
<1>3. Ordered(d) => Ordered(g)
  BY Zenon DEF Ordered, InPlace, Unfinished, Journal
<1>4. Children(d) => Children(g)
  BY <1>1, <1>2 DEF Children
<1> QED BY <1>1, <1>3, <1>4 DEF Mild, Tame

\* A begun native journal in another phase: finished, unfinished before, or the
\* newest and without a Samba journal.
LEMMA PhaseMild ==
    ASSUME NEW d \in Directories, NEW g \in Directories, Named(d), NEW a \in Begun(d), NEW phase, phase # "none",
           g.reg = d.reg, g.nat = [d.nat EXCEPT ![a].phase = phase], g.smb = d.smb,
           g.dirs = d.dirs, g.smbDirs = d.smbDirs
    PROVE  /\ Tame(d, g)
           /\ \/ Confirmed(d, a) => phase = "UnixConfirmed"
              \/ d.nat[a].reg = d.reg.rev /\ a \notin d.smbDirs
              => Mild(d, g)
<1>1. d.nat \in [Accounts -> Journals] /\ a \in Accounts /\ Registered(d) \subseteq Accounts
  BY IdsAre DEF Directories, Begun, Registered
<1>2. \A b \in Accounts : /\ g.nat[b].uid = d.nat[b].uid /\ g.nat[b].reg = d.nat[b].reg
                          /\ g.nat[b].phase = IF b = a THEN phase ELSE d.nat[b].phase
  BY <1>1 DEF Journals
<1>3. Begun(g) = Begun(d) /\ Registered(g) = Registered(d)
  BY <1>2 DEF Begun, Registered
<1>4. \A e \in Records(g.reg) : e.id \in Accounts
  BY <1>1 DEF Registered, Ids
<1>5. Named(g)
  <2>1. Begun(g) \subseteq Accounts
    BY DEF Begun
  <2> QED BY <1>2, <1>3, <1>4, <2>1 DEF Named
<1>6. \A b \in Registered(d) : b \in Begun(d)
  BY DEF Named, Registered, Ids
<1>7. Tame(d, g)
  BY <1>3, <1>5 DEF Tame
<1>8. ASSUME Confirmed(d, a) => phase = "UnixConfirmed" PROVE Mild(d, g)
  <2>1. \A b \in Accounts : Confirmed(d, b) => Confirmed(g, b)
    BY <1>2, <1>8 DEF Confirmed
  <2>2. \A b \in Registered(d) : /\ g.nat[b].reg = d.nat[b].reg /\ g.nat[b].uid = d.nat[b].uid
                                 /\ g.nat[b].phase # "none" /\ (Confirmed(d, b) => Confirmed(g, b))
    BY <1>1, <1>2, <1>3, <1>6, <2>1 DEF Begun
  <2>3. Ordered(d) => Ordered(g)
    BY <2>2, OrderedStays, Zenon
  <2>4. Children(d) => Children(g)
    BY <1>1, <1>3, <2>1 DEF Children
  <2> QED BY <1>7, <2>3, <2>4 DEF Mild
<1>9. ASSUME d.nat[a].reg = d.reg.rev, a \notin d.smbDirs PROVE Mild(d, g)
  <2>1. \A b \in Registered(d) : /\ g.nat[b].reg = d.nat[b].reg /\ g.nat[b].uid = d.nat[b].uid
                                 /\ b # a => g.nat[b].phase = d.nat[b].phase
    BY <1>1, <1>2
  <2>2. g.nat[a].phase # "none"
    BY <1>1, <1>2
  <2>3. Ordered(d) => Ordered(g)
    BY <1>9, <2>1, <2>2, OrderedReview, Zenon
  <2>4. \A b \in Registered(d) \cap d.smbDirs : Confirmed(g, b) = Confirmed(d, b)
    BY <1>9, <2>1 DEF Confirmed
  <2>5. Children(d) => Children(g)
    BY <1>3, <2>4 DEF Children
  <2> QED BY <1>7, <2>3, <2>5 DEF Mild
<1> QED BY <1>7, <1>8, <1>9

\* Another desired state, with every creation finished.
LEMMA StateMild ==
    ASSUME NEW d \in Directories, NEW g \in Directories, Named(d), NEW a \in Accounts,
           NEW state \in {"enabled", "disabled"}, g.reg = SetState(d.reg, a, state),
           g.nat = d.nat, g.smb = d.smb, g.dirs = d.dirs, g.smbDirs = d.smbDirs,
           \A b \in Registered(d) : Confirmed(d, b)
    PROVE  Mild(d, g)
<1>1. d.reg \in Registries
  BY DEF Directories
<1>2. /\ Registered(g) = Registered(d) /\ Begun(g) = Begun(d)
      /\ \A e \in Records(g.reg) : \E k \in Records(d.reg) : k.id = e.id /\ k.uid = e.uid
  BY <1>1, SetStateIds DEF Registered, Begun
<1>3. Named(g)
  BY <1>2 DEF Named
<1>4. Ordered(d) => Ordered(g)
  BY OrderedSetState
<1>5. Children(d) => Children(g)
  BY <1>2 DEF Children, Confirmed
<1> QED BY <1>2, <1>3, <1>4, <1>5 DEF Mild, Tame

-----------------------------------------------------------------------------
(* Calls that publish one document.                                        *)

\* A publication, between calls or in one that makes no directory, that changes
\* every directory tamely, and mildly unless something is torn then.
LEMMA TamePublish ==
    ASSUME IInv, own.st = "open", call.op \notin {"Reserve", "Begin"}, call'.op \notin {"Reserve", "Begin"},
           NEW doc, NEW v, Fitting(doc, v), \A e \in disk : Tame(e, Put(e, doc, v)),
           torn => torn', ~torn' => \A e \in disk : Mild(e, Put(e, doc, v)),
           Commits(doc, v) \/ (CommitFails(doc, v) /\ own'.st # "open")
    PROVE  /\ files' \in disk' /\ Durable(disk', unix) /\ (own'.st = "open" => Certain(files', disk'))
           /\ \A d \in disk' : Registered(d) = Registered(files)
           /\ ~torn' => Whole(call', files', disk')
<1>1. /\ files \in disk /\ Durable(disk, unix) /\ Certain(files, disk) /\ (~torn => Whole(call, files, disk))
  BY Parts
<1>2. \A e \in disk : e \in Directories /\ Named(e) /\ Mild(e, e) /\ Tame(e, e)
  BY <1>1, SelfMild DEF Durable, Mild
<1>3. files' \in disk' /\ \A d \in disk' : \E e \in disk : d = e \/ d = Put(e, doc, v)
  BY <1>1, PublishLeaves
<1>4. \A d \in disk' : \E e \in disk : Tame(e, d)
  BY <1>2, <1>3
<1>5. ~torn' => \A d \in disk' : \E e \in disk : Mild(e, d)
  BY <1>2, <1>3
<1>6. Durable(disk', unix) /\ (Settled(files, disk) /\ ~torn' => Settled(files', disk'))
  BY <1>1, <1>3, <1>4, <1>5, MildKeeps
<1>7. ~torn' => Whole(call', files', disk')
  BY <1>1, <1>6, WholeSettled
<1>8. own'.st = "open" => Certain(files', disk')
  BY <1>1, <1>2, CommitCertain
<1>9. \A d \in disk' : Registered(d) = Registered(files)
  BY <1>1, <1>4 DEF Tame, Certain, Registered
<1> QED BY <1>3, <1>6, <1>7, <1>8, <1>9

\* One that changes every directory mildly.
LEMMA MildPublish ==
    ASSUME IInv, own.st = "open", call.op \notin {"Reserve", "Begin"}, call'.op \notin {"Reserve", "Begin"},
           NEW doc, NEW v, Fitting(doc, v), \A e \in disk : Mild(e, Put(e, doc, v)),
           Commits(doc, v) \/ (CommitFails(doc, v) /\ own'.st # "open"), UNCHANGED torn
    PROVE  /\ files' \in disk' /\ Durable(disk', unix) /\ (own'.st = "open" => Certain(files', disk'))
           /\ \A d \in disk' : Registered(d) = Registered(files)
           /\ ~torn' => Whole(call', files', disk')
<1>1. \A e \in disk : Tame(e, Put(e, doc, v))
  BY DEF Mild
<1> QED BY <1>1, TamePublish

\* SetDesiredState.
LEMMA SetDesiredStateKeeps ==
    ASSUME IInv, NEW a \in Accounts, NEW state \in {"enabled", "disabled"}, SetDesiredState(a, state)
    PROVE  IInv'
<1>1. /\ OwnerTypes /\ WorldTypes /\ AuthorityInv /\ files \in Directories /\ Durable(disk, unix) /\ Certain(files, disk)
      /\ own.st = "open" /\ call.op = "-" /\ UNCHANGED <<call, lease, passdb, unix, foreign, torn>>
  BY Parts DEF SetDesiredState, Entered, world
<1>2. PICK v : v = SetState(files.reg, a, state)
  BY Zenon
<1>3. v \in Registries
  BY <1>1, <1>2, SetStateKeeps DEF Directories, Restated
<1>4. ASSUME NEW e \in disk PROVE Mild(e, Put(e, "reg", v))
  <2>1. e \in Directories /\ Named(e) /\ e.reg = files.reg /\ e.nat = files.nat
    BY <1>1 DEF Durable, Certain
  <2>2. \A b \in Registered(e) : Confirmed(e, b)
    BY <2>1 DEF SetDesiredState, Registered, Confirmed
  <2>3. PICK g \in Directories : /\ g = Put(e, "reg", v) /\ g.reg = SetState(e.reg, a, state) /\ g.nat = e.nat
                                 /\ g.smb = e.smb /\ g.dirs = e.dirs /\ g.smbDirs = e.smbDirs
    BY <1>2, <1>3, <2>1, PutReg
  <2> QED BY <2>1, <2>2, <2>3, StateMild
<1>5. (Commits("reg", v) /\ UNCHANGED own) \/ (CommitFails("reg", v) /\ Fails)
  BY <1>2 DEF SetDesiredState
<1>6. OwnerTypes' /\ AuthorityInv' /\ WorldTypes' /\ call'.op = "-"
  BY <1>1, <1>5, WorkKeeps DEF WorldTypes
<1>7. Fails => own'.st = "failed"
  BY <1>1 DEF Fails, OwnerTypes, Owners
<1>8. Fitting("reg", v) /\ (Commits("reg", v) \/ (CommitFails("reg", v) /\ own'.st # "open"))
  BY <1>3, <1>5, <1>7 DEF Fitting
<1>9. /\ files' \in disk' /\ Durable(disk', unix) /\ (own'.st = "open" => Certain(files', disk'))
      /\ ~torn' => Whole(call', files', disk')
  BY <1>1, <1>4, <1>6, <1>8, MildPublish
<1> QED BY <1>1, <1>6, <1>9, IdleFits, Assemble, Zenon

\* A step of a native journal: the intent, what was observed, or the review of
\* a finished one, which tears what a Samba journal rests on.
LEMMA NativeStep ==
    ASSUME IInv, own.st = "open", NEW a \in Registered(files),
           NEW phase \in {"Reserved", "Intent", "ReviewRequired", "UnixConfirmed"},
           Confirmed(files, a) => files.nat[a].reg = files.reg.rev /\ (a \in files.smbDirs => torn'),
           call.op \in {"-", "Step"}, call'.op \in {"-", "Step"}, torn => torn',
           Commits("nat", [files.nat EXCEPT ![a].phase = phase])
           \/ (CommitFails("nat", [files.nat EXCEPT ![a].phase = phase]) /\ own'.st # "open")
    PROVE  /\ files' \in disk' /\ Durable(disk', unix) /\ (own'.st = "open" => Certain(files', disk'))
           /\ \A d \in disk' : Registered(d) = Registered(files)
           /\ ~torn' => Whole(call', files', disk')
<1>1. /\ files \in Directories /\ Durable(disk, unix) /\ Certain(files, disk)
      /\ a \in Accounts /\ a \in Begun(files) /\ (~torn => Whole(call, files, disk))
  BY Parts
<1>2. PICK v : v = [files.nat EXCEPT ![a].phase = phase]
  OBVIOUS
<1>3. v \in [Accounts -> Journals]
  BY <1>1, <1>2 DEF Directories, Journals
<1>4. ASSUME NEW e \in disk PROVE Tame(e, Put(e, "nat", v)) /\ (~torn' => Mild(e, Put(e, "nat", v)))
  <2>1. e \in Directories /\ Named(e) /\ e.reg = files.reg /\ e.nat = files.nat
    BY <1>1 DEF Durable, Certain
  <2>2. a \in Begun(e) /\ Confirmed(e, a) = Confirmed(files, a) /\ e.nat[a].reg = files.nat[a].reg
    BY <1>1, <2>1 DEF Begun, Confirmed
  <2>3. PICK g \in Directories : /\ g = Put(e, "nat", v) /\ g.nat = [e.nat EXCEPT ![a].phase = phase] /\ g.reg = e.reg
                                 /\ g.smb = e.smb /\ g.dirs = e.dirs /\ g.smbDirs = e.smbDirs
    BY <1>2, <1>3, <2>1, PutNat
  <2>4. /\ Tame(e, g)
        /\ (Confirmed(e, a) => phase = "UnixConfirmed") \/ (e.nat[a].reg = e.reg.rev /\ a \notin e.smbDirs) => Mild(e, g)
    BY <2>1, <2>2, <2>3, PhaseMild
  <2>5. ASSUME ~torn', Confirmed(e, a) PROVE e.nat[a].reg = e.reg.rev /\ a \notin e.smbDirs
    <3>1. e.smbDirs = files.smbDirs
      BY <1>1, <2>5, Zenon DEF Whole
    <3> QED BY <2>1, <2>2, <2>5, <3>1
  <2> QED BY <2>3, <2>4, <2>5
<1>5. Fitting("nat", v) /\ (Commits("nat", v) \/ (CommitFails("nat", v) /\ own'.st # "open"))
  BY <1>2, <1>3 DEF Fitting
<1>6. call.op \notin {"Reserve", "Begin"} /\ call'.op \notin {"Reserve", "Begin"}
  OBVIOUS
<1> QED BY <1>4, <1>5, <1>6, TamePublish

\* Operation.Step: the intent, or the review.
LEMMA StepKeeps ==
    ASSUME IInv, NEW a \in Accounts, Step(a)
    PROVE  IInv'
<1>1. /\ OwnerTypes /\ WorldTypes /\ AuthorityInv /\ files \in Directories
      /\ own.st = "open" /\ call.op = "-" /\ UNCHANGED <<lease, passdb, unix, foreign>>
      /\ torn' = (torn \/ (Confirmed(files, a) /\ a \in files.smbDirs))
      /\ a \in Registered(files) /\ a \in Begun(files) /\ files.nat[a].reg = files.reg.rev
  BY Parts DEF Step, Entered, world
<1>2. PICK phase \in {"Intent", "ReviewRequired"} :
          LET v == [files.nat EXCEPT ![a].phase = phase]
          IN  \/ /\ Commits("nat", v) /\ UNCHANGED own
                 /\ (phase = "Intent" /\ Goto("Step", "command", a, "-")) \/ Returns
              \/ CommitFails("nat", v) /\ Fails /\ Returns
  <2>1. StepPhases(a) \subseteq {"Intent", "ReviewRequired"}
    BY DEF StepPhases
  <2> QED BY <2>1 DEF Step
<1>3. OwnerTypes' /\ AuthorityInv' /\ WorldTypes'
  <2>1. "Step" \in Ops \ {"-"} /\ WorldTypes'
    BY <1>1 DEF Ops, WorldTypes
  <2>2. CASE UNCHANGED own /\ Goto("Step", "command", a, "-")
    <3>1. call'.op \in Ops \ {"-"} /\ call'.account \in Accounts /\ call'.lease = "-"
      BY <2>1, <2>2 DEF Goto
    <3> QED BY <1>1, <2>1, <2>2, <3>1, WorkKeeps
  <2>3. CASE (UNCHANGED own \/ Fails) /\ Returns
    BY <1>1, <2>1, <2>3, WorkKeeps
  <2> QED BY <1>2, <2>2, <2>3
<1>4. Fails => own'.st = "failed"
  BY <1>1 DEF Fails, OwnerTypes, Owners
<1>5. call'.op \in {"-", "Step"} /\ (call'.op = "Step" => call'.account = a /\ phase = "Intent" /\ Commits("nat", [files.nat EXCEPT ![a].phase = phase]))
  BY <1>2 DEF Returns, Idle, Goto
<1>6. /\ files' \in disk' /\ Durable(disk', unix) /\ (own'.st = "open" => Certain(files', disk'))
      /\ ~torn' => Whole(call', files', disk')
  BY <1>1, <1>2, <1>4, <1>5, NativeStep, Zenon
<1>7. ASSUME call'.op = "Step" PROVE CallFits(call', files', disk')
  <2>1. PICK v : v = [files.nat EXCEPT ![a].phase = "Intent"]
    BY Zenon
  <2>2. v \in [Accounts -> Journals] /\ v[a].phase = "Intent" /\ v[a].reg = files.reg.rev
    BY <1>1, <2>1 DEF Directories, Journals
  <2>3. Commits("nat", v)
    BY <1>5, <1>7, <2>1
  <2>4. files' = Put(files, "nat", v)
    BY <2>3 DEF Commits
  <2>5. files'.nat = v /\ files'.reg = files.reg
    BY <1>1, <2>2, <2>4, PutNat
  <2>6. a \in Registered(files')
    BY <1>1, <2>5 DEF Registered
  <2> QED BY <1>5, <1>7, <2>2, <2>5, <2>6 DEF CallFits, Intents
<1>8. CallFits(call', files', disk')
  BY <1>5, <1>7, IdleFits
<1> QED BY <1>1, <1>3, <1>6, <1>8, Assemble

\* The native commands ran; the identity may be there now.
LEMMA StepDoneKeeps ==
    ASSUME IInv, StepDone
    PROVE  IInv'
<1>1. /\ OwnerTypes /\ WorldTypes /\ AuthorityInv /\ files \in Directories /\ CallFits(call, files, disk)
      /\ call.op = "Step" /\ UNCHANGED <<lease, passdb, foreign, torn>> /\ call' = Idle /\ own.st = "open"
  BY Parts DEF StepDone, Returns, AuthorityInv
<1>2. PICK a \in Registered(files) : a = call.account
  BY <1>1, Zenon DEF CallFits
<1>3. a \in Accounts /\ ~Confirmed(files, a)
  BY <1>1, <1>2, Parts DEF CallFits, Confirmed
<1>4. PICK phase \in {"Reserved", "UnixConfirmed", "ReviewRequired"} :
          LET v == [files.nat EXCEPT ![a].phase = phase]
          IN  (Commits("nat", v) /\ UNCHANGED own) \/ (CommitFails("nat", v) /\ Fails)
  BY <1>2 DEF StepDone
<1>5. call'.op = "-" /\ (Fails => own'.st = "failed")
  BY <1>1 DEF Fails, OwnerTypes, Owners, Idle
<1>6. OwnerTypes' /\ AuthorityInv'
  BY <1>1, <1>4, WorkKeeps DEF Returns
<1>7. /\ files' \in disk' /\ Durable(disk', unix) /\ (own'.st = "open" => Certain(files', disk'))
      /\ \A d \in disk' : Registered(d) = Registered(files)
      /\ ~torn' => Whole(call', files', disk')
  BY <1>1, <1>3, <1>4, <1>5, NativeStep, Zenon
<1>8. unix' \subseteq unix \cup {a}
  BY <1>2 DEF StepDone
<1>9. WorldTypes'
  BY <1>1, <1>3, <1>8 DEF WorldTypes
<1>10. Durable(disk', unix')
  BY <1>7, <1>8 DEF Durable
<1> QED BY <1>5, <1>6, <1>7, <1>9, <1>10, IdleFits, Assemble

\* A Samba journal that is there gets its next document.
LEMMA SMBPublish ==
    ASSUME IInv, own.st = "open", NEW a \in Accounts, NEW phase \in SMBPhases,
           call.op \notin {"Reserve", "Begin"}, call'.op \notin {"Reserve", "Begin"},
           Commits("smb", SMBNext(a, phase)) \/ (CommitFails("smb", SMBNext(a, phase)) /\ own'.st # "open"),
           UNCHANGED torn
    PROVE  /\ files' \in disk' /\ Durable(disk', unix) /\ (own'.st = "open" => Certain(files', disk'))
           /\ ~torn' => Whole(call', files', disk')
           /\ files'.reg = files.reg /\ files'.nat = files.nat /\ files'.smbDirs = files.smbDirs
           /\ Commits("smb", SMBNext(a, phase)) => files'.smb[a].phase = phase
<1>1. /\ files \in Directories /\ Durable(disk, unix) /\ Certain(files, disk) /\ files \in disk
  BY Parts
<1>2. PICK v : v = SMBNext(a, phase)
  OBVIOUS
<1>3. v \in [Accounts -> SMBs] /\ \A b \in Accounts : v[b].phase = IF b = a THEN phase ELSE files.smb[b].phase
  <2>1. files.smb \in [Accounts -> SMBs] /\ files.smb[a].rev + 1 \in Nat
    BY <1>1 DEF Directories, SMBs
  <2>2. PICK w : w = [phase |-> phase, rev |-> files.smb[a].rev + 1]
    BY Zenon
  <2>3. w \in SMBs /\ w.phase = phase
    BY <2>1, <2>2 DEF SMBs, SMBPhases
  <2>4. v = [files.smb EXCEPT ![a] = w]
    BY <1>2, <2>1, <2>2 DEF SMBNext
  <2> QED BY <2>1, <2>3, <2>4
<1>4. ASSUME NEW e \in disk PROVE Mild(e, Put(e, "smb", v))
  <2>1. e \in Directories /\ Named(e) /\ e.smb = files.smb /\ e.smbDirs \subseteq Accounts
    BY <1>1 DEF Durable, Certain, Directories
  <2>2. PICK g \in Directories : /\ g = Put(e, "smb", v) /\ g.nat = e.nat /\ g.reg = e.reg
                                 /\ g.smb = v /\ g.dirs = e.dirs /\ g.smbDirs = e.smbDirs
    BY <1>3, <2>1, PutSMB
  <2>3. \A b \in e.smbDirs : e.smb[b].phase # "none" => g.smb[b].phase # "none"
    BY <1>3, <2>1, <2>2 DEF SMBPhases, Intents
  <2> QED BY <2>1, <2>2, <2>3, SMBMild
<1>5. Fitting("smb", v) /\ (Commits("smb", v) \/ (CommitFails("smb", v) /\ own'.st # "open"))
  BY <1>2, <1>3 DEF Fitting
<1>6. files' \in {files, Put(files, "smb", v)} /\ (Commits("smb", v) => files' = Put(files, "smb", v))
  BY <1>1, <1>5, PublishLeaves, Zenon
<1>7. /\ files'.reg = files.reg /\ files'.nat = files.nat /\ files'.smbDirs = files.smbDirs
      /\ Commits("smb", v) => files'.smb[a].phase = phase
  BY <1>1, <1>3, <1>6, PutSMB
<1>8. Commits("smb", SMBNext(a, phase)) => files'.smb[a].phase = phase
  BY <1>2, <1>7, Zenon
<1> QED BY <1>4, <1>5, <1>7, <1>8, MildPublish

\* The intent of a Samba step, by SMBStep or DisableForFileService.
LEMMA SMBIntentKeeps ==
    ASSUME IInv, NEW a \in Accounts, NEW intent \in Intents, NEW l, SMBIntent(a, intent, l),
           UNCHANGED <<world, torn>>, OwnerTypes', AuthorityInv'
    PROVE  IInv'
<1>1. /\ OwnerTypes /\ WorldTypes /\ AuthorityInv /\ files \in Directories /\ own.st = "open" /\ call.op = "-"
      /\ a \in Registered(files) /\ a \in files.smbDirs /\ Confirmed(files, a)
      /\ UNCHANGED <<passdb, unix, foreign, torn>>
  BY Parts DEF SMBIntent, Entered, world
<1>2. \/ Commits("smb", SMBNext(a, intent)) /\ Goto(intent, "command", a, l) /\ UNCHANGED own
      \/ CommitFails("smb", SMBNext(a, intent)) /\ Fails /\ Returns
  BY DEF SMBIntent
<1>3. Fails => own'.st = "failed"
  BY <1>1 DEF Fails, OwnerTypes, Owners
<1>4. call'.op = "-" \/ (call'.op = intent /\ call'.account = a)
  BY <1>2 DEF Returns, Idle, Goto
<1>5. intent \in SMBPhases /\ intent \notin {"-", "Reserve", "Step", "Begin"}
  BY Zenon DEF SMBPhases, Intents
<1>6. /\ files' \in disk' /\ Durable(disk', unix) /\ (own'.st = "open" => Certain(files', disk'))
      /\ ~torn' => Whole(call', files', disk')
      /\ files'.reg = files.reg /\ files'.nat = files.nat /\ files'.smbDirs = files.smbDirs
  BY <1>1, <1>2, <1>3, <1>4, <1>5, SMBPublish
<1>7. CallFits(call', files', disk')
  <2>1. CASE call'.op = "-"
    BY <2>1, IdleFits, Zenon
  <2>2. CASE call'.op = intent /\ call'.account = a
    <3>1. a \in Registered(files') /\ a \in files'.smbDirs /\ Confirmed(files', a)
      BY <1>1, <1>6, Zenon DEF Registered, Confirmed
    <3> QED BY <1>5, <2>2, <3>1, Zenon DEF CallFits
  <2> QED BY <1>4, <2>1, <2>2
<1>8. WorldTypes'
  BY <1>1 DEF WorldTypes
<1> QED BY <1>1, <1>6, <1>7, <1>8, Assemble, Zenon

\* The same for an intent of its own.
LEMMA SMBStepKeeps ==
    ASSUME IInv, NEW a \in Accounts, NEW intent \in Intents, SMBStep(a, intent)
    PROVE  IInv'
<1>1. OwnerTypes /\ AuthorityInv /\ own.st = "open" /\ UNCHANGED lease /\ intent \in Ops \ {"-"}
  BY Parts DEF SMBStep, SMBIntent, Entered, Ops, Intents
<1>2. \/ Goto(intent, "command", a, "-") /\ UNCHANGED own
      \/ Fails /\ Returns
  BY DEF SMBStep, SMBIntent
<1>3. OwnerTypes' /\ AuthorityInv'
  <2>1. CASE Goto(intent, "command", a, "-") /\ UNCHANGED own
    <3>1. call'.op \in Ops \ {"-"} /\ call'.account \in Accounts /\ call'.lease = "-"
      BY <1>1, <2>1 DEF Goto
    <3> QED BY <1>1, <2>1, <3>1, WorkKeeps
  <2>2. CASE Fails /\ Returns
    BY <1>1, <2>2, WorkKeeps
  <2> QED BY <1>2, <2>1, <2>2
<1> QED BY <1>3, SMBIntentKeeps, Zenon DEF SMBStep

\* ... and for one that takes its token into review first.
LEMMA DisableForFileServiceKeeps ==
    ASSUME IInv, NEW a \in Accounts, NEW l \in Leases, DisableForFileService(l, a)
    PROVE  IInv'
<1>1. /\ OwnerTypes /\ WorldTypes /\ AuthorityInv /\ own.st = "open" /\ call.op = "-" /\ lease[l].st = "held"
      /\ UNCHANGED <<passdb, unix, foreign, torn>> /\ lease' = [lease EXCEPT ![l].review = TRUE]
      /\ lease \in [Leases -> Tokens] /\ lease[l] \in Tokens
  BY Parts DEF DisableForFileService, Entered, world, OwnerTypes
<1>2. PICK t : t = [lease[l] EXCEPT !.review = TRUE]
  BY Zenon
<1>3. t \in Tokens /\ t.st = "held" /\ lease' = [lease EXCEPT ![l] = t]
  BY <1>1, <1>2, Zenon DEF Tokens
<1>4. lease' \in [Leases -> Tokens] /\ \A k \in Leases : lease'[k] = IF k = l THEN t ELSE lease[k]
  BY <1>1, <1>3, Zenon
<1>5. \A k \in Leases : lease'[k].review => lease'[k].st = "held"
  BY <1>1, <1>3, <1>4 DEF AuthorityInv
<1>6. CASE UNCHANGED <<files, disk, own, call>>
  <2>1. OwnerTypes' /\ AuthorityInv' /\ WorldTypes'
    BY <1>1, <1>4, <1>5, <1>6 DEF OwnerTypes, AuthorityInv, WorldTypes
  <2> QED BY <1>1, <1>6, <2>1, Parts, Assemble
<1>7. CASE SMBIntent(a, "DisableIntent", l)
  <2>1. /\ "DisableIntent" \in Intents /\ "DisableIntent" \in Ops
    BY DEF Intents, Ops
  <2>2. \/ Goto("DisableIntent", "command", a, l) /\ UNCHANGED own
        \/ Fails /\ Returns
    BY <1>7 DEF SMBIntent
  <2>3. own.lock /\ own.stores /\ own.backend
    BY <1>1 DEF AuthorityInv
  <2>4. CASE Goto("DisableIntent", "command", a, l) /\ UNCHANGED own
    <3>1. call'.op = "DisableIntent" /\ call'.account = a
      BY <2>4 DEF Goto
    <3>2. OwnerTypes' /\ AuthorityInv'
      BY <1>1, <1>4, <1>5, <2>1, <2>3, <2>4, <3>1 DEF OwnerTypes, AuthorityInv
    <3> QED BY <1>1, <1>7, <2>1, <3>2, SMBIntentKeeps DEF world
  <2>5. CASE Fails /\ Returns
    <3>1. own' \in Owners /\ own'.st = "failed" /\ own'.lock = own.lock /\ own'.stores = own.stores /\ own'.backend = own.backend
      BY <1>1, <2>5 DEF OwnerTypes, Owners, Fails
    <3>2. call'.op = "-" /\ call'.lease = "-" /\ "-" \in Ops
      BY <2>5 DEF Returns, Idle, Ops
    <3>3. OwnerTypes' /\ AuthorityInv'
      BY <1>4, <1>5, <2>3, <3>1, <3>2, Zenon DEF OwnerTypes, AuthorityInv
    <3> QED BY <1>1, <1>7, <2>1, <3>3, SMBIntentKeeps DEF world
  <2> QED BY <2>2, <2>4, <2>5
<1> QED BY <1>6, <1>7 DEF DisableForFileService

\* A Samba command ran.  A successor token is given by an open owner only.
LEMMA SMBDoneKeeps ==
    ASSUME IInv, SMBDone
    PROVE  IInv'
<1>1. /\ OwnerTypes /\ WorldTypes /\ AuthorityInv /\ files \in Directories /\ own.st = "open" /\ call.op \in Intents
      /\ UNCHANGED <<unix, foreign, torn>> /\ call' = Idle /\ call'.op = "-" /\ call'.lease = "-"
      /\ call.op \notin {"-", "Reserve", "Begin"}
  BY Parts DEF SMBDone, Returns, AuthorityInv, Intents, Idle
<1>2. PICK a \in Accounts : a = call.account
  BY <1>1 DEF OwnerTypes
<1>3. PICK step : step = SMBCalls[call.op]
  BY Zenon
<1>4. step.phase \in {"Disabled", "Enabled"} /\ step.entry \in {"disabled", "enabled"}
  BY <1>1, <1>3 DEF SMBCalls, Intents
<1>5. PICK phase \in {step.phase, "ReviewRequired"} :
          \/ Commits("smb", SMBNext(a, phase)) /\ UNCHANGED own
          \/ CommitFails("smb", SMBNext(a, phase)) /\ Fails
  BY <1>2, <1>3 DEF SMBDone
<1>6. phase \in SMBPhases /\ (Fails => own'.st = "failed")
  BY <1>1, <1>4, Zenon DEF SMBPhases, Fails, OwnerTypes, Owners
<1>7. /\ files' \in disk' /\ Durable(disk', unix) /\ (own'.st = "open" => Certain(files', disk'))
      /\ ~torn' => Whole(call', files', disk')
  BY <1>1, <1>5, <1>6, SMBPublish
<1>8. WorldTypes'
  <2>1. passdb' \in {passdb, [passdb EXCEPT ![a] = step.entry]}
    BY <1>2, <1>3 DEF SMBDone
  <2> QED BY <1>1, <1>4, <2>1, Zenon DEF WorldTypes
<1>9. CASE UNCHANGED lease
  <2>1. OwnerTypes' /\ AuthorityInv'
    BY <1>1, <1>5, <1>9, WorkKeeps DEF Returns
  <2> QED BY <1>1, <1>7, <1>8, <2>1, IdleFits, Assemble
<1>10. CASE /\ own'.st = "open" /\ call.lease # "-"
            /\ lease' = [lease EXCEPT ![call.lease] = [st |-> "held", review |-> FALSE, fp |-> Fingerprint']]
  <2>1. UNCHANGED own
    BY <1>5, <1>6, <1>10
  <2>2. PICK t : t = [st |-> "held", review |-> FALSE, fp |-> Fingerprint']
    BY Zenon
  <2>3. files' \in Directories /\ unix' \subseteq Accounts
    BY <1>7, <1>8, Zenon DEF Durable, WorldTypes
  <2>4. Fingerprint' \in Prints
    BY <2>3 DEF Fingerprint, Prints, Directories
  <2>5. t \in Tokens /\ ~t.review
    BY <2>2, <2>4 DEF Tokens
  <2>6. /\ lease' \in [Leases -> Tokens]
        /\ \A k \in Leases : lease'[k] = t \/ lease'[k] = lease[k]
    BY <1>1, <1>10, <2>2, <2>5, Zenon DEF OwnerTypes
  <2>7. \A k \in Leases : lease'[k].review => lease'[k].st = "held"
    BY <1>1, <2>5, <2>6 DEF AuthorityInv
  <2>8. OwnerTypes' /\ AuthorityInv'
    BY <1>1, <2>1, <2>6, <2>7 DEF OwnerTypes, AuthorityInv, Ops
  <2> QED BY <1>1, <1>7, <1>8, <2>8, IdleFits, Assemble
<1> QED BY <1>9, <1>10, Zenon DEF SMBDone

-----------------------------------------------------------------------------
(* Opening, closing, dying, and the steps that touch no file.              *)

\* The recovered Samba journals: none is lost.
LEMMA RecoveredIs ==
    ASSUME NEW f \in Directories
    PROVE  /\ Recovered(f) \in [Accounts -> SMBs]
           /\ \A b \in Accounts : f.smb[b].phase # "none" => Recovered(f)[b].phase # "none"
<1>1. ASSUME NEW b \in Accounts
      PROVE  /\ Recovered(f)[b] \in SMBs
             /\ f.smb[b].phase # "none" => Recovered(f)[b].phase # "none"
  <2>1. f.smb[b] \in SMBs
    BY DEF Directories
  <2>2. [phase |-> "ReviewRequired", rev |-> f.smb[b].rev + 1] \in SMBs
    BY <2>1 DEF SMBs
  <2> QED BY <2>1, <2>2 DEF Recovered
<1>2. Recovered(f) = [b \in Accounts |-> Recovered(f)[b]]
  BY DEF Recovered
<1> QED BY <1>1, <1>2, Zenon

\* Open: what it reads becomes certain, and what it recovers stays in order.
LEMMA OpenKeeps ==
    ASSUME IInv, Open
    PROVE  IInv'
<1>1. own.st = "closed" /\ UNCHANGED <<call, lease, passdb, unix, foreign, torn>>
  BY DEF Open, world
<1>2. /\ OwnerTypes /\ WorldTypes /\ AuthorityInv /\ files \in disk /\ Durable(disk, unix)
      /\ files \in Directories /\ Named(files) /\ unix \subseteq Registered(files)
  BY Parts
<1>3. call.op = "-" /\ (~torn => Settled(files, disk))
  <2>1. call.op = "-"
    BY <1>1, <1>2 DEF AuthorityInv
  <2> QED BY <2>1, Parts, WholeSettled, Zenon
<1>4. OwnerTypes' /\ AuthorityInv' /\ WorldTypes'
  BY <1>1, <1>2, OpenCloseKeeps DEF WorldTypes
<1>5. CallFits(call', files', disk')
  BY <1>1, <1>3, IdleFits
<1>6. PICK v \in [Accounts -> SMBs] : /\ v = Recovered(files)
                                      /\ \A b \in Accounts : files.smb[b].phase # "none" => v[b].phase # "none"
  BY <1>2, RecoveredIs, Zenon
<1>7. ASSUME NEW d \in Directories, NEW e \in disk, Settled(files, disk), d.reg = e.reg, d.nat = e.nat,
             d.dirs = e.dirs, d.smbDirs = e.smbDirs, d.smb \in {e.smb, v}
      PROVE  Ordered(d) /\ d.dirs = files.dirs /\ Registered(d) = d.dirs /\ d.smbDirs = files.smbDirs /\ Children(d)
  <2>1. /\ e \in Directories /\ Ordered(e) /\ e.dirs = files.dirs /\ Registered(e) = e.dirs
        /\ e.smbDirs = files.smbDirs /\ Children(e) /\ Children(files) /\ Registered(files) = files.dirs
    BY <1>2, <1>7, Zenon DEF Settled, Durable
  <2>2. Ordered(d) /\ Registered(d) = Registered(e) /\ \A b : Confirmed(d, b) = Confirmed(e, b)
    BY <1>7, <2>1, SameDocs, Zenon
  <2>3. ASSUME NEW b \in Registered(d) \cap d.smbDirs PROVE d.smb[b].phase # "none"
    <3>1. b \in Accounts /\ files.smb[b].phase # "none" /\ e.smb[b].phase # "none"
      BY <1>2, <1>7, <2>1, <2>2, Zenon DEF Children, Directories
    <3> QED BY <1>6, <1>7, <3>1, Zenon
  <2>4. Children(d)
    BY <1>7, <2>1, <2>2, <2>3 DEF Children
  <2> QED BY <1>7, <2>1, <2>2, <2>4, Zenon
<1>8. CASE UNCHANGED <<files, disk>> /\ own'.st # "open"
  <2>1. ~torn' => Whole(call', files', disk')
    BY <1>1, <1>3, <1>8, WholeSettled
  <2> QED BY <1>1, <1>2, <1>4, <1>5, <1>8, <2>1, Assemble
<1>9. CASE CommitFails("smb", v) /\ own'.st # "open"
  <2>1. /\ files' \in disk' /\ files' \in {files, Put(files, "smb", v)}
        /\ \A d \in disk' : \E e \in disk : d = e \/ d = Put(e, "smb", v)
    BY <1>2, <1>9 DEF CommitFails
  <2>2. Durable(disk', unix')
    BY <1>1, <1>2, <2>1, SMBDurable
  <2>3. ASSUME ~torn' PROVE Whole(call', files', disk')
    <3>1. Settled(files, disk)
      BY <1>1, <1>3, <2>3, Zenon
    <3>2. files'.dirs = files.dirs /\ files'.smbDirs = files.smbDirs
      BY <1>2, <2>1, PutSMB
    <3>3. ASSUME NEW d \in disk'
          PROVE  Ordered(d) /\ d.dirs = files.dirs /\ Registered(d) = d.dirs /\ d.smbDirs = files.smbDirs /\ Children(d)
      <4>1. PICK e \in disk : d = e \/ d = Put(e, "smb", v)
        BY <2>1, Zenon
      <4>2. e \in Directories
        BY <1>2, Zenon DEF Durable
      <4>3. /\ d \in Directories /\ d.reg = e.reg /\ d.nat = e.nat
            /\ d.dirs = e.dirs /\ d.smbDirs = e.smbDirs /\ d.smb \in {e.smb, v}
        BY <4>1, <4>2, PutSMB
      <4> QED BY <1>7, <3>1, <4>3
    <3>4. Settled(files', disk')
      BY <3>2, <3>3 DEF Settled
    <3> QED BY <1>1, <1>3, <3>4, WholeSettled
  <2> QED BY <1>4, <1>5, <1>9, <2>1, <2>2, <2>3, Assemble
<1>10. CASE files' = Put(files, "smb", v) /\ disk' = Reopened(v)
  <2>1. files' \in Directories /\ files'.reg = files.reg /\ files'.nat = files.nat /\ files'.smb = v
        /\ files'.dirs = files.dirs /\ files'.smbDirs = files.smbDirs
    BY <1>2, <1>10, PutSMB
  <2>2. ASSUME NEW d \in disk'
        PROVE  \E e \in disk : /\ d \in Directories /\ d.reg = files.reg /\ d.nat = files.nat /\ d.smb = v
                               /\ d.dirs = e.dirs /\ d.smbDirs = e.smbDirs
    <3>1. PICK e \in disk : d = [e EXCEPT !.reg = files.reg, !.nat = files.nat, !.smb = v]
      BY <1>10, Zenon DEF Reopened
    <3>2. e \in Directories
      BY <1>2 DEF Durable
    <3> QED BY <1>2, <1>6, <3>1, <3>2, Zenon DEF Directories
  <2>3. files' \in disk'
    <3>1. Put(files, "smb", v) = [files EXCEPT !.reg = files.reg, !.nat = files.nat, !.smb = v]
      BY <1>2, Zenon DEF Put, Directories
    <3> QED BY <1>2, <1>10, <3>1, Zenon DEF Reopened
  <2>4. ASSUME NEW d \in disk' PROVE d \in Directories /\ Named(d) /\ Registered(d) = Registered(files) /\ Begun(d) = Begun(files)
    <3>1. d \in Directories /\ d.reg = files.reg /\ d.nat = files.nat
      BY <2>2
    <3> QED BY <1>2, <3>1, SameDocs, Zenon
  <2>5. \A e \in disk : Begun(files) \subseteq e.dirs /\ e.smbDirs \subseteq Registered(files)
    BY <1>2 DEF Durable
  <2>6. Durable(disk', unix')
    <3>1. \A d \in disk' : Begun(files) \subseteq d.dirs /\ d.smbDirs \subseteq Registered(files)
      BY <2>2, <2>5, Zenon
    <3> QED BY <1>1, <1>2, <2>4, <3>1, Zenon DEF Durable
  <2>7. Certain(files', disk')
    BY <2>1, <2>2, Zenon DEF Certain
  <2>8. ASSUME ~torn' PROVE Whole(call', files', disk')
    <3>1. Settled(files, disk)
      BY <1>1, <1>3, <2>8
    <3>2. ASSUME NEW d \in disk'
          PROVE  Ordered(d) /\ d.dirs = files.dirs /\ Registered(d) = d.dirs /\ d.smbDirs = files.smbDirs /\ Children(d)
      <4>1. /\ d \in Directories /\ d.reg = files.reg /\ d.nat = files.nat /\ d.smb = v
            /\ d.dirs = files.dirs /\ d.smbDirs = files.smbDirs
        BY <2>2, <3>1 DEF Settled
      <4> QED BY <1>2, <1>7, <3>1, <4>1, Zenon
    <3>3. Settled(files', disk')
      BY <2>1, <3>2 DEF Settled
    <3> QED BY <1>1, <1>3, <3>3, WholeSettled
  <2> QED BY <1>4, <1>5, <2>3, <2>6, <2>7, <2>8, Assemble, Zenon
<1>11. Closed.st # "open" /\ [Opened EXCEPT !.st = "quarantined"].st # "open"
  BY DEF Closed, Opened
<1>12. \/ files' = Put(files, "smb", v) /\ disk' = Reopened(v)
       \/ /\ UNCHANGED <<files, disk>> \/ CommitFails("smb", v)
          /\ own'.st # "open"
  BY <1>6, <1>11, Zenon DEF Open
<1> QED BY <1>8, <1>9, <1>10, <1>12

\* No file is touched; identities may go.
LEMMA QuietKeeps ==
    ASSUME IInv, UNCHANGED <<files, disk, call, torn>>, OwnerTypes', AuthorityInv', WorldTypes',
           unix' \subseteq unix, own'.st = "open" => own.st = "open"
    PROVE  IInv'
<1>1. /\ files \in disk /\ Durable(disk, unix) /\ (own.st = "open" => Certain(files, disk))
      /\ CallFits(call, files, disk) /\ (~torn => Whole(call, files, disk))
  BY Parts
<1>2. Durable(disk', unix')
  BY <1>1 DEF Durable
<1> QED BY <1>1, <1>2, Assemble, Zenon

\* The process dies, and with the power everything that was not durable.
LEMMA DiesSafely ==
    ASSUME IInv, Kill \/ PowerLoss
    PROVE  IInv'
<1>1. /\ Dies /\ UNCHANGED <<passdb, unix, foreign>>
      /\ (UNCHANGED <<files, disk>> \/ (files' \in disk /\ disk' = {files'}))
  BY DEF Kill, PowerLoss, world
<1>2. OwnerTypes' /\ AuthorityInv'
  BY <1>1, DiesKeeps, Zenon
<1>3. /\ own'.st # "open" /\ call'.op = "-" /\ torn' = (torn \/ call.op \in {"Reserve", "Begin"})
  BY <1>1 DEF Dies, Closed, Idle
<1>4. WorldTypes'
  <2>1. WorldTypes
    BY Parts
  <2> QED BY <1>1, <1>3, <2>1 DEF WorldTypes
<1>5. files \in disk /\ Durable(disk, unix)
  BY Parts, Zenon
<1>6. files' \in disk' /\ Durable(disk', unix')
  BY <1>1, <1>5 DEF Durable
<1>7. ASSUME ~torn' PROVE Whole(call', files', disk')
  <2>1. ~torn /\ call.op \notin {"Reserve", "Begin"}
    BY <1>3, <1>7, Zenon
  <2>2. Settled(files, disk)
    BY <2>1, Parts, WholeSettled, Zenon
  <2>3. Settled(files', disk')
    BY <1>1, <2>2 DEF Settled
  <2> QED BY <1>3, <2>3, WholeSettled
<1>8. CallFits(call', files', disk')
  BY <1>3, IdleFits
<1> QED BY <1>2, <1>3, <1>4, <1>6, <1>7, <1>8, Assemble

\* Another program touches no file of the owner's.
LEMMA ForeignKeeps ==
    ASSUME IInv, NEW a \in Accounts, Foreign(a)
    PROVE  IInv'
<1>1. UNCHANGED <<files, disk, own, call, lease, torn>>
  BY DEF Foreign
<1>2. OwnerTypes /\ WorldTypes /\ AuthorityInv
  BY Parts, Zenon
<1>3. OwnerTypes' /\ AuthorityInv'
  BY <1>1, <1>2 DEF OwnerTypes, AuthorityInv
<1>4. unix' \subseteq unix /\ passdb' \in [Accounts -> {"absent", "disabled", "enabled"}]
  BY <1>2 DEF Foreign, WorldTypes
<1>5. WorldTypes'
  BY <1>1, <1>2, <1>4 DEF WorldTypes
<1> QED BY <1>1, <1>3, <1>4, <1>5, QuietKeeps

\* Close, a scan that fails, and what a file service does with its token.
LEMMA AuthorityStepKeeps ==
    ASSUME IInv, Close \/ ScanFails \/ (\E l \in Leases : Retain(l) \/ Verify(l) \/ Release(l))
    PROVE  IInv'
<1>1. UNCHANGED <<files, disk, call, passdb, unix, foreign, torn>>
  BY DEF Close, ScanFails, Retain, Verify, Release, world
<1>2. OwnerTypes /\ WorldTypes /\ AuthorityInv /\ files \in Directories /\ unix \subseteq Accounts
  BY Parts DEF WorldTypes
<1>3. OwnerTypes' /\ AuthorityInv'
  <2>1. CASE Close
    BY <1>2, <2>1, OpenCloseKeeps
  <2>2. CASE ScanFails
    BY <1>2, <2>2, WorkKeeps DEF ScanFails, Entered
  <2>3. ASSUME NEW l \in Leases, Retain(l) \/ Verify(l) \/ Release(l) PROVE OwnerTypes' /\ AuthorityInv'
    BY <1>2, <2>3, LeaseStepKeeps
  <2> QED BY <2>1, <2>2, <2>3
<1>4. own'.st = "open" => own.st = "open"
  <2>1. CASE Close
    <3>1. own \in Owners
      BY <1>2 DEF OwnerTypes
    <3>2. own' \in {Closed, [own EXCEPT !.st = "quarantined"],
                    [own EXCEPT !.st = "quarantined", !.backend = FALSE],
                    [own EXCEPT !.st = "quarantined", !.backend = FALSE, !.stores = FALSE]}
      BY <2>1 DEF Close
    <3>3. CASE own' = Closed
      BY <3>3 DEF Closed
    <3>4. CASE own' # Closed
      BY <3>1, <3>2, <3>4, Zenon DEF Owners
    <3> QED BY <3>3, <3>4
  <2>2. CASE ScanFails \/ \E l \in Leases : Retain(l) \/ Verify(l) \/ Release(l)
    <3>1. own' = own \/ own.st = "open"
      BY <2>2 DEF ScanFails, Retain, Verify, Release, Entered
    <3> QED BY <3>1
  <2> QED BY <2>1, <2>2
<1>5. WorldTypes'
  BY <1>1, <1>2 DEF WorldTypes
<1> QED BY <1>1, <1>3, <1>4, <1>5, QuietKeeps

\* The empty directory.
LEMMA InitEstablishes ==
    ASSUME Init
    PROVE  IInv
<1>1. /\ files.reg = NewRegistry /\ files.nat = [a \in Accounts |-> NoJournal]
      /\ files.smb = [a \in Accounts |-> NoSMB] /\ files.dirs = {} /\ files.smbDirs = {}
      /\ disk = {files} /\ own = Closed /\ call = Idle /\ lease = [l \in Leases |-> NoLease]
      /\ passdb = [a \in Accounts |-> "absent"] /\ unix = {} /\ torn = FALSE
  BY DEF Init
<1>2. NewRegistry \in Registries /\ NewRegistry.rev = 1 /\ NewRegistry.accounts = << >>
  BY DEF NewRegistry, Registries
<1>3. Records(NewRegistry) = {} /\ Len(NewRegistry.accounts) = 0
  BY <1>2 DEF Records
<1>4. files \in Directories
  <2>1. NoJournal \in Journals /\ NoSMB \in SMBs
    BY Zenon DEF NoJournal, Journals, NoSMB, SMBs
  <2>2. files = [reg |-> NewRegistry, nat |-> [a \in Accounts |-> NoJournal],
                 smb |-> [a \in Accounts |-> NoSMB], dirs |-> {}, smbDirs |-> {}]
    BY Zenon DEF Init
  <2> QED BY <1>2, <2>1, <2>2, Zenon DEF Directories
<1>5. Registered(files) = {} /\ Begun(files) = {} /\ Named(files)
  <2>1. Registered(files) = {} /\ Begun(files) = {}
    BY <1>1, <1>3 DEF Registered, Ids, Begun, NoJournal
  <2> QED BY <1>1, <1>3, <2>1, Zenon DEF Named
<1>6. Ordered(files)
  <2>1. Unfinished(files) = {}
    BY <1>1, <1>3 DEF Unfinished
  <2> QED BY <1>1, <1>2, <1>3, <2>1 DEF Ordered
<1>7. Settled(files, disk)
  BY <1>1, <1>5, <1>6, Zenon DEF Settled, Children
<1>8. Durable(disk, unix)
  BY <1>1, <1>4, <1>5, Zenon DEF Durable
<1>9. own \in Owners /\ own.st = "closed" /\ ~own.lock /\ ~own.stores /\ ~own.backend
  BY <1>1, Zenon DEF Closed, Owners
<1>10. call.op = "-" /\ call.lease = "-" /\ "-" \in Ops
  BY <1>1, Zenon DEF Idle, Ops
<1>11. lease \in [Leases -> Tokens] /\ \A l \in Leases : lease[l].st = "free" /\ ~lease[l].review
  <2>1. NoLease \in Tokens /\ NoLease.st = "free" /\ ~NoLease.review
    BY DEF NoLease, Tokens
  <2> QED BY <1>1, <2>1, Zenon
<1>12. TypeOK
  <2>1. passdb \in [Accounts -> {"absent", "disabled", "enabled"}] /\ unix \subseteq Accounts /\ torn \in BOOLEAN
    BY <1>1, Zenon
  <2> QED BY <1>1, <1>4, <1>9, <1>10, <1>11, <2>1 DEF TypeOK, Owners, Tokens, Ops
<1>13. AuthorityInv
  BY <1>9, <1>10, <1>11 DEF AuthorityInv
<1>14. FilesInv
  BY <1>1, <1>7, <1>8, <1>9, <1>10, IdleFits, WholeSettled DEF FilesInv
<1> QED BY <1>12, <1>13, <1>14 DEF IInv

\* Every step keeps the invariant.
LEMMA NextKeeps ==
    ASSUME IInv, [Next]_vars
    PROVE  IInv'
<1>1. CASE Open
  BY <1>1, OpenKeeps
<1>2. CASE Close \/ ScanFails
  BY <1>2, AuthorityStepKeeps
<1>3. CASE Kill \/ PowerLoss
  BY <1>3, DiesSafely
<1>4. CASE ReserveSync
  BY <1>4, ReserveSyncKeeps
<1>5. CASE ReserveJournal
  BY <1>5, ReserveJournalKeeps
<1>6. CASE ReserveRegistry
  BY <1>6, ReserveRegistryKeeps
<1>7. CASE StepDone
  BY <1>7, StepDoneKeeps
<1>8. CASE SMBBeginSync
  BY <1>8, SMBBeginSyncKeeps
<1>9. CASE SMBBeginJournal
  BY <1>9, SMBBeginJournalKeeps
<1>10. CASE SMBDiscardSync
  BY <1>10, SMBDiscardSyncKeeps
<1>11. CASE SMBDone
  BY <1>11, SMBDoneKeeps
<1>12. ASSUME NEW a \in Accounts, Reserve(a) PROVE IInv'
  BY <1>12, ReserveKeeps
<1>13. ASSUME NEW a \in Accounts, Step(a) PROVE IInv'
  BY <1>13, StepKeeps
<1>14. ASSUME NEW a \in Accounts, SMBBegin(a) PROVE IInv'
  BY <1>14, SMBBeginKeeps
<1>15. ASSUME NEW a \in Accounts, Foreign(a) PROVE IInv'
  BY <1>15, ForeignKeeps
<1>16. ASSUME NEW a \in Accounts, NEW state \in {"enabled", "disabled"}, SetDesiredState(a, state) PROVE IInv'
  BY <1>16, SetDesiredStateKeeps
<1>17. ASSUME NEW a \in Accounts, NEW intent \in Intents, SMBStep(a, intent) PROVE IInv'
  BY <1>17, SMBStepKeeps
<1>18. ASSUME NEW l \in Leases, Retain(l) \/ Verify(l) \/ Release(l) PROVE IInv'
  BY <1>18, AuthorityStepKeeps
<1>19. ASSUME NEW l \in Leases, NEW a \in Accounts, DisableForFileService(l, a) PROVE IInv'
  BY <1>19, DisableForFileServiceKeeps
<1>20. CASE UNCHANGED vars
  <2>1. UNCHANGED <<files, disk, own, call, lease, passdb, unix, torn>>
    BY <1>20, Zenon DEF vars
  <2>2. OwnerTypes' /\ AuthorityInv' /\ WorldTypes'
    BY <2>1, Parts DEF OwnerTypes, AuthorityInv, WorldTypes
  <2> QED BY <2>1, <2>2, QuietKeeps
<1> QED BY <1>1, <1>2, <1>3, <1>4, <1>5, <1>6, <1>7, <1>8, <1>9, <1>10, <1>11, <1>12, <1>13, <1>14, <1>15, <1>16,
           <1>17, <1>18, <1>19, <1>20 DEF Next

-----------------------------------------------------------------------------
(* What the owner promises.                                                *)

\* The inductive invariant holds throughout.
THEOREM Invariance == Spec => []IInv
<1>1. Init => IInv
  BY InitEstablishes
<1>2. IInv /\ [Next]_vars => IInv'
  BY NextKeeps
<1> QED BY <1>1, <1>2, PTL DEF Spec

\* The files, the owner, its call and its leases have their types.
THEOREM TypeCorrect == Spec => []TypeOK
<1>1. IInv => TypeOK
  BY DEF IInv
<1> QED BY Invariance, <1>1, PTL

\* In no directory a crash or a power loss can leave has one number two
\* accounts, however the publications of a Reserve were cut off.
THEOREM IdentityNeverReusedHolds == Spec => []IdentityNeverReused
<1>1. ASSUME IInv PROVE IdentityNeverReused
  <2>1. ASSUME NEW d \in disk PROVE Named(d)
    BY <1>1, Zenon DEF IInv, FilesInv, Durable
  <2>2. ASSUME NEW d \in disk, NEW a \in Begun(d), NEW e \in Records(d.reg)
        PROVE  (e.id = a) <=> (e.uid = d.nat[a].uid)
    BY <2>1 DEF Named
  <2> QED BY <2>1, <2>2, Zenon DEF IdentityNeverReused, Named, Begun
<1> QED BY Invariance, <1>1, PTL

\* An owner of which no Reserve or Begin was cut off, and no step found the
\* identity under a Samba journal gone, can be opened again on everything a
\* crash can leave.
THEOREM ReopensUnlessTornHolds == Spec => []ReopensUnlessTorn
<1>1. ASSUME IInv, ~torn, call.op = "-" PROVE \A d \in disk : Scan(d)
  <2>1. Settled(files, disk)
    BY <1>1, Parts, WholeSettled
  <2> QED BY <2>1, Zenon DEF Settled, Scan
<1>2. IInv => ReopensUnlessTorn
  BY <1>1, Zenon DEF ReopensUnlessTorn
<1> QED BY Invariance, <1>2, PTL

\* What relies on the authority keeps it.
THEOREM AuthorityOutlivesUseHolds == Spec => []AuthorityOutlivesUse
<1>1. IInv => AuthorityOutlivesUse
  BY Zenon DEF IInv, AuthorityInv, AuthorityOutlivesUse, Retained
<1> QED BY Invariance, <1>1, PTL

\* What a token that leaves review without being released must be.
Succeeds(l) ==
    /\ call.op = "DisableIntent" /\ call.lease = l
    /\ lease'[l].fp = Fingerprint'
    /\ files'.smb[call.account].phase = "Disabled" /\ passdb'[call.account] # "enabled"

\* SMBDone hands a slot on only with the account confirmed disabled.
LEMMA SuccessorIsDisabled ==
    ASSUME IInv, SMBDone, NEW l \in Leases, lease'[l] # lease[l]
    PROVE  Succeeds(l)
<1>1. /\ OwnerTypes /\ AuthorityInv /\ files \in Directories /\ own.st = "open" /\ call.op \in Intents
      /\ WorldTypes
  BY Parts, Zenon DEF SMBDone, AuthorityInv, Intents
<1>2. PICK a \in Accounts : a = call.account
  BY <1>1, Zenon DEF OwnerTypes, Intents
<1>3. /\ call.lease # "-" /\ own'.st = "open" /\ Healthy'
      /\ lease' = [lease EXCEPT ![call.lease] = [st |-> "held", review |-> FALSE, fp |-> Fingerprint']]
  BY Zenon DEF SMBDone
<1>4. lease \in [Leases -> Tokens] /\ call.op = "DisableIntent"
  BY <1>1, <1>3, Zenon DEF OwnerTypes, AuthorityInv
<1>5. l = call.lease /\ lease'[l].fp = Fingerprint'
  <2>1. PICK t : t = [st |-> "held", review |-> FALSE, fp |-> Fingerprint']
    BY Zenon
  <2>2. lease' = [lease EXCEPT ![call.lease] = t] /\ t.fp = Fingerprint'
    BY <1>3, <2>1, Zenon
  <2> QED BY <1>4, <2>2, Zenon
<1>6. SMBCalls[call.op].phase = "Disabled" /\ SMBCalls[call.op].entry = "disabled"
  BY <1>4 DEF SMBCalls
<1>7. PICK phase \in {"Disabled", "ReviewRequired"} :
          /\ phase = "Disabled" => passdb'[a] = "disabled"
          /\ Commits("smb", SMBNext(a, phase)) \/ Fails
  BY <1>2, <1>6, Zenon DEF SMBDone
<1>8. Commits("smb", SMBNext(a, phase))
  <2>1. Fails => own'.st = "failed"
    BY <1>1, Zenon DEF Fails, OwnerTypes, Owners
  <2> QED BY <1>3, <1>7, <2>1
<1>9. files'.smb[a].phase = phase
  <2>1. files' = Put(files, "smb", SMBNext(a, phase))
    BY <1>8, Zenon DEF Commits
  <2>2. files'.smb = SMBNext(a, phase)
    BY <1>1, <2>1 DEF Put, Directories
  <2> QED BY <1>1, <2>2 DEF SMBNext, Directories
<1>10. phase # "ReviewRequired"
  BY <1>3, <1>9, Zenon DEF Healthy, NativeEvidence
<1> QED BY <1>2, <1>4, <1>5, <1>7, <1>9, <1>10 DEF Succeeds

\* A token in review stays so until it is released, dies with the process, or
\* DisableForFileService replaces it.
THEOREM TokenNeverRevivesHolds == Spec => TokenNeverRevives
<1> DEFINE Revives(l) == lease[l].review /\ lease'[l].st = "held" /\ ~lease'[l].review
<1>1. ASSUME IInv, Next, NEW l \in Leases, Revives(l) PROVE Succeeds(l)
  <2>1. lease \in [Leases -> Tokens] /\ lease[l].st = "held" /\ lease'[l] # lease[l]
    BY <1>1, Parts, Zenon DEF OwnerTypes, AuthorityInv
  <2>2. CASE SMBDone
    BY <1>1, <2>1, <2>2, SuccessorIsDisabled, Zenon
  <2>3. ASSUME Kill \/ PowerLoss PROVE FALSE
    BY <1>1, <2>3 DEF Kill, PowerLoss, Dies, NoLease
  <2>4. ASSUME NEW k \in Leases, Retain(k) \/ Verify(k) \/ Release(k) PROVE FALSE
    <3>1. CASE k # l
      BY <2>1, <2>4, <3>1, Zenon DEF Retain, Verify, Release
    <3>2. CASE k = l
      <4>1. Release(l)
        BY <1>1, <2>1, <2>4, <3>2, Zenon DEF Retain, Verify
      <4>2. lease'[l] = NoLease
        BY <2>1, <4>1 DEF Release
      <4> QED BY <1>1, <4>2 DEF NoLease
    <3> QED BY <3>1, <3>2
  <2>5. ASSUME NEW k \in Leases, NEW a \in Accounts, DisableForFileService(k, a) PROVE FALSE
    <3>1. lease' = [lease EXCEPT ![k].review = TRUE]
      BY <2>5 DEF DisableForFileService
    <3>2. CASE k # l
      BY <2>1, <3>1, <3>2
    <3>3. CASE k = l
      BY <1>1, <2>1, <3>1, <3>3 DEF Tokens
    <3> QED BY <3>2, <3>3
  <2>6. ASSUME UNCHANGED lease PROVE FALSE
    BY <2>1, <2>6, Zenon
  <2>7. Open \/ Close \/ ScanFails \/ ReserveSync \/ ReserveJournal \/ ReserveRegistry \/ StepDone \/ SMBBeginSync
        \/ SMBBeginJournal \/ SMBDiscardSync => UNCHANGED lease
    BY DEF Open, Close, ScanFails, ReserveSync, ReserveJournal, ReserveRegistry, StepDone, SMBBeginSync,
           SMBBeginJournal, SMBDiscardSync
  <2>8. ASSUME NEW a \in Accounts, Reserve(a) \/ Step(a) \/ SMBBegin(a) \/ Foreign(a) PROVE UNCHANGED lease
    BY <2>8, Zenon DEF Reserve, Step, SMBBegin, Foreign
  <2>9. ASSUME NEW a \in Accounts, NEW state, SetDesiredState(a, state) PROVE UNCHANGED lease
    BY <2>9 DEF SetDesiredState
  <2>10. ASSUME NEW a \in Accounts, NEW intent, SMBStep(a, intent) PROVE UNCHANGED lease
    BY <2>10, Zenon DEF SMBStep
  <2> QED BY <1>1, <2>2, <2>3, <2>4, <2>5, <2>6, <2>7, <2>8, <2>9, <2>10, Zenon DEF Next
<1>2. IInv /\ [Next]_vars =>
          [\A l \in Leases :
              lease[l].review /\ lease'[l].st = "held" /\ ~lease'[l].review =>
                  /\ call.op = "DisableIntent" /\ call.lease = l
                  /\ lease'[l].fp = Fingerprint'
                  /\ files'.smb[call.account].phase = "Disabled" /\ passdb'[call.account] # "enabled"]_vars
  BY <1>1 DEF Succeeds
<1> QED BY Invariance, <1>2, PTL DEF Spec, TokenNeverRevives

=====

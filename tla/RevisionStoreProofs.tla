------------------------ MODULE RevisionStoreProofs ------------------------
(***************************************************************************)
(* The safety properties of RevisionStore for any number of processes, any *)
(* contents, any transition relation and any largest revision, and those   *)
(* of OwnedPolicy for any contents, any number of leases and any lease     *)
(* limit, and any number of foreign changes.                               *)
(***************************************************************************)
EXTENDS RevisionStore, OwnedPolicy, FiniteSetTheorems, TLAPS

\* Before the rename of a Commit in progress: the next document follows the
\* current one, which is the only file a power loss can leave.
StagingInv ==
    \A p \in Procs : pc[p] \in Staging =>
        /\ disk = {cur} /\ ~uncertain[p]
        /\ arg[p].rev = cur.doc.rev + 1 /\ Validate(arg[p])
        /\ pc[p] \in {"sync", "close", "rename"} => pend.ok /\ pend.doc = arg[p]
        /\ pc[p] \in {"close", "rename"} => pend.synced

\* After it, and at rest.
RestInv ==
    \A p \in Procs :
        /\ pc[p] = "idle" /\ ~uncertain[p] => disk = {cur}
        /\ pc[p] = "syncDir" => cur.doc = arg[p] /\ Validate(arg[p])
        /\ pc[p] \in Opening \cup {"closed", "syncDir"} => ~uncertain[p]

\* Whoever is past the flock holds it.
LockInv == \A p \in Procs : pc[p] # "closed" => lock = p

\* A power loss moves the current name by one revision at most.
DiskInv == \A f \in disk : f = cur \/ f.doc.rev + 1 = cur.doc.rev \/ f.doc.rev = cur.doc.rev + 1

\* No two callers, in any processes and across any crashes, ever hold different
\* documents of the same revision: the flock and the revision check of Commit
\* leave one document per revision.
OneDocumentPerRevision ==
    \A d, e \in promised : d.rev = e.rev => d = e

IInv ==
    /\ TypeOK /\ LockInv /\ StagingInv /\ RestInv
    /\ cur \in disk /\ DiskInv
    /\ CurrentIntact /\ PromisedDurable /\ OneDocumentPerRevision

-----------------------------------------------------------------------------
\* uint64 addition is plain addition below the largest value.
LEMMA IncBelowMax ==
    ASSUME NEW e \in 0..MaxRevision, e # MaxRevision
    PROVE  Inc(e) = e + 1
BY ConstantsAssumption DEF Inc

\* Revisions are numbers.
LEMMA DocRevisions == \A d \in Docs : d.rev \in Nat
BY ConstantsAssumption DEF Docs

\* The files the store handles, absent and torn ones included, have the type of
\* a file.
LEMMA FileTypes ==
    /\ NoDoc \in Docs /\ Missing \in Files /\ Torn \in Files
    /\ \A f \in Files : f.doc \in Docs /\ f.doc.rev \in Nat
                        /\ [f EXCEPT !.synced = TRUE] \in Files
<1>1. NoDoc \in Docs
  BY ConstantsAssumption DEF NoDoc, Docs
<1>2. Missing \in Files /\ Torn \in Files
  BY <1>1 DEF Missing, Torn, Files
<1>3. ASSUME NEW f \in Files
      PROVE  f.doc \in Docs /\ f.doc.rev \in Nat /\ [f EXCEPT !.synced = TRUE] \in Files
  <2>1. f.doc \in Docs
    BY DEF Files
  <2>2. f.doc.rev \in Nat
    BY <2>1, ConstantsAssumption DEF Docs
  <2>3. [f EXCEPT !.synced = TRUE] \in Files
    BY Zenon DEF Files
  <2> QED BY <2>1, <2>2, <2>3
<1> QED BY <1>1, <1>2, <1>3

\* Open, up to the point where the Store is handed out, and every way a Store
\* is given up, keep the inductive invariant.
LEMMA DiscardKeeps ==
    ASSUME IInv, NEW p \in Procs, NEW r \in Results, pc[p] # "closed", Discard(p, r)
    PROVE  IInv'
<1>1. TypeOK' /\ LockInv'
  BY DEF IInv, TypeOK, LockInv, Discard, Goto, Result, Labels
<1>2. StagingInv' /\ RestInv'
  BY DEF IInv, TypeOK, LockInv, StagingInv, RestInv, Discard, Goto, Result, Labels, Staging, Opening
<1>3. (cur \in disk)' /\ DiskInv' /\ CurrentIntact' /\ PromisedDurable' /\ OneDocumentPerRevision'
  BY DEF DiskInv, IInv, Discard, CurrentIntact, PromisedDurable, OneDocumentPerRevision
<1> QED BY <1>1, <1>2, <1>3 DEF IInv

\* The steps of OpenWithCodec keep the inductive invariant.
LEMMA OpenKeeps ==
    ASSUME IInv, NEW p \in Procs,
           Open(p) \/ OpenLoad(p) \/ OpenSyncFile(p) \/ OpenSyncDir(p)
    PROVE  IInv'
<1>1. CASE Open(p)
  <2>1. TypeOK'
    BY <1>1 DEF IInv, TypeOK, Open, Goto, Result, Labels, Opening, Results
  <2>1a. LockInv'
    BY <1>1, ConstantsAssumption DEF IInv, TypeOK, LockInv, Open, Goto
  <2>2. StagingInv' /\ RestInv'
    BY <1>1 DEF IInv, TypeOK, LockInv, StagingInv, RestInv, Open, Goto, Result, Staging, Opening
  <2>3. (cur \in disk)' /\ DiskInv' /\ CurrentIntact' /\ PromisedDurable' /\ OneDocumentPerRevision'
    BY <1>1 DEF DiskInv, IInv, Open, CurrentIntact, PromisedDurable, OneDocumentPerRevision
  <2> QED BY <2>1, <2>1a, <2>2, <2>3 DEF IInv
<1>2. CASE OpenLoad(p)
  <2>1. CASE \E r \in {"ErrInvalid", "ErrIO"} : Discard(p, r)
    BY <1>2, <2>1, DiscardKeeps DEF OpenLoad, Results
  <2>2. CASE Goto(p, "syncFile") /\ UNCHANGED <<files, lock, uncertain, arg, ret, promised>>
    <3>1. TypeOK' /\ LockInv'
      BY <1>2, <2>2 DEF IInv, TypeOK, LockInv, OpenLoad, Goto, files, Labels, Opening
    <3>2. StagingInv' /\ RestInv'
      BY <1>2, <2>2 DEF IInv, TypeOK, LockInv, StagingInv, RestInv, OpenLoad, Goto, files, Staging, Opening
    <3>3. (cur \in disk)' /\ DiskInv' /\ CurrentIntact' /\ PromisedDurable' /\ OneDocumentPerRevision'
      BY <2>2 DEF DiskInv, IInv, files, CurrentIntact, PromisedDurable, OneDocumentPerRevision
    <3> QED BY <3>1, <3>2, <3>3 DEF IInv
  <2> QED BY <1>2, <2>1, <2>2 DEF OpenLoad
<1>3. CASE OpenSyncFile(p)
  <2>1. CASE Discard(p, "ErrIO")
    BY <1>3, <2>1, DiscardKeeps DEF OpenSyncFile, Results
  <2>2. CASE /\ cur' = [cur EXCEPT !.synced = TRUE]
             /\ disk' = (disk \ {cur}) \cup {cur'}
             /\ Goto(p, "syncOpenDir")
             /\ UNCHANGED <<pend, lock, uncertain, arg, ret, promised>>
    <3>1. cur' = cur
      BY <2>2 DEF IInv, TypeOK, CurrentIntact, Files
    <3>2. disk' = disk
      BY <2>2, <3>1, Zenon DEF IInv
    <3>3. TypeOK' /\ LockInv'
      BY <1>3, <2>2, <3>1, <3>2 DEF IInv, TypeOK, LockInv, OpenSyncFile, Goto, Labels, Opening
    <3>4. StagingInv' /\ RestInv'
      BY <1>3, <2>2, <3>1, <3>2 DEF IInv, TypeOK, LockInv, StagingInv, RestInv, OpenSyncFile, Goto, Staging, Opening
    <3>5. (cur \in disk)' /\ DiskInv' /\ CurrentIntact' /\ PromisedDurable' /\ OneDocumentPerRevision'
      BY <2>2, <3>1, <3>2 DEF DiskInv, IInv, CurrentIntact, PromisedDurable, OneDocumentPerRevision
    <3> QED BY <3>3, <3>4, <3>5 DEF IInv
  <2> QED BY <1>3, <2>1, <2>2 DEF OpenSyncFile
<1>4. CASE OpenSyncDir(p)
  <2>1. CASE Discard(p, "ErrIO")
    BY <1>4, <2>1, DiscardKeeps DEF OpenSyncDir, Results
  <2>2. CASE /\ disk' = {cur}
             /\ Return(p, "nil")
             /\ UNCHANGED <<cur, pend, lock, uncertain, arg, promised>>
    <3>1. TypeOK' /\ LockInv'
      BY <1>4, <2>2 DEF IInv, TypeOK, LockInv, OpenSyncDir, Return, Goto, Result, Labels, Results
    <3>2. StagingInv' /\ RestInv'
      BY <1>4, <2>2 DEF IInv, TypeOK, LockInv, StagingInv, RestInv, OpenSyncDir, Return, Goto, Result, Staging, Opening
    <3>3. (cur \in disk)' /\ DiskInv' /\ CurrentIntact' /\ PromisedDurable' /\ OneDocumentPerRevision'
      BY <2>2 DEF DiskInv, IInv, CurrentIntact, PromisedDurable, OneDocumentPerRevision
    <3> QED BY <3>1, <3>2, <3>3 DEF IInv
  <2> QED BY <1>4, <2>1, <2>2 DEF OpenSyncDir
<1> QED BY <1>1, <1>2, <1>3, <1>4

\* Load hands out the current document; it is synced, so the promise it makes
\* is one the disk already keeps.
LEMMA LoadKeeps ==
    ASSUME IInv, NEW p \in Procs, Load(p)
    PROVE  IInv'
<1>1. promised' = promised \/ (~uncertain[p] /\ promised' = promised \cup {cur.doc})
  BY DEF Load
<1>2. ret' \in [Procs -> Results]
  BY DEF Load, Result, IInv, TypeOK, Results
<1>3. TypeOK' /\ LockInv'
  BY <1>1, <1>2, FileTypes, Zenon DEF IInv, TypeOK, LockInv, Load, files
<1>4. StagingInv' /\ RestInv'
  BY DEF IInv, StagingInv, RestInv, Load, files
<1>5. (cur \in disk)' /\ DiskInv' /\ CurrentIntact'
  BY DEF DiskInv, IInv, CurrentIntact, Load, files
<1>6. PromisedDurable'
  <2>1. pc[p] = "idle" /\ UNCHANGED <<cur, disk>>
    BY DEF Load, files
  <2>2. ~uncertain[p] => disk = {cur}
    BY <2>1 DEF IInv, RestInv
  <2> QED BY <1>1, <2>1, <2>2 DEF IInv, PromisedDurable
<1>7. OneDocumentPerRevision'
  <2>1. \A d \in promised : d.rev < cur.doc.rev \/ d = cur.doc
    BY DEF IInv, PromisedDurable
  <2>2. cur.doc.rev \in Nat
    BY FileTypes, Zenon DEF IInv, TypeOK
  <2>3. \A d \in promised : d = cur.doc \/ d.rev # cur.doc.rev
    BY <2>1, <2>2, DocRevisions DEF IInv, TypeOK
  <2> QED BY <1>1, <2>3 DEF IInv, OneDocumentPerRevision
<1> QED BY <1>3, <1>4, <1>5, <1>6, <1>7 DEF IInv

\* A Commit that passes its checks starts from the revision it expects.
LEMMA CommitKeeps ==
    ASSUME IInv, NEW p \in Procs, NEW expected \in 0..MaxRevision, NEW next \in Docs,
           Commit(p, expected, next)
    PROVE  IInv'
<1>1. (cur \in disk)' /\ DiskInv' /\ CurrentIntact' /\ PromisedDurable' /\ OneDocumentPerRevision'
  BY DEF DiskInv, IInv, Commit, files, CurrentIntact, PromisedDurable, OneDocumentPerRevision
<1>2. CASE UNCHANGED <<pc, arg>> /\ \E r \in Results : Result(p, r)
  <2>1. TypeOK' /\ LockInv'
    BY <1>2 DEF IInv, TypeOK, LockInv, Commit, Result, files
  <2>2. StagingInv' /\ RestInv'
    BY <1>2 DEF IInv, StagingInv, RestInv, Commit, files
  <2> QED BY <1>1, <2>1, <2>2 DEF IInv
<1>3. CASE /\ CommitError(p, expected, next) = "-"
           /\ Goto(p, "unlink") /\ Result(p, "-") /\ arg' = [arg EXCEPT ![p] = next]
  <2>1. /\ ~uncertain[p] /\ expected # MaxRevision /\ next.rev = Inc(expected)
        /\ cur.doc.rev = expected /\ Validate(next)
    BY <1>3 DEF CommitError
  <2>2. next.rev = cur.doc.rev + 1
    BY <2>1, IncBelowMax
  <2>3. pc[p] = "idle" /\ disk = {cur} /\ UNCHANGED <<files, lock, uncertain, promised>>
    BY <2>1 DEF Commit, IInv, RestInv
  <2>4. TypeOK' /\ LockInv'
    BY <1>3, <2>3 DEF IInv, TypeOK, LockInv, Goto, Result, files, Labels, Staging, Results
  <2>5. StagingInv'
    BY <1>3, <2>1, <2>2, <2>3 DEF IInv, TypeOK, LockInv, StagingInv, Goto, files, Staging
  <2>6. RestInv'
    BY <1>3, <2>3 DEF IInv, TypeOK, RestInv, Goto, files, Opening
  <2> QED BY <1>1, <2>4, <2>5, <2>6 DEF IInv
<1>4. CommitError(p, expected, next) \in Results
  BY DEF CommitError, Results
<1>5. "ErrIO" \in Results
  BY DEF Results
<1> QED BY <1>2, <1>3, <1>4, <1>5 DEF Commit

\* The steps that prepare the pending file.
LEMMA StagingKeeps ==
    ASSUME IInv, NEW p \in Procs,
           \/ UnlinkPending(p) \/ CreatePending(p) \/ WritePending(p)
           \/ SyncPending(p) \/ ClosePending(p)
    PROVE  IInv'
<1> DEFINE Step(f, l) == StageTo(p, f, l)
<1>1. pc[p] \in Staging
  BY DEF UnlinkPending, CreatePending, WritePending, SyncPending, ClosePending, Staging
<1>2. CASE StageFails(p)
  <2>1. TypeOK' /\ LockInv'
    BY <1>1, <1>2, FileTypes DEF IInv, TypeOK, LockInv, StageFails, Return, Goto, Result, files, Labels, Results, Staging
  <2>2. StagingInv' /\ RestInv'
    BY <1>1, <1>2 DEF IInv, TypeOK, LockInv, StagingInv, RestInv, StageFails, Return, Goto, files, Staging, Opening
  <2>3. (cur \in disk)' /\ DiskInv' /\ CurrentIntact' /\ PromisedDurable' /\ OneDocumentPerRevision'
    BY <1>2 DEF DiskInv, IInv, StageFails, files, CurrentIntact, PromisedDurable, OneDocumentPerRevision
  <2> QED BY <2>1, <2>2, <2>3 DEF IInv
<1>3. ASSUME NEW f \in Files, NEW l \in Staging, StageTo(p, f, l),
             l \in {"sync", "close", "rename"} => f.ok /\ f.doc = arg[p],
             l \in {"close", "rename"} => f.synced
      PROVE  IInv'
  <2>1. TypeOK' /\ LockInv'
    BY <1>1, <1>3 DEF IInv, TypeOK, LockInv, StageTo, Goto, Labels, Staging
  <2>2. StagingInv'
    BY <1>1, <1>3 DEF IInv, TypeOK, LockInv, StagingInv, StageTo, Goto, Staging
  <2>3. RestInv'
    BY <1>1, <1>3 DEF IInv, TypeOK, RestInv, StageTo, Goto, Staging, Opening
  <2>4. (cur \in disk)' /\ DiskInv' /\ CurrentIntact' /\ PromisedDurable' /\ OneDocumentPerRevision'
    BY <1>3 DEF DiskInv, IInv, StageTo, CurrentIntact, PromisedDurable, OneDocumentPerRevision
  <2> QED BY <2>1, <2>2, <2>3, <2>4 DEF IInv
<1>4. CASE UnlinkPending(p)
  BY <1>2, <1>3, <1>4, FileTypes DEF UnlinkPending, Staging
<1>5. CASE CreatePending(p)
  BY <1>2, <1>3, <1>5, FileTypes DEF CreatePending, Staging
<1>6. CASE WritePending(p)
  <2>1. [doc |-> arg[p], ok |-> TRUE, synced |-> FALSE] \in Files
    BY DEF IInv, TypeOK, Files
  <2> QED BY <1>2, <1>3, <1>6, <2>1 DEF WritePending, Staging
<1>7. CASE SyncPending(p)
  <2>1. pend.ok /\ pend.doc = arg[p] /\ pend \in Files
    BY <1>1, <1>7 DEF IInv, TypeOK, StagingInv, SyncPending
  <2>2. /\ [pend EXCEPT !.synced = TRUE].ok = pend.ok
        /\ [pend EXCEPT !.synced = TRUE].doc = pend.doc
        /\ [pend EXCEPT !.synced = TRUE].synced
    BY <2>1, Zenon DEF Files
  <2> QED BY <1>2, <1>3, <1>7, <2>1, <2>2, FileTypes, Zenon DEF SyncPending, Staging
<1>8. CASE ClosePending(p)
  <2>1. pend.ok /\ pend.doc = arg[p] /\ pend.synced /\ pend \in Files
    BY <1>1, <1>8 DEF IInv, TypeOK, StagingInv, ClosePending
  <2> QED BY <1>2, <1>3, <1>8, <2>1 DEF ClosePending, Staging
<1> QED BY <1>4, <1>5, <1>6, <1>7, <1>8

\* The rename moves a synced document one revision ahead into the current name;
\* until the directory is synced the old document may come back.
LEMMA RenameKeeps ==
    ASSUME IInv, NEW p \in Procs, RenamePending(p)
    PROVE  IInv'
<1>1. /\ pc[p] = "rename" /\ disk = {cur} /\ disk' = {cur, pend}
      /\ pend.ok /\ pend.synced /\ pend.doc = arg[p]
      /\ arg[p].rev = cur.doc.rev + 1 /\ Validate(arg[p])
      /\ \A q \in Procs : q # p => pc[q] = "closed"
      /\ UNCHANGED <<lock, arg, promised>>
  BY DEF IInv, StagingInv, LockInv, RenamePending, Uncertain, Staging
<1>2. cur' \in {cur, pend} /\ pend' \in {Missing, pend}
  BY DEF RenamePending
<1>3. \/ Goto(p, "syncDir") /\ UNCHANGED <<uncertain, ret>> /\ cur' = pend
      \/ Uncertain(p)
  BY DEF RenamePending
<1>4. TypeOK' /\ LockInv'
  BY <1>1, <1>2, <1>3, FileTypes
    , Zenon DEF IInv, TypeOK, LockInv, Uncertain, Return, Goto, Result, Labels, Results
<1>5. StagingInv'
  BY <1>1, <1>3 DEF IInv, TypeOK, StagingInv, Uncertain, Return, Goto, Staging
<1>6. RestInv'
  BY <1>1, <1>3 DEF IInv, TypeOK, StagingInv, RestInv, Uncertain, Return, Goto, Staging, Opening
<1>7. (cur \in disk)' /\ DiskInv' /\ CurrentIntact' /\ OneDocumentPerRevision'
  BY <1>1, <1>2 DEF DiskInv, IInv, CurrentIntact, OneDocumentPerRevision
<1>8. PromisedDurable'
  <2>1. cur.doc.rev \in Nat /\ \A d \in promised : d.rev \in Nat
    BY FileTypes, DocRevisions, Zenon DEF IInv, TypeOK
  <2>2. \A d \in promised : d.rev < cur.doc.rev \/ d = cur.doc
    BY DEF IInv, PromisedDurable
  <2>3. \A d \in promised : d.rev < pend.doc.rev
    BY <1>1, <2>1, <2>2
  <2> QED BY <1>1, <2>2, <2>3 DEF PromisedDurable
<1> QED BY <1>4, <1>5, <1>6, <1>7, <1>8 DEF IInv

\* The directory sync that ends Commit turns the new document into a promise.
LEMMA SyncDirKeeps ==
    ASSUME IInv, NEW p \in Procs, SyncDir(p)
    PROVE  IInv'
<1>1. /\ pc[p] = "syncDir" /\ UNCHANGED <<cur, pend, lock, arg>> /\ cur \in disk
      /\ Validate(cur.doc)
  BY DEF SyncDir, Uncertain, files, IInv, RestInv
<1>2. \/ disk' = {cur} /\ Return(p, "nil") /\ promised' = promised \cup {cur.doc} /\ UNCHANGED uncertain
      \/ Uncertain(p) /\ UNCHANGED disk
  BY DEF SyncDir, files
<1>3. TypeOK' /\ LockInv'
  BY <1>1, <1>2, FileTypes, Zenon DEF IInv, TypeOK, LockInv, Uncertain, Return, Goto, Result, Labels, Results
<1>4. StagingInv'
  BY <1>1, <1>2 DEF IInv, TypeOK, LockInv, StagingInv, Uncertain, Return, Goto, Staging
<1>5. RestInv'
  BY <1>1, <1>2 DEF IInv, TypeOK, LockInv, RestInv, Uncertain, Return, Goto, Opening
<1>6. (cur \in disk)' /\ DiskInv' /\ CurrentIntact'
  BY <1>1, <1>2 DEF DiskInv, IInv, CurrentIntact
<1>7. PromisedDurable'
  BY <1>1, <1>2 DEF IInv, PromisedDurable, Uncertain
<1>8. OneDocumentPerRevision'
  <2>1. \A d \in promised : d.rev < cur.doc.rev \/ d = cur.doc
    BY DEF IInv, PromisedDurable
  <2>2. cur.doc.rev \in Nat
    BY FileTypes, Zenon DEF IInv, TypeOK
  <2>3. \A d \in promised : d = cur.doc \/ d.rev # cur.doc.rev
    BY <2>1, <2>2, DocRevisions DEF IInv, TypeOK
  <2> QED BY <1>2, <2>3 DEF IInv, OneDocumentPerRevision, Uncertain
<1> QED BY <1>3, <1>4, <1>5, <1>6, <1>7, <1>8 DEF IInv

\* Every file a power loss can leave is synced and keeps every promise.
LEMMA PowerLossKeeps ==
    ASSUME IInv, PowerLoss
    PROVE  IInv'
<1>1. cur' \in disk
  BY DEF PowerLoss, IInv, CurrentIntact
<1>2. disk' = {cur'} /\ pend' \in Files /\ UNCHANGED <<arg, promised>>
  BY FileTypes DEF PowerLoss, IInv, TypeOK
<1>3. /\ lock' = NoProc /\ ret' = [q \in Procs |-> "-"]
      /\ pc' = [q \in Procs |-> "closed"] /\ uncertain' = [q \in Procs |-> FALSE]
  BY DEF PowerLoss
<1>4. TypeOK' /\ LockInv'
  BY <1>1, <1>2, <1>3 DEF IInv, TypeOK, LockInv, Labels, Results
<1>5. StagingInv' /\ RestInv'
  BY <1>3 DEF StagingInv, RestInv, Staging
<1>6. (cur \in disk)' /\ DiskInv' /\ CurrentIntact' /\ PromisedDurable' /\ OneDocumentPerRevision'
  BY <1>1, <1>2 DEF DiskInv, IInv, CurrentIntact, PromisedDurable, OneDocumentPerRevision
<1> QED BY <1>4, <1>5, <1>6 DEF IInv

-----------------------------------------------------------------------------
\* A directory nobody has written to satisfies the inductive invariant.
LEMMA InitEstablishes == Init => IInv
<1> SUFFICES ASSUME Init PROVE IInv
  OBVIOUS
<1>1. TypeOK
  BY FileTypes DEF Init, TypeOK, Labels, Results
<1>2. LockInv /\ StagingInv /\ RestInv
  BY DEF Init, LockInv, StagingInv, RestInv, Staging
<1>3. cur \in disk /\ DiskInv /\ CurrentIntact /\ PromisedDurable /\ OneDocumentPerRevision
  BY DEF DiskInv, Init, CurrentIntact, PromisedDurable, OneDocumentPerRevision, Missing
<1> QED BY <1>1, <1>2, <1>3 DEF IInv

\* Every step of every process, and every crash, keeps the inductive invariant.
LEMMA NextKeeps == IInv /\ [Next]_vars => IInv'
<1> SUFFICES ASSUME IInv, [Next]_vars PROVE IInv'
  OBVIOUS
<1>1. ASSUME NEW p \in Procs, Open(p) \/ OpenLoad(p) \/ OpenSyncFile(p) \/ OpenSyncDir(p)
      PROVE  IInv'
  BY <1>1, OpenKeeps
<1>2. ASSUME NEW p \in Procs, Load(p) PROVE IInv'
  BY <1>2, LoadKeeps
<1>3. ASSUME NEW p \in Procs, NEW expected \in 0..MaxRevision, NEW next \in Docs,
             Commit(p, expected, next)
      PROVE  IInv'
  BY <1>3, CommitKeeps
<1>4. ASSUME NEW p \in Procs,
             \/ UnlinkPending(p) \/ CreatePending(p) \/ WritePending(p)
             \/ SyncPending(p) \/ ClosePending(p)
      PROVE  IInv'
  BY <1>4, StagingKeeps
<1>5. ASSUME NEW p \in Procs, RenamePending(p) PROVE IInv'
  BY <1>5, RenameKeeps
<1>6. ASSUME NEW p \in Procs, SyncDir(p) PROVE IInv'
  BY <1>6, SyncDirKeeps
<1>7. ASSUME NEW p \in Procs, Close(p) \/ Kill(p) PROVE IInv'
  <2>1. pc[p] # "closed" /\ \E r \in {"nil", "ErrIO", "-"} : Discard(p, r)
    BY <1>7 DEF Close, Kill
  <2> QED BY <2>1, DiscardKeeps DEF Results
<1>8. CASE PowerLoss
  BY <1>8, PowerLossKeeps
<1>9. CASE UNCHANGED vars
  BY <1>9 DEF IInv, DiskInv, vars, TypeOK, LockInv, StagingInv, RestInv, CurrentIntact,
              PromisedDurable, OneDocumentPerRevision
<1> QED BY <1>1, <1>2, <1>3, <1>4, <1>5, <1>6, <1>7, <1>8, <1>9 DEF Next

\* The inductive invariant holds throughout: whatever the processes that open,
\* load, commit, fail and crash do, in any order and number.
THEOREM Invariance == Spec => []IInv
BY InitEstablishes, NextKeeps, PTL DEF Spec

\* Every variable keeps its type through every system call, failure and crash.
THEOREM TypeCorrect == Spec => []TypeOK
<1>1. IInv => TypeOK
  BY DEF IInv
<1> QED BY Invariance, <1>1, PTL

\* The current file always decodes, and so does whatever a power loss leaves.
THEOREM CurrentIntactHolds == Spec => []CurrentIntact
<1>1. IInv => CurrentIntact
  BY DEF IInv
<1> QED BY Invariance, <1>1, PTL

\* No acknowledged commit and no loaded document is lost by a crash.
THEOREM PromisedDurableHolds == Spec => []PromisedDurable
<1>1. IInv => PromisedDurable
  BY DEF IInv
<1> QED BY Invariance, <1>1, PTL

\* Any two callers that hold a document of one revision hold the same one.
THEOREM OneDocumentPerRevisionHolds == Spec => []OneDocumentPerRevision
<1>1. IInv => OneDocumentPerRevision
  BY DEF IInv
<1> QED BY Invariance, <1>1, PTL

-----------------------------------------------------------------------------
\* What a returning Commit reports is true: nil, the document is current and
\* durable; ErrIO, the current document is still the one it expected.
THEOREM CommitOutcomeHolds == Spec => CommitOutcome
<1> DEFINE Outcome ==
        \A p \in Procs : (pc[p] \in Staging \cup {"syncDir"} /\ pc'[p] = "idle") =>
            /\ ret'[p] = "nil" => cur'.doc = arg[p] /\ disk' = {cur'}
            /\ ret'[p] = "ErrIO" => cur'.doc.rev + 1 = arg[p].rev /\ disk' = {cur'}
<1>1. IInv /\ [Next]_vars => [Outcome]_vars
  <2> SUFFICES ASSUME IInv, Next, NEW p \in Procs,
                      pc[p] \in Staging \cup {"syncDir"}, pc'[p] = "idle"
               PROVE  /\ ret'[p] = "nil" => cur'.doc = arg[p] /\ disk' = {cur'}
                      /\ ret'[p] = "ErrIO" => cur'.doc.rev + 1 = arg[p].rev /\ disk' = {cur'}
    OBVIOUS
  <2>1. pc \in [Procs -> Labels] /\ ret \in [Procs -> Results]
    BY DEF IInv, TypeOK
  <2>2. PICK q \in Procs : q = p /\
            \/ UnlinkPending(q) \/ CreatePending(q) \/ WritePending(q) \/ SyncPending(q)
            \/ ClosePending(q) \/ RenamePending(q) \/ SyncDir(q)
    <3>1. \A q \in Procs : pc[q] # "closed" => q = p
      BY DEF IInv, LockInv, Staging
    <3>2. ~PowerLoss
      BY DEF PowerLoss
    <3>4. pc'[p] # pc[p]
      BY DEF Staging
    <3>5. \A q \in Procs : Open(q) \/ Load(q) => pc'[p] = pc[p] \/ q = p
      BY <2>1 DEF Open, Load, Goto
    <3>6. \A q \in Procs : pc[q] \in {"closed", "idle"} \cup Opening => q # p
      BY DEF Staging, Opening
    <3>7. \A q \in Procs : ~Open(q) /\ ~OpenLoad(q) /\ ~OpenSyncFile(q) /\ ~OpenSyncDir(q) /\ ~Load(q) /\ ~Close(q)
      BY <3>1, <3>4, <3>5, <3>6 DEF Open, OpenLoad, OpenSyncFile, OpenSyncDir, Load, Close, Opening
    <3>8. \A q \in Procs, e \in 0..MaxRevision, d \in Docs : ~Commit(q, e, d)
      BY <3>1, <3>6 DEF Commit
    <3>9. \A q \in Procs : ~Kill(q)
      BY <2>1, <3>1 DEF Kill, Discard, Goto
    <3>10. PICK q \in Procs :
            \/ UnlinkPending(q) \/ CreatePending(q) \/ WritePending(q) \/ SyncPending(q)
            \/ ClosePending(q) \/ RenamePending(q) \/ SyncDir(q)
      BY <3>2, <3>7, <3>8, <3>9 DEF Next
    <3>11. q = p
      BY <3>1, <3>10 DEF UnlinkPending, CreatePending, WritePending, SyncPending, ClosePending, RenamePending, SyncDir
    <3> QED BY <3>10, <3>11
  <2>3. CASE StageFails(p) /\ pc[p] \in Staging
    <3>1. ret'[p] = "ErrIO" /\ UNCHANGED <<cur, disk>>
      BY <2>1, <2>3 DEF StageFails, Return, Result, files
    <3>2. disk = {cur} /\ arg[p].rev = cur.doc.rev + 1
      BY <2>3 DEF IInv, StagingInv
    <3> QED BY <3>1, <3>2
  <2>4. CASE SyncDir(p)
    <3>1. CASE Uncertain(p)
      BY <2>1, <3>1 DEF Uncertain, Return, Result
    <3>2. CASE disk' = {cur} /\ Return(p, "nil") /\ UNCHANGED cur
      <4>1. ret'[p] = "nil" /\ cur.doc = arg[p]
        BY <2>1, <2>4, <3>2 DEF Return, Result, IInv, RestInv, SyncDir
      <4> QED BY <3>2, <4>1
    <3> QED BY <2>4, <3>1, <3>2 DEF SyncDir
  <2>5. CASE RenamePending(p)
    BY <2>1, <2>5 DEF RenamePending, Uncertain, Return, Result, Goto
  <2>6. \A f, l : StageTo(p, f, l) => pc'[p] = l
    BY <2>1 DEF StageTo, Goto
  <2> QED BY <2>2, <2>3, <2>4, <2>5, <2>6
          DEF UnlinkPending, CreatePending, WritePending, SyncPending, ClosePending, Staging
<1>2. QED BY Invariance, <1>1, PTL DEF Spec, CommitOutcome

-----------------------------------------------------------------------------
\* Every step of the store, read through the mapping value <- cur.doc, is a step
\* of the register or a stutter: only the rename advances the value, only Load
\* and the final directory sync tell a caller, and a power loss takes back one
\* unacknowledged publication at most.
LEMMA StepRefines == IInv /\ [Next]_vars => [Register!RegNext]_(Register!regVars)
<1> SUFFICES ASSUME IInv, [Next]_vars
             PROVE  Register!RegNext \/ (cur.doc' = cur.doc /\ promised' = promised)
  BY DEF Register!regVars
<1>1. cur \in Files /\ cur.doc \in Docs /\ cur.doc.rev \in Nat
  BY FileTypes, Zenon DEF IInv, TypeOK
<1>2. CASE UNCHANGED <<cur, promised>>
  BY <1>2
<1>3. CASE UNCHANGED cur /\ promised' = promised \cup {cur.doc}
  BY <1>3 DEF Register!RegNext, Register!Promise
<1>4. ASSUME NEW p \in Procs, RenamePending(p)
      PROVE  Register!RegNext \/ UNCHANGED <<cur, promised>>
  <2>1. pend.doc = arg[p] /\ arg[p].rev = cur.doc.rev + 1 /\ arg[p] \in Docs
    BY <1>4 DEF RenamePending, IInv, StagingInv, Staging, TypeOK
  <2>2. UNCHANGED promised /\ (cur' = pend \/ cur' = cur)
    BY <1>4 DEF RenamePending, Uncertain
  <2>3. CASE cur' = pend
    BY <2>1, <2>2, <2>3 DEF Register!RegNext, Register!Advance
  <2> QED BY <2>2, <2>3
<1>5. CASE PowerLoss
  <2>1. cur' \in disk /\ UNCHANGED promised
    BY <1>5 DEF PowerLoss, IInv, CurrentIntact
  <2>2. cur' \in Files /\ cur'.doc \in Docs
    BY <2>1, FileTypes, Zenon DEF IInv, TypeOK
  <2>3. CASE cur'.doc.rev + 1 = cur.doc.rev
    <3>1. \A d \in promised : d.rev < cur'.doc.rev \/ d = cur'.doc
      BY <2>1 DEF IInv, PromisedDurable
    <3> QED BY <2>1, <2>2, <2>3, <3>1 DEF Register!RegNext, Register!Recover, Register!Keeps
  <2>4. CASE cur'.doc.rev = cur.doc.rev + 1
    BY <2>1, <2>2, <2>4 DEF Register!RegNext, Register!Advance
  <2> QED BY <2>1, <2>3, <2>4 DEF IInv, DiskInv
<1>6. ASSUME NEW p \in Procs, OpenSyncFile(p)
      PROVE  UNCHANGED <<cur.doc, promised>>
  BY <1>1, <1>6 DEF OpenSyncFile, Discard, Files
<1>7. ASSUME NEW p \in Procs,
             \/ Open(p) \/ OpenLoad(p) \/ OpenSyncDir(p) \/ Close(p) \/ Kill(p)
             \/ UnlinkPending(p) \/ CreatePending(p) \/ WritePending(p) \/ SyncPending(p) \/ ClosePending(p)
             \/ \E expected \in 0..MaxRevision, next \in Docs : Commit(p, expected, next)
      PROVE  UNCHANGED <<cur, promised>>
  BY <1>7 DEF Open, OpenLoad, OpenSyncDir, Close, Kill, Discard, Commit, UnlinkPending, CreatePending,
              WritePending, SyncPending, ClosePending, StageTo, StageFails, files
<1>8. ASSUME NEW p \in Procs, Load(p) \/ SyncDir(p)
      PROVE  UNCHANGED cur /\ promised' \in {promised, promised \cup {cur.doc}}
  BY <1>8 DEF Load, SyncDir, Uncertain, files
<1>9. CASE UNCHANGED vars
  BY <1>2, <1>9 DEF vars
<1> QED BY <1>2, <1>3, <1>4, <1>5, <1>6, <1>7, <1>8, <1>9 DEF Next

\* The store implements the durable register its callers rely on.
THEOREM Refinement == Spec => ImplementsRegister
<1>1. Init => Register!RegInit
  BY DEF Init, Register!RegInit, Missing
<1> QED BY <1>1, Invariance, StepRefines, PTL DEF Spec, ImplementsRegister, Register!RegSpec
-----------------------------------------------------------------------------
(* The owner of a policy (OwnedPolicy).                                    *)

\* A call in progress belongs to a live owner that is not under review, and has
\* nothing to show yet.
CallInv ==
    Busy => /\ call.op \in Ops /\ call.phase \in Phases
            /\ life = "live" /\ ~review /\ answer.res = "-"
            /\ call.op = "Commit" => call.next \in Policies
            /\ call.op = "LeaseSnapshot" => call.lease \in Lease
            /\ call.phase \in {"decode", "restat", "quiet2"} => call.before \in Nat
            /\ call.phase \in {"restat", "quiet2"} => call.doc \in Policies
            /\ call.phase \in {"cas", "publish"} => call.op = "Commit" /\ ~wrote
            /\ call.phase = "epoch" => call.op = "Commit" /\ wrote
            /\ call.op = "Commit" /\ wrote => pub = call.next

\* The watch shows every foreign change made under it, and a read that began
\* after one is not trusted.
WatchInv ==
    /\ tainted => queue
    /\ Busy /\ call.dirty => queue /\ call.phase \in {"restat", "quiet2"}

\* Nobody holds a lease while the owner opens or publishes.
FenceInv ==
    Busy /\ (call.op = "Open" \/ call.phase \in {"cas", "publish"} \/ (call.op = "Commit" /\ wrote))
        => Live = {}

\* Outside Open and the second half of Commit, a live owner that is not under
\* review has as its baseline the document it last opened or published.
BaselineInv ==
    (life = "live" /\ ~review /\ ~(Busy /\ (call.op = "Open" \/ (call.op = "Commit" /\ wrote))))
        => pub \in Policies /\ baseline \in [doc : Policies, stamp : Nat] /\ baseline.doc = pub

\* A live lease is on a document of the live owner.
LeaseInv == \A l \in Live : life = "live" /\ pub \in Policies /\ pub.rev = leases[l]

OwnerInv == OwnerTypeOK /\ CallInv /\ WatchInv /\ FenceInv /\ BaselineInv /\ LeaseInv /\ AnswersTrue

-----------------------------------------------------------------------------
(* The ways a call ends.                                                   *)

\* Idle is a call and what Finish leaves is a result.
LEMMA ReturnTypes ==
    ASSUME OwnerInv, NEW res \in Outcomes, NEW doc \in Policies \cup {None}, Finish(res, doc)
    PROVE  /\ call' \in Calls /\ ~Busy' /\ cancelled' \in BOOLEAN /\ answer' \in Returned
           /\ answer'.op = call.op /\ answer'.res = res /\ answer'.doc = doc /\ answer'.dirty = call.dirty
<1>1. Idle \in Calls
  BY OwnedAssumption DEF Idle, Calls, Ops, Phases
<1>2. call \in Calls
  BY DEF OwnerInv, OwnerTypeOK
<1>3. answer' \in Returned
  BY <1>2 DEF Finish, Returned, Calls
<1> QED BY <1>1, <1>3, Zenon DEF Finish, Busy, Idle

\* Going under review, and closing after a failed Open, lose no lease: they
\* stay, on the document they were granted.
LEMMA FailsKeeps ==
    ASSUME OwnerInv, Busy, UNCHANGED <<dirVars, history>>,
           Quarantine \/ (call.op = "Open" /\ \E res \in {"ErrReview", "ErrNotInitialized"} : Abandon(res))
    PROVE  OwnerInv'
<1>1. PICK res \in {"ErrReview", "ErrNotInitialized"} : Finish(res, None) /\ (res # "ErrReview" => call.op = "Open")
  BY DEF Quarantine, Abandon
<1>2. res \in Outcomes
  BY DEF Outcomes
<1>3. /\ call' \in Calls /\ ~Busy' /\ cancelled' \in BOOLEAN /\ answer' \in Returned
      /\ answer'.op = call.op /\ answer'.res = res /\ answer'.dirty = call.dirty
  BY <1>1, <1>2, ReturnTypes
<1>4. UNCHANGED <<current, stamp, queue, closeFailed, baseline, leases, pub, wrote, tainted, everTainted, foreign>>
  BY DEF Quarantine, Abandon, dirVars, history
<1>5. /\ life' \in {"none", "live", "closed"} /\ review' \in BOOLEAN
      /\ life' # "live" \/ review' = TRUE
      /\ life' # life => call.op = "Open"
  BY Zenon DEF OwnerInv, OwnerTypeOK, Quarantine, Abandon
<1>6. OwnerTypeOK'
  BY <1>3, <1>4, <1>5 DEF OwnerInv, OwnerTypeOK, Live
<1>7. CallInv' /\ WatchInv' /\ FenceInv'
  BY <1>3, <1>4 DEF OwnerInv, CallInv, WatchInv, FenceInv, Live
<1>8. BaselineInv'
  BY <1>5 DEF BaselineInv
<1>9. LeaseInv'
  BY <1>4, <1>5 DEF OwnerInv, LeaseInv, FenceInv, Live
<1>10. AnswersTrue'
  BY <1>1, <1>3 DEF AnswersTrue
<1> QED BY <1>6, <1>7, <1>8, <1>9, <1>10 DEF OwnerInv

\* An answer that changes nothing is true if what it says is.
LEMMA AnswerKeeps ==
    ASSUME OwnerInv, Busy, UNCHANGED <<dirVars, ownVars, history>>,
           NEW res \in Outcomes, NEW doc \in Policies \cup {None}, Finish(res, doc),
           call.op # "Open", ~(call.op = "Commit" /\ wrote),
           res = "nil" => ~call.dirty /\ call.op # "Commit",
           res = "nil" /\ call.op \in {"Snapshot", "LeaseSnapshot"} => doc = pub
    PROVE  OwnerInv'
<1>3. /\ call' \in Calls /\ ~Busy' /\ cancelled' \in BOOLEAN /\ answer' \in Returned
      /\ answer'.op = call.op /\ answer'.res = res /\ answer'.doc = doc /\ answer'.dirty = call.dirty
  BY ReturnTypes
<1>4. UNCHANGED <<current, stamp, queue, life, review, closeFailed, baseline, leases, pub, wrote, tainted, everTainted, foreign>>
  BY DEF dirVars, ownVars, history
<1>6. OwnerTypeOK'
  BY <1>3, <1>4 DEF OwnerInv, OwnerTypeOK, Live
<1>7. CallInv' /\ WatchInv' /\ FenceInv'
  BY <1>3, <1>4 DEF OwnerInv, CallInv, WatchInv, FenceInv, Live
<1>8. BaselineInv'
  BY <1>3, <1>4 DEF OwnerInv, BaselineInv
<1>9. LeaseInv'
  BY <1>4 DEF OwnerInv, LeaseInv, Live
<1>10. AnswersTrue'
  BY <1>3, <1>4 DEF AnswersTrue
<1> QED BY <1>6, <1>7, <1>8, <1>9, <1>10 DEF OwnerInv

\* A step of a call that only moves it on.
LEMMA MoveKeeps ==
    ASSUME OwnerInv, Busy, UNCHANGED <<dirVars, ownVars, history, cancelled, answer>>,
           call' \in Calls, call'.op = call.op, call'.next = call.next, call'.lease = call.lease,
           call'.phase \in Phases,
           call'.phase \in {"decode", "restat", "quiet2"} => call'.before \in Nat,
           call'.phase \in {"restat", "quiet2"} => call'.doc \in Policies,
           call'.phase \in {"cas", "publish"} => call.op = "Commit" /\ ~wrote /\ Live = {},
           call'.phase # "epoch",
           call'.dirty => queue /\ call'.phase \in {"restat", "quiet2"}
    PROVE  OwnerInv'
<1>1. UNCHANGED <<current, stamp, queue, life, review, closeFailed, baseline, leases, pub, wrote, tainted, everTainted,
                  foreign, cancelled, answer>>
  BY DEF dirVars, ownVars, history
<1>2. OwnerTypeOK'
  BY <1>1 DEF OwnerInv, OwnerTypeOK, Live
<1>3. CallInv'
  BY <1>1 DEF OwnerInv, CallInv, Busy
<1>4. WatchInv' /\ FenceInv'
  BY <1>1 DEF OwnerInv, WatchInv, FenceInv, Busy, Live
<1>5. BaselineInv' /\ LeaseInv' /\ AnswersTrue'
  BY <1>1 DEF OwnerInv, BaselineInv, LeaseInv, AnswersTrue, Busy, Live
<1> QED BY <1>2, <1>3, <1>4, <1>5 DEF OwnerInv

-----------------------------------------------------------------------------
\* The steps of captureLocked up to the last look at the watch.
LEMMA CaptureKeeps ==
    ASSUME OwnerInv, CaptureFault \/ Quiet \/ Stat \/ Decode \/ Restat
    PROVE  OwnerInv'
<1>1. Busy /\ call \in Calls /\ call.op \in Ops /\ UNCHANGED <<dirVars, history>>
  BY DEF OwnerInv, OwnerTypeOK, CallInv, CaptureFault, Quiet, Stat, Decode, Restat, At
<1>2. CASE Fails
  BY <1>1, <1>2, FailsKeeps DEF Fails
<1>3. CASE Stat /\ call.op = "Open" /\ Abandon("ErrNotInitialized")
  BY <1>1, <1>3, FailsKeeps
<1>4. CASE Quiet /\ Enter("stat") /\ UNCHANGED ownVars
  <2>1. /\ call' \in Calls /\ call'.op = call.op /\ call'.next = call.next /\ call'.lease = call.lease
        /\ call'.phase = "stat" /\ call'.dirty = call.dirty
    BY <1>1, <1>4 DEF Enter, Calls, Phases
  <2>2. ~call.dirty
    BY <1>1, <1>4 DEF OwnerInv, WatchInv, Quiet, At
  <2> QED BY <1>1, <1>4, <2>1, <2>2, MoveKeeps DEF Enter, Phases
<1>5. CASE Stat /\ call' = [call EXCEPT !.phase = "decode", !.before = stamp] /\ UNCHANGED <<ownVars, cancelled, answer>>
  <2>1. /\ call' \in Calls /\ call'.op = call.op /\ call'.next = call.next /\ call'.lease = call.lease
        /\ call'.phase = "decode" /\ call'.dirty = call.dirty /\ call'.before \in Nat
    BY <1>1, <1>5, Zenon DEF Calls, Phases, OwnerInv, OwnerTypeOK
  <2>2. ~call.dirty
    BY <1>1, <1>5 DEF OwnerInv, WatchInv, Stat, At
  <2> QED BY <1>1, <1>5, <2>1, <2>2, MoveKeeps DEF Phases
<1>6. CASE /\ Decode /\ current \in Policies /\ UNCHANGED <<ownVars, cancelled, answer>>
           /\ call' = [call EXCEPT !.phase = "restat", !.doc = current, !.dirty = tainted, !.everDirty = everTainted]
  <2>1. /\ call' \in Calls /\ call'.op = call.op /\ call'.next = call.next /\ call'.lease = call.lease
        /\ call'.phase = "restat" /\ call'.dirty = tainted /\ call'.before = call.before /\ call'.doc \in Policies
    BY <1>1, <1>6, Zenon DEF Calls, Phases, OwnerInv, OwnerTypeOK
  <2>2. call.before \in Nat /\ (tainted => queue)
    BY <1>1, <1>6 DEF OwnerInv, CallInv, WatchInv, Decode, At
  <2> QED BY <1>1, <1>6, <2>1, <2>2, MoveKeeps DEF Phases
<1>7. CASE Restat /\ Enter("quiet2") /\ UNCHANGED ownVars
  <2>1. /\ call' \in Calls /\ call'.op = call.op /\ call'.next = call.next /\ call'.lease = call.lease
        /\ call'.phase = "quiet2" /\ call'.dirty = call.dirty /\ call'.before = call.before /\ call'.doc = call.doc
    BY <1>1, <1>7 DEF Enter, Calls, Phases
  <2>2. call.before \in Nat /\ call.doc \in Policies /\ (call.dirty => queue)
    BY <1>1, <1>7 DEF OwnerInv, CallInv, WatchInv, Restat, At
  <2> QED BY <1>1, <1>7, <2>1, <2>2, MoveKeeps DEF Enter, Phases
<1> QED BY <1>2, <1>3, <1>4, <1>5, <1>6, <1>7 DEF CaptureFault, Quiet, Stat, Decode, Restat

\* A trusted read that equals the baseline is a read of the document the owner
\* opened or last published.
LEMMA TrustedRead ==
    ASSUME OwnerInv, At("quiet2"), Trusted
    PROVE  /\ Busy /\ ~call.dirty /\ call.doc \in Policies /\ Observed \in [doc : Policies, stamp : Nat]
           /\ Observed.doc = call.doc
           /\ SameAsBaseline /\ call.op # "Open" /\ ~(call.op = "Commit" /\ wrote) =>
                 call.doc = pub /\ baseline.doc = pub /\ pub \in Policies
<1>1. Busy /\ ~call.dirty /\ call.doc \in Policies /\ call.before \in Nat /\ life = "live" /\ ~review
  BY DEF At, Trusted, OwnerInv, CallInv, WatchInv
<1>2. Observed \in [doc : Policies, stamp : Nat] /\ Observed.doc = call.doc
  BY <1>1 DEF Observed
<1>3. ASSUME SameAsBaseline, call.op # "Open", ~(call.op = "Commit" /\ wrote)
      PROVE  call.doc = pub /\ baseline.doc = pub /\ pub \in Policies
  <2>1. baseline.doc = pub /\ pub \in Policies
    BY <1>1, <1>3 DEF OwnerInv, BaselineInv
  <2> QED BY <1>2, <1>3, <2>1 DEF SameAsBaseline
<1> QED BY <1>1, <1>2, <1>3

\* What each call does with its read: only Acquire grants, and only while there
\* is room; only Open and Commit move the baseline.
LEMMA Quiet2Keeps ==
    ASSUME OwnerInv, Quiet2
    PROVE  OwnerInv'
<1>1. /\ Busy /\ At("quiet2") /\ call \in Calls /\ call.op \in Ops /\ UNCHANGED dirVars
      /\ life = "live" /\ ~review /\ answer.res = "-"
  BY DEF OwnerInv, OwnerTypeOK, CallInv, Quiet2, At
<1>2. CASE ~Trusted
  BY <1>1, <1>2, FailsKeeps DEF Quiet2, Fails
<1>3. CASE Quarantine /\ UNCHANGED history
  BY <1>1, <1>3, FailsKeeps
<1>4. CASE Trusted /\ (FinishSnapshot \/ FinishLeaseSnapshot) /\ ~Quarantine
  <2>1. SameAsBaseline /\ UNCHANGED ownVars /\ UNCHANGED history /\ call.op \in {"Snapshot", "LeaseSnapshot"}
    BY <1>4 DEF FinishSnapshot, FinishLeaseSnapshot
  <2>2. Finish("ctx", None) \/ Finish("nil", call.doc)
    BY <1>4 DEF FinishSnapshot, FinishLeaseSnapshot
  <2>3. call.doc = pub /\ call.doc \in Policies /\ ~call.dirty
    BY <1>1, <1>4, <2>1, TrustedRead
  <2> QED BY <1>1, <2>1, <2>2, <2>3, AnswerKeeps DEF Outcomes
<1>5. CASE Trusted /\ FinishAcquire /\ SameAsBaseline
  <2>1. call.op = "Acquire" /\ UNCHANGED <<history, life, review, closeFailed, baseline>>
    BY <1>5 DEF FinishAcquire
  <2>2. baseline.doc = pub /\ pub \in Policies /\ ~call.dirty
    BY <1>1, <1>5, <2>1, TrustedRead
  <2>3. CASE \E err \in {"ErrConflict", "ErrBusy", "ctx"} : Finish(err, None) /\ UNCHANGED leases
    BY <1>1, <2>1, <2>2, <2>3, AnswerKeeps DEF Outcomes, ownVars
  <2>4. ASSUME Finish("nil", None), call.expected = baseline.doc.rev, ~(Cardinality(Live) >= maxPolicyLeases),
               NEW l \in Lease \ Live, leases' = [leases EXCEPT ![l] = call.expected]
        PROVE  OwnerInv'
    <3>1. call.expected \in 1..MaxPublished /\ call.expected = pub.rev
      BY <2>2, <2>4 DEF Policies
    <3>2. leases \in [Lease -> 0..MaxPublished] /\ leases' \in [Lease -> 0..MaxPublished]
      BY <2>4, <3>1 DEF OwnerInv, OwnerTypeOK
    <3>3. Live' = Live \cup {l}
      BY <2>4, <3>1, <3>2 DEF Live
    <3>4. Cardinality(Live') <= maxPolicyLeases
      <4>1. IsFiniteSet(Live) /\ Cardinality(Live) \in Nat
        BY FS_Subset, FS_CardinalityType, OwnedAssumption DEF Live
      <4>2. Cardinality(Live \cup {l}) = Cardinality(Live) + 1
        BY <2>4, <4>1, FS_AddElement, Zenon
      <4> QED BY <2>4, <3>3, <4>1, <4>2, OwnedAssumption
    <3>5. /\ call' \in Calls /\ ~Busy' /\ cancelled' \in BOOLEAN /\ answer' \in Returned
          /\ answer'.op = "Acquire" /\ answer'.res = "nil" /\ answer'.dirty = call.dirty
      BY <2>1, <2>4, ReturnTypes DEF Outcomes
    <3>6. UNCHANGED <<current, stamp, queue, life, review, closeFailed, baseline, pub, wrote, tainted, everTainted, foreign>>
      BY <1>1, <2>1 DEF dirVars, history
    <3>7. OwnerTypeOK'
      BY <3>2, <3>4, <3>5, <3>6 DEF OwnerInv, OwnerTypeOK
    <3>8. CallInv' /\ WatchInv' /\ FenceInv'
      BY <3>5, <3>6 DEF OwnerInv, CallInv, WatchInv, FenceInv
    <3>9. BaselineInv'
      BY <1>1, <2>1, <3>6 DEF OwnerInv, BaselineInv
    <3>10. LeaseInv'
      BY <1>1, <2>2, <2>4, <3>1, <3>2, <3>3, <3>6 DEF OwnerInv, LeaseInv
    <3>11. AnswersTrue'
      BY <2>2, <3>5 DEF AnswersTrue
    <3> QED BY <3>7, <3>8, <3>9, <3>10, <3>11 DEF OwnerInv
  <2> QED BY <1>5, <2>3, <2>4 DEF FinishAcquire
<1>6. CASE Trusted /\ FinishOpen
  <2>1. /\ call.op = "Open" /\ baseline' = Observed /\ pub' = call.doc /\ Finish("nil", None)
        /\ UNCHANGED <<current, stamp, queue, life, review, closeFailed, leases, wrote, tainted, everTainted, foreign>>
    BY <1>1, <1>6 DEF FinishOpen, dirVars
  <2>2. /\ ~call.dirty /\ call.doc \in Policies /\ Observed \in [doc : Policies, stamp : Nat] /\ Observed.doc = call.doc
    BY <1>1, <1>6, TrustedRead
  <2>3. /\ call' \in Calls /\ ~Busy' /\ cancelled' \in BOOLEAN /\ answer' \in Returned
        /\ answer'.op = "Open" /\ answer'.res = "nil" /\ answer'.dirty = call.dirty
    BY <2>1, ReturnTypes DEF Outcomes
  <2>4. Live = {} /\ Live' = {}
    BY <1>1, <2>1 DEF OwnerInv, FenceInv, Live
  <2>5. OwnerTypeOK'
    BY <2>1, <2>2, <2>3, <2>4 DEF OwnerInv, OwnerTypeOK
  <2>6. CallInv' /\ WatchInv' /\ FenceInv' /\ LeaseInv'
    BY <2>1, <2>3, <2>4 DEF OwnerInv, CallInv, WatchInv, FenceInv, LeaseInv
  <2>7. BaselineInv' /\ AnswersTrue'
    BY <2>1, <2>2, <2>3 DEF BaselineInv, AnswersTrue
  <2> QED BY <2>5, <2>6, <2>7 DEF OwnerInv
<1>7. CASE Trusted /\ ObserveForCommit /\ SameAsBaseline
  <2>1. call.op = "Commit" /\ ~wrote /\ UNCHANGED <<ownVars, history>>
    BY <1>7 DEF ObserveForCommit
  <2>2. ~call.dirty
    BY <1>1, <1>7, TrustedRead
  <2>3. CASE \E err \in {"ErrBusy", "ctx"} : Finish(err, None)
    BY <1>1, <2>1, <2>3, AnswerKeeps DEF Outcomes
  <2>4. CASE Live = {} /\ Enter("cas")
    <3>1. /\ call' \in Calls /\ call'.op = call.op /\ call'.next = call.next /\ call'.lease = call.lease
          /\ call'.phase = "cas" /\ call'.dirty = call.dirty
      BY <1>1, <2>4 DEF Enter, Calls, Phases
    <3> QED BY <1>1, <2>1, <2>2, <2>4, <3>1, MoveKeeps DEF Enter, Phases
  <2> QED BY <1>7, <2>3, <2>4 DEF ObserveForCommit
<1>8. CASE Trusted /\ FinishCommit
  <2>1. /\ call.op = "Commit" /\ wrote /\ baseline' = Observed
        /\ UNCHANGED <<current, stamp, queue, life, closeFailed, leases, pub, wrote, tainted, everTainted, foreign>>
    BY <1>1, <1>8 DEF FinishCommit, dirVars, history
  <2>2. /\ ~call.dirty /\ call.doc \in Policies /\ Observed \in [doc : Policies, stamp : Nat] /\ Observed.doc = call.doc
    BY <1>1, <1>8, TrustedRead
  <2>3. PICK res \in {"ErrReview", "nil"} :
            /\ Finish(res, None) /\ review' \in BOOLEAN
            /\ res = "ErrReview" => review'
            /\ res = "nil" => call.doc = call.next
    <3>1. CASE review' = TRUE /\ Finish("ErrReview", None)
      BY <3>1
    <3>2. CASE call.doc = call.next /\ Finish("nil", None) /\ UNCHANGED review
      BY <3>2 DEF OwnerInv, OwnerTypeOK
    <3> QED BY <1>8, <3>1, <3>2, Zenon DEF FinishCommit
  <2>4. /\ call' \in Calls /\ ~Busy' /\ cancelled' \in BOOLEAN /\ answer' \in Returned
        /\ answer'.op = "Commit" /\ answer'.res = res /\ answer'.dirty = call.dirty
    BY <2>1, <2>3, ReturnTypes DEF Outcomes
  <2>5. OwnerTypeOK'
    BY <2>1, <2>2, <2>3, <2>4 DEF OwnerInv, OwnerTypeOK, Live
  <2>6. CallInv' /\ WatchInv' /\ FenceInv' /\ LeaseInv'
    BY <2>1, <2>4 DEF OwnerInv, CallInv, WatchInv, FenceInv, LeaseInv, Live
  <2>7. pub = call.next
    BY <1>1, <2>1 DEF OwnerInv, CallInv
  <2>8. BaselineInv' /\ AnswersTrue'
    BY <2>1, <2>2, <2>3, <2>4, <2>7 DEF BaselineInv, AnswersTrue
  <2> QED BY <2>5, <2>6, <2>8 DEF OwnerInv
<1> QED BY <1>2, <1>3, <1>4, <1>5, <1>6, <1>7, <1>8
        DEF Quiet2, FinishSnapshot, FinishLeaseSnapshot, FinishAcquire, ObserveForCommit

-----------------------------------------------------------------------------
(* The publication.                                                        *)

\* Store.Commit's refusals write nothing, and it goes on only for this Commit.
LEMMA CompareKeeps ==
    ASSUME OwnerInv, CompareRevision
    PROVE  OwnerInv'
<1>1. /\ Busy /\ call \in Calls /\ call.op = "Commit" /\ ~wrote /\ UNCHANGED <<dirVars, history>>
      /\ Live = {} /\ ~call.dirty
  BY DEF OwnerInv, OwnerTypeOK, CallInv, WatchInv, FenceInv, CompareRevision, At
<1>2. CASE Quarantine
  BY <1>1, <1>2, FailsKeeps
<1>3. CASE (\E err \in {"ErrConflict", "ErrInvalid"} : Finish(err, None)) /\ UNCHANGED ownVars
  BY <1>1, <1>3, AnswerKeeps DEF Outcomes
<1>4. CASE Enter("publish") /\ UNCHANGED ownVars
  <2>1. /\ call' \in Calls /\ call'.op = call.op /\ call'.next = call.next /\ call'.lease = call.lease
        /\ call'.phase = "publish" /\ call'.dirty = call.dirty
    BY <1>1, <1>4 DEF Enter, Calls, Phases
  <2> QED BY <1>1, <1>4, <2>1, MoveKeeps DEF Enter, Phases
<1> QED BY <1>2, <1>3, <1>4 DEF CompareRevision

\* The rename happens with no lease live; what it writes is the call's document.
LEMMA PublishKeeps ==
    ASSUME OwnerInv, Publish \/ PublishFails
    PROVE  OwnerInv'
<1>1. /\ Busy /\ call \in Calls /\ call.op = "Commit" /\ call.next \in Policies /\ life = "live" /\ answer.res = "-"
      /\ Live = {} /\ ~call.dirty
  BY DEF OwnerInv, OwnerTypeOK, CallInv, WatchInv, FenceInv, Publish, PublishFails, At
<1>2. UNCHANGED <<life, closeFailed, baseline, leases, tainted, everTainted, foreign>> /\ Live' = {}
  BY <1>1 DEF Publish, PublishFails, Enter, Quarantine, ownVars, history, Live
<1>3. /\ current' \in Policies \cup {None, Bad} /\ stamp' \in Nat /\ queue' = TRUE
      /\ pub' \in Policies \cup {None} /\ wrote' \in BOOLEAN
  <2>1. CASE Publish
    BY <1>1, <2>1 DEF OwnerInv, OwnerTypeOK, Publish
  <2>2. CASE PublishFails
    BY <2>2 DEF OwnerInv, OwnerTypeOK, PublishFails, history
  <2> QED BY <2>1, <2>2, Zenon
<1>4. CASE Quarantine
  <2>1. /\ call' \in Calls /\ ~Busy' /\ cancelled' \in BOOLEAN /\ answer' \in Returned
        /\ answer'.op = call.op /\ answer'.res = "ErrReview" /\ review' = TRUE
    BY <1>4, ReturnTypes DEF Outcomes, Quarantine
  <2>2. OwnerTypeOK'
    BY <1>2, <1>3, <2>1 DEF OwnerInv, OwnerTypeOK, Live
  <2>3. CallInv' /\ WatchInv' /\ FenceInv' /\ LeaseInv' /\ BaselineInv' /\ AnswersTrue'
    BY <1>2, <1>3, <2>1 DEF CallInv, WatchInv, FenceInv, LeaseInv, BaselineInv, AnswersTrue
  <2> QED BY <2>2, <2>3 DEF OwnerInv
<1>5. CASE Publish /\ Enter("epoch") /\ UNCHANGED ownVars
  <2>1. /\ call' \in Calls /\ call'.op = "Commit" /\ call'.next = call.next /\ call'.dirty = call.dirty
        /\ call'.phase = "epoch"
    BY <1>1, <1>5 DEF Enter, Calls, Phases
  <2>2. UNCHANGED <<cancelled, answer, review>> /\ wrote' = TRUE /\ pub' = call.next
    BY <1>5 DEF Enter, ownVars, Publish
  <2>3. OwnerTypeOK'
    BY <1>2, <1>3, <2>1, <2>2 DEF OwnerInv, OwnerTypeOK, Live
  <2>4. CallInv'
    BY <1>1, <1>2, <2>1, <2>2 DEF OwnerInv, CallInv, Busy, Ops, Phases
  <2>5. WatchInv' /\ FenceInv' /\ LeaseInv' /\ BaselineInv' /\ AnswersTrue'
    BY <1>1, <1>2, <1>3, <2>1, <2>2 DEF WatchInv, FenceInv, LeaseInv, BaselineInv, AnswersTrue, Busy
  <2> QED BY <2>3, <2>4, <2>5 DEF OwnerInv
<1> QED BY <1>4, <1>5, Zenon DEF Publish, PublishFails

\* The new watch starts silent, and so does the record of what it was shown.
LEMMA NewEpochKeeps ==
    ASSUME OwnerInv, NewEpoch
    PROVE  OwnerInv'
<1>1. /\ Busy /\ call \in Calls /\ call.op = "Commit" /\ wrote /\ ~call.dirty
  BY DEF OwnerInv, OwnerTypeOK, CallInv, WatchInv, NewEpoch, At
<1>2. /\ call' \in Calls /\ call'.op = "Commit" /\ call'.next = call.next /\ call'.dirty = call.dirty
      /\ call'.phase = "quiet"
  BY <1>1 DEF NewEpoch, Enter, Calls, Phases
<1>3. /\ UNCHANGED <<current, stamp, life, review, closeFailed, baseline, leases, cancelled, answer, pub, wrote, everTainted, foreign>>
      /\ queue' = FALSE /\ tainted' = FALSE
  BY DEF NewEpoch, Enter, ownVars
<1>4. OwnerTypeOK'
  BY <1>2, <1>3, Zenon DEF OwnerInv, OwnerTypeOK, Live
<1>5. CallInv'
  BY <1>1, <1>2, <1>3 DEF OwnerInv, CallInv, Busy, Ops, Phases
<1>6. WatchInv' /\ FenceInv'
  BY <1>1, <1>2, <1>3 DEF OwnerInv, WatchInv, FenceInv, Busy, Live
<1>7. BaselineInv' /\ LeaseInv' /\ AnswersTrue'
  BY <1>1, <1>2, <1>3 DEF OwnerInv, BaselineInv, LeaseInv, AnswersTrue, Busy, Live
<1> QED BY <1>4, <1>5, <1>6, <1>7 DEF OwnerInv

-----------------------------------------------------------------------------
(* The start of a call, the other operations and the environment.          *)

\* A call passes checkLocked only on a live owner that is not under review.
LEMMA BeginKeeps ==
    ASSUME OwnerInv, life # "none",
           NEW op \in Ops \ {"Open"}, NEW l \in Lease \cup {None}, NEW expected \in 0..MaxPublished,
           NEW next \in Policies \cup {None}, Begin(op, l, expected, next),
           op = "Commit" => next \in Policies, op = "LeaseSnapshot" => l \in Lease
    PROVE  OwnerInv'
<1>1. /\ ~Busy /\ wrote' = FALSE
      /\ UNCHANGED <<current, stamp, queue, life, review, closeFailed, baseline, leases, cancelled, pub, tainted, everTainted, foreign>>
  BY DEF Begin, dirVars, ownVars
<1>2. answer \in Returned /\ review \in BOOLEAN
  BY DEF OwnerInv, OwnerTypeOK
<1>3. CASE /\ ~review /\ life # "closed"
           /\ call' = [Idle EXCEPT !.op = op, !.phase = "quiet", !.lease = l, !.expected = expected, !.next = next]
           /\ answer' = [answer EXCEPT !.op = "-", !.res = "-", !.doc = None]
  <2>1. /\ call' \in Calls /\ call'.op = op /\ call'.phase = "quiet" /\ call'.lease = l /\ call'.next = next
        /\ ~call'.dirty
    BY <1>3, Zenon DEF Idle, Calls, Phases
  <2>2. answer' \in Returned /\ answer'.res = "-" /\ answer'.op = "-"
    BY <1>2, <1>3, Zenon DEF Returned, Outcomes
  <2>3. OwnerTypeOK' /\ life = "live"
    BY <1>1, <1>3, <2>1, <2>2, Zenon DEF OwnerInv, OwnerTypeOK, Live
  <2>4. CallInv'
    BY <1>1, <1>3, <2>1, <2>2, <2>3 DEF CallInv, Phases
  <2>5. WatchInv' /\ FenceInv'
    BY <1>1, <2>1 DEF OwnerInv, WatchInv, FenceInv
  <2>6. BaselineInv' /\ LeaseInv' /\ AnswersTrue'
    BY <1>1, <2>1, <2>2 DEF OwnerInv, BaselineInv, LeaseInv, AnswersTrue, Live
  <2> QED BY <2>3, <2>4, <2>5, <2>6 DEF OwnerInv
<1>4. ASSUME NEW err \in {"ErrReview", "ErrClosed", "ctx"}, UNCHANGED call,
             answer' = [op |-> op, res |-> err, doc |-> None, dirty |-> FALSE, everDirty |-> FALSE]
      PROVE  OwnerInv'
  <2>1. answer' \in Returned /\ answer'.res = err
    BY <1>4 DEF Returned, Outcomes
  <2>2. OwnerTypeOK'
    BY <1>1, <1>4, <2>1, Zenon DEF OwnerInv, OwnerTypeOK, Live
  <2>3. CallInv' /\ WatchInv' /\ FenceInv'
    BY <1>1, <1>4 DEF OwnerInv, CallInv, WatchInv, FenceInv, Busy
  <2>4. BaselineInv' /\ LeaseInv' /\ AnswersTrue'
    BY <1>1, <1>4, <2>1 DEF OwnerInv, BaselineInv, LeaseInv, AnswersTrue, Live, Busy
  <2> QED BY <2>2, <2>3, <2>4 DEF OwnerInv
<1> QED BY <1>3, <1>4 DEF Begin

\* No call is in progress.
LEMMA IdleCall == Idle \in Calls /\ ~Idle.dirty
<1>1. 0 \in 0..MaxPublished
  BY OwnedAssumption
<1> QED BY <1>1, Zenon DEF Idle, Calls

\* Open starts only on a document that decodes, with no lease of an earlier owner.
LEMMA OwnedOpenKeeps ==
    ASSUME OwnerInv, OpenOwned
    PROVE  OwnerInv'
<1>1. /\ ~Busy /\ life # "live" /\ UNCHANGED <<current, stamp, cancelled, foreign, closeFailed, leases>>
      /\ answer \in Returned
  BY DEF OwnerInv, OwnerTypeOK, OpenOwned, ownVars
<1>2. Live = {} /\ Live' = {}
  BY <1>1 DEF OwnerInv, LeaseInv, Live
<1>3. CASE current = Bad
  <2>1. UNCHANGED <<queue, life, review, baseline, call, pub, wrote, tainted, everTainted>>
    BY <1>3 DEF OpenOwned, ownVars
  <2>2. answer' \in Returned /\ answer'.op = "Open" /\ answer'.res = "ErrInvalid"
    BY <1>1, <1>3, Zenon DEF OpenOwned, Returned, Outcomes, Ops
  <2>3. OwnerTypeOK'
    BY <1>1, <2>1, <2>2 DEF OwnerInv, OwnerTypeOK, Live
  <2>4. CallInv' /\ WatchInv' /\ FenceInv' /\ BaselineInv' /\ LeaseInv' /\ AnswersTrue'
    BY <1>1, <1>2, <2>1, <2>2 DEF OwnerInv, CallInv, WatchInv, FenceInv, BaselineInv, LeaseInv, AnswersTrue, Busy
  <2> QED BY <2>3, <2>4 DEF OwnerInv
<1>4. CASE current # Bad
  <2>1. /\ queue' = FALSE /\ tainted' = FALSE /\ everTainted' = FALSE /\ life' = "live" /\ review' = FALSE
        /\ baseline' = None /\ wrote' = FALSE /\ pub' = None
        /\ call' = [Idle EXCEPT !.op = "Open", !.phase = "quiet"]
        /\ answer' = [answer EXCEPT !.op = "-", !.res = "-", !.doc = None]
    BY <1>4 DEF OpenOwned
  <2>2. call' \in Calls /\ call'.op = "Open" /\ call'.phase = "quiet" /\ ~call'.dirty
    BY <2>1, IdleCall, Zenon DEF Calls, Phases, Ops
  <2>3. answer' \in Returned /\ answer'.op = "-" /\ answer'.res = "-"
    BY <1>1, <2>1, Zenon DEF Returned, Outcomes
  <2>4. OwnerTypeOK'
    BY <1>1, <1>2, <2>1, <2>2, <2>3, Zenon DEF OwnerInv, OwnerTypeOK, Live
  <2>5. CallInv' /\ WatchInv' /\ FenceInv' /\ BaselineInv' /\ LeaseInv' /\ AnswersTrue'
    BY <1>2, <2>1, <2>2, <2>3
       DEF CallInv, WatchInv, FenceInv, BaselineInv, LeaseInv, AnswersTrue, Busy, Ops, Phases
  <2> QED BY <2>4, <2>5 DEF OwnerInv
<1> QED BY <1>3, <1>4

\* Release and Close: the owner is closed only once nothing is leased.
LEMMA LeavingKeeps ==
    ASSUME OwnerInv, CloseOwned \/ \E l \in Lease : Release(l)
    PROVE  OwnerInv'
<1>1. /\ ~Busy /\ UNCHANGED <<dirVars, baseline, call, cancelled, answer, history>>
  BY DEF CloseOwned, Release
<1>2. UNCHANGED <<current, stamp, queue, baseline, call, cancelled, answer, pub, wrote, tainted, everTainted, foreign>>
  BY <1>1 DEF dirVars, history
<1>3. CASE CloseOwned
  <2>1. UNCHANGED leases /\ (life' = "live" => UNCHANGED <<life, review>>) /\ (life' # life => Live = {})
    BY <1>3 DEF CloseOwned
  <2>2. life' \in {"none", "live", "closed"} /\ review' \in BOOLEAN /\ closeFailed' \in BOOLEAN
    <3>1. CASE UNCHANGED <<life, review, closeFailed>>
      BY <3>1 DEF OwnerInv, OwnerTypeOK
    <3>2. CASE life' = "closed" /\ closeFailed' \in BOOLEAN /\ review' \in BOOLEAN
      BY <3>2
    <3> QED BY <1>3, <3>1, <3>2, Zenon DEF CloseOwned
  <2>3. OwnerTypeOK'
    BY <1>2, <2>1, <2>2 DEF OwnerInv, OwnerTypeOK, Live
  <2>4. CallInv' /\ WatchInv' /\ FenceInv' /\ AnswersTrue'
    BY <1>1, <1>2 DEF OwnerInv, CallInv, WatchInv, FenceInv, AnswersTrue, Busy
  <2>5. BaselineInv' /\ LeaseInv'
    BY <1>1, <1>2, <2>1 DEF OwnerInv, BaselineInv, LeaseInv, Busy, Live
  <2> QED BY <2>3, <2>4, <2>5 DEF OwnerInv
<1>4. ASSUME NEW l \in Lease, Release(l)
      PROVE  OwnerInv'
  <2>1. UNCHANGED <<life, review, closeFailed>> /\ leases' = [leases EXCEPT ![l] = 0]
    BY <1>4 DEF Release
  <2>2. leases \in [Lease -> 0..MaxPublished] /\ leases' \in [Lease -> 0..MaxPublished]
    BY <2>1, OwnedAssumption DEF OwnerInv, OwnerTypeOK
  <2>3. Live' \subseteq Live /\ \A k \in Live' : leases'[k] = leases[k]
    BY <2>1, <2>2 DEF Live
  <2>4. Cardinality(Live') <= maxPolicyLeases
    <3>1. IsFiniteSet(Live)
      BY FS_Subset, OwnedAssumption DEF Live
    <3>2. IsFiniteSet(Live') /\ Cardinality(Live') <= Cardinality(Live)
      BY <2>3, <3>1, FS_Subset
    <3>3. Cardinality(Live) \in Nat /\ Cardinality(Live') \in Nat
      BY <3>1, <3>2, FS_CardinalityType
    <3> QED BY <3>2, <3>3, OwnedAssumption DEF OwnerInv, OwnerTypeOK
  <2>5. OwnerTypeOK'
    BY <1>2, <2>1, <2>2, <2>4 DEF OwnerInv, OwnerTypeOK
  <2>6. CallInv' /\ WatchInv' /\ FenceInv' /\ AnswersTrue'
    BY <1>1, <1>2 DEF OwnerInv, CallInv, WatchInv, FenceInv, AnswersTrue, Busy
  <2>7. BaselineInv' /\ LeaseInv'
    BY <1>1, <1>2, <2>1, <2>3 DEF OwnerInv, BaselineInv, LeaseInv, Busy
  <2> QED BY <2>5, <2>6, <2>7 DEF OwnerInv
<1> QED BY <1>3, <1>4

\* Another program's change reaches the watch of a live owner, whatever it does
\* to the document and to the timestamps.
LEMMA EnvironmentKeeps ==
    ASSUME OwnerInv, Foreign \/ Cancel
    PROVE  OwnerInv'
<1>1. UNCHANGED <<life, review, closeFailed, baseline, leases, call, answer, pub, wrote>>
  BY DEF Foreign, Cancel, dirVars, ownVars, history
<1>2. /\ current' \in Policies \cup {None, Bad} /\ stamp' \in Nat /\ cancelled' \in BOOLEAN
      /\ foreign' \in 0..MaxForeign
      /\ queue' \in BOOLEAN /\ tainted' \in BOOLEAN /\ everTainted' \in BOOLEAN
      /\ tainted' => queue'
      /\ Busy /\ queue => queue'
  <2>1. CASE Cancel
    BY <2>1 DEF OwnerInv, OwnerTypeOK, WatchInv, Cancel, dirVars, history
  <2>2. CASE Foreign
    <3>1. current' \in Policies \cup {None, Bad} /\ stamp' \in Nat /\ cancelled' = cancelled /\ foreign' \in 0..MaxForeign
      BY <2>2, OwnedAssumption DEF OwnerInv, OwnerTypeOK, Foreign
    <3>2. Busy => life = "live"
      BY DEF OwnerInv, CallInv
    <3> QED BY <2>2, <3>1, <3>2 DEF OwnerInv, OwnerTypeOK, Foreign
  <2> QED BY <2>1, <2>2
<1>3. OwnerTypeOK'
  BY <1>1, <1>2 DEF OwnerInv, OwnerTypeOK, Live
<1>4. CallInv' /\ FenceInv' /\ BaselineInv' /\ LeaseInv' /\ AnswersTrue'
  BY <1>1 DEF OwnerInv, CallInv, FenceInv, BaselineInv, LeaseInv, AnswersTrue, Busy, Live
<1>5. WatchInv'
  BY <1>1, <1>2 DEF OwnerInv, WatchInv, Busy
<1> QED BY <1>3, <1>4, <1>5 DEF OwnerInv

-----------------------------------------------------------------------------
\* The invariant holds before the first Open.
LEMMA OwnerInitEstablishes ==
    ASSUME OwnerInit
    PROVE  OwnerInv
<1>1. Live = {} /\ ~Busy
  BY DEF OwnerInit, Live, Busy, Idle
<1>2. Cardinality(Live) <= maxPolicyLeases
  BY <1>1, FS_EmptySet, OwnedAssumption
<1>3. call \in Calls /\ answer \in Returned
  <2>1. call \in Calls
    BY IdleCall, Zenon DEF OwnerInit
  <2>2. answer \in Returned
    BY Zenon DEF OwnerInit, Returned, Outcomes
  <2> QED BY <2>1, <2>2
<1>4. OwnerTypeOK
  <2>1. leases \in [Lease -> 0..MaxPublished] /\ stamp \in Nat /\ foreign \in 0..MaxForeign
    BY OwnedAssumption DEF OwnerInit
  <2>2. /\ queue \in BOOLEAN /\ review \in BOOLEAN /\ closeFailed \in BOOLEAN /\ cancelled \in BOOLEAN
        /\ wrote \in BOOLEAN /\ tainted \in BOOLEAN /\ everTainted \in BOOLEAN
    BY Zenon DEF OwnerInit
  <2>3. /\ current \in Policies \cup {None, Bad} /\ life \in {"none", "live", "closed"} /\ pub \in Policies \cup {None}
        /\ baseline \in [doc : Policies, stamp : Nat] \cup {None}
    BY DEF OwnerInit
  <2> QED BY <1>2, <1>3, <2>1, <2>2, <2>3 DEF OwnerTypeOK
<1> QED BY <1>1, <1>4 DEF OwnerInit, OwnerInv, CallInv, WatchInv, FenceInv, BaselineInv, LeaseInv, AnswersTrue

\* Every step keeps it.
LEMMA OwnerNextKeeps ==
    ASSUME OwnerInv, [OwnerNext]_ownerVars
    PROVE  OwnerInv'
<1>1. CASE Snapshot \/ \E r \in 1..MaxPublished : Acquire(r)
  BY <1>1, BeginKeeps, OwnedAssumption DEF Snapshot, Acquire, Ops
<1>2. CASE \E l \in Lease : LeaseSnapshot(l)
  BY <1>2, BeginKeeps, OwnedAssumption DEF LeaseSnapshot, Ops
<1>3. CASE \E r \in 0..MaxPublished, d \in Policies : CommitOwned(r, d)
  BY <1>3, BeginKeeps DEF CommitOwned, Ops
<1>4. CASE OpenOwned
  BY <1>4, OwnedOpenKeeps
<1>5. CASE CloseOwned \/ \E l \in Lease : Release(l)
  BY <1>5, LeavingKeeps
<1>6. CASE CaptureFault \/ Quiet \/ Stat \/ Decode \/ Restat
  BY <1>6, CaptureKeeps
<1>7. CASE Quiet2
  BY <1>7, Quiet2Keeps
<1>8. CASE CompareRevision
  BY <1>8, CompareKeeps
<1>9. CASE Publish \/ PublishFails
  BY <1>9, PublishKeeps
<1>10. CASE NewEpoch
  BY <1>10, NewEpochKeeps
<1>11. CASE Foreign \/ Cancel
  BY <1>11, EnvironmentKeeps
<1>12. CASE UNCHANGED ownerVars
  <2>1. /\ current' = current /\ stamp' = stamp /\ queue' = queue /\ life' = life /\ review' = review
        /\ closeFailed' = closeFailed /\ baseline' = baseline /\ leases' = leases /\ call' = call
        /\ cancelled' = cancelled /\ answer' = answer /\ pub' = pub /\ wrote' = wrote /\ tainted' = tainted
        /\ everTainted' = everTainted /\ foreign' = foreign
    BY <1>12, Zenon DEF ownerVars, dirVars, ownVars, history
  <2>2. OwnerTypeOK'
    BY <2>1 DEF OwnerInv, OwnerTypeOK, Live
  <2>3. CallInv' /\ WatchInv'
    BY <2>1 DEF OwnerInv, CallInv, WatchInv, Busy
  <2>4. FenceInv' /\ BaselineInv' /\ LeaseInv'
    BY <2>1 DEF OwnerInv, FenceInv, BaselineInv, LeaseInv, Busy, Live
  <2>5. AnswersTrue'
    BY <2>1 DEF OwnerInv, AnswersTrue
  <2> QED BY <2>2, <2>3, <2>4, <2>5 DEF OwnerInv
<1> QED BY <1>1, <1>2, <1>3, <1>4, <1>5, <1>6, <1>7, <1>8, <1>9, <1>10, <1>11, <1>12 DEF OwnerNext

\* The owner keeps its inductive invariant, for any contents, leases, lease
\* limit and number of changes by other programs.
THEOREM OwnerInvariance == OwnerSpec => []OwnerInv
<1>1. OwnerInit => OwnerInv
  BY OwnerInitEstablishes
<1>2. OwnerInv /\ [OwnerNext]_ownerVars => OwnerInv'
  BY OwnerNextKeeps
<1> QED BY <1>1, <1>2, PTL DEF OwnerSpec

\* A live lease pins its revision and keeps the owner open.
THEOREM LeasePinsHolds == OwnerSpec => []LeasePins
<1>1. OwnerInv => LeasePins
  BY DEF OwnerInv, LeaseInv, LeasePins
<1> QED BY <1>1, OwnerInvariance, PTL

\* What a call of the owner answers is true, whatever other programs do to the
\* directory meanwhile.
THEOREM AnswersTrueHolds == OwnerSpec => []AnswersTrue
<1>1. OwnerInv => AnswersTrue
  BY DEF OwnerInv
<1> QED BY <1>1, OwnerInvariance, PTL

\* Every variable keeps its type, and the lease limit of Acquire is never exceeded.
THEOREM OwnerTypeCorrect == OwnerSpec => []OwnerTypeOK
<1>1. OwnerInv => OwnerTypeOK
  BY DEF OwnerInv
<1> QED BY <1>1, OwnerInvariance, PTL
=============================================================================

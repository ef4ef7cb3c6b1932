----------------------------- MODULE AuthProofs -----------------------------
(***************************************************************************)
(* The safety properties of Auth for any number of requests at a time, any *)
(* tokens and passwords, any session limit and any largest revision.       *)
(***************************************************************************)
EXTENDS Auth, FiniteSetTheorems, WellFoundedInduction, TLAPS

\* The account mutex is held over a step by a setup that is about to store and
\* by a password change that has revoked the sessions, and by nobody else.
MutexInv == \A r \in Reqs : mu = r <=> req[r].pc \in {"setupStore", "changeStore"}

\* A setup stores over no account; a password change stores over one that has a
\* next revision, after every session and every login of its epoch is gone.
HolderInv ==
    \A r \in Reqs :
        /\ At(r, "setupStore") => account = None
        /\ At(r, "changeStore") =>
              /\ account \in Accounts /\ account.rev < MaxRevision
              /\ DOMAIN sessions = {}
              /\ \A q \in Reqs : At(q, "issue") => req[q].epoch # epoch

\* What the requests carry from one step to the next.
CarriedInv ==
    \A r \in Reqs :
        /\ req[r].pc \in {"setup", "setupStore"} => req[r].pw \in Passwords
        /\ req[r].pc \in {"change", "changeAdmit", "changeSlot", "changeVerify", "changeCommit", "changeStore"} =>
              req[r].new \in Passwords
        /\ At(r, "changeCommit") => req[r].snap \in Accounts /\ req[r].snap.rev < MaxRevision

\* A request that a revocation overtook holds an epoch that is over, and one
\* that may still issue a session has read the account as it is now.
EpochInv ==
    \A r \in Reqs :
        /\ req[r].overtaken => req[r].epoch # epoch
        /\ At(r, "issue") /\ req[r].epoch = epoch => account \in Accounts /\ req[r].snap = account

\* A request that came after the store failed never gets past its first look at
\* the account.
LateInv ==
    \A r \in Reqs : req[r].late =>
        /\ failure \/ ~open
        /\ req[r].pc \in {"login", "setup", "change", "changeAdmit", "authorize", "done"}
        /\ req[r].res # "ok"

\* Only a password change about to store, or answered, has revoked the sessions.
RevokedInv ==
    \A r \in Reqs :
        /\ req[r].revoked => req[r].pc \in {"changeStore", "done"}
        /\ req[r].revoked /\ At(r, "done") => req[r].res = "ok" \/ failure

SessionsInv ==
    /\ IsFiniteSet(DOMAIN sessions)
    /\ NoStaleSession

IInv == TypeOK /\ MutexInv /\ HolderInv /\ CarriedInv /\ EpochInv /\ LateInv /\ RevokedInv /\ SessionsInv

-----------------------------------------------------------------------------
\* A nonempty set of numbers has the smallest element Min stands for.
LEMMA MinIsMember ==
    ASSUME NEW S \in SUBSET Nat, S # {}
    PROVE  Min(S) \in S
<1> DEFINE less == OpToRel(<, Nat)
<1>1. \A x, y \in Nat : y < x => <<y, x>> \in less
  BY DEF OpToRel
<1>2. IsWellFoundedOn(less, Nat)
  BY NatLessThanWellFounded, Zenon
<1> HIDE DEF less
<1>3. PICK x \in S : \A y \in S : ~(<<y, x>> \in less)
  BY <1>2, WFMin, Zenon
<1>4. ASSUME NEW y \in S PROVE x =< y
  <2>1. x \in Nat /\ y \in Nat
    OBVIOUS
  <2>2. ~(y < x)
    BY <1>1, <1>3, <2>1, Zenon
  <2> QED BY <2>1, <2>2
<1> QED BY <1>4, Zenon DEF Min

\* There are more epochs than requests to hold one: RevokeAll always finds an
\* epoch that nobody holds.
LEMMA FreshEpoch ==
    ASSUME TypeOK
    PROVE  LET held == {req[p].epoch : p \in Reqs}
           IN  Min(Epochs \ held) \in Epochs \ held
<1> DEFINE held == {req[p].epoch : p \in Reqs}
           n == Cardinality(Reqs)
           hold == [p \in Reqs |-> req[p].epoch]
<1>1. IsFiniteSet(Reqs) /\ n \in Nat
  BY ConstantsAssumption, FS_CardinalityType
<1>2. IsFiniteSet(held) /\ Cardinality(held) <= n /\ Cardinality(held) \in Nat
  <2>1. hold \in Surjection(Reqs, held)
    BY DEF Surjection
  <2> HIDE DEF held, hold
  <2>2. IsFiniteSet(held) /\ Cardinality(held) <= n
    BY <1>1, <2>1, FS_Surjection
  <2> QED BY <2>2, FS_CardinalityType
<1>3. Cardinality(Epochs) = n + 1
  BY <1>1, FS_Interval DEF Epochs
<1>4. ~(Epochs \subseteq held)
  <2> HIDE DEF held
  <2>1. Epochs \subseteq held => Cardinality(Epochs) <= Cardinality(held)
    BY <1>2, FS_Subset
  <2> HIDE DEF n
  <2> QED BY <1>1, <1>2, <1>3, <2>1
<1>5. Epochs \ held \in SUBSET Nat
  BY <1>1 DEF Epochs
<1> QED BY <1>4, <1>5, MinIsMember, Zenon

-----------------------------------------------------------------------------
(* Most handler steps move one request, may mark the store configured or   *)
(* failed, may drop sessions, and leave the account, the epoch and the     *)
(* mutex alone.  They keep the invariant if the request still fits.        *)

\* What the invariant asks of a request that does not hold the mutex.
Fits(q) ==
    /\ q \in Requests /\ q.pc \notin {"setupStore", "changeStore"}
    /\ q.pc = "setup" => q.pw \in Passwords
    /\ q.pc \in {"change", "changeAdmit", "changeSlot", "changeVerify", "changeCommit"} => q.new \in Passwords
    /\ q.pc = "changeCommit" => q.snap \in Accounts /\ q.snap.rev < MaxRevision
    /\ q.overtaken => q.epoch # epoch
    /\ q.pc = "issue" => mu = None /\ (q.epoch = epoch => account \in Accounts /\ q.snap = account)
    /\ q.late => /\ failure \/ ~open
                 /\ q.pc \in {"login", "setup", "change", "changeAdmit", "authorize", "done"}
                 /\ q.res # "ok"
    /\ q.revoked => q.pc = "done" /\ (q.res = "ok" \/ failure)

\* Steps that change no account or epoch and only drop sessions keep the invariant.
LEMMA QuietKeeps ==
    ASSUME IInv, NEW r \in Reqs, NEW q, NEW ts,
           req[r].pc \notin {"setupStore", "changeStore"}, Fits(q),
           req' = [req EXCEPT ![r] = q], sessions' = Without(ts) \/ sessions' = sessions,
           UNCHANGED <<account, epoch, mu, open, present>>,
           failure' \in BOOLEAN, failure => failure', seen' \in BOOLEAN, slot' \in Reqs \cup {None}
    PROVE  IInv'
<1>1. /\ DOMAIN sessions' \subseteq DOMAIN sessions
      /\ \A t \in DOMAIN sessions' : sessions'[t] = sessions[t]
  BY DEF Without, Restrict
<1>2. TypeOK' /\ SessionsInv'
  <2>1. IsFiniteSet(DOMAIN sessions') /\ Cardinality(DOMAIN sessions') <= Cardinality(DOMAIN sessions)
    BY <1>1, FS_Subset DEF IInv, SessionsInv
  <2>2. Cardinality(DOMAIN sessions') \in Nat /\ Cardinality(DOMAIN sessions) \in Nat
    BY <2>1, FS_CardinalityType DEF IInv, SessionsInv
  <2>3. Cardinality(DOMAIN sessions') <= maximumSessions
    BY <2>1, <2>2, ConstantsAssumption DEF IInv, TypeOK
  <2>4. req' \in [Reqs -> Requests]
    BY DEF IInv, TypeOK, Fits
  <2> QED BY <1>1, <2>1, <2>3, <2>4 DEF IInv, TypeOK, SessionsInv, NoStaleSession
<1>3. req'[r] = q /\ \A p \in Reqs : p # r => req'[p] = req[p]
  BY DEF IInv, TypeOK
<1>4. MutexInv'
  BY <1>3 DEF IInv, MutexInv, Fits
<1>5. HolderInv'
  <2> SUFFICES ASSUME NEW p \in Reqs, req'[p].pc \in {"setupStore", "changeStore"}
               PROVE  /\ req'[p].pc = "setupStore" => account' = None
                      /\ req'[p].pc = "changeStore" =>
                            /\ account' \in Accounts /\ account'.rev < MaxRevision
                            /\ DOMAIN sessions' = {}
                            /\ \A o \in Reqs : req'[o].pc = "issue" => req'[o].epoch # epoch'
    BY DEF HolderInv, At
  <2>1. p # r /\ req'[p] = req[p]
    BY <1>3 DEF Fits
  <2>2. mu # None
    BY <2>1, ConstantsAssumption DEF IInv, MutexInv
  <2>3. q.pc # "issue"
    BY <2>2 DEF Fits
  <2> QED BY <1>1, <1>3, <2>1, <2>3, Zenon DEF IInv, HolderInv, At
<1>6. CarriedInv' /\ EpochInv'
  BY <1>3 DEF IInv, CarriedInv, EpochInv, Fits, At
<1>7. LateInv' /\ RevokedInv'
  BY <1>3 DEF IInv, LateInv, RevokedInv, Fits, At
<1> QED BY <1>2, <1>4, <1>5, <1>6, <1>7 DEF IInv

\* LoadEffect only ever marks the store, as configured or as failed.
LEMMA LoadMarks ==
    ASSUME IInv, LoadEffect
    PROVE  /\ UNCHANGED <<account, present, open>>
           /\ failure' \in BOOLEAN /\ seen' \in BOOLEAN /\ (failure => failure')
BY DEF IInv, TypeOK, LoadEffect

\* A request that fits still does once it is answered, unless it is late and the
\* answer is ok.
LEMMA AnsweredFits ==
    ASSUME IInv, NEW r \in Reqs, NEW res \in Results, req[r].late => res # "ok",
           req[r].revoked => res = "ok" \/ failure
    PROVE  Fits(Answered(req[r], res))
<1>1. req[r] \in Requests
  BY DEF IInv, TypeOK
<1>2. Answered(req[r], res) \in Requests
  BY <1>1, Zenon DEF Answered, NoReq, Requests, Phases, Results
<1> QED BY <1>1, <1>2 DEF Fits, Answered, NoReq, IInv, LateInv, Requests

\* Requests that arrive, and those that are answered and gone.
LEMMA BeginKeeps ==
    ASSUME IInv, NEW r \in Reqs, Begins(r) \/ Finish(r)
    PROVE  IInv'
<1>1. NoReq \in Requests
  BY DEF NoReq, Requests, Phases, Results
<1>2. CASE Finish(r)
  <2>1. Fits(NoReq)
    BY <1>1 DEF Fits, NoReq
  <2> QED BY <1>2, <2>1, QuietKeeps, Zenon DEF Finish, At, acct, sess, IInv, TypeOK
<1>3. ASSUME NEW pc \in {"login", "setup", "change", "logout", "logoutAll", "authorize"},
             NEW t \in Cookies, NEW pw \in Passwords \cup {None}, NEW new \in Passwords \cup {None},
             pc = "setup" => pw \in Passwords, pc = "change" => new \in Passwords,
             Begin(r, pc, t, pw, new)
      PROVE  IInv'
  <2> DEFINE late == (failure \/ ~open) /\ pc \notin {"logout", "logoutAll"}
             taken == IF pc \in {"login", "setup"} THEN epoch ELSE None
             q == [NoReq EXCEPT !.pc = pc, !.token = t, !.pw = pw, !.new = new,
                                !.epoch = taken, !.late = late]
  <2>0. late \in BOOLEAN /\ taken \in Epochs \cup {None} /\ (late => failure \/ ~open)
        /\ (late => pc \notin {"logout", "logoutAll"})
    BY DEF IInv, TypeOK
  <2>3. req' = [req EXCEPT ![r] = q]
    BY <1>3 DEF Begin
  <2> HIDE DEF late, taken
  <2>1. q \in Requests
    BY <1>1, <2>0, Zenon DEF NoReq, Requests, Phases, Results, Cookies
  <2>2. Fits(q)
    BY <1>3, <2>0, <2>1 DEF Fits, NoReq
  <2> HIDE DEF q
  <2> QED BY <1>3, <2>2, <2>3, QuietKeeps, Zenon DEF Begin, At, acct, sess, IInv, TypeOK
<1> QED BY <1>2, <1>3, ConstantsAssumption
        DEF Begins, BeginLogin, BeginSetup, BeginChange, BeginLogout, BeginLogoutAll, BeginAuthorize

\* A step that moves a request on, after a look at the account or without one.
LEMMA MoveKeeps ==
    ASSUME IInv, NEW r \in Reqs, NEW q, NEW ts, Fits(q), req' = [req EXCEPT ![r] = q],
           req[r].pc \notin {"setupStore", "changeStore"}, LoadEffect \/ UNCHANGED acct,
           sessions' = Without(ts) \/ sessions' = sessions,
           UNCHANGED <<epoch, mu>>, slot' \in Reqs \cup {None}
    PROVE  IInv'
<1>1. /\ UNCHANGED <<account, present, open>>
      /\ failure' \in BOOLEAN /\ seen' \in BOOLEAN /\ (failure => failure')
  BY LoadMarks DEF acct, IInv, TypeOK
<1> QED BY <1>1, QuietKeeps, Zenon

\* One that answers it.
LEMMA AnswerKeeps ==
    ASSUME IInv, NEW r \in Reqs, NEW ts, NEW res \in Results, Done(r, res), req[r].late => res # "ok",
           req[r].pc \notin {"setupStore", "changeStore", "done"}, LoadEffect \/ UNCHANGED acct,
           sessions' = Without(ts) \/ sessions' = sessions,
           UNCHANGED <<epoch, mu>>, slot' \in Reqs \cup {None}
    PROVE  IInv'
<1>1. ~req[r].revoked
  BY DEF IInv, RevokedInv
<1>2. Fits(Answered(req[r], res))
  BY <1>1, AnsweredFits
<1>3. req' = [req EXCEPT ![r] = Answered(req[r], res)]
  BY DEF Done
<1> QED BY <1>2, <1>3, MoveKeeps, Zenon

\* A look at the account that succeeds: there is one, and the store works.
LEMMA LoadsOk ==
    ASSUME IInv, Loads = "ok"
    PROVE  account \in Accounts /\ ~failure /\ open
BY DEF IInv, TypeOK, Loads

\* The two looks of a login at the account: it goes on to issue a session only
\* with the account as it is.
LEMMA LoginKeeps ==
    ASSUME IInv, NEW r \in Reqs, LoginLoad(r) \/ LoginVerify(r)
    PROVE  IInv'
<1>1. req[r] \in Requests /\ req[r].pc \in {"login", "loginVerify"} /\ ~req[r].revoked
      /\ UNCHANGED <<epoch, mu, slot, sessions>> /\ slot \in Reqs \cup {None}
  BY DEF IInv, TypeOK, RevokedInv, LoginLoad, LoginVerify, At, sess
<1>2. ASSUME NEW res \in Results \ {"ok"}, Done(r, res), LoadEffect \/ UNCHANGED acct
      PROVE  IInv'
  BY <1>1, <1>2, AnswerKeeps
<1>4. CASE LoginLoad(r) /\ Loads = "ok"
  <2> DEFINE q == [req[r] EXCEPT !.pc = "loginVerify", !.snap = account]
  <2>1. account \in Accounts /\ ~failure /\ open
    BY <1>4, LoadsOk
  <2>2. q \in Requests
    BY <1>1, <2>1, Zenon DEF Requests, Phases
  <2>3. Fits(q)
    BY <1>1, <2>1, <2>2 DEF Fits, IInv, EpochInv, LateInv, Requests
  <2>4. req' = [req EXCEPT ![r] = q] /\ LoadEffect
    BY <1>4, Zenon DEF LoginLoad
  <2> QED BY <1>1, <2>3, <2>4, MoveKeeps, Zenon
<1>5. CASE LoginVerify(r) /\ Loads = "ok" /\ LoadEffect /\ account = req[r].snap /\ mu = None
           /\ req' = [req EXCEPT ![r].pc = "issue", ![r].pw = None]
  <2> DEFINE q == [req[r] EXCEPT !.pc = "issue", !.pw = None]
  <2>1. account \in Accounts /\ ~failure /\ open
    BY <1>5, LoadsOk
  <2>2. q \in Requests
    BY <1>1, <2>1, Zenon DEF Requests, Phases
  <2>3. Fits(q)
    BY <1>1, <1>5, <2>1, <2>2 DEF Fits, IInv, EpochInv, LateInv, Requests
  <2>4. req' = [req EXCEPT ![r] = q]
    BY <1>5, Zenon
  <2> QED BY <1>1, <1>5, <2>3, <2>4, MoveKeeps, Zenon
<1> QED BY <1>2, <1>4, <1>5 DEF LoginLoad, LoginVerify, Results

\* The early steps of a password change, and its ways out.
LEMMA ChangeKeeps ==
    ASSUME IInv, NEW r \in Reqs, ChangeFind(r) \/ ChangeAdmit(r) \/ ChangeSlot(r) \/ ChangeVerify(r)
    PROVE  IInv'
<1>1. req[r] \in Requests /\ req[r].pc \in {"change", "changeAdmit", "changeSlot", "changeVerify"}
      /\ UNCHANGED <<epoch, mu>> /\ slot' \in Reqs \cup {None} /\ (LoadEffect \/ UNCHANGED acct)
      /\ (sessions' = Without({req[r].token} \cap Expired) \/ sessions' = sessions)
  BY DEF IInv, TypeOK, ChangeFind, ChangeAdmit, ChangeSlot, ChangeVerify, GiveUp, At, sess, Find
<1>2. ASSUME NEW res \in Results \ {"ok"}, Done(r, res)
      PROVE  IInv'
  BY <1>1, <1>2, AnswerKeeps
<1>3. ASSUME NEW p \in {"changeAdmit", "changeSlot", "changeVerify"}, Goto(r, p),
             p # "changeAdmit" => ~req[r].late
      PROVE  IInv'
  <2> DEFINE q == [req[r] EXCEPT !.pc = p]
  <2>1. q \in Requests
    BY <1>1 DEF Requests, Phases
  <2>2. Fits(q)
    BY <1>1, <1>3, <2>1 DEF Fits, IInv, EpochInv, LateInv, RevokedInv, CarriedInv, Requests
  <2>3. req' = [req EXCEPT ![r] = q]
    BY <1>3 DEF Goto
  <2> QED BY <1>1, <2>2, <2>3, MoveKeeps, Zenon
<1>4. CASE ChangeVerify(r) /\ Loads = "ok" /\ account.rev < MaxRevision
           /\ req' = [req EXCEPT ![r].pc = "changeCommit", ![r].pw = None, ![r].snap = account]
  <2> DEFINE q == [req[r] EXCEPT !.pc = "changeCommit", !.pw = None, !.snap = account]
  <2>1. account \in Accounts /\ ~failure /\ open
    BY <1>4, LoadsOk
  <2>2. q \in Requests
    BY <1>1, <2>1, Zenon DEF Requests, Phases
  <2>3. Fits(q)
    BY <1>1, <1>4, <2>1, <2>2 DEF Fits, IInv, EpochInv, LateInv, RevokedInv, CarriedInv, Requests
  <2>4. req' = [req EXCEPT ![r] = q]
    BY <1>4, Zenon
  <2> QED BY <1>1, <2>3, <2>4, MoveKeeps, Zenon
<1>5. CASE ChangeFind(r)
  BY <1>2, <1>3, <1>5 DEF ChangeFind, Results
<1>6. CASE ChangeAdmit(r)
  BY <1>2, <1>3, <1>6, LoadsOk DEF ChangeAdmit, Results, IInv, LateInv
<1>7. CASE ChangeSlot(r)
  BY <1>2, <1>3, <1>7 DEF ChangeSlot, Results, IInv, LateInv, At
<1>8. CASE ChangeVerify(r)
  BY <1>2, <1>4, <1>8, LoadsOk, ConstantsAssumption DEF ChangeVerify, GiveUp, Results, Accounts
<1> QED BY <1>5, <1>6, <1>7, <1>8

\* Logging out of one session, and the check in front of every other page.
LEMMA OtherHandlersKeep ==
    ASSUME IInv, NEW r \in Reqs,
           LogoutFind(r) \/ LogoutRevoke(r) \/ AuthorizeLoad(r) \/ AuthorizeFind(r)
    PROVE  IInv'
<1>1. req[r] \in Requests /\ req[r].pc \in {"logout", "logoutRevoke", "authorize", "authorizeFind"}
      /\ UNCHANGED <<epoch, mu>> /\ slot' \in Reqs \cup {None} /\ (LoadEffect \/ UNCHANGED acct)
      /\ \E ts : sessions' = Without(ts) \/ sessions' = sessions
  BY DEF IInv, TypeOK, LogoutFind, LogoutRevoke, AuthorizeLoad, AuthorizeFind, At, sess, Find
<1>2. req[r].late => At(r, "authorize")
  BY <1>1 DEF IInv, LateInv, At
<1>3. ASSUME NEW res \in Results, Done(r, res), req[r].late => res # "ok"
      PROVE  IInv'
  BY <1>1, <1>3, AnswerKeeps
<1>4. ASSUME NEW p \in {"logoutRevoke", "authorizeFind"}, Goto(r, p), ~req[r].late
      PROVE  IInv'
  <2> DEFINE q == [req[r] EXCEPT !.pc = p]
  <2>1. q \in Requests
    BY <1>1 DEF Requests, Phases
  <2>2. Fits(q)
    BY <1>1, <1>4, <2>1 DEF Fits, IInv, EpochInv, RevokedInv, Requests
  <2>3. req' = [req EXCEPT ![r] = q]
    BY <1>4 DEF Goto
  <2> QED BY <1>1, <2>2, <2>3, MoveKeeps, Zenon
<1>5. CASE LogoutFind(r)
  BY <1>2, <1>3, <1>4, <1>5 DEF LogoutFind, Results, At
<1>6. CASE LogoutRevoke(r)
  BY <1>2, <1>3, <1>6 DEF LogoutRevoke, Results, At
<1>7. CASE AuthorizeLoad(r)
  BY <1>3, <1>4, <1>7, LoadsOk DEF AuthorizeLoad, Results, IInv, LateInv
<1>8. CASE AuthorizeFind(r)
  BY <1>2, <1>3, <1>8 DEF AuthorizeFind, Results, At
<1> QED BY <1>5, <1>6, <1>7, <1>8

-----------------------------------------------------------------------------
\* The session a login issues is of its own epoch, hence of the account as it is
\* now, and there was room for it.
LEMMA IssueKeeps ==
    ASSUME IInv, NEW r \in Reqs, Issue(r)
    PROVE  IInv'
<1> DEFINE kept == Without({req[r].token} \cup Expired)
           session == [account |-> req[r].snap, expired |-> FALSE, overtaken |-> req[r].overtaken]
<1>1. req[r] \in Requests /\ At(r, "issue") /\ mu = None /\ LoadEffect
      /\ UNCHANGED <<epoch, mu, slot>> /\ slot \in Reqs \cup {None}
  BY DEF IInv, TypeOK, Issue
<1>2. ~req[r].late
  BY <1>1 DEF IInv, LateInv, At
<1>3. ASSUME NEW ts, Done(r, "unavailable"), sessions' = Without(ts) \/ sessions' = sessions
      PROVE  IInv'
  BY <1>1, <1>3, AnswerKeeps DEF At, Results
<1>4. ASSUME Loads = "ok", SameEpoch(r), HasRoom(DOMAIN kept), Done(r, "ok"), NEW t \in Tokens \ DOMAIN sessions,
             sessions' = [u \in DOMAIN kept \cup {t} |-> IF u = t THEN session ELSE kept[u]]
      PROVE  IInv'
  <2>1. account \in Accounts /\ req[r].snap = account /\ ~req[r].overtaken
    BY <1>1, <1>4 DEF IInv, EpochInv, SameEpoch
  <2>2. session \in Sessions
    BY <1>1, <2>1 DEF Sessions, Requests
  <2>3. DOMAIN kept \subseteq DOMAIN sessions /\ \A u \in DOMAIN kept : kept[u] = sessions[u]
    BY DEF Without, Restrict
  <2>4. DOMAIN sessions' = DOMAIN kept \cup {t}
    BY <1>4
  <2>5. \A u \in DOMAIN sessions' : sessions'[u] = session \/ (u \in DOMAIN sessions /\ sessions'[u] = sessions[u])
    BY <1>4, <2>3, Zenon
  <2>6. IsFiniteSet(DOMAIN sessions') /\ Cardinality(DOMAIN sessions') <= maximumSessions
    <3>1. IsFiniteSet(DOMAIN kept)
      BY <2>3, FS_Subset, Zenon DEF IInv, SessionsInv
    <3>2. Cardinality(DOMAIN kept) \in Nat /\ Cardinality(DOMAIN kept) < maximumSessions
      BY <1>4, <3>1, FS_CardinalityType DEF HasRoom
    <3>3. t \notin DOMAIN kept
      BY <2>3
    <3>4. IsFiniteSet(DOMAIN kept \cup {t}) /\ Cardinality(DOMAIN kept \cup {t}) = Cardinality(DOMAIN kept) + 1
      BY <3>1, <3>3, FS_AddElement, Zenon
    <3> QED BY <2>4, <3>2, <3>4, ConstantsAssumption
  <2> DEFINE q == Answered(req[r], "ok")
  <2>7. UNCHANGED <<account, present, open>> /\ failure' \in BOOLEAN /\ seen' \in BOOLEAN /\ (failure => failure')
    BY <1>1, LoadMarks
  <2>8. Fits(q)
    BY <1>1, <1>2, AnsweredFits DEF Results, IInv, RevokedInv, At
  <2>9. req' = [req EXCEPT ![r] = q]
    BY <1>4 DEF Done
  <2>10. q.pc = "done"
    BY DEF Answered, NoReq
  <2> HIDE DEF q, session, kept
  <2>11. req'[r] = q /\ \A p \in Reqs : p # r => req'[p] = req[p]
    BY <2>9 DEF IInv, TypeOK
  <2>12. TypeOK'
    <3>1. req' \in [Reqs -> Requests]
      BY <2>8, <2>9 DEF IInv, TypeOK, Fits
    <3> QED BY <1>1, <2>2, <2>3, <2>4, <2>5, <2>6, <2>7, <3>1 DEF IInv, TypeOK
  <2>13. MutexInv' /\ CarriedInv' /\ EpochInv'
    BY <1>1, <2>7, <2>8, <2>11 DEF IInv, MutexInv, CarriedInv, EpochInv, Fits, At
  <2>14. \A p \in Reqs : req'[p].pc \notin {"setupStore", "changeStore"}
    BY <1>1, <2>8, <2>11, ConstantsAssumption DEF IInv, MutexInv, Fits
  <2>15. HolderInv'
    BY <2>14 DEF HolderInv, At
  <2>16. LateInv' /\ RevokedInv'
    BY <2>7, <2>8, <2>11 DEF IInv, LateInv, RevokedInv, Fits, At
  <2>17. SessionsInv'
    BY <2>1, <2>5, <2>6, <2>7 DEF IInv, SessionsInv, NoStaleSession, session
  <2> QED BY <2>12, <2>13, <2>15, <2>16, <2>17 DEF IInv
<1> QED BY <1>3, <1>4, Zenon DEF Issue

\* A setup takes the mutex only where there is no account.
LEMMA SetupLoadKeeps ==
    ASSUME IInv, NEW r \in Reqs, SetupLoad(r)
    PROVE  IInv'
<1>1. req[r] \in Requests /\ At(r, "setup") /\ mu = None /\ LoadEffect
      /\ UNCHANGED <<epoch, sessions, slot>> /\ slot \in Reqs \cup {None}
  BY DEF IInv, TypeOK, SetupLoad, sess
<1>2. CASE Loads = "missing" /\ mu' = r /\ Goto(r, "setupStore")
  <2> DEFINE q == [req[r] EXCEPT !.pc = "setupStore"]
  <2>1. account = None /\ ~failure /\ open /\ ~req[r].late /\ ~req[r].revoked
    BY <1>1, <1>2 DEF Loads, IInv, LateInv, RevokedInv, At
  <2>2. q \in Requests
    BY <1>1 DEF Requests, Phases
  <2>3. UNCHANGED <<account, present, open>> /\ failure' \in BOOLEAN /\ seen' \in BOOLEAN /\ (failure => failure')
    BY <1>1, LoadMarks
  <2>4. req' = [req EXCEPT ![r] = q]
    BY <1>2 DEF Goto
  <2>5. req'[r] = q /\ \A p \in Reqs : p # r => req'[p] = req[p]
    BY <2>4 DEF IInv, TypeOK
  <2>6. TypeOK'
    BY <1>1, <1>2, <2>2, <2>3, <2>4 DEF IInv, TypeOK
  <2>7. MutexInv'
    BY <1>1, <1>2, <2>5, ConstantsAssumption DEF IInv, MutexInv, Requests
  <2>8. HolderInv'
    BY <1>1, <2>1, <2>3, <2>5, ConstantsAssumption DEF IInv, MutexInv, HolderInv, At, Requests
  <2>9. CarriedInv' /\ EpochInv'
    BY <1>1, <2>3, <2>5 DEF IInv, CarriedInv, EpochInv, At, Requests
  <2>10. LateInv' /\ RevokedInv'
    BY <1>1, <2>1, <2>3, <2>5 DEF IInv, LateInv, RevokedInv, At, Requests
  <2>11. SessionsInv'
    BY <1>1, <2>3 DEF IInv, SessionsInv, NoStaleSession
  <2> QED BY <2>6, <2>7, <2>8, <2>9, <2>10, <2>11 DEF IInv
<1>3. ASSUME NEW res \in {"conflict", "unavailable"}, Done(r, res), UNCHANGED mu
      PROVE  IInv'
  BY <1>1, <1>3, AnswerKeeps DEF At, Results
<1> QED BY <1>2, <1>3 DEF SetupLoad

\* Nobody has a session, or may still issue one in this epoch, before the first
\* account: storing it makes none of them stale.
LEMMA SetupStoreKeeps ==
    ASSUME IInv, NEW r \in Reqs, SetupStore(r)
    PROVE  IInv'
<1> DEFINE new == [rev |-> 1, pw |-> req[r].pw]
<1>1. req[r] \in Requests /\ At(r, "setupStore") /\ mu' = None /\ account = None
      /\ req[r].pw \in Passwords /\ UNCHANGED <<slot, sessions, epoch>>
  BY DEF IInv, TypeOK, HolderInv, CarriedInv, SetupStore, At, sess
<1>2. \A p \in Reqs : p # r => req[p].pc \notin {"setupStore", "changeStore"}
  BY <1>1 DEF IInv, MutexInv, At
<1>3. ~req[r].late /\ ~req[r].revoked
  BY <1>1 DEF IInv, LateInv, RevokedInv, At
<1>4. DOMAIN sessions = {} /\ \A p \in Reqs : At(p, "issue") => req[p].epoch # epoch
  BY <1>1, NoneIsNoAccount, SMTT(30) DEF IInv, TypeOK, SessionsInv, NoStaleSession, EpochInv, Sessions
<1>5. ASSUME NEW q, Fits(q)', req' = [req EXCEPT ![r] = q], account' \in Accounts \cup {None},
             failure' \in BOOLEAN, failure => failure', seen' \in BOOLEAN, UNCHANGED <<present, open>>
      PROVE  IInv'
  <2>1. req'[r] = q /\ \A p \in Reqs : p # r => req'[p] = req[p]
    BY <1>5 DEF IInv, TypeOK
  <2>2. req' \in [Reqs -> Requests]
    BY <1>5 DEF IInv, TypeOK, Fits
  <2>3. TypeOK'
    BY <1>1, <1>5, <2>2 DEF IInv, TypeOK
  <2>4. \A p \in Reqs : req'[p].pc \notin {"setupStore", "changeStore"}
    BY <1>2, <1>5, <2>1 DEF Fits
  <2>5. MutexInv' /\ HolderInv'
    BY <1>1, <2>4, ConstantsAssumption DEF MutexInv, HolderInv, At
  <2>6. CarriedInv' /\ EpochInv'
    BY <1>1, <1>4, <1>5, <2>1 DEF IInv, CarriedInv, EpochInv, Fits, At
  <2>7. LateInv' /\ RevokedInv'
    BY <1>5, <2>1 DEF IInv, LateInv, RevokedInv, Fits, At
  <2>8. SessionsInv'
    BY <1>1, <1>4 DEF IInv, SessionsInv, NoStaleSession
  <2> QED BY <2>3, <2>5, <2>6, <2>7, <2>8 DEF IInv
<1>6. new \in Accounts
  BY <1>1, ConstantsAssumption DEF Accounts
<1>7. CASE /\ Done(r, "unavailable") /\ account' \in {account, new} /\ (UNCHANGED failure \/ failure' = TRUE)
           /\ UNCHANGED <<present, seen, open>>
  <2>0. PICK q : q = Answered(req[r], "unavailable")
    OBVIOUS
  <2>1. q \in Requests
    BY <1>1, <2>0, Zenon DEF Answered, NoReq, Requests, Phases, Results
  <2>2. Fits(q)'
    BY <1>3, <2>0, <2>1 DEF Fits, Answered, NoReq
  <2>3. req' = [req EXCEPT ![r] = q]
    BY <1>7, <2>0 DEF Done
  <2>4. failure' \in BOOLEAN /\ (failure => failure') /\ seen' \in BOOLEAN
    <3>1. failure \in BOOLEAN /\ seen \in BOOLEAN
      BY DEF IInv, TypeOK
    <3>2. CASE UNCHANGED failure
      BY <1>7, <3>1, <3>2
    <3>3. CASE failure' = TRUE
      BY <1>7, <3>1, <3>3
    <3> QED BY <1>7, <3>2, <3>3, Zenon
  <2>5. account' \in Accounts \cup {None}
    BY <1>1, <1>6, <1>7
  <2> QED BY <1>5, <1>7, <2>2, <2>3, <2>4, <2>5, Zenon
<1>8. CASE account' = new /\ seen' = TRUE /\ UNCHANGED <<present, failure, open>>
           /\ req' = [req EXCEPT ![r].pc = "issue", ![r].pw = None, ![r].snap = new]
  <2>0. PICK q : q = [req[r] EXCEPT !.pc = "issue", !.pw = None, !.snap = new]
    OBVIOUS
  <2>1. q \in Requests
    BY <1>1, <1>6, <2>0, Zenon DEF Requests, Phases
  <2>2. Fits(q)'
    BY <1>1, <1>3, <1>6, <1>8, <2>0, <2>1 DEF Fits, IInv, EpochInv, Requests
  <2>3. req' = [req EXCEPT ![r] = q]
    BY <1>8, <2>0, Zenon
  <2> QED BY <1>5, <1>6, <1>8, <2>2, <2>3, Zenon DEF IInv, TypeOK
<1> QED BY <1>7, <1>8, Zenon DEF SetupStore, acct

\* A revocation ends every session and every epoch in use: whoever might have
\* issued a session for this account cannot any more.
LEMMA RevokeAllKeeps ==
    ASSUME IInv, NEW r \in Reqs, NEW q, RevokeAll(r, q), q \in Requests, q.epoch = None \/ q.epoch = req[r].epoch,
           q.pc # "issue"
    PROVE  /\ DOMAIN sessions' = {} /\ SessionsInv' /\ epoch' \in Epochs
           /\ req' \in [Reqs -> Requests] /\ req'[r] = q
           /\ \A p \in Reqs : p # r =>
                 /\ req'[p].pc = req[p].pc /\ req'[p].pw = req[p].pw /\ req'[p].new = req[p].new
                 /\ req'[p].epoch = req[p].epoch /\ req'[p].snap = req[p].snap /\ req'[p].res = req[p].res
                 /\ req'[p].late = req[p].late /\ req'[p].revoked = req[p].revoked
           /\ \A p \in Reqs : p # r => req'[p].epoch # epoch'
<1>1. epoch' \in Epochs /\ \A p \in Reqs : req[p].epoch # epoch'
  BY FreshEpoch, Zenon DEF RevokeAll, IInv
<1>2. DOMAIN sessions' = {} /\ SessionsInv'
  BY FS_EmptySet DEF RevokeAll, SessionsInv, NoStaleSession
<1>3. req \in [Reqs -> Requests]
  BY DEF IInv, TypeOK
<1>4. ASSUME NEW p \in Reqs, p # r
      PROVE  /\ req'[p] \in Requests
             /\ req'[p].pc = req[p].pc /\ req'[p].pw = req[p].pw /\ req'[p].new = req[p].new
             /\ req'[p].epoch = req[p].epoch /\ req'[p].snap = req[p].snap /\ req'[p].res = req[p].res
             /\ req'[p].late = req[p].late /\ req'[p].revoked = req[p].revoked
  <2>1. PICK b \in BOOLEAN : b = (req[p].overtaken \/ req[p].epoch # None)
    BY Zenon
  <2>2. req'[p] = [req[p] EXCEPT !.overtaken = b]
    BY <1>4, <2>1 DEF RevokeAll
  <2> QED BY <1>3, <2>2 DEF Requests
<1>5. req'[r] = q /\ req' \in [Reqs -> Requests]
  <2>1. req'[r] = q
    BY DEF RevokeAll
  <2>2. DOMAIN req' = Reqs /\ req' = [p \in Reqs |-> req'[p]]
    BY DEF RevokeAll
  <2> QED BY <1>4, <2>1, <2>2
<1> QED BY <1>1, <1>2, <1>4, <1>5

\* The end of a password change: the sessions are revoked under the mutex.
LEMMA ChangeCommitKeeps ==
    ASSUME IInv, NEW r \in Reqs, ChangeCommit(r)
    PROVE  IInv'
<1>1. req[r] \in Requests /\ At(r, "changeCommit")
  BY DEF IInv, TypeOK, ChangeCommit
<1>2. ASSUME NEW res \in {"unavailable", "conflict", "unauthorized"}, GiveUp(r, res),
             LoadEffect \/ UNCHANGED acct, UNCHANGED <<mu, sess>>
      PROVE  IInv'
  BY <1>1, <1>2, AnswerKeeps DEF GiveUp, At, Results, sess
<1>3. CASE /\ mu = None /\ LoadEffect /\ Loads = "ok" /\ account = req[r].snap
           /\ RevokeAll(r, [req[r] EXCEPT !.pc = "changeStore", !.revoked = TRUE])
           /\ mu' = r /\ UNCHANGED slot
  <2>0. PICK q : q = [req[r] EXCEPT !.pc = "changeStore", !.revoked = TRUE]
    OBVIOUS
  <2>1. account \in Accounts /\ account.rev < MaxRevision /\ req[r].new \in Passwords
    BY <1>1, <1>3 DEF IInv, CarriedInv, At
  <2>2. ~req[r].late
    BY <1>1 DEF IInv, LateInv, At
  <2>3. /\ q \in Requests /\ q.pc = "changeStore" /\ q.epoch = req[r].epoch /\ ~q.late
        /\ q.new = req[r].new /\ q.overtaken = req[r].overtaken /\ q.revoked
    BY <1>1, <2>0, <2>2, Zenon DEF Requests, Phases
  <2>4. RevokeAll(r, q)
    BY <1>3, <2>0
  <2>5. UNCHANGED <<account, present, open>> /\ failure' \in BOOLEAN /\ seen' \in BOOLEAN /\ (failure => failure')
    BY <1>3, LoadMarks
  <2>6. req[r].epoch # epoch'
    BY FreshEpoch, <2>4, Zenon DEF RevokeAll, IInv
  <2>7. DOMAIN sessions' = {} /\ SessionsInv' /\ epoch' \in Epochs /\ req' \in [Reqs -> Requests] /\ req'[r] = q
    BY <2>3, <2>4, RevokeAllKeeps
  <2>8. \A p \in Reqs : p # r =>
           /\ req'[p].pc = req[p].pc /\ req'[p].pw = req[p].pw /\ req'[p].new = req[p].new
           /\ req'[p].epoch = req[p].epoch /\ req'[p].snap = req[p].snap /\ req'[p].res = req[p].res
           /\ req'[p].late = req[p].late /\ req'[p].revoked = req[p].revoked
           /\ req'[p].epoch # epoch'
    BY <2>3, <2>4, RevokeAllKeeps
  <2>9. TypeOK'
    <3>1. Cardinality(DOMAIN sessions') <= maximumSessions
      BY <2>7, FS_EmptySet, ConstantsAssumption
    <3> QED BY <1>3, <2>5, <2>7, <3>1 DEF IInv, TypeOK
  <2>10. MutexInv'
    BY <1>3, <2>3, <2>7, <2>8, ConstantsAssumption DEF IInv, MutexInv
  <2>11. HolderInv'
    BY <1>3, <2>1, <2>3, <2>5, <2>7, <2>8, ConstantsAssumption DEF IInv, MutexInv, HolderInv, At
  <2>12. CarriedInv'
    BY <2>1, <2>3, <2>7, <2>8 DEF IInv, CarriedInv, At
  <2>13. EpochInv'
    BY <2>3, <2>6, <2>7, <2>8 DEF EpochInv, At
  <2>14. LateInv' /\ RevokedInv'
    BY <2>3, <2>5, <2>7, <2>8 DEF IInv, LateInv, RevokedInv, At
  <2> QED BY <2>7, <2>9, <2>10, <2>11, <2>12, <2>13, <2>14 DEF IInv
<1> QED BY <1>2, <1>3 DEF ChangeCommit

\* Logging everybody out.
LEMMA LogoutAllKeeps ==
    ASSUME IInv, NEW r \in Reqs, LogoutAll(r)
    PROVE  IInv'
<1>1. /\ req[r] \in Requests /\ At(r, "logoutAll") /\ UNCHANGED <<account, present, seen, failure, open, mu, slot>>
      /\ ~req[r].late /\ ~req[r].revoked
  BY DEF IInv, TypeOK, LogoutAll, acct, LateInv, RevokedInv, At
<1>2. CASE Done(r, "unauthorized") /\ UNCHANGED sess
  BY <1>1, <1>2, AnswerKeeps DEF At, Results, sess, acct, IInv, TypeOK
<1>3. CASE RevokeAll(r, Answered(req[r], "ok"))
  <2>0. PICK q : q = Answered(req[r], "ok")
    OBVIOUS
  <2>1. Answered(req[r], "ok") \in Requests
    BY <1>1, Zenon DEF Answered, NoReq, Requests, Phases, Results
  <2>2. q \in Requests /\ q.pc = "done" /\ q.epoch = None /\ ~q.late /\ ~q.revoked /\ ~q.overtaken
    BY <1>1, <2>0, <2>1 DEF Answered, NoReq
  <2>3. RevokeAll(r, q)
    BY <1>3, <2>0
  <2>4. DOMAIN sessions' = {} /\ SessionsInv' /\ epoch' \in Epochs /\ req' \in [Reqs -> Requests] /\ req'[r] = q
    BY <2>2, <2>3, RevokeAllKeeps
  <2>5. \A p \in Reqs : p # r =>
           /\ req'[p].pc = req[p].pc /\ req'[p].pw = req[p].pw /\ req'[p].new = req[p].new
           /\ req'[p].epoch = req[p].epoch /\ req'[p].snap = req[p].snap /\ req'[p].res = req[p].res
           /\ req'[p].late = req[p].late /\ req'[p].revoked = req[p].revoked
           /\ req'[p].epoch # epoch'
    BY <2>2, <2>3, RevokeAllKeeps
  <2>6. TypeOK'
    <3>1. Cardinality(DOMAIN sessions') <= maximumSessions
      BY <2>4, FS_EmptySet, ConstantsAssumption
    <3> QED BY <1>1, <2>4, <3>1 DEF IInv, TypeOK
  <2>7. MutexInv'
    BY <1>1, <2>2, <2>4, <2>5 DEF IInv, MutexInv, At
  <2>8. HolderInv'
    BY <1>1, <2>2, <2>4, <2>5 DEF IInv, HolderInv, At
  <2>9. CarriedInv' /\ EpochInv'
    BY <2>2, <2>4, <2>5 DEF IInv, CarriedInv, EpochInv, At
  <2>10. LateInv' /\ RevokedInv'
    BY <1>1, <2>2, <2>4, <2>5 DEF IInv, LateInv, RevokedInv, At
  <2> QED BY <2>4, <2>6, <2>7, <2>8, <2>9, <2>10 DEF IInv
<1> QED BY <1>2, <1>3 DEF LogoutAll

\* The store after a revocation: the account that changes has no sessions.
LEMMA ChangeStoreKeeps ==
    ASSUME IInv, NEW r \in Reqs, ChangeStore(r)
    PROVE  IInv'
<1> DEFINE new == [rev |-> account.rev + 1, pw |-> req[r].new]
<1>1. /\ req[r] \in Requests /\ At(r, "changeStore") /\ mu' = None /\ slot' = None
      /\ UNCHANGED <<present, seen, open, sessions, epoch>>
  BY DEF IInv, TypeOK, ChangeStore, GiveUp, sess
<1>2. /\ account \in Accounts /\ account.rev < MaxRevision /\ req[r].new \in Passwords
      /\ DOMAIN sessions = {} /\ \A q \in Reqs : At(q, "issue") => req[q].epoch # epoch
  BY <1>1 DEF IInv, HolderInv, CarriedInv, At
<1>3. new \in Accounts
  BY <1>2, ConstantsAssumption DEF Accounts
<1>4. \A p \in Reqs : p # r => req[p].pc \notin {"setupStore", "changeStore"}
  BY <1>1 DEF IInv, MutexInv, At
<1>5. ~req[r].late
  BY <1>1 DEF IInv, LateInv, At
<1>6. /\ account' = account \/ account' = new
      /\ \/ Done(r, "ok") /\ UNCHANGED failure
         \/ Done(r, "unavailable") /\ failure' = TRUE
  BY DEF ChangeStore, GiveUp
<1>7. account' \in Accounts
  BY <1>2, <1>3, <1>6
<1>8. PICK res \in {"ok", "unavailable"} :
          Done(r, res) /\ failure' \in BOOLEAN /\ (failure => failure') /\ (res = "ok" \/ failure')
  <2>1. failure \in BOOLEAN
    BY DEF IInv, TypeOK
  <2>2. CASE Done(r, "ok") /\ UNCHANGED failure
    BY <2>1, <2>2
  <2>3. CASE Done(r, "unavailable") /\ failure' = TRUE
    BY <2>1, <2>3
  <2> QED BY <1>6, <2>2, <2>3, Zenon
<1>9. PICK q : q = Answered(req[r], res)
  OBVIOUS
<1>10. /\ q \in Requests /\ q.pc = "done" /\ q.res = res /\ ~q.late /\ ~q.overtaken
  <2>1. Answered(req[r], res) \in Requests
    BY <1>1, Zenon DEF Answered, NoReq, Requests, Phases, Results
  <2> QED BY <1>5, <1>9, <2>1 DEF Answered, NoReq
<1>11. req' = [req EXCEPT ![r] = q]
  BY <1>8, <1>9 DEF Done
<1>12. req'[r] = q /\ \A p \in Reqs : p # r => req'[p] = req[p]
  BY <1>11 DEF IInv, TypeOK
<1>13. TypeOK'
  <2>1. req' \in [Reqs -> Requests]
    BY <1>10, <1>11 DEF IInv, TypeOK
  <2> QED BY <1>1, <1>7, <1>8, <2>1 DEF IInv, TypeOK
<1>14. \A p \in Reqs : req'[p].pc \notin {"setupStore", "changeStore"}
  BY <1>4, <1>10, <1>12
<1>15. MutexInv' /\ HolderInv'
  BY <1>1, <1>14, ConstantsAssumption DEF MutexInv, HolderInv, At
<1>16. CarriedInv' /\ EpochInv'
  BY <1>1, <1>2, <1>10, <1>12 DEF IInv, CarriedInv, EpochInv, At
<1>17. LateInv' /\ RevokedInv'
  BY <1>1, <1>8, <1>10, <1>12 DEF IInv, LateInv, RevokedInv, At
<1>18. SessionsInv'
  BY <1>1, <1>2 DEF IInv, SessionsInv, NoStaleSession
<1> QED BY <1>13, <1>15, <1>16, <1>17, <1>18 DEF IInv

\* The store closes, sessions expire, the document is damaged, the process restarts.
LEMMA EnvironmentKeeps ==
    ASSUME IInv, Close \/ Expire \/ Damage \/ Restart
    PROVE  IInv'
<1>1. CASE Close \/ Damage
  <2>0. open \in BOOLEAN /\ present \in BOOLEAN
    BY DEF IInv, TypeOK
  <2>1. /\ open' \in BOOLEAN /\ present' \in BOOLEAN /\ (~open => ~open')
        /\ UNCHANGED <<account, seen, failure, mu, slot, sessions, epoch, req>>
    <3>1. CASE Close
      BY <2>0, <3>1, Zenon DEF Close, sess
    <3>2. CASE Damage
      BY <2>0, <3>2 DEF Damage, sess
    <3> QED BY <1>1, <3>1, <3>2
  <2>2. TypeOK' /\ SessionsInv'
    BY <2>1 DEF IInv, TypeOK, SessionsInv, NoStaleSession
  <2>3. MutexInv' /\ HolderInv' /\ CarriedInv' /\ EpochInv' /\ RevokedInv'
    BY <2>1 DEF IInv, MutexInv, HolderInv, CarriedInv, EpochInv, RevokedInv, At
  <2>4. LateInv'
    BY <2>1 DEF IInv, LateInv
  <2> QED BY <2>2, <2>3, <2>4 DEF IInv
<1>2. CASE Expire
  <2>1. PICK t \in DOMAIN sessions : sessions' = [sessions EXCEPT ![t].expired = TRUE]
    BY <1>2, Zenon DEF Expire
  <2>2. UNCHANGED <<account, present, seen, failure, open, mu, slot, epoch, req>>
    BY <1>2 DEF Expire, acct
  <2>3. DOMAIN sessions' = DOMAIN sessions
    BY <2>1
  <2>4. \A u \in DOMAIN sessions : /\ sessions'[u] \in Sessions /\ sessions'[u].account = sessions[u].account
                                  /\ sessions'[u].overtaken = sessions[u].overtaken
    BY <2>1, Zenon DEF IInv, TypeOK, Sessions
  <2>5. TypeOK' /\ SessionsInv'
    BY <2>2, <2>3, <2>4 DEF IInv, TypeOK, SessionsInv, NoStaleSession
  <2>6. MutexInv' /\ HolderInv' /\ CarriedInv' /\ EpochInv' /\ RevokedInv' /\ LateInv'
    BY <2>2, <2>3 DEF IInv, MutexInv, HolderInv, CarriedInv, EpochInv, RevokedInv, LateInv, At
  <2> QED BY <2>5, <2>6 DEF IInv
<1>3. CASE Restart
  <2>1. NoReq \in Requests
    BY DEF NoReq, Requests, Phases, Results
  <2>2. \A p \in Reqs : req'[p] = NoReq
    BY <1>3 DEF Restart
  <2>3. TypeOK' /\ SessionsInv'
    <3>1. DOMAIN sessions' = {} /\ IsFiniteSet(DOMAIN sessions') /\ Cardinality(DOMAIN sessions') <= maximumSessions
      BY <1>3, FS_EmptySet, ConstantsAssumption DEF Restart
    <3>2. epoch' \in Epochs
      BY <1>3, ConstantsAssumption, FS_CardinalityType DEF Restart, Epochs
    <3>3. account' \in Accounts \cup {None} /\ seen' \in BOOLEAN
      BY <1>3 DEF Restart, IInv, TypeOK
    <3> QED BY <1>3, <2>1, <3>1, <3>2, <3>3, Zenon DEF Restart, TypeOK, SessionsInv, NoStaleSession
  <2>4. MutexInv' /\ HolderInv' /\ CarriedInv' /\ EpochInv' /\ RevokedInv' /\ LateInv'
    BY <1>3, <2>2, ConstantsAssumption
       DEF Restart, NoReq, MutexInv, HolderInv, CarriedInv, EpochInv, RevokedInv, LateInv, At
  <2> QED BY <2>3, <2>4 DEF IInv
<1> QED BY <1>1, <1>2, <1>3

-----------------------------------------------------------------------------
\* A panel that starts with no account satisfies the inductive invariant.
LEMMA InitEstablishes == Init => IInv
<1> SUFFICES ASSUME Init PROVE IInv
  OBVIOUS
<1>1. NoReq \in Requests
  BY DEF NoReq, Requests, Phases, Results
<1>2. DOMAIN sessions = {} /\ IsFiniteSet(DOMAIN sessions) /\ Cardinality(DOMAIN sessions) <= maximumSessions
  BY FS_EmptySet, ConstantsAssumption DEF Init
<1>3. epoch \in Epochs
  BY ConstantsAssumption, FS_CardinalityType DEF Init, Epochs
<1>4. TypeOK /\ SessionsInv
  BY <1>1, <1>2, <1>3, Zenon DEF Init, TypeOK, SessionsInv, NoStaleSession
<1>5. MutexInv /\ HolderInv /\ CarriedInv /\ EpochInv /\ RevokedInv /\ LateInv
  BY ConstantsAssumption
     DEF Init, NoReq, MutexInv, HolderInv, CarriedInv, EpochInv, RevokedInv, LateInv, At
<1> QED BY <1>4, <1>5 DEF IInv

\* Every step of every handler and of the environment keeps it.
LEMMA NextKeeps == IInv /\ [Next]_vars => IInv'
<1> SUFFICES ASSUME IInv, [Next]_vars PROVE IInv'
  OBVIOUS
<1>1. ASSUME NEW r \in Reqs, Begins(r) \/ Finish(r) PROVE IInv'
  BY <1>1, BeginKeeps
<1>2. ASSUME NEW r \in Reqs, LoginLoad(r) \/ LoginVerify(r) \/ Issue(r) PROVE IInv'
  BY <1>2, LoginKeeps, IssueKeeps
<1>3. ASSUME NEW r \in Reqs, SetupLoad(r) \/ SetupStore(r) PROVE IInv'
  BY <1>3, SetupLoadKeeps, SetupStoreKeeps
<1>4. ASSUME NEW r \in Reqs, ChangeFind(r) \/ ChangeAdmit(r) \/ ChangeSlot(r) \/ ChangeVerify(r) PROVE IInv'
  BY <1>4, ChangeKeeps
<1>5. ASSUME NEW r \in Reqs, ChangeCommit(r) \/ ChangeStore(r) \/ LogoutAll(r) PROVE IInv'
  BY <1>5, ChangeCommitKeeps, ChangeStoreKeeps, LogoutAllKeeps
<1>6. ASSUME NEW r \in Reqs, LogoutFind(r) \/ LogoutRevoke(r) \/ AuthorizeLoad(r) \/ AuthorizeFind(r) PROVE IInv'
  BY <1>6, OtherHandlersKeep
<1>7. CASE Close \/ Expire \/ Damage \/ Restart
  BY <1>7, EnvironmentKeeps
<1>8. CASE UNCHANGED vars
  BY <1>8 DEF vars, acct, sess, IInv, TypeOK, MutexInv, HolderInv, CarriedInv, EpochInv, LateInv, RevokedInv,
              SessionsInv, NoStaleSession, At
<1> QED BY <1>1, <1>2, <1>3, <1>4, <1>5, <1>6, <1>7, <1>8 DEF Next, Step

\* The inductive invariant holds throughout.
THEOREM Invariance == Spec => []IInv
BY InitEstablishes, NextKeeps, PTL DEF Spec

\* Every variable keeps its type, and the sessions stay within their limit.
THEOREM TypeCorrect == Spec => []TypeOK
<1>1. IInv => TypeOK
  BY DEF IInv
<1> QED BY Invariance, <1>1, PTL

\* No session outlives a password change or a logout-all it did not come after,
\* however many logins, setups and changes race.
THEOREM NoStaleSessionHolds == Spec => []NoStaleSession
<1>1. IInv => NoStaleSession
  BY DEF IInv, SessionsInv
<1> QED BY Invariance, <1>1, PTL

\* Once the account store has failed or closed, nothing that starts later in this
\* process succeeds, except logging out.
THEOREM FailureIsFinalHolds == Spec => []FailureIsFinal
<1>1. IInv => FailureIsFinal
  BY DEF IInv, LateInv, FailureIsFinal
<1> QED BY Invariance, <1>1, PTL

\* A password change that has logged everybody out succeeds or leaves the store
\* failed.
THEOREM RevokedChangeIsDecidedHolds == Spec => []RevokedChangeIsDecided
<1>1. IInv => RevokedChangeIsDecided
  BY DEF IInv, RevokedInv, RevokedChangeIsDecided
<1> QED BY Invariance, <1>1, PTL
=============================================================================

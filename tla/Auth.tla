-------------------------------- MODULE Auth --------------------------------
(***************************************************************************)
(* The panel's login: account_store.go (one administrator account in a     *)
(* revision store), auth_session.go (sessions in memory) and the handlers  *)
(* of auth_controller.go and auth_password.go, which run concurrently.     *)
(*                                                                         *)
(* Password hashing runs outside the account mutex, so a handler reads the *)
(* account, lets go, and comes back; setup and the end of a password       *)
(* change keep the mutex over several steps.  The sessions have their own  *)
(* mutex, held for one operation.  Tokens, epochs and passwords are        *)
(* abstract; a rate limit or a malformed request is a refusal that changes *)
(* nothing, and is not modelled further.                                   *)
(***************************************************************************)
EXTENDS Naturals, FiniteSetsExt, Functions, TLC

CONSTANTS Reqs,             \* requests in progress at one time
          Tokens,           \* session tokens; a fresh one is in use nowhere
          Passwords,
          SetupPasswords,   \* bound: the passwords a setup may choose
          None,
          maximumSessions,
          MaxRevision       \* bound: account revisions 1..MaxRevision

ASSUME ConstantsAssumption ==
    /\ None \notin Reqs \cup Tokens \cup Passwords
    /\ SetupPasswords \subseteq Passwords /\ IsFiniteSet(Reqs)
    /\ maximumSessions \in Nat /\ MaxRevision \in Nat \ {0}

\* Addresses of session epochs.  One that nobody holds may be allocated again, so
\* one more than there are requests suffices.
Epochs == 0..Cardinality(Reqs)

Accounts == [rev : 1..MaxRevision, pw : Passwords]

\* An account is a document, never the absence of one.
ASSUME NoneIsNoAccount == None \notin Accounts

Sessions == [account : Accounts, expired : BOOLEAN, overtaken : BOOLEAN]

VARIABLES
    account,     \* the stored document, None before setup
    present,     \* the store can read it
    seen,        \* accountStore.seenConfigured
    failure,     \* accountStore.failure is set
    open,        \* accountStore.backend is not nil
    mu,          \* the request that holds accountStore.mu, None when free
    slot,        \* the request that holds authController.passwordSlot
    sessions,    \* sessionStore.sessions; with each, as history, the account it was
                 \* issued for and whether a revocation fell into its login
    epoch,       \* sessionStore.epoch
    req          \* every request

acct == <<account, present, seen, failure, open>>
sess == <<sessions, epoch>>
vars == <<acct, mu, slot, sess, req>>

NoReq == [pc |-> "-", token |-> None, pw |-> None, new |-> None, epoch |-> None,
          snap |-> None, res |-> "-",
          overtaken |-> FALSE, late |-> FALSE, revoked |-> FALSE]    \* history

Phases == {"-", "login", "loginVerify", "issue", "setup", "setupStore", "change", "changeAdmit",
           "changeSlot", "changeVerify", "changeCommit", "changeStore", "logout", "logoutRevoke",
           "logoutAll", "authorize", "authorizeFind", "done"}
Results == {"-", "ok", "unauthorized", "conflict", "busy", "unavailable"}

Requests == [pc : Phases, token : Tokens \cup {None}, pw : Passwords \cup {None},
             new : Passwords \cup {None}, epoch : Epochs \cup {None}, snap : Accounts \cup {None},
             res : Results, overtaken : BOOLEAN, late : BOOLEAN, revoked : BOOLEAN]

TypeOK ==
    /\ account \in Accounts \cup {None}
    /\ present \in BOOLEAN /\ seen \in BOOLEAN /\ failure \in BOOLEAN /\ open \in BOOLEAN
    /\ mu \in Reqs \cup {None} /\ slot \in Reqs \cup {None}
    /\ DOMAIN sessions \subseteq Tokens /\ Cardinality(DOMAIN sessions) <= maximumSessions
    /\ \A t \in DOMAIN sessions : sessions[t] \in Sessions
    /\ epoch \in Epochs
    /\ req \in [Reqs -> Requests]

Init ==
    /\ account = None /\ present = TRUE /\ seen = FALSE /\ failure = FALSE /\ open = TRUE
    /\ mu = None /\ slot = None
    /\ sessions = <<>> /\ epoch = 0
    /\ req = [r \in Reqs |-> NoReq]

At(r, p) == req[r].pc = p
Goto(r, p) == req' = [req EXCEPT ![r].pc = p]
Answered(q, res) == [NoReq EXCEPT !.pc = "done", !.res = res, !.late = q.late, !.revoked = q.revoked]
Done(r, res) == req' = [req EXCEPT ![r] = Answered(@, res)]

\* sessionStore.find: whether the token names a session; an expired one is deleted.
Without(ts) == Restrict(sessions, DOMAIN sessions \ ts)
Expired == {t \in DOMAIN sessions : sessions[t].expired}
Valid(t) == t \in DOMAIN sessions \ Expired
Find(t) == sessions' = Without({t} \cap Expired) /\ UNCHANGED epoch

-----------------------------------------------------------------------------
(* accountStore.loadLocked: what it returns and what it does to the store. *)

\* Mutant: a store that failed once is read again.
LoadsAgain == CASE ~open -> "unavailable"
           [] account = None /\ ~seen -> "missing"
           [] account = None \/ ~present -> "unavailable"
           [] OTHER -> "ok"

Loads == CASE ~open \/ failure -> "unavailable"
           [] account = None /\ ~seen -> "missing"
           [] account = None \/ ~present -> "unavailable"
           [] OTHER -> "ok"

\* The state loadLocked leaves behind: configured from now on, or failed for good.
LoadEffect ==
    /\ failure' = (failure \/ (open /\ Loads = "unavailable"))
    /\ seen' = (seen \/ Loads = "ok")
    /\ UNCHANGED <<account, present, open>>

-----------------------------------------------------------------------------
(* Requests arrive.                                                        *)

Begin(r, pc, t, pw, new) ==
    /\ At(r, "-")
    /\ req' = [req EXCEPT ![r] = [NoReq EXCEPT !.pc = pc, !.token = t, !.pw = pw, !.new = new,
                                               !.epoch = IF pc \in {"login", "setup"} THEN epoch ELSE None,
                                               !.late = (failure \/ ~open) /\ pc \notin {"logout", "logoutAll"}]]
    /\ UNCHANGED <<acct, mu, slot, sess>>

\* A client sends a token, of a session that exists or not, or none.
Cookies == Tokens \cup {None}

BeginLogin(r) == \E t \in Cookies, pw \in Passwords : Begin(r, "login", t, pw, None)
BeginSetup(r) == \E t \in Cookies, pw \in SetupPasswords : Begin(r, "setup", t, pw, None)
BeginChange(r) == \E t \in Cookies, pw, new \in Passwords :
                      pw # new /\ Begin(r, "change", t, pw, new)
BeginLogout(r) == \E t \in Cookies : Begin(r, "logout", t, None, None)
BeginLogoutAll(r) == \E t \in Cookies : Begin(r, "logoutAll", t, None, None)
BeginAuthorize(r) == \E t \in Cookies : Begin(r, "authorize", t, None, None)

Finish(r) ==
    /\ At(r, "done")
    /\ req' = [req EXCEPT ![r] = NoReq]
    /\ UNCHANGED <<acct, mu, slot, sess>>

-----------------------------------------------------------------------------
(* login: the epoch was taken first; read the account, hash, read it       *)
(* again, issue a session.                                                 *)

LoginLoad(r) ==
    /\ At(r, "login") /\ mu = None
    /\ LoadEffect
    /\ IF Loads = "ok"
       THEN req' = [req EXCEPT ![r].pc = "loginVerify", ![r].snap = account]
       ELSE Done(r, IF Loads = "missing" THEN "conflict" ELSE "unavailable")
    /\ UNCHANGED <<mu, slot, sess>>

LoginVerify(r) ==
    /\ At(r, "loginVerify")
    /\ \/ /\ mu = None
          /\ LoadEffect
          /\ IF Loads # "ok" \/ account # req[r].snap THEN Done(r, "unavailable")
             ELSE IF req[r].pw = account.pw THEN req' = [req EXCEPT ![r].pc = "issue", ![r].pw = None]
             ELSE Done(r, "unauthorized")
       \/ Done(r, "unavailable") /\ UNCHANGED acct    \* the hash was refused or cancelled
    /\ UNCHANGED <<mu, slot, sess>>

SameEpoch(r) == req[r].epoch = epoch

HasRoom(ts) == Cardinality(ts) < maximumSessions

\* issueSession under the account mutex: the request's own session goes; then
\* createForEpoch may lack randomness, refuses an old epoch, purges what expired
\* and refuses when the sessions are full.  The session is live before the
\* answer is sent.
Issue(r) ==
    /\ At(r, "issue") /\ mu = None
    /\ LoadEffect
    /\ LET mine == Without({req[r].token})
           kept == Without({req[r].token} \cup Expired)
           room == HasRoom(DOMAIN kept)
           session == [account |-> req[r].snap, expired |-> FALSE, overtaken |-> req[r].overtaken]
       IN \/ Loads # "ok" /\ Done(r, "unavailable") /\ UNCHANGED sessions
          \/ Loads = "ok" /\ Done(r, "unavailable") /\ sessions' = mine
          \/ Loads = "ok" /\ SameEpoch(r) /\ ~room /\ Done(r, "unavailable") /\ sessions' = kept
          \/ /\ Loads = "ok" /\ SameEpoch(r) /\ room
             /\ \E t \in Tokens \ (DOMAIN sessions \cup {req[q].token : q \in Reqs}) :
                  sessions' = [u \in DOMAIN kept \cup {t} |-> IF u = t THEN session ELSE kept[u]]
             /\ Done(r, "ok")
    /\ UNCHANGED <<mu, slot, epoch>>

-----------------------------------------------------------------------------
(* setup keeps the account mutex from the check to the write.              *)

SetupLoad(r) ==
    /\ At(r, "setup") /\ mu = None
    /\ LoadEffect
    /\ IF Loads = "missing"
       THEN mu' = r /\ Goto(r, "setupStore")
       ELSE /\ Done(r, IF Loads = "ok" THEN "conflict" ELSE "unavailable")
            /\ UNCHANGED mu
    /\ UNCHANGED <<slot, sess>>

\* Mutant: a setup whose hash is refused keeps the mutex.
SetupStoreLocked(r) ==
    /\ At(r, "setupStore")
    /\ Done(r, "unavailable")
    /\ UNCHANGED <<acct, mu, slot, sess>>

\* Hashing may be refused; Initialize may fail, with or without its effect, and
\* then the store is given up.
SetupStore(r) ==
    /\ At(r, "setupStore")
    /\ mu' = None
    /\ LET new == [rev |-> 1, pw |-> req[r].pw]
       IN \/ Done(r, "unavailable") /\ UNCHANGED acct
          \/ /\ account' = new /\ seen' = TRUE
             /\ req' = [req EXCEPT ![r].pc = "issue", ![r].pw = None, ![r].snap = new]
             /\ UNCHANGED <<present, failure, open>>
          \/ /\ account' \in {account, new} /\ failure' = TRUE
             /\ Done(r, "unavailable")
             /\ UNCHANGED <<present, seen, open>>
    /\ UNCHANGED <<slot, sess>>

-----------------------------------------------------------------------------
(* Password change: session, then the slot, then the account, the hashes,  *)
(* and at last the account again with all sessions revoked and the new     *)
(* verifier written.                                                       *)

ChangeFind(r) ==
    /\ At(r, "change")
    /\ Find(req[r].token)
    /\ IF Valid(req[r].token) THEN Goto(r, "changeAdmit") ELSE Done(r, "unauthorized")
    /\ UNCHANGED <<acct, mu, slot>>

ChangeAdmit(r) ==
    /\ At(r, "changeAdmit") /\ mu = None
    /\ LoadEffect
    /\ IF Loads = "ok" THEN Goto(r, "changeSlot") ELSE Done(r, "unavailable")
    /\ UNCHANGED <<mu, slot, sess>>

\* One password change at a time; a second one is turned away.
ChangeSlot(r) ==
    /\ At(r, "changeSlot")
    /\ IF slot = None THEN slot' = r /\ Goto(r, "changeVerify") ELSE UNCHANGED slot /\ Done(r, "busy")
    /\ UNCHANGED <<acct, mu, sess>>

\* The handler's deferred receive gives the slot back with the answer.
GiveUp(r, res) == Done(r, res) /\ slot' = None

ChangeVerify(r) ==
    /\ At(r, "changeVerify") /\ mu = None
    /\ LoadEffect
    /\ CASE Loads # "ok" -> GiveUp(r, "unavailable")
         [] Loads = "ok" /\ account.rev = MaxRevision -> GiveUp(r, "conflict")
         [] Loads = "ok" /\ account.rev < MaxRevision /\ req[r].pw # account.pw ->
                GiveUp(r, "unauthorized")
         [] OTHER -> /\ req' = [req EXCEPT ![r].pc = "changeCommit", ![r].pw = None, ![r].snap = account]
                     /\ UNCHANGED slot
    /\ UNCHANGED <<mu, sess>>

\* Mutant: pointers to distinct epochs may be equal, as they may for a type of size zero.
RevokeAllSameEpoch(r, q) ==
    /\ sessions' = <<>>
    /\ epoch' \in Epochs
    /\ req' = [p \in Reqs |-> IF p = r THEN q ELSE [req[p] EXCEPT !.overtaken = @ \/ req[p].epoch # None]]

\* sessionStore.revokeAll, by request r, which becomes q: no session survives, and
\* the new epoch differs from every one a login still holds.
RevokeAll(r, q) ==
    /\ sessions' = <<>>
    /\ epoch' = Min(Epochs \ {req[p].epoch : p \in Reqs})
    /\ req' = [p \in Reqs |-> IF p = r THEN q ELSE [req[p] EXCEPT !.overtaken = @ \/ req[p].epoch # None]]

ChangeCommit(r) ==
    /\ At(r, "changeCommit")
    /\ \/ /\ mu = None
          /\ LoadEffect
          /\ CASE Loads # "ok" -> GiveUp(r, "unavailable") /\ UNCHANGED <<mu, sess>>
               [] Loads = "ok" /\ account # req[r].snap -> GiveUp(r, "conflict") /\ UNCHANGED <<mu, sess>>
               [] Loads = "ok" /\ account = req[r].snap /\ ~Valid(req[r].token) ->
                      GiveUp(r, "unauthorized") /\ UNCHANGED <<mu, sess>>
               [] OTHER -> /\ RevokeAll(r, [req[r] EXCEPT !.pc = "changeStore", !.revoked = TRUE])
                           /\ mu' = r /\ UNCHANGED slot
       \/ GiveUp(r, "unavailable") /\ UNCHANGED <<acct, mu, sess>>    \* refused hash or cancelled

\* Mutant: a failed write leaves the store open.
ChangeStoreGoesOn(r) ==
    /\ At(r, "changeStore")
    /\ mu' = None
    /\ \/ account' = [rev |-> account.rev + 1, pw |-> req[r].new] /\ GiveUp(r, "ok")
       \/ UNCHANGED account /\ GiveUp(r, "unavailable")
    /\ UNCHANGED <<present, seen, failure, open, sess>>

\* Replace reads the account again and commits its successor; whatever fails, the
\* store is given up and the sessions stay revoked.
ChangeStore(r) ==
    /\ At(r, "changeStore")
    /\ mu' = None
    /\ LET new == [rev |-> account.rev + 1, pw |-> req[r].new]
       IN \/ /\ present /\ account' = new
             /\ GiveUp(r, "ok") /\ UNCHANGED failure
          \/ /\ account' \in {account} \cup {a \in {new} : present} /\ failure' = TRUE
             /\ GiveUp(r, "unavailable")
    /\ UNCHANGED <<present, seen, open, sess>>

-----------------------------------------------------------------------------
(* The other handlers.                                                     *)

LogoutFind(r) ==
    /\ At(r, "logout")
    /\ Find(req[r].token)
    /\ IF Valid(req[r].token) THEN Goto(r, "logoutRevoke") ELSE Done(r, "unauthorized")
    /\ UNCHANGED <<acct, mu, slot>>

LogoutRevoke(r) ==
    /\ At(r, "logoutRevoke")
    /\ sessions' = Without({req[r].token})
    /\ Done(r, "ok")
    /\ UNCHANGED <<acct, mu, slot, epoch>>

LogoutAll(r) ==
    /\ At(r, "logoutAll")
    /\ IF Valid(req[r].token)
       THEN RevokeAll(r, Answered(req[r], "ok"))
       ELSE Done(r, "unauthorized") /\ UNCHANGED sess
    /\ UNCHANGED <<acct, mu, slot>>

\* authorize, in front of every other page: the account is configured, then the
\* session is there.
AuthorizeLoad(r) ==
    /\ At(r, "authorize") /\ mu = None
    /\ LoadEffect
    /\ IF Loads = "ok" THEN Goto(r, "authorizeFind") ELSE Done(r, "unauthorized")
    /\ UNCHANGED <<mu, slot, sess>>

AuthorizeFind(r) ==
    /\ At(r, "authorizeFind")
    /\ Find(req[r].token)
    /\ Done(r, IF Valid(req[r].token) THEN "ok" ELSE "unauthorized")
    /\ UNCHANGED <<acct, mu, slot>>

-----------------------------------------------------------------------------
(* The store closes, and the environment.                                  *)

Close ==
    /\ mu = None /\ open
    /\ open' = FALSE
    /\ UNCHANGED <<account, present, seen, failure, mu, slot, sess, req>>

Expire ==
    /\ \E t \in DOMAIN sessions \ Expired : sessions' = [sessions EXCEPT ![t].expired = TRUE]
    /\ UNCHANGED <<acct, mu, slot, epoch, req>>

\* The document becomes unreadable, or readable again.
Damage ==
    /\ account # None
    /\ present' = ~present
    /\ UNCHANGED <<account, seen, failure, open, mu, slot, sess, req>>

\* The process ends and ownAccountBackend starts it again, on an account it can
\* read or on none (the file is gone): sessions and the sticky failure were in
\* memory.
Restart ==
    /\ account' = IF present THEN account ELSE None
    /\ present' = TRUE
    /\ seen' = (account' # None) /\ failure' = FALSE /\ open' = TRUE
    /\ mu' = None /\ slot' = None /\ sessions' = <<>> /\ epoch' = 0
    /\ req' = [r \in Reqs |-> NoReq]

Step(r) ==
    \/ LoginLoad(r) \/ LoginVerify(r) \/ Issue(r)
    \/ SetupLoad(r) \/ SetupStore(r)
    \/ ChangeFind(r) \/ ChangeAdmit(r) \/ ChangeSlot(r)
    \/ ChangeVerify(r) \/ ChangeCommit(r) \/ ChangeStore(r)
    \/ LogoutFind(r) \/ LogoutRevoke(r) \/ LogoutAll(r)
    \/ AuthorizeLoad(r) \/ AuthorizeFind(r)
    \/ Finish(r)

Begins(r) == BeginLogin(r) \/ BeginSetup(r) \/ BeginChange(r) \/ BeginLogout(r)
             \/ BeginLogoutAll(r) \/ BeginAuthorize(r)

Next == (\E r \in Reqs : Begins(r) \/ Step(r)) \/ Close \/ Expire \/ Damage \/ Restart

Spec == Init /\ [][Next]_vars

\* A goroutine that can go on does, and sync.Mutex hands itself to a waiter that
\* starves, so a step that is enabled again and again is taken.
FairSpec == Spec /\ \A r \in Reqs : SF_vars(Step(r))

-----------------------------------------------------------------------------
(* What the login promises.                                                *)

\* Every session was issued for the account as it is stored now, by a login that
\* began after the last global revocation: whatever races with a password change
\* or a logout-all, no session obtained before outlives it (the comments on
\* changePassword and createForEpoch), not even when the write fails.
NoStaleSession ==
    \A t \in DOMAIN sessions : sessions[t].account = account /\ ~sessions[t].overtaken

\* Once the store has failed or closed, no login, setup, password change or
\* authorization that starts later succeeds in this process, even if the document
\* can be read again (the comment on loadLocked).  Only logging out still works.
FailureIsFinal ==
    \A r \in Reqs : req[r].late => req[r].res # "ok"

\* A password change that has logged everybody out either succeeds or leaves the
\* store failed for good: nobody can log in again with the old password in this
\* process as if nothing had happened (the comment on changePassword).
RevokedChangeIsDecided ==
    \A r \in Reqs : At(r, "done") /\ req[r].revoked => req[r].res = "ok" \/ failure

\* Every request is answered, and the one password-change slot comes back: no path
\* through the handlers keeps the account mutex or the slot.
EveryRequestAnswered ==
    /\ \A r \in Reqs : req[r].pc # "-" ~> req[r].pc = "-"
    /\ (slot # None) ~> (slot = None)

-----------------------------------------------------------------------------
\* Requests, tokens and passwords are told apart by nothing but their names, as
\* long as every password may be the one of the setup.
Symmetry == Permutations(Reqs) \cup Permutations(Tokens) \cup Permutations(Passwords)
=============================================================================

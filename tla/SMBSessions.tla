----------------------------- MODULE SMBSessions -----------------------------
(***************************************************************************)
(* internal/smbexec: how Disable ends the sessions of an account.  The     *)
(* passdb entry is disabled first; then the inventories of smbstatus are   *)
(* read, smbcontrol is asked once to log the user off, and Disable         *)
(* succeeds after two inventories in a row without the account.  A login   *)
(* is checked against passdb before smbd lists its session, so one that    *)
(* began earlier may appear between any two inventories.                   *)
(*                                                                         *)
(* Around it: the witnesses of sessions that the native backend takes and  *)
(* verifies, and the order in which it closes its runtime and the config.  *)
(* Its callers make one call at a time.                                    *)
(***************************************************************************)
EXTENDS Naturals, Sequences, FiniteSets

CONSTANTS
    Logins,      \* the logins that are attempted, each once: <<user, number>>
    MaxStatus    \* bound: inventories that one call reads faster than its limit

VARIABLES
    disabled,   \* accounts whose passdb entry is disabled
    joining,    \* logins accepted by passdb, session not listed yet
    live,       \* listed sessions
    used,       \* logins that were attempted
    asked,      \* sessions that a logoff message is on its way to
    call,       \* the backend call: where it is, and its locals
    views,      \* history: what the inventories of this call met
    pair,       \* the witness of sessions that was taken last
    backend     \* NativeBackendQEMU: its fence, its runtime, its config

vars == <<disabled, joining, live, used, asked, call, views, pair, backend>>
smbd == <<joining, live, used, asked>>

Users == {l[1] : l \in Logins}
Of(u, sessions) == {s \in sessions : s[1] = u}
target == "qpmanaged"
peer == "qpsecond"

LoginsAssumption == IsFiniteSet(Logins) /\ {target, peer} = Users /\ MaxStatus \in Nat

stableAbsentSessionInventories == 2
\* The native profile's total, counted in workers that take all of their time.
limits == 3 + stableAbsentSessionInventories

Idle(answer) == [at |-> "idle", user |-> target, sent |-> FALSE, absent |-> 0,
                 left |-> limits, answer |-> answer]
Goto(at) == call' = [call EXCEPT !.at = at]
Unavailable == call' = Idle("ErrUnavailable")

-----------------------------------------------------------------------------
(* The backend: its constructor, and one call at a time.                    *)

openConfig == BOOLEAN      \* opened as a regular file of root
validateConfig == BOOLEAN  \* accepted by the runtime, and by testparm

New ==
    /\ backend.fence = "new"
    /\ \E opened \in openConfig, valid \in validateConfig :
           backend' = [backend EXCEPT !.fence = IF opened /\ valid THEN "open" ELSE "refused",
                                      !.config = IF opened /\ valid THEN "held" ELSE "none"]
    /\ UNCHANGED <<disabled, smbd, call, views, pair>>

\* A call takes the read lock, which Close waits for.
Enter(at, u) ==
    /\ backend.fence \in {"open", "closed"} /\ call.at = "idle" /\ views' = <<>>
    /\ call' = IF backend.fence = "closed" THEN Idle("ErrInvalid")
               ELSE [Idle("-") EXCEPT !.at = at, !.user = u]
    /\ UNCHANGED <<disabled, smbd, pair, backend>>

\* smbpasswd -d: an error is no witness that the entry was left alone.
disableWithProfile ==
    /\ call.at = "disable"
    /\ \/ disabled' = disabled \cup {call.user} /\ Goto("status")
       \/ disabled' \in {disabled, disabled \cup {call.user}} /\ Unavailable
    /\ UNCHANGED <<smbd, views, pair, backend>>

\* smbpasswd -e
Enable ==
    /\ call.at = "enable"
    /\ \/ disabled' = disabled \ {call.user} /\ call' = Idle("enabled")
       \/ disabled' \in {disabled, disabled \ {call.user}} /\ Unavailable
    /\ UNCHANGED <<smbd, views, pair, backend>>

\* An inventory is accepted or refused as a whole.
parseSMBStatusHasUser == Of(call.user, live) # {}

\* An inventory with the account does not start the count again.
sessionsAbsentTwice(spent) ==
    IF parseSMBStatusHasUser
    THEN call' = [call EXCEPT !.at = IF call.sent THEN "wait" ELSE "control", !.left = @ - spent]
    ELSE IF call.absent + 1 >= stableAbsentSessionInventories THEN call' = Idle("revoked")
    ELSE call' = [call EXCEPT !.at = "wait", !.absent = @ + 1, !.left = @ - spent]

\* The account may be asked to log off again.
sessionsAskedAgain(spent) ==
    IF parseSMBStatusHasUser
    THEN call' = [call EXCEPT !.at = "control", !.absent = 0, !.left = @ - spent]
    ELSE IF call.absent + 1 >= stableAbsentSessionInventories THEN call' = Idle("revoked")
    ELSE call' = [call EXCEPT !.at = "wait", !.absent = @ + 1, !.left = @ - spent]

sessionsCounted(spent) ==
    IF parseSMBStatusHasUser
    THEN call' = [call EXCEPT !.at = IF call.sent THEN "wait" ELSE "control",
                              !.absent = 0, !.left = @ - spent]
    ELSE IF call.absent + 1 >= stableAbsentSessionInventories THEN call' = Idle("revoked")
    ELSE call' = [call EXCEPT !.at = "wait", !.absent = @ + 1, !.left = @ - spent]

\* Looked at before every worker and before every wait.
Deadline ==
    /\ call.at \in {"status", "control", "wait"} /\ call.left = 0 /\ call' = Idle("deadline")
    /\ UNCHANGED <<disabled, smbd, views, pair, backend>>

\* One round of the loop up to the control or the wait: smbstatus.
revokeUserSessions ==
    /\ call.at = "status"
    /\ \/ /\ call.left > 0
          /\ \E spent \in {0, 1} :
                 /\ spent = 0 => Len(views) < MaxStatus
                 /\ sessionsCounted(spent)
          /\ views' = Append(views, [present |-> parseSMBStatusHasUser,
                                     joining |-> Of(call.user, joining)])
       \/ Unavailable /\ UNCHANGED views
    /\ UNCHANGED <<disabled, smbd, pair, backend>>

\* smbcontrol smbd logoff-user: a message to the sessions there are now.
logoffUser ==
    /\ call.at = "control"
    /\ \/ /\ call.left > 0 /\ asked' = asked \cup Of(call.user, live)
          /\ call' = [call EXCEPT !.at = "wait", !.sent = TRUE, !.left = @ - 1]
       \/ asked' \in {asked, asked \cup Of(call.user, live)} /\ Unavailable
    /\ UNCHANGED <<disabled, joining, live, used, views, pair, backend>>

\* The poll interval, unless the caller ends the call.
pollTimer ==
    /\ call.at = "wait"
    /\ \/ call.left > 0 /\ Goto("status")
       \/ Unavailable
    /\ UNCHANGED <<disabled, smbd, views, pair, backend>>

-----------------------------------------------------------------------------
(* What pdbedit lists, and what is read from it.                            *)

Entry(name, sid, off, valid) == [name |-> name, sid |-> sid, off |-> off, valid |-> valid]
folded == [name \in Users \cup {"QPMANAGED"} |-> IF name = "QPMANAGED" THEN target ELSE name]

\* What else may be listed: names that differ by case, an entry that is listed
\* twice, an SID that two entries have.
Others == {Entry("QPMANAGED", "s3", FALSE, TRUE), Entry(target, "s4", FALSE, TRUE), Entry(peer, "s1", FALSE, TRUE)}
pdbedit(others, valid) ==
    {Entry(target, "s1", target \in disabled, valid), Entry(peer, "s2", peer \in disabled, TRUE)} \cup others

\* Entries are told apart by their names alone.
parseObservationsByName(listing) == {e \in listing : e.name = target}
\* The requested entries; none when any requested one is in doubt.
parseObservations(listing) ==
    LET requested == {e \in listing : e.name \in Users} IN
    IF /\ \A e \in listing : folded[e.name] = e.name
       /\ \A e \in requested : e.valid
       /\ \A d, e \in requested : d.name = e.name \/ d.sid = e.sid => d = e
    THEN {e \in requested : e.name = target} ELSE {}

ObserveAccounts ==
    /\ call.at = "accounts"
    /\ \/ \E others \in SUBSET Others, valid \in BOOLEAN :
              \E e \in parseObservations(pdbedit(others, valid)) :
                  call' = Idle(IF e.off THEN "is disabled" ELSE "is enabled")
       \/ Unavailable
    /\ UNCHANGED <<disabled, smbd, views, pair, backend>>

-----------------------------------------------------------------------------
(* Witnesses of sessions.                                                   *)

\* One complete inventory becomes the witness: a session of each account, or the
\* peer's alone.
ObserveNativeSessionPair ==
    Cardinality(live) = 2 /\ \A u \in Users : Of(u, live) # {}
ObservePlannedSession == Cardinality(live) = 1 /\ Of(peer, live) = live

Observe ==
    /\ call.at = "observe" /\ views' = <<>>
    /\ \/ (ObserveNativeSessionPair \/ ObservePlannedSession) /\ pair' = live /\ call' = Idle("observed")
       \/ Unavailable /\ UNCHANGED pair
    /\ UNCHANGED <<disabled, smbd, backend>>

\* Continuity is of the original sessions, not of the accounts.
VerifyPeerByAccount == Cardinality(live) = 1 /\ Of(peer, live) = live
VerifyNativePeerSession == live = Of(peer, pair)
VerifyNativeSessionPair == live = pair

Verify ==
    /\ call.at \in {"verify peer", "verify all"} /\ pair # {}
    /\ \/ /\ IF call.at = "verify peer" THEN VerifyNativePeerSession ELSE VerifyNativeSessionPair
          /\ views' = <<live>> /\ call' = Idle(call.at)
       \/ Unavailable /\ UNCHANGED views
    /\ UNCHANGED <<disabled, smbd, pair, backend>>

\* A witness that was never taken is refused.
NoWitness ==
    /\ call.at \in {"verify peer", "verify all"} /\ pair = {} /\ call' = Idle("ErrInvalid")
    /\ UNCHANGED <<disabled, smbd, views, pair, backend>>

-----------------------------------------------------------------------------
(* Close.                                                                   *)

\* The config is released whatever the runtime said.
CloseAnyway ==
    /\ call.at = "idle" /\ backend.fence = "open"
    /\ \E runtime \in {"closed", "unsure"}, config \in {"released", "unsure"} :
           backend' = [fence |-> "closed", runtime |-> runtime, config |-> config]
    /\ UNCHANGED <<disabled, smbd, call, views, pair>>

Close ==
    /\ call.at = "idle" /\ backend.fence = "open"
    /\ \/ backend' = [backend EXCEPT !.fence = "closed", !.runtime = "unsure"]
       \/ \E config \in {"released", "unsure"} :
              backend' = [fence |-> "closed", runtime |-> "closed", config |-> config]
    /\ UNCHANGED <<disabled, smbd, call, views, pair>>

-----------------------------------------------------------------------------
(* smbd.                                                                    *)

Login ==
    /\ \E l \in Logins \ used :
           /\ l[1] \notin disabled
           /\ joining' = joining \cup {l} /\ used' = used \cup {l}
    /\ UNCHANGED <<disabled, live, asked, call, views, pair, backend>>

Listed ==
    /\ \E l \in joining : joining' = joining \ {l} /\ live' = live \cup {l}
    /\ UNCHANGED <<disabled, used, asked, call, views, pair, backend>>

\* A client leaves, or the message arrives.
Logoff ==
    /\ \/ \E l \in live : live' = live \ {l} /\ asked' = asked \ {l}
       \/ asked # {} /\ live' = live \ asked /\ asked' = {}
    /\ UNCHANGED <<disabled, joining, used, call, views, pair, backend>>

Init ==
    /\ disabled = {} /\ joining = {} /\ live = {} /\ used = {} /\ asked = {}
    /\ call = Idle("-") /\ views = <<>> /\ pair = {}
    /\ backend = [fence |-> "new", runtime |-> "up", config |-> "none"]

Next ==
    \/ New \/ Close
    \/ \E at \in {"disable", "enable", "accounts"} : Enter(at, target)
    \/ \E at \in {"observe", "verify peer", "verify all"} : Enter(at, peer)
    \/ disableWithProfile \/ Enable \/ revokeUserSessions \/ logoffUser
    \/ pollTimer \/ Deadline
    \/ ObserveAccounts \/ Observe \/ Verify \/ NoWitness
    \/ Login \/ Listed \/ Logoff

Spec == Init /\ [][Next]_vars

-----------------------------------------------------------------------------
\* Disable "returns only after bounded smbstatus observations confirm the target
\* session set is empty": after it succeeds the account cannot log in, and a
\* session of it is one whose login was still under way at both of the last two
\* inventories, which were empty.
RevokedIsGone ==
    call.answer = "revoked" =>
        LET n == Len(views) IN
        /\ target \in disabled /\ n >= 2
        /\ \A i \in {n - 1, n} : /\ ~views[i].present
                                 /\ Of(target, live \cup joining) \subseteq views[i].joining

\* The profile's budget, "one initial inventory, one control and two absence
\* inventories ... plus one worker-sized margin", is enough: the deadline only
\* refuses a call that met the account again after its first inventory.
BudgetSuffices ==
    call.answer = "deadline" => \E i \in 2..Len(views) : views[i].present

\* "fresh login, changed generation or target row is not continuity": what was
\* verified to continue is a session of the witness, so it has been there since.
ContinuityIsOfSessions ==
    call.answer \in {"verify peer", "verify all"} => views[1] # {} /\ views[1] \subseteq pair

\* ObserveAccounts tells an account's own state: "the requested identities".
ObservedIsSo ==
    /\ call.answer = "is disabled" => target \in disabled
    /\ call.answer = "is enabled" => target \notin disabled

\* "Never release config while runtime is uncertain."
ConfigOutlivesRuntime == backend.config \in {"released", "unsure"} => backend.runtime = "closed"

\* revokeUserSessions "invokes Samba's account-scoped session-logoff control at
\* most once": once it was sent, no call adds a session to those that are asked.
OneLogoff == [][ call.sent => asked' \subseteq asked ]_vars
=============================================================================

----------------------------- MODULE Dashboard -----------------------------
(***************************************************************************)
(* The panel's page, ui/app.js with service-policy.js and iscsi-preview.js:*)
(* its sections, each read from the local API by a call of its own, and    *)
(* the calls that change who is signed in: sign-out, a password change,    *)
(* signing in, and updateAuthView, which several of them may be awaiting   *)
(* at once.  Everything a call does after an await is a step of its own.   *)
(*                                                                         *)
(* A section is what it shows, its busy flag or controller (gate) and its  *)
(* call.  Generations are compared for equality only, so a call carries    *)
(* whether its generation is still the section's (live).  Where clearing a *)
(* section aborts its fetch, the call ends there and then; the proposal    *)
(* preview has no controller the page could abort.  Answers and times are  *)
(* marked new or old: every time the sign-in panel appears, what is in     *)
(* flight or on the screen becomes old.                                    *)
(***************************************************************************)
EXTENDS Naturals, FiniteSets, TLC

CONSTANTS Sections,     \* those of {"snapshot", "gpt", "saved", "nas", "service", "policy", "iscsi"} on the page
          MaxViews      \* bound: calls of updateAuthView in flight

SectionsAssumption == Sections \subseteq {"snapshot", "gpt", "saved", "nas", "service", "policy", "iscsi"}

VARIABLES
    session,   \* the server's: the browser's cookie is a session
    panel,     \* "hidden", "signin", "unavailable"
    dash,      \* the dashboard is visible
    sec,       \* per section: [show, gate, call]
    views,     \* calls of updateAuthView in flight
    leave,     \* signOut or the password form
    login      \* the sign-in form

vars == <<session, panel, dash, sec, views, leave, login>>

NoStep == [step |-> "none", old |-> FALSE, live |-> FALSE, reply |-> 0]
Blank == [show |-> "none", gate |-> FALSE, call |-> NoStep]
Idle(c) == c.step = "none"

\* Sections whose read is preceded by a request for the session's token.
WithToken == {"gpt", "service", "policy", "iscsi"}
\* Those that hide the dashboard as soon as the answer is 401.
HidesFirst == {"saved", "nas", "service"}
\* Those whose gate stays closed while they await updateAuthView.
Holds == {"snapshot", "gpt", "policy"}

View(owner, refresh) == [owner |-> owner, refresh |-> refresh, reply |-> "none"]

Ask(owner, refresh) == /\ Cardinality(views) < MaxViews
                       /\ views' = views \cup {View(owner, refresh)}

\* The page loads: updateAuthView().catch(showAuthUnavailable).
Init ==
    /\ session \in BOOLEAN
    /\ panel = "hidden" /\ dash = FALSE
    /\ sec = [s \in Sections |-> Blank]
    /\ views = {View("page", TRUE)}
    /\ leave = NoStep /\ login = NoStep

-----------------------------------------------------------------------------
(* Clearing.  The generation moves on, the fetch is aborted, the section   *)
(* is emptied and may be used again.                                       *)

Cleared(s, x) == IF s = "policy"
                 THEN [x EXCEPT !.show = "none", !.call.live = FALSE]
                 ELSE Blank

Aged(x) == [x EXCEPT !.show = IF @ = "none" THEN @ ELSE "old",
                     !.call.old = ~Idle(x.call)]

\* showAuthUnavailable and the signed-out branch of updateAuthView.
ShowPanel(which) ==
    /\ panel' = which /\ dash' = FALSE
    /\ sec' = [s \in Sections |-> Cleared(s, Aged(sec[s]))]

\* clearSnapshot, clearServicePolicy, clearSavedPolicy, clearPolicyDraft, clearISCSIPreview.
AllButGPT == [s \in Sections |-> IF s = "gpt" THEN sec[s] ELSE Cleared(s, sec[s])]

-----------------------------------------------------------------------------
(* A section is read.                                                      *)

First(s) == IF s \in WithToken THEN "session" ELSE "read"

\* Only the snapshot keeps what it shows until the answers are in.
Opened(s, x) == [show |-> IF s = "snapshot" THEN x.show ELSE "none", gate |-> TRUE,
                 call |-> [step |-> First(s), old |-> FALSE, live |-> TRUE, reply |-> 0]]

Read(s) ==
    /\ dash /\ ~sec[s].gate
    /\ s = "snapshot" => Idle(leave)
    /\ sec' = [sec EXCEPT ![s] = Opened(s, @)]
    /\ UNCHANGED <<session, panel, dash, views, leave, login>>

\* The draft is edited, or another button of the section clears it.
Touch(s) ==
    /\ dash /\ s \in {"policy", "iscsi"}
    /\ sec' = [sec EXCEPT ![s] = Cleared(s, @)]
    /\ UNCHANGED <<session, panel, dash, views, leave, login>>

Served(s) ==
    LET c == sec[s].call IN
    /\ c.step \in {"session", "read"} /\ c.reply = 0
    /\ sec' = [sec EXCEPT ![s].call.reply = IF session THEN 200 ELSE 401]
    /\ UNCHANGED <<session, panel, dash, views, leave, login>>

Replied(s, status) == sec[s].call.step \in {"session", "read"} /\ sec[s].call.reply = status

\* Mutant: the gate is opened again only by a call that is still current.
ClosedIfLive(s, x) == IF x.call.live THEN [x EXCEPT !.gate = FALSE, !.call = NoStep] ELSE [x EXCEPT !.call = NoStep]

\* The finally branch.  A superseded call that was aborted is not seen here: its
\* gate was opened when its section was cleared.
Closed(s, x) == [x EXCEPT !.gate = FALSE, !.call = NoStep]

GoOn(s) ==
    LET x == sec[s] IN
    /\ Replied(s, 200) /\ x.call.step = "session"
    /\ sec' = [sec EXCEPT ![s] = IF x.call.live THEN [x EXCEPT !.call.step = "read", !.call.reply = 0]
                                 ELSE Closed(s, x)]
    /\ UNCHANGED <<session, panel, dash, views, leave, login>>

\* Mutant: whatever arrives is rendered.
RenderAnyway(s) ==
    LET x == sec[s] IN
    /\ Replied(s, 200) /\ x.call.step = "read"
    /\ sec' = [sec EXCEPT ![s] = Closed(s, [x EXCEPT !.show = IF x.call.old THEN "old" ELSE "new"])]
    /\ UNCHANGED <<session, panel, dash, views, leave, login>>

\* An answer that does not validate shows nothing.
Render(s) ==
    LET x == sec[s] IN
    /\ Replied(s, 200) /\ x.call.step = "read"
    /\ \E shown \in {"none", IF x.call.old THEN "old" ELSE "new"} :
          sec' = [sec EXCEPT ![s] = Closed(s, IF x.call.live THEN [x EXCEPT !.show = shown] ELSE x)]
    /\ UNCHANGED <<session, panel, dash, views, leave, login>>

\* Refused with another status, unreachable, or out of time.
Fails(s) ==
    LET x == sec[s] IN
    /\ x.call.step \in {"session", "read"} /\ x.call.reply = 0
    /\ sec' = [sec EXCEPT ![s] = Closed(s, IF x.call.live THEN [x EXCEPT !.show = "none"] ELSE x)]
    /\ UNCHANGED <<session, panel, dash, views, leave, login>>

\* The session is gone.  iscsi-preview.js says so at once; the others ask.
Expired(s) ==
    LET x == sec[s] IN
    /\ Replied(s, 401)
    /\ IF ~x.call.live THEN sec' = [sec EXCEPT ![s] = Closed(s, x)] /\ UNCHANGED <<panel, dash, views>>
       ELSE IF s = "iscsi" THEN ShowPanel("unavailable") /\ UNCHANGED views
       ELSE /\ Ask(s, FALSE)
            /\ dash' = (dash /\ s \notin HidesFirst)
            /\ sec' = [sec EXCEPT ![s] = IF s \in Holds THEN [x EXCEPT !.call.step = "view"] ELSE Blank]
            /\ UNCHANGED panel
    /\ UNCHANGED <<session, leave, login>>

-----------------------------------------------------------------------------
(* updateAuthView.                                                         *)

StatusServed(v) ==
    /\ v.reply = "none"
    /\ views' = (views \ {v}) \cup {[v EXCEPT !.reply = IF session THEN "in" ELSE "out"]}
    /\ UNCHANGED <<session, panel, dash, sec, leave, login>>

\* Whoever awaits the call goes on: a section opens its gate, the forms are enabled.
Awaited(v, secs) ==
    IF v.owner \in Holds \cap Sections /\ secs[v.owner].call.step = "view"
    THEN [secs EXCEPT ![v.owner] = Closed(v.owner, @)] ELSE secs

\* refreshSnapshot at the end of updateAuthView.
Refreshed(secs) ==
    IF "snapshot" \in Sections /\ ~secs["snapshot"].gate /\ Idle(leave)
    THEN [secs EXCEPT !["snapshot"] = Opened("snapshot", @)] ELSE secs

Released(v) == /\ leave' = IF v.owner = "leave" THEN NoStep ELSE leave
               /\ login' = IF v.owner = "login" THEN NoStep ELSE login

\* The snapshot passes its own `current`; a call it no longer owns changes nothing.
Superseded(v) == v.owner = "snapshot" /\ sec["snapshot"].call.step # "view"

Authenticated(v) ==
    /\ v.reply # "none" /\ views' = views \ {v} /\ Released(v)
    /\ CASE Superseded(v) -> UNCHANGED <<panel, dash, sec>>
         [] ~Superseded(v) /\ v.reply = "in" ->
              /\ panel' = "hidden" /\ dash' = TRUE
              /\ sec' = LET secs == Awaited(v, sec) IN IF v.refresh THEN Refreshed(secs) ELSE secs
         [] OTHER ->
              /\ panel' = "signin" /\ dash' = FALSE
              /\ sec' = Awaited(v, [s \in Sections |-> Cleared(s, Aged(sec[s]))])
    /\ UNCHANGED session

\* The status cannot be had.  The sign-in form only says so.
StatusFails(v) ==
    /\ views' = views \ {v} /\ Released(v)
    /\ IF Superseded(v) \/ v.owner = "login" THEN UNCHANGED <<panel, dash, sec>>
       ELSE /\ panel' = "unavailable" /\ dash' = FALSE
            /\ sec' = Awaited(v, [s \in Sections |-> Cleared(s, Aged(sec[s]))])
    /\ UNCHANGED session

Retry == /\ panel = "unavailable" /\ \A v \in views : v.owner # "page"
         /\ Ask("page", TRUE)
         /\ UNCHANGED <<session, panel, dash, sec, leave, login>>

-----------------------------------------------------------------------------
(* signOut and the password form; the sign-in form.                        *)

Leave(kind) ==
    /\ dash /\ Idle(leave)
    /\ leave' = [NoStep EXCEPT !.step = kind] /\ sec' = AllButGPT
    /\ UNCHANGED <<session, panel, dash, views, login>>

\* The session is asked for, then ended: every session, when the password changes.
Left ==
    /\ leave.step \in {"signout", "password"} /\ session
    /\ session' = FALSE
    /\ leave' = [leave EXCEPT !.step = "view"]
    /\ Ask("leave", leave.step = "signout")
    /\ UNCHANGED <<panel, dash, sec, login>>

\* The current password is wrong, or too many attempts.
PasswordRefused == /\ leave.step = "password" /\ leave' = NoStep
                   /\ UNCHANGED <<session, panel, dash, sec, views, login>>

\* Anything else, the time running out after the session has ended included.
LeaveFails ==
    /\ leave.step \in {"signout", "password"} /\ leave' = NoStep
    /\ session' \in {session, FALSE}
    /\ ShowPanel("unavailable")
    /\ UNCHANGED <<views, login>>

SignIn == /\ panel = "signin" /\ Idle(login)
          /\ login' = [NoStep EXCEPT !.step = "post"]
          /\ UNCHANGED <<session, panel, dash, sec, views, leave>>

SignedIn == /\ login.step = "post"
            /\ session' = TRUE /\ login' = [login EXCEPT !.step = "view"]
            /\ Ask("login", TRUE)
            /\ UNCHANGED <<panel, dash, sec, leave>>

SignInFails == /\ login.step = "post" /\ login' = NoStep
               /\ UNCHANGED <<session, panel, dash, sec, views, leave>>

\* A session expires or is revoked; another tab signs in.
SessionChanges == session' = ~session /\ UNCHANGED <<panel, dash, sec, views, leave, login>>

-----------------------------------------------------------------------------

Section(s) == Read(s) \/ Touch(s) \/ Served(s) \/ GoOn(s) \/ Render(s) \/ Fails(s) \/ Expired(s)

Next == \/ \E s \in Sections : Section(s)
        \/ \E v \in views : StatusServed(v) \/ Authenticated(v) \/ StatusFails(v)
        \/ Retry \/ (\E kind \in {"signout", "password"} : Leave(kind))
        \/ Left \/ PasswordRefused \/ LeaveFails
        \/ SignIn \/ SignedIn \/ SignInFails \/ SessionChanges

Spec == Init /\ [][Next]_vars

-----------------------------------------------------------------------------

(***************************************************************************)
(* While the sign-in panel is up no section shows anything, and afterwards *)
(* no answer to what was asked before it appeared is ever put on the       *)
(* screen: every render compares its generation (app.js, service-policy.js *)
(* and iscsi-preview.js) after the last await.                             *)
(***************************************************************************)
OnlyThisSignIn == \A s \in Sections :
    /\ sec[s].show # "old"
    /\ panel # "hidden" => sec[s].show = "none"

(***************************************************************************)
(* A button that is off is off because of a call that is still running,    *)
(* and a current call is the only one of its section: whichever way a call *)
(* ends or is superseded, the section can be used again (the finally       *)
(* branches and the clear functions share the busy flags).                 *)
(***************************************************************************)
NoGateStuck == \A s \in Sections :
    /\ sec[s].gate <=> ~Idle(sec[s].call)
    /\ sec[s].call.step = "view" /\ sec[s].call.live => \E v \in views : v.owner = s
=============================================================================

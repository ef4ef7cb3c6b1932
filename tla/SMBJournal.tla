----------------------------- MODULE SMBJournal -----------------------------
(***************************************************************************)
(* internal/smbprovision: the journal of one account's Samba credential,   *)
(* from the reserved entry to the enabled and disabled account, with the   *)
(* passdb commands of internal/smbexec.  The requests are well formed and  *)
(* a backend is bound; an observed entry has the account's name and ids.   *)
(***************************************************************************)
EXTENDS NativeJournal

CONSTANTS Sids,    \* the SIDs passdb may give the account
          NoSid    \* the journal's empty SID

SidsAssumption == NoSid \notin Sids

\* A passdb entry; NoSid stands for "not present".
Entries == [sid : Sids \cup {NoSid}, disabled : BOOLEAN, password : BOOLEAN]
Absent == [sid |-> NoSid, disabled |-> FALSE, password |-> FALSE]
Present(e) == e.sid # NoSid

Intents == {"CreateIntent", "PasswordIntent", "EnableIntent", "DisableIntent"}
DisabledPhases == {"DisabledNoPassword", "CredentialSetDisabled", "Disabled"}
Calls == {"Step", "SetPasswordDisabled", "Enable", "Disable"}
Empty == [rev |-> 0, phase |-> "none", sid |-> NoSid]

\* What a call of the store records before its command, and after it.
Intent == [op \in Calls |-> CASE op = "Step" -> "CreateIntent"
                              [] op = "SetPasswordDisabled" -> "PasswordIntent"
                              [] op = "Enable" -> "EnableIntent"
                              [] op = "Disable" -> "DisableIntent"]
Confirmed == [op \in Calls |-> CASE op = "Step" -> "DisabledNoPassword"
                                 [] op = "SetPasswordDisabled" -> "CredentialSetDisabled"
                                 [] op = "Enable" -> "Enabled"
                                 [] op = "Disable" -> "Disabled"]

FirstRevision == [PasswordIntent |-> 4, CredentialSetDisabled |-> 5, EnableIntent |-> 6,
                  Enabled |-> 7, DisableIntent |-> 8, Disabled |-> 9]
SidRequired(phase) == phase = "DisabledNoPassword" \/ phase \in DOMAIN FirstRevision

PhaseFits(j) ==
    \/ j.phase = "Reserved" /\ j.rev = 1
    \/ j.phase = "CreateIntent" /\ j.rev = 2
    \/ j.phase = "DisabledNoPassword" /\ j.rev = 3
    \/ /\ j.phase \in DOMAIN FirstRevision
       /\ j.rev >= FirstRevision[j.phase] /\ j.rev % 2 = FirstRevision[j.phase] % 2
    \/ j.phase = "ReviewRequired" /\ j.rev >= 2

\* Mutant: a review needs the SID one revision too early.
ValidateEarlySid(j) ==
    /\ PhaseFits(j)
    /\ SidRequired(j.phase) \/ (j.phase = "ReviewRequired" /\ j.rev >= 3) => j.sid # NoSid

\* Journal.Validate: phase and parity of the revision agree, and a SID is
\* there exactly when the phase needs it (either way in a review at revision 3).
Validate(j) ==
    /\ PhaseFits(j)
    /\ IF SidRequired(j.phase) \/ (j.phase = "ReviewRequired" /\ j.rev >= 4)
       THEN j.sid # NoSid
       ELSE j.sid # NoSid => j.phase = "ReviewRequired" /\ j.rev = 3

TypeOK ==
    /\ JournalTypeOK
    /\ \A j \in disk : j = Empty \/ Validate(j)
    /\ call.op \in Calls \cup {"-", "Begin", "RecoverInterrupted"}
    /\ call.step \in {"-", "observe", "publish", "dispatch", "running", "after", "confirm", "review"}
    /\ call.seen \in Sids \cup {"-"}
    /\ cmd \in Calls \cup {"-"}
    /\ native \in Entries

Init == JournalInit(Empty) /\ native = Absent

-----------------------------------------------------------------------------
\* The intents that a call of op turns into a review; any other is a conflict.
Resumed == [op \in Calls |-> IF op \in {"Enable", "Disable"} THEN {Intent[op]} ELSE Intents]
\* The phases from which op goes on to observe passdb.
From == [op \in Calls |-> CASE op = "Step" -> {"Reserved", "Enabled"} \cup DisabledPhases
                            [] op = "SetPasswordDisabled" -> DisabledPhases
                            [] op = "Enable" -> {"CredentialSetDisabled", "Disabled"}
                            [] op = "Disable" -> {"Enabled"}]

\* What a call makes of the journal it loaded.
Verdict(op, match, cancelled) ==
    CASE op = "RecoverInterrupted" -> IF cur.phase \in Intents THEN "review" ELSE "nil"
      [] ~match -> "ErrConflict"
      [] cur.phase = "ReviewRequired" -> "ErrReview"
      [] cur.phase \in Resumed[op] -> "review"
      [] cur.phase \notin From[op] -> "ErrConflict"
      [] cancelled -> "ctx.Err"
      [] OTHER -> "observe"

\* A call enters the store; Begin looks at passdb before the journal.
Start(op) ==
    /\ Free /\ cur.rev + 2 <= MaxRevision
    /\ IF store = "closed" THEN Returns(op, "ErrClosed")
       ELSE IF op = "Begin" THEN \E v \in {"observe", "ctx.Err"} : Proceeds(op, v, "-")
       ELSE \/ LoadFails(op)
            \/ /\ store = "open" /\ cur.rev # 0
               /\ \E match, cancelled \in BOOLEAN : Proceeds(op, Verdict(op, match, cancelled), "-")
    /\ UNCHANGED <<cur, disk, store, cmd, native, foreign, starts>>

\* Observation.validateFor and the comparison with the journal's SID.
Is(e, disabled) == Present(e) /\ e.sid = cur.sid /\ e.disabled = disabled

\* What a call makes of the entry it observed before acting.
Observed(op, e) ==
    CASE op = "Begin" -> IF Present(e) THEN "ErrReview" ELSE "publish"
      [] op = "Step" /\ cur.phase = "Reserved" -> IF Present(e) THEN "review" ELSE "publish"
      [] op = "Step" /\ cur.phase = "DisabledNoPassword" -> IF Is(e, TRUE) THEN "ErrPending" ELSE "review"
      [] op = "Step" /\ cur.phase = "CredentialSetDisabled" -> IF Is(e, TRUE) THEN "nil" ELSE "review"
      [] op = "Step" -> "ErrInvalid"
      [] OTHER -> IF Is(e, op # "Disable") THEN "publish" ELSE "review"

Observe ==
    /\ call.step = "observe"
    /\ \/ Proceeds(call.op, Observed(call.op, native), "-")
       \/ /\ \/ call.op = "Begin"
             \/ call.op \in {"Enable", "Disable"} /\ Observed(call.op, native) = "publish"
          /\ Returns(call.op, "ctx.Err")
       \/ Returns(call.op, "ErrObservation")
    /\ UNCHANGED <<cur, disk, store, cmd, native, foreign, starts>>

\* The commit before the command: Begin's reservation, or the intent.
Publish ==
    /\ call.step = "publish"
    /\ LET next == IF call.op = "Begin" THEN [Empty EXCEPT !.rev = 1, !.phase = "Reserved"]
                                        ELSE Successor(cur, Intent[call.op])
       IN  IF call.op = "Begin" /\ (cur.rev # 0 \/ store = "uncertain")
           THEN /\ Returns("Begin", IF store = "uncertain" THEN "ErrUncertain" ELSE "ErrConflict")
                /\ UNCHANGED journal
           ELSE \/ /\ Validate(next) /\ Commits(next)
                   /\ IF call.op = "Begin" THEN Returns("Begin", "nil") ELSE Goto(call.op, "dispatch", "-")
                \/ CommitFails(next, Validate(next), call.op, "-")
    /\ UNCHANGED <<cmd, native, foreign, starts>>

\* The backend is called, unless the context was cancelled after the intent.
Dispatch ==
    /\ call.step = "dispatch"
    /\ \/ Goto(call.op, "review", "-") /\ UNCHANGED <<cmd, starts>>
       \/ /\ Goto(call.op, "running", "-")
          /\ cmd' = call.op /\ starts' = [starts EXCEPT ![cur.rev] = @ + 1]
    /\ UNCHANGED <<cur, disk, store, native, foreign>>

\* What the passdb command of op leaves (smbpasswd -a -d,
\* --set-password-disabled, -e, -d).
Left(op, e) ==
    CASE op = "Step" -> IF Present(e) THEN {[e EXCEPT !.disabled = TRUE]}
                        ELSE {[sid |-> s, disabled |-> TRUE, password |-> FALSE] : s \in Sids}
      [] op = "SetPasswordDisabled" -> {[e EXCEPT !.password = Present(e)]}
      [] op = "Enable" -> {[e EXCEPT !.disabled = FALSE]}
      [] op = "Disable" -> {[e EXCEPT !.disabled = Present(e)]}

\* A command may report success without effect; the observation afterwards
\* finds out, but not for a password, which no observation shows: there the
\* exit status of smbpasswd is trusted.
CommandVanishes == (call.step = "running" => cmd # "SetPasswordDisabled") /\ Vanish

CommandEffect == cmd # "-" /\ \E e \in Left(cmd, native) : Effect(e)

\* The backend returns: nil only after its command is through; an error or a
\* cancellation at any time, with the command killed or still running.
CommandReturns ==
    /\ call.step = "running"
    /\ \/ cmd = "-" /\ Goto(call.op, "after", "-") /\ UNCHANGED cmd
       \/ Goto(call.op, "review", "-") /\ cmd' \in {cmd, "-"}
    /\ UNCHANGED <<cur, disk, store, native, foreign, starts>>

\* Mutant: the entry is not compared with what the command should have left.
AchievedAny(op, e) == Present(e)

\* What op must find afterwards.
Achieved(op, e) ==
    IF op = "Step" THEN Present(e) /\ e.disabled ELSE Is(e, op # "Enable")

ObserveAfter ==
    /\ call.step = "after"
    /\ \/ Achieved(call.op, native) /\ Goto(call.op, "confirm", native.sid)
       \/ Goto(call.op, "review", "-")
    /\ UNCHANGED <<cur, disk, store, cmd, native, foreign, starts>>

\* The confirming commit; a failure leaves the intent, or an uncertain store.
Confirm ==
    /\ call.step = "confirm"
    /\ LET next == [Successor(cur, Confirmed[call.op]) EXCEPT !.sid = call.seen]
       IN  \/ Validate(next) /\ Commits(next) /\ Returns(call.op, "nil")
           \/ CommitFails(next, Validate(next), call.op, "-")
    /\ UNCHANGED <<cmd, native, foreign, starts>>

\* Store.review, and the commit of RecoverInterrupted.
Review ==
    /\ call.step = "review"
    /\ LET next == Successor(cur, "ReviewRequired")
           recover == call.op = "RecoverInterrupted"
       IN  \/ /\ Validate(next) /\ Commits(next)
              /\ Returns(call.op, IF recover THEN "nil" ELSE "ErrReview")
           \/ CommitFails(next, Validate(next), call.op, IF recover THEN "-" ELSE "ErrReview")
    /\ UNCHANGED <<cmd, native, foreign, starts>>

Next ==
    \/ Open \/ Close \/ Kill \/ PowerLoss \/ CommandVanishes
    \/ Foreign({e \in Entries : ~Present(e) => e = Absent})
    \/ \E op \in Calls \cup {"Begin", "RecoverInterrupted"} : Start(op)
    \/ Observe \/ Publish \/ Dispatch \/ CommandEffect \/ CommandReturns
    \/ ObserveAfter \/ Confirm \/ Review

Spec == Init /\ [][Next]_vars

-----------------------------------------------------------------------------
\* As long as no other program writes passdb, every journal that a restart may
\* find in a confirmed phase describes the entry (the recorded SID, disabled or
\* enabled as the phase says, no command still at work on it), and access is always
\* on record: an account that can log in was given a password by
\* SetPasswordDisabled, and the journal is in a phase that admits it, or in review.
ConfirmedTrue ==
    foreign = 0 =>
        /\ \A j \in disk :
               j.phase \in DisabledPhases \cup {"Enabled"} =>
                   /\ native.sid = j.sid /\ native.disabled = (j.phase # "Enabled")
                   /\ call.step \notin {"running", "after"} => cmd = "-"
        /\ Present(native) /\ ~native.disabled =>
               /\ native.password
               /\ \A j \in disk : j.phase \in {"EnableIntent", "Enabled", "DisableIntent", "ReviewRequired"}

\* Enable's comment: "It accepts only a confirmed credential-set-disabled
\* account" - an enable intent follows no other phase.
EnableFromCredentialOnly ==
    [][cur'.phase = "EnableIntent" /\ cur.phase # "EnableIntent"
          => cur.phase = "CredentialSetDisabled"]_vars
=============================================================================

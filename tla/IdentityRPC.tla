---------------------------- MODULE IdentityRPC ----------------------------
(***************************************************************************)
(* The channel to the identity owner (identityrpc): a listener with a      *)
(* bounded number of workers, one request per connection, one request      *)
(* admitted at a time, and Call and CallSMB on the other side.  Either end *)
(* may give up while the other goes on, and the owner of the listener      *)
(* closes the authority behind it once the listener says it is closed.     *)
(*                                                                         *)
(* Of the operations there is what the channel can tell: the revision and  *)
(* the phase of the journal; a Samba journal is first made by begin, which *)
(* names the revision of the Unix journal, of which nothing is known here. *)
(* SMBJournal and UnixJournal have the rest.                               *)
(***************************************************************************)
EXTENDS Naturals, FiniteSets

CONSTANTS
    Conns,          \* connections; a number is used again
    Workers,        \* maxConnections
    MaxRevision,    \* bound on the journal's revision
    Version         \* of the protocol: 1 Unix accounts, 2 Samba

RPCAssumption == Workers \in Nat \ {0} /\ MaxRevision \in Nat \ {0} /\ Version \in {1, 2}

VARIABLES
    journal,     \* [rev, phase]
    authority,   \* the owner behind the listener: "open", "closed"
    listener,    \* "down", "up", "draining"
    admitted,    \* Server.mu: the connection that holds it, or none
    link         \* the connections

vars == <<journal, authority, listener, admitted, link>>

Nobody == 0
NoReply == [code |-> "", rev |-> 0, phase |-> ""]
Fail(code) == [NoReply EXCEPT !.code = code]
NoLink == [client |-> "free", server |-> "none", action |-> "", rev |-> 0, reply |-> NoReply, got |-> NoReply, result |-> "", did |-> FALSE, since |-> {}]

---------------------------------------------------------------------------
(* What the operations do to the journal.                                  *)

\* Each action with the phases it starts from, its intent and what it confirms.
Operations ==
    IF Version = 1
    THEN {[action |-> "step", from |-> "reserved", intent |-> "group-intent", to |-> "group-confirmed"],
          [action |-> "step", from |-> "group-confirmed", intent |-> "user-intent", to |-> "unix-confirmed"]}
    ELSE {[action |-> "step", from |-> "reserved", intent |-> "create-disabled-intent", to |-> "disabled-no-password"]}
         \cup {[action |-> "set-password-disabled", from |-> f, intent |-> "set-password-disabled-intent", to |-> "credential-set-disabled"] :
                  f \in {"disabled-no-password", "credential-set-disabled", "disabled"}}
         \cup {[action |-> "enable", from |-> f, intent |-> "enable-intent", to |-> "enabled"] : f \in {"credential-set-disabled", "disabled"}}
         \cup {[action |-> "disable", from |-> "enabled", intent |-> "disable-intent", to |-> "disabled"]}

Actions == {t.action : t \in Operations} \cup (IF Version = 2 THEN {"begin"} ELSE {})
Intents == {t.intent : t \in Operations}

\* The phase in which a step has nothing left to do: it looks, and answers ok.
Finished == IF Version = 1 THEN "unix-confirmed" ELSE "credential-set-disabled"

\* The phases in which a step does no more than look, or no longer does that: a
\* difference and an intent that was left behind are for review.
LooksOnly == IF Version = 1 THEN Intents \cup {Finished} ELSE {"disabled-no-password", Finished}

\* Every operation of the owner starts with a scan, which sets a Samba journal
\* that was left at its intent aside.
Recovered ==
    IF Version = 2 /\ journal.phase \in Intents THEN [rev |-> journal.rev + 1, phase |-> "review-required"] ELSE journal

\* Nothing is done: the revision or the phase is not the expected one, the account
\* is not registered as it was or not observed, or the owner refuses.
Refusals == {"unavailable", "conflict"} \cup (IF Version = 2 THEN {"review", "invalid", "pending"} ELSE {})

\* What an operation answers, and what it leaves: it is refused, finds nothing left
\* to do, is done, ends in review, or a commit fails, with or without effect.
Outcomes(action, rev) ==
    LET j == Recovered
        left(n, phase) == [rev |-> j.rev + n, phase |-> phase]
        review(n) == {<<code, left(n, "review-required")>> : code \in {"review", "unavailable"}}
        when(holds, outcomes) == IF holds THEN outcomes ELSE {}
        idle(phases) == action = "step" /\ rev = j.rev /\ j.phase \in phases
        may == {t \in Operations : t.action = action /\ rev = j.rev /\ t.from = j.phase /\ j.rev + 2 <= MaxRevision}
    IN {<<code, j>> : code \in Refusals} \cup {<<"unavailable", journal>>}
       \cup when(j.phase = "review-required", {<<"review", j>>})
       \cup when(idle({Finished}), {<<"ok", j>>})
       \cup when(idle(LooksOnly) /\ j.rev < MaxRevision, review(1))
       \cup UNION {{<<"ok", left(2, t.to)>>, <<"unavailable", left(1, t.intent)>>, <<"unavailable", left(2, t.to)>>}
                      \cup review(1) \cup review(2) : t \in may}
       \cup when(action = "begin" /\ j.phase = "none", {<<code, left(1, "reserved")>> : code \in {"ok", "unavailable"}})

\* Response.valid and validSMBResponse: the answers a caller understands.
Understood(reply) ==
    IF reply.code # "ok" THEN TRUE
    ELSE LET fixed == IF Version = 1
                      THEN {<<"reserved", 1>>, <<"group-intent", 2>>, <<"group-confirmed", 3>>, <<"user-intent", 4>>, <<"unix-confirmed", 5>>}
                      ELSE {<<"reserved", 1>>, <<"create-disabled-intent", 2>>, <<"disabled-no-password", 3>>, <<"set-password-disabled-intent", 4>>,
                            <<"credential-set-disabled", 5>>, <<"enable-intent", 6>>}
         IN \/ <<reply.phase, reply.rev>> \in fixed
            \/ reply.phase = "review-required" /\ reply.rev >= 2 /\ (Version = 1 => reply.rev <= 6)
            \/ /\ Version = 2
               /\ \/ reply.phase = "enabled" /\ reply.rev >= 7 /\ reply.rev % 2 = 1
                  \/ reply.phase = "disable-intent" /\ reply.rev >= 8 /\ reply.rev % 2 = 0
                  \/ reply.phase = "disabled" /\ reply.rev >= 9 /\ reply.rev % 2 = 1

Init ==
    /\ journal = IF Version = 1 THEN [rev |-> 1, phase |-> "reserved"] ELSE [rev |-> 0, phase |-> "none"]
    /\ authority = "open" /\ listener = "down" /\ admitted = Nobody
    /\ link = [c \in Conns |-> NoLink]

---------------------------------------------------------------------------
(* Call and CallSMB.                                                       *)

\* A connection is made and the request sent; the queue of the socket takes it.
Dial(c, action, rev) ==
    /\ link[c] = NoLink /\ listener = "up"
    /\ link' = [link EXCEPT ![c] = [NoLink EXCEPT !.client = "waiting", !.server = "queued", !.action = action, !.rev = rev]]
    /\ UNCHANGED <<journal, authority, listener, admitted>>

\* The answer is there, whole; one that is not understood is no answer.
Receive(c) ==
    /\ link[c].client = "waiting" /\ link[c].server = "sent"
    /\ link' = [link EXCEPT ![c].client = "done", ![c].server = "ended", ![c].reply = NoReply, ![c].got = link[c].reply,
                            ![c].result = IF Understood(link[c].reply) THEN link[c].reply.code ELSE "ErrChannel"]
    /\ UNCHANGED <<journal, authority, listener, admitted>>

\* The deadline, a cancellation, or a connection closed without an answer.
GiveUp(c) ==
    /\ link[c].client = "waiting"
    /\ link' = [link EXCEPT ![c].client = "done", ![c].result = "ErrChannel", ![c].since = {}, ![c].reply = NoReply, ![c].did = FALSE,
                            ![c].server = IF @ = "sent" THEN "ended" ELSE @]
    /\ UNCHANGED <<journal, authority, listener, admitted>>

Forget(c) ==
    /\ link[c].client = "done" /\ link[c].server \in {"none", "ended"} /\ link' = [link EXCEPT ![c] = NoLink]
    /\ UNCHANGED <<journal, authority, listener, admitted>>

---------------------------------------------------------------------------
(* The listener.                                                           *)

Busy == {c \in Conns : link[c].server \in {"accepted", "admitted", "acted", "answering"}}
Waits(c) == link[c].client = "waiting"
Server(c, stage) == link' = [link EXCEPT ![c].server = stage]

\* Listen and Run.  Module StorageBroker has the socket's name and its lock.
Listen ==
    /\ listener = "down" /\ authority = "open" /\ listener' = "up"
    /\ UNCHANGED <<journal, authority, admitted, link>>

\* A worker takes the connection, or it is closed when all of them are at work.
Accept(c) ==
    /\ listener = "up" /\ link[c].server = "queued"
    /\ Server(c, IF Cardinality(Busy) < Workers THEN "accepted" ELSE "ended")
    /\ UNCHANGED <<journal, authority, listener, admitted>>

\* A cancellation, a failing accept or a socket that is not ours any more:
\* nothing is accepted, and what waits is cut off.
Stop ==
    /\ listener = "up" /\ listener' = "draining"
    /\ link' = [c \in Conns |-> IF link[c].server = "queued" THEN [link[c] EXCEPT !.server = "ended"] ELSE link[c]]
    /\ UNCHANGED <<journal, authority, admitted>>

DrainedAnyway ==
    /\ listener = "draining" /\ listener' = "down"
    /\ UNCHANGED <<journal, authority, admitted, link>>

\* Run and Close return when the last worker has.
Drained ==
    /\ listener = "draining" /\ Busy = {} /\ listener' = "down"
    /\ UNCHANGED <<journal, authority, admitted, link>>

\* The caller closes its stores after the listener, and opens them before it.
Authority ==
    /\ listener = "down" /\ authority' = (IF authority = "open" THEN "closed" ELSE "open")
    /\ UNCHANGED <<journal, listener, admitted, link>>

---------------------------------------------------------------------------
(* Serve: one worker.                                                      *)

\* Admission before anything is read; who is not admitted is not answered.
Admit(c) ==
    /\ link[c].server = "accepted"
    /\ IF admitted = Nobody THEN admitted' = c /\ Server(c, "admitted")
       ELSE Server(c, "ended") /\ UNCHANGED admitted
    /\ UNCHANGED <<journal, authority, listener>>

\* The journal moves on: a caller whose operation was carried out may be told of it.
Moves(j, links) ==
    /\ journal' = j
    /\ link' = [c \in Conns |-> IF links[c].server = "acted" /\ Waits(c) THEN [links[c] EXCEPT !.since = @ \cup {j}] ELSE links[c]]

\* The reply is ready: the lock is released before it is written.
Answers(c, did, j, reply) ==
    /\ LET kept == [link[c] EXCEPT !.server = "answering", !.rev = 0]
           told == [kept EXCEPT !.reply = reply, !.did = did, !.since = IF reply.code = "ok" THEN @ \cup {j} ELSE {}]
       IN Moves(j, [link EXCEPT ![c] = IF Waits(c) THEN told ELSE kept])
    /\ admitted' = Nobody

State(j) == [code |-> "ok", rev |-> j.rev, phase |-> j.phase]

\* The request cannot be read, or its deadline has passed.
Hangs(c) ==
    /\ link[c].server = "admitted" /\ admitted' = Nobody /\ Server(c, "ended")
    /\ UNCHANGED <<journal, authority, listener>>

\* The account of the request is not the bound one, or cannot be loaded.
Refuse(c) ==
    /\ link[c].server = "admitted" /\ \E code \in Refusals, j \in {journal, Recovered} : Answers(c, FALSE, j, Fail(code))
    /\ UNCHANGED <<authority, listener>>

Status(c) ==
    /\ link[c].server = "admitted" /\ link[c].action = "status" /\ journal.phase # "none"
    /\ Answers(c, FALSE, Recovered, State(Recovered))
    /\ UNCHANGED <<authority, listener>>

\* The operation, whatever has become of the caller.
Act(c) ==
    /\ link[c].server = "admitted" /\ link[c].action # "status"
    /\ \E out \in Outcomes(link[c].action, link[c].rev) :
          LET did == Waits(c) /\ out[2] \notin {journal, Recovered}
          IN IF out[1] = "ok"
             THEN Moves(out[2], [link EXCEPT ![c].server = "acted", ![c].rev = 0, ![c].did = did]) /\ UNCHANGED admitted
             ELSE Answers(c, did, out[2], Fail(out[1]))
    /\ UNCHANGED <<authority, listener>>

ReadBeforeAct(c) ==
    /\ link[c].server = "acted"
    /\ Answers(c, link[c].did, journal, State([rev |-> 1, phase |-> "reserved"]))
    /\ UNCHANGED <<authority, listener>>

\* The journal is loaded again for the answer.
Reread(c) ==
    /\ link[c].server = "acted"
    /\ \E reply \in {State(Recovered), Fail("unavailable")} : Answers(c, link[c].did, Recovered, reply)
    /\ UNCHANGED <<authority, listener>>

\* The reply is written to a caller that is still there, or not.
Write(c) ==
    /\ link[c].server = "answering"
    /\ \/ link[c].client = "waiting" /\ listener = "up" /\ Server(c, "sent")
       \/ Server(c, "ended")
    /\ UNCHANGED <<journal, authority, listener, admitted>>

\* Somebody else in the authority's process: SetDesiredState, a disable.
Elsewhere ==
    /\ authority = "open" /\ journal.rev + 2 <= MaxRevision
    /\ \E t \in Operations : t.from = journal.phase /\ Moves([rev |-> journal.rev + 2, phase |-> t.to], link)
    /\ UNCHANGED <<authority, listener, admitted>>

\* A caller knows the journal's revision, or an old one.
Client(c) == Receive(c) \/ GiveUp(c)
Worker(c) == Admit(c) \/ Hangs(c) \/ Refuse(c) \/ Status(c) \/ Act(c) \/ Reread(c) \/ Write(c)

Next ==
    \/ \E c \in Conns : \/ Dial(c, "status", 0) \/ \E action \in Actions, rev \in {1, journal.rev} \ {0} : Dial(c, action, rev)
                        \/ Client(c) \/ Worker(c) \/ Accept(c) \/ Forget(c)
    \/ Listen \/ Stop \/ Drained \/ Authority \/ Elsewhere

Spec == Init /\ [][Next]_vars

---------------------------------------------------------------------------
(* Properties.                                                             *)

\* What a caller is told is so, although it may have waited while others changed
\* the journal: after "ok" the journal was in the state it is given at some
\* moment while it was admitted, for a mutation after it was carried out; a mutation took
\* effect then, or was a step and found the journal finished; after a conflict or
\* an invalid request the operation itself did nothing.
AnswerIsTrue ==
    \A c \in Conns : link[c].client = "done" =>
        /\ link[c].result = "ok" => [rev |-> link[c].got.rev, phase |-> link[c].got.phase] \in link[c].since
        /\ link[c].result = "ok" /\ link[c].action # "status" =>
              link[c].did \/ (link[c].action = "step" /\ \E j \in link[c].since : j.phase = Finished)
        /\ link[c].result \in {"conflict", "invalid", "pending"} => ~link[c].did

\* An answered call holds nothing that could refuse the next one, and when the
\* authority is closed no operation of the channel is under way.
NothingHeldAfter ==
    /\ \A c \in Conns : link[c].client = "done" /\ link[c].result # "ErrChannel" => admitted # c
    /\ authority = "closed" => \A c \in Conns : link[c].server \notin {"admitted", "acted"}

\* "Successful replies carry a validated journal phase/revision": an answer that
\* arrives is not taken for a failure of the channel.
EveryReplyUnderstood ==
    \A c \in Conns : link[c].client = "done" /\ link[c].got.code = "ok" => link[c].result = "ok"
=============================================================================

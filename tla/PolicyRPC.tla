----------------------------- MODULE PolicyRPC -----------------------------
(***************************************************************************)
(* The one connection between the panel and the root process that owns the *)
(* NAS policy (internal/naspolicyrpc): Client.call, which handlers call    *)
(* concurrently, and Server.Serve, a loop that reads a frame, asks the     *)
(* owner and answers.  Frames carry no identifier: a reply belongs to the  *)
(* request it follows on the stream.  Each end works against a deadline of *)
(* its own, so either may give up while the other goes on.                 *)
(*                                                                         *)
(* The owner is reduced to what OwnedStore's Snapshot and Commit may       *)
(* answer; module OwnedPolicy has the rest.  Frames are whole or Torn (cut *)
(* off by a failed write).                                                 *)
(***************************************************************************)
EXTENDS Naturals, Sequences

CONSTANTS Calls,            \* bound: the calls made, each once
          Vals,
          Torn, None,
          MaxRevision       \* bound: revisions 1..MaxRevision

ConstantsAssumption == MaxRevision \in Nat /\ None \notin Calls

Docs == [rev : 1..MaxRevision, val : Vals]

VARIABLES
    review, closed,       \* Client.review, Client.closed
    mu,                   \* the call that holds Client.mu, None when free
    call,                 \* every call
    toServer, toClient,   \* frames under way on the stream
    server,               \* the server loop: "idle", "serving", "answering", "ended"
    frame,                \* the request being served, then the answer to it
    policy, ownerReview,  \* the owner's document, and its quarantine
    did                   \* history: the commits that were applied

client == <<review, closed, mu>>
wire == <<toServer, toClient>>
loop == <<server, frame>>
owner == <<policy, ownerReview, did>>
vars == <<client, call, wire, loop, owner>>

\* since: the documents there were while the call went on (history).
NoCall == [pc |-> "-", want |-> None, since |-> {}, res |-> "-", got |-> None]

Refusals == {"ErrBusy", "ErrConflict", "ErrInvalid", "ErrClosed", "cancelled"}
Statuses == {"nil", "ErrBusy", "ErrConflict", "ErrInvalid", "ErrReview", "ErrClosed"}

TypeOK ==
    /\ review \in BOOLEAN /\ closed \in BOOLEAN /\ ownerReview \in BOOLEAN
    /\ mu \in Calls \cup {None}
    /\ policy \in Docs /\ did \in SUBSET Calls
    /\ server \in {"idle", "serving", "answering", "ended"}
    /\ Len(toServer) <= 1 /\ Len(toClient) <= 1
    /\ \A c \in Calls : /\ call[c].pc \in {"-", "calling", "waiting", "done"}
                          /\ call[c].res \in {"-", "cancelled"} \cup Statuses
                          /\ call[c].since \subseteq Docs

Init ==
    /\ review = FALSE /\ closed = FALSE /\ mu = None
    /\ call = [c \in Calls |-> NoCall]
    /\ toServer = <<>> /\ toClient = <<>>
    /\ server = "idle" /\ frame = None
    /\ policy \in {d \in Docs : d.rev = 1} /\ ownerReview = FALSE /\ did = {}

Returns(c, res, got) ==
    call' = [call EXCEPT ![c].pc = "done", ![c].res = res, ![c].got = got]

-----------------------------------------------------------------------------
(* Client.call.                                                            *)

\* A call wants a snapshot (None) or commits a document on the revision before it.
Begin(c, want) ==
    /\ call[c].pc = "-"
    /\ call' = [call EXCEPT ![c] = [NoCall EXCEPT !.pc = "calling", !.want = want, !.since = {policy}]]
    /\ UNCHANGED <<client, wire, loop, owner>>

\* Everything before the first byte is sent.
Refused(c) ==
    /\ call[c].pc = "calling"
    /\ \/ mu # None /\ Returns(c, "ErrBusy", None)
       \/ mu = None /\ closed /\ Returns(c, "ErrClosed", None)
       \/ mu = None /\ ~closed /\ review /\ Returns(c, "ErrReview", None)
       \/ mu = None /\ ~closed /\ ~review /\ Returns(c, "cancelled", None)
       \/ mu = None /\ ~closed /\ ~review /\ call[c].want # None /\ Returns(c, "ErrInvalid", None)
    /\ UNCHANGED <<client, wire, loop, owner>>

Request(c) == [from |-> c, want |-> call[c].want]

Send(c) ==
    /\ call[c].pc = "calling" /\ mu = None /\ ~closed /\ ~review
    /\ mu' = c
    /\ call' = [call EXCEPT ![c].pc = "waiting"]
    /\ toServer' = Append(toServer, Request(c))
    /\ UNCHANGED <<review, closed, toClient, loop, owner>>

\* Mutant: only the end of the stream ends the wait, not the deadline.
FailAtEnd(c) ==
    /\ call[c].pc = "waiting" /\ server = "ended"
    /\ review' = TRUE /\ mu' = None
    /\ Returns(c, "ErrReview", None)
    /\ UNCHANGED <<closed, wire, loop, owner>>

\* The deadline, a cancellation, a closed stream: no answer, so no claim.
Fail(c) ==
    /\ call[c].pc = "waiting"
    /\ review' = TRUE /\ mu' = None
    /\ Returns(c, "ErrReview", None)
    /\ UNCHANGED <<closed, wire, loop, owner>>

\* The frame is cut off by the deadline: the server gets part of it or nothing.
SendFails(c) ==
    /\ call[c].pc = "calling" /\ mu = None /\ ~closed /\ ~review
    /\ review' = TRUE
    /\ Returns(c, "ErrReview", None)
    /\ toServer' \in {toServer, Append(toServer, Torn)}
    /\ UNCHANGED <<closed, mu, toClient, loop, owner>>

\* A positive answer fits the request: the revision committed, or a document.
Fits(c, reply) ==
    IF call[c].want = None THEN reply.doc # None
    ELSE reply.doc = None /\ reply.rev = call[c].want.rev

Receive(c) ==
    /\ call[c].pc = "waiting" /\ toClient # <<>>
    /\ toClient' = Tail(toClient)
    /\ mu' = None
    /\ LET reply == Head(toClient)
       IN IF reply = Torn \/ (reply.status = "nil" /\ ~Fits(c, reply))
          THEN review' = TRUE /\ Returns(c, "ErrReview", None)
          ELSE /\ review' = (review \/ reply.status \in {"ErrReview", "ErrClosed"})
               /\ Returns(c, reply.status, reply.doc)
    /\ UNCHANGED <<closed, toServer, loop, owner>>

Close ==
    /\ mu = None /\ ~closed
    /\ closed' = TRUE
    /\ UNCHANGED <<review, mu, call, wire, loop, owner>>

-----------------------------------------------------------------------------
(* serve: one frame at a time, an answer to each, until something fails.   *)

Ends == server' = "ended" /\ frame' = None

Read ==
    /\ server = "idle" /\ toServer # <<>>
    /\ toServer' = Tail(toServer)
    /\ IF Head(toServer) = Torn THEN Ends ELSE server' = "serving" /\ frame' = Head(toServer)
    /\ UNCHANGED <<client, call, toClient, owner>>

Answer(status, rev, doc) ==
    server' = "answering" /\ frame' = [status |-> status, rev |-> rev, doc |-> doc]

\* Every call that goes on sees the document there is now.
Publish(d) ==
    /\ policy' = d
    /\ did' = did \cup {frame.from}
    /\ call' = [c \in Calls |-> IF call[c].pc \in {"calling", "waiting"}
                               THEN [call[c] EXCEPT !.since = @ \cup {d}] ELSE call[c]]

\* Mutant: what the owner cannot say is answered as a conflict.
DispatchConflict ==
    /\ server = "serving" /\ frame.want # None /\ ~ownerReview
    /\ Publish(frame.want) /\ ownerReview' = TRUE
    /\ Answer("ErrConflict", 0, None)
    /\ UNCHANGED <<client, wire>>

\* dispatch asks the owner.  Its review may come with the document published.
Dispatch ==
    /\ server = "serving"
    /\ \/ /\ frame.want = None /\ ~ownerReview
          /\ Answer("nil", policy.rev, policy) /\ UNCHANGED <<owner, call>>
       \/ /\ frame.want # None /\ ~ownerReview /\ policy.rev + 1 = frame.want.rev
          /\ Publish(frame.want)
          /\ \/ Answer("nil", frame.want.rev, None) /\ UNCHANGED ownerReview
             \/ Answer("ErrReview", 0, None) /\ ownerReview' = TRUE
       \/ /\ frame.want # None /\ ~ownerReview /\ policy.rev + 1 # frame.want.rev
          /\ Answer("ErrConflict", 0, None) /\ UNCHANGED <<owner, call>>
       \/ /\ frame.want # None /\ ~ownerReview
          /\ Answer("ErrBusy", 0, None) \/ Answer("ErrInvalid", 0, None)
          /\ UNCHANGED <<owner, call>>
       \/ /\ Answer("ErrReview", 0, None) /\ ownerReview' \in {ownerReview, TRUE}
          /\ UNCHANGED <<policy, did, call>>
       \/ Answer("ErrClosed", 0, None) /\ UNCHANGED <<owner, call>>
    /\ UNCHANGED <<client, wire>>

\* The answer goes out, or is cut off; after a failure or a final status the loop ends.
Write ==
    /\ server = "answering"
    /\ \/ /\ toClient' = Append(toClient, frame)
          /\ IF frame.status \in {"ErrReview", "ErrClosed"} THEN Ends ELSE server' = "idle" /\ frame' = None
       \/ toClient' \in {toClient, Append(toClient, Torn)} /\ Ends
    /\ UNCHANGED <<client, call, toServer, owner>>

\* The service is stopped, or the client has gone, while the loop waits for a frame.
Stop ==
    /\ server = "idle"
    /\ Ends
    /\ UNCHANGED <<client, call, wire, owner>>

Step(c) == Refused(c) \/ Send(c) \/ SendFails(c) \/ Receive(c) \/ Fail(c)

Next ==
    \/ \E c \in Calls : (\E want \in {d \in Docs : d.rev > 1} \cup {None} : Begin(c, want)) \/ Step(c)
    \/ Close \/ Read \/ Dispatch \/ Write \/ Stop

Spec == Init /\ [][Next]_vars

\* The deadline of call always ends it.
Fairness == \A c \in Calls : WF_vars(Step(c))
FairSpec == Spec /\ Fairness

-----------------------------------------------------------------------------
(* What the channel promises.                                              *)

\* An answer is about the request it is given for, although frames carry no
\* identifier and calls time out: nil for a commit means that commit was applied,
\* a refusal that it was not and never will be, and a snapshot is the document
\* there was at some moment of the call.
AnswerIsTrue ==
    \A c \in Calls : call[c].pc = "done" =>
        /\ call[c].res = "nil" /\ call[c].want # None => c \in did
        /\ call[c].res = "nil" /\ call[c].want = None => call[c].got \in call[c].since
        /\ call[c].res \in Refusals => c \notin did

\* Every call returns, whatever the server does.
EveryCallReturns == \A c \in Calls : call[c].pc = "calling" ~> call[c].pc = "done"
=============================================================================

----------------------------- MODULE MCRecords -----------------------------
(***************************************************************************)
(* What is written down before and after it is done, each by itself (the   *)
(* part that is not at work stays in its initial state):                   *)
(*  - the NAS policy's writer with two contents, four revisions, so that   *)
(*    an old receipt has to be retired, and two operation identifiers;     *)
(*  - the channel to it with two calls that overlap, two contents and two  *)
(*    commits in a row;                                                    *)
(*  - the Samba journal with two SIDs, so that a replaced entry can be     *)
(*    told from the recorded one, and twelve revisions: create, password,  *)
(*    enable, disable and one round more; one write of another program;    *)
(*  - the Unix journal, which ends at revision 5, or in review by 6; two   *)
(*    writes of other programs: one may undo or hide the other;            *)
(*  - the channel to the identity owner, with two connections for two      *)
(*    workers and one operation on a Unix account;                         *)
(*  - the revocation of SMB sessions, with two logins of the account that  *)
(*    is disabled and two of its peer;                                     *)
(*  - the events of one step of the writer, two of them in a read and six  *)
(*    in the kernel's queue, and three acts of other programs.             *)
(***************************************************************************)
EXTENDS NASWriter, TLC

CONSTANTS v1, v2, o1, o2, c1, c2, Torn, NoSid, Sids

VARIABLES part,
          rReview, closed, mu, rCall, toServer, toClient, server, frame, policy, ownerReview, did,
          sCur, sDisk, sStore, sCall, sCmd, sNative, sForeign, sRet, sStarts,
          uCur, uDisk, uStore, uCall, uCmd, uNative, uForeign, uRet, uStarts,
          journal, authority, listener, admitted, link,
          disabled, joining, live, used, asked, bCall, views, pair, backend,
          wNames, wQueue, wPrevious, wCookies, wStep, wEvents, wReads, wOthers

channelVars == <<rReview, closed, mu, rCall, toServer, toClient, server, frame, policy, ownerReview, did>>
smbVars == <<sCur, sDisk, sStore, sCall, sCmd, sNative, sForeign, sRet, sStarts>>
unixVars == <<uCur, uDisk, uStore, uCall, uCmd, uNative, uForeign, uRet, uStarts>>
linkVars == <<journal, authority, listener, admitted, link>>
sessionVars == <<disabled, joining, live, used, asked, bCall, views, pair, backend>>
watchVars == <<wNames, wQueue, wPrevious, wCookies, wStep, wEvents, wReads, wOthers>>

Channel == INSTANCE PolicyRPC WITH review <- rReview, call <- rCall, Calls <- {c1, c2}, MaxRevision <- 3

Samba == INSTANCE SMBJournal WITH
    MaxRevision <- 12, MaxForeign <- 1,
    cur <- sCur, disk <- sDisk, store <- sStore, call <- sCall, cmd <- sCmd, native <- sNative,
    foreign <- sForeign, ret <- sRet, starts <- sStarts

Unix == INSTANCE UnixJournal WITH
    MaxRevision <- 6, MaxForeign <- 2,
    cur <- uCur, disk <- uDisk, store <- uStore, call <- uCall, cmd <- uCmd, native <- uNative,
    foreign <- uForeign, ret <- uRet, starts <- uStarts

Identity == INSTANCE IdentityRPC WITH Conns <- 1..2, Workers <- 2, MaxRevision <- 6, Version <- 1
SambaIdentity == INSTANCE IdentityRPC WITH Conns <- {1}, Workers <- 1, MaxRevision <- 7, Version <- 2

Sessions == INSTANCE SMBSessions WITH
    Logins <- {"qpmanaged", "qpsecond"} \X {1, 2}, MaxStatus <- 2, call <- bCall

Watch == INSTANCE WriterEvents WITH
    PerRead <- 2, MaxQueue <- 6, MaxForeign <- 3, names <- wNames, queue <- wQueue,
    previous <- wPrevious,
    cookies <- wCookies, step <- wStep, e <- wEvents, reads <- wReads, others <- wOthers

ASSUME PartsAssumption ==
    /\ Channel!ConstantsAssumption
    /\ Samba!BoundsAssumption /\ Samba!SidsAssumption /\ Unix!BoundsAssumption
    /\ Identity!RPCAssumption /\ SambaIdentity!RPCAssumption /\ Sessions!LoginsAssumption

MCVals == {v1, v2}
MCOperationIds == {o1, o2}
\* v2 may not be followed by v1: a binding once recorded is retained.
MCTransitions == {<<v1, v1>>, <<v1, v2>>, <<v2, v2>>}

First == [rev |-> 1, val |-> v1]

MCInit ==
    /\ part \in {"writer", "channel", "samba", "unix", "identity", "credentials", "sessions", "events"}
    /\ Init /\ Channel!Init /\ Samba!Init /\ Unix!Init /\ Sessions!Init
    /\ IF part = "credentials" THEN SambaIdentity!Init ELSE Identity!Init
    /\ Watch!Init /\ (part # "events" => wEvents.retirement)
    /\ part # "writer" => dir.current = First
    /\ part # "channel" => policy = First

MCNext ==
    \/ part = "writer" /\ Next /\ UNCHANGED <<part, channelVars, smbVars, unixVars, linkVars, sessionVars, watchVars>>
    \/ part = "channel" /\ Channel!Next /\ UNCHANGED <<part, vars, smbVars, unixVars, linkVars, sessionVars, watchVars>>
    \/ part = "samba" /\ Samba!Next /\ UNCHANGED <<part, vars, channelVars, unixVars, linkVars, sessionVars, watchVars>>
    \/ part = "unix" /\ Unix!Next /\ UNCHANGED <<part, vars, channelVars, smbVars, linkVars, sessionVars, watchVars>>
    \/ part = "identity" /\ Identity!Next /\ UNCHANGED <<part, vars, channelVars, smbVars, unixVars, sessionVars, watchVars>>
    \/ part = "credentials" /\ SambaIdentity!Next /\ UNCHANGED <<part, vars, channelVars, smbVars, unixVars, sessionVars, watchVars>>
    \/ part = "sessions" /\ Sessions!Next /\ UNCHANGED <<part, vars, channelVars, smbVars, unixVars, linkVars, watchVars>>
    \/ part = "events" /\ Watch!Next /\ UNCHANGED <<part, vars, channelVars, smbVars, unixVars, linkVars, sessionVars>>

MCSpec == /\ MCInit /\ [][MCNext]_<<part, vars, channelVars, smbVars, unixVars, linkVars, sessionVars, watchVars>>
          /\ Channel!Fairness

\* AnswerIsTrue of both channels: a call is told what became of its own request;
\* NothingHeldAfter of the identity channel: an answered call holds nothing, and
\* nothing is under way when its authority closes; ContinuityIsOfSessions: a session
\* that is said to continue is the one there was; ObservedIsSo: an entry is as listed;
\* AcceptedIsOwn and AloneIsAccepted: events that are taken for the writer's are.
AnswerIsTrue ==
    CASE part = "channel" -> Channel!AnswerIsTrue
      [] part = "identity" -> Identity!AnswerIsTrue /\ Identity!NothingHeldAfter
      [] part = "credentials" -> SambaIdentity!AnswerIsTrue /\ SambaIdentity!NothingHeldAfter
      [] part = "sessions" -> /\ Sessions!ContinuityIsOfSessions /\ Sessions!ObservedIsSo
                              /\ Sessions!ConfigOutlivesRuntime
      [] part = "events" -> Watch!AcceptedIsOwn /\ Watch!AloneIsAccepted
      [] OTHER -> TRUE

\* EveryCallReturns of the policy's channel: the deadline ends every call.
EveryCallReturns == Channel!EveryCallReturns

\* ConfirmedTrue of the Samba journal: what it says of the entry is true, and no
\* call is stuck on a refused record (AlwaysRecordable); JournalTellsAccount of the
\* Unix journal: what it says of the account is true; RevokedIsGone: sessions that
\* are said to be revoked are, within the time that is allowed (BudgetSuffices).
ConfirmedTrue ==
    CASE part = "samba" -> Samba!ConfirmedTrue /\ Samba!AlwaysRecordable
      [] part = "unix" -> Unix!JournalTellsAccount
      [] part = "sessions" -> Sessions!RevokedIsGone /\ Sessions!BudgetSuffices
      [] OTHER -> TRUE

\* NoSecondAttempt of both journals: no command is repeated; OneLogoff: nor is the
\* message that logs sessions off.
NoSecondAttempt == Samba!NoSecondAttempt /\ Unix!NoSecondAttempt /\ Sessions!OneLogoff
=============================================================================

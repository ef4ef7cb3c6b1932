--------------------------- MODULE MCFileServices ---------------------------
(***************************************************************************)
(* What is between a saved policy and a running file service, each part by *)
(* itself (the others stay in their initial states):                       *)
(*  - the planned service over two users and a volume, with two policies   *)
(*    of one revision, two changes of the evidence and two observations;   *)
(*  - the NFS service through two lifetimes with a check in each;          *)
(*  - the capture of server frames: two workers of the daemon, one change  *)
(*    of the retained inputs, one report of a worker that does not serve;  *)
(*  - a bundle of two files and a state directory, changed twice;          *)
(*  - the native Samba runtime, alone or owned by the identity service;    *)
(*  - one isolated process, whose inputs change three times.               *)
(***************************************************************************)
EXTENDS PlannedService, TLC

VARIABLES part,
          nLife, nLives, nCall, nNfsd, nActive, nRetained, nClient, nForeign,
          nStops,
          cO, cC, cP, cR, cD, cWorkers, cForked, cServing, cChan, cReports, cStray,
          cCop, cRop, cDrift, cDrifts, cPublished,
          bPaths, bInodes, bDir, bEvents, bOp, bTodo, bDirver, bTable, bPins, bHeld,
          bOwner, bReview, bUnclosed, bProcs, bAnswer, bBegan, bDrifted,
          sR, sSets, sCapture, sAuth, sOp, sSvc, sSeen, sDrift, sDrifts,
          iHandoff, iPin, iOwner, iChild, iCall, iDrift, iDrifts, iNoticed

Grant(u, a) == [user |-> u, access |-> a]
Shared(g) == {[vol |-> "v1", whole |-> FALSE, grants |-> {g}]}
MCPolicies ==
    { [rev |-> 1, shares |-> Shared(Grant("al", "rw")), exports |-> {}],
      [rev |-> 1, shares |-> Shared(Grant("al", "ro")),
       exports |-> {[vol |-> "v1", access |-> "rw", sec |-> "sys"]}],
      [rev |-> 1, shares |-> Shared(Grant("al", "rw")),
       exports |-> {[vol |-> "v1", access |-> "ro", sec |-> "krb5"]}] }

-----------------------------------------------------------------------------
nfsVars == <<nLife, nLives, nCall, nNfsd, nActive, nRetained, nClient, nForeign,
    nStops>>
NFS == INSTANCE NFSService WITH
    MaxLives <- 2, MaxChecks <- 1, life <- nLife, lives <- nLives, call <- nCall,
    nfsd <- nNfsd, active <- nActive, retained <- nRetained, client <- nClient,
    foreign <- nForeign, stops <- nStops

captureVars == <<cO, cC, cP, cR, cD, cWorkers, cForked, cServing, cChan, cReports,
    cStray, cCop, cRop, cDrift, cDrifts, cPublished>>
Capture == INSTANCE ServerCapture WITH
    MaxWorkers <- 2, MaxDrifts <- 1, MaxStray <- 1, o <- cO, c <- cC, p <- cP,
    r <- cR, d <- cD, workers <- cWorkers, forked <- cForked, serving <- cServing,
    chan <- cChan, reports <- cReports, stray <- cStray, cop <- cCop, rop <- cRop,
    drift <- cDrift, drifts <- cDrifts, published <- cPublished

bundleVars == <<bPaths, bInodes, bDir, bEvents, bOp, bTodo, bDirver, bTable, bPins,
    bHeld, bOwner, bReview, bUnclosed, bProcs, bAnswer, bBegan,
    bDrifted>>
Bundle == INSTANCE RuntimeBundle WITH
    Files <- {"f1", "f2"}, Dirs <- {"s1"}, MaxEvents <- 2, paths <- bPaths,
    inodes <- bInodes, dir <- bDir, events <- bEvents, op <- bOp, todo <- bTodo,
    dirver <- bDirver, table <- bTable, pins <- bPins, held <- bHeld,
    owner <- bOwner, review <- bReview, unclosed <- bUnclosed, procs <- bProcs,
    answer <- bAnswer, began <- bBegan, drifted <- bDrifted

nativeVars == <<sR, sSets, sCapture, sAuth, sOp, sSvc, sSeen, sDrift, sDrifts>>
Native == INSTANCE NativeSamba WITH
    Files <- {"f1"}, MaxDrifts <- 1, r <- sR, sets <- sSets, capture <- sCapture,
    auth <- sAuth, op <- sOp, svc <- sSvc, seen <- sSeen, drift <- sDrift,
    drifts <- sDrifts

isolatedVars == <<iHandoff, iPin, iOwner, iChild, iCall, iDrift, iDrifts, iNoticed>>
Isolated == INSTANCE IsolatedService WITH
    MaxDrifts <- 3, h <- iHandoff, pin <- iPin, owner <- iOwner, child <- iChild,
    call <- iCall, drift <- iDrift, drifts <- iDrifts, noticed <- iNoticed

Parts == {"services", "nfs", "capture", "bundle", "native", "isolated"}

MCInit ==
    /\ part \in Parts
    /\ Init /\ (part # "services" => policy.exports = {})
    /\ NFS!Init /\ (part # "nfs" => nLives[1] = NFS!New(TRUE))
    /\ Capture!Init /\ Bundle!Init
    /\ Isolated!Init
    /\ Native!Init /\ (part # "native" => sSvc.owns)

MCNext ==
    \/ /\ part = "services" /\ Next
       /\ UNCHANGED <<part, nfsVars, captureVars, bundleVars, nativeVars, isolatedVars>>
    \/ /\ part = "nfs" /\ NFS!Next
       /\ UNCHANGED <<part, vars, captureVars, bundleVars, nativeVars, isolatedVars>>
    \/ /\ part = "capture" /\ Capture!Next
       /\ UNCHANGED <<part, vars, nfsVars, bundleVars, nativeVars, isolatedVars>>
    \/ /\ part = "bundle" /\ Bundle!Next
       /\ UNCHANGED <<part, vars, nfsVars, captureVars, nativeVars, isolatedVars>>
    \/ /\ part = "native" /\ Native!Next
       /\ UNCHANGED <<part, vars, nfsVars, captureVars, bundleVars, isolatedVars>>
    \/ /\ part = "isolated" /\ Isolated!Next
       /\ UNCHANGED <<part, vars, nfsVars, captureVars, bundleVars, nativeVars>>

MCSpec ==
    MCInit /\ [][MCNext]_<<part, vars, nfsVars, captureVars, bundleVars, nativeVars,
                         isolatedVars>>

\* What a process was started with is kept for as long as the process may run,
\* whatever failed, was stopped or was closed in between: OriginalsOutliveDaemon,
\* SourcesOutliveService, OriginalsOutlive, InputsOutliveProcesses, InputsOutlive,
\* RootOutlivesProcess.
KeptWhileUsed ==
    CASE part = "services" -> OriginalsOutliveDaemon
      [] part = "nfs"      -> NFS!SourcesOutliveService
      [] part = "capture"  -> Capture!OriginalsOutlive
      [] part = "bundle"   -> Bundle!InputsOutliveProcesses
      [] part = "native"   -> Native!InputsOutlive
      [] part = "isolated" -> Isolated!RootOutlivesProcess
      [] OTHER -> TRUE

\* What an owner answers is so: PlanIsCoherent, RestIsRest, FramesAreReadings,
\* ReadyIsTrue, StopsAreTrue.
AnswersAreSo ==
    CASE part = "services" -> PlanIsCoherent
      [] part = "nfs"      -> NFS!RestIsRest
      [] part = "capture"  -> Capture!FramesAreReadings
      [] part = "bundle"   -> Bundle!ReadyIsTrue
      [] part = "native"   -> Native!StopsAreTrue
      [] OTHER -> TRUE

\* Doubt never leaves a service running unnoticed: DoubtStops, OneController,
\* Contained, NothingLeft, DriftIsFinal.
DoubtContains ==
    CASE part = "services" -> DoubtStops
      [] part = "nfs"      -> NFS!OneController
      [] part = "capture"  -> Capture!Contained
      [] part = "native"   -> Native!NothingLeft
      [] part = "isolated" -> Isolated!DriftIsFinal
      [] OTHER -> TRUE

\* No step is taken twice, out of turn or on what no longer holds:
\* ServesWhatHolds, StartedOnce; CheckedWhole, StoppedOnce;
\* ReviewIsFinal; NoneAfterReview.
NoneOutOfTurn ==
    /\ ServesWhatHolds /\ StartedOnce
    /\ NFS!CheckedWhole /\ NFS!StoppedOnce
    /\ Capture!ReviewIsFinal /\ Native!NoneAfterReview
=============================================================================

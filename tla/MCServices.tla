----------------------------- MODULE MCServices -----------------------------
(***************************************************************************)
(* The file-service runtime over its mounts, and the processes it runs,    *)
(* each by itself (the part that is not at work stays in its initial       *)
(* state):                                                                 *)
(*  - two volumes, the handoff's lease, one lease of another consumer with *)
(*    one root pin, and one change by somebody else;                       *)
(*  - a set of two members, so that a start can fail half way and a        *)
(*    rollback with it, over two generations, so that a set that stopped   *)
(*    cleanly is started again.                                            *)
(***************************************************************************)
EXTENDS ServiceRuntime

VARIABLES part, state, review, gen, owner, os, call, ret, died

setVars == <<state, review, gen, owner, os, call, ret, died>>

Set == INSTANCE ProcessSet WITH N <- 2, MaxGen <- 2, own <- owner

ASSUME SetAssumption == Set!SetAssumption

MCGroups == {"handoff", "other"}

MCInit ==
    /\ part \in {"runtime", "processes"}
    /\ Init /\ Set!Init
    /\ part = "processes" => hand.isolated

MCNext ==
    \/ part = "runtime" /\ Next /\ UNCHANGED <<part, setVars>>
    \/ part = "processes" /\ Set!Next /\ UNCHANGED <<part, vars>>

\* The caller keeps observing a runtime that is at work.
MCSpec == /\ MCInit /\ [][MCNext]_<<part, vars, setVars>>
          /\ WF_vars(RunStep) /\ WF_vars(part = "runtime" /\ Observe("ready"))
          /\ Set!Fairness

\* NothingLeftBehind of the set: a process that is alive is known, and each
\* group is asked to stop once (OneStopAttempt).
NothingLeftBehind == Set!NothingLeftBehind /\ Set!OneStopAttempt

\* EveryCallReturns of the set: no process can hold up a call.
EveryCallReturns == Set!EveryCallReturns
=============================================================================

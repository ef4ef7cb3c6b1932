-------------------------- MODULE MCRevisionStore --------------------------
(***************************************************************************)
(* The document store and its owner, each by itself (the part that is not  *)
(* at work stays in its initial state):                                    *)
(*  - two processes on one store, two contents, revisions up to 3 (the     *)
(*    modelled MaxUint64);                                                 *)
(*  - the owner with two contents, revisions 1 to 2, two foreign changes   *)
(*    (one to damage, one to restore), one lease more than the limit.      *)
(***************************************************************************)
EXTENDS RevisionStore, OwnedPolicy, TLC

CONSTANTS p1, p2, v1, v2, w1, w2, l1, l2

VARIABLE part

MCProcs == {p1, p2}
MCVals == {v1, v2}
\* v2 may not be followed by v1: a binding once recorded is retained.
MCTransitions == {<<v1, v1>>, <<v1, v2>>, <<v2, v2>>}
MCContents == {w1, w2}
MCLease == {l1, l2}
Symmetry == Permutations(MCProcs) \cup Permutations(MCContents) \cup Permutations(MCLease)

MCInit ==
    /\ part \in {"store", "owner"}
    /\ Init /\ OwnerInit
    /\ part = "store" => current = None

MCNext ==
    \/ part = "store" /\ Next /\ UNCHANGED <<part, ownerVars>>
    \/ part = "owner" /\ OwnerNext /\ UNCHANGED <<part, vars>>

MCSpec == MCInit /\ [][MCNext]_<<part, vars, ownerVars>>
=============================================================================

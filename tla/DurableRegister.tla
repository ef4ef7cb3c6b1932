-------------------------- MODULE DurableRegister --------------------------
(***************************************************************************)
(* What internal/revisionstore promises its callers, without files,        *)
(* descriptors or processes: a register whose value moves forward one      *)
(* revision at a time; a power loss may take back the last publication,    *)
(* but never anything a caller was told is stored (a document returned by  *)
(* Load, or one whose Commit returned nil).                                *)
(***************************************************************************)
EXTENDS Naturals

CONSTANTS Documents,    \* the documents, records with a field rev
          Empty         \* the value of a store that was never initialized

VARIABLES value,        \* the document a reader would be given now
          promised      \* the documents callers hold as stored

regVars == <<value, promised>>

\* A value v keeps the promise d: it is d itself or a later revision.
Keeps(v, d) == d.rev < v.rev \/ d = v

RegInit == value = Empty /\ promised = {}

\* A publication: the next revision, and nobody is told yet.
Advance == \E d \in Documents : /\ d.rev = value.rev + 1
                                /\ value' = d
                                /\ UNCHANGED promised

\* A caller learns the value.
Promise == promised' = promised \cup {value} /\ UNCHANGED value

\* A power loss may undo the last publication, if nobody was told of it.
Recover == \E v \in Documents : /\ v.rev + 1 = value.rev
                                /\ \A d \in promised : Keeps(v, d)
                                /\ value' = v
                                /\ UNCHANGED promised

RegNext == Advance \/ Promise \/ Recover

RegSpec == RegInit /\ [][RegNext]_regVars
=============================================================================

----------------------------- MODULE MCUnitTree -----------------------------
(***************************************************************************)
(* Small instances of UnitTree: three units, two connections.              *)
(***************************************************************************)
EXTENDS UnitTree, TLC

\* Every move, and one dto that reactivates a unit.
MCUpdateDtos ==
    {[parent |-> p, active |-> Unchanged] : p \in Units \cup {NoUnit, Missing}}
    \cup {[parent |-> Unchanged, active |-> TRUE]}

Symmetry == Permutations(Units) \cup Permutations(Calls)
=============================================================================

----------------------------- MODULE MCSdsChat -----------------------------
(* SdsChat for TLC: one-letter room names; descriptors and letters are     *)
(* interchangeable.                                                        *)
EXTENDS SdsChat

CONSTANT Letter
MCName == {<<l>> : l \in Letter}
Symmetry == Permutations(Fd) \cup Permutations(Letter)
=============================================================================

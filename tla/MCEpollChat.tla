---------------------------- MODULE MCEpollChat ----------------------------
(***************************************************************************)
(* EpollChat for TLC: descriptors and rooms are interchangeable.           *)
(***************************************************************************)
EXTENDS EpollChat, TLC

Symmetry == Permutations(Fd) \cup Permutations(Room)
=============================================================================

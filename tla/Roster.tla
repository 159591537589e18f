------------------------------- MODULE Roster -------------------------------
(***************************************************************************)
(* The threads of server-uring, fixed before it runs (roster.h).           *)
(***************************************************************************)
EXTENDS Integers

CONSTANT K      \* k_worker_count

ASSUME RosterAssumption == K \in Nat \ {0}

Worker == 0..(K - 1)

(* The block after those of the workers. *)
Acceptor == K
=============================================================================

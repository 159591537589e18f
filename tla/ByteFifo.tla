------------------------------ MODULE ByteFifo ------------------------------
(***************************************************************************)
(* What a byte pipe promises, without cursors, cells or threads: a bounded *)
(* FIFO of bytes in which a whole frame appears in one step or not at all, *)
(* and from which the oldest bytes are taken or looked at in one step.     *)
(*                                                                         *)
(* This is the contract engine-uring/src/sds/ring_buffer.h states in its   *)
(* header comments ("enqueues the whole frame or nothing", "a reader never *)
(* observes a torn frame").  RingBuffer.tla is shown to implement it, and  *)
(* Mesh.tla is built on it.                                                *)
(***************************************************************************)
EXTENDS Integers, Sequences

CONSTANTS
    N,      \* capacity in bytes
    Byte    \* the byte values

VARIABLES
    queue,  \* the bytes in the pipe, oldest first
    offer,  \* the bytes the writer has offered and not yet put in
    out     \* what the last completed read returned

fifoVars == <<queue, offer, out>>

(* Byte strings no longer than the pipe. *)
Strings == UNION {[1..n -> Byte] : n \in 0..N}

FifoInit == queue = << >> /\ offer = << >> /\ out = << >>

(* The writer offers bytes, all at once or (a direct write) bit by bit. *)
Offer(s) ==
    /\ offer' = offer \o s
    /\ UNCHANGED <<queue, out>>

(* A whole frame goes in behind everything already there, if it fits. *)
Put(s) ==
    /\ Len(queue) + Len(s) <= N
    /\ queue' = queue \o s
    /\ out' = out

(* The n oldest bytes are returned and leave the pipe. *)
Take(n) ==
    /\ n <= Len(queue)
    /\ out' = SubSeq(queue, 1, n)
    /\ queue' = SubSeq(queue, n + 1, Len(queue))

(* The n oldest bytes are returned and stay. *)
Look(n) ==
    /\ n <= Len(queue)
    /\ out' = SubSeq(queue, 1, n)
    /\ queue' = queue

FifoNext ==
    \/ \E s \in Strings : Offer(s)
    \/ Put(offer) /\ offer' = << >>
    \/ \E n \in 0..N : (Take(n) \/ Look(n)) /\ offer' = offer

FifoSpec == FifoInit /\ [][FifoNext]_fifoVars
=============================================================================

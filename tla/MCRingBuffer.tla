---------------------------- MODULE MCRingBuffer ----------------------------
(* Instance of RingBuffer for TLC. *)
EXTENDS RingBuffer

(* Byte strings of length 0..2, so that enqueue2 makes frames of 0 to 4. *)
MCPayloads == UNION {[1..n -> Byte] : n \in 0..2}
=============================================================================

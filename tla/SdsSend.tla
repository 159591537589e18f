------------------------------ MODULE SdsSend ------------------------------
(***************************************************************************)
(* The outbound side of one connection of server-epoll/server_sds.cpp: a   *)
(* linear queue tx[tx_head .. tx_tail) that resets when it drains and is   *)
(* compacted to offset 0 when a frame does not fit behind its tail.        *)
(*                                                                         *)
(* A send takes any number of the bytes offered to it (none: EAGAIN, which *)
(* changes nothing here) or fails.  The region starts uninitialised.  The  *)
(* write interest and the dirty list are in EpollChat.                     *)
(*                                                                         *)
(* Only queue_send looks at `closing`.  A connection doomed at the cap is  *)
(* still sent what it has queued, as broadcast does right after it in      *)
(* immediate mode, until it is reaped and this behaviour ends.             *)
(***************************************************************************)
EXTENDS Integers, Sequences

CONSTANTS
    k_send_cap,     \* backpressure limit
    k_max_frame,    \* header and the largest payload
    Byte,
    Frame           \* the frames passed to queue_send (len <= k_max_payload)

ASSUME SendAssumption ==
    /\ k_send_cap \in Nat /\ k_max_frame \in Nat \ {0}
    /\ \A f \in Frame : f \in Seq(Byte) /\ Len(f) \in 1..k_max_frame

VARIABLES tx_head, tx_tail, tx, closing,
    line,   \* the frame passed to the last queue_send
    wire    \* the bytes the last send took

vars == <<tx_head, tx_tail, tx, closing, line, wire>>

k_tx_region == k_send_cap + k_max_frame
Region == 0..(k_tx_region - 1)

Init ==
    /\ tx_head = 0 /\ tx_tail = 0
    /\ tx \in [Region -> Byte]
    /\ closing = FALSE /\ line = << >> /\ wire = << >>

used == tx_tail - tx_head

(* A doomed connection is queued nothing more. *)
queue_send_closing(f) ==
    /\ closing
    /\ line' = f
    /\ UNCHANGED <<tx_head, tx_tail, tx, closing, wire>>

(* Over the cap: the frame is dropped and the connection doomed. *)
queue_send_drop(f) ==
    /\ ~closing
    /\ used + Len(f) > k_send_cap
    /\ closing' = TRUE
    /\ line' = f
    /\ UNCHANGED <<tx_head, tx_tail, tx, wire>>

(* The region with frame f stored from offset `at` on. *)
Stored(region, at, f) ==
    [i \in Region |-> IF i >= at /\ i < at + Len(f) THEN f[i - at + 1] ELSE region[i]]

(* memmove(tx, tx + tx_head, used). *)
Compacted == [i \in Region |-> IF i < used THEN tx[tx_head + i] ELSE tx[i]]

(* The frame fits behind the tail. *)
queue_send(f) ==
    /\ ~closing
    /\ used + Len(f) <= k_send_cap
    /\ tx_tail + Len(f) <= k_tx_region
    /\ tx' = Stored(tx, tx_tail, f)
    /\ tx_tail' = tx_tail + Len(f)
    /\ line' = f
    /\ UNCHANGED <<tx_head, closing, wire>>

(* Fault: the head stays where it was after the move. *)
queue_send_compact_head(f) ==
    /\ ~closing
    /\ used + Len(f) <= k_send_cap
    /\ tx_tail + Len(f) > k_tx_region
    /\ tx' = Stored(Compacted, used, f)
    /\ tx_head' = IF tx_head < used + Len(f) THEN tx_head ELSE 0
    /\ tx_tail' = used + Len(f)
    /\ line' = f
    /\ UNCHANGED <<closing, wire>>

(* It does not: compact to offset 0 first. *)
queue_send_compact(f) ==
    /\ ~closing
    /\ used + Len(f) <= k_send_cap
    /\ tx_tail + Len(f) > k_tx_region
    /\ tx' = Stored(Compacted, used, f)
    /\ tx_head' = 0
    /\ tx_tail' = used + Len(f)
    /\ line' = f
    /\ UNCHANGED <<closing, wire>>

(* The bytes waiting, oldest first. *)
Contents == [i \in 1..used |-> tx[tx_head + i - 1]]

(* One ::send of flush_send that takes n bytes; drained means reset. *)
flush_send(n) ==
    /\ n \in 1..used
    /\ wire' = [i \in 1..n |-> tx[tx_head + i - 1]]
    /\ tx_head' = IF n = used THEN 0 ELSE tx_head + n
    /\ tx_tail' = IF n = used THEN 0 ELSE tx_tail
    /\ UNCHANGED <<tx, closing, line>>

(* A send error dooms the connection, if it is not doomed already. *)
flush_send_error ==
    /\ used > 0
    /\ closing' = TRUE
    /\ UNCHANGED <<tx_head, tx_tail, tx, line, wire>>

Next ==
    \/ \E f \in Frame : \/ queue_send_closing(f) \/ queue_send_drop(f)
                        \/ queue_send(f) \/ queue_send_compact(f)
    \/ \E n \in 1..k_send_cap : flush_send(n)
    \/ flush_send_error

Spec == Init /\ [][Next]_vars

-----------------------------------------------------------------------------
(* Type invariant; the offsets stay inside the region and the queue within *)
(* the cap, so that no memcpy or memmove leaves the region.                *)
TypeOK ==
    /\ tx_head \in 0..tx_tail
    /\ tx_tail \in 0..k_tx_region
    /\ used <= k_send_cap
    /\ tx \in [Region -> Byte]
    /\ closing \in BOOLEAN
    /\ line \in Seq(Byte)
    /\ wire \in Seq(Byte)

Out == INSTANCE SendQueue WITH out <- Contents

(* The linear queue implements server.cpp's string: each frame is appended *)
(* whole or dooms the connection, at the same threshold, and the bytes on  *)
(* the wire are the oldest ones, in order, whatever part of the queue each *)
(* send takes and whenever a compaction moves what is left                 *)
(* (server_sds.cpp:99-100: "under cap always fits").  What was queued when *)
(* the connection was doomed may still be sent, and nothing comes behind.  *)
ImplementsOut == Out!OutSpec
=============================================================================

------------------------------ MODULE MCParts ------------------------------
(* Instance of Parts for TLC. *)
EXTENDS Parts

(* Send: every frame of one or two bytes. *)
MCFrame == UNION {[1..n -> Byte] : n \in 1..2}

(* Map: two keys that share a chain up to capacity 4 and part at 8, and    *)
(* one that is on its own from capacity 2.                                 *)
MCKey == {"a", "b", "c"}
MCHash == [k \in MCKey |-> CASE k = "a" -> 0 [] k = "b" -> 4 [] OTHER -> 3]

(* Pool: two buckets, with two blocks and one. *)
MCBlockSize == <<1, 2>>
MCCapacity == <<2, 1>>

(* Recv: a notice (a byte of text), chat lines of this process and of      *)
(* another one, and a tick frame with a delivery of each.                  *)
MCMessage ==
    {[type |-> notice, from |-> <<1>>],
     [type |-> chat_out, from |-> <<node>>],
     [type |-> chat_out, from |-> <<node + 1>>],
     [type |-> tick_out, from |-> <<node + 1, node>>]}
=============================================================================

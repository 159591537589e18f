-------------------------------- MODULE Parts --------------------------------
(***************************************************************************)
(* Building blocks of the servers and of the load generator that share no  *)
(* state, side by side: each is started and one of them, `part`, runs.     *)
(***************************************************************************)
EXTENDS SdsSend, CstrHashMap, PacketPool, TickDeadline, AcceptReserve, LoadgenRecv

VARIABLE part

Part == {"send", "map", "pool", "tick", "accept", "recv"}

parts_vars == <<part, vars, map_vars, pool_vars, tick_vars, accept_vars, recv_vars>>

(* The bytes the send region starts with matter to "send" only. *)
PartsInit ==
    /\ part \in Part
    /\ Init
    /\ part = "send" \/ tx = [i \in Region |-> CHOOSE b \in Byte : TRUE]
    /\ MapInit /\ PoolInit /\ TickInit /\ AcceptInit /\ RecvInit

Only(p) == part = p /\ UNCHANGED part
Others(p) ==
    /\ p # "send" => UNCHANGED vars
    /\ p # "map" => UNCHANGED map_vars
    /\ p # "pool" => UNCHANGED pool_vars
    /\ p # "tick" => UNCHANGED tick_vars
    /\ p # "accept" => UNCHANGED accept_vars
    /\ p # "recv" => UNCHANGED recv_vars

PartsNext ==
    \/ Only("send") /\ Next /\ Others("send")
    \/ Only("map") /\ MapNext /\ Others("map")
    \/ Only("pool") /\ PoolNext /\ Others("pool")
    \/ Only("tick") /\ TickNext /\ Others("tick")
    \/ Only("accept") /\ AcceptNext /\ Others("accept")
    \/ Only("recv") /\ RecvNext /\ Others("recv")

(* The thread of an event loop runs and each of its steps ends.  Nothing   *)
(* obliges an event to arrive, a wait to be interrupted, or a client to    *)
(* leave.                                                                  *)
PartsSpec ==
    /\ PartsInit /\ [][PartsNext]_parts_vars
    /\ WF_parts_vars(Only("tick") /\ TickLoop /\ Others("tick"))
    /\ WF_parts_vars(Only("accept") /\ AcceptLoop /\ Others("accept"))
=============================================================================

------------------------------ MODULE SdsParts ------------------------------
(***************************************************************************)
(* Parts of the chat servers that share no state, side by side: the        *)
(* receive side of a connection and the rooms of the sds build.  One of    *)
(* them, `part`, runs.                                                     *)
(***************************************************************************)
EXTENDS SdsRooms, FrameParser

VARIABLE part

sds_vars == <<part, rooms_vars, parser_vars>>

InRooms == part = "rooms" /\ UNCHANGED <<part, parser_vars>>
InParser == part = "frames" /\ UNCHANGED <<part, rooms_vars>>

(* The build matters to "frames" only. *)
SdsInit ==
    /\ part \in {"rooms", "frames"}
    /\ RoomsInit /\ ParserInit
    /\ part = "rooms" => ring /\ ~short_read

SdsNext ==
    \/ InRooms /\ RoomsNext
    \/ InParser /\ ParserNext

(* The loop thread takes its steps; epoll reports a readable socket again  *)
(* and again (the fairness of FairParserSpec).                             *)
SdsSpec ==
    /\ SdsInit /\ [][SdsNext]_sds_vars
    /\ WF_sds_vars(InParser /\ Server)
=============================================================================

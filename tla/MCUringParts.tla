---------------------------- MODULE MCUringParts ----------------------------
(* Instance of UringParts for TLC. *)
EXTENDS UringParts

(* Symbols double as lengths, so that a misplaced read could be mistaken   *)
(* for a header.                                                           *)
MCByte == 0..3
(* Bodies with symbols that look like sizes and types. *)
MCBodies == {<< >>, <<1>>, <<2>>, <<0, 2>>, <<3, 1, 2>>}
=============================================================================

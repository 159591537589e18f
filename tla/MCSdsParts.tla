----------------------------- MODULE MCSdsParts -----------------------------
(* Instance of SdsParts for TLC. *)
EXTENDS SdsParts

(* Two of the names are the same C string. *)
MCName == {<<1>>, <<2>>, <<1, 2>>, <<1, 0, 2>>}
=============================================================================

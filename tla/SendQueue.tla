------------------------------ MODULE SendQueue ------------------------------
(***************************************************************************)
(* What a connection's send side promises: a byte string that whole frames *)
(* are appended to and the kernel takes bytes from, in order; a frame that *)
(* would pass the cap dooms the connection instead, and from then on the   *)
(* string only shrinks.                                                    *)
(*                                                                         *)
(* This is `out` of server-epoll/server.cpp, a std::string.  SdsSend shows *)
(* that the linear queue of server_sds.cpp implements it.                  *)
(***************************************************************************)
EXTENDS Integers, Sequences

CONSTANTS k_send_cap, Frame

VARIABLES
    out,        \* bytes queued and not yet sent
    closing,    \* the connection is doomed
    line,       \* the frame passed to the last queue_send
    wire        \* the bytes the last send took

outVars == <<out, closing, line, wire>>

OutInit == out = << >> /\ closing = FALSE /\ line = << >> /\ wire = << >>

Queue(f) ==
    /\ \/ ~closing /\ Len(out) + Len(f) <= k_send_cap /\ out' = out \o f /\ closing' = FALSE
       \/ ~closing /\ Len(out) + Len(f) > k_send_cap /\ out' = out /\ closing' = TRUE
       \/ closing /\ UNCHANGED <<out, closing>>
    /\ line' = f
    /\ wire' = wire

Send(n) ==
    /\ n <= Len(out)
    /\ wire' = SubSeq(out, 1, n)
    /\ out' = SubSeq(out, n + 1, Len(out))
    /\ UNCHANGED <<closing, line>>

Fail == closing' = TRUE /\ UNCHANGED <<out, line, wire>>

OutNext ==
    \/ \E f \in Frame : Queue(f)
    \/ \E n \in 1..k_send_cap : Send(n)
    \/ Fail

OutSpec == OutInit /\ [][OutNext]_outVars
=============================================================================

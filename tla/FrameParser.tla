---------------------------- MODULE FrameParser ----------------------------
(***************************************************************************)
(* The receive side of one connection of the chat servers: the recv loop   *)
(* of on_readable and parse_frames, over a std::string (server.cpp) or a   *)
(* byte ring (server_sds.cpp).                                             *)
(*                                                                         *)
(* A frame is its length, its type and its payload, one number each for    *)
(* the two header fields.  The contents of the ring are a sequence (module *)
(* RingBuffer), so a frame that wraps and one that does not look the same. *)
(* What handle_packet does is in EpollChat; here it may doom or not.       *)
(***************************************************************************)
EXTENDS Integers, Sequences, FiniteSetsExt

CONSTANTS
    k_max_payload,
    k_rx_ring,      \* bytes of the ring
    StringBuf, RingBuf, \* bytes one recv asks for, in either server
    MaxSent         \* bound: frames the client sends

k_header_size == 2
k_max_frame == k_header_size + k_max_payload
Plain == 1          \* a type the server handles
Fatal == 2          \* quit, or an unknown type: the handler dooms

ASSUME ParserAssumption ==
    /\ k_max_payload \in Nat /\ MaxSent \in Nat
    /\ StringBuf \in Nat \ {0} /\ RingBuf \in Nat \ {0}
    /\ k_rx_ring \in Nat /\ k_rx_ring > k_max_frame

VARIABLES
    ring,       \* TRUE: server_sds.cpp
    short_read, \* CHAT_SHORT_READ (server_sds.cpp only)
    sent,       \* frames of the client: length and type
    stream,     \* the bytes it wrote
    ends,       \* where in them each frame ends (history)
    arrived,    \* bytes of them that reached the socket
    closed,     \* the client closed its side
    taken,      \* bytes read from the socket
    in,         \* buffered bytes
    pc,         \* "idle", "recv", "parse"
    full,       \* the recv before the parse in progress was not short
    handled,    \* frames passed to handle_packet
    closing, why

build == <<ring, short_read>>
wrote == <<sent, stream, ends>>
parser_vars == <<build, wrote, arrived, closed, taken, in, pc, full, handled, closing, why>>

(* Payload bytes are 9, or look like a header. *)
Frame == [len : 0..(k_max_payload + 1), type : {Plain, Fatal}, fill : {0, 9}]
Encode(f) == <<f.len, f.type>> \o [i \in 1..f.len |-> f.fill]
Offset(k) == IF k = 0 THEN 0 ELSE ends[k]

ParserInit ==
    /\ ring \in BOOLEAN /\ short_read \in BOOLEAN /\ (short_read => ring)
    /\ sent = << >> /\ stream = << >> /\ ends = << >>
    /\ arrived = 0 /\ closed = FALSE /\ taken = 0
    /\ in = << >> /\ pc = "idle" /\ full = FALSE /\ handled = << >>
    /\ closing = FALSE /\ why = "none"

BufSize == IF ring THEN RingBuf ELSE StringBuf

doom(reason) == closing' = TRUE /\ why' = reason

-----------------------------------------------------------------------------
(* The client and the network. *)
client_sends(f) ==
    /\ Len(sent) < MaxSent /\ ~closed
    /\ sent' = Append(sent, f)
    /\ stream' = stream \o Encode(f)
    /\ ends' = Append(ends, Len(stream) + k_header_size + f.len)
    /\ UNCHANGED <<build, arrived, closed, taken, in, pc, full, handled, closing, why>>

arrives(n) ==
    /\ n \in (arrived + 1)..Len(stream)
    /\ arrived' = n
    /\ UNCHANGED <<build, wrote, closed, taken, in, pc, full, handled, closing, why>>

client_closes ==
    /\ ~closed
    /\ closed' = TRUE
    /\ UNCHANGED <<build, wrote, arrived, taken, in, pc, full, handled, closing, why>>

AtEnd == closed /\ arrived = Len(stream) /\ taken = arrived

-----------------------------------------------------------------------------
(* EPOLLIN, level-triggered. *)
on_readable ==
    /\ pc = "idle" /\ ~closing
    /\ arrived > taken \/ AtEnd
    /\ pc' = "recv"
    /\ UNCHANGED <<build, wrote, arrived, closed, taken, in, full, handled, closing, why>>

(* What one recv asks for: a buffer, or what the ring has free. *)
want == IF ring THEN Min({k_rx_ring - Len(in), BufSize}) ELSE BufSize

(* What it gets. *)
Got == SubSeq(stream, taken + 1, taken + Min({want, arrived - taken}))

(* Fault: the bound leaves no room for what a parse left behind. *)
Backlogged_tight ==
    IF ring THEN want < BufSize /\ Len(in) > 0 ELSE Len(in) + Len(Got) > BufSize

(* The guard before the append: for the ring, before the recv. *)
Backlogged ==
    IF ring THEN want = 0
    ELSE Len(in) + Len(Got) > k_max_payload + k_header_size + BufSize

recv ==
    /\ pc = "recv"
    /\ Got # << >> \/ want = 0
    /\ taken' = taken + Len(Got)
    /\ IF Backlogged
       THEN doom("backlog") /\ pc' = "idle" /\ UNCHANGED <<in, full>>
       ELSE /\ in' = in \o Got
            /\ full' = (Len(Got) = want)
            /\ pc' = "parse"
            /\ UNCHANGED <<closing, why>>
    /\ UNCHANGED <<build, wrote, arrived, closed, handled>>

(* The client closed, or the recv failed (a reset, which may happen at any *)
(* moment and drops what was not read).                                    *)
recv_end ==
    /\ pc = "recv" /\ want > 0
    /\ \/ AtEnd /\ doom("end")
       \/ doom("error")
    /\ pc' = "idle"
    /\ UNCHANGED <<build, wrote, arrived, closed, taken, in, full, handled>>

(* EAGAIN. *)
recv_again ==
    /\ pc = "recv" /\ want > 0 /\ Got = << >> /\ ~AtEnd
    /\ pc' = "idle"
    /\ UNCHANGED <<build, wrote, arrived, closed, taken, in, full, handled, closing, why>>

-----------------------------------------------------------------------------
HeaderBuffered == Len(in) >= k_header_size
Oversize == HeaderBuffered /\ in[1] > k_max_payload

(* Fault: a frame that ends with the buffer is taken for a partial one. *)
FrameBuffered_strict ==
    HeaderBuffered /\ ~Oversize /\ Len(in) > k_header_size + in[1]

FrameBuffered == HeaderBuffered /\ ~Oversize /\ Len(in) >= k_header_size + in[1]

(* Fault: only the payload is erased. *)
handle_packet_payload ==
    /\ pc = "parse" /\ ~closing /\ FrameBuffered
    /\ handled' = Append(handled, [len |-> in[1], type |-> in[2]])
    /\ IF in[2] = Plain THEN UNCHANGED <<closing, why>> ELSE doom("handler")
    /\ in' = SubSeq(in, (IF in[1] = 0 THEN k_header_size ELSE in[1]) + 1, Len(in))
    /\ UNCHANGED <<build, wrote, arrived, closed, taken, pc, full>>

(* A whole frame is handled, then erased. *)
handle_packet ==
    /\ pc = "parse" /\ ~closing /\ FrameBuffered
    /\ handled' = Append(handled, [len |-> in[1], type |-> in[2]])
    /\ IF in[2] = Plain THEN UNCHANGED <<closing, why>> ELSE doom("handler")
    /\ in' = SubSeq(in, k_header_size + in[1] + 1, Len(in))
    /\ UNCHANGED <<build, wrote, arrived, closed, taken, pc, full>>

oversize ==
    /\ pc = "parse" /\ ~closing /\ Oversize
    /\ doom("oversize")
    /\ UNCHANGED <<build, wrote, arrived, closed, taken, in, pc, full, handled>>

(* No whole frame left: recv again, unless the read was short or the       *)
(* connection is doomed.                                                   *)
parse_done ==
    /\ pc = "parse"
    /\ closing \/ (~FrameBuffered /\ ~Oversize)
    /\ pc' = IF closing \/ (short_read /\ ~full) THEN "idle" ELSE "recv"
    /\ UNCHANGED <<build, wrote, arrived, closed, taken, in, full, handled, closing, why>>

Server ==
    \/ on_readable \/ recv \/ recv_end \/ recv_again
    \/ handle_packet \/ oversize \/ parse_done

ParserNext ==
    \/ \E f \in Frame : client_sends(f)
    \/ \E n \in 1..Len(stream) : arrives(n)
    \/ client_closes
    \/ Server

ParserSpec == ParserInit /\ [][ParserNext]_parser_vars

(* The loop thread takes its steps; epoll reports a readable socket again  *)
(* and again.                                                              *)
FairParserSpec == ParserSpec /\ WF_parser_vars(Server)

-----------------------------------------------------------------------------
ParserTypeOK ==
    /\ sent \in Seq(Frame) /\ stream \in Seq(Nat) /\ ends \in Seq(Nat)
    /\ in \in Seq(Nat) /\ handled \in Seq([len : Nat, type : Nat])
    /\ taken \in 0..arrived /\ arrived \in 0..Len(stream)
    /\ pc \in {"idle", "recv", "parse"} /\ full \in BOOLEAN
    /\ closing \in BOOLEAN /\ closing = (why # "none")
    /\ ring \in BOOLEAN /\ short_read \in BOOLEAN
    /\ ring => Len(in) <= k_rx_ring

(* However TCP cuts the stream, and whatever the payloads look like, the   *)
(* frames handled are the ones the client sent, in order.                  *)
HandledInOrder ==
    /\ Len(handled) <= Len(sent)
    /\ \A i \in DOMAIN handled :
         handled[i].len = sent[i].len /\ handled[i].type = sent[i].type

(* Only the client's own doing dooms its connection: the backlog guards    *)
(* never fire, since a parse leaves less than one frame (server_sds.cpp:86 *)
(* "what carries over is at most one partial frame").                      *)
BacklogNeverFires == why # "backlog"

(* What makes the two inductive.  Each frame begins in the stream where    *)
(* the one before it ended, with its header.                               *)
StreamFramed ==
    /\ Len(ends) = Len(sent) /\ Offset(Len(sent)) = Len(stream)
    /\ \A k \in 0..Len(sent) : Offset(k) \in 0..Len(stream)
    /\ \A k \in 1..Len(sent) :
         /\ Offset(k) = Offset(k - 1) + k_header_size + sent[k].len
         /\ stream[Offset(k - 1) + 1] = sent[k].len
         /\ stream[Offset(k - 1) + 2] = sent[k].type

(* The buffer is the part of the stream from the first frame not handled.  *)
Buffered ==
    /\ taken = Offset(Len(handled)) + Len(in)
    /\ \A j \in 1..Len(in) : in[j] = stream[Offset(Len(handled)) + j]

(* Outside a parse it holds less than one frame. *)
Partial == HeaderBuffered => in[1] <= k_max_payload /\ Len(in) < k_header_size + in[1]
ParsedOut ==
    /\ pc = "recv" => ~closing
    /\ pc # "parse" /\ ~closing => Partial

ParserInv ==
    /\ ParserTypeOK /\ StreamFramed /\ Buffered /\ ParsedOut
    /\ HandledInOrder /\ BacklogNeverFires

(* A frame all of which arrived is handled, unless the connection is       *)
(* doomed: also the last one, when nothing follows it.                     *)
WholeFramesHandled ==
    \A k \in 1..MaxSent :
        (Len(sent) >= k /\ arrived >= Offset(k)) ~> (Len(handled) >= k \/ closing)
=============================================================================

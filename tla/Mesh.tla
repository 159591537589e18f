-------------------------------- MODULE Mesh --------------------------------
(***************************************************************************)
(* Length-prefixed framing over one mesh edge (server-uring/src/mesh.h):   *)
(* mesh_post on the producing thread, mesh_try_recv on the consuming one.  *)
(*                                                                         *)
(* The pipe is the byte FIFO that RingBuffer is proved to implement, so a  *)
(* mesh_post is one atomic append and every used_size, peek and dequeue of *)
(* mesh_try_recv is one step, between any two of which the producer runs.  *)
(* A header is two symbols, its size and its type (a u16 each).            *)
(***************************************************************************)
EXTENDS Integers, Sequences, SequencesExt

CONSTANTS
    N,          \* capacity of the pipe, in symbols
    Byte,       \* symbols; holds every body length and type code
    MsgType,    \* app_msg_type codes
    Bodies,     \* message bodies callers post
    BodyCap,    \* capacity of the receiver's body buffer (body_cap)
    MaxPosts    \* bound on the posts that succeed

ASSUME MeshAssumption ==
    /\ N \in Nat \ {0, 1}
    /\ 0 \in Byte /\ MsgType \subseteq Byte
    /\ \A b \in Bodies : b \in Seq(Byte) /\ Len(b) \in Byte /\ Len(b) <= BodyCap
    /\ BodyCap \in Nat /\ MaxPosts \in Nat

VARIABLES
    pipe,       \* the bytes in the edge
    out,        \* what the last peek or dequeue returned
    cpc,        \* where mesh_try_recv stands
    hdr,        \* its local header
    posted,     \* messages whose mesh_post returned true
    received    \* messages mesh_try_recv returned

mesh_vars == <<pipe, out, cpc, hdr, posted, received>>

Pipe == INSTANCE ByteFifo WITH queue <- pipe, offer <- << >>

k_hdr == 2

mesh_frame_size(body_len) == k_hdr + body_len

app_msg_header == [size : Byte, type : Byte]
NoHeader == [size |-> 0, type |-> 0]
Message == [type : MsgType, body : Bodies]

(* The bytes of a header, and a header from its bytes. *)
HeaderBytes(h) == <<h.size, h.type>>
HeaderOf(bytes) == [size |-> bytes[1], type |-> bytes[2]]

MeshInit ==
    /\ Pipe!FifoInit
    /\ cpc = "idle"
    /\ hdr = NoHeader
    /\ posted = << >>
    /\ received = << >>

(* mesh_post: the whole frame, or (no room) nothing at all. *)
mesh_post(type, body) ==
    LET hdr0 == [size |-> Len(body), type |-> type]
    IN  /\ Len(posted) < MaxPosts
        /\ Pipe!Put(HeaderBytes(hdr0) \o body)
        /\ posted' = Append(posted, [type |-> type, body |-> body])
        /\ UNCHANGED <<cpc, hdr, received>>

-----------------------------------------------------------------------------
(* mesh_try_recv, in the order of its calls on the pipe. *)

(* (1) used_size() < k_hdr returns false; otherwise go on to the peek. *)
header_ready ==
    /\ cpc = "idle"
    /\ Len(pipe) >= k_hdr
    /\ cpc' = "peek"
    /\ UNCHANGED <<pipe, out, hdr, posted, received>>

(* (2) peek the header without consuming it. *)
peek_header ==
    /\ cpc = "peek"
    /\ Pipe!Look(k_hdr)
    /\ hdr' = HeaderOf(out')
    /\ cpc' = "whole"
    /\ UNCHANGED <<posted, received>>

(* Fault: the frame must leave a spare byte behind it. *)
frame_ready_strict ==
    /\ cpc = "whole"
    /\ cpc' = CASE Len(pipe) <= mesh_frame_size(hdr.size) -> "idle"
                [] hdr.size > BodyCap -> "trap"
                [] OTHER -> "header"
    /\ UNCHANGED <<pipe, out, hdr, posted, received>>

(* (3) the whole frame must be there; if not, return false. *)
frame_ready ==
    /\ cpc = "whole"
    /\ cpc' = CASE Len(pipe) < mesh_frame_size(hdr.size) -> "idle"
                [] hdr.size > BodyCap -> "trap"
                [] OTHER -> "header"
    /\ UNCHANGED <<pipe, out, hdr, posted, received>>

(* The header and body that mesh_try_recv hands back. *)
Deliver(body) ==
    /\ received' = Append(received, [type |-> hdr.type, body |-> body])
    /\ hdr' = NoHeader
    /\ cpc' = "idle"

(* Fault: the body is taken with the peeked header still in front of it. *)
dequeue_header_kept ==
    /\ cpc = "header"
    /\ Pipe!Look(k_hdr)
    /\ IF hdr.size = 0
         THEN Deliver(<< >>)
         ELSE cpc' = "body" /\ UNCHANGED <<hdr, received>>
    /\ UNCHANGED posted

(* (4) drop the peeked header; a body of length 0 ends the call. *)
dequeue_header ==
    /\ cpc = "header"
    /\ Pipe!Take(k_hdr)
    /\ IF hdr.size = 0
         THEN Deliver(<< >>)
         ELSE cpc' = "body" /\ UNCHANGED <<hdr, received>>
    /\ UNCHANGED posted

(* then copy the body out. *)
dequeue_body ==
    /\ cpc = "body"
    /\ Pipe!Take(hdr.size)
    /\ Deliver(out')
    /\ UNCHANGED posted

mesh_try_recv ==
    \/ header_ready
    \/ peek_header
    \/ frame_ready
    \/ dequeue_header
    \/ dequeue_body

(* The edge is quiet: everything was posted and received. *)
Quiet ==
    /\ Len(posted) = MaxPosts
    /\ Len(received) = MaxPosts
    /\ UNCHANGED mesh_vars

MeshNext ==
    \/ \E t \in MsgType, b \in Bodies : mesh_post(t, b)
    \/ mesh_try_recv
    \/ Quiet

(* The owner of the consuming end polls its edge for ever. *)
MeshSpec == MeshInit /\ [][MeshNext]_mesh_vars /\ WF_mesh_vars(mesh_try_recv)

-----------------------------------------------------------------------------
MeshTypeOK ==
    /\ pipe \in Seq(Byte) /\ Len(pipe) <= N
    /\ out \in Seq(Byte)
    /\ cpc \in {"idle", "peek", "whole", "header", "body", "trap"}
    /\ hdr \in app_msg_header
    /\ posted \in Seq(Message)
    /\ received \in Seq(Message)

(* Messages come out whole, in order, once each, whatever the producer     *)
(* does between the steps of a mesh_try_recv: what was received is a       *)
(* prefix of what was posted, and what was peeked is always a header, so   *)
(* that the LNX_CHECK on its size never fires (mesh.h: the reader consumes *)
(* a byte only once the entire frame is present).                          *)
DeliveredInOrder == cpc # "trap" /\ IsPrefix(received, posted)

(* Every message whose mesh_post succeeded is eventually received, if the  *)
(* owner of the consuming end keeps polling.                               *)
EventuallyReceived ==
    \A k \in 1..MaxPosts : Len(posted) >= k ~> Len(received) >= k

-----------------------------------------------------------------------------
(* The inductive invariant behind DeliveredInOrder: the pipe is cut into   *)
(* the frames of the messages posted and not received.                     *)

(* The symbols of q after the first `from`, up to `to`, are the frame of   *)
(* m; one that begins before the pipe has lost its header.                 *)
IsFrame(q, m, from, to) ==
    /\ to = from + mesh_frame_size(Len(m.body))
    /\ from >= 0 => q[from + 1] = Len(m.body) /\ q[from + 2] = m.type
    /\ \A k \in 1..Len(m.body) : q[from + k_hdr + k] = m.body[k]

(* q is cut into the frames of the messages after the first r: the frame   *)
(* of the i-th ends at cut[i].                                             *)
IsCut(q, msgs, r, start, cut) ==
    /\ cut[r] = start /\ cut[Len(msgs)] = Len(q)
    /\ \A i, j \in r..Len(msgs) : i <= j => cut[i] <= cut[j]
    /\ \A i \in (r + 1)..Len(msgs) : IsFrame(q, msgs[i], cut[i - 1], cut[i])

CanBeCut(q, msgs, r, start) ==
    \E cut \in [r..Len(msgs) -> (-k_hdr)..Len(q)] : IsCut(q, msgs, r, start, cut)

(* The first header is gone while its body waits. *)
Framed == CanBeCut(pipe, posted, Len(received), IF cpc = "body" THEN -k_hdr ELSE 0)

ReceivedSoFar ==
    /\ Len(received) <= Len(posted)
    /\ \A i \in 1..Len(received) : received[i] = posted[i]

(* What a mesh_try_recv in progress knows of the next message. *)
RecvKnows ==
    /\ cpc # "trap"
    /\ cpc = "peek" => Len(pipe) >= k_hdr
    /\ cpc \in {"whole", "header", "body"} =>
         LET next == Len(received) + 1
         IN  /\ next <= Len(posted)
             /\ hdr = [size |-> Len(posted[next].body), type |-> posted[next].type]

MeshInv == MeshTypeOK /\ ReceivedSoFar /\ RecvKnows /\ Framed
=============================================================================

---------------------------- MODULE LoadgenRecv ----------------------------
(***************************************************************************)
(* The receive side of one connection of the load generator, through its   *)
(* three phases: connect (join notices are read and thrown away), traffic  *)
(* and drain (frames are counted).  client-bench/src/netutil.cpp           *)
(* (read_available), traffic.cpp (consume_frames) and connect.cpp.         *)
(*                                                                         *)
(* The server writes whole frames, TCP hands over any part of them.  Bytes *)
(* are small numbers: a frame is the length field, the type and a payload; *)
(* a chat payload is cut down to its node stamp; a tick frame carries      *)
(* entries with a length byte each.  The header is k_header_size bytes.    *)
(***************************************************************************)
EXTENDS Integers, Sequences, FiniteSetsExt, SequencesExt

CONSTANTS
    k_rx_cap,               \* bytes of the receive slot
    len_includes_header,    \* --proto
    node,                   \* this process
    Message,                \* what the server may send: records of type, from
    MaxSent                 \* bound: frames the server writes

k_header_size == 2
k_blob_header == 1
notice == 0
chat_out == 1
tick_out == 2

ASSUME RecvAssumption ==
    /\ k_rx_cap \in Nat /\ MaxSent \in Nat /\ len_includes_header \in BOOLEAN
    /\ node \in Nat
    /\ \A m \in Message : /\ m.type \in {notice, chat_out, tick_out}
                          /\ m.from \in Seq(Nat)
                          /\ m.type = chat_out => Len(m.from) = 1

VARIABLES
    sent,           \* the messages written by the server, in order
    arrived,        \* bytes of them in, or through, the socket
    closed,         \* the server closed the connection
    taken,          \* bytes read from the socket
    phase,          \* "connect", "traffic", "drain", "done"
    state,          \* "ready" or "dead"
    rx, off,        \* buffered bytes; how many of them consume_frames is past
    recv_pc, alive,      \* "idle" or "consume"; what read_available returned
    frames_in, own, foreign, samples_bad,
    from, clean     \* messages discarded by the connect phase; no discard
                    \* cut a frame in two (history)

counts == <<frames_in, own, foreign, samples_bad>>
recv_vars == <<sent, arrived, closed, taken, phase, state, rx, off, recv_pc, alive,
          counts, from, clean>>

(* The length field for a payload (put_header), when it is malformed, and  *)
(* the payload it stands for (payload_len).                                *)
LengthField(len) == IF len_includes_header THEN len + k_header_size ELSE len
Malformed(raw) == len_includes_header /\ raw < k_header_size

payload_len(raw) == IF len_includes_header THEN raw - k_header_size ELSE raw

(* The server's bytes for a message. *)
Encode(m) ==
    LET payload == IF m.type = tick_out
                     THEN FlattenSeq([i \in DOMAIN m.from |-> <<1, m.from[i]>>])
                     ELSE m.from
    IN  <<LengthField(Len(payload)), m.type>> \o payload

(* The bytes of the first k frames, and where they end. *)
Written(k) == FlattenSeq([i \in 1..k |-> Encode(sent[i])])

stream == Written(Len(sent))

Offset(k) == Len(Written(k))

RecvInit ==
    /\ sent = << >> /\ arrived = 0 /\ closed = FALSE /\ taken = 0
    /\ phase = "connect" /\ state = "ready"
    /\ rx = << >> /\ off = 0 /\ recv_pc = "idle" /\ alive = TRUE
    /\ frames_in = 0 /\ own = 0 /\ foreign = 0 /\ samples_bad = 0
    /\ from = 0 /\ clean = TRUE

-----------------------------------------------------------------------------
(* The peer and the network. *)
server_writes(m) ==
    /\ Len(sent) < MaxSent /\ ~closed
    /\ sent' = Append(sent, m)
    /\ UNCHANGED <<arrived, closed, taken, phase, state, rx, off, recv_pc, alive,
                   counts, from, clean>>

arrives(n) ==
    /\ n \in (arrived + 1)..Len(stream)
    /\ arrived' = n
    /\ UNCHANGED <<sent, closed, taken, phase, state, rx, off, recv_pc, alive,
                   counts, from, clean>>

server_closes ==
    /\ ~closed
    /\ closed' = TRUE
    /\ UNCHANGED <<sent, arrived, taken, phase, state, rx, off, recv_pc, alive,
                   counts, from, clean>>

(* EPOLLIN: bytes, or the end of the stream once all of it was read. *)
Readable == arrived > taken \/ (closed /\ arrived = Len(stream))

-----------------------------------------------------------------------------
room == k_rx_cap - Len(rx)

(* The bytes of the one recv that returns something: what is there, up to  *)
(* the room left.                                                          *)
Received == SubSeq(stream, taken + 1, taken + Min({room, arrived - taken}))

(* read_available is true after a short read.  A read that fills the slot  *)
(* goes round again and finds no room; a read of nothing is the end.       *)
read_available == Received # << >> /\ Len(Received) < room

(* Connect phase: whatever was read is dropped with rx_len = 0. *)
discard ==
    /\ phase = "connect" /\ state = "ready" /\ Readable
    /\ taken' = taken + Len(Received)
    /\ rx' = << >>
    /\ state' = IF read_available THEN "ready" ELSE "dead"
    /\ LET whole == {k \in 0..Len(sent) : Offset(k) = taken'}
       IN  /\ clean' = (clean /\ whole # {})
           /\ from' = IF whole = {} THEN from ELSE CHOOSE k \in whole : TRUE
    /\ UNCHANGED <<sent, arrived, closed, phase, off, recv_pc, alive, counts>>

begin_traffic ==
    /\ phase = "connect" /\ state = "ready"
    /\ phase' = "traffic"
    /\ rx' = << >>
    /\ UNCHANGED <<sent, arrived, closed, taken, state, off, recv_pc, alive, counts,
                   from, clean>>

(* The load window, then the drain, are over. *)
advance ==
    /\ phase \in {"traffic", "drain"} /\ recv_pc = "idle"
    /\ phase' = IF phase = "traffic" THEN "drain" ELSE "done"
    /\ UNCHANGED <<sent, arrived, closed, taken, state, rx, off, recv_pc, alive,
                   counts, from, clean>>

(* The main loop parses what was read even when the connection is over;    *)
(* the drain closes it at once.                                            *)
read ==
    /\ phase \in {"traffic", "drain"} /\ state = "ready" /\ recv_pc = "idle"
    /\ Readable
    /\ taken' = taken + Len(Received)
    /\ rx' = rx \o Received
    /\ alive' = read_available
    /\ IF phase = "drain" /\ ~read_available
         THEN state' = "dead" /\ recv_pc' = recv_pc
         ELSE state' = state /\ recv_pc' = "consume"
    /\ off' = 0
    /\ UNCHANGED <<sent, arrived, closed, phase, counts, from, clean>>

-----------------------------------------------------------------------------
raw == rx[off + 1]

FrameComplete ==
    /\ Len(rx) - off >= k_header_size
    /\ ~Malformed(raw)
    /\ Len(rx) - off >= k_header_size + payload_len(raw)

MalformedNext == Len(rx) - off >= k_header_size /\ Malformed(raw)

(* The outcomes of sample() for one delivery. *)
Sampled(p) ==
    IF Len(p) < k_blob_header THEN "bad"
    ELSE IF Head(p) # node THEN "foreign" ELSE "own"

(* The deliveries of a tick payload: the entries that are whole, and a mark *)
(* if the last one is not.                                                  *)
Entries(p) ==
    LET after[i \in 1..(Len(p) + 1)] ==
          IF i > Len(p) THEN [list |-> << >>, cut |-> FALSE]
          ELSE IF Len(p) - i < p[i] THEN [list |-> << >>, cut |-> TRUE]
          ELSE LET rest == after[i + 1 + p[i]]
               IN  [list |-> <<SubSeq(p, i + 1, i + p[i])>> \o rest.list, cut |-> rest.cut]
    IN  after[1]

Outcomes(list) == [i \in DOMAIN list |-> Sampled(list[i])]

Count(seq, x) == Cardinality({i \in DOMAIN seq : seq[i] = x})

(* Fault: a tick frame is a delivery itself, like the others. *)
consume_frame_counts_tick ==
    /\ recv_pc = "consume" /\ FrameComplete
    /\ LET p    == SubSeq(rx, off + k_header_size + 1, off + k_header_size + payload_len(raw))
           type == rx[off + 2]
           e    == Entries(p)
           res  == IF type = tick_out THEN Outcomes(e.list)
                   ELSE IF type = chat_out /\ Len(p) >= k_blob_header
                          THEN <<Sampled(p)>> ELSE << >>
       IN  /\ frames_in' = frames_in + 1
           /\ own' = own + Count(res, "own")
           /\ foreign' = foreign + Count(res, "foreign")
           /\ samples_bad' = samples_bad + Count(res, "bad")
                               + (IF type = tick_out /\ e.cut THEN 1 ELSE 0)
           /\ off' = off + k_header_size + Len(p)
    /\ UNCHANGED <<sent, arrived, closed, taken, phase, state, rx, recv_pc, alive,
                   from, clean>>

(* One complete frame of the buffer. *)
consume_frame ==
    /\ recv_pc = "consume" /\ FrameComplete
    /\ LET p    == SubSeq(rx, off + k_header_size + 1, off + k_header_size + payload_len(raw))
           type == rx[off + 2]
           e    == Entries(p)
           res  == IF type = tick_out THEN Outcomes(e.list)
                   ELSE IF type = chat_out /\ Len(p) >= k_blob_header
                          THEN <<Sampled(p)>> ELSE << >>
       IN  /\ frames_in' = frames_in + (IF type = tick_out THEN Len(res) ELSE 1)
           /\ own' = own + Count(res, "own")
           /\ foreign' = foreign + Count(res, "foreign")
           /\ samples_bad' = samples_bad + Count(res, "bad")
                               + (IF type = tick_out /\ e.cut THEN 1 ELSE 0)
           /\ off' = off + k_header_size + Len(p)
    /\ UNCHANGED <<sent, arrived, closed, taken, phase, state, rx, recv_pc, alive,
                   from, clean>>

(* Back in the loop: a connection read_available gave up on is closed. *)
FramesConsumed ==
    /\ off' = 0
    /\ recv_pc' = "idle"
    /\ state' = IF alive THEN state ELSE "dead"
    /\ UNCHANGED <<sent, arrived, closed, taken, phase, alive, frames_in, own,
                   foreign, from, clean>>

(* Only the part of a frame is left: it moves to the front. *)
consume_rest ==
    /\ recv_pc = "consume" /\ ~FrameComplete /\ ~MalformedNext
    /\ rx' = SubSeq(rx, off + 1, Len(rx))
    /\ UNCHANGED samples_bad
    /\ FramesConsumed

(* A length below the header: the buffer is dropped. *)
consume_malformed ==
    /\ recv_pc = "consume" /\ MalformedNext
    /\ rx' = << >>
    /\ samples_bad' = samples_bad + 1
    /\ FramesConsumed

RecvNext ==
    \/ \E m \in Message : server_writes(m)
    \/ \E n \in 1..Len(stream) : arrives(n)
    \/ server_closes
    \/ discard \/ begin_traffic \/ read \/ consume_frame \/ consume_rest
    \/ consume_malformed \/ advance

RecvSpec == RecvInit /\ [][RecvNext]_recv_vars

-----------------------------------------------------------------------------
(* Bytes consume_frames is past. *)
Parsed == taken - Len(rx) + off

(* The deliveries of a message, and of those after message i up to k, as   *)
(* the server meant them.                                                  *)
Deliveries(m) ==
    IF m.type = notice THEN <<"notice">>
    ELSE [e \in DOMAIN m.from |-> IF m.from[e] = node THEN "own" ELSE "foreign"]

Meant(i, k) == FlattenSeq([j \in 1..(k - i) |-> Deliveries(sent[i + j])])

(* Every message of the traffic and drain phases counts once per delivery, *)
(* inside a tick frame or out of it, and is sampled if this process sent   *)
(* it: the counters the fan-out gate divides by.                           *)
CountsExact ==
    clean =>
        \A k \in from..Len(sent) : phase # "connect" /\ Offset(k) = Parsed =>
            LET m == Meant(from, k)
            IN  /\ frames_in = Len(m)
                /\ own = Count(m, "own")
                /\ foreign = Count(m, "foreign")
                /\ samples_bad = 0

-----------------------------------------------------------------------------
(* The inductive invariant behind it. *)
RecvTypeOK ==
    /\ sent \in Seq(Message) /\ closed \in BOOLEAN
    /\ arrived \in Nat /\ taken \in 0..arrived /\ arrived <= Len(stream)
    /\ phase \in {"connect", "traffic", "drain", "done"} /\ state \in {"ready", "dead"}
    /\ rx \in Seq(Nat) /\ Len(rx) <= k_rx_cap /\ off \in 0..Len(rx)
    /\ recv_pc \in {"idle", "consume"} /\ alive \in BOOLEAN
    /\ frames_in \in Nat /\ own \in Nat /\ foreign \in Nat /\ samples_bad \in Nat
    /\ from \in 0..Len(sent) /\ clean \in BOOLEAN

(* The slot holds the last bytes that were read. *)
Buffered ==
    /\ Len(rx) <= taken
    /\ \A i \in 1..Len(rx) : rx[i] = stream[taken - Len(rx) + i]

CountsTell(k) ==
    LET m == Meant(from, k)
    IN  /\ Offset(k) = Parsed
        /\ frames_in = Len(m) /\ samples_bad = 0
        /\ own = Count(m, "own") /\ foreign = Count(m, "foreign")

RecvInv ==
    /\ RecvTypeOK /\ Buffered
    /\ recv_pc = "idle" => off = 0
    /\ phase = "connect" => /\ rx = << >> /\ recv_pc = "idle"
                            /\ frames_in = 0 /\ samples_bad = 0 /\ own = 0 /\ foreign = 0
    /\ clean => \E k \in from..Len(sent) : CountsTell(k)

=============================================================================

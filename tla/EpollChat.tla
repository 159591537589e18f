----------------------------- MODULE EpollChat -----------------------------
(***************************************************************************)
(* The single-threaded, level-triggered event loop of the epoll chat       *)
(* server (server-epoll/server.cpp).  One trip round the loop is           *)
(*                                                                         *)
(*   epoll_wait -> one handler per event -> tick -> flush, reap, flush     *)
(*                                                                         *)
(* The loop is sequential; what interleaves with it is the kernel: peers   *)
(* break at any moment, a send takes all, some or none of the bytes, a     *)
(* recv yields a frame, the end of the stream or nothing.  A handler that  *)
(* broadcasts twice is two steps, so that each broadcast meets its own     *)
(* socket states.                                                          *)
(*                                                                         *)
(* Byte counts stand for buffers (no decision looks at their content), a   *)
(* nick is present or absent, and a recv that completes no frame is a      *)
(* stuttering step.  g_doomed and g_dirty are sets: both lists are walked  *)
(* in an order nothing depends on, and a repeated entry finds its work     *)
(* done (`closing`, the erased connection, the empty `out`).               *)
(***************************************************************************)
EXTENDS Naturals, FiniteSets

CONSTANTS
  Fd,             \* descriptors the kernel may hand out to accepted sockets
  Room,           \* room names
  NoRoom,         \* the empty c.room
  Listen,         \* the listening socket as an event source
  Sig,            \* the signalfd as an event source
  Modes,          \* sets of the delivery flags the server may be started with
  g_max_conns,
  k_header_size, k_max_payload, k_send_cap, k_tick_cap,
  NoticeLen,      \* payload bytes of a notice
  EntryLen,       \* bytes of the length before a line in the tick buffer (2)
  LineLen         \* payload lengths of the chat lines ("nick: text")

ASSUME ChatAssumption ==
  /\ IsFiniteSet(Fd) /\ NoRoom \notin Room
  /\ Listen \notin Fd /\ Sig \notin Fd /\ Listen # Sig
  /\ Modes \subseteq SUBSET {"flush", "coalesce"} /\ g_max_conns \in Nat
  /\ k_header_size \in Nat \ {0} /\ k_max_payload \in Nat
  /\ k_send_cap \in Nat /\ k_tick_cap \in Nat
  /\ NoticeLen \in Nat /\ EntryLen \in Nat \ {0} /\ LineLen \subseteq Nat

VARIABLES
  mode,       \* the delivery flags read at boot
  conns,      \* g_conns: connection record of every open client descriptor
  g_rooms,    \* room -> descriptors of its members
  g_tick_buf, \* room -> bytes of chat lines waiting for the tick
  g_doomed,   \* descriptors to close at the end of the iteration
  g_dirty,    \* descriptors with bytes queued in this batch
  pc,         \* where the loop is
  batch,      \* events of this epoll_wait not yet handled: <<source, mask>>
  cur,        \* the descriptor on_readable is draining
  target,     \* the room a join is moving `cur` to
  running,
  broken,     \* kernel: connections whose peer is gone (EPOLLERR/EPOLLHUP)
  born        \* descriptors accepted while this batch is handled

serverVars == <<mode, conns, g_rooms, g_tick_buf, g_doomed, g_dirty>>
loopVars == <<pc, batch, cur, target, running>>
vars == <<mode, conns, g_rooms, g_tick_buf, g_doomed, g_dirty, pc, batch, cur,
          target, running, broken, born>>

\* CHAT_FLUSH=batch and CHAT_TICK_MODE=coalesce.
g_batch_flush == "flush" \in mode
g_coalesce == "coalesce" \in mode

Conn == [nick : BOOLEAN, room : Room \cup {NoRoom}, out : 0..k_send_cap,
         armed_write : BOOLEAN, closing : BOOLEAN, dirty : BOOLEAN]

\* A connection as on_accept constructs it.
NewConn == [nick |-> FALSE, room |-> NoRoom, out |-> 0,
            armed_write |-> FALSE, closing |-> FALSE, dirty |-> FALSE]

Masks == {{"IN"}, {"OUT"}, {"IN", "OUT"}, {"ERR"}}
Source == Fd \cup {Listen, Sig}

TypeOK ==
  /\ mode \in Modes
  /\ DOMAIN conns \subseteq Fd /\ conns \in [DOMAIN conns -> Conn]
  /\ Cardinality(DOMAIN conns) <= g_max_conns
  /\ DOMAIN g_rooms \subseteq Room /\ g_rooms \in [DOMAIN g_rooms -> SUBSET Fd]
  /\ DOMAIN g_tick_buf \subseteq Room
  /\ g_tick_buf \in [DOMAIN g_tick_buf -> 0..k_tick_cap]
  /\ g_doomed \subseteq Fd /\ g_dirty \subseteq Fd
  /\ pc \in {"wait", "drain", "accept", "read", "join", "tick",
             "flush", "reap", "flush2", "done"}
  /\ batch \subseteq Source \X Masks
  /\ cur \in (IF pc \in {"read", "join"} THEN DOMAIN conns ELSE {Listen})
  /\ target \in Room \cup {NoRoom}
  /\ running \in BOOLEAN /\ broken \subseteq DOMAIN conns /\ born \subseteq Fd

Init ==
  /\ mode \in Modes
  /\ conns = [f \in {} |-> NewConn] /\ g_rooms = [r \in {} |-> {}]
  /\ g_tick_buf = [r \in {} |-> 0] /\ g_doomed = {} /\ g_dirty = {}
  /\ pc = "wait" /\ batch = {} /\ cur = Listen /\ target = NoRoom
  /\ running = TRUE /\ broken = {} /\ born = {}
-----------------------------------------------------------------------------
(***************************************************************************)
(* What the helpers do to one connection.                                  *)
(***************************************************************************)

\* EPOLL_CTL_MOD on a registered descriptor does not fail.
update_epoll_mask(c) == [c EXCEPT !.armed_write = c.out > 0]

doom(c) == [c EXCEPT !.closing = TRUE]

\* Append a frame of `len` payload bytes, or doom a peer that does not read.
queue(c, len) ==
  IF c.out + k_header_size + len > k_send_cap
    THEN doom(c)
    ELSE [c EXCEPT !.out = @ + k_header_size + len]

queue_send(c, len) ==
  IF c.closing \/ len > k_max_payload THEN c ELSE queue(c, len)

queue_tick_frame(c, len) == IF c.closing THEN c ELSE queue(c, len)

\* The kernel takes at most `take` of the bytes, then answers EAGAIN; a broken
\* peer makes the send fail.
flush_send(c, gone, take) ==
  IF c.out > 0 /\ gone
    THEN doom(c)
    ELSE update_epoll_mask([c EXCEPT !.out = IF take < @ THEN @ - take ELSE 0])

mark_dirty(c) == [c EXCEPT !.dirty = c.dirty \/ c.out > 0]

\* After queueing: send inline, or leave the bytes to the flush pass.
flush_or_mark(c, gone, take) ==
  IF g_batch_flush THEN mark_dirty(c) ELSE flush_send(c, gone, take)

\* How much the kernel takes from each socket: nothing, a byte, everything.
Takes == [Fd -> {0, 1, k_send_cap}]

\* The connections `to` become upd(f), those outside `open` are erased; what
\* the others now ask for is recorded.
Update(open, to, upd(_)) ==
  /\ conns' = [f \in open |-> IF f \in to THEN upd(f) ELSE conns[f]]
  /\ g_doomed' = (g_doomed \cap open) \cup {f \in to : upd(f).closing}
  /\ g_dirty' = g_dirty \cup {f \in to : upd(f).dirty}

Without(fn, x) == [y \in DOMAIN fn \ {x} |-> fn[y]]
With(fn, x, v) == [y \in DOMAIN fn \cup {x} |-> IF y = x THEN v ELSE fn[y]]

\* The members of a room a broadcast reaches.
Audience(room, except) ==
  IF room \in DOMAIN g_rooms
    THEN {f \in g_rooms[room] \cap DOMAIN conns :
            f # except /\ ~conns[f].closing}
    ELSE {}

\* What a broadcast does to one member.
broadcast(f, len, take) ==
  flush_or_mark(queue_send(conns[f], len), f \in broken, take[f])

\* Fault: the tick buffer outlives its room.
leave_room_stale_lines(fd, room) ==
  IF room \notin DOMAIN g_rooms
    THEN UNCHANGED <<mode, g_rooms, g_tick_buf>>
    ELSE /\ g_rooms' = IF g_rooms[room] \ {fd} = {}
                         THEN Without(g_rooms, room)
                         ELSE [g_rooms EXCEPT ![room] = @ \ {fd}]
         /\ UNCHANGED g_tick_buf

\* g_rooms and g_tick_buf after descriptor fd leaves `room`.
leave_room(fd, room) ==
  IF room \notin DOMAIN g_rooms
    THEN UNCHANGED <<mode, g_rooms, g_tick_buf>>
    ELSE IF g_rooms[room] \ {fd} = {}
           THEN /\ g_rooms' = Without(g_rooms, room)
                /\ g_tick_buf' = IF g_coalesce THEN Without(g_tick_buf, room)
                                                ELSE g_tick_buf
           ELSE /\ g_rooms' = [g_rooms EXCEPT ![room] = @ \ {fd}]
                /\ UNCHANGED g_tick_buf
-----------------------------------------------------------------------------
(***************************************************************************)
(* The events of one batch.                                                *)
(***************************************************************************)

\* The events the kernel may report for a source, as epoll masks.
Reportable(src) ==
  IF src \in {Listen, Sig} THEN {{"IN"}}
  ELSE IF src \in broken THEN {{"ERR"}}
  ELSE IF conns[src].armed_write THEN {{"IN"}, {"OUT"}, {"IN", "OUT"}}
  ELSE {{"IN"}}

\* epoll_wait returns; with a tick it may also time out with no event.
epoll_wait ==
  /\ pc = "wait" /\ running
  /\ \E ready \in SUBSET (DOMAIN conns \cup {Listen, Sig}) :
       /\ ready # {} \/ g_coalesce
       /\ batch' \in {b \in SUBSET UNION {{s} \X Reportable(s) : s \in ready} :
                        \A s \in ready : Cardinality(b \cap ({s} \X Masks)) = 1}
  /\ pc' = "drain"
  /\ UNCHANGED <<serverVars, cur, target, running, broken, born>>

\* Take event <<src, what>> off the batch and go on at `next`.
Handle(src, what, next) ==
  /\ pc = "drain" /\ <<src, what>> \in batch
  /\ batch' = batch \ {<<src, what>>}
  /\ pc' = next /\ cur' = IF next = "read" THEN src ELSE Listen
  /\ UNCHANGED <<mode, target, broken, born>>

event_listen ==
  /\ Handle(Listen, {"IN"}, "accept") /\ UNCHANGED <<serverVars, running>>

event_signal ==
  /\ Handle(Sig, {"IN"}, "drain") /\ running' = FALSE
  /\ UNCHANGED serverVars

\* The connection is gone or doomed: the event is skipped.
event_skipped(fd) ==
  /\ fd \in DOMAIN conns => conns[fd].closing
  /\ \E what \in Masks : Handle(fd, what, "drain")
  /\ UNCHANGED <<serverVars, running>>

event_hangup(fd) ==
  /\ fd \in DOMAIN conns /\ ~conns[fd].closing
  /\ Handle(fd, {"ERR"}, "drain")
  /\ Update(DOMAIN conns, {fd}, LAMBDA f : doom(conns[f]))
  /\ UNCHANGED <<mode, g_rooms, g_tick_buf, running>>

\* EPOLLOUT flushes; if that did not doom the connection EPOLLIN reads it.
event_ready(fd) ==
  /\ fd \in DOMAIN conns /\ ~conns[fd].closing
  /\ \E what \in Masks \ {{"ERR"}}, take \in Takes :
       LET Ready(f) == IF "OUT" \in what
                         THEN flush_send(conns[f], f \in broken, take[f])
                         ELSE conns[f]
       IN  /\ Handle(fd, what, IF "IN" \in what /\ ~Ready(fd).closing
                                 THEN "read" ELSE "drain")
           /\ Update(DOMAIN conns, {fd}, Ready)
  /\ UNCHANGED <<mode, g_rooms, g_tick_buf, running>>
-----------------------------------------------------------------------------
(***************************************************************************)
(* on_accept: accept4 until nothing is pending.                            *)
(***************************************************************************)

\* accept4 hands out a free descriptor.  (Over the cap the descriptor is closed
\* again at once, which leaves the server as it was.)
accept_conn ==
  /\ pc = "accept" /\ Cardinality(DOMAIN conns) < g_max_conns
  /\ \E fd \in Fd \ DOMAIN conns :
       conns' = With(conns, fd, NewConn) /\ born' = born \cup {fd}
  /\ UNCHANGED <<mode, g_rooms, g_tick_buf, g_doomed, g_dirty, loopVars, broken>>

\* EAGAIN, or no descriptor is left and one client is shed through g_reserve.
accept_stop ==
  /\ pc = "accept" /\ pc' = "drain"
  /\ UNCHANGED <<serverVars, batch, cur, target, running, broken, born>>
-----------------------------------------------------------------------------
(***************************************************************************)
(* on_readable: recv, parse_frames and handle_packet, frame by frame.      *)
(***************************************************************************)

\* on_readable goes on unless the frame doomed its own connection.
NextFrame ==
  IF conns'[cur].closing THEN pc' = "drain" /\ cur' = Listen
                         ELSE pc' = "read" /\ UNCHANGED cur

\* One whole frame whose handling touches this connection only.
Frame(upd(_)) ==
  /\ pc = "read" /\ Update(DOMAIN conns, {cur}, upd) /\ NextFrame
  /\ UNCHANGED <<mode, batch, target, running, broken, born>>

set_nick ==
  /\ \E named \in BOOLEAN :
       Frame(LAMBDA f : queue_send([conns[f] EXCEPT !.nick = named], NoticeLen))
  /\ UNCHANGED <<mode, g_rooms, g_tick_buf>>

\* A join without a nick or a room name, a chat outside any room.
complain ==
  /\ Frame(LAMBDA f : queue_send(conns[f], NoticeLen))
  /\ UNCHANGED <<mode, g_rooms, g_tick_buf>>

\* End of stream, a recv error, an unknown type or an oversize length.
hang_up ==
  /\ Frame(LAMBDA f : doom(conns[f])) /\ UNCHANGED <<mode, g_rooms, g_tick_buf>>

\* A join tells the old room and leaves it ...
join_leave ==
  /\ pc = "read" /\ conns[cur].nick /\ conns[cur].room # NoRoom
  /\ target' \in Room /\ pc' = "join"
  /\ \E take \in Takes :
       LET Left(f) == IF f = cur THEN [conns[f] EXCEPT !.room = NoRoom]
                                 ELSE broadcast(f, NoticeLen, take)
       IN  Update(DOMAIN conns, Audience(conns[cur].room, cur) \cup {cur}, Left)
  /\ leave_room(cur, conns[cur].room)
  /\ UNCHANGED <<mode, batch, cur, running, broken, born>>

\* ... and enters the new one.
join_enter(room) ==
  /\ \E take \in Takes :
       LET Entered(f) ==
             IF f = cur
               THEN queue_send([conns[f] EXCEPT !.room = room], NoticeLen)
               ELSE broadcast(f, NoticeLen, take)
       IN  Update(DOMAIN conns, Audience(room, cur) \cup {cur}, Entered)
  /\ g_rooms' = With(g_rooms, room, {cur} \cup IF room \in DOMAIN g_rooms
                                                 THEN g_rooms[room] ELSE {})
  /\ target' = NoRoom /\ NextFrame
  /\ UNCHANGED <<mode, g_tick_buf, batch, running, broken, born>>

join_first ==
  /\ pc = "read" /\ conns[cur].nick /\ conns[cur].room = NoRoom
  /\ \E room \in Room : join_enter(room)

join_move == pc = "join" /\ join_enter(target)

\* Fault: a recipient over its cap is closed in the middle of the batch.
chat_now_closes(len) ==
  /\ pc = "read" /\ ~g_coalesce /\ conns[cur].room # NoRoom
  /\ \E take \in Takes :
       LET gone == {f \in Audience(conns[cur].room, cur) :
                      broadcast(f, len, take).closing}
       IN  /\ Update(DOMAIN conns \ gone, Audience(conns[cur].room, Listen) \ gone,
                     LAMBDA f : broadcast(f, len, take))
           /\ g_rooms' = [r \in DOMAIN g_rooms |-> g_rooms[r] \ gone]
           /\ broken' = broken \ gone
  /\ NextFrame
  /\ UNCHANGED <<mode, g_tick_buf, batch, target, running, born>>

\* A chat line goes to the whole room, its sender included ...
chat_now(len) ==
  /\ pc = "read" /\ ~g_coalesce /\ conns[cur].room # NoRoom
  /\ \E take \in Takes :
       Update(DOMAIN conns, Audience(conns[cur].room, Listen),
              LAMBDA f : broadcast(f, len, take))
  /\ NextFrame
  /\ UNCHANGED <<mode, g_rooms, g_tick_buf, batch, target, running, broken, born>>

\* ... or into the room's tick buffer, unless that is full.
chat_coalesce(len) ==
  /\ pc = "read" /\ g_coalesce /\ conns[cur].room # NoRoom
  /\ LET room == conns[cur].room
         buf == IF room \in DOMAIN g_tick_buf THEN g_tick_buf[room] ELSE 0
     IN  g_tick_buf' = With(g_tick_buf, room,
                            IF buf + EntryLen + len > k_tick_cap
                              THEN buf ELSE buf + EntryLen + len)
  /\ UNCHANGED <<mode, conns, g_rooms, g_doomed, g_dirty, loopVars, broken, born>>

\* EAGAIN on recv: the replies queued by this visit are sent or marked.
drained ==
  /\ pc = "read" /\ pc' = "drain" /\ cur' = Listen
  /\ \E take \in Takes :
       Update(DOMAIN conns, {cur},
              LAMBDA f : flush_or_mark(conns[f], f \in broken, take[f]))
  /\ UNCHANGED <<mode, g_rooms, g_tick_buf, batch, target, running, broken, born>>
-----------------------------------------------------------------------------
(***************************************************************************)
(* The tail of the iteration.                                              *)
(***************************************************************************)

FlushPhase == IF g_batch_flush THEN "flush" ELSE "reap"

\* The batch is handled: the tick is due, or not.
end_of_batch ==
  /\ pc = "drain" /\ batch = {}
  /\ pc' \in {FlushPhase} \cup IF g_coalesce THEN {"tick"} ELSE {}
  /\ born' = {}
  /\ UNCHANGED <<serverVars, batch, cur, target, running, broken>>

\* flush_tick_rooms: one room's buffer goes to its members as one frame.
tick_room(room) ==
  /\ pc = "tick" /\ g_tick_buf[room] > 0
  /\ \E take \in Takes :
       Update(DOMAIN conns, Audience(room, Listen),
              LAMBDA f : flush_or_mark(queue_tick_frame(conns[f], g_tick_buf[room]),
                                       f \in broken, take[f]))
  /\ g_tick_buf' = [g_tick_buf EXCEPT ![room] = 0]
  /\ UNCHANGED <<mode, g_rooms, loopVars, broken, born>>

tick_done ==
  /\ pc = "tick" /\ \A room \in DOMAIN g_tick_buf : g_tick_buf[room] = 0
  /\ pc' = FlushPhase
  /\ UNCHANGED <<serverVars, batch, cur, target, running, broken, born>>

\* Send what each dirty connection has queued; the list ends empty.
flush_dirty ==
  \E take \in Takes :
    LET Flushed(f) ==
          LET c == [conns[f] EXCEPT !.dirty = FALSE]
          IN  IF c.closing THEN c ELSE flush_send(c, f \in broken, take[f])
        live == g_dirty \cap DOMAIN conns
    IN  /\ conns' = [f \in DOMAIN conns |-> IF f \in live THEN Flushed(f) ELSE conns[f]]
        /\ g_doomed' = g_doomed \cup {f \in live : Flushed(f).closing}
        /\ g_dirty' = {}

first_flush ==
  /\ pc = "flush" /\ flush_dirty /\ pc' = "reap"
  /\ UNCHANGED <<mode, g_rooms, g_tick_buf, batch, cur, target, running, broken, born>>

\* Fault: a connection without a nick stays in its room's member set.
reap_one_unnamed(fd) ==
  /\ pc = "reap" /\ fd \in g_doomed
  /\ \E take \in Takes :
       Update(DOMAIN conns \ {fd},
              IF conns[fd].nick THEN Audience(conns[fd].room, fd) ELSE {},
              LAMBDA f : broadcast(f, NoticeLen, take))
  /\ IF conns[fd].nick THEN leave_room(fd, conns[fd].room)
                       ELSE UNCHANGED <<mode, g_rooms, g_tick_buf>>
  /\ broken' = broken \ {fd}
  /\ UNCHANGED <<mode, loopVars, born>>

\* Close one doomed connection: out of its room first, then tell the room.
reap_one(fd) ==
  /\ pc = "reap" /\ fd \in g_doomed
  /\ \E take \in Takes :
       Update(DOMAIN conns \ {fd},
              IF conns[fd].nick THEN Audience(conns[fd].room, fd) ELSE {},
              LAMBDA f : broadcast(f, NoticeLen, take))
  /\ leave_room(fd, conns[fd].room)
  /\ broken' = broken \ {fd}
  /\ UNCHANGED <<mode, loopVars, born>>

\* Fault: no second flush after the reap.
reap_done_unflushed ==
  /\ pc = "reap" /\ g_doomed = {} /\ pc' = "wait"
  /\ UNCHANGED <<serverVars, batch, cur, target, running, broken, born>>

\* Fault: they are dropped from the list without being closed.
reap_done_clears ==
  /\ pc = "reap" /\ g_doomed' = {}
  /\ pc' = IF g_batch_flush THEN "flush2" ELSE "wait"
  /\ UNCHANGED <<mode, conns, g_rooms, g_tick_buf, g_dirty, batch, cur, target, running,
                 broken, born>>

reap_done ==
  /\ pc = "reap" /\ g_doomed = {}
  /\ pc' = IF g_batch_flush THEN "flush2" ELSE "wait"
  /\ UNCHANGED <<serverVars, batch, cur, target, running, broken, born>>

\* The notices of the reap leave in a second flush.
second_flush ==
  /\ pc = "flush2" /\ flush_dirty /\ pc' = "wait"
  /\ UNCHANGED <<mode, g_rooms, g_tick_buf, batch, cur, target, running, broken, born>>

\* Fault: the exit waits for the clients to leave.
shutdown_waits ==
  /\ pc = "wait" /\ ~running /\ DOMAIN conns = {} /\ pc' = "done"
  /\ UNCHANGED <<serverVars, batch, cur, target, running, broken, born>>

\* Out of the loop: every descriptor is closed.
shutdown ==
  /\ pc = "wait" /\ ~running /\ pc' = "done"
  /\ conns' = [f \in {} |-> NewConn] /\ g_rooms' = [r \in {} |-> {}]
  /\ broken' = {}
  /\ UNCHANGED <<mode, g_tick_buf, g_doomed, g_dirty, batch, cur, target, running, born>>

\* A peer resets its connection (kernel).
peer_reset ==
  /\ \E fd \in DOMAIN conns \ broken : broken' = broken \cup {fd}
  /\ UNCHANGED <<serverVars, loopVars, born>>

Terminated == pc = "done" /\ UNCHANGED vars

Accept == accept_conn \/ accept_stop

Packet ==
  \/ set_nick \/ complain \/ hang_up \/ join_leave \/ join_first \/ join_move
  \/ \E len \in LineLen : chat_now(len) \/ chat_coalesce(len)

Drain ==
  \/ event_listen \/ event_signal
  \/ \E fd \in Fd : event_skipped(fd) \/ event_hangup(fd) \/ event_ready(fd)
  \/ Accept \/ Packet \/ drained \/ end_of_batch

Tail ==
  \/ \E room \in DOMAIN g_tick_buf : tick_room(room)
  \/ tick_done \/ first_flush \/ (\E fd \in g_doomed : reap_one(fd))
  \/ reap_done \/ second_flush

Next == epoll_wait \/ Drain \/ Tail \/ shutdown \/ peer_reset \/ Terminated

Spec == Init /\ [][Next]_vars

(***************************************************************************)
(* Fairness.  The thread keeps running its own steps; a broken peer is     *)
(* reported by the level-triggered epoll_wait; and no client outruns the   *)
(* loop for ever: recv and accept4 answer EAGAIN again and again.          *)
(***************************************************************************)
FairSpec ==
  /\ Spec
  /\ WF_vars(Drain) /\ WF_vars(Tail) /\ WF_vars(shutdown)
  /\ WF_vars(broken # {} /\ epoll_wait)
  /\ SF_vars(drained) /\ SF_vars(accept_stop)
-----------------------------------------------------------------------------
(***************************************************************************)
(* Correctness.                                                            *)
(***************************************************************************)

\* When the loop blocks, EPOLLOUT is armed for exactly the live connections
\* that have bytes to send: nothing sits in `out` with nobody to send it
\* (comment at server.cpp:749-754), and no armed mask spins the loop (LESSON 3).
ArmedIffPending ==
  pc = "wait" => \A f \in DOMAIN conns :
    ~conns[f].closing => (conns[f].armed_write <=> conns[f].out > 0)

\* Room membership and the connections' `room` agree after every handler step,
\* and no room is empty: a reaped or moved connection is in no member set.
RoomsMatchConns ==
  /\ \A r \in DOMAIN g_rooms : g_rooms[r] # {}
  /\ \A r \in Room :
       {f \in DOMAIN conns : conns[f].room = r} =
         IF r \in DOMAIN g_rooms THEN g_rooms[r] ELSE {}

\* Lines wait for the tick only in rooms that exist: a room that empties and
\* is opened again never delivers the lines of its former members.
TickLinesHaveRoom ==
  pc # "done" => DOMAIN g_tick_buf \subseteq DOMAIN g_rooms

\* No event of a batch reaches a connection that inherited the descriptor
\* after epoll_wait returned (LESSON 5).
EventsReachTheirConnection == \A e \in batch : e[1] \notin born

\* A doomed connection is closed.
DoomedIsClosed ==
  \A fd \in Fd : (fd \in DOMAIN conns /\ conns[fd].closing)
                   ~> (fd \notin DOMAIN conns)

\* A received signal ends the loop: the server closes everything and exits.
SignalStops == ~running ~> (pc = "done" /\ conns = [f \in {} |-> NewConn])
-----------------------------------------------------------------------------
(***************************************************************************)
(* The inductive strengthening used by the proofs.                         *)
(***************************************************************************)

\* EPOLLOUT is armed only with bytes to send, and bytes to send are armed or
\* on the dirty list, except while their connection is being read.
Masked(c) == c.armed_write => c.out > 0
Settled(c) == c.out > 0 => c.armed_write \/ c.dirty

ConnInv ==
  /\ \A f \in DOMAIN conns :
       /\ ~conns[f].closing => Masked(conns[f]) /\ (f # cur => Settled(conns[f]))
       /\ conns[f].dirty => f \in g_dirty
  /\ g_dirty # {} => g_batch_flush /\ pc # "wait"
  /\ pc # "done" => g_doomed = {f \in DOMAIN conns : conns[f].closing}

\* Events are of connections that were open when epoll_wait returned, and the
\* batch is over before anything is closed.
BatchInv ==
  /\ \A e \in batch : e[1] \in DOMAIN conns \cup {Listen, Sig}
  /\ EventsReachTheirConnection
  /\ pc \notin {"drain", "accept", "read", "join"} => batch = {} /\ born = {}

\* Only --coalesce buffers lines, and only in rooms that exist.
TickInv ==
  /\ TickLinesHaveRoom
  /\ ~g_coalesce => DOMAIN g_tick_buf = {}

\* Between the two halves of a join the connection is in no room.
JoinInv == pc = "join" => target \in Room /\ conns[cur].room = NoRoom

ChatInv ==
  TypeOK /\ ConnInv /\ RoomsMatchConns /\ BatchInv /\ TickInv /\ JoinInv
=============================================================================

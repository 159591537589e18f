------------------------------ MODULE SdsChat ------------------------------
(***************************************************************************)
(* The event loop of the sds build of the chat server                      *)
(* (server-epoll/server_sds.cpp): connections in a slab indexed by         *)
(* descriptor, the rooms of SdsRooms, and the lists of doomed and dirty    *)
(* descriptors as vectors walked by index.  Its promise is that it behaves *)
(* as server.cpp does: the specification implements EpollChat.             *)
(*                                                                         *)
(* The transmit region is its length, `out` = tx_tail - tx_head (module    *)
(* SdsSend shows that the region behaves as a queue of that length), the   *)
(* receive ring and the frames in it are FrameParser's, and descriptors    *)
(* run out in AcceptReserve.                                               *)
(***************************************************************************)
EXTENDS SdsRooms, SequencesExt

CONSTANTS
    Listen, Sig,        \* the listening socket and the signalfd
    g_max_conns,        \* CHAT_MAX_CONNS
    MaxEvents,          \* length of the `events` array (256)
    k_header_size, k_max_payload, k_send_cap,
    NoticeLen,          \* payload bytes of a notice
    LineLen             \* payload lengths of the chat lines

ASSUME SdsAssumption ==
    /\ Listen \notin Fd /\ Sig \notin Fd /\ Listen # Sig
    /\ g_max_conns \in Nat /\ g_slots >= g_max_conns /\ MaxEvents \in Nat \ {0}
    /\ k_header_size \in Nat \ {0} /\ k_max_payload \in Nat /\ k_send_cap \in Nat
    /\ NoticeLen \in Nat /\ LineLen \subseteq Nat

VARIABLES
    g_batch_flush,  \* CHAT_FLUSH=batch
    g_doomed,       \* vector of descriptors to close
    g_dirty,        \* vector of descriptors with bytes queued in this batch
    g_total_live,
    reaped,         \* the index of the loop in reap_doomed
    pc, batch, cur, target, running, broken, born   \* as in EpollChat

loop_vars == <<batch, cur, target, running, broken, born>>
chat_vars == <<rooms_vars, g_batch_flush, g_doomed, g_dirty, g_total_live, reaped,
               pc, loop_vars>>

(* A connection as its constructor leaves it. *)
NewConn ==
    [nick |-> FALSE, room |-> k_no_room, room_prev |-> None, room_next |-> None,
     out |-> 0, armed_write |-> FALSE, closing |-> FALSE, dirty |-> FALSE]

ChatInit ==
    /\ RoomsInit
    /\ g_batch_flush \in BOOLEAN
    /\ g_doomed = << >> /\ g_dirty = << >> /\ g_total_live = 0 /\ reaped = 0
    /\ pc = "wait" /\ batch = {} /\ cur = Listen /\ target = << >>
    /\ running = TRUE /\ broken = {} /\ born = {}
-----------------------------------------------------------------------------
(* What the helpers make of the server's state s. *)

Server == [conns |-> conns, rooms |-> g_rooms, free |-> g_room_free,
           index |-> g_room_index, doomed |-> g_doomed, dirty |-> g_dirty,
           trapped |-> trapped]

Becomes_server(s) ==
    /\ Becomes(s) /\ trapped' = s.trapped
    /\ g_doomed' = s.doomed /\ g_dirty' = s.dirty

live(s, fd) == fd \in DOMAIN s.conns

(* A list is reserved to g_slots: a push past that may find no memory, and *)
(* then the LNX_CHECK fails.                                               *)
push_fails(list) == Len(list) >= g_slots

update_epoll_mask(s, fd) == [s EXCEPT !.conns[fd].armed_write = s.conns[fd].out > 0]

doom(s, fd) ==
    IF s.conns[fd].closing THEN s
    ELSE [s EXCEPT !.conns[fd].closing = TRUE,
                   !.trapped = @ \/ push_fails(s.doomed),
                   !.doomed = Append(@, fd)]

queue_send(s, fd, len) ==
    LET c == s.conns[fd]
        frame == k_header_size + len
    IN  CASE c.closing \/ len > k_max_payload -> s
          [] ~c.closing /\ len <= k_max_payload /\ c.out + frame > k_send_cap -> doom(s, fd)
          [] OTHER -> [s EXCEPT !.conns[fd].out = @ + frame]

(* The socket takes at most `take` bytes, then answers EAGAIN; the send of *)
(* a broken one fails.                                                     *)
flush_send(s, fd, take) ==
    LET out == s.conns[fd].out
    IN  IF out > 0 /\ fd \in broken
        THEN doom(s, fd)
        ELSE update_epoll_mask(
               [s EXCEPT !.conns[fd].out = IF take < out THEN out - take ELSE 0], fd)

mark_dirty(s, fd) ==
    IF ~s.conns[fd].dirty /\ s.conns[fd].out > 0
    THEN [s EXCEPT !.conns[fd].dirty = TRUE, !.trapped = @ \/ push_fails(s.dirty),
                   !.dirty = Append(@, fd)]
    ELSE s

flush_or_mark(s, fd, take) ==
    IF g_batch_flush THEN mark_dirty(s, fd) ELSE flush_send(s, fd, take)

(* One member's turn in a broadcast. *)
tell(s, fd, len, except_fd, take) ==
    IF fd = except_fd \/ s.conns[fd].closing THEN s
    ELSE flush_or_mark(queue_send(s, fd, len), fd, take)

(* The members are met along the intrusive list, whatever the sends do. *)
broadcast(s, idx, len, except_fd, take) ==
    LET met == Walk(s, idx)
        told[n \in 0..Len(met)] ==
          IF n = 0 THEN s ELSE tell(told[n - 1], met[n], len, except_fd, take[met[n]])
    IN  IF idx = k_no_room \/ ~s.rooms[idx].live THEN s ELSE told[Len(met)]

(* How much the kernel takes from a socket: nothing, a byte, everything. *)
Take == {0, 1, k_send_cap}
Takes == [Fd -> Take]
-----------------------------------------------------------------------------
(* The events of one batch. *)

Reportable(src) ==
    CASE src \in broken -> {{"ERR"}}
      [] src \in Fd \ broken /\ conns[src].armed_write -> {{"IN"}, {"OUT"}, {"IN", "OUT"}}
      [] OTHER -> {{"IN"}}

(* epoll_wait blocks until something is ready and returns what fits. *)
epoll_wait ==
    /\ pc = "wait" /\ running /\ ~trapped
    /\ \E ready \in UNION {kSubset(n, DOMAIN conns \cup {Listen, Sig}) : n \in 1..MaxEvents} :
         \E what \in [ready -> UNION {Reportable(s) : s \in ready}] :
           /\ \A s \in ready : what[s] \in Reportable(s)
           /\ batch' = {<<s, what[s]>> : s \in ready}
    /\ pc' = "drain"
    /\ UNCHANGED <<rooms_vars, g_batch_flush, g_doomed, g_dirty, g_total_live, reaped,
                   cur, target, running, broken, born>>

(* An event is taken off the batch. *)
Event(src, what) ==
    /\ pc = "drain" /\ ~trapped /\ <<src, what>> \in batch
    /\ batch' = batch \ {<<src, what>>}
    /\ UNCHANGED <<g_batch_flush, joined, g_total_live, reaped, target, broken, born>>

event_listen ==
    /\ Event(Listen, {"IN"}) /\ pc' = "accept" /\ Becomes_server(Server)
    /\ UNCHANGED <<cur, running>>

event_signal ==
    /\ Event(Sig, {"IN"}) /\ running' = FALSE /\ Becomes_server(Server)
    /\ UNCHANGED <<pc, cur>>

(* A connection's event: skipped if the slot is dead or the connection     *)
(* doomed; an error dooms; EPOLLOUT flushes and then EPOLLIN reads.        *)
event_conn(fd, what) ==
    /\ Event(fd, what) /\ UNCHANGED running
    /\ \E take \in Take :
         LET s == CASE ~live(Server, fd) -> Server
                    [] live(Server, fd) /\ "ERR" \in what -> doom(Server, fd)
                    [] live(Server, fd) /\ "OUT" \in what /\ ~conns[fd].closing ->
                         flush_send(Server, fd, take)
                    [] OTHER -> Server
             reads == live(s, fd) /\ ~s.conns[fd].closing /\ "IN" \in what
         IN  /\ Becomes_server(s)
             /\ pc' = IF reads THEN "read" ELSE "drain"
             /\ cur' = IF reads THEN fd ELSE Listen

(* on_accept: the cap counts g_total_live; a refused descriptor (the cap,  *)
(* or one past the last slot) is closed and leaves the server as it was.   *)
accept_conn(fd) ==
    /\ pc = "accept" /\ ~trapped
    /\ fd \notin DOMAIN conns /\ g_total_live < g_max_conns
    /\ conns' = [f \in DOMAIN conns \cup {fd} |-> IF f = fd THEN NewConn ELSE conns[f]]
    /\ joined' = [f \in DOMAIN joined \cup {fd} |-> IF f = fd THEN << >> ELSE joined[f]]
    /\ g_total_live' = g_total_live + 1
    /\ born' = born \cup {fd}
    /\ UNCHANGED <<g_rooms, g_room_free, g_room_index, trapped, g_batch_flush, g_doomed,
                   g_dirty, reaped, pc, batch, cur, target, running, broken>>

accept_stop ==
    /\ pc = "accept" /\ ~trapped /\ pc' = "drain"
    /\ UNCHANGED <<rooms_vars, g_batch_flush, g_doomed, g_dirty, g_total_live, reaped,
                   loop_vars>>
-----------------------------------------------------------------------------
(* on_readable and handle_packet, frame by frame. *)

(* The state after a frame; a frame that doomed its connection is the last. *)
Handled(s) ==
    /\ Becomes_server(s)
    /\ pc' = IF s.conns[cur].closing THEN "drain" ELSE "read"
    /\ cur' = IF s.conns[cur].closing THEN Listen ELSE cur
    /\ UNCHANGED <<g_batch_flush, g_total_live, reaped, batch, running, broken, born>>

Reading == pc = "read" /\ ~trapped

set_nick ==
    /\ Reading
    /\ \E named \in BOOLEAN :
         Handled(queue_send([Server EXCEPT !.conns[cur].nick = named], cur, NoticeLen))
    /\ UNCHANGED <<joined, target>>

(* A join without a nick or a name, a chat outside any room. *)
complain ==
    /\ Reading /\ Handled(queue_send(Server, cur, NoticeLen))
    /\ UNCHANGED <<joined, target>>

(* An unknown type, an oversize frame, the end of the stream, an error. *)
hang_up == Reading /\ Handled(doom(Server, cur)) /\ UNCHANGED <<joined, target>>

(* c_join tells the old room and leaves it ... *)
join_leave(name) ==
    /\ Reading /\ conns[cur].nick /\ conns[cur].room # k_no_room
    /\ \E take \in Takes :
         Becomes_server(leave_room(broadcast(Server, conns[cur].room, NoticeLen, cur, take),
                                   cur))
    /\ joined' = [joined EXCEPT ![cur] = << >>]
    /\ target' = name /\ pc' = "join"
    /\ UNCHANGED <<g_batch_flush, g_total_live, reaped, batch, cur, running, broken, born>>

(* ... then finds or opens the new one, enters, and tells it. *)
join_enter(name) ==
    LET found == find(g_rooms, g_room_index, name)
        idx   == IF found = {} THEN g_room_free ELSE (CHOOSE n \in found : TRUE).value
        s     == IF found = {} THEN NewRoom(Server, name) ELSE Server
    IN  IF found = {} /\ g_room_free = k_no_room
        THEN /\ trapped' = TRUE
             /\ UNCHANGED <<conns, g_rooms, g_room_free, g_room_index, joined,
                            g_batch_flush, g_doomed, g_dirty, g_total_live, reaped, pc,
                            loop_vars>>
        ELSE /\ \E take \in Takes :
                  Handled(broadcast(queue_send(join_room(s, cur, idx), cur, NoticeLen),
                                    idx, NoticeLen, cur, take))
             /\ joined' = [joined EXCEPT ![cur] = name]
             /\ target' = << >>

join_first(name) ==
    /\ Reading /\ conns[cur].nick /\ conns[cur].room = k_no_room
    /\ join_enter(name)

join_move == pc = "join" /\ ~trapped /\ join_enter(target)

(* c_chat: to the whole room, the sender included. *)
chat(len) ==
    /\ Reading /\ conns[cur].room # k_no_room
    /\ \E take \in Takes : Handled(broadcast(Server, conns[cur].room, len, Listen, take))
    /\ UNCHANGED <<joined, target>>

(* EAGAIN, or a short read under CHAT_SHORT_READ. *)
drained ==
    /\ Reading
    /\ \E take \in Take : Becomes_server(flush_or_mark(Server, cur, take))
    /\ pc' = "drain" /\ cur' = Listen
    /\ UNCHANGED <<g_batch_flush, joined, g_total_live, reaped, batch, target, running,
                   broken, born>>
-----------------------------------------------------------------------------
(* The tail of the iteration. *)

end_of_batch ==
    /\ pc = "drain" /\ ~trapped /\ batch = {}
    /\ pc' = IF g_batch_flush THEN "flush" ELSE "reap"
    /\ born' = {}
    /\ UNCHANGED <<rooms_vars, g_batch_flush, g_doomed, g_dirty, g_total_live, reaped,
                   batch, cur, target, running, broken>>

(* One entry of the dirty list. *)
flush_entry(s, fd, take) ==
    LET t == [s EXCEPT !.conns[fd].dirty = FALSE]
    IN  IF ~live(s, fd) THEN s
        ELSE IF s.conns[fd].closing THEN t ELSE flush_send(t, fd, take)

(* flush_dirty: by index over the vector, which ends empty. *)
flush_dirty(s, take) ==
    LET flushed[n \in 0..Len(s.dirty)] ==
          IF n = 0 THEN s
          ELSE flush_entry(flushed[n - 1], s.dirty[n], take[s.dirty[n]])
    IN  [flushed[Len(s.dirty)] EXCEPT !.dirty = << >>]

flush_pass ==
    /\ pc \in {"flush", "flush2"} /\ ~trapped
    /\ \E take \in Takes : Becomes_server(flush_dirty(Server, take))
    /\ pc' = IF pc = "flush" THEN "reap" ELSE "wait"
    /\ UNCHANGED <<g_batch_flush, joined, g_total_live, reaped, loop_vars>>

(* One turn of reap_doomed: out of the room, then tell it (a room that was *)
(* released is no longer live), then destroy the slot.                     *)
reap_one ==
    LET fd == g_doomed[reaped + 1]
        room_idx == conns[fd].room
        s == leave_room(Server, fd)
        Told(take) == IF room_idx # k_no_room /\ conns[fd].nick
                      THEN broadcast(s, room_idx, NoticeLen, fd, take) ELSE s
        rest == DOMAIN conns \ {fd}
    IN  /\ pc = "reap" /\ ~trapped /\ reaped < Len(g_doomed)
        /\ reaped' = reaped + 1
        /\ IF live(Server, fd)
           THEN /\ \E take \in Takes :
                     LET t == Told(take)
                     IN  Becomes_server([t EXCEPT !.conns = [f \in rest |-> t.conns[f]]])
                /\ joined' = [f \in rest |-> joined[f]]
                /\ g_total_live' = g_total_live - 1
                /\ broken' = broken \ {fd}
           ELSE UNCHANGED <<rooms_vars, g_doomed, g_dirty, g_total_live, broken>>
        /\ UNCHANGED <<g_batch_flush, pc, batch, cur, target, running, born>>

(* Fault: the size of the list is read before the loop, so the connections *)
(* doomed by the notices of the reap are cleared off it unclosed.          *)
reap_done_cached ==
    /\ pc = "reap" /\ ~trapped /\ (g_doomed # << >> => reaped >= 1)
    /\ g_doomed' = << >> /\ reaped' = 0
    /\ pc' = IF g_batch_flush THEN "flush2" ELSE "wait"
    /\ UNCHANGED <<rooms_vars, g_batch_flush, g_dirty, g_total_live, loop_vars>>

reap_done ==
    /\ pc = "reap" /\ ~trapped /\ reaped = Len(g_doomed)
    /\ g_doomed' = << >> /\ reaped' = 0
    /\ pc' = IF g_batch_flush THEN "flush2" ELSE "wait"
    /\ UNCHANGED <<rooms_vars, g_batch_flush, g_dirty, g_total_live, loop_vars>>

(* Out of the loop: every live slot is closed and the tables are freed. *)
shutdown ==
    /\ pc = "wait" /\ ~running /\ ~trapped /\ pc' = "done"
    /\ conns' = [f \in {} |-> NewConn] /\ joined' = [f \in {} |-> << >>]
    /\ g_rooms' = [i \in Slots |-> [g_rooms[i] EXCEPT !.live = FALSE]]
    /\ broken' = {}
    /\ UNCHANGED <<g_room_free, g_room_index, trapped, g_batch_flush, g_doomed, g_dirty,
                   g_total_live, reaped, batch, cur, target, running, born>>

(* A peer resets its connection (kernel). *)
peer_reset(fd) ==
    /\ ~trapped /\ fd \in DOMAIN conns \ broken /\ broken' = broken \cup {fd}
    /\ UNCHANGED <<rooms_vars, g_batch_flush, g_doomed, g_dirty, g_total_live, reaped,
                   pc, batch, cur, target, running, born>>

Terminated == pc = "done" /\ UNCHANGED chat_vars

Masks == {{"IN"}, {"OUT"}, {"IN", "OUT"}, {"ERR"}}

ChatNext ==
    \/ epoll_wait \/ event_listen \/ event_signal
    \/ \E fd \in Fd, what \in Masks : event_conn(fd, what)
    \/ \E fd \in Fd : accept_conn(fd)
    \/ accept_stop
    \/ set_nick \/ complain \/ hang_up
    \/ \E name \in Name : join_leave(name) \/ join_first(name)
    \/ join_move
    \/ \E len \in LineLen : chat(len)
    \/ drained \/ end_of_batch \/ flush_pass \/ reap_one \/ reap_done
    \/ shutdown \/ Terminated
    \/ \E fd \in Fd : peer_reset(fd)

ChatSpec == ChatInit /\ [][ChatNext]_chat_vars
-----------------------------------------------------------------------------
(* The abstract server: a connection's room is the name in its record, a   *)
(* room is what a broadcast's walk meets, the lists are sets of what is    *)
(* still to do.  A failed LNX_CHECK is mapped to no state of EpollChat.    *)
AbsConns ==
    [f \in DOMAIN conns |->
       [nick |-> conns[f].nick, out |-> conns[f].out,
        room |-> IF conns[f].room = k_no_room THEN << >> ELSE g_rooms[conns[f].room].name,
        armed_write |-> conns[f].armed_write, closing |-> conns[f].closing,
        dirty |-> conns[f].dirty]]

AbsRooms ==
    LET open == {idx \in Slots : g_rooms[idx].live}
    IN  [name \in {g_rooms[idx].name : idx \in open} |->
           UNION {ToSet(Walk(State, idx)) : idx \in {j \in open : g_rooms[j].name = name}}]

AbsDoomed == {g_doomed[n] : n \in (reaped + 1)..Len(g_doomed)}

(* The room a join is about to enter: the one its name finds, whose name   *)
(* may differ past a NUL, or else the one it will open.                    *)
AbsTarget ==
    LET found == find(g_rooms, g_room_index, target)
    IN  IF target = << >> \/ found = {} THEN target
        ELSE g_rooms[(CHOOSE n \in found : TRUE).value].name

Chat == INSTANCE EpollChat WITH
    Room <- Name, NoRoom <- << >>, Modes <- {{"flush"}, {}}, k_tick_cap <- 0, EntryLen <- 1,
    mode <- IF g_batch_flush THEN {"flush"} ELSE {},
    conns <- AbsConns, g_rooms <- AbsRooms, g_tick_buf <- [name \in {} |-> 0],
    g_doomed <- AbsDoomed, g_dirty <- ToSet(g_dirty), target <- AbsTarget,
    pc <- IF trapped THEN "trapped" ELSE pc

(* The sds server is the chat server: slab, intrusive lists, borrowed keys *)
(* and index loops (cascading reaps, stale entries, emptied rooms) do what *)
(* the maps, sets and containers of server.cpp do, in every interleaving   *)
(* with the kernel and in both delivery modes, and no LNX_CHECK fails.     *)
ImplementsChat == Chat!Spec
=============================================================================

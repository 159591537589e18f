--------------------------- MODULE EpollChatProofs --------------------------
(***************************************************************************)
(* Proofs about EpollChat, for any descriptors, rooms, caps, line lengths  *)
(* and delivery flags; and about the tick clock of the same server, for    *)
(* every period and every length of a run.                                 *)
(*                                                                         *)
(* The clock's properties follow from one inductive invariant, whose parts *)
(* beyond the properties are: a wait never ends before the deadline of its *)
(* tick without an event; a deadline is never before the end of the last   *)
(* tick, and a period after the one before (what bounds the bursts); a     *)
(* phase in progress started after everything already accounted for.       *)
(***************************************************************************)
EXTENDS EpollChat, TickDeadline, FiniteSetTheorems, TLAPS

-----------------------------------------------------------------------------
(* What the helpers do to one connection. *)

(* d is c after some helpers: doomed stays doomed and dirty stays dirty,   *)
(* only --flush=batch makes dirty, and no mask is left armed for nothing.  *)
Grown(c, d) ==
  /\ d \in Conn
  /\ c.closing => d.closing
  /\ c.dirty => d.dirty
  /\ d.dirty => c.dirty \/ g_batch_flush
  /\ ~d.closing /\ Masked(c) => Masked(d)

(* The delivery pass is over for this connection. *)
Delivered(c) == ~c.closing => Settled(c)

(* Two such changes in a row are one. *)
LEMMA GrownTrans ==
    ASSUME NEW b \in Conn, NEW c \in Conn, NEW d, Grown(b, c), Grown(c, d)
    PROVE  Grown(b, d)
  BY DEF Grown

(* A connection left alone has not grown. *)
LEMMA SelfGrown == ASSUME NEW c \in Conn PROVE Grown(c, c)
  BY DEF Grown

(* Dooming only sets closing. *)
LEMMA DoomGrown ==
    ASSUME NEW c \in Conn
    PROVE  Grown(c, doom(c)) /\ doom(c).room = c.room /\ doom(c).closing
  BY DEF Grown, doom, Conn

(* A queued frame fits under the cap, or dooms its connection. *)
LEMMA QueueGrown ==
    ASSUME NEW c \in Conn, NEW len \in Nat
    PROVE  /\ Grown(c, queue(c, len)) /\ queue(c, len).room = c.room
           /\ Grown(c, queue_send(c, len)) /\ queue_send(c, len).room = c.room
           /\ Grown(c, queue_tick_frame(c, len))
           /\ queue_tick_frame(c, len).room = c.room
  <1> USE ChatAssumption
  <1>1. Grown(c, queue(c, len)) /\ queue(c, len).room = c.room
    <2>1. CASE c.out + k_header_size + len > k_send_cap
      BY <2>1, DoomGrown DEF queue
    <2>2. CASE ~(c.out + k_header_size + len > k_send_cap)
      <3>1. queue(c, len) = [c EXCEPT !.out = c.out + k_header_size + len]
        BY <2>2 DEF queue
      <3>2. c.out + k_header_size + len \in 0..k_send_cap /\ c.out \in Nat
        BY <2>2 DEF Conn
      <3>3. QED
        BY <3>1, <3>2 DEF Grown, Conn, Masked
    <2>3. QED
      BY <2>1, <2>2
  <1>2. QED
    BY <1>1, SelfGrown DEF queue_send, queue_tick_frame

(* A send ends with the mask in step with what is left, or with a doom. *)
LEMMA FlushSendGrown ==
    ASSUME NEW c \in Conn, NEW gone, NEW take \in Nat
    PROVE  LET d == flush_send(c, gone, take)
           IN  /\ Grown(c, d) /\ Delivered(d)
               /\ d.room = c.room /\ d.dirty = c.dirty
  <1> USE ChatAssumption
  <1> DEFINE left == IF take < c.out THEN c.out - take ELSE 0
             e == [c EXCEPT !.out = left, !.armed_write = left > 0]
  <1>1. CASE c.out > 0 /\ gone
    BY <1>1, DoomGrown DEF flush_send, Delivered, doom, Conn
  <1>2. CASE ~(c.out > 0 /\ gone)
    <2>1. left \in 0..k_send_cap
      BY DEF Conn
    <2>2. flush_send(c, gone, take) = e
      <3> DEFINE b == [c EXCEPT !.out = left]
      <3>1. flush_send(c, gone, take) = update_epoll_mask(b)
        BY <1>2 DEF flush_send
      <3>2. b.out = left
        BY DEF Conn
      <3>3. update_epoll_mask(b) = [b EXCEPT !.armed_write = left > 0]
        BY <3>2 DEF update_epoll_mask
      <3>4. QED
        BY <3>1, <3>3 DEF Conn
    <2>3. ASSUME NEW n \in 0..k_send_cap, NEW b \in BOOLEAN
          PROVE  LET r == [c EXCEPT !.out = n, !.armed_write = b]
                 IN  /\ r \in Conn /\ r.room = c.room /\ r.dirty = c.dirty
                     /\ r.closing = c.closing /\ r.out = n /\ r.armed_write = b
      BY DEF Conn
    <2> HIDE DEF left
    <2>4. (left > 0) \in BOOLEAN
      OBVIOUS
    <2>5. /\ e \in Conn /\ e.room = c.room /\ e.dirty = c.dirty /\ e.closing = c.closing
          /\ e.out = left /\ e.armed_write = (left > 0)
      BY <2>1, <2>3, <2>4, Zenon
    <2>6. QED
      BY <2>2, <2>5 DEF Grown, Delivered, Masked, Settled
  <1>3. QED
    BY <1>1, <1>2

(* At the end of a send the connection is flushed, or on the dirty list to *)
(* be flushed at the end of the batch.                                     *)
LEMMA FlushOrMarkGrown ==
    ASSUME NEW c \in Conn, NEW gone, NEW take \in Nat
    PROVE  LET d == flush_or_mark(c, gone, take)
           IN  Grown(c, d) /\ Delivered(d) /\ d.room = c.room
  <1> USE ChatAssumption
  <1>1. CASE g_batch_flush
    <2> DEFINE e == [c EXCEPT !.dirty = c.dirty \/ c.out > 0]
    <2>1. flush_or_mark(c, gone, take) = e
      BY <1>1 DEF flush_or_mark, mark_dirty
    <2>2. /\ e \in Conn /\ e.room = c.room /\ e.closing = c.closing /\ e.out = c.out
          /\ e.armed_write = c.armed_write /\ e.dirty = (c.dirty \/ c.out > 0)
      BY DEF Conn
    <2>3. QED
      BY <1>1, <2>1, <2>2 DEF Grown, Delivered, Masked, Settled
  <1>2. CASE ~g_batch_flush
    BY <1>2, FlushSendGrown DEF flush_or_mark
  <1>3. QED
    BY <1>1, <1>2

(* What a broadcast and the tick do to one member. *)
LEMMA BroadcastGrown ==
    ASSUME NEW f, conns[f] \in Conn, NEW len \in Nat, NEW take, take[f] \in Nat
    PROVE  LET d == broadcast(f, len, take)
           IN  Grown(conns[f], d) /\ Delivered(d) /\ d.room = conns[f].room
  <1> DEFINE c == queue_send(conns[f], len)
  <1>1. Grown(conns[f], c) /\ c.room = conns[f].room /\ c \in Conn
    BY QueueGrown DEF Grown
  <1>2. broadcast(f, len, take) = flush_or_mark(c, f \in broken, take[f])
    BY DEF broadcast
  <1> HIDE DEF c
  <1>3. QED
    BY <1>1, <1>2, FlushOrMarkGrown, GrownTrans

-----------------------------------------------------------------------------
(* What a handler does to the connections. *)

(* The part of TypeOK about the connections. *)
ConnTypeOK ==
  /\ DOMAIN conns \subseteq Fd /\ conns \in [DOMAIN conns -> Conn]
  /\ Cardinality(DOMAIN conns) <= g_max_conns
  /\ g_doomed \subseteq Fd /\ g_dirty \subseteq Fd
  /\ broken \subseteq DOMAIN conns

(* There are finitely many connections. *)
LEMMA OpenFinite ==
    ASSUME ConnTypeOK
    PROVE  IsFiniteSet(DOMAIN conns) /\ Cardinality(DOMAIN conns) \in Nat
  BY ChatAssumption, FS_Subset, FS_CardinalityType DEF ConnTypeOK

(* An Update keeps the invariant of the connections, if what it makes of   *)
(* each of them comes from the helpers and was delivered, the connection   *)
(* being read excepted.                                                    *)
LEMMA ConnStep ==
    ASSUME ChatInv, pc # "done", pc' \notin {"wait", "done"}, mode' = mode,
           NEW open \in SUBSET DOMAIN conns, NEW to \in SUBSET open, NEW U,
           conns' = [f \in open |-> IF f \in to THEN U[f] ELSE conns[f]],
           g_doomed' = (g_doomed \cap open) \cup {f \in to : U[f].closing},
           g_dirty' = g_dirty \cup {f \in to : U[f].dirty},
           broken' = broken \cap open,
           \A f \in to : Grown(conns[f], U[f]) /\ (f = cur' \/ Delivered(U[f])),
           cur' = cur \/ cur \in to \cup {Listen} \/ conns[cur].closing
    PROVE  ConnTypeOK' /\ ConnInv'
  <1>1. ConnTypeOK /\ ConnInv
    BY DEF ChatInv, TypeOK, ConnTypeOK
  <1>2. DOMAIN conns' = open
    OBVIOUS
  <1>3. \A f \in open : conns'[f] \in Conn /\ conns[f] \in Conn
    BY <1>1 DEF ConnTypeOK, Grown
  <1>4. ConnTypeOK'
    <2>1. Cardinality(DOMAIN conns') <= g_max_conns
      BY <1>1, <1>2, OpenFinite, FS_Subset, FS_CardinalityType, ChatAssumption DEF ConnTypeOK
    <2>2. QED
      BY <1>1, <1>2, <1>3, <2>1 DEF ConnTypeOK
  <1>5. ASSUME NEW f \in open
        PROVE  /\ ~conns'[f].closing => Masked(conns'[f]) /\ (f # cur' => Settled(conns'[f]))
               /\ conns'[f].dirty => f \in g_dirty' /\ g_batch_flush
               /\ f \in g_doomed' <=> conns'[f].closing
    <2>1. /\ ~conns[f].closing => Masked(conns[f]) /\ (f # cur => Settled(conns[f]))
          /\ conns[f].dirty => f \in g_dirty /\ g_batch_flush
          /\ f \in g_doomed <=> conns[f].closing
      BY <1>1 DEF ConnInv
    <2>2. CASE f \in to
      BY <2>1, <2>2 DEF Grown, Delivered
    <2>3. CASE f \notin to
      <3>1. conns'[f] = conns[f] /\ f # Listen
        BY <1>1, <2>3, ChatAssumption DEF ConnTypeOK
      <3>2. f # cur' => f # cur \/ conns[f].closing
        BY <2>3, <3>1
      <3>3. QED
        BY <2>1, <2>3, <3>1, <3>2
    <2>4. QED
      BY <2>2, <2>3
  <1>6. g_dirty' # {} => g_batch_flush'
    BY <1>1, <1>2, <1>5 DEF ConnInv, g_batch_flush
  <1>7. g_doomed' \subseteq open
    OBVIOUS
  <1>8. QED
    BY <1>2, <1>4, <1>5, <1>6, <1>7 DEF ConnInv

(* Nobody changes rooms. *)
LEMMA RoomsKept ==
    ASSUME RoomsMatchConns, g_rooms' = g_rooms, DOMAIN conns' = DOMAIN conns,
           \A f \in DOMAIN conns : conns'[f].room = conns[f].room
    PROVE  RoomsMatchConns'
  BY DEF RoomsMatchConns

(* Both, for the handlers that touch some connections and no room. *)
LEMMA LocalStep ==
    ASSUME ChatInv, pc # "done", pc' \notin {"wait", "done"}, mode' = mode,
           g_rooms' = g_rooms, broken' = broken,
           NEW to \in SUBSET DOMAIN conns, NEW U,
           conns' = [f \in DOMAIN conns |-> IF f \in to THEN U[f] ELSE conns[f]],
           g_doomed' = (g_doomed \cap DOMAIN conns) \cup {f \in to : U[f].closing},
           g_dirty' = g_dirty \cup {f \in to : U[f].dirty},
           \A f \in to : /\ Grown(conns[f], U[f]) /\ U[f].room = conns[f].room
                         /\ f = cur' \/ Delivered(U[f]),
           cur' = cur \/ cur \in to \cup {Listen} \/ conns[cur].closing
    PROVE  ConnTypeOK' /\ ConnInv' /\ RoomsMatchConns' /\ DOMAIN conns' = DOMAIN conns
  <1>1. broken' = broken \cap DOMAIN conns
    BY DEF ChatInv, TypeOK
  <1>2. ConnTypeOK' /\ ConnInv'
    BY <1>1, ConnStep
  <1>3. RoomsMatchConns'
    BY RoomsKept DEF ChatInv
  <1>4. QED
    BY <1>2, <1>3

(* The invariant once the connections and the rooms are in order. *)
LEMMA ChatInvAfter ==
    ASSUME ConnTypeOK', ConnInv', RoomsMatchConns', TickInv', BatchInv', JoinInv',
           mode' \in Modes,
           DOMAIN g_rooms' \subseteq Room, g_rooms' \in [DOMAIN g_rooms' -> SUBSET Fd],
           DOMAIN g_tick_buf' \subseteq Room,
           g_tick_buf' \in [DOMAIN g_tick_buf' -> 0..k_tick_cap],
           pc' \in {"wait", "drain", "accept", "read", "join", "tick",
                    "flush", "reap", "flush2", "done"},
           batch' \subseteq Source \X Masks,
           cur' \in (IF pc' \in {"read", "join"} THEN DOMAIN conns' ELSE {Listen}),
           target' \in Room \cup {NoRoom}, running' \in BOOLEAN, born' \subseteq Fd
    PROVE  ChatInv'
  BY DEF ChatInv, TypeOK, ConnTypeOK

(* A handler that stays within the batch and leaves rooms and lines alone. *)
LEMMA HandlerInv ==
    ASSUME ChatInv, ConnTypeOK', ConnInv', RoomsMatchConns', DOMAIN conns' = DOMAIN conns,
           UNCHANGED <<mode, g_rooms, g_tick_buf, target, born>>,
           pc \in {"drain", "read"}, pc' \in {"drain", "accept", "read"},
           batch' \subseteq batch, running' \in BOOLEAN,
           cur' \in (IF pc' = "read" THEN DOMAIN conns ELSE {Listen})
    PROVE  ChatInv'
  <1>1. TickInv'
    BY DEF ChatInv, TickInv, TickLinesHaveRoom, g_coalesce
  <1>2. BatchInv'
    BY DEF ChatInv, BatchInv, EventsReachTheirConnection
  <1>3. JoinInv'
    BY DEF JoinInv
  <1>4. /\ mode' \in Modes
        /\ DOMAIN g_rooms' \subseteq Room /\ g_rooms' \in [DOMAIN g_rooms' -> SUBSET Fd]
        /\ DOMAIN g_tick_buf' \subseteq Room
        /\ g_tick_buf' \in [DOMAIN g_tick_buf' -> 0..k_tick_cap]
        /\ batch' \subseteq Source \X Masks /\ target' \in Room \cup {NoRoom}
        /\ born' \subseteq Fd
    BY DEF ChatInv, TypeOK
  <1>5. QED
    BY <1>1, <1>2, <1>3, <1>4, ChatInvAfter

(* The tail of an iteration works on an empty batch. *)
LEMMA TailInv ==
    ASSUME ChatInv, ConnTypeOK', ConnInv', RoomsMatchConns', TickInv',
           UNCHANGED <<mode, batch, cur, target, running, born>>,
           DOMAIN g_rooms' \subseteq DOMAIN g_rooms,
           g_rooms' \in [DOMAIN g_rooms' -> SUBSET Fd],
           DOMAIN g_tick_buf' \subseteq DOMAIN g_tick_buf,
           g_tick_buf' \in [DOMAIN g_tick_buf' -> 0..k_tick_cap],
           pc \in {"tick", "flush", "reap", "flush2"},
           pc' \in {"tick", "flush", "reap", "flush2", "wait"}
    PROVE  ChatInv'
  <1>1. batch = {} /\ born = {} /\ cur = Listen
    BY DEF ChatInv, TypeOK, BatchInv
  <1>2. BatchInv'
    BY <1>1 DEF BatchInv, EventsReachTheirConnection
  <1>3. JoinInv'
    BY DEF JoinInv
  <1>4. /\ mode' \in Modes
        /\ DOMAIN g_rooms' \subseteq Room /\ DOMAIN g_tick_buf' \subseteq Room
        /\ target' \in Room \cup {NoRoom} /\ running' \in BOOLEAN
    BY DEF ChatInv, TypeOK
  <1>5. QED
    BY <1>1, <1>2, <1>3, <1>4, ChatInvAfter

-----------------------------------------------------------------------------
(* The events of a batch. *)

(* An event of a connection: skipped, a hang-up, or bytes to write or      *)
(* read.                                                                   *)
LEMMA EventInv ==
    ASSUME ChatInv, NEW fd \in Fd,
           event_skipped(fd) \/ event_hangup(fd) \/ event_ready(fd)
    PROVE  ChatInv'
  <1>1. CASE event_skipped(fd)
    <2>1. /\ pc = "drain" /\ pc' = "drain" /\ cur' = Listen /\ cur = Listen
          /\ batch' \subseteq batch /\ UNCHANGED <<serverVars, target, broken, born, running>>
      BY <1>1 DEF event_skipped, Handle, ChatInv, TypeOK
    <2>2. ConnTypeOK' /\ ConnInv' /\ RoomsMatchConns'
      BY <2>1 DEF ChatInv, TypeOK, ConnTypeOK, ConnInv, RoomsMatchConns, serverVars,
                  g_batch_flush
    <2>3. running' \in BOOLEAN
      BY <2>1 DEF ChatInv, TypeOK
    <2>4. QED
      BY <2>1, <2>2, <2>3, HandlerInv DEF serverVars
  <1>2. CASE event_hangup(fd)
    <2> DEFINE to == {fd}
               U == [f \in to |-> doom(conns[f])]
    <2>1. /\ pc = "drain" /\ pc' = "drain" /\ cur' = Listen /\ cur = Listen
          /\ batch' \subseteq batch
          /\ UNCHANGED <<mode, g_rooms, g_tick_buf, target, broken, born, running>>
          /\ fd \in DOMAIN conns /\ conns[fd] \in Conn
      BY <1>2 DEF event_hangup, Handle, ChatInv, TypeOK
    <2>2. /\ conns' = [f \in DOMAIN conns |-> IF f \in to THEN U[f] ELSE conns[f]]
          /\ g_doomed' = (g_doomed \cap DOMAIN conns) \cup {f \in to : U[f].closing}
          /\ g_dirty' = g_dirty \cup {f \in to : U[f].dirty}
      BY <1>2 DEF event_hangup, Update
    <2>3. \A f \in to : /\ Grown(conns[f], U[f]) /\ U[f].room = conns[f].room
                          /\ Delivered(U[f])
      BY <2>1, DoomGrown DEF Delivered
    <2>9. to \in SUBSET DOMAIN conns /\ pc # "done" /\ pc' \notin {"wait", "done"}
      BY <2>2, <2>1
    <2> HIDE DEF U, to
    <2>4. ConnTypeOK' /\ ConnInv' /\ RoomsMatchConns' /\ DOMAIN conns' = DOMAIN conns
      BY <2>1, <2>2, <2>3, <2>9, LocalStep
    <2>5. running' \in BOOLEAN
      BY <2>1 DEF ChatInv, TypeOK
    <2>6. QED
      BY <2>1, <2>4, <2>5, HandlerInv
  <1>3. CASE event_ready(fd)
    <2>1. PICK what \in Masks \ {{"ERR"}}, take \in Takes :
            LET Ready(f) == IF "OUT" \in what
                              THEN flush_send(conns[f], f \in broken, take[f])
                              ELSE conns[f]
            IN  /\ Handle(fd, what, IF "IN" \in what /\ ~Ready(fd).closing
                                      THEN "read" ELSE "drain")
                /\ Update(DOMAIN conns, {fd}, Ready)
      BY <1>3 DEF event_ready
    <2> DEFINE to == {fd}
               U == [f \in to |-> IF "OUT" \in what
                                      THEN flush_send(conns[f], f \in broken, take[f])
                                      ELSE conns[f]]
    <2>2. /\ pc = "drain" /\ pc' \in {"drain", "read"} /\ cur = Listen
          /\ cur' = (IF pc' = "read" THEN fd ELSE Listen)
          /\ batch' \subseteq batch
          /\ UNCHANGED <<mode, g_rooms, g_tick_buf, target, broken, born, running>>
          /\ fd \in DOMAIN conns /\ conns[fd] \in Conn /\ ~conns[fd].closing
      BY <1>3, <2>1 DEF event_ready, Handle, ChatInv, TypeOK
    <2>3. /\ conns' = [f \in DOMAIN conns |-> IF f \in to THEN U[f] ELSE conns[f]]
          /\ g_doomed' = (g_doomed \cap DOMAIN conns) \cup {f \in to : U[f].closing}
          /\ g_dirty' = g_dirty \cup {f \in to : U[f].dirty}
      BY <2>1 DEF Update
    <2>4. \A f \in to : /\ Grown(conns[f], U[f]) /\ U[f].room = conns[f].room
                          /\ Delivered(U[f])
      <3>1. take[fd] \in Nat
        BY ChatAssumption DEF Takes
      <3>2. fd # cur
        BY <2>2, ChatAssumption
      <3>3. CASE "OUT" \in what
        BY <2>2, <3>1, <3>3, FlushSendGrown
      <3>4. CASE "OUT" \notin what
        BY <2>2, <3>2, <3>4, SelfGrown DEF Delivered, ChatInv, ConnInv
      <3>5. QED
        BY <3>3, <3>4
    <2>9. to \in SUBSET DOMAIN conns /\ pc # "done" /\ pc' \notin {"wait", "done"}
      BY <2>2, <2>1
    <2> HIDE DEF U, to
    <2>5. ConnTypeOK' /\ ConnInv' /\ RoomsMatchConns' /\ DOMAIN conns' = DOMAIN conns
      BY <2>2, <2>3, <2>4, <2>9, LocalStep
    <2>6. running' \in BOOLEAN
      BY <2>2 DEF ChatInv, TypeOK
    <2>7. QED
      BY <2>2, <2>5, <2>6, HandlerInv
  <1>4. QED
    BY <1>1, <1>2, <1>3

(* The listener, the signal and epoll_wait itself. *)
LEMMA LoopEventInv ==
    ASSUME ChatInv, event_listen \/ event_signal \/ accept_stop
    PROVE  ChatInv'
  <1>1. /\ UNCHANGED <<mode, conns, g_rooms, g_tick_buf, g_doomed, g_dirty, target, broken, born>>
        /\ pc \in {"drain", "accept"} /\ pc' \in {"accept", "drain"}
        /\ batch' \subseteq batch /\ cur' = Listen /\ cur = Listen /\ running' \in BOOLEAN
    BY DEF event_listen, event_signal, accept_stop, Handle, serverVars, ChatInv, TypeOK
  <1>2. ConnTypeOK' /\ ConnInv' /\ RoomsMatchConns'
    BY <1>1 DEF ChatInv, TypeOK, ConnTypeOK, ConnInv, RoomsMatchConns, g_batch_flush
  <1>3. TickInv'
    BY <1>1 DEF ChatInv, TickInv, TickLinesHaveRoom, g_coalesce
  <1>4. BatchInv'
    BY <1>1 DEF ChatInv, BatchInv, EventsReachTheirConnection
  <1>5. JoinInv'
    BY <1>1 DEF JoinInv
  <1>6. /\ mode' \in Modes
        /\ DOMAIN g_rooms' \subseteq Room /\ g_rooms' \in [DOMAIN g_rooms' -> SUBSET Fd]
        /\ DOMAIN g_tick_buf' \subseteq Room
        /\ g_tick_buf' \in [DOMAIN g_tick_buf' -> 0..k_tick_cap]
        /\ batch' \subseteq Source \X Masks /\ target' \in Room \cup {NoRoom}
        /\ born' \subseteq Fd
    BY <1>1 DEF ChatInv, TypeOK
  <1>7. QED
    BY <1>1, <1>2, <1>3, <1>4, <1>5, <1>6, ChatInvAfter

(* epoll_wait returns with a batch while no descriptor is new. *)
LEMMA EpollWaitInv ==
    ASSUME ChatInv, epoll_wait
    PROVE  ChatInv'
  <1>1. /\ UNCHANGED <<mode, conns, g_rooms, g_tick_buf, g_doomed, g_dirty, cur, target,
                       running, broken, born>>
        /\ pc = "wait" /\ pc' = "drain"
    BY DEF epoll_wait, serverVars
  <1>2. born = {} /\ cur = Listen
    BY <1>1 DEF ChatInv, BatchInv, TypeOK
  <1>3. batch' \subseteq (DOMAIN conns \cup {Listen, Sig}) \X Masks
    <2>1. PICK ready \in SUBSET (DOMAIN conns \cup {Listen, Sig}) :
            batch' \in SUBSET UNION {{s} \X Reportable(s) : s \in ready}
      BY DEF epoll_wait
    <2>2. \A src : Reportable(src) \subseteq Masks
      BY DEF Reportable, Masks
    <2>3. QED
      BY <2>1, <2>2
  <1>4. ConnTypeOK' /\ ConnInv' /\ RoomsMatchConns'
    BY <1>1 DEF ChatInv, TypeOK, ConnTypeOK, ConnInv, RoomsMatchConns, g_batch_flush
  <1>5. TickInv'
    BY <1>1 DEF ChatInv, TickInv, TickLinesHaveRoom, g_coalesce
  <1>6. BatchInv'
    BY <1>1, <1>2, <1>3 DEF BatchInv, EventsReachTheirConnection
  <1>7. JoinInv'
    BY <1>1 DEF JoinInv
  <1>8. /\ mode' \in Modes
        /\ DOMAIN g_rooms' \subseteq Room /\ g_rooms' \in [DOMAIN g_rooms' -> SUBSET Fd]
        /\ DOMAIN g_tick_buf' \subseteq Room
        /\ g_tick_buf' \in [DOMAIN g_tick_buf' -> 0..k_tick_cap]
        /\ target' \in Room \cup {NoRoom} /\ running' \in BOOLEAN /\ born' \subseteq Fd
    BY <1>1 DEF ChatInv, TypeOK
  <1>9. batch' \subseteq Source \X Masks
    BY <1>3 DEF ChatInv, TypeOK, Source
  <1>10. QED
    BY <1>1, <1>2, <1>4, <1>5, <1>6, <1>7, <1>8, <1>9, ChatInvAfter

(* A new connection: its descriptor was closed when epoll_wait returned,   *)
(* or it would still be open.                                              *)
LEMMA AcceptInv ==
    ASSUME ChatInv, accept_conn
    PROVE  ChatInv'
  <1>1. PICK fd \in Fd \ DOMAIN conns :
          conns' = With(conns, fd, NewConn) /\ born' = born \cup {fd}
    BY DEF accept_conn
  <1>2. /\ UNCHANGED <<mode, g_rooms, g_tick_buf, g_doomed, g_dirty, pc, batch, cur, target,
                       running, broken>>
        /\ pc = "accept" /\ cur = Listen
    BY DEF accept_conn, loopVars, ChatInv, TypeOK
  <1>3. /\ DOMAIN conns' = DOMAIN conns \cup {fd} /\ conns'[fd] = NewConn
        /\ \A f \in DOMAIN conns : conns'[f] = conns[f]
    BY <1>1 DEF With
  <1>4. NewConn \in Conn
    BY ChatAssumption DEF NewConn, Conn
  <1>5. ConnTypeOK
    BY DEF ChatInv, TypeOK, ConnTypeOK
  <1>6. ConnTypeOK'
    <2>1. Cardinality(DOMAIN conns') <= g_max_conns
      <3>1. Cardinality(DOMAIN conns') = Cardinality(DOMAIN conns) + 1
        BY <1>1, <1>3, <1>5, OpenFinite, FS_AddElement
      <3>2. Cardinality(DOMAIN conns) < g_max_conns /\ Cardinality(DOMAIN conns) \in Nat
        BY <1>5, OpenFinite DEF accept_conn
      <3>3. QED
        BY <3>1, <3>2, ChatAssumption
    <2>2. conns' \in [DOMAIN conns' -> Conn]
      BY <1>1, <1>3, <1>4, <1>5 DEF ConnTypeOK, With
    <2>3. QED
      BY <1>2, <1>3, <1>5, <2>1, <2>2 DEF ConnTypeOK
  <1>7. ConnInv'
    <2>1. /\ ~conns'[fd].closing /\ ~conns'[fd].dirty
          /\ Masked(conns'[fd]) /\ Settled(conns'[fd])
      BY <1>3 DEF NewConn, Masked, Settled
    <2>2. QED
      BY <1>1, <1>2, <1>3, <2>1 DEF ChatInv, ConnInv, g_batch_flush
  <1>8. RoomsMatchConns'
    <2>1. conns'[fd].room = NoRoom /\ NoRoom \notin Room
      BY <1>3, ChatAssumption DEF NewConn
    <2>2. \A r \in Room : {f \in DOMAIN conns' : conns'[f].room = r}
                            = {f \in DOMAIN conns : conns[f].room = r}
      BY <1>3, <2>1
    <2>3. QED
      BY <1>2, <2>2 DEF ChatInv, RoomsMatchConns
  <1>9. TickInv' /\ JoinInv'
    BY <1>2 DEF ChatInv, TickInv, TickLinesHaveRoom, g_coalesce, JoinInv
  <1>10. BatchInv'
    <2>1. fd \notin {Listen, Sig}
      BY ChatAssumption
    <2>2. QED
      BY <1>1, <1>2, <1>3, <2>1 DEF ChatInv, BatchInv, EventsReachTheirConnection
  <1>11. /\ mode' \in Modes
         /\ DOMAIN g_rooms' \subseteq Room /\ g_rooms' \in [DOMAIN g_rooms' -> SUBSET Fd]
         /\ DOMAIN g_tick_buf' \subseteq Room
         /\ g_tick_buf' \in [DOMAIN g_tick_buf' -> 0..k_tick_cap]
         /\ batch' \subseteq Source \X Masks
         /\ target' \in Room \cup {NoRoom} /\ running' \in BOOLEAN
    BY <1>2 DEF ChatInv, TypeOK
  <1>12. born' \subseteq Fd
    BY <1>1 DEF ChatInv, TypeOK
  <1>13. QED
    BY <1>2, <1>6, <1>7, <1>8, <1>9, <1>10, <1>11, <1>12, ChatInvAfter

-----------------------------------------------------------------------------
(* The frames of the connection being read. *)

(* on_readable goes on at the same connection, or that was doomed. *)
LEMMA NextFrameCases ==
    ASSUME ChatInv, cur \in DOMAIN conns, DOMAIN conns' = DOMAIN conns, NextFrame
    PROVE  /\ pc' \in {"drain", "read"}
           /\ cur' \in (IF pc' = "read" THEN DOMAIN conns ELSE {Listen})
           /\ cur' = cur \/ conns'[cur].closing
  BY DEF NextFrame

(* Frames that are answered to their sender alone, and the end of the      *)
(* stream.                                                                 *)
LEMMA FrameInv ==
    ASSUME ChatInv, set_nick \/ complain \/ hang_up
    PROVE  ChatInv'
  <1> DEFINE to == {cur}
  <1>1. /\ pc = "read" /\ cur \in DOMAIN conns /\ conns[cur] \in Conn
        /\ UNCHANGED <<mode, g_rooms, g_tick_buf, batch, target, running, broken, born>>
        /\ NextFrame
    BY DEF set_nick, complain, hang_up, Frame, ChatInv, TypeOK
  <1>2. PICK U : /\ conns' = [f \in DOMAIN conns |-> IF f \in to THEN U[f] ELSE conns[f]]
                 /\ g_doomed' = (g_doomed \cap DOMAIN conns) \cup {f \in to : U[f].closing}
                 /\ g_dirty' = g_dirty \cup {f \in to : U[f].dirty}
                 /\ \A f \in to : Grown(conns[f], U[f]) /\ U[f].room = conns[f].room
    <2>1. CASE set_nick
      <3>1. PICK named \in BOOLEAN :
              Update(DOMAIN conns, to,
                     LAMBDA f : queue_send([conns[f] EXCEPT !.nick = named], NoticeLen))
        BY <2>1 DEF set_nick, Frame
      <3> DEFINE c == [conns[cur] EXCEPT !.nick = named]
                 U == [f \in to |-> queue_send([conns[f] EXCEPT !.nick = named], NoticeLen)]
      <3>2. c \in Conn /\ Grown(conns[cur], c) /\ c.room = conns[cur].room
        BY <1>1 DEF Conn, Grown, Masked
      <3>3. Grown(c, queue_send(c, NoticeLen)) /\ queue_send(c, NoticeLen).room = c.room
        BY <3>2, QueueGrown, ChatAssumption
      <3>4. \A f \in to : Grown(conns[f], U[f]) /\ U[f].room = conns[f].room
        BY <1>1, <3>2, <3>3, GrownTrans
      <3>5. QED
        BY <3>1, <3>4 DEF Update
    <2>2. CASE complain
      <3> DEFINE U == [f \in to |-> queue_send(conns[f], NoticeLen)]
      <3>1. \A f \in to : Grown(conns[f], U[f]) /\ U[f].room = conns[f].room
        BY <1>1, QueueGrown, ChatAssumption
      <3>2. QED
        BY <2>2, <3>1 DEF complain, Frame, Update
    <2>3. CASE hang_up
      <3> DEFINE U == [f \in to |-> doom(conns[f])]
      <3>1. \A f \in to : Grown(conns[f], U[f]) /\ U[f].room = conns[f].room
        BY <1>1, DoomGrown
      <3>2. QED
        BY <2>3, <3>1 DEF hang_up, Frame, Update
    <2>4. QED
      BY <2>1, <2>2, <2>3
  <1>3. DOMAIN conns' = DOMAIN conns /\ conns'[cur] = U[cur]
    BY <1>1, <1>2
  <1>4. /\ pc' \in {"drain", "read"}
        /\ cur' \in (IF pc' = "read" THEN DOMAIN conns ELSE {Listen})
        /\ cur' = cur \/ conns'[cur].closing
    BY <1>1, <1>3, NextFrameCases
  <1>5. \A f \in to : /\ Grown(conns[f], U[f]) /\ U[f].room = conns[f].room
                      /\ f = cur' \/ Delivered(U[f])
    BY <1>2, <1>3, <1>4 DEF Delivered
  <1>6. to \in SUBSET DOMAIN conns /\ pc # "done" /\ pc' \notin {"wait", "done"}
        /\ (cur' = cur \/ cur \in to \cup {Listen} \/ conns[cur].closing)
    BY <1>1, <1>4
  <1> HIDE DEF to
  <1>7. ConnTypeOK' /\ ConnInv' /\ RoomsMatchConns'
    BY <1>1, <1>2, <1>5, <1>6, LocalStep
  <1>8. running' \in BOOLEAN
    BY <1>1 DEF ChatInv, TypeOK
  <1>9. QED
    BY <1>1, <1>3, <1>4, <1>7, <1>8, HandlerInv

(* A broadcast to some members of a room. *)
LEMMA BroadcastAll ==
    ASSUME ChatInv, NEW room, NEW except, NEW len \in Nat, NEW take \in Takes
    PROVE  /\ Audience(room, except) \subseteq DOMAIN conns
           /\ \A f \in Audience(room, except) :
                LET d == broadcast(f, len, take)
                IN  Grown(conns[f], d) /\ Delivered(d) /\ d.room = conns[f].room
  <1>1. Audience(room, except) \subseteq DOMAIN conns
    BY DEF Audience
  <1>2. \A f \in DOMAIN conns : conns[f] \in Conn /\ take[f] \in Nat
    BY ChatAssumption DEF Takes, ChatInv, TypeOK
  <1>3. QED
    BY <1>1, <1>2, BroadcastGrown

(* A chat line that is sent to the room at once. *)
LEMMA ChatNowInv ==
    ASSUME ChatInv, NEW len \in LineLen, chat_now(len)
    PROVE  ChatInv'
  <1> DEFINE to == Audience(conns[cur].room, Listen)
  <1>1. /\ pc = "read" /\ cur \in DOMAIN conns
        /\ UNCHANGED <<mode, g_rooms, g_tick_buf, batch, target, running, broken, born>>
        /\ NextFrame
    BY DEF chat_now, ChatInv, TypeOK
  <1>2. PICK take \in Takes :
          Update(DOMAIN conns, to, LAMBDA f : broadcast(f, len, take))
    BY DEF chat_now
  <1> DEFINE U == [f \in to |-> broadcast(f, len, take)]
  <1>3. /\ conns' = [f \in DOMAIN conns |-> IF f \in to THEN U[f] ELSE conns[f]]
        /\ g_doomed' = (g_doomed \cap DOMAIN conns) \cup {f \in to : U[f].closing}
        /\ g_dirty' = g_dirty \cup {f \in to : U[f].dirty}
    BY <1>2 DEF Update
  <1>4. /\ to \in SUBSET DOMAIN conns
        /\ \A f \in to : /\ Grown(conns[f], U[f]) /\ U[f].room = conns[f].room
                          /\ Delivered(U[f])
    BY BroadcastAll, ChatAssumption
  <1> HIDE DEF to, U
  <1>5. DOMAIN conns' = DOMAIN conns
    BY <1>3
  <1>6. /\ pc' \in {"drain", "read"}
        /\ cur' \in (IF pc' = "read" THEN DOMAIN conns ELSE {Listen})
        /\ cur' = cur \/ conns'[cur].closing
    BY <1>1, <1>5, NextFrameCases
  <1>7. cur' = cur \/ cur \in to \cup {Listen} \/ conns[cur].closing
    BY <1>1, <1>3, <1>6
  <1>8. pc # "done" /\ pc' \notin {"wait", "done"}
    BY <1>1, <1>6
  <1>9. ConnTypeOK' /\ ConnInv' /\ RoomsMatchConns'
    BY <1>1, <1>3, <1>4, <1>7, <1>8, LocalStep
  <1>10. running' \in BOOLEAN
    BY <1>1 DEF ChatInv, TypeOK
  <1>11. QED
    BY <1>1, <1>5, <1>6, <1>9, <1>10, HandlerInv

(* The replies of a visit are sent or marked when recv says EAGAIN. *)
LEMMA DrainedInv ==
    ASSUME ChatInv, drained
    PROVE  ChatInv'
  <1> DEFINE to == {cur}
  <1>1. /\ pc = "read" /\ pc' = "drain" /\ cur' = Listen
        /\ cur \in DOMAIN conns /\ conns[cur] \in Conn
        /\ UNCHANGED <<mode, g_rooms, g_tick_buf, batch, target, running, broken, born>>
    BY DEF drained, ChatInv, TypeOK
  <1>2. PICK take \in Takes :
          Update(DOMAIN conns, to, LAMBDA f : flush_or_mark(conns[f], f \in broken, take[f]))
    BY DEF drained
  <1> DEFINE U == [f \in to |-> flush_or_mark(conns[f], f \in broken, take[f])]
  <1>3. /\ conns' = [f \in DOMAIN conns |-> IF f \in to THEN U[f] ELSE conns[f]]
        /\ g_doomed' = (g_doomed \cap DOMAIN conns) \cup {f \in to : U[f].closing}
        /\ g_dirty' = g_dirty \cup {f \in to : U[f].dirty}
    BY <1>2 DEF Update
  <1>4. take[cur] \in Nat
    BY <1>1, ChatAssumption DEF Takes, ChatInv, TypeOK
  <1>5. \A f \in to : /\ Grown(conns[f], U[f]) /\ U[f].room = conns[f].room
                      /\ Delivered(U[f])
    BY <1>1, <1>4, FlushOrMarkGrown
  <1>6. to \in SUBSET DOMAIN conns /\ pc # "done" /\ pc' \notin {"wait", "done"} /\ cur \in to
    BY <1>1
  <1> HIDE DEF to, U
  <1>7. ConnTypeOK' /\ ConnInv' /\ RoomsMatchConns' /\ DOMAIN conns' = DOMAIN conns
    BY <1>1, <1>3, <1>5, <1>6, LocalStep
  <1>8. running' \in BOOLEAN
    BY <1>1 DEF ChatInv, TypeOK
  <1>9. QED
    BY <1>1, <1>7, <1>8, HandlerInv

(* A line is buffered in the sender's room, which exists. *)
LEMMA ChatCoalesceInv ==
    ASSUME ChatInv, NEW len \in LineLen, chat_coalesce(len)
    PROVE  ChatInv'
  <1> DEFINE room == conns[cur].room
             buf == IF room \in DOMAIN g_tick_buf THEN g_tick_buf[room] ELSE 0
             v == IF buf + EntryLen + len > k_tick_cap THEN buf ELSE buf + EntryLen + len
  <1>1. /\ pc = "read" /\ cur \in DOMAIN conns /\ g_coalesce /\ room # NoRoom
        /\ UNCHANGED <<mode, conns, g_rooms, g_doomed, g_dirty, pc, batch, cur, target,
                       running, broken, born>>
        /\ g_tick_buf' = With(g_tick_buf, room, v)
    BY DEF chat_coalesce, loopVars, ChatInv, TypeOK
  <1>2. room \in Room /\ room \in DOMAIN g_rooms
    <2>1. room \in Room
      BY <1>1 DEF ChatInv, TypeOK, Conn
    <2>2. cur \in {f \in DOMAIN conns : conns[f].room = room}
      BY <1>1
    <2>3. QED
      BY <2>1, <2>2 DEF ChatInv, RoomsMatchConns
  <1>3. v \in 0..k_tick_cap
    <2>1. buf \in 0..k_tick_cap
      BY ChatAssumption DEF ChatInv, TypeOK
    <2>2. QED
      BY <2>1, ChatAssumption
  <1> HIDE DEF v, buf
  <1>4. DOMAIN g_tick_buf' = DOMAIN g_tick_buf \cup {room}
        /\ g_tick_buf' \in [DOMAIN g_tick_buf' -> 0..k_tick_cap]
    BY <1>1, <1>3 DEF With, ChatInv, TypeOK
  <1> HIDE DEF room
  <1>5. ConnTypeOK' /\ ConnInv' /\ RoomsMatchConns' /\ BatchInv' /\ JoinInv'
    BY <1>1 DEF ChatInv, TypeOK, ConnTypeOK, ConnInv, RoomsMatchConns, g_batch_flush,
                BatchInv, EventsReachTheirConnection, JoinInv
  <1>6. TickInv'
    BY <1>1, <1>2, <1>4 DEF ChatInv, TickInv, TickLinesHaveRoom, g_coalesce
  <1>7. /\ mode' \in Modes
        /\ DOMAIN g_rooms' \subseteq Room /\ g_rooms' \in [DOMAIN g_rooms' -> SUBSET Fd]
        /\ DOMAIN g_tick_buf' \subseteq Room /\ batch' \subseteq Source \X Masks
        /\ pc' = "read" /\ cur' \in DOMAIN conns'
        /\ target' \in Room \cup {NoRoom} /\ running' \in BOOLEAN /\ born' \subseteq Fd
    BY <1>1, <1>2, <1>4 DEF ChatInv, TypeOK
  <1>8. QED
    BY <1>4, <1>5, <1>6, <1>7, ChatInvAfter

-----------------------------------------------------------------------------
(* Leaving and entering rooms. *)

(* A room loses the member that leaves; one that empties goes, and with it *)
(* the lines that waited for its tick.                                     *)
LEMMA LeaveRoom ==
    ASSUME ChatInv, pc # "done", mode' = mode, NEW fd \in DOMAIN conns,
           leave_room(fd, conns[fd].room),
           \A r \in Room : {f \in DOMAIN conns' : conns'[f].room = r}
                             = {f \in DOMAIN conns : conns[f].room = r} \ {fd}
    PROVE  /\ RoomsMatchConns' /\ TickInv'
           /\ DOMAIN g_rooms' \subseteq DOMAIN g_rooms
           /\ g_rooms' \in [DOMAIN g_rooms' -> SUBSET Fd]
           /\ DOMAIN g_tick_buf' \subseteq DOMAIN g_tick_buf
           /\ g_tick_buf' \in [DOMAIN g_tick_buf' -> 0..k_tick_cap]
  <1> DEFINE room == conns[fd].room
             Members(r) == {f \in DOMAIN conns : conns[f].room = r}
  <1>1. /\ \A r \in DOMAIN g_rooms : g_rooms[r] # {} /\ r \in Room
        /\ \A r \in Room : Members(r) = IF r \in DOMAIN g_rooms THEN g_rooms[r] ELSE {}
        /\ g_rooms \in [DOMAIN g_rooms -> SUBSET Fd]
        /\ g_tick_buf \in [DOMAIN g_tick_buf -> 0..k_tick_cap]
        /\ DOMAIN g_tick_buf \subseteq DOMAIN g_rooms
        /\ ~g_coalesce => DOMAIN g_tick_buf = {}
    BY DEF ChatInv, RoomsMatchConns, TickInv, TickLinesHaveRoom, TypeOK
  <1>2. \A r \in Room : r # room => fd \notin Members(r)
    OBVIOUS
  <1>3. room \in Room => fd \in Members(room)
    OBVIOUS
  <1>4. CASE room \notin DOMAIN g_rooms
    <2>1. g_rooms' = g_rooms /\ g_tick_buf' = g_tick_buf
      BY <1>4 DEF leave_room
    <2>2. room \notin Room
      BY <1>1, <1>3, <1>4
    <2>3. \A r \in Room : {f \in DOMAIN conns' : conns'[f].room = r} = Members(r)
      BY <1>2, <2>2
    <2>4. RoomsMatchConns'
      BY <1>1, <2>1, <2>3 DEF RoomsMatchConns
    <2>5. QED
      BY <1>1, <2>1, <2>4 DEF TickInv, TickLinesHaveRoom, g_coalesce
  <1>5. CASE room \in DOMAIN g_rooms /\ g_rooms[room] \ {fd} = {}
    <2>1. /\ g_rooms' = Without(g_rooms, room)
          /\ g_tick_buf' = IF g_coalesce THEN Without(g_tick_buf, room) ELSE g_tick_buf
      BY <1>5 DEF leave_room
    <2>2. /\ DOMAIN g_rooms' = DOMAIN g_rooms \ {room}
          /\ \A r \in DOMAIN g_rooms' : g_rooms'[r] = g_rooms[r]
          /\ g_rooms' \in [DOMAIN g_rooms' -> SUBSET Fd]
      BY <1>1, <2>1 DEF Without
    <2>3. /\ DOMAIN g_tick_buf' = DOMAIN g_tick_buf \ {room}
          /\ g_tick_buf' \in [DOMAIN g_tick_buf' -> 0..k_tick_cap]
      <3>1. CASE g_coalesce
        BY <1>1, <2>1, <3>1 DEF Without
      <3>2. CASE ~g_coalesce
        BY <1>1, <2>1, <3>2
      <3>3. QED
        BY <3>1, <3>2
    <2>4. RoomsMatchConns'
      BY <1>1, <1>2, <1>5, <2>2 DEF RoomsMatchConns
    <2>5. QED
      BY <1>1, <2>2, <2>3, <2>4 DEF TickInv, TickLinesHaveRoom, g_coalesce
  <1>6. CASE room \in DOMAIN g_rooms /\ g_rooms[room] \ {fd} # {}
    <2>1. /\ g_rooms' = [g_rooms EXCEPT ![room] = g_rooms[room] \ {fd}]
          /\ g_tick_buf' = g_tick_buf
      BY <1>6 DEF leave_room
    <2>2. /\ DOMAIN g_rooms' = DOMAIN g_rooms
          /\ g_rooms' \in [DOMAIN g_rooms' -> SUBSET Fd]
          /\ \A r \in DOMAIN g_rooms : g_rooms'[r] = IF r = room THEN g_rooms[r] \ {fd}
                                                                ELSE g_rooms[r]
      BY <1>1, <1>6, <2>1
    <2>3. RoomsMatchConns'
      BY <1>1, <1>2, <1>6, <2>2 DEF RoomsMatchConns
    <2>4. QED
      BY <1>1, <2>1, <2>2, <2>3 DEF TickInv, TickLinesHaveRoom, g_coalesce
  <1>7. QED
    BY <1>4, <1>5, <1>6

(* The first half of a join: the old room hears of it and is left. *)
LEMMA JoinLeaveInv ==
    ASSUME ChatInv, join_leave
    PROVE  ChatInv'
  <1> DEFINE to == Audience(conns[cur].room, cur) \cup {cur}
             left == [conns[cur] EXCEPT !.room = NoRoom]
  <1>1. /\ pc = "read" /\ pc' = "join" /\ cur \in DOMAIN conns /\ conns[cur] \in Conn
        /\ UNCHANGED <<mode, batch, cur, running, broken, born>> /\ target' \in Room
        /\ leave_room(cur, conns[cur].room)
    BY DEF join_leave, ChatInv, TypeOK
  <1>2. PICK take \in Takes :
          LET Left(f) == IF f = cur THEN [conns[f] EXCEPT !.room = NoRoom]
                                    ELSE broadcast(f, NoticeLen, take)
          IN  Update(DOMAIN conns, to, Left)
    BY DEF join_leave
  <1> DEFINE U == [f \in to |-> IF f = cur THEN [conns[f] EXCEPT !.room = NoRoom]
                                           ELSE broadcast(f, NoticeLen, take)]
  <1>3. /\ conns' = [f \in DOMAIN conns |-> IF f \in to THEN U[f] ELSE conns[f]]
        /\ g_doomed' = (g_doomed \cap DOMAIN conns) \cup {f \in to : U[f].closing}
        /\ g_dirty' = g_dirty \cup {f \in to : U[f].dirty}
    BY <1>2 DEF Update
  <1>4. Grown(conns[cur], left) /\ left.room = NoRoom
    BY <1>1 DEF Grown, Conn, Masked
  <1>5. /\ to \in SUBSET DOMAIN conns
        /\ \A f \in to : Grown(conns[f], U[f]) /\ (f = cur \/ Delivered(U[f]))
        /\ \A f \in to : U[f].room = IF f = cur THEN NoRoom ELSE conns[f].room
    BY <1>1, <1>4, BroadcastAll, ChatAssumption
  <1>6. cur \in to
    OBVIOUS
  <1> HIDE DEF to, U
  <1>7. broken' = broken \cap DOMAIN conns /\ pc # "done" /\ pc' \notin {"wait", "done"}
    BY <1>1 DEF ChatInv, TypeOK
  <1>8. ConnTypeOK' /\ ConnInv'
    BY <1>1, <1>3, <1>5, <1>7, ConnStep
  <1>9. DOMAIN conns' = DOMAIN conns
        /\ \A f \in DOMAIN conns : conns'[f].room = IF f = cur THEN NoRoom ELSE conns[f].room
    BY <1>3, <1>5, <1>6
  <1>10. \A r \in Room : {f \in DOMAIN conns' : conns'[f].room = r}
                            = {f \in DOMAIN conns : conns[f].room = r} \ {cur}
    BY <1>9, ChatAssumption
  <1>11. /\ RoomsMatchConns' /\ TickInv'
         /\ DOMAIN g_rooms' \subseteq DOMAIN g_rooms
         /\ g_rooms' \in [DOMAIN g_rooms' -> SUBSET Fd]
         /\ DOMAIN g_tick_buf' \subseteq DOMAIN g_tick_buf
         /\ g_tick_buf' \in [DOMAIN g_tick_buf' -> 0..k_tick_cap]
    BY <1>1, <1>7, <1>10, LeaveRoom
  <1>12. BatchInv' /\ JoinInv'
    BY <1>1, <1>9 DEF ChatInv, BatchInv, EventsReachTheirConnection, JoinInv
  <1>13. /\ mode' \in Modes /\ DOMAIN g_rooms' \subseteq Room
         /\ DOMAIN g_tick_buf' \subseteq Room
         /\ batch' \subseteq Source \X Masks /\ cur' \in DOMAIN conns'
         /\ target' \in Room \cup {NoRoom} /\ running' \in BOOLEAN /\ born' \subseteq Fd
    BY <1>1, <1>9, <1>11 DEF ChatInv, TypeOK
  <1>14. QED
    BY <1>1, <1>8, <1>11, <1>12, <1>13, ChatInvAfter

(* A connection in no room enters one. *)
LEMMA JoinEnterInv ==
    ASSUME ChatInv, pc \in {"read", "join"}, NEW room \in Room, join_enter(room),
           conns[cur].room = NoRoom
    PROVE  ChatInv'
  <1> DEFINE to == Audience(room, cur) \cup {cur}
             in == [conns[cur] EXCEPT !.room = room]
  <1>1. /\ cur \in DOMAIN conns /\ conns[cur] \in Conn /\ target' = NoRoom /\ NextFrame
        /\ UNCHANGED <<mode, g_tick_buf, batch, running, broken, born>>
    BY DEF join_enter, ChatInv, TypeOK
  <1>2. PICK take \in Takes :
          LET Entered(f) == IF f = cur
                              THEN queue_send([conns[f] EXCEPT !.room = room], NoticeLen)
                              ELSE broadcast(f, NoticeLen, take)
          IN  Update(DOMAIN conns, to, Entered)
    BY DEF join_enter
  <1> DEFINE U == [f \in to |->
                     IF f = cur THEN queue_send([conns[f] EXCEPT !.room = room], NoticeLen)
                                ELSE broadcast(f, NoticeLen, take)]
  <1>3. /\ conns' = [f \in DOMAIN conns |-> IF f \in to THEN U[f] ELSE conns[f]]
        /\ g_doomed' = (g_doomed \cap DOMAIN conns) \cup {f \in to : U[f].closing}
        /\ g_dirty' = g_dirty \cup {f \in to : U[f].dirty}
    BY <1>2 DEF Update
  <1>4. Grown(conns[cur], in) /\ in.room = room /\ in \in Conn
    BY <1>1 DEF Grown, Conn, Masked
  <1>5. Grown(conns[cur], queue_send(in, NoticeLen)) /\ queue_send(in, NoticeLen).room = room
    <2> HIDE DEF in
    <2>1. QED
      BY <1>1, <1>4, QueueGrown, GrownTrans, ChatAssumption
  <1>6. /\ to \in SUBSET DOMAIN conns
        /\ \A f \in to : Grown(conns[f], U[f]) /\ (f = cur \/ Delivered(U[f]))
        /\ \A f \in to : U[f].room = IF f = cur THEN room ELSE conns[f].room
    BY <1>1, <1>5, BroadcastAll, ChatAssumption
  <1>7. cur \in to
    OBVIOUS
  <1> HIDE DEF to, U, in
  <1>8. DOMAIN conns' = DOMAIN conns /\ conns'[cur] = U[cur]
        /\ \A f \in DOMAIN conns : conns'[f].room = IF f = cur THEN room ELSE conns[f].room
    BY <1>1, <1>3, <1>6, <1>7
  <1>9. /\ pc' \in {"drain", "read"}
        /\ cur' \in (IF pc' = "read" THEN DOMAIN conns ELSE {Listen})
        /\ cur' = cur \/ conns'[cur].closing
    BY <1>1, <1>8, NextFrameCases
  <1>10. \A f \in to : Grown(conns[f], U[f]) /\ (f = cur' \/ Delivered(U[f]))
    BY <1>6, <1>8, <1>9 DEF Delivered
  <1>11. broken' = broken \cap DOMAIN conns /\ pc # "done" /\ pc' \notin {"wait", "done"}
    BY <1>1, <1>9 DEF ChatInv, TypeOK
  <1>12. ConnTypeOK' /\ ConnInv'
    BY <1>1, <1>3, <1>6, <1>7, <1>10, <1>11, ConnStep
  <1>13. /\ DOMAIN g_rooms' = DOMAIN g_rooms \cup {room}
         /\ \A r \in DOMAIN g_rooms' :
              g_rooms'[r] = IF r = room
                              THEN {cur} \cup IF room \in DOMAIN g_rooms
                                                THEN g_rooms[room] ELSE {}
                              ELSE g_rooms[r]
         /\ g_rooms' = [r \in DOMAIN g_rooms' |-> g_rooms'[r]]
    BY DEF join_enter, With
  <1>14. RoomsMatchConns'
    <2>1. \A r \in Room : {f \in DOMAIN conns' : conns'[f].room = r}
                             = {f \in DOMAIN conns : conns[f].room = r}
                                 \cup (IF r = room THEN {cur} ELSE {})
      BY <1>1, <1>8, ChatAssumption
    <2>2. QED
      BY <1>13, <2>1 DEF ChatInv, RoomsMatchConns
  <1>15. g_rooms' \in [DOMAIN g_rooms' -> SUBSET Fd] /\ DOMAIN g_rooms' \subseteq Room
    BY <1>1, <1>13 DEF ChatInv, TypeOK
  <1>16. TickInv'
    BY <1>1, <1>11, <1>13 DEF ChatInv, TickInv, TickLinesHaveRoom, g_coalesce
  <1>17. BatchInv' /\ JoinInv'
    BY <1>1, <1>8, <1>9 DEF ChatInv, BatchInv, EventsReachTheirConnection, JoinInv
  <1>18. /\ mode' \in Modes /\ DOMAIN g_tick_buf' \subseteq Room
         /\ g_tick_buf' \in [DOMAIN g_tick_buf' -> 0..k_tick_cap]
         /\ batch' \subseteq Source \X Masks
         /\ target' \in Room \cup {NoRoom} /\ running' \in BOOLEAN /\ born' \subseteq Fd
    BY <1>1 DEF ChatInv, TypeOK
  <1>19. QED
    BY <1>8, <1>9, <1>12, <1>14, <1>15, <1>16, <1>17, <1>18, ChatInvAfter

-----------------------------------------------------------------------------
(* The tail of an iteration. *)

(* A tick sends the lines of a room to its members and drops them. *)
LEMMA TickRoomInv ==
    ASSUME ChatInv, NEW room \in DOMAIN g_tick_buf, tick_room(room)
    PROVE  ChatInv'
  <1> DEFINE to == Audience(room, Listen)
             Line(f) == queue_tick_frame(conns[f], g_tick_buf[room])
  <1>1. /\ pc = "tick" /\ UNCHANGED <<mode, g_rooms, pc, batch, cur, target, running, broken, born>>
        /\ g_tick_buf' = [g_tick_buf EXCEPT ![room] = 0]
    BY DEF tick_room, loopVars
  <1>2. PICK take \in Takes :
          Update(DOMAIN conns, to,
                 LAMBDA f : flush_or_mark(queue_tick_frame(conns[f], g_tick_buf[room]),
                                          f \in broken, take[f]))
    BY DEF tick_room
  <1> DEFINE U == [f \in to |-> flush_or_mark(Line(f), f \in broken, take[f])]
  <1>3. /\ conns' = [f \in DOMAIN conns |-> IF f \in to THEN U[f] ELSE conns[f]]
        /\ g_doomed' = (g_doomed \cap DOMAIN conns) \cup {f \in to : U[f].closing}
        /\ g_dirty' = g_dirty \cup {f \in to : U[f].dirty}
    BY <1>2 DEF Update
  <1>4. to \in SUBSET DOMAIN conns
    BY DEF Audience
  <1>5. ASSUME NEW f \in to
        PROVE  Grown(conns[f], U[f]) /\ U[f].room = conns[f].room /\ Delivered(U[f])
    <2>1. /\ conns[f] \in Conn /\ take[f] \in Nat /\ g_tick_buf[room] \in Nat
      BY <1>4, ChatAssumption DEF Takes, ChatInv, TypeOK
    <2>2. Grown(conns[f], Line(f)) /\ Line(f).room = conns[f].room /\ Line(f) \in Conn
      BY <2>1, QueueGrown DEF Grown
    <2>3. U[f] = flush_or_mark(Line(f), f \in broken, take[f])
      OBVIOUS
    <2> HIDE DEF Line, U
    <2>4. QED
      BY <2>1, <2>2, <2>3, FlushOrMarkGrown, GrownTrans
  <1> HIDE DEF to, U
  <1>6. pc # "done" /\ pc' \notin {"wait", "done"} /\ cur' = cur
    BY <1>1
  <1>7. ConnTypeOK' /\ ConnInv' /\ RoomsMatchConns'
    BY <1>1, <1>3, <1>4, <1>5, <1>6, LocalStep
  <1>8. /\ DOMAIN g_tick_buf' = DOMAIN g_tick_buf
        /\ g_tick_buf' \in [DOMAIN g_tick_buf' -> 0..k_tick_cap]
    BY <1>1, ChatAssumption DEF ChatInv, TypeOK
  <1>9. TickInv'
    BY <1>1, <1>8 DEF ChatInv, TickInv, TickLinesHaveRoom, g_coalesce
  <1>10. g_rooms' \in [DOMAIN g_rooms' -> SUBSET Fd]
    BY <1>1 DEF ChatInv, TypeOK
  <1>11. QED
    BY <1>1, <1>7, <1>8, <1>9, <1>10, TailInv

(* The steps that only move the loop along. *)
LEMMA PhaseInv ==
    ASSUME ChatInv, end_of_batch \/ tick_done \/ reap_done
    PROVE  ChatInv'
  <1>1. /\ UNCHANGED <<mode, conns, g_rooms, g_tick_buf, g_doomed, g_dirty, batch, cur,
                       target, running, broken>>
        /\ pc \in {"drain", "tick", "reap"}
        /\ pc' \in {"tick", "flush", "reap", "flush2", "wait"}
        /\ pc' = "wait" => ~g_batch_flush
    BY DEF end_of_batch, tick_done, reap_done, serverVars, FlushPhase
  <1>2. batch = {} /\ born' = {} /\ cur = Listen
    BY DEF end_of_batch, tick_done, reap_done, ChatInv, BatchInv, TypeOK
  <1>3. ConnTypeOK' /\ ConnInv' /\ RoomsMatchConns'
    BY <1>1 DEF ChatInv, TypeOK, ConnTypeOK, ConnInv, RoomsMatchConns, g_batch_flush
  <1>4. TickInv'
    BY <1>1 DEF ChatInv, TickInv, TickLinesHaveRoom, g_coalesce
  <1>5. BatchInv' /\ JoinInv'
    BY <1>1, <1>2 DEF BatchInv, EventsReachTheirConnection, JoinInv
  <1>6. /\ mode' \in Modes
        /\ DOMAIN g_rooms' \subseteq Room /\ g_rooms' \in [DOMAIN g_rooms' -> SUBSET Fd]
        /\ DOMAIN g_tick_buf' \subseteq Room
        /\ g_tick_buf' \in [DOMAIN g_tick_buf' -> 0..k_tick_cap]
        /\ target' \in Room \cup {NoRoom} /\ running' \in BOOLEAN
    BY <1>1 DEF ChatInv, TypeOK
  <1>7. QED
    BY <1>1, <1>2, <1>3, <1>4, <1>5, <1>6, ChatInvAfter

(* The flush pass leaves nothing dirty, and what it could not send armed.  *)
LEMMA FlushDirtyInv ==
    ASSUME ChatInv, first_flush \/ second_flush
    PROVE  ChatInv'
  <1> DEFINE live == g_dirty \cap DOMAIN conns
             Clean(f) == [conns[f] EXCEPT !.dirty = FALSE]
  <1>1. /\ pc \in {"flush", "flush2"} /\ pc' \in {"reap", "wait"} /\ flush_dirty
        /\ UNCHANGED <<mode, g_rooms, g_tick_buf, batch, cur, target, running, broken, born>>
    BY DEF first_flush, second_flush
  <1>2. PICK take \in Takes :
          LET Flushed(f) ==
                LET c == [conns[f] EXCEPT !.dirty = FALSE]
                IN  IF c.closing THEN c ELSE flush_send(c, f \in broken, take[f])
          IN  /\ conns' = [f \in DOMAIN conns |-> IF f \in live THEN Flushed(f) ELSE conns[f]]
              /\ g_doomed' = g_doomed \cup {f \in live : Flushed(f).closing}
              /\ g_dirty' = {}
    BY <1>1 DEF flush_dirty
  <1> DEFINE U == [f \in live |-> IF Clean(f).closing THEN Clean(f)
                                  ELSE flush_send(Clean(f), f \in broken, take[f])]
  <1>3. /\ conns' = [f \in DOMAIN conns |-> IF f \in live THEN U[f] ELSE conns[f]]
        /\ g_doomed' = g_doomed \cup {f \in live : U[f].closing}
        /\ g_dirty' = {}
    BY <1>2
  <1>4. ConnTypeOK /\ ConnInv /\ cur = Listen
    BY <1>1 DEF ChatInv, TypeOK, ConnTypeOK
  <1>5. ASSUME NEW f \in live
        PROVE  /\ U[f] \in Conn /\ U[f].room = conns[f].room /\ ~U[f].dirty
               /\ conns[f].closing => U[f].closing
               /\ ~U[f].closing => Masked(U[f]) /\ Settled(U[f])
    <2>1. conns[f] \in Conn /\ take[f] \in Nat
      BY <1>4, ChatAssumption DEF ConnTypeOK, Takes
    <2>2. /\ Clean(f) \in Conn /\ ~Clean(f).dirty /\ Clean(f).closing = conns[f].closing
          /\ Clean(f).room = conns[f].room
          /\ Masked(conns[f]) => Masked(Clean(f))
      BY <2>1 DEF Conn, Masked
    <2>3. ~conns[f].closing => Masked(conns[f])
      BY <1>4 DEF ConnInv
    <2>4. U[f] = IF Clean(f).closing THEN Clean(f)
                 ELSE flush_send(Clean(f), f \in broken, take[f])
      OBVIOUS
    <2> HIDE DEF Clean, U
    <2>5. CASE Clean(f).closing
      BY <2>2, <2>4, <2>5
    <2>6. CASE ~Clean(f).closing
      <3>1. LET d == flush_send(Clean(f), f \in broken, take[f])
            IN  /\ Grown(Clean(f), d) /\ Delivered(d)
                /\ d.room = Clean(f).room /\ d.dirty = Clean(f).dirty
        BY <2>1, <2>2, FlushSendGrown
      <3>2. QED
        BY <2>2, <2>3, <2>4, <2>6, <3>1 DEF Grown, Delivered
    <2>7. QED
      BY <2>5, <2>6
  <1>6. live \subseteq DOMAIN conns /\ (\A f \in DOMAIN conns : f \notin live => ~conns[f].dirty)
    BY <1>4 DEF ConnInv
  <1> HIDE DEF U, live, Clean
  <1>7. DOMAIN conns' = DOMAIN conns /\ \A f \in DOMAIN conns : conns'[f].room = conns[f].room
    BY <1>3, <1>5, <1>6
  <1>8. ConnTypeOK'
    BY <1>1, <1>3, <1>4, <1>5, <1>6, <1>7 DEF ConnTypeOK
  <1>9. ASSUME NEW f \in DOMAIN conns
        PROVE  /\ ~conns'[f].closing => Masked(conns'[f]) /\ Settled(conns'[f])
               /\ ~conns'[f].dirty
               /\ f \in g_doomed' <=> conns'[f].closing
    <2>1. f # cur
      BY <1>4, ChatAssumption DEF ConnTypeOK
    <2>2. f \in g_doomed <=> conns[f].closing
      BY <1>1, <1>4 DEF ConnInv
    <2>3. CASE f \in live
      BY <1>3, <1>5, <2>2, <2>3
    <2>4. CASE f \notin live
      BY <1>3, <1>4, <1>6, <2>1, <2>2, <2>4 DEF ConnInv
    <2>5. QED
      BY <2>3, <2>4
  <1>10. g_doomed' \subseteq DOMAIN conns
    BY <1>1, <1>3, <1>4, <1>6 DEF ConnInv
  <1>11. ConnInv'
    BY <1>3, <1>7, <1>9, <1>10 DEF ConnInv
  <1>12. RoomsMatchConns'
    BY <1>1, <1>7, RoomsKept DEF ChatInv
  <1>13. TickInv'
    BY <1>1 DEF ChatInv, TickInv, TickLinesHaveRoom, g_coalesce
  <1>14. /\ g_rooms' \in [DOMAIN g_rooms' -> SUBSET Fd]
         /\ g_tick_buf' \in [DOMAIN g_tick_buf' -> 0..k_tick_cap]
    BY <1>1 DEF ChatInv, TypeOK
  <1>15. QED
    BY <1>1, <1>8, <1>11, <1>12, <1>13, <1>14, TailInv

(* A reaped connection leaves its room before the room is told. *)
LEMMA ReapInv ==
    ASSUME ChatInv, NEW fd \in g_doomed, reap_one(fd)
    PROVE  ChatInv'
  <1> DEFINE open == DOMAIN conns \ {fd}
             to == IF conns[fd].nick THEN Audience(conns[fd].room, fd) ELSE {}
  <1>1. /\ pc = "reap" /\ pc' = "reap" /\ cur = Listen
        /\ UNCHANGED <<mode, batch, cur, target, running, born>>
        /\ broken' = broken \ {fd} /\ leave_room(fd, conns[fd].room)
    BY DEF reap_one, loopVars, ChatInv, TypeOK
  <1>2. fd \in DOMAIN conns
    BY <1>1 DEF ChatInv, ConnInv
  <1>3. PICK take \in Takes :
          Update(open, to, LAMBDA f : broadcast(f, NoticeLen, take))
    BY DEF reap_one
  <1> DEFINE U == [f \in to |-> broadcast(f, NoticeLen, take)]
  <1>4. /\ conns' = [f \in open |-> IF f \in to THEN U[f] ELSE conns[f]]
        /\ g_doomed' = (g_doomed \cap open) \cup {f \in to : U[f].closing}
        /\ g_dirty' = g_dirty \cup {f \in to : U[f].dirty}
    BY <1>3 DEF Update
  <1>5. to \in SUBSET open /\ open \in SUBSET DOMAIN conns
    BY DEF Audience
  <1>6. \A f \in to : Grown(conns[f], U[f]) /\ U[f].room = conns[f].room /\ Delivered(U[f])
    BY BroadcastAll, ChatAssumption
  <1>7. broken' = broken \cap open
    BY <1>1 DEF ChatInv, TypeOK
  <1>8. \A r \in Room : {f \in open : conns[f].room = r}
                           = {f \in DOMAIN conns : conns[f].room = r} \ {fd}
    OBVIOUS
  <1>9. pc # "done" /\ pc' \notin {"wait", "done"} /\ cur' = cur /\ mode' = mode
    BY <1>1
  <1> HIDE DEF open, to, U
  <1>10. ConnTypeOK' /\ ConnInv'
    BY <1>4, <1>5, <1>6, <1>7, <1>9, ConnStep
  <1>11. DOMAIN conns' = open /\ \A f \in open : conns'[f].room = conns[f].room
    BY <1>4, <1>6
  <1>12. \A r \in Room : {f \in DOMAIN conns' : conns'[f].room = r}
                            = {f \in DOMAIN conns : conns[f].room = r} \ {fd}
    BY <1>8, <1>11
  <1>13. /\ RoomsMatchConns' /\ TickInv'
         /\ DOMAIN g_rooms' \subseteq DOMAIN g_rooms
         /\ g_rooms' \in [DOMAIN g_rooms' -> SUBSET Fd]
         /\ DOMAIN g_tick_buf' \subseteq DOMAIN g_tick_buf
         /\ g_tick_buf' \in [DOMAIN g_tick_buf' -> 0..k_tick_cap]
    BY <1>1, <1>2, <1>9, <1>12, LeaveRoom
  <1>14. QED
    BY <1>1, <1>10, <1>13, TailInv

(* Out of the loop, everything is closed. *)
LEMMA ShutdownInv ==
    ASSUME ChatInv, shutdown
    PROVE  ChatInv'
  <1>1. /\ pc = "wait" /\ pc' = "done"
        /\ DOMAIN conns' = {} /\ DOMAIN g_rooms' = {} /\ broken' = {}
        /\ conns' \in [DOMAIN conns' -> Conn] /\ g_rooms' \in [DOMAIN g_rooms' -> SUBSET Fd]
        /\ UNCHANGED <<mode, g_tick_buf, g_doomed, g_dirty, batch, cur, target, running, born>>
    BY DEF shutdown
  <1>2. batch = {} /\ born = {} /\ g_dirty = {} /\ cur = Listen
    BY <1>1 DEF ChatInv, BatchInv, ConnInv, TypeOK
  <1>3. ConnTypeOK'
    <2>1. Cardinality(DOMAIN conns') <= g_max_conns
      BY <1>1, FS_EmptySet, ChatAssumption
    <2>2. QED
      BY <1>1, <2>1 DEF ChatInv, TypeOK, ConnTypeOK
  <1>4. ConnInv' /\ RoomsMatchConns' /\ BatchInv' /\ JoinInv'
    BY <1>1, <1>2 DEF ConnInv, RoomsMatchConns, BatchInv, EventsReachTheirConnection, JoinInv
  <1>5. TickInv'
    BY <1>1 DEF ChatInv, TickInv, TickLinesHaveRoom, g_coalesce
  <1>6. /\ mode' \in Modes /\ DOMAIN g_tick_buf' \subseteq Room
        /\ g_tick_buf' \in [DOMAIN g_tick_buf' -> 0..k_tick_cap]
        /\ target' \in Room \cup {NoRoom} /\ running' \in BOOLEAN
    BY <1>1 DEF ChatInv, TypeOK
  <1>7. QED
    BY <1>1, <1>2, <1>3, <1>4, <1>5, <1>6, ChatInvAfter

(* A peer breaks; nothing of the server changes. *)
LEMMA KernelInv ==
    ASSUME ChatInv, peer_reset \/ UNCHANGED vars
    PROVE  ChatInv'
  <1>1. /\ UNCHANGED <<mode, conns, g_rooms, g_tick_buf, g_doomed, g_dirty, pc, batch, cur,
                       target, running, born>>
        /\ broken' \subseteq DOMAIN conns
    BY DEF peer_reset, vars, serverVars, loopVars, ChatInv, TypeOK
  <1>2. QED
    BY <1>1 DEF ChatInv, TypeOK, ConnInv, RoomsMatchConns, BatchInv,
                EventsReachTheirConnection, TickInv, TickLinesHaveRoom, JoinInv,
                g_batch_flush, g_coalesce

-----------------------------------------------------------------------------
(* The invariant. *)

(* The invariant holds before the loop starts. *)
LEMMA InitChatInv == Init => ChatInv
  <1> SUFFICES ASSUME Init PROVE ChatInv
    OBVIOUS
  <1>1. DOMAIN conns = {} /\ DOMAIN g_rooms = {} /\ DOMAIN g_tick_buf = {}
    BY DEF Init
  <1>2. Cardinality(DOMAIN conns) <= g_max_conns
    BY <1>1, FS_EmptySet, ChatAssumption
  <1>3. /\ conns \in [DOMAIN conns -> Conn] /\ g_rooms \in [DOMAIN g_rooms -> SUBSET Fd]
        /\ g_tick_buf \in [DOMAIN g_tick_buf -> 0..k_tick_cap]
    BY DEF Init
  <1>4. TypeOK
    BY <1>1, <1>2, <1>3 DEF Init, TypeOK
  <1>5. QED
    BY <1>1, <1>4 DEF Init, ChatInv, ConnInv, RoomsMatchConns, BatchInv,
                      EventsReachTheirConnection, TickInv, TickLinesHaveRoom, JoinInv

(* Every step of the loop and of the peers keeps the invariant. *)
LEMMA StepChatInv == ChatInv /\ [Next]_vars => ChatInv'
  <1> SUFFICES ASSUME ChatInv, [Next]_vars PROVE ChatInv'
    OBVIOUS
  <1>1. CASE join_first
    BY <1>1, JoinEnterInv DEF join_first
  <1>2. CASE join_move
    BY <1>2, JoinEnterInv DEF join_move, ChatInv, JoinInv
  <1>3. CASE Packet
    BY <1>1, <1>2, <1>3, FrameInv, JoinLeaveInv, ChatNowInv, ChatCoalesceInv DEF Packet
  <1>4. CASE Drain
    BY <1>3, <1>4, LoopEventInv, EventInv, AcceptInv, DrainedInv, PhaseInv DEF Drain, Accept
  <1>5. CASE Tail
    BY <1>5, TickRoomInv, PhaseInv, FlushDirtyInv, ReapInv DEF Tail
  <1>6. CASE Terminated \/ UNCHANGED vars
    BY <1>6, KernelInv DEF Terminated
  <1>7. QED
    BY <1>4, <1>5, <1>6, EpollWaitInv, ShutdownInv, KernelInv DEF Next

(* The inductive invariant of the event loop. *)
THEOREM ChatInvariance == Spec => []ChatInv
  <1>1. QED
    BY InitChatInv, StepChatInv, PTL DEF Spec

(* Every count stays under its cap: connections, the bytes queued for a    *)
(* peer and the lines buffered for a tick, for all caps and line lengths.  *)
THEOREM ChatTypeCorrect == Spec => []TypeOK
  <1>1. ChatInv => TypeOK
    BY DEF ChatInv
  <1>2. QED
    BY <1>1, ChatInvariance, PTL

(* When the loop blocks, EPOLLOUT is armed for exactly the live            *)
(* connections that have bytes to send.                                    *)
THEOREM MaskIsExact == Spec => []ArmedIffPending
  <1>1. ASSUME ChatInv PROVE ArmedIffPending
    <2> SUFFICES ASSUME pc = "wait", NEW f \in DOMAIN conns, ~conns[f].closing
                 PROVE  conns[f].armed_write <=> conns[f].out > 0
      BY DEF ArmedIffPending
    <2>1. f # cur
      BY <1>1, ChatAssumption DEF ChatInv, TypeOK
    <2>2. Masked(conns[f]) /\ Settled(conns[f]) /\ ~conns[f].dirty
      BY <1>1, <2>1 DEF ChatInv, ConnInv
    <2>3. QED
      BY <2>2 DEF Masked, Settled
  <1>2. QED
    BY <1>1, ChatInvariance, PTL

(* Rooms and connections agree after every step of every handler. *)
THEOREM RoomsAgree == Spec => []RoomsMatchConns
  <1>1. ChatInv => RoomsMatchConns
    BY DEF ChatInv
  <1>2. QED
    BY <1>1, ChatInvariance, PTL

(* No line waits for the tick of a room that is gone. *)
THEOREM LinesStayInRoom == Spec => []TickLinesHaveRoom
  <1>1. ChatInv => TickLinesHaveRoom
    BY DEF ChatInv, TickInv
  <1>2. QED
    BY <1>1, ChatInvariance, PTL

(* No event of a batch reaches a connection accepted after it. *)
THEOREM NoReusedDescriptor == Spec => []EventsReachTheirConnection
  <1>1. ChatInv => EventsReachTheirConnection
    BY DEF ChatInv, BatchInv
  <1>2. QED
    BY <1>1, ChatInvariance, PTL

-----------------------------------------------------------------------------
(* The tick clock. *)

(* The last wake of a period, the one the timeout caused, is followed by   *)
(* the tick, so the wakes of a period stay bounded.                        *)
WakesInv ==
    /\ tick_pc = "wait" => wake >= deadline
    /\ wakes > MaxWakes => tick_pc \in {"drain", "due", "tick"} /\ now >= deadline

(* What the deadline knows of the past ticks. *)
DeadlineInv ==
    /\ ended <= deadline
    /\ ticks >= 1 => deadline >= before + period
    /\ tick_pc = "tick" => t0 >= deadline

BudgetInv == TickTypeOK /\ WakesInv /\ DeadlineInv /\ Cadence /\ AccountedOnce

(* One more tick moves the grid by one period. *)
LEMMA NextOnGrid ==
    ASSUME NEW k \in Nat, NEW p \in Nat
    PROVE  (k + 1 + 1) * p = (k + 1) * p + p
  OBVIOUS

(* The invariant holds when the loop starts. *)
LEMMA TickInitInv == TickInit => BudgetInv
  <1> SUFFICES ASSUME TickInit PROVE BudgetInv
    OBVIOUS
  <1>1. TickTypeOK
    BY TickAssumption DEF TickInit, TickTypeOK, TickPc
  <1>2. WakesInv /\ DeadlineInv /\ AccountedOnce
    BY TickAssumption DEF TickInit, WakesInv, DeadlineInv, AccountedOnce
  <1>3. Cadence
    BY TickAssumption DEF TickInit, Cadence
  <1> QED
    BY <1>1, <1>2, <1>3 DEF BudgetInv

(* Every step but the end of a tick leaves the clock alone. *)
LEMMA TickStep == BudgetInv /\ [TickNext]_tick_vars => BudgetInv'
  <1> SUFFICES ASSUME BudgetInv, [TickNext]_tick_vars PROVE BudgetInv'
    OBVIOUS
  <1> USE TickAssumption DEF TickPc
  <1>1. CASE begin_wait
    BY <1>1 DEF BudgetInv, begin_wait, timeout_ns, TickTypeOK, WakesInv, DeadlineInv, Cadence,
                AccountedOnce, clock, phases
  <1>2. CASE timed_out
    BY <1>2 DEF BudgetInv, timed_out, drain_begin, TickTypeOK, WakesInv, DeadlineInv, Cadence,
                AccountedOnce, clock
  <1>3. CASE drain_end
    BY <1>3 DEF BudgetInv, drain_end, TickTypeOK, WakesInv, DeadlineInv, Cadence, AccountedOnce, clock
  <1>4. CASE not_due
    BY <1>4 DEF BudgetInv, not_due, TickTypeOK, WakesInv, DeadlineInv, Cadence, AccountedOnce,
                clock, phases
  <1>5. CASE tick_begin
    BY <1>5 DEF BudgetInv, tick_begin, TickTypeOK, WakesInv, DeadlineInv, Cadence, AccountedOnce, phases
  <1>6. CASE tick_end
    <2>1. TickTypeOK' /\ WakesInv' /\ AccountedOnce'
      BY <1>6 DEF BudgetInv, tick_end, NextDeadline, TickTypeOK, WakesInv, AccountedOnce
    <2>2. DeadlineInv'
      BY <1>6 DEF BudgetInv, tick_end, NextDeadline, TickTypeOK, DeadlineInv
    <2>3. Cadence'
      <3> USE <1>6 DEF BudgetInv, tick_end, NextDeadline
      <3>1. (ticks + 1 + 1) * period = (ticks + 1) * period + period
        BY NextOnGrid DEF TickTypeOK
      <3>2. (ticks + 1) * period \in Nat
        BY DEF TickTypeOK
      <3>3. CASE now > deadline + period
        <4>1. overruns' # 0
          BY <3>3 DEF TickTypeOK
        <4>2. deadline' >= deadline + period
          BY <3>3 DEF TickTypeOK
        <4> QED
          BY <3>1, <3>2, <4>1, <4>2 DEF TickTypeOK, Cadence
      <3>4. CASE ~(now > deadline + period)
        <4>1. overruns' = overruns /\ deadline' = deadline + period
          BY <3>4 DEF TickTypeOK
        <4> QED
          BY <3>1, <3>2, <4>1 DEF TickTypeOK, Cadence
      <3> QED
        BY <3>3, <3>4
    <2> QED
      BY <2>1, <2>2, <2>3 DEF BudgetInv
  <1>7. CASE flush_begin
    BY <1>7 DEF BudgetInv, flush_begin, TickTypeOK, WakesInv, DeadlineInv, Cadence, AccountedOnce, clock
  <1>8. CASE flush_end
    BY <1>8 DEF BudgetInv, flush_end, TickTypeOK, WakesInv, DeadlineInv, Cadence, AccountedOnce, clock
  <1>9. CASE event
    BY <1>9 DEF BudgetInv, event, drain_begin, TickTypeOK, WakesInv, DeadlineInv, Cadence,
                AccountedOnce, clock
  <1>10. CASE interrupted
    BY <1>10 DEF BudgetInv, interrupted, TickTypeOK, WakesInv, DeadlineInv, Cadence, AccountedOnce,
                 clock, phases
  <1>11. CASE Elapse
    BY <1>11 DEF BudgetInv, Elapse, TickTypeOK, WakesInv, DeadlineInv, Cadence, AccountedOnce,
                 clock, phases
  <1>12. CASE UNCHANGED tick_vars
    BY <1>12 DEF BudgetInv, tick_vars, TickTypeOK, WakesInv, DeadlineInv, Cadence, AccountedOnce,
                 clock, phases
  <1> QED
    BY <1>1, <1>2, <1>3, <1>4, <1>5, <1>6, <1>7, <1>8, <1>9, <1>10, <1>11, <1>12
    DEF TickNext, TickLoop

(* It holds throughout. *)
LEMMA TickInvariance == TickSpec => []BudgetInv
  BY TickInitInv, TickStep, PTL DEF TickSpec

(* The loop's variables keep their types; in particular the wakes of one   *)
(* period and the overruns stay within the ticks' bounds.                  *)
THEOREM TickTypeCorrect == TickSpec => []TickTypeOK
  <1>1. BudgetInv => TickTypeOK
    BY DEF BudgetInv
  <1> QED
    BY TickInvariance, <1>1, PTL

(* maybe_tick never catches up in a burst: for every period, and whatever  *)
(* each tick costs, three ticks in a row take at least a period.           *)
THEOREM NeverBursts == TickSpec => []NoBurst
  <1>1. BudgetInv => NoBurst
    BY TickAssumption DEF BudgetInv, TickTypeOK, DeadlineInv, NoBurst
  <1> QED
    BY TickInvariance, <1>1, PTL

(* The deadline stays on the grid of the period until an overrun.          *)
THEOREM KeepsCadence == TickSpec => []Cadence
  <1>1. BudgetInv => Cadence
    BY DEF BudgetInv
  <1> QED
    BY TickInvariance, <1>1, PTL

(* drain_end, flush_end and the resets of maybe_tick credit no nanosecond  *)
(* twice.                                                                  *)
THEOREM NothingCountedTwice == TickSpec => []AccountedOnce
  <1>1. BudgetInv => AccountedOnce
    BY DEF BudgetInv
  <1> QED
    BY TickInvariance, <1>1, PTL
=============================================================================

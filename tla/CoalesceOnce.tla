---------------------------- MODULE CoalesceOnce ----------------------------
(***************************************************************************)
(* What tick-coalesced delivery owes to whom: EpollChat with one history   *)
(* variable, the connections a chat line was accepted for and that have    *)
(* not been sent it yet.                                                   *)
(***************************************************************************)
EXTENDS EpollChat

VARIABLE owed   \* <<fd, room>>: fd was in room when a line was accepted

Buffered(room) == IF room \in DOMAIN g_tick_buf THEN g_tick_buf[room] ELSE 0

\* A line accepted for a room is owed to everyone a broadcast would reach; the
\* tick frame of the room pays, and a closed connection is owed nothing.
OwedNext ==
  /\ Next
  /\ owed' =
       LET accepted == {r \in Room : Buffered(r)' > Buffered(r)}
           ticked == {r \in Room : pc = "tick" /\ Buffered(r)' < Buffered(r)}
       IN  {o \in owed \cup UNION {Audience(r, Listen) \X {r} : r \in accepted} :
              o[1] \in DOMAIN conns' /\ o[2] \notin ticked}

OwedSpec == Init /\ owed = {} /\ [][OwedNext]_<<vars, owed>>

\* server.cpp:129-130: "Coalesced, not latest-wins, so every delivery still
\* happens exactly once".  When an iteration has ended, a live connection that
\* is owed a line is still in the room whose next tick frame carries it.
EveryDeliveryHappens ==
  pc = "wait" => \A o \in owed :
    (o[1] \in DOMAIN conns /\ ~conns[o[1]].closing)
      => (o[2] \in DOMAIN g_rooms /\ o[1] \in g_rooms[o[2]])
=============================================================================

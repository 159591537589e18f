------------------------------ MODULE SdsRooms ------------------------------
(***************************************************************************)
(* The rooms of the sds build of the chat server                           *)
(* (server-epoll/server_sds.cpp): records in a slab with a free list,      *)
(* found through a hash map that borrows its keys from the records, and    *)
(* members on an intrusive doubly linked list through the connections.     *)
(*                                                                         *)
(* One thread runs all of it.  A room name is a byte string that may hold  *)
(* NULs; the hash map sees the C string it starts with.  A map node keeps  *)
(* the bucket it was put in (the C string at that moment) and a pointer to *)
(* the record's name, so a record reused under a node would be seen.       *)
(***************************************************************************)
EXTENDS Integers, Sequences, FiniteSets

CONSTANTS
    Fd,         \* connection slots, by descriptor
    g_slots,    \* records in the room slab
    Name,       \* room names a client may send, cut to k_room_max
    NUL         \* the byte that ends a C string

ASSUME RoomsAssumption ==
    /\ IsFiniteSet(Fd) /\ -1 \notin Fd
    /\ g_slots \in Nat /\ g_slots >= Cardinality(Fd)
    /\ \A s \in Name : s # << >>

VARIABLES
    conns,          \* live descriptor -> room, room_prev, room_next
    g_rooms,        \* the slab
    g_room_free,    \* head of its free list
    g_room_index,   \* nodes of the hash map
    joined,         \* live descriptor -> the name of its last join (history)
    trapped         \* an LNX_CHECK failed

rooms_vars == <<conns, g_rooms, g_room_free, g_room_index, joined, trapped>>

Slots == 0..(g_slots - 1)
k_no_room == g_slots
None == -1

room == [name : Name \cup {<< >>}, head : Fd \cup {None}, count : Nat,
         next_free : Slots \cup {k_no_room}, live : BOOLEAN]
conn == [room : Slots \cup {k_no_room}, room_prev : Fd \cup {None},
         room_next : Fd \cup {None}]
NewMember == [room |-> k_no_room, room_prev |-> None, room_next |-> None]
OutOfRoom(c) == [c EXCEPT !.room = k_no_room, !.room_prev = None, !.room_next = None]

(* What strcmp and the hash see of a name. *)
CStr(name) ==
    LET ends == {i \in 1..Len(name) : name[i] = NUL}
    IN  IF ends = {} THEN name
        ELSE SubSeq(name, 1, (CHOOSE i \in ends : \A j \in ends : i <= j) - 1)

RoomsInit ==
    /\ conns = [fd \in {} |-> NewMember]
    /\ g_rooms = [i \in Slots |-> [name |-> << >>, head |-> None, count |-> 0,
                                   next_free |-> i + 1, live |-> FALSE]]
    /\ g_room_free = 0
    /\ g_room_index = {}
    /\ joined = [fd \in {} |-> << >>]
    /\ trapped = FALSE

-----------------------------------------------------------------------------
(* The nodes `find` meets in the bucket of a name, through borrowed keys. *)
find(rooms, index, name) ==
    {n \in index : n.bucket = CStr(name) /\ CStr(rooms[n.key].name) = CStr(name)}

(* The pieces of state a join or a leave transforms. *)
State == [conns |-> conns, rooms |-> g_rooms, free |-> g_room_free,
          index |-> g_room_index]

(* room_release: the key is erased before the slot is reusable. *)
room_release(s, idx) ==
    [s EXCEPT !.index = s.index \ find(s.rooms, s.index, s.rooms[idx].name),
              !.rooms = [s.rooms EXCEPT ![idx].live = FALSE, ![idx].head = None,
                                  ![idx].next_free = s.free],
              !.free = idx]

(* Fault: the member after the leaver keeps pointing back at it. *)
Unlink_half(s, fd) ==
    LET c == s.conns[fd]
    IN  [s EXCEPT
          !.rooms = [s.rooms EXCEPT
             ![c.room].head = IF c.room_prev = None THEN c.room_next ELSE @,
             ![c.room].count = @ - 1],
          !.conns = [f \in DOMAIN s.conns |->
             CASE f = fd -> OutOfRoom(c)
               [] f = c.room_prev -> [s.conns[f] EXCEPT !.room_next = c.room_next]
               [] OTHER -> s.conns[f]]]

(* The pointer surgery of leave_room. *)
Unlink(s, fd) ==
    LET c == s.conns[fd]
    IN  [s EXCEPT
          !.rooms = [s.rooms EXCEPT
             ![c.room].head = IF c.room_prev = None THEN c.room_next ELSE @,
             ![c.room].count = @ - 1],
          !.conns = [f \in DOMAIN s.conns |->
             CASE f = fd -> OutOfRoom(c)
               [] f = c.room_prev -> [s.conns[f] EXCEPT !.room_next = c.room_next]
               [] f = c.room_next -> [s.conns[f] EXCEPT !.room_prev = c.room_prev]
               [] OTHER -> s.conns[f]]]

(* The last member out releases the room. *)
leave_room(s, fd) ==
    LET idx == s.conns[fd].room
        t   == Unlink(s, fd)
    IN  IF idx = k_no_room THEN s
        ELSE IF t.rooms[idx].count = 0 THEN room_release(t, idx) ELSE t

(* room_acquire when the index has no such room: take a record. *)
NewRoom(s, name) ==
    LET idx == s.free
    IN  [s EXCEPT !.free = s.rooms[idx].next_free,
                  !.rooms[idx] = [name |-> name, head |-> None, count |-> 0,
                                  next_free |-> s.rooms[idx].next_free,
                                  live |-> TRUE],
                  !.index = @ \cup {[bucket |-> CStr(name), key |-> idx, value |-> idx]}]

(* The new member goes to the front of the list. *)
join_room(s, fd, idx) ==
    LET head == s.rooms[idx].head
    IN  [s EXCEPT
          !.rooms = [s.rooms EXCEPT ![idx].head = fd, ![idx].count = @ + 1],
          !.conns = [f \in DOMAIN s.conns |->
             CASE f = fd -> [s.conns[f] EXCEPT !.room = idx, !.room_prev = None,
                                               !.room_next = head]
               [] f = head -> [s.conns[f] EXCEPT !.room_prev = fd]
               [] OTHER -> s.conns[f]]]

Becomes(s) ==
    /\ conns' = s.conns
    /\ g_rooms' = s.rooms
    /\ g_room_free' = s.free
    /\ g_room_index' = s.index

-----------------------------------------------------------------------------
(* on_accept constructs the connection in its slot. *)
accept(fd) ==
    /\ ~trapped /\ fd \notin DOMAIN conns
    /\ conns' = [f \in DOMAIN conns \cup {fd} |-> IF f = fd THEN NewMember ELSE conns[f]]
    /\ joined' = [f \in DOMAIN conns \cup {fd} |-> IF f = fd THEN << >> ELSE joined[f]]
    /\ UNCHANGED <<g_rooms, g_room_free, g_room_index, trapped>>

(* c_join: leave the old room, then find or open the new one and enter. *)
join(fd, name) ==
    LET s     == leave_room(State, fd)
        found == find(s.rooms, s.index, name)
    IN  /\ ~trapped /\ fd \in DOMAIN conns
        /\ IF found = {} /\ s.free = k_no_room
             THEN trapped' = TRUE /\ UNCHANGED <<conns, g_rooms, g_room_free,
                                                 g_room_index, joined>>
             ELSE /\ \/ found = {} /\ Becomes(join_room(NewRoom(s, name), fd, s.free))
                     \/ \E n \in found : Becomes(join_room(s, fd, n.value))
                  /\ joined' = [joined EXCEPT ![fd] = name]
                  /\ UNCHANGED trapped

(* reap_doomed: out of the room, then the slot is destroyed. *)
reap(fd) ==
    LET s == leave_room(State, fd)
        rest == DOMAIN conns \ {fd}
    IN  /\ ~trapped /\ fd \in DOMAIN conns
        /\ Becomes([s EXCEPT !.conns = [f \in rest |-> s.conns[f]]])
        /\ joined' = [f \in rest |-> joined[f]]
        /\ UNCHANGED trapped

RoomsNext ==
    \/ \E fd \in Fd : accept(fd)
    \/ \E fd \in Fd, name \in Name : join(fd, name)
    \/ \E fd \in Fd : reap(fd)

RoomsSpec == RoomsInit /\ [][RoomsNext]_rooms_vars

-----------------------------------------------------------------------------
RoomsTypeOK ==
    /\ DOMAIN conns \subseteq Fd /\ DOMAIN joined = DOMAIN conns
    /\ \A fd \in DOMAIN conns : conns[fd] \in conn /\ joined[fd] \in Name \cup {<< >>}
    /\ g_rooms \in [Slots -> room]
    /\ g_room_free \in Slots \cup {k_no_room}
    /\ \A n \in g_room_index : n.key \in Slots /\ n.value \in Slots

(* The descriptor a broadcast meets after n hops from `head` along         *)
(* room_next.                                                              *)
Hop(s, idx) ==
    LET hop[n \in 0..Cardinality(Fd)] ==
          IF n = 0 THEN s.rooms[idx].head
          ELSE IF hop[n - 1] \in DOMAIN s.conns THEN s.conns[hop[n - 1]].room_next
          ELSE None
    IN  hop

(* The members a broadcast meets, in order. *)
Walk(s, idx) ==
    LET hop == Hop(s, idx)
        met == {n \in 1..Cardinality(Fd) : hop[n - 1] # None}
    IN  [n \in 1..Cardinality(met) |-> hop[n - 1]]

Named(name) == {idx \in Slots : g_rooms[idx].live /\ CStr(g_rooms[idx].name) = CStr(name)}

(* The rooms are who joined them: after any history of joins, moves and    *)
(* reaps, however often records, names and descriptors were reused, a name *)
(* (as far as the index reads it, up to a NUL) has one record at most, and *)
(* a broadcast to it ends after meeting once each client whose last join   *)
(* was by that name, and nobody else.  The free list never runs out, so    *)
(* the LNX_CHECK of room_acquire cannot fail.                              *)
RoomsAreWhoJoined ==
    /\ ~trapped
    /\ \A name \in Name :
        LET there == {fd \in DOMAIN conns :
                        joined[fd] # << >> /\ CStr(joined[fd]) = CStr(name)}
        IN  /\ Cardinality(Named(name)) <= 1
            /\ there # {} => Named(name) # {}
            /\ \A idx \in Named(name) :
                 LET walk == Walk(State, idx)
                 IN  /\ Hop(State, idx)[Cardinality(Fd)] = None
                     /\ Len(walk) = Cardinality(there)
                     /\ {walk[n] : n \in DOMAIN walk} = there

-----------------------------------------------------------------------------
(* The inductive invariant behind it, over the connections c, the records  *)
(* r, the head of the free list and the nodes ix of the index.             *)

MembersOf(c, idx) == {f \in DOMAIN c : c[f].room = idx}

(* The links of the connections go through m, first to last. *)
IsList(c, idx, head, count, m) ==
    /\ count \in Nat /\ m \in [1..count -> MembersOf(c, idx)]
    /\ \A f \in MembersOf(c, idx) : \E i \in 1..count : m[i] = f
    /\ \A i, j \in 1..count : m[i] = m[j] => i = j
    /\ head = IF count = 0 THEN None ELSE m[1]
    /\ \A i \in 1..count :
         /\ c[m[i]].room_prev = IF i = 1 THEN None ELSE m[i - 1]
         /\ c[m[i]].room_next = IF i = count THEN None ELSE m[i + 1]

HasList(c, idx, head, count) ==
    \E m \in [1..count -> MembersOf(c, idx)] : IsList(c, idx, head, count, m)

Listed(c, r, idx) == HasList(c, idx, r[idx].head, r[idx].count)

(* The free list goes through the n records d, the ones that are not live. *)
IsFreeList(r, free, n, d) ==
    /\ \A i \in 1..n : ~r[d[i]].live
    /\ \A idx \in Slots : ~r[idx].live => \E i \in 1..n : d[i] = idx
    /\ \A i, j \in 1..n : d[i] = d[j] => i = j
    /\ free = IF n = 0 THEN k_no_room ELSE d[1]
    /\ \A i \in 1..n : r[d[i]].next_free = IF i = n THEN k_no_room ELSE d[i + 1]

FreeListed(r, free) ==
    \E n \in 0..g_slots : \E d \in [1..n -> Slots] : IsFreeList(r, free, n, d)

Node(r, idx) == [bucket |-> CStr(r[idx].name), key |-> idx, value |-> idx]

RoomsOK(c, r, free, ix) ==
    /\ DOMAIN c \subseteq Fd /\ r \in [Slots -> room]
    /\ \A f \in DOMAIN c :
         /\ c[f].room_prev \in Fd \cup {None} /\ c[f].room_next \in Fd \cup {None}
         /\ c[f].room # k_no_room => c[f].room \in Slots /\ r[c[f].room].live
    /\ \A idx \in Slots : r[idx].live => r[idx].name \in Name /\ Listed(c, r, idx)
    /\ \A i, j \in Slots :
         r[i].live /\ r[j].live /\ CStr(r[i].name) = CStr(r[j].name) => i = j
    /\ FreeListed(r, free)
    /\ ix = {Node(r, idx) : idx \in {i \in Slots : r[i].live}}

(* Between two calls no room is empty. *)
Occupied(r) == \A idx \in Slots : r[idx].live => r[idx].count > 0

WhoJoined(c, r, j) ==
    /\ DOMAIN j = DOMAIN c
    /\ \A f \in DOMAIN c :
         IF c[f].room = k_no_room THEN j[f] = << >>
         ELSE j[f] \in Name /\ CStr(j[f]) = CStr(r[c[f].room].name)

RoomsInv ==
    /\ conns \in [DOMAIN conns -> conn] /\ ~trapped
    /\ RoomsOK(conns, g_rooms, g_room_free, g_room_index)
    /\ Occupied(g_rooms) /\ WhoJoined(conns, g_rooms, joined)
=============================================================================

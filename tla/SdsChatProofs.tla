--------------------------- MODULE SdsChatProofs ---------------------------
(***************************************************************************)
(* Proofs about the sds build of the chat server: its rooms (SdsRooms),    *)
(* for every number of descriptors and of slots of the slab and every set  *)
(* of names, the ones that are cut at an embedded zero byte included.      *)
(*                                                                         *)
(* The free list is a sequence of dead slots that exists (IsFreeList), and *)
(* the members of a live slot are one that the links of the connections    *)
(* spell out (IsList): a join adds at the head, a leave takes a member out *)
(* wherever it is, and neither computes the list. That a slot is free      *)
(* whenever a name is new, so that room_acquire does not trap, is a        *)
(* pigeonhole over the connections: no room is empty between two calls,    *)
(* and there is a slot for every connection.                               *)
(*                                                                         *)
(* Its event loop (SdsChat) implements the one of server.cpp (EpollChat),  *)
(* for every number of descriptors, batch size, cap and set of names. What *)
(* a helper makes of the server is told in the terms of the abstract one:  *)
(* Acts for one connection, Spread for a walk over a member list, Flushed  *)
(* for a pass over the dirty list, Left and Entered for a change of room,  *)
(* Removed for a reap. ImplInv says what the lists hold in between; there  *)
(* is one lemma Step... for each action, and ImplStep puts them together.  *)
(***************************************************************************)
EXTENDS SdsChat, FiniteSetTheorems, WellFoundedInduction, TLAPS

-----------------------------------------------------------------------------
(* Numbers. *)

(* A set of numbers that is not empty has a least one. *)
LEMMA LeastNat ==
    ASSUME NEW T, T \subseteq Nat, T # {}
    PROVE  \E i \in T : \A j \in T : i <= j
  <1> PICK R : R = OpToRel(<, Nat)
    OBVIOUS
  <1>1. \E i \in T : \A j \in T : ~ (<<j, i>> \in R)
    BY NatLessThanWellFounded, WFMin
  <1>2. \A i, j \in Nat : j < i => <<j, i>> \in R
    BY DEF OpToRel
  <1>3. PICK i \in T : \A j \in T : ~ (<<j, i>> \in R)
    BY <1>1
  <1>4. \A j \in T : ~(j < i)
    BY <1>2, <1>3
  <1>5. \A j \in T : i <= j
    BY ONLY <1>4, T \subseteq Nat, i \in T
  <1>6. QED
    BY <1>5

(* Induction: a set that holds 0 and the successor of each of its members *)
(* holds every number.                                                    *)
LEMMA SetInduction ==
    ASSUME NEW T, 0 \in T, \A n \in T \cap Nat : n + 1 \in T
    PROVE  Nat \subseteq T
  <1> DEFINE out == Nat \ T
  <1>1. SUFFICES ASSUME out # {} PROVE FALSE
    OBVIOUS
  <1>2. PICK i \in out : \A j \in out : i <= j
    BY <1>1, LeastNat
  <1>3. i \in Nat /\ i # 0
    BY <1>2
  <1>4. i - 1 \in Nat /\ ~(i <= i - 1)
    BY <1>3
  <1>5. i - 1 \in T
    BY <1>2, <1>4
  <1>6. (i - 1) + 1 = i
    BY <1>3
  <1>7. QED
    BY <1>2, <1>4, <1>5, <1>6

-----------------------------------------------------------------------------
(* One member list. *)

(* The numbers a slot or a descriptor can be mistaken for. *)
LEMMA NotSlots ==
    ASSUME RoomsAssumption
    PROVE  k_no_room \notin Slots /\ None \notin Fd /\ g_slots \in Nat
  BY DEF RoomsAssumption, Slots, k_no_room, None

(* What Unlink leaves of a member f of c's room. *)
Unlinked(c, f, x, y) ==
    /\ y.room = x.room
    /\ y.room_next = IF f = c.room_prev THEN c.room_next ELSE x.room_next
    /\ y.room_prev = IF f = c.room_next /\ f # c.room_prev THEN c.room_prev ELSE x.room_prev

(* The list without its k-th member: the neighbours of the leaver are      *)
(* joined, its room and its links are reset.                               *)
LEMMA ListWithout ==
    ASSUME NEW c, NEW d, NEW idx, NEW head, NEW count, NEW m, NEW k \in 1..count,
           IsList(c, idx, head, count, m), None \notin DOMAIN c,
           DOMAIN d = DOMAIN c, d[m[k]].room # idx,
           \A f \in DOMAIN c \ {m[k]} : Unlinked(c[m[k]], f, c[f], d[f])
    PROVE  HasList(d, idx, IF c[m[k]].room_prev = None THEN c[m[k]].room_next ELSE head,
                   count - 1)
  <1> DEFINE l == [i \in 1..(count - 1) |-> IF i < k THEN m[i] ELSE m[i + 1]]
             first == IF c[m[k]].room_prev = None THEN c[m[k]].room_next ELSE head
             skip(i) == IF i < k THEN i ELSE i + 1
  <1>0. \A f \in DOMAIN c : f # m[k] =>
              /\ d[f].room = c[f].room
              /\ d[f].room_next = IF f = c[m[k]].room_prev THEN c[m[k]].room_next
                                  ELSE c[f].room_next
              /\ d[f].room_prev = IF f = c[m[k]].room_next /\ f # c[m[k]].room_prev
                                  THEN c[m[k]].room_prev ELSE c[f].room_prev
    BY DEF Unlinked
  <1>1. /\ count \in Nat /\ k \in Nat /\ m \in [1..count -> MembersOf(c, idx)]
        /\ MembersOf(c, idx) \subseteq DOMAIN c
    BY DEF IsList, MembersOf
  <1>2. MembersOf(d, idx) = MembersOf(c, idx) \ {m[k]}
    BY <1>0, <1>1 DEF MembersOf
  <1>3. \A i \in 1..(count - 1) :
          /\ skip(i) \in 1..count /\ skip(i) # k /\ l[i] = m[skip(i)]
    BY <1>1
  <1>4. \A i, j \in 1..count : m[i] = m[j] => i = j
    BY DEF IsList
  <1>5. l \in [1..(count - 1) -> MembersOf(d, idx)]
    <2>1. \A i \in 1..(count - 1) : l[i] \in MembersOf(d, idx)
      BY <1>1, <1>2, <1>3, <1>4
    <2>2. QED
      BY <2>1
  <1>6. ASSUME NEW f \in MembersOf(d, idx) PROVE \E i \in 1..(count - 1) : l[i] = f
    <2>1. PICK j \in 1..count : m[j] = f
      BY <1>2 DEF IsList
    <2>2. j # k
      BY <1>2, <2>1
    <2>3. CASE j < k
      <3>1. j \in 1..(count - 1) /\ l[j] = m[j]
        BY <1>1, <2>3
      <3>2. QED
        BY <2>1, <3>1
    <2>4. CASE j > k
      <3>1. /\ j - 1 \in 1..(count - 1) /\ ~(j - 1 < k) /\ (j - 1) + 1 = j
        BY <1>1, <2>4
      <3>2. l[j - 1] = m[j]
        BY <3>1
      <3>3. QED
        BY <2>1, <3>1, <3>2
    <2>5. QED
      BY <1>1, <2>2, <2>3, <2>4
  <1>7. ASSUME NEW i \in 1..(count - 1), NEW j \in 1..(count - 1), l[i] = l[j] PROVE i = j
    <2>1. skip(i) = skip(j)
      BY <1>3, <1>4, <1>7
    <2>2. QED
      BY <1>1, <2>1
  <1>8. /\ c[m[k]].room_prev = IF k = 1 THEN None ELSE m[k - 1]
        /\ c[m[k]].room_next = IF k = count THEN None ELSE m[k + 1]
        /\ head = m[1]
    <2>1. \A i \in 1..count :
            /\ c[m[i]].room_prev = IF i = 1 THEN None ELSE m[i - 1]
            /\ c[m[i]].room_next = IF i = count THEN None ELSE m[i + 1]
      BY DEF IsList
    <2>2. head = IF count = 0 THEN None ELSE m[1]
      BY DEF IsList
    <2>3. count # 0
      BY <1>1
    <2>4. QED
      BY <2>1, <2>2, <2>3
  <1>9. \A i \in 1..count : m[i] \in DOMAIN c /\ m[i] # None
    BY <1>1
  <1>10. first = IF count - 1 = 0 THEN None ELSE l[1]
    <2>1. CASE k = 1
      <3>1. CASE count = 1
        BY <1>8, <2>1, <3>1
      <3>2. CASE count # 1
        <4>1. 1 \in 1..(count - 1) /\ l[1] = m[2] /\ count - 1 # 0
          BY <1>1, <2>1, <3>2
        <4>2. QED
          BY <1>8, <2>1, <3>2, <4>1
      <3>3. QED
        BY <3>1, <3>2
    <2>2. CASE k # 1
      <3>1. k - 1 \in 1..count /\ 1 \in 1..(count - 1) /\ count - 1 # 0 /\ l[1] = m[1]
        BY <1>1, <2>2
      <3>2. c[m[k]].room_prev # None
        BY <1>8, <1>9, <2>2, <3>1
      <3>3. QED
        BY <1>8, <3>1, <3>2
    <2>3. QED
      BY <2>1, <2>2
  <1>11. ASSUME NEW i \in 1..(count - 1)
         PROVE  d[l[i]].room_next = IF i = count - 1 THEN None ELSE l[i + 1]
    <2>1. /\ skip(i) \in 1..count /\ l[i] = m[skip(i)] /\ skip(i) # k
          /\ m[skip(i)] # m[k] /\ m[skip(i)] \in DOMAIN c
      BY <1>3, <1>4, <1>9
    <2>2. c[m[skip(i)]].room_next = IF skip(i) = count THEN None ELSE m[skip(i) + 1]
      BY <2>1 DEF IsList
    <2>3. CASE skip(i) = k - 1
      <3>1. /\ m[skip(i)] = c[m[k]].room_prev /\ i = k - 1 /\ i + 1 = k /\ i < k
            /\ ~(i + 1 < k) /\ k # 1
        BY <1>1, <1>8, <2>1, <2>3
      <3>2. d[l[i]].room_next = IF k = count THEN None ELSE m[k + 1]
        BY <1>0, <1>8, <2>1, <3>1
      <3>3. CASE i = count - 1
        <4>1. k = count
          BY <1>1, <3>1, <3>3
        <4>2. QED
          BY <3>2, <3>3, <4>1
      <3>4. CASE i # count - 1
        <4>1. /\ i + 1 \in 1..(count - 1) /\ k # count /\ (i + 1) + 1 = k + 1
          BY <1>1, <3>1, <3>4
        <4>2. l[i + 1] = m[k + 1]
          BY <3>1, <4>1
        <4>3. QED
          BY <3>2, <3>4, <4>1, <4>2
      <3>5. QED
        BY <3>3, <3>4
    <2>4. CASE skip(i) # k - 1
      <3>1. m[skip(i)] # c[m[k]].room_prev
        <4>1. CASE k = 1
          BY <1>8, <1>9, <2>1, <4>1
        <4>2. CASE k # 1
          <5>1. k - 1 \in 1..count
            BY <1>1, <4>2
          <5>2. QED
            BY <1>4, <1>8, <2>1, <2>4, <4>2, <5>1
        <4>3. QED
          BY <4>1, <4>2
      <3>2. d[l[i]].room_next = c[m[skip(i)]].room_next
        BY <1>0, <2>1, <3>1
      <3>3. CASE i = count - 1
        <4>1. skip(i) = count
          BY <1>1, <2>1, <2>4, <3>3
        <4>2. QED
          BY <2>2, <3>2, <3>3, <4>1
      <3>4. CASE i # count - 1
        <4>1. /\ i + 1 \in 1..(count - 1) /\ skip(i) # count
              /\ skip(i + 1) = skip(i) + 1
          BY <1>1, <2>1, <2>4, <3>4
        <4>2. l[i + 1] = m[skip(i) + 1]
          BY <1>3, <4>1
        <4>3. QED
          BY <2>2, <3>2, <3>4, <4>1, <4>2
      <3>5. QED
        BY <3>3, <3>4
    <2>5. QED
      BY <2>3, <2>4
  <1>12. ASSUME NEW i \in 1..(count - 1)
         PROVE  d[l[i]].room_prev = IF i = 1 THEN None ELSE l[i - 1]
    <2>1. /\ skip(i) \in 1..count /\ l[i] = m[skip(i)] /\ skip(i) # k
          /\ m[skip(i)] # m[k] /\ m[skip(i)] \in DOMAIN c
      BY <1>3, <1>4, <1>9
    <2>2. c[m[skip(i)]].room_prev = IF skip(i) = 1 THEN None ELSE m[skip(i) - 1]
      BY <2>1 DEF IsList
    <2>3. c[m[k]].room_prev = m[skip(i)] => skip(i) = k - 1
      <3>1. CASE k = 1
        BY <1>8, <1>9, <2>1, <3>1
      <3>2. CASE k # 1
        <4>1. k - 1 \in 1..count
          BY <1>1, <3>2
        <4>2. QED
          BY <1>4, <1>8, <2>1, <3>2, <4>1
      <3>3. QED
        BY <3>1, <3>2
    <2>4. CASE skip(i) = k + 1
      <3>1. /\ m[skip(i)] = c[m[k]].room_next /\ i = k /\ ~(i < k) /\ k # count
            /\ skip(i) # k - 1
        BY <1>1, <1>8, <2>1, <2>4
      <3>2. d[l[i]].room_prev = IF k = 1 THEN None ELSE m[k - 1]
        BY <1>0, <1>8, <2>1, <2>3, <3>1
      <3>3. CASE i = 1
        BY <3>1, <3>2, <3>3
      <3>4. CASE i # 1
        <4>1. i - 1 \in 1..(count - 1) /\ i - 1 < k
          BY <1>1, <3>1, <3>4
        <4>2. l[i - 1] = m[k - 1]
          BY <3>1, <4>1
        <4>3. QED
          BY <3>1, <3>2, <3>4, <4>2
      <3>5. QED
        BY <3>3, <3>4
    <2>5. CASE skip(i) # k + 1
      <3>1. m[skip(i)] # c[m[k]].room_next
        <4>1. CASE k = count
          BY <1>8, <1>9, <2>1, <4>1
        <4>2. CASE k # count
          <5>1. k + 1 \in 1..count
            BY <1>1, <4>2
          <5>2. QED
            BY <1>4, <1>8, <2>1, <2>5, <4>2, <5>1
        <4>3. QED
          BY <4>1, <4>2
      <3>2. d[l[i]].room_prev = c[m[skip(i)]].room_prev
        BY <1>0, <2>1, <3>1
      <3>3. CASE i = 1
        <4>1. skip(i) = 1
          BY <1>1, <2>1, <2>5, <3>3
        <4>2. QED
          BY <2>2, <3>2, <3>3, <4>1
      <3>4. CASE i # 1
        <4>1. /\ i - 1 \in 1..(count - 1) /\ skip(i) # 1
              /\ skip(i - 1) = skip(i) - 1
          BY <1>1, <2>1, <2>5, <3>4
        <4>2. l[i - 1] = m[skip(i) - 1]
          BY <1>3, <4>1
        <4>3. QED
          BY <2>2, <3>2, <3>4, <4>1, <4>2
      <3>5. QED
        BY <3>3, <3>4
    <2>6. QED
      BY <2>4, <2>5
  <1>13. count - 1 \in Nat
    BY <1>1
  <1> HIDE DEF l, first
  <1>14. IsList(d, idx, first, count - 1, l)
    BY <1>5, <1>6, <1>7, <1>10, <1>11, <1>12, <1>13 DEF IsList
  <1>15. QED
    BY <1>5, <1>14 DEF first, HasList

(* The connections d are c with fd in front of `head` in room idx. *)
Fronted(c, d, fd, idx, head) ==
    /\ DOMAIN d = DOMAIN c
    /\ d[fd].room = idx /\ d[fd].room_prev = None /\ d[fd].room_next = head
    /\ \A f \in DOMAIN c : f # fd =>
         /\ d[f].room = c[f].room /\ d[f].room_next = c[f].room_next
         /\ d[f].room_prev = IF f = head THEN fd ELSE c[f].room_prev

(* The list with a new member in front; the member that was there points   *)
(* back at it.                                                             *)
LEMMA ListWith ==
    ASSUME NEW c, NEW d, NEW idx, NEW head, NEW count, NEW m, NEW fd \in DOMAIN c,
           IsList(c, idx, head, count, m), None \notin DOMAIN c,
           c[fd].room # idx, Fronted(c, d, fd, idx, head)
    PROVE  HasList(d, idx, fd, count + 1)
  <1> DEFINE l == [i \in 1..(count + 1) |-> IF i = 1 THEN fd ELSE m[i - 1]]
  <1> USE DEF Fronted
  <1>1. /\ count \in Nat /\ m \in [1..count -> MembersOf(c, idx)]
        /\ MembersOf(c, idx) \subseteq DOMAIN c
    BY DEF IsList, MembersOf
  <1>2. MembersOf(d, idx) = MembersOf(c, idx) \cup {fd} /\ fd \notin MembersOf(c, idx)
    BY <1>1 DEF MembersOf
  <1>3. /\ \A i \in 1..count : i + 1 \in 1..(count + 1) /\ l[i + 1] = m[i] /\ m[i] # fd
        /\ 1 \in 1..(count + 1) /\ l[1] = fd
    BY <1>1, <1>2
  <1>4. \A i \in 1..(count + 1) : i = 1 \/ (i - 1 \in 1..count /\ (i - 1) + 1 = i)
    BY <1>1
  <1>5. l \in [1..(count + 1) -> MembersOf(d, idx)]
    <2>1. \A i \in 1..(count + 1) : l[i] \in MembersOf(d, idx)
      BY <1>1, <1>2, <1>3, <1>4
    <2>2. QED
      BY <2>1
  <1>6. \A f \in MembersOf(d, idx) : \E i \in 1..(count + 1) : l[i] = f
    <2>1. SUFFICES ASSUME NEW f \in MembersOf(d, idx), f # fd
                   PROVE  \E i \in 1..(count + 1) : l[i] = f
      BY <1>3
    <2>2. PICK i \in 1..count : m[i] = f
      BY <1>2, <2>1 DEF IsList
    <2>3. QED
      BY <1>3, <2>2
  <1>7. ASSUME NEW i \in 1..(count + 1), NEW j \in 1..(count + 1), l[i] = l[j] PROVE i = j
    <2>1. \A a, b \in 1..count : m[a] = m[b] => a = b
      BY DEF IsList
    <2>2. CASE i = 1 /\ j # 1
      BY <1>3, <1>4, <1>7, <2>2
    <2>3. CASE i # 1 /\ j = 1
      BY <1>3, <1>4, <1>7, <2>3
    <2>4. CASE i # 1 /\ j # 1
      <3>1. i - 1 \in 1..count /\ j - 1 \in 1..count /\ m[i - 1] = m[j - 1]
        BY <1>3, <1>4, <1>7, <2>4
      <3>2. QED
        BY <1>1, <2>1, <3>1
    <2>5. QED
      BY <2>2, <2>3, <2>4
  <1>8. /\ head = IF count = 0 THEN None ELSE m[1]
        /\ \A i \in 1..count :
            /\ c[m[i]].room_prev = IF i = 1 THEN None ELSE m[i - 1]
            /\ c[m[i]].room_next = IF i = count THEN None ELSE m[i + 1]
        /\ \A i, j \in 1..count : m[i] = m[j] => i = j
    BY DEF IsList
  <1>9. \A i \in 1..count : m[i] \in DOMAIN c /\ m[i] # fd /\ m[i] # None
    BY <1>1, <1>3
  <1>10. ASSUME NEW i \in 1..(count + 1)
         PROVE  d[l[i]].room_next = IF i = count + 1 THEN None ELSE l[i + 1]
    <2>1. CASE i = 1
      <3>1. CASE count = 0
        BY <1>3, <1>8, <2>1, <3>1
      <3>2. CASE count # 0
        <4>1. 1 \in 1..count /\ i # count + 1
          BY <1>1, <2>1, <3>2
        <4>2. l[1 + 1] = m[1]
          BY <1>3, <4>1
        <4>3. QED
          BY <1>3, <1>8, <2>1, <3>2, <4>1, <4>2
      <3>3. QED
        BY <3>1, <3>2
    <2>2. CASE i # 1
      <3>1. i - 1 \in 1..count /\ (i - 1) + 1 = i
        BY <1>4, <2>2
      <3>2. l[i] = m[i - 1]
        BY <2>2
      <3>3. d[l[i]].room_next = IF i - 1 = count THEN None ELSE m[(i - 1) + 1]
        BY <1>8, <1>9, <3>1, <3>2
      <3>4. CASE i = count + 1
        BY <1>1, <3>3, <3>4
      <3>5. CASE i # count + 1
        <4>1. i - 1 # count /\ i \in 1..count
          BY <1>1, <3>1, <3>5
        <4>2. l[i + 1] = m[i]
          BY <1>3, <4>1
        <4>3. QED
          BY <3>1, <3>3, <3>5, <4>1, <4>2
      <3>6. QED
        BY <3>4, <3>5
    <2>3. QED
      BY <2>1, <2>2
  <1>11. ASSUME NEW i \in 1..(count + 1)
         PROVE  d[l[i]].room_prev = IF i = 1 THEN None ELSE l[i - 1]
    <2>1. CASE i = 1
      BY <1>3, <2>1
    <2>2. CASE i # 1
      <3>1. i - 1 \in 1..count /\ l[i] = m[i - 1]
        BY <1>4, <2>2
      <3>2. m[i - 1] \in DOMAIN c /\ m[i - 1] # fd
        BY <1>9, <3>1
      <3>3. CASE i = 2
        <4>1. i - 1 = 1 /\ head = m[i - 1]
          BY <1>1, <1>8, <3>1, <3>3
        <4>2. QED
          BY <1>3, <2>2, <3>1, <3>2, <4>1
      <3>4. CASE i # 2
        <4>1. /\ i - 1 # 1 /\ count # 0 /\ 1 \in 1..count
              /\ (i - 1) - 1 \in 1..count /\ ((i - 1) - 1) + 1 = i - 1
          BY <1>1, <2>2, <3>1, <3>4
        <4>2. m[i - 1] # head
          BY <1>8, <3>1, <4>1
        <4>3. d[l[i]].room_prev = c[m[i - 1]].room_prev
          BY <3>1, <3>2, <4>2
        <4>4. c[m[i - 1]].room_prev = m[(i - 1) - 1]
          BY <1>8, <3>1, <4>1
        <4>5. l[i - 1] = m[(i - 1) - 1]
          BY <1>3, <4>1
        <4>6. QED
          BY <2>2, <4>3, <4>4, <4>5
      <3>5. QED
        BY <3>3, <3>4
    <2>3. QED
      BY <2>1, <2>2
  <1>12. count + 1 \in Nat /\ count + 1 # 0
    BY <1>1
  <1>13. fd = IF count + 1 = 0 THEN None ELSE l[1]
    BY <1>3, <1>12
  <1> HIDE DEF l
  <1>14. IsList(d, idx, fd, count + 1, l)
    BY <1>5, <1>6, <1>7, <1>10, <1>11, <1>12, <1>13 DEF IsList
  <1>15. QED
    BY <1>5, <1>14 DEF HasList

(* A list whose members and their links are left alone. *)
LEMMA ListKept ==
    ASSUME NEW c, NEW d, NEW r, NEW q, NEW idx, Listed(c, r, idx),
           q[idx].head = r[idx].head, q[idx].count = r[idx].count,
           MembersOf(d, idx) = MembersOf(c, idx),
           \A f \in MembersOf(c, idx) :
              d[f].room_prev = c[f].room_prev /\ d[f].room_next = c[f].room_next
    PROVE  Listed(d, q, idx)
  <1>1. PICK m \in [1..r[idx].count -> MembersOf(c, idx)] :
               IsList(c, idx, r[idx].head, r[idx].count, m)
    BY DEF Listed, HasList
  <1>2. IsList(d, idx, q[idx].head, q[idx].count, m)
    BY <1>1 DEF IsList
  <1>3. QED
    BY <1>1, <1>2 DEF Listed, HasList

-----------------------------------------------------------------------------
(* The free list. *)

(* A free list none of whose records was touched. *)
LEMMA FreeKept ==
    ASSUME NEW r, NEW q, NEW free, FreeListed(r, free),
           \A i \in Slots : q[i].live = r[i].live /\ q[i].next_free = r[i].next_free
    PROVE  FreeListed(q, free)
  <1>1. PICK n \in 0..g_slots : \E d \in [1..n -> Slots] : IsFreeList(r, free, n, d)
    BY DEF FreeListed
  <1>2. PICK d \in [1..n -> Slots] : IsFreeList(r, free, n, d)
    BY <1>1
  <1>3. \A i \in 1..n : d[i] \in Slots
    OBVIOUS
  <1>4. IsFreeList(q, free, n, d)
    BY <1>2, <1>3 DEF IsFreeList
  <1>5. QED
    BY <1>4 DEF FreeListed

(* A record pushed on the free list; what the other dead ones hold stays. *)
LEMMA FreePush ==
    ASSUME RoomsAssumption, NEW r, NEW q, NEW free, NEW idx \in Slots,
           FreeListed(r, free), r[idx].live, ~q[idx].live, q[idx].next_free = free,
           \A i \in Slots \ {idx} : q[i].live = r[i].live /\ q[i].next_free = r[i].next_free
    PROVE  FreeListed(q, idx)
  <1>0. PICK n \in 0..g_slots : \E d \in [1..n -> Slots] : IsFreeList(r, free, n, d)
    BY DEF FreeListed
  <1>1. PICK d \in [1..n -> Slots] : IsFreeList(r, free, n, d)
    BY <1>0
  <1> DEFINE e == [i \in 1..(n + 1) |-> IF i = 1 THEN idx ELSE d[i - 1]]
  <1>2. /\ n \in Nat /\ 1 \in 1..(n + 1) /\ e[1] = idx /\ n + 1 # 0
        /\ \A i \in 1..n : i + 1 \in 1..(n + 1) /\ e[i + 1] = d[i] /\ d[i] # idx
        /\ \A i \in 1..(n + 1) : i = 1 \/ (i - 1 \in 1..n /\ (i - 1) + 1 = i /\ e[i] = d[i - 1])
    <2>1. n \in Nat
      BY NotSlots
    <2>2. \A i \in 1..n : d[i] # idx
      BY <1>1 DEF IsFreeList
    <2>3. QED
      BY <2>1, <2>2
  <1>3. e \in [1..(n + 1) -> Slots]
    BY <1>2
  <1>4. \A i, j \in 1..(n + 1) : e[i] = e[j] => i = j
    <2>1. SUFFICES ASSUME NEW i \in 1..(n + 1), NEW j \in 1..(n + 1), e[i] = e[j]
                   PROVE  i = j
      OBVIOUS
    <2>2. CASE i = 1 \/ j = 1
      BY <1>2, <2>1, <2>2
    <2>3. CASE i # 1 /\ j # 1
      <3>1. i - 1 \in 1..n /\ j - 1 \in 1..n /\ d[i - 1] = d[j - 1]
        BY <1>2, <2>1, <2>3
      <3>2. i - 1 = j - 1
        BY <1>1, <3>1 DEF IsFreeList
      <3>3. QED
        BY <1>2, <3>2
    <2>4. QED
      BY <2>2, <2>3
  <1>5. n + 1 \in 0..g_slots
    <2> HIDE DEF e
    <2>1. IsFiniteSet(Slots) /\ Cardinality(Slots) = g_slots
      <3>1. Slots = 0..(g_slots - 1) /\ g_slots \in Nat
        BY NotSlots DEF Slots
      <3>2. QED
        BY <3>1, FS_Interval
    <2>2. IsInjective(e)
      BY <1>3, <1>4 DEF IsInjective
    <2>3. e \in Injection(1..(n + 1), Slots)
      BY <1>3, <1>4, <2>2 DEF Injection
    <2>4. Cardinality(1..(n + 1)) <= Cardinality(Slots) /\ Cardinality(1..(n + 1)) = n + 1
      BY <1>2, <2>1, <2>3, FS_Injection, FS_Interval
    <2>5. QED
      BY <1>2, <2>1, <2>4, NotSlots
  <1>6. IsFreeList(q, idx, n + 1, e)
    <2>1. \A i \in 1..(n + 1) : ~q[e[i]].live
      BY <1>1, <1>2, <1>3 DEF IsFreeList
    <2>2. \A x \in Slots : ~q[x].live => \E i \in 1..(n + 1) : e[i] = x
      <3>1. SUFFICES ASSUME NEW x \in Slots, ~q[x].live PROVE \E i \in 1..(n + 1) : e[i] = x
        OBVIOUS
      <3>2. CASE x = idx
        BY <1>2, <3>2
      <3>3. CASE x # idx
        <4>1. PICK i \in 1..n : d[i] = x
          BY <1>1, <3>1, <3>3 DEF IsFreeList
        <4>2. QED
          BY <1>2, <4>1
      <3>4. QED
        BY <3>2, <3>3
    <2>3. idx = IF n + 1 = 0 THEN k_no_room ELSE e[1]
      BY <1>2
    <2>4. \A i \in 1..(n + 1) :
            q[e[i]].next_free = IF i = n + 1 THEN k_no_room ELSE e[i + 1]
      <3>1. SUFFICES ASSUME NEW i \in 1..(n + 1)
                     PROVE  q[e[i]].next_free = IF i = n + 1 THEN k_no_room ELSE e[i + 1]
        OBVIOUS
      <3>2. CASE i = 1
        <4>1. q[e[i]].next_free = IF n = 0 THEN k_no_room ELSE d[1]
          BY <1>1, <1>2, <3>2 DEF IsFreeList
        <4>2. n # 0 => 1 \in 1..n
          BY <1>2
        <4>3. n # 0 => e[1 + 1] = d[1]
          BY <1>2, <4>2
        <4>4. i = n + 1 <=> n = 0
          BY <1>2, <3>2
        <4>5. QED
          BY <3>2, <4>1, <4>3, <4>4
      <3>3. CASE i # 1
        <4>1. i - 1 \in 1..n /\ (i - 1) + 1 = i /\ e[i] = d[i - 1] /\ e[i] # idx
          BY <1>2, <3>3
        <4>2. q[e[i]].next_free = IF i - 1 = n THEN k_no_room ELSE d[i]
          BY <1>1, <1>3, <4>1 DEF IsFreeList
        <4>3. i - 1 = n <=> i = n + 1
          BY <1>2
        <4>4. i # n + 1 => e[i + 1] = d[i]
          BY <1>2
        <4>5. QED
          BY <4>2, <4>3, <4>4
      <3>4. QED
        BY <3>2, <3>3
    <2>5. QED
      BY <1>4, <2>1, <2>2, <2>3, <2>4 DEF IsFreeList
  <1>7. QED
    BY <1>3, <1>5, <1>6 DEF FreeListed

(* A record taken off the free list. *)
LEMMA FreePop ==
    ASSUME RoomsAssumption, NEW r, NEW q, NEW free, free # k_no_room,
           FreeListed(r, free), q[free].live,
           \A i \in Slots \ {free} : q[i].live = r[i].live /\ q[i].next_free = r[i].next_free
    PROVE  /\ free \in Slots /\ ~r[free].live
           /\ FreeListed(q, r[free].next_free)
  <1>0. PICK n \in 0..g_slots : \E d \in [1..n -> Slots] : IsFreeList(r, free, n, d)
    BY DEF FreeListed
  <1>1. PICK d \in [1..n -> Slots] : IsFreeList(r, free, n, d)
    BY <1>0
  <1> DEFINE e == [i \in 1..(n - 1) |-> d[i + 1]]
  <1>2. n \in Nat /\ n # 0 /\ 1 \in 1..n /\ free = d[1]
    <2>1. n \in Nat
      BY NotSlots
    <2>2. free = IF n = 0 THEN k_no_room ELSE d[1]
      BY <1>1 DEF IsFreeList
    <2>3. QED
      BY <2>1, <2>2
  <1>3. /\ n - 1 \in 0..g_slots
        /\ \A i \in 1..(n - 1) : i + 1 \in 1..n /\ i + 1 # 1 /\ e[i] = d[i + 1]
        /\ \A i \in 1..n : i = 1 \/ (i - 1 \in 1..(n - 1) /\ (i - 1) + 1 = i)
    BY <1>2, NotSlots
  <1>4. e \in [1..(n - 1) -> Slots] /\ free \in Slots
    BY <1>2, <1>3
  <1>5. \A i, j \in 1..n : d[i] = d[j] => i = j
    BY <1>1 DEF IsFreeList
  <1>6. \A i \in 1..(n - 1) : e[i] # free /\ e[i] \in Slots
    BY <1>2, <1>3, <1>4, <1>5
  <1>7. r[free].next_free = IF n - 1 = 0 THEN k_no_room ELSE e[1]
    <2>1. r[free].next_free = IF 1 = n THEN k_no_room ELSE d[1 + 1]
      BY <1>1, <1>2 DEF IsFreeList
    <2>2. n # 1 => 1 \in 1..(n - 1)
      BY <1>2
    <2>3. n # 1 => e[1] = d[1 + 1]
      BY <1>3, <2>2
    <2>4. QED
      BY <1>2, <2>1, <2>3
  <1>8. \A i \in 1..(n - 1) :
          q[e[i]].next_free = IF i = n - 1 THEN k_no_room ELSE e[i + 1]
    <2>1. SUFFICES ASSUME NEW i \in 1..(n - 1)
                   PROVE  q[e[i]].next_free = IF i = n - 1 THEN k_no_room ELSE e[i + 1]
      OBVIOUS
    <2>2. q[e[i]].next_free = IF i + 1 = n THEN k_no_room ELSE d[(i + 1) + 1]
      BY <1>1, <1>3, <1>6 DEF IsFreeList
    <2>3. i # n - 1 => i + 1 \in 1..(n - 1)
      BY <1>2
    <2>4. i # n - 1 => e[i + 1] = d[(i + 1) + 1]
      BY <1>3, <2>3
    <2>5. i + 1 = n <=> i = n - 1
      BY <1>2
    <2>6. QED
      BY <2>2, <2>4, <2>5
  <1>9. \A x \in Slots : ~q[x].live => \E i \in 1..(n - 1) : e[i] = x
    <2>1. SUFFICES ASSUME NEW x \in Slots, ~q[x].live PROVE \E i \in 1..(n - 1) : e[i] = x
      OBVIOUS
    <2>2. x # free /\ ~r[x].live
      BY <2>1
    <2>3. PICK i \in 1..n : d[i] = x
      BY <1>1, <2>2 DEF IsFreeList
    <2>4. i - 1 \in 1..(n - 1) /\ (i - 1) + 1 = i
      BY <1>2, <1>3, <2>2, <2>3
    <2>5. e[i - 1] = x
      BY <2>3, <2>4
    <2>6. QED
      BY <2>4, <2>5
  <1>10. \A i, j \in 1..(n - 1) : e[i] = e[j] => i = j
    <2>1. SUFFICES ASSUME NEW i \in 1..(n - 1), NEW j \in 1..(n - 1), e[i] = e[j]
                   PROVE  i = j
      OBVIOUS
    <2>2. i + 1 = j + 1
      BY <1>3, <1>5, <2>1
    <2>3. QED
      BY <2>2
  <1>11. \A i \in 1..(n - 1) : ~q[e[i]].live
    BY <1>1, <1>3, <1>6 DEF IsFreeList
  <1>12. ~r[free].live
    BY <1>1, <1>2 DEF IsFreeList
  <1> HIDE DEF e
  <1>13. IsFreeList(q, r[free].next_free, n - 1, e)
    BY <1>7, <1>8, <1>9, <1>10, <1>11 DEF IsFreeList
  <1>14. QED
    BY <1>3, <1>4, <1>12, <1>13 DEF FreeListed

-----------------------------------------------------------------------------
(* What leaving and joining make of a server's state.                      *)

LinkFields == {"room", "room_prev", "room_next"}
IsLinks(x) == x = [y \in DOMAIN x |-> x[y]] /\ LinkFields \subseteq DOMAIN x
Rest(x) == [y \in DOMAIN x \ LinkFields |-> x[y]]

RoomFields == {"conns", "rooms", "free", "index"}
IsServer(s) ==
    /\ s = [x \in DOMAIN s |-> s[x]] /\ RoomFields \subseteq DOMAIN s
    /\ s.conns = [f \in DOMAIN s.conns |-> s.conns[f]]
    /\ \A f \in DOMAIN s.conns : IsLinks(s.conns[f])

(* t is s but for its rooms and the links of its connections. *)
Relinked(s, t) ==
    /\ IsServer(t) /\ DOMAIN t = DOMAIN s
    /\ \A x \in DOMAIN s \ RoomFields : t[x] = s[x]
    /\ DOMAIN t.conns = DOMAIN s.conns
    /\ \A f \in DOMAIN s.conns :
         DOMAIN t.conns[f] = DOMAIN s.conns[f] /\ Rest(t.conns[f]) = Rest(s.conns[f])

RoomsOf(s) == RoomsOK(s.conns, s.rooms, s.free, s.index)

LEMMA RelinkedTwice ==
    ASSUME NEW s, NEW t, NEW u, Relinked(s, t), Relinked(t, u)
    PROVE  Relinked(s, u)
  BY DEF Relinked

(* A link of a connection overwritten. *)
LEMMA NextSet ==
    ASSUME NEW x, IsLinks(x), NEW v, NEW y, y = [x EXCEPT !.room_next = v]
    PROVE  /\ IsLinks(y) /\ DOMAIN y = DOMAIN x /\ Rest(y) = Rest(x)
           /\ y.room = x.room /\ y.room_prev = x.room_prev /\ y.room_next = v
  BY DEF IsLinks, LinkFields, Rest

LEMMA PrevSet ==
    ASSUME NEW x, IsLinks(x), NEW v, NEW y, y = [x EXCEPT !.room_prev = v]
    PROVE  /\ IsLinks(y) /\ DOMAIN y = DOMAIN x /\ Rest(y) = Rest(x)
           /\ y.room = x.room /\ y.room_prev = v /\ y.room_next = x.room_next
  BY DEF IsLinks, LinkFields, Rest

LEMMA LinksSet ==
    ASSUME NEW x, IsLinks(x), NEW u, NEW v, NEW w, NEW y,
           y = [x EXCEPT !.room = u, !.room_prev = v, !.room_next = w]
    PROVE  /\ IsLinks(y) /\ DOMAIN y = DOMAIN x /\ Rest(y) = Rest(x)
           /\ y.room = u /\ y.room_prev = v /\ y.room_next = w
  BY DEF IsLinks, LinkFields, Rest

UnlinkLeaves(s, fd, c, t) ==
    /\ Relinked(s, t) /\ t.free = s.free /\ t.index = s.index
    /\ t.rooms = [s.rooms EXCEPT
          ![c.room].head = IF c.room_prev = None THEN c.room_next ELSE @,
          ![c.room].count = @ - 1]
    /\ t.conns[fd].room = k_no_room
    /\ t.conns[fd].room_prev = None /\ t.conns[fd].room_next = None
    /\ \A f \in DOMAIN s.conns \ {fd} : Unlinked(c, f, s.conns[f], t.conns[f])

LEMMA UnlinkFields ==
    ASSUME NEW s, IsServer(s), NEW fd \in DOMAIN s.conns, s.rooms \in [Slots -> room],
           NEW c, c = s.conns[fd], c.room \in Slots, None \notin DOMAIN s.conns,
           c.room_prev # fd, c.room_next # fd,
           c.room_prev = c.room_next => c.room_prev = None,
           NEW t, t = Unlink(s, fd)
    PROVE  UnlinkLeaves(s, fd, c, t)
  <1> DEFINE Records(x) == [s.rooms EXCEPT
                  ![x.room].head = IF x.room_prev = None THEN x.room_next ELSE @,
                  ![x.room].count = @ - 1]
             Shift(x, f) == CASE f = fd -> OutOfRoom(x)
                  [] f = x.room_prev -> [s.conns[f] EXCEPT !.room_next = x.room_next]
                  [] f = x.room_next -> [s.conns[f] EXCEPT !.room_prev = x.room_prev]
                  [] OTHER -> s.conns[f]
             Shifted(x) == [f \in DOMAIN s.conns |-> Shift(x, f)]
             Moved(f) == Shift(c, f)
             r == Records(c)
             d == Shifted(c)
  <1>1. /\ DOMAIN t = DOMAIN s /\ t = [x \in DOMAIN t |-> t[x]]
        /\ t.rooms = r /\ t.conns = d /\ \A x \in DOMAIN s \ {"rooms", "conns"} : t[x] = s[x]
    <2>1. Unlink(s, fd) = [s EXCEPT !.rooms = Records(s.conns[fd]),
                                    !.conns = Shifted(s.conns[fd])]
      BY DEF Unlink
    <2> HIDE DEF Records, Shifted
    <2>2. t = [s EXCEPT !.rooms = r, !.conns = d]
      BY <2>1
    <2>3. QED
      BY <2>2 DEF IsServer, RoomFields
  <1>2. t.free = s.free /\ t.index = s.index
    BY <1>1 DEF IsServer, RoomFields
  <1>3. ASSUME NEW f \in DOMAIN s.conns
        PROVE  /\ IsLinks(Moved(f)) /\ DOMAIN Moved(f) = DOMAIN s.conns[f]
               /\ Rest(Moved(f)) = Rest(s.conns[f])
               /\ f = fd => /\ Moved(f).room = k_no_room
                            /\ Moved(f).room_prev = None /\ Moved(f).room_next = None
               /\ f # fd => Unlinked(c, f, s.conns[f], Moved(f))
    <2>1. IsLinks(s.conns[f])
      BY DEF IsServer
    <2>2. CASE f = fd
      <3>1. Moved(f) = OutOfRoom(s.conns[f])
        BY <2>2
      <3> HIDE DEF Moved
      <3>2. Moved(f) = [s.conns[f] EXCEPT !.room = k_no_room, !.room_prev = None,
                                          !.room_next = None]
        BY <3>1 DEF OutOfRoom
      <3>3. QED
        BY <2>1, <2>2, <3>2 DEF IsLinks, LinkFields, Rest
    <2>3. CASE f # fd /\ f = c.room_prev
      <3>1. Moved(f) = [s.conns[f] EXCEPT !.room_next = c.room_next]
        BY <2>3
      <3> HIDE DEF Moved
      <3>2. QED
        BY <2>1, <2>3, <3>1, NextSet DEF Unlinked
    <2>4. CASE f # fd /\ f # c.room_prev /\ f = c.room_next
      <3>1. Moved(f) = [s.conns[f] EXCEPT !.room_prev = c.room_prev]
        BY <2>4
      <3> HIDE DEF Moved
      <3>2. QED
        BY <2>1, <2>4, <3>1, PrevSet DEF Unlinked
    <2>5. CASE f # fd /\ f # c.room_prev /\ f # c.room_next
      <3>1. Moved(f) = s.conns[f]
        BY <2>5
      <3> HIDE DEF Moved
      <3>2. QED
        BY <2>1, <2>5, <3>1 DEF Unlinked
    <2>6. QED
      BY <2>2, <2>3, <2>4, <2>5
  <1>4. \A f \in DOMAIN s.conns : d[f] = Moved(f)
    OBVIOUS
  <1> HIDE DEF Moved
  <1>5. Relinked(s, t)
    <2>1. \A f \in DOMAIN d : IsLinks(d[f])
      BY <1>3, <1>4
    <2>2. d = [f \in DOMAIN d |-> d[f]]
      OBVIOUS
    <2> HIDE DEF d
    <2>3. IsServer(t)
      <3>1. RoomFields \subseteq DOMAIN t
        BY <1>1 DEF IsServer
      <3>2. t = [x \in DOMAIN t |-> t[x]] /\ t.conns = d
        BY <1>1
      <3>3. QED
        BY ONLY <2>1, <2>2, <3>1, <3>2 DEF IsServer
    <2>4. DOMAIN d = DOMAIN s.conns
      BY DEF d
    <2>5. \A f \in DOMAIN s.conns :
            DOMAIN d[f] = DOMAIN s.conns[f] /\ Rest(d[f]) = Rest(s.conns[f])
      BY <1>3, <1>4
    <2>6. \A x \in DOMAIN s \ RoomFields : t[x] = s[x]
      <3>1. DOMAIN s \ RoomFields \subseteq DOMAIN s \ {"rooms", "conns"}
        BY ONLY TRUE DEF RoomFields
      <3>2. \A x \in DOMAIN s \ {"rooms", "conns"} : t[x] = s[x]
        BY <1>1
      <3>3. QED
        BY ONLY <3>1, <3>2
    <2>7. DOMAIN t = DOMAIN s /\ t.conns = d
      BY <1>1
    <2>8. QED
      BY <2>3, <2>4, <2>5, <2>6, <2>7 DEF Relinked
  <1>6. t.rooms = r /\ t.conns = d
    BY <1>1
  <1> HIDE DEF d
  <1>7. /\ t.conns[fd].room = k_no_room
        /\ t.conns[fd].room_prev = None /\ t.conns[fd].room_next = None
    <2>1. t.conns[fd] = Moved(fd)
      BY <1>4, <1>6
    <2>2. QED
      BY <1>3, <2>1
  <1>8. ASSUME NEW f \in DOMAIN s.conns \ {fd} PROVE Unlinked(c, f, s.conns[f], t.conns[f])
    <2>1. t.conns[f] = Moved(f) /\ f # fd
      BY <1>4, <1>6
    <2>2. Unlinked(c, f, s.conns[f], Moved(f))
      BY <1>3, <2>1
    <2>3. QED
      BY ONLY <2>1, <2>2
  <1>9. QED
    BY <1>2, <1>5, <1>6, <1>7, <1>8 DEF UnlinkLeaves

(* Where a connection in a room is on the list of that room. *)
LEMMA MemberLinks ==
    ASSUME NEW c, NEW idx, NEW head, NEW count, NEW m, IsList(c, idx, head, count, m),
           None \notin DOMAIN c, NEW k \in 1..count
    PROVE  /\ c[m[k]].room_prev # m[k] /\ c[m[k]].room_next # m[k]
           /\ c[m[k]].room_prev = c[m[k]].room_next => c[m[k]].room_prev = None
           /\ c[m[k]].room_prev # None => c[m[k]].room_prev \in MembersOf(c, idx)
           /\ c[m[k]].room_next # None => c[m[k]].room_next \in MembersOf(c, idx)
  <1>1. /\ count \in Nat /\ k \in Nat /\ m \in [1..count -> MembersOf(c, idx)]
        /\ MembersOf(c, idx) \subseteq DOMAIN c
        /\ \A i, j \in 1..count : m[i] = m[j] => i = j
    BY DEF IsList, MembersOf
  <1>2. /\ c[m[k]].room_prev = IF k = 1 THEN None ELSE m[k - 1]
        /\ c[m[k]].room_next = IF k = count THEN None ELSE m[k + 1]
    BY DEF IsList
  <1>3. /\ k # 1 => k - 1 \in 1..count /\ k - 1 # k
        /\ k # count => k + 1 \in 1..count /\ k + 1 # k
        /\ k - 1 # k + 1
    BY <1>1
  <1>4. \A i \in 1..count : m[i] \in MembersOf(c, idx) /\ m[i] # None
    BY <1>1
  <1>5. CASE k = 1
    BY <1>1, <1>2, <1>3, <1>4, <1>5
  <1>6. CASE k # 1
    BY <1>1, <1>2, <1>3, <1>4, <1>6
  <1>7. QED
    BY <1>5, <1>6

(* Unlinking keeps the rooms, one of them with a member less. *)
LEMMA UnlinkOK ==
    ASSUME RoomsAssumption, NEW s, IsServer(s), RoomsOf(s), NEW fd \in DOMAIN s.conns,
           s.conns[fd].room # k_no_room, NEW t, t = Unlink(s, fd)
    PROVE  /\ Relinked(s, t) /\ RoomsOf(t) /\ t.free = s.free /\ t.index = s.index
           /\ t.conns[fd].room = k_no_room
           /\ \A f \in DOMAIN s.conns \ {fd} : t.conns[f].room = s.conns[f].room
           /\ \A i \in Slots : /\ t.rooms[i].live = s.rooms[i].live
                               /\ t.rooms[i].name = s.rooms[i].name
                               /\ t.rooms[i].next_free = s.rooms[i].next_free
                               /\ i # s.conns[fd].room => t.rooms[i].count = s.rooms[i].count
  <1> DEFINE idx == s.conns[fd].room
             head == s.rooms[idx].head
             count == s.rooms[idx].count
  <1>1. /\ idx \in Slots /\ s.rooms[idx].live /\ Listed(s.conns, s.rooms, idx)
        /\ s.rooms \in [Slots -> room] /\ None \notin DOMAIN s.conns
        /\ DOMAIN s.conns \subseteq Fd
    BY NotSlots DEF RoomsOf, RoomsOK
  <1>2. PICK m \in [1..count -> MembersOf(s.conns, idx)] : IsList(s.conns, idx, head, count, m)
    BY <1>1 DEF Listed, HasList
  <1>3. fd \in MembersOf(s.conns, idx)
    BY DEF MembersOf
  <1>4. PICK k \in 1..count : m[k] = fd
    BY <1>2, <1>3 DEF IsList
  <1> DEFINE c == s.conns[fd]
  <1>5. /\ c.room_prev # fd /\ c.room_next # fd
        /\ c.room_prev = c.room_next => c.room_prev = None
        /\ c.room_prev # None => c.room_prev \in MembersOf(s.conns, idx)
        /\ c.room_next # None => c.room_next \in MembersOf(s.conns, idx)
    <2>1. /\ s.conns[m[k]].room_prev # m[k] /\ s.conns[m[k]].room_next # m[k]
          /\ s.conns[m[k]].room_prev = s.conns[m[k]].room_next => s.conns[m[k]].room_prev = None
          /\ s.conns[m[k]].room_prev # None => s.conns[m[k]].room_prev \in MembersOf(s.conns, idx)
          /\ s.conns[m[k]].room_next # None => s.conns[m[k]].room_next \in MembersOf(s.conns, idx)
      <3> HIDE DEF idx, head, count
      <3>1. QED
        BY ONLY <1>1, <1>2, <1>4, MemberLinks
    <2>2. QED
      BY <1>4, <2>1
  <1> HIDE DEF c, idx, head, count
  <1>6. c = s.conns[fd] /\ c.room = idx /\ idx \in Slots
    BY <1>1 DEF c, idx
  <1>7. /\ Relinked(s, t) /\ t.free = s.free /\ t.index = s.index
        /\ t.rooms = [s.rooms EXCEPT
              ![c.room].head = IF c.room_prev = None THEN c.room_next ELSE @,
              ![c.room].count = @ - 1]
        /\ t.conns[fd].room = k_no_room
        /\ t.conns[fd].room_prev = None /\ t.conns[fd].room_next = None
        /\ \A f \in DOMAIN s.conns \ {fd} : Unlinked(c, f, s.conns[f], t.conns[f])
    <2>1. UnlinkLeaves(s, fd, c, t)
      BY <1>1, <1>5, <1>6, UnlinkFields
    <2>2. QED
      BY <2>1 DEF UnlinkLeaves
  <1>8. /\ \A i \in Slots : /\ t.rooms[i].live = s.rooms[i].live
                            /\ t.rooms[i].name = s.rooms[i].name
                            /\ t.rooms[i].next_free = s.rooms[i].next_free
                            /\ i # idx => t.rooms[i] = s.rooms[i]
        /\ t.rooms[idx].head = IF c.room_prev = None THEN c.room_next ELSE head
        /\ t.rooms[idx].count = count - 1
    BY <1>1, <1>6, <1>7 DEF room, head, count
  <1>9. \A f \in DOMAIN s.conns \ {fd} : t.conns[f].room = s.conns[f].room
    BY <1>7 DEF Unlinked
  <1>10. count - 1 \in Nat
    BY <1>2, <1>4 DEF IsList
  <1>11. DOMAIN t.conns = DOMAIN s.conns
    BY <1>7 DEF Relinked
  <1>12. t.rooms \in [Slots -> room]
    <2>1. (IF c.room_prev = None THEN c.room_next ELSE head) \in Fd \cup {None}
      <3>1. /\ c.room_next \in Fd \cup {None} /\ head \in Fd \cup {None}
        BY <1>1, <1>6 DEF RoomsOf, RoomsOK, room, head
      <3>2. QED
        BY <3>1
    <2>2. count - 1 \in Nat /\ s.rooms[idx].count = count /\ s.rooms[idx].head = head
      BY <1>10 DEF head, count
    <2>3. \A i \in Slots \ {idx} : t.rooms[i] = s.rooms[i]
      BY <1>8
    <2> DEFINE h == IF c.room_prev = None THEN c.room_next ELSE head
    <2>4. t.rooms[idx] = [s.rooms[idx] EXCEPT !.head = h, !.count = count - 1]
      BY <1>1, <1>6, <1>7, <2>2 DEF room
    <2> HIDE DEF h
    <2>5. t.rooms[idx] \in room
      <3>1. s.rooms[idx] \in room /\ h \in Fd \cup {None}
        BY <1>1, <1>6, <2>1 DEF h
      <3>2. QED
        BY ONLY <2>2, <2>4, <3>1 DEF room
    <2>6. t.rooms = [i \in Slots |-> t.rooms[i]]
      BY <1>1, <1>7
    <2>7. \A i \in Slots : t.rooms[i] \in room
      BY <1>1, <2>3, <2>5
    <2>8. QED
      BY <2>6, <2>7
  <1>13. Listed(t.conns, t.rooms, idx)
    <2>1. t.conns[m[k]].room # idx
      BY <1>4, <1>6, <1>7, NotSlots
    <2>2. \A f \in DOMAIN s.conns \ {m[k]} :
             Unlinked(s.conns[m[k]], f, s.conns[f], t.conns[f])
      BY <1>4, <1>6, <1>7
    <2>3. HasList(t.conns, idx,
                  IF s.conns[m[k]].room_prev = None THEN s.conns[m[k]].room_next ELSE head,
                  count - 1)
      BY <1>1, <1>2, <1>11, <2>1, <2>2, ListWithout
    <2>4. QED
      BY <1>4, <1>6, <1>8, <2>3 DEF Listed
  <1>14. ASSUME NEW i \in Slots, i # idx, s.rooms[i].live PROVE Listed(t.conns, t.rooms, i)
    <2>1. Listed(s.conns, s.rooms, i)
      BY <1>14 DEF RoomsOf, RoomsOK
    <2>2. MembersOf(t.conns, i) = MembersOf(s.conns, i)
      BY <1>6, <1>7, <1>9, <1>11, <1>14, NotSlots DEF MembersOf
    <2>3. ASSUME NEW f \in MembersOf(s.conns, i)
          PROVE  /\ t.conns[f].room_prev = s.conns[f].room_prev
                 /\ t.conns[f].room_next = s.conns[f].room_next
      <3>1. f \in DOMAIN s.conns \ {fd} /\ f \notin MembersOf(s.conns, idx) /\ f # None
        BY <1>1, <1>6, <1>14 DEF MembersOf
      <3>2. f # c.room_prev /\ f # c.room_next
        BY <1>5, <3>1
      <3>3. QED
        BY <1>7, <3>1, <3>2 DEF Unlinked
    <2>4. QED
      BY <1>8, <1>14, <2>1, <2>2, <2>3, ListKept
  <1>15. FreeListed(t.rooms, t.free)
    <2>1. FreeListed(s.rooms, s.free)
      BY DEF RoomsOf, RoomsOK
    <2>2. \A i \in Slots : /\ t.rooms[i].live = s.rooms[i].live
                           /\ t.rooms[i].next_free = s.rooms[i].next_free
      BY <1>8
    <2>3. FreeListed(t.rooms, s.free)
      BY <2>1, <2>2, FreeKept
    <2>4. QED
      BY <1>7, <2>3
  <1>16. ASSUME NEW f \in DOMAIN t.conns
         PROVE  /\ t.conns[f].room_prev \in Fd \cup {None}
                /\ t.conns[f].room_next \in Fd \cup {None}
                /\ t.conns[f].room # k_no_room =>
                     t.conns[f].room \in Slots /\ t.rooms[t.conns[f].room].live
    <2>1. \A g \in DOMAIN s.conns :
            /\ s.conns[g].room_prev \in Fd \cup {None}
            /\ s.conns[g].room_next \in Fd \cup {None}
            /\ s.conns[g].room # k_no_room =>
                 s.conns[g].room \in Slots /\ s.rooms[s.conns[g].room].live
      BY DEF RoomsOf, RoomsOK
    <2>2. CASE f = fd
      BY <1>7, <2>2
    <2>3. CASE f # fd
      <3>1. f \in DOMAIN s.conns \ {fd} /\ fd \in DOMAIN s.conns
        BY <1>11, <2>3
      <3>2. Unlinked(c, f, s.conns[f], t.conns[f])
        BY <1>7, <3>1
      <3>3. c.room_prev \in Fd \cup {None} /\ c.room_next \in Fd \cup {None}
        BY <1>6, <2>1
      <3>4. QED
        BY <1>8, <2>1, <3>1, <3>2, <3>3 DEF Unlinked
    <2>4. QED
      BY <2>2, <2>3
  <1>17. \A i \in Slots : Node(t.rooms, i) = Node(s.rooms, i)
    BY <1>8 DEF Node
  <1>18. t.index = {Node(t.rooms, i) : i \in {j \in Slots : t.rooms[j].live}}
    <2>1. s.index = {Node(s.rooms, i) : i \in {j \in Slots : s.rooms[j].live}}
      BY DEF RoomsOf, RoomsOK
    <2>2. {j \in Slots : t.rooms[j].live} = {j \in Slots : s.rooms[j].live}
      BY <1>8
    <2>3. t.index = s.index
      BY <1>7
    <2>4. QED
      BY ONLY <1>17, <2>1, <2>2, <2>3
  <1>19. \A i \in Slots : t.rooms[i].live => t.rooms[i].name \in Name
    BY <1>8 DEF RoomsOf, RoomsOK
  <1>20. \A i, j \in Slots :
           t.rooms[i].live /\ t.rooms[j].live /\ CStr(t.rooms[i].name) = CStr(t.rooms[j].name)
             => i = j
    BY <1>8 DEF RoomsOf, RoomsOK
  <1>21. \A i \in Slots : t.rooms[i].live => Listed(t.conns, t.rooms, i)
    BY <1>8, <1>13, <1>14
  <1>22. RoomsOf(t)
    BY <1>1, <1>11, <1>12, <1>15, <1>16, <1>18, <1>19, <1>20, <1>21 DEF RoomsOf, RoomsOK
  <1>23. QED
    BY <1>7, <1>8, <1>9, <1>22 DEF idx

(* The records a name finds: the live ones with the same C string. *)
LEMMA FindIs ==
    ASSUME NEW c, NEW r, NEW free, NEW ix, RoomsOK(c, r, free, ix), NEW name
    PROVE  find(r, ix, name) =
             {Node(r, i) : i \in {j \in Slots : r[j].live /\ CStr(r[j].name) = CStr(name)}}
  <1> DEFINE there == {j \in Slots : r[j].live /\ CStr(r[j].name) = CStr(name)}
  <1>1. ix = {Node(r, i) : i \in {j \in Slots : r[j].live}}
    BY DEF RoomsOK
  <1>2. \A i \in Slots : Node(r, i).bucket = CStr(r[i].name) /\ Node(r, i).key = i
    BY DEF Node
  <1>3. ASSUME NEW n \in find(r, ix, name) PROVE \E i \in there : n = Node(r, i)
    <2>1. n \in ix /\ n.bucket = CStr(name)
      BY DEF find
    <2>2. PICK i \in {j \in Slots : r[j].live} : n = Node(r, i)
      BY <1>1, <2>1
    <2>3. QED
      BY <1>2, <2>1, <2>2
  <1>4. ASSUME NEW i \in there PROVE Node(r, i) \in find(r, ix, name)
    <2>1. i \in Slots /\ r[i].live /\ CStr(r[i].name) = CStr(name)
      OBVIOUS
    <2>2. Node(r, i) \in ix
      BY <1>1, <2>1
    <2>3. QED
      BY <1>2, <2>1, <2>2 DEF find
  <1> HIDE DEF there
  <1>5. find(r, ix, name) = {Node(r, i) : i \in there}
    BY <1>3, <1>4
  <1>6. QED
    BY <1>5 DEF there

(* A list without members. *)
LEMMA EmptyList ==
    ASSUME NEW c, NEW r, NEW idx, Listed(c, r, idx)
    PROVE  /\ r[idx].count \in Nat /\ (r[idx].count = 0 <=> MembersOf(c, idx) = {})
           /\ r[idx].count = 0 => r[idx].head = None
  <1>1. PICK m \in [1..r[idx].count -> MembersOf(c, idx)] :
           IsList(c, idx, r[idx].head, r[idx].count, m)
    BY DEF Listed, HasList
  <1>2. /\ r[idx].count \in Nat
        /\ r[idx].count = 0 => r[idx].head = None
        /\ \A f \in MembersOf(c, idx) : \E i \in 1..r[idx].count : m[i] = f
    BY <1>1 DEF IsList
  <1>3. r[idx].count # 0 => 1 \in 1..r[idx].count
    BY <1>2
  <1>4. QED
    BY <1>1, <1>2, <1>3

(* An empty room is released. *)
LEMMA ReleaseOK ==
    ASSUME RoomsAssumption, NEW s, IsServer(s), RoomsOf(s), NEW idx \in Slots,
           s.rooms[idx].live, s.rooms[idx].count = 0, NEW t, t = room_release(s, idx)
    PROVE  /\ Relinked(s, t) /\ RoomsOf(t) /\ t.conns = s.conns
           /\ ~t.rooms[idx].live /\ t.rooms[idx].name = s.rooms[idx].name
           /\ \A i \in Slots \ {idx} : t.rooms[i] = s.rooms[i]
  <1> DEFINE r == [s.rooms EXCEPT ![idx].live = FALSE, ![idx].head = None,
                                  ![idx].next_free = s.free]
             ix == s.index \ find(s.rooms, s.index, s.rooms[idx].name)
  <1>1. s.rooms \in [Slots -> room] /\ s.free \in Slots \cup {k_no_room}
    <2>1. s.rooms \in [Slots -> room] /\ FreeListed(s.rooms, s.free)
      BY DEF RoomsOf, RoomsOK
    <2>2. PICK n \in 0..g_slots : \E d \in [1..n -> Slots] : IsFreeList(s.rooms, s.free, n, d)
      BY <2>1 DEF FreeListed
    <2>3. PICK d \in [1..n -> Slots] : IsFreeList(s.rooms, s.free, n, d)
      BY <2>2
    <2>4. s.free = IF n = 0 THEN k_no_room ELSE d[1]
      BY <2>3 DEF IsFreeList
    <2>5. n # 0 => 1 \in 1..n
      BY NotSlots
    <2>6. QED
      BY <2>1, <2>4, <2>5
  <1>2. /\ t.rooms = r /\ t.free = idx /\ t.index = ix /\ t.conns = s.conns
        /\ DOMAIN t = DOMAIN s /\ t = [x \in DOMAIN t |-> t[x]]
        /\ \A x \in DOMAIN s \ RoomFields : t[x] = s[x]
    <2>1. t = [s EXCEPT !.index = ix, !.rooms = r, !.free = idx]
      BY DEF room_release
    <2> HIDE DEF r, ix
    <2>2. QED
      BY <2>1 DEF IsServer, RoomFields
  <1>3. Relinked(s, t)
    <2> HIDE DEF r, ix
    <2>1. IsServer(t)
      BY <1>2 DEF IsServer
    <2>2. QED
      BY <1>2, <2>1 DEF Relinked
  <1>4. /\ ~r[idx].live /\ r[idx].name = s.rooms[idx].name /\ r[idx].next_free = s.free
        /\ \A i \in Slots \ {idx} : r[i] = s.rooms[i]
    BY <1>1 DEF room
  <1>5. r \in [Slots -> room]
    <2>1. r[idx] = [s.rooms[idx] EXCEPT !.live = FALSE, !.head = None, !.next_free = s.free]
      BY <1>1 DEF room
    <2>2. r[idx] \in room
      <3> HIDE DEF r
      <3>1. s.rooms[idx] \in room
        BY <1>1
      <3>2. QED
        BY ONLY <1>1, <2>1, <3>1 DEF room
    <2>3. r = [i \in Slots |-> r[i]]
      BY <1>1
    <2>4. \A i \in Slots : r[i] \in room
      BY <1>1, <1>4, <2>2
    <2> HIDE DEF r
    <2>5. QED
      BY <2>3, <2>4
  <1> HIDE DEF r
  <1>6. FreeListed(r, idx)
    <2>1. FreeListed(s.rooms, s.free)
      BY DEF RoomsOf, RoomsOK
    <2>2. \A i \in Slots \ {idx} : /\ r[i].live = s.rooms[i].live
                                   /\ r[i].next_free = s.rooms[i].next_free
      BY <1>4
    <2>3. QED
      BY <1>4, <2>1, <2>2, FreePush
  <1>7. ix = {Node(r, i) : i \in {j \in Slots : r[j].live}}
    <2>1. {j \in Slots : s.rooms[j].live /\ CStr(s.rooms[j].name) = CStr(s.rooms[idx].name)}
             = {idx}
      BY DEF RoomsOf, RoomsOK
    <2>2. find(s.rooms, s.index, s.rooms[idx].name) = {Node(s.rooms, idx)}
      BY <2>1, FindIs DEF RoomsOf
    <2>3. s.index = {Node(s.rooms, i) : i \in {j \in Slots : s.rooms[j].live}}
      BY DEF RoomsOf, RoomsOK
    <2>4. \A i \in Slots : Node(s.rooms, i).key = i
      BY DEF Node
    <2>5. \A i \in Slots \ {idx} : Node(r, i) = Node(s.rooms, i)
      BY <1>4 DEF Node
    <2>6. {j \in Slots : r[j].live} = {j \in Slots : s.rooms[j].live} \ {idx}
      BY <1>4
    <2>7. QED
      BY <2>2, <2>3, <2>4, <2>5, <2>6
  <1>8. MembersOf(s.conns, idx) = {}
    <2>1. Listed(s.conns, s.rooms, idx)
      BY DEF RoomsOf, RoomsOK
    <2>2. QED
      BY <2>1, EmptyList
  <1>9. ASSUME NEW f \in DOMAIN s.conns
        PROVE  /\ s.conns[f].room_prev \in Fd \cup {None}
               /\ s.conns[f].room_next \in Fd \cup {None}
               /\ s.conns[f].room # k_no_room =>
                    s.conns[f].room \in Slots /\ r[s.conns[f].room].live
    <2>1. s.conns[f].room # idx
      BY <1>8 DEF MembersOf
    <2>2. QED
      BY <1>4, <2>1 DEF RoomsOf, RoomsOK
  <1>10. ASSUME NEW i \in Slots, r[i].live
         PROVE  r[i].name \in Name /\ Listed(s.conns, r, i)
    <2>1. i # idx /\ r[i] = s.rooms[i] /\ s.rooms[i].live
      BY <1>4, <1>10
    <2>2. s.rooms[i].name \in Name /\ Listed(s.conns, s.rooms, i)
      BY <2>1 DEF RoomsOf, RoomsOK
    <2>3. QED
      BY <2>1, <2>2 DEF Listed
  <1>11. \A i, j \in Slots :
           r[i].live /\ r[j].live /\ CStr(r[i].name) = CStr(r[j].name) => i = j
    BY <1>4 DEF RoomsOf, RoomsOK
  <1>12. DOMAIN s.conns \subseteq Fd
    BY DEF RoomsOf, RoomsOK
  <1> HIDE DEF ix
  <1>13. RoomsOK(s.conns, r, idx, ix)
    BY <1>5, <1>6, <1>7, <1>9, <1>10, <1>11, <1>12 DEF RoomsOK
  <1>14. QED
    BY <1>2, <1>3, <1>4, <1>13 DEF RoomsOf

(* Leaving: the connection is in no room, the other members stay, and a    *)
(* room is released if nobody is left.                                     *)
LEMMA LeaveOK ==
    ASSUME RoomsAssumption, NEW s, IsServer(s), RoomsOf(s), Occupied(s.rooms),
           NEW fd \in DOMAIN s.conns, NEW t, t = leave_room(s, fd)
    PROVE  /\ Relinked(s, t) /\ RoomsOf(t) /\ Occupied(t.rooms)
           /\ t.conns[fd].room = k_no_room
           /\ \A f \in DOMAIN s.conns \ {fd} : t.conns[f].room = s.conns[f].room
           /\ \A i \in Slots : /\ t.rooms[i].name = s.rooms[i].name
                               /\ t.rooms[i].live => s.rooms[i].live
  <1>1. CASE s.conns[fd].room = k_no_room
    <2>1. t = s
      BY <1>1 DEF leave_room
    <2>2. QED
      BY <1>1, <2>1 DEF Relinked
  <1>2. CASE s.conns[fd].room # k_no_room
    <2> DEFINE idx == s.conns[fd].room
               u == Unlink(s, fd)
    <2>1. idx \in Slots /\ s.rooms[idx].live
      BY <1>2 DEF RoomsOf, RoomsOK
    <2>2. /\ Relinked(s, u) /\ RoomsOf(u)
          /\ u.conns[fd].room = k_no_room
          /\ \A f \in DOMAIN s.conns \ {fd} : u.conns[f].room = s.conns[f].room
          /\ \A i \in Slots : /\ u.rooms[i].live = s.rooms[i].live
                              /\ u.rooms[i].name = s.rooms[i].name
                              /\ i # idx => u.rooms[i].count = s.rooms[i].count
      BY <1>2, UnlinkOK
    <2>3. t = IF u.rooms[idx].count = 0 THEN room_release(u, idx) ELSE u
      BY <1>2 DEF leave_room
    <2> HIDE DEF u, idx
    <2>4. u.rooms[idx].live /\ u.rooms[idx].count \in Nat
      <3>1. u.rooms[idx].live
        BY <2>1, <2>2
      <3>2. Listed(u.conns, u.rooms, idx)
        BY <2>1, <2>2, <3>1 DEF RoomsOf, RoomsOK
      <3>3. QED
        BY <3>1, <3>2, EmptyList
    <2>5. CASE u.rooms[idx].count = 0
      <3>1. IsServer(u) /\ t = room_release(u, idx)
        BY <2>2, <2>3, <2>5 DEF Relinked
      <3>2. /\ Relinked(u, t) /\ RoomsOf(t) /\ t.conns = u.conns
            /\ ~t.rooms[idx].live /\ t.rooms[idx].name = u.rooms[idx].name
            /\ \A i \in Slots \ {idx} : t.rooms[i] = u.rooms[i]
        BY <2>1, <2>2, <2>4, <2>5, <3>1, ReleaseOK
      <3>3. Relinked(s, t)
        BY <2>2, <3>2, RelinkedTwice
      <3>4. Occupied(t.rooms)
        <4>1. ASSUME NEW i \in Slots, t.rooms[i].live PROVE t.rooms[i].count > 0
          <5>1. i # idx
            BY <3>2, <4>1
          <5>2. t.rooms[i] = u.rooms[i]
            BY <3>2, <5>1
          <5>3. s.rooms[i].live /\ t.rooms[i].count = s.rooms[i].count
            BY <2>2, <4>1, <5>1, <5>2
          <5>4. QED
            BY <5>3 DEF Occupied
        <4>2. QED
          BY <4>1 DEF Occupied
      <3>5. \A i \in Slots : /\ t.rooms[i].name = s.rooms[i].name
                             /\ t.rooms[i].live => s.rooms[i].live
        BY <2>2, <3>2
      <3>6. QED
        BY <2>2, <3>2, <3>3, <3>4, <3>5
    <2>6. CASE u.rooms[idx].count # 0
      <3>1. t = u
        BY <2>3, <2>6
      <3>2. Occupied(u.rooms)
        BY <2>2, <2>4, <2>6 DEF Occupied
      <3>3. QED
        BY <2>2, <3>1, <3>2
    <2>7. QED
      BY <2>5, <2>6
  <1>3. QED
    BY <1>1, <1>2

(* A dead record has no members. *)
LEMMA DeadIsEmpty ==
    ASSUME RoomsAssumption, NEW c, NEW r, NEW free, NEW ix, RoomsOK(c, r, free, ix),
           NEW idx \in Slots, ~r[idx].live
    PROVE  MembersOf(c, idx) = {}
  BY NotSlots DEF RoomsOK, MembersOf

(* Opening a room with a name no live room has. *)
LEMMA NewRoomOK ==
    ASSUME RoomsAssumption, NEW s, IsServer(s), RoomsOf(s), NEW name \in Name,
           find(s.rooms, s.index, name) = {}, s.free # k_no_room,
           NEW t, t = NewRoom(s, name)
    PROVE  /\ s.free \in Slots /\ ~s.rooms[s.free].live
           /\ Relinked(s, t) /\ RoomsOf(t) /\ t.conns = s.conns
           /\ t.rooms[s.free].live /\ t.rooms[s.free].name = name
           /\ \A i \in Slots \ {s.free} : t.rooms[i] = s.rooms[i]
  <1> DEFINE idx == s.free
             record == [name |-> name, head |-> None, count |-> 0,
                        next_free |-> s.rooms[idx].next_free, live |-> TRUE]
             r == [s.rooms EXCEPT ![idx] = record]
             node == [bucket |-> CStr(name), key |-> idx, value |-> idx]
             next == s.rooms[idx].next_free
  <1>1. s.rooms \in [Slots -> room] /\ FreeListed(s.rooms, s.free)
    BY DEF RoomsOf, RoomsOK
  <1>2. /\ t.rooms = r /\ t.free = next /\ t.index = s.index \cup {node}
        /\ t.conns = s.conns
        /\ DOMAIN t = DOMAIN s /\ t = [x \in DOMAIN t |-> t[x]]
        /\ \A x \in DOMAIN s \ RoomFields : t[x] = s[x]
    <2>1. t = [s EXCEPT !.free = next, !.rooms = r, !.index = s.index \cup {node}]
      BY DEF NewRoom
    <2> HIDE DEF r, node, next
    <2>2. QED
      BY <2>1 DEF IsServer, RoomFields
  <1>3. Relinked(s, t)
    <2> HIDE DEF r, node, next
    <2>1. IsServer(t)
      BY <1>2 DEF IsServer
    <2>2. QED
      BY <1>2, <2>1 DEF Relinked
  <1>4. idx \in Slots /\ ~s.rooms[idx].live
    <2>1. PICK n \in 0..g_slots : \E d \in [1..n -> Slots] : IsFreeList(s.rooms, s.free, n, d)
      BY <1>1 DEF FreeListed
    <2>2. PICK d \in [1..n -> Slots] : IsFreeList(s.rooms, s.free, n, d)
      BY <2>1
    <2>3. s.free = IF n = 0 THEN k_no_room ELSE d[1]
      BY <2>2 DEF IsFreeList
    <2>4. 1 \in 1..n
      BY <2>3, NotSlots
    <2>5. QED
      BY <2>2, <2>3, <2>4 DEF IsFreeList
  <1>5. r[idx] = record /\ \A i \in Slots \ {idx} : r[i] = s.rooms[i]
    BY <1>1, <1>4
  <1>6. record \in room
    <2>1. next \in Slots \cup {k_no_room}
      BY <1>1, <1>4 DEF room
    <2> HIDE DEF next
    <2>2. record = [name |-> name, head |-> None, count |-> 0, next_free |-> next, live |-> TRUE]
      BY DEF next
    <2> HIDE DEF record
    <2>3. QED
      BY <2>1, <2>2 DEF room
  <1>7. r \in [Slots -> room]
    BY <1>1, <1>4, <1>6
  <1>8. /\ r[idx].live /\ r[idx].name = name /\ r[idx].head = None /\ r[idx].count = 0
    BY <1>5
  <1> HIDE DEF r, record
  <1>9. FreeListed(r, next)
    BY <1>1, <1>5, <1>8, FreePop
  <1>10. \A i \in Slots : s.rooms[i].live => CStr(s.rooms[i].name) # CStr(name)
    <2>1. \A i \in {j \in Slots : s.rooms[j].live /\ CStr(s.rooms[j].name) = CStr(name)} :
            Node(s.rooms, i) \in find(s.rooms, s.index, name)
      <3>1. RoomsOK(s.conns, s.rooms, s.free, s.index)
        BY DEF RoomsOf
      <3>2. QED
        BY ONLY <3>1, FindIs
    <2>2. QED
      BY <2>1
  <1>11. s.index \cup {node} = {Node(r, i) : i \in {j \in Slots : r[j].live}}
    <2>1. s.index = {Node(s.rooms, i) : i \in {j \in Slots : s.rooms[j].live}}
      BY DEF RoomsOf, RoomsOK
    <2>2. node = Node(r, idx)
      BY <1>8 DEF Node
    <2>3. \A i \in Slots \ {idx} : Node(r, i) = Node(s.rooms, i)
      BY <1>5 DEF Node
    <2>4. {j \in Slots : r[j].live} = {j \in Slots : s.rooms[j].live} \cup {idx}
      BY <1>4, <1>5, <1>8
    <2> HIDE DEF node
    <2>5. QED
      BY <1>4, <2>1, <2>2, <2>3, <2>4
  <1>12. MembersOf(s.conns, idx) = {}
    BY <1>4, DeadIsEmpty DEF RoomsOf
  <1>13. Listed(s.conns, r, idx)
    <2>1. [i \in 1..0 |-> None] \in [1..0 -> MembersOf(s.conns, idx)]
      OBVIOUS
    <2>2. IsList(s.conns, idx, None, 0, [i \in 1..0 |-> None])
      BY <1>12, <2>1 DEF IsList
    <2>3. QED
      BY <1>8, <2>1, <2>2 DEF Listed, HasList
  <1>14. ASSUME NEW i \in Slots, r[i].live
         PROVE  r[i].name \in Name /\ Listed(s.conns, r, i)
    <2>1. CASE i = idx
      BY <1>8, <1>13, <2>1
    <2>2. CASE i # idx
      <3>1. r[i] = s.rooms[i] /\ s.rooms[i].live
        BY <1>5, <1>14, <2>2
      <3>2. s.rooms[i].name \in Name /\ Listed(s.conns, s.rooms, i)
        BY <3>1 DEF RoomsOf, RoomsOK
      <3>3. QED
        BY <3>1, <3>2 DEF Listed
    <2>3. QED
      BY <2>1, <2>2
  <1>15. ASSUME NEW i \in Slots, NEW j \in Slots, r[i].live, r[j].live,
                CStr(r[i].name) = CStr(r[j].name)
         PROVE  i = j
    <2>1. CASE i = idx /\ j # idx
      BY <1>5, <1>8, <1>10, <1>15, <2>1
    <2>2. CASE i # idx /\ j = idx
      BY <1>5, <1>8, <1>10, <1>15, <2>2
    <2>3. CASE i # idx /\ j # idx
      <3>1. r[i] = s.rooms[i] /\ r[j] = s.rooms[j]
        BY <1>5, <2>3
      <3>2. QED
        BY <1>15, <3>1 DEF RoomsOf, RoomsOK
    <2>4. QED
      BY <2>1, <2>2, <2>3
  <1>16. ASSUME NEW f \in DOMAIN s.conns
         PROVE  /\ s.conns[f].room_prev \in Fd \cup {None}
                /\ s.conns[f].room_next \in Fd \cup {None}
                /\ s.conns[f].room # k_no_room =>
                     s.conns[f].room \in Slots /\ r[s.conns[f].room].live
    BY <1>5, <1>8 DEF RoomsOf, RoomsOK
  <1>17. DOMAIN s.conns \subseteq Fd
    BY DEF RoomsOf, RoomsOK
  <1> HIDE DEF node, next
  <1>18. RoomsOK(s.conns, r, next, s.index \cup {node})
    BY <1>7, <1>9, <1>11, <1>14, <1>15, <1>16, <1>17 DEF RoomsOK
  <1>19. QED
    BY <1>2, <1>3, <1>4, <1>5, <1>8, <1>18 DEF RoomsOf

(* Entering a room that is live. *)
LEMMA JoinOK ==
    ASSUME RoomsAssumption, NEW s, IsServer(s), RoomsOf(s), NEW fd \in DOMAIN s.conns,
           s.conns[fd].room = k_no_room, NEW idx \in Slots, s.rooms[idx].live,
           NEW t, t = join_room(s, fd, idx)
    PROVE  /\ Relinked(s, t) /\ RoomsOf(t) /\ t.conns[fd].room = idx
           /\ \A f \in DOMAIN s.conns \ {fd} : t.conns[f].room = s.conns[f].room
           /\ \A i \in Slots : /\ t.rooms[i].live = s.rooms[i].live
                               /\ t.rooms[i].name = s.rooms[i].name
                               /\ i # idx => t.rooms[i].count = s.rooms[i].count
           /\ t.rooms[idx].count > 0
  <1> DEFINE head == s.rooms[idx].head
             count == s.rooms[idx].count
             r == [s.rooms EXCEPT ![idx].head = fd, ![idx].count = @ + 1]
             Moved(f) == CASE f = fd -> [s.conns[f] EXCEPT !.room = idx, !.room_prev = None,
                                                           !.room_next = head]
                           [] f = head -> [s.conns[f] EXCEPT !.room_prev = fd]
                           [] OTHER -> s.conns[f]
             d == [f \in DOMAIN s.conns |-> Moved(f)]
  <1>1. /\ s.rooms \in [Slots -> room] /\ Listed(s.conns, s.rooms, idx)
        /\ DOMAIN s.conns \subseteq Fd /\ None \notin DOMAIN s.conns
    BY NotSlots DEF RoomsOf, RoomsOK
  <1>2. PICK m \in [1..count -> MembersOf(s.conns, idx)] : IsList(s.conns, idx, head, count, m)
    BY <1>1 DEF Listed, HasList
  <1>3. /\ count \in Nat /\ s.conns[fd].room # idx
        /\ head = None \/ head \in MembersOf(s.conns, idx)
    <2>1. count \in Nat /\ head = IF count = 0 THEN None ELSE m[1]
      BY <1>2 DEF IsList
    <2>2. QED
      BY <2>1, NotSlots
  <1>4. head # fd /\ head \in Fd \cup {None}
    BY <1>1, <1>3 DEF MembersOf
  <1>5. /\ DOMAIN t = DOMAIN s /\ t = [x \in DOMAIN t |-> t[x]]
        /\ t.rooms = r /\ t.conns = d /\ \A x \in DOMAIN s \ {"rooms", "conns"} : t[x] = s[x]
    <2>1. join_room(s, fd, idx) = [s EXCEPT !.rooms = r, !.conns = d]
      BY DEF join_room
    <2> HIDE DEF r, d
    <2>2. t = [s EXCEPT !.rooms = r, !.conns = d]
      BY <2>1
    <2>3. QED
      BY <2>2 DEF IsServer, RoomFields
  <1>6. t.free = s.free /\ t.index = s.index
    BY <1>5 DEF IsServer, RoomFields
  <1>7. /\ \A i \in Slots \ {idx} : r[i] = s.rooms[i]
        /\ r[idx] = [s.rooms[idx] EXCEPT !.head = fd, !.count = count + 1]
        /\ r = [i \in Slots |-> r[i]]
    BY <1>1 DEF room
  <1> HIDE DEF r
  <1>8. /\ s.rooms[idx] \in room /\ r[idx] \in room /\ r[idx].head = fd
        /\ r[idx].count = count + 1 /\ r[idx].live = s.rooms[idx].live
        /\ r[idx].name = s.rooms[idx].name /\ r[idx].next_free = s.rooms[idx].next_free
    <2>1. s.rooms[idx] \in room /\ fd \in Fd \cup {None} /\ count + 1 \in Nat
      BY <1>1, <1>3
    <2> HIDE DEF count
    <2>2. QED
      BY ONLY <1>7, <2>1 DEF room
  <1>9. r \in [Slots -> room]
    BY <1>1, <1>7, <1>8
  <1>10. ASSUME NEW f \in DOMAIN s.conns
         PROVE  /\ IsLinks(Moved(f)) /\ DOMAIN Moved(f) = DOMAIN s.conns[f]
                /\ Rest(Moved(f)) = Rest(s.conns[f])
                /\ f = fd => /\ Moved(f).room = idx /\ Moved(f).room_prev = None
                             /\ Moved(f).room_next = head
                /\ f # fd => /\ Moved(f).room = s.conns[f].room
                             /\ Moved(f).room_next = s.conns[f].room_next
                             /\ Moved(f).room_prev = IF f = head THEN fd
                                                     ELSE s.conns[f].room_prev
    <2>1. IsLinks(s.conns[f])
      BY DEF IsServer
    <2>2. CASE f = fd
      <3>1. Moved(f) = [s.conns[f] EXCEPT !.room = idx, !.room_prev = None, !.room_next = head]
        BY <1>4, <2>2
      <3> HIDE DEF Moved, head
      <3>2. QED
        BY <2>1, <2>2, <3>1 DEF IsLinks, LinkFields, Rest
    <2>3. CASE f # fd /\ f = head
      <3>1. Moved(f) = [s.conns[f] EXCEPT !.room_prev = fd]
        BY <1>4, <2>3
      <3> HIDE DEF Moved, head
      <3>2. QED
        BY <2>1, <2>3, <3>1 DEF IsLinks, LinkFields, Rest
    <2>4. CASE f # fd /\ f # head
      <3>1. Moved(f) = s.conns[f]
        BY <2>4
      <3> HIDE DEF Moved, head
      <3>2. QED
        BY <2>1, <2>4, <3>1
    <2>5. QED
      BY <2>2, <2>3, <2>4
  <1>11. \A f \in DOMAIN s.conns : d[f] = Moved(f)
    OBVIOUS
  <1> HIDE DEF Moved
  <1>12. DOMAIN d = DOMAIN s.conns /\ d = [f \in DOMAIN d |-> d[f]]
    OBVIOUS
  <1> HIDE DEF d
  <1>13. Relinked(s, t)
    <2>1. \A f \in DOMAIN d : IsLinks(d[f])
      BY <1>10, <1>11, <1>12
    <2>2. IsServer(t)
      BY <1>5, <1>12, <2>1 DEF IsServer
    <2>3. \A f \in DOMAIN s.conns :
            DOMAIN d[f] = DOMAIN s.conns[f] /\ Rest(d[f]) = Rest(s.conns[f])
      BY <1>10, <1>11
    <2>4. \A x \in DOMAIN s \ RoomFields : t[x] = s[x]
      BY <1>5 DEF RoomFields
    <2>5. QED
      BY <1>5, <1>12, <2>2, <2>3, <2>4 DEF Relinked
  <1>14. /\ d[fd].room = idx /\ d[fd].room_prev = None /\ d[fd].room_next = head
         /\ \A f \in DOMAIN s.conns : f # fd =>
              /\ d[f].room = s.conns[f].room /\ d[f].room_next = s.conns[f].room_next
              /\ d[f].room_prev = IF f = head THEN fd ELSE s.conns[f].room_prev
    <2>1. d[fd] = Moved(fd)
      BY <1>11
    <2>2. QED
      BY <1>10, <1>11, <2>1
  <1>15. Listed(d, r, idx)
    <2> HIDE DEF head, count
    <2>1. HasList(d, idx, fd, count + 1)
      <3>1. Fronted(s.conns, d, fd, idx, head)
        BY <1>12, <1>14 DEF Fronted
      <3>2. QED
        BY <1>1, <1>2, <1>3, <3>1, ListWith
    <2>2. QED
      BY <1>8, <2>1 DEF Listed
  <1>16. ASSUME NEW i \in Slots, i # idx, r[i].live
         PROVE  Listed(d, r, i)
    <2>1. Listed(s.conns, s.rooms, i)
      BY <1>7, <1>16 DEF RoomsOf, RoomsOK
    <2>2. MembersOf(d, i) = MembersOf(s.conns, i)
      BY <1>12, <1>14, <1>16, NotSlots DEF MembersOf
    <2>3. ASSUME NEW f \in MembersOf(s.conns, i)
          PROVE  /\ d[f].room_prev = s.conns[f].room_prev
                 /\ d[f].room_next = s.conns[f].room_next
      <3>1. f \in DOMAIN s.conns /\ f # fd /\ f \notin MembersOf(s.conns, idx) /\ f # None
        BY <1>1, <1>16, NotSlots DEF MembersOf
      <3>2. f # head
        BY <1>3, <3>1
      <3>3. QED
        BY <1>14, <3>1, <3>2
    <2>4. r[i].head = s.rooms[i].head /\ r[i].count = s.rooms[i].count
      BY <1>7, <1>16
    <2>5. QED
      BY <2>1, <2>2, <2>3, <2>4, ListKept
  <1>17. /\ \A i \in Slots : /\ r[i].live = s.rooms[i].live /\ r[i].name = s.rooms[i].name
                             /\ r[i].next_free = s.rooms[i].next_free
                             /\ i # idx => r[i].count = s.rooms[i].count
    BY <1>7, <1>8
  <1>18. FreeListed(r, s.free)
    <2>1. FreeListed(s.rooms, s.free)
      BY DEF RoomsOf, RoomsOK
    <2>2. QED
      BY <1>17, <2>1, FreeKept
  <1>19. ASSUME NEW f \in DOMAIN d
         PROVE  /\ d[f].room_prev \in Fd \cup {None} /\ d[f].room_next \in Fd \cup {None}
                /\ d[f].room # k_no_room => d[f].room \in Slots /\ r[d[f].room].live
    <2>1. /\ s.conns[f].room_prev \in Fd \cup {None}
          /\ s.conns[f].room_next \in Fd \cup {None}
          /\ s.conns[f].room # k_no_room =>
               s.conns[f].room \in Slots /\ s.rooms[s.conns[f].room].live
      BY <1>12 DEF RoomsOf, RoomsOK
    <2>2. CASE f = fd
      BY <1>4, <1>14, <1>17, <2>2
    <2>3. CASE f # fd
      BY <1>1, <1>12, <1>14, <1>17, <2>1, <2>3
    <2>4. QED
      BY <2>2, <2>3
  <1>20. s.index = {Node(r, i) : i \in {j \in Slots : r[j].live}}
    <2>1. s.index = {Node(s.rooms, i) : i \in {j \in Slots : s.rooms[j].live}}
      BY DEF RoomsOf, RoomsOK
    <2>2. {j \in Slots : r[j].live} = {j \in Slots : s.rooms[j].live}
      BY <1>17
    <2>3. \A i \in Slots : Node(r, i) = Node(s.rooms, i)
      BY <1>17 DEF Node
    <2>4. QED
      BY <2>1, <2>2, <2>3
  <1>21. \A i \in Slots : r[i].live => r[i].name \in Name /\ Listed(d, r, i)
    BY <1>15, <1>16, <1>17 DEF RoomsOf, RoomsOK
  <1>22. \A i, j \in Slots :
           r[i].live /\ r[j].live /\ CStr(r[i].name) = CStr(r[j].name) => i = j
    BY <1>17 DEF RoomsOf, RoomsOK
  <1>23. RoomsOK(d, r, s.free, s.index)
    BY <1>1, <1>9, <1>12, <1>18, <1>19, <1>20, <1>21, <1>22 DEF RoomsOK
  <1>24. r[idx].count > 0
    BY <1>3, <1>8
  <1>25. QED
    BY <1>5, <1>6, <1>13, <1>14, <1>17, <1>23, <1>24 DEF RoomsOf

-----------------------------------------------------------------------------
(* What a broadcast meets. *)

(* One list of members is no longer than the descriptors. *)
LEMMA ListIsShort ==
    ASSUME RoomsAssumption, NEW c, DOMAIN c \subseteq Fd, NEW idx, NEW head, NEW count,
           NEW m, IsList(c, idx, head, count, m)
    PROVE  /\ Cardinality(Fd) \in Nat /\ count \in Nat /\ count <= Cardinality(Fd)
           /\ IsFiniteSet(MembersOf(c, idx)) /\ Cardinality(MembersOf(c, idx)) = count
  <1>1. IsFiniteSet(Fd) /\ Cardinality(Fd) \in Nat
    BY FS_CardinalityType DEF RoomsAssumption
  <1>2. MembersOf(c, idx) \subseteq Fd
    BY DEF MembersOf
  <1>3. /\ IsFiniteSet(MembersOf(c, idx))
        /\ Cardinality(MembersOf(c, idx)) <= Cardinality(Fd)
    BY <1>1, <1>2, FS_Subset
  <1>4. /\ count \in Nat /\ m \in [1..count -> MembersOf(c, idx)]
        /\ \A f \in MembersOf(c, idx) : \E i \in 1..count : m[i] = f
        /\ \A i, j \in 1..count : m[i] = m[j] => i = j
    BY DEF IsList
  <1>5. m \in Bijection(1..count, MembersOf(c, idx))
    BY <1>4 DEF Bijection, Injection, Surjection, IsInjective
  <1>6. Cardinality(1..count) = Cardinality(MembersOf(c, idx))
    <2>1. IsFiniteSet(1..count)
      BY <1>4, FS_Interval
    <2>2. ExistsBijection(1..count, MembersOf(c, idx))
      BY <1>5 DEF ExistsBijection
    <2>3. QED
      BY ONLY <2>1, <2>2, FS_Bijection
  <1>7. Cardinality(1..count) = count
    BY <1>4, FS_Interval
  <1>8. QED
    BY <1>1, <1>3, <1>4, <1>6, <1>7

(* The hops along room_next go through the list and stay at its end. *)
LEMMA HopIs ==
    ASSUME RoomsAssumption, NEW s, DOMAIN s.conns \subseteq Fd, NEW idx, NEW count, NEW m,
           IsList(s.conns, idx, s.rooms[idx].head, count, m)
    PROVE  \A n \in 0..Cardinality(Fd) :
             Hop(s, idx)[n] = IF n < count THEN m[n + 1] ELSE None
  <1> DEFINE N == Cardinality(Fd)
             c == s.conns
             want == [n \in 0..N |-> IF n < count THEN m[n + 1] ELSE None]
             Obeys(h) == h = [n \in 0..N |->
                               IF n = 0 THEN s.rooms[idx].head
                               ELSE IF h[n - 1] \in DOMAIN c THEN c[h[n - 1]].room_next
                               ELSE None]
  <1>1. N \in Nat /\ count \in Nat /\ count <= N
    BY ListIsShort
  <1>2. /\ m \in [1..count -> MembersOf(c, idx)] /\ MembersOf(c, idx) \subseteq DOMAIN c
        /\ s.rooms[idx].head = IF count = 0 THEN None ELSE m[1]
        /\ \A i \in 1..count : c[m[i]].room_next = IF i = count THEN None ELSE m[i + 1]
    BY DEF IsList, MembersOf
  <1>3. None \notin DOMAIN c
    BY NotSlots
  <1>4. Obeys(want)
    <2>1. ASSUME NEW n \in 0..N
          PROVE  want[n] = IF n = 0 THEN s.rooms[idx].head
                           ELSE IF want[n - 1] \in DOMAIN c THEN c[want[n - 1]].room_next
                           ELSE None
      <3>1. CASE n = 0
        BY <1>1, <1>2, <3>1
      <3>2. CASE n # 0
        <4>1. n - 1 \in 0..N /\ (n - 1) + 1 = n
          BY <1>1, <3>2
        <4>2. CASE n - 1 < count
          <5>1. n \in 1..count /\ want[n - 1] = m[n]
            BY <1>1, <3>2, <4>1, <4>2
          <5>2. m[n] \in DOMAIN c /\ c[m[n]].room_next = IF n = count THEN None ELSE m[n + 1]
            BY <1>2, <5>1
          <5>3. n < count <=> n # count
            BY <1>1, <5>1
          <5>4. QED
            BY <3>2, <5>1, <5>2, <5>3
        <4>3. CASE ~(n - 1 < count)
          <5>1. want[n - 1] = None /\ ~(n < count)
            BY <1>1, <4>1, <4>3
          <5>2. QED
            BY <1>3, <3>2, <5>1
        <4>4. QED
          BY <4>2, <4>3
      <3>3. QED
        BY <3>1, <3>2
    <2>2. want = [n \in 0..N |-> want[n]]
      OBVIOUS
    <2> HIDE DEF want
    <2>3. QED
      BY <2>1, <2>2
  <1> HIDE DEF want
  <1>5. Hop(s, idx) = CHOOSE h : Obeys(h)
    BY DEF Hop
  <1>6. Obeys(Hop(s, idx))
    BY <1>4, <1>5
  <1> DEFINE hop == Hop(s, idx)
             same == {n \in Nat : n <= N => hop[n] = want[n]}
  <1> HIDE DEF hop
  <1>7. \A n \in 0..N :
          /\ hop[n] = IF n = 0 THEN s.rooms[idx].head
                      ELSE IF hop[n - 1] \in DOMAIN c THEN c[hop[n - 1]].room_next
                      ELSE None
          /\ want[n] = IF n = 0 THEN s.rooms[idx].head
                       ELSE IF want[n - 1] \in DOMAIN c THEN c[want[n - 1]].room_next
                       ELSE None
    BY <1>4, <1>6 DEF hop
  <1>8. 0 \in same
    BY <1>1, <1>7
  <1>9. ASSUME NEW n \in same \cap Nat PROVE n + 1 \in same
    <2>1. CASE n + 1 <= N
      <3>1. n \in 0..N /\ n + 1 \in 0..N /\ (n + 1) - 1 = n /\ n + 1 # 0
        BY <1>1, <2>1
      <3>2. hop[n] = want[n]
        BY <3>1
      <3>3. QED
        BY <1>7, <3>1, <3>2
    <2>2. CASE ~(n + 1 <= N)
      BY <2>2
    <2>3. QED
      BY <2>1, <2>2
  <1>10. Nat \subseteq same
    BY <1>8, <1>9, SetInduction
  <1>11. ASSUME NEW n \in 0..N PROVE hop[n] = want[n]
    BY <1>1, <1>10
  <1>12. QED
    BY <1>11 DEF hop, want

(* A broadcast meets the members, each once, and ends. *)
LEMMA WalkIs ==
    ASSUME RoomsAssumption, NEW s, DOMAIN s.conns \subseteq Fd, NEW idx, NEW count, NEW m,
           IsList(s.conns, idx, s.rooms[idx].head, count, m)
    PROVE  Walk(s, idx) = m /\ Hop(s, idx)[Cardinality(Fd)] = None
  <1> DEFINE N == Cardinality(Fd)
             hop == Hop(s, idx)
             met == {n \in 1..N : hop[n - 1] # None}
  <1>1. N \in Nat /\ count \in Nat /\ count <= N
    BY ListIsShort
  <1>2. \A n \in 0..N : hop[n] = IF n < count THEN m[n + 1] ELSE None
    BY HopIs
  <1>3. m \in [1..count -> MembersOf(s.conns, idx)]
    BY DEF IsList
  <1>4. \A i \in 1..count : m[i] # None
    BY <1>3, NotSlots DEF MembersOf
  <1>5. \A n \in 1..N : /\ n - 1 \in 0..N /\ (n - 1) + 1 = n
                        /\ n - 1 < count <=> n \in 1..count
    BY <1>1
  <1>6. \A n \in 1..N : hop[n - 1] = IF n \in 1..count THEN m[n] ELSE None
    BY <1>2, <1>5
  <1>7. met = 1..count
    BY <1>1, <1>4, <1>6
  <1>8. Cardinality(met) = count
    <2>1. Cardinality(1..count) = count
      BY <1>1, FS_Interval
    <2>2. QED
      BY <1>7, <2>1
  <1>9. [n \in 1..count |-> hop[n - 1]] = m
    BY <1>1, <1>3, <1>6
  <1>10. Walk(s, idx) = [n \in 1..Cardinality(met) |-> hop[n - 1]]
    BY DEF Walk
  <1>11. hop[N] = None
    BY <1>1, <1>2
  <1>12. QED
    BY <1>8, <1>9, <1>10, <1>11

(* The same for the rooms of a server. *)
LEMMA WalkOfRoom ==
    ASSUME RoomsAssumption, NEW s, RoomsOf(s), NEW idx \in Slots, s.rooms[idx].live
    PROVE  /\ Hop(s, idx)[Cardinality(Fd)] = None
           /\ Walk(s, idx) \in Seq(MembersOf(s.conns, idx))
           /\ Len(Walk(s, idx)) = s.rooms[idx].count
           /\ Len(Walk(s, idx)) = Cardinality(MembersOf(s.conns, idx))
           /\ \A i, j \in 1..Len(Walk(s, idx)) : Walk(s, idx)[i] = Walk(s, idx)[j] => i = j
           /\ {Walk(s, idx)[n] : n \in DOMAIN Walk(s, idx)} = MembersOf(s.conns, idx)
  <1> DEFINE count == s.rooms[idx].count
  <1>1. DOMAIN s.conns \subseteq Fd /\ Listed(s.conns, s.rooms, idx)
    BY DEF RoomsOf, RoomsOK
  <1>2. PICK m \in [1..count -> MembersOf(s.conns, idx)] :
           IsList(s.conns, idx, s.rooms[idx].head, count, m)
    BY <1>1 DEF Listed, HasList
  <1>3. Walk(s, idx) = m /\ Hop(s, idx)[Cardinality(Fd)] = None
    BY <1>1, <1>2, WalkIs
  <1>4. count \in Nat /\ Cardinality(MembersOf(s.conns, idx)) = count
    BY <1>1, <1>2, ListIsShort
  <1>5. /\ \A f \in MembersOf(s.conns, idx) : \E i \in 1..count : m[i] = f
        /\ \A i, j \in 1..count : m[i] = m[j] => i = j
    BY <1>2 DEF IsList
  <1> HIDE DEF count
  <1>6. m \in Seq(MembersOf(s.conns, idx)) /\ Len(m) = count
    BY <1>4
  <1>7. {m[n] : n \in DOMAIN m} = MembersOf(s.conns, idx)
    BY <1>5
  <1>8. QED
    BY <1>3, <1>4, <1>5, <1>6, <1>7 DEF count

-----------------------------------------------------------------------------
(* The rooms. *)

RoomsPart == <<conns, g_rooms, g_room_free, g_room_index>>

(* The state of SdsRooms is a server's. *)
LEMMA StateIs ==
    /\ State.conns = conns /\ State.rooms = g_rooms
    /\ State.free = g_room_free /\ State.index = g_room_index
    /\ DOMAIN State = RoomFields
    /\ RoomsOf(State) <=> RoomsOK(conns, g_rooms, g_room_free, g_room_index)
  BY DEF State, RoomFields, RoomsOf

(* Its connections are typed by RoomsTypeOK. *)
Typed(c) == c = [f \in DOMAIN c |-> c[f]] /\ \A f \in DOMAIN c : c[f] \in conn

LEMMA TypedIsServer ==
    ASSUME Typed(conns)
    PROVE  IsServer(State)
  <1>1. \A f \in DOMAIN conns : IsLinks(conns[f])
    BY DEF Typed, conn, IsLinks, LinkFields
  <1>2. State = [x \in DOMAIN State |-> State[x]]
    BY DEF State
  <1>3. QED
    BY <1>1, <1>2, StateIs DEF IsServer, Typed

(* Relinking keeps the types. *)
LEMMA TypedKept ==
    ASSUME NEW s, NEW t, Typed(s.conns), Relinked(s, t), RoomsOf(t)
    PROVE  Typed(t.conns)
  <1>1. ASSUME NEW f \in DOMAIN t.conns PROVE t.conns[f] \in conn
    <2>1. s.conns[f] \in conn /\ DOMAIN t.conns[f] = DOMAIN s.conns[f] /\ IsLinks(t.conns[f])
      BY <1>1 DEF Relinked, IsServer, Typed
    <2>2. DOMAIN t.conns[f] = LinkFields
      BY <2>1 DEF conn, LinkFields
    <2>3. /\ t.conns[f].room \in Slots \cup {k_no_room}
          /\ t.conns[f].room_prev \in Fd \cup {None}
          /\ t.conns[f].room_next \in Fd \cup {None}
      BY <1>1 DEF RoomsOf, RoomsOK
    <2>4. t.conns[f] = [room |-> t.conns[f].room, room_prev |-> t.conns[f].room_prev,
                        room_next |-> t.conns[f].room_next]
      BY <2>1, <2>2 DEF IsLinks, LinkFields
    <2>5. QED
      BY <2>3, <2>4 DEF conn
  <1>2. QED
    BY <1>1 DEF Typed, Relinked, IsServer

(* A room that is live has a member, so with somebody outside every room   *)
(* there are more records than live rooms: the free list is not empty.     *)
LEMMA FreeRecord ==
    ASSUME RoomsAssumption, NEW c, NEW r, NEW free, NEW ix, RoomsOK(c, r, free, ix),
           Occupied(r), NEW fd \in DOMAIN c, c[fd].room = k_no_room
    PROVE  free # k_no_room
  <1>1. SUFFICES ASSUME free = k_no_room PROVE FALSE
    OBVIOUS
  <1>2. \A i \in Slots : r[i].live
    <2>1. PICK n \in 0..g_slots : \E d \in [1..n -> Slots] : IsFreeList(r, free, n, d)
      BY DEF RoomsOK, FreeListed
    <2>2. PICK d \in [1..n -> Slots] : IsFreeList(r, free, n, d)
      BY <2>1
    <2>3. n = 0
      <3>1. free = IF n = 0 THEN k_no_room ELSE d[1]
        BY <2>2 DEF IsFreeList
      <3>2. n # 0 => 1 \in 1..n
        BY NotSlots
      <3>3. n # 0 => d[1] \in Slots
        BY <3>2
      <3>4. QED
        BY <1>1, <3>1, <3>3, NotSlots
    <2>4. 1..n = {}
      BY <2>3
    <2>5. QED
      BY <2>2, <2>4 DEF IsFreeList
  <1> DEFINE some == [i \in Slots |-> CHOOSE f \in MembersOf(c, i) : TRUE]
             rest == Fd \ {fd}
  <1>3. ASSUME NEW i \in Slots
        PROVE  some[i] \in rest /\ c[some[i]].room = i
    <2>1. Listed(c, r, i) /\ r[i].count > 0
      BY <1>2 DEF RoomsOK, Occupied
    <2>2. MembersOf(c, i) # {}
      BY <2>1, EmptyList
    <2>3. some[i] \in MembersOf(c, i)
      BY <2>2
    <2>4. QED
      BY <2>3, NotSlots DEF MembersOf, RoomsOK
  <1> HIDE DEF some
  <1>4. some \in Injection(Slots, rest)
    <2>1. some = [i \in Slots |-> some[i]]
      BY DEF some
    <2>2. QED
      BY <1>3, <2>1 DEF Injection, IsInjective
  <1>5. IsFiniteSet(Fd) /\ fd \in Fd
    BY DEF RoomsAssumption, RoomsOK
  <1>6. IsFiniteSet(rest) /\ Cardinality(rest) = Cardinality(Fd) - 1
    BY <1>5, FS_RemoveElement
  <1>7. Cardinality(Slots) <= Cardinality(rest)
    <2> HIDE DEF rest
    <2>1. QED
      BY <1>4, <1>6, FS_Injection
  <1>8. Cardinality(Slots) = g_slots
    <2>1. Slots = 0..(g_slots - 1) /\ g_slots \in Nat
      BY NotSlots DEF Slots
    <2>2. QED
      BY <2>1, FS_Interval
  <1>9. Cardinality(Fd) \in Nat /\ g_slots \in Nat /\ g_slots >= Cardinality(Fd)
    BY <1>5, FS_CardinalityType DEF RoomsAssumption
  <1>10. QED
    BY <1>6, <1>7, <1>8, <1>9

(* What a connection joined is still the name of its room. *)
LEMMA WhoJoinedKept ==
    ASSUME RoomsAssumption, NEW s, NEW t, NEW j, NEW fd \in DOMAIN s.conns, RoomsOf(s), RoomsOf(t),
           WhoJoined(s.conns, s.rooms, j), Relinked(s, t),
           \A f \in DOMAIN s.conns \ {fd} : t.conns[f].room = s.conns[f].room,
           \A i \in Slots : s.rooms[i].live => t.rooms[i].name = s.rooms[i].name
    PROVE  \A f \in DOMAIN s.conns \ {fd} :
             IF t.conns[f].room = k_no_room THEN j[f] = << >>
             ELSE j[f] \in Name /\ CStr(j[f]) = CStr(t.rooms[t.conns[f].room].name)
  <1>1. SUFFICES ASSUME NEW f \in DOMAIN s.conns \ {fd}
                 PROVE  IF t.conns[f].room = k_no_room THEN j[f] = << >>
                        ELSE j[f] \in Name /\ CStr(j[f]) = CStr(t.rooms[t.conns[f].room].name)
    OBVIOUS
  <1>2. t.conns[f].room = s.conns[f].room
    OBVIOUS
  <1>3. IF s.conns[f].room = k_no_room THEN j[f] = << >>
        ELSE j[f] \in Name /\ CStr(j[f]) = CStr(s.rooms[s.conns[f].room].name)
    BY DEF WhoJoined
  <1>4. s.conns[f].room # k_no_room =>
          s.conns[f].room \in Slots /\ s.rooms[s.conns[f].room].live
    BY DEF RoomsOf, RoomsOK
  <1>5. QED
    BY <1>2, <1>3, <1>4

(* Connections outside every room come and go. *)
LEMMA OutsideOK ==
    ASSUME RoomsAssumption, NEW c, NEW d, NEW r, NEW free, NEW ix, RoomsOK(c, r, free, ix),
           DOMAIN d \subseteq Fd,
           \A f \in DOMAIN d :
              \/ /\ f \in DOMAIN c /\ d[f].room = c[f].room
                 /\ d[f].room_prev = c[f].room_prev /\ d[f].room_next = c[f].room_next
              \/ /\ f \notin DOMAIN c /\ d[f].room = k_no_room
                 /\ d[f].room_prev = None /\ d[f].room_next = None,
           \A f \in DOMAIN c : f \in DOMAIN d \/ c[f].room = k_no_room
    PROVE  RoomsOK(d, r, free, ix)
  <1>1. ASSUME NEW i \in Slots, r[i].live PROVE Listed(d, r, i)
    <2>1. MembersOf(d, i) = MembersOf(c, i)
      BY NotSlots DEF MembersOf
    <2>2. Listed(c, r, i)
      BY <1>1 DEF RoomsOK
    <2>3. \A f \in MembersOf(c, i) :
            d[f].room_prev = c[f].room_prev /\ d[f].room_next = c[f].room_next
      BY <2>1 DEF MembersOf
    <2>4. QED
      BY <2>1, <2>2, <2>3, ListKept
  <1>2. ASSUME NEW f \in DOMAIN d
        PROVE  /\ d[f].room_prev \in Fd \cup {None} /\ d[f].room_next \in Fd \cup {None}
               /\ d[f].room # k_no_room => d[f].room \in Slots /\ r[d[f].room].live
    BY DEF RoomsOK
  <1>3. QED
    BY <1>1, <1>2 DEF RoomsOK

LEMMA RoomsInvInit ==
    ASSUME RoomsAssumption, RoomsInit
    PROVE  RoomsInv
  <1>1. g_slots \in Nat /\ k_no_room = g_slots /\ Slots = 0..(g_slots - 1)
    BY NotSlots DEF k_no_room, Slots
  <1>2. /\ \A i \in Slots : g_rooms[i] = [name |-> << >>, head |-> None, count |-> 0,
                                          next_free |-> i + 1, live |-> FALSE]
        /\ g_rooms = [i \in Slots |-> g_rooms[i]]
        /\ DOMAIN conns = {} /\ g_room_free = 0 /\ g_room_index = {} /\ ~trapped
        /\ DOMAIN joined = {}
    BY DEF RoomsInit
  <1>3. \A i \in Slots : i + 1 \in Slots \cup {k_no_room}
    BY <1>1
  <1>4. g_rooms \in [Slots -> room]
    <2>1. ASSUME NEW i \in Slots PROVE g_rooms[i] \in room
      <3>1. g_rooms[i] = [name |-> << >>, head |-> None, count |-> 0,
                          next_free |-> i + 1, live |-> FALSE]
        BY <1>2
      <3>2. i + 1 \in Slots \cup {k_no_room}
        BY <1>3
      <3> DEFINE next == i + 1
      <3> HIDE DEF next
      <3>3. next \in Slots \cup {k_no_room} /\ g_rooms[i] =
              [name |-> << >>, head |-> None, count |-> 0, next_free |-> next, live |-> FALSE]
        BY <3>1, <3>2 DEF next
      <3>4. QED
        BY ONLY <3>3 DEF room
    <2>2. QED
      BY <1>2, <2>1
  <1>5. FreeListed(g_rooms, 0)
    <2> DEFINE d == [i \in 1..g_slots |-> i - 1]
    <2>1. d \in [1..g_slots -> Slots] /\ g_slots \in 0..g_slots
      BY <1>1
    <2>2. IsFreeList(g_rooms, 0, g_slots, d)
      <3>1. \A i \in 1..g_slots : d[i] = i - 1 /\ i - 1 \in Slots
        BY <1>1
      <3>2. \A i \in 1..g_slots : ~g_rooms[d[i]].live /\ g_rooms[d[i]].next_free = i
        BY <1>1, <1>2, <3>1
      <3>3. \A x \in Slots : \E i \in 1..g_slots : d[i] = x
        <4>1. \A x \in Slots : x + 1 \in 1..g_slots /\ (x + 1) - 1 = x
          BY <1>1
        <4>2. QED
          BY <3>1, <4>1
      <3>4. \A i \in 1..g_slots : i = IF i = g_slots THEN k_no_room ELSE d[i + 1]
        BY <1>1
      <3>5. 0 = IF g_slots = 0 THEN k_no_room ELSE d[1]
        BY <1>1
      <3>6. \A i, j \in 1..g_slots : d[i] = d[j] => i = j
        BY <1>1
      <3> HIDE DEF d
      <3>7. QED
        BY <3>2, <3>3, <3>4, <3>5, <3>6 DEF IsFreeList
    <2> HIDE DEF d
    <2>3. QED
      BY <2>1, <2>2 DEF FreeListed
  <1>6. \A i \in Slots : ~g_rooms[i].live
    BY <1>2
  <1>7. RoomsOK(conns, g_rooms, g_room_free, g_room_index)
    BY <1>2, <1>4, <1>5, <1>6 DEF RoomsOK
  <1>8. conns \in [DOMAIN conns -> conn]
    BY DEF RoomsInit
  <1>9. QED
    BY <1>2, <1>6, <1>7, <1>8 DEF RoomsInv, Occupied, WhoJoined

LEMMA AcceptKeepsRooms ==
    ASSUME RoomsAssumption, RoomsInv, NEW fd \in Fd, accept(fd)
    PROVE  RoomsInv'
  <1>1. /\ fd \notin DOMAIN conns /\ DOMAIN conns' = DOMAIN conns \cup {fd}
        /\ conns'[fd] = NewMember /\ \A f \in DOMAIN conns : conns'[f] = conns[f]
        /\ DOMAIN joined' = DOMAIN conns \cup {fd}
        /\ joined'[fd] = << >> /\ \A f \in DOMAIN conns : joined'[f] = joined[f]
        /\ g_rooms' = g_rooms /\ g_room_free' = g_room_free /\ g_room_index' = g_room_index
        /\ trapped' = trapped /\ conns' = [f \in DOMAIN conns' |-> conns'[f]]
    BY DEF accept
  <1>2. /\ RoomsOK(conns, g_rooms, g_room_free, g_room_index) /\ DOMAIN conns \subseteq Fd
        /\ Occupied(g_rooms) /\ WhoJoined(conns, g_rooms, joined) /\ ~trapped
        /\ \A f \in DOMAIN conns : conns[f] \in conn
    BY DEF RoomsInv, RoomsOK
  <1>3. NewMember.room = k_no_room /\ NewMember.room_prev = None /\ NewMember.room_next = None
        /\ NewMember \in conn
    BY DEF NewMember, conn
  <1>4. RoomsOK(conns', g_rooms, g_room_free, g_room_index)
    <2>1. \A f \in DOMAIN conns' :
              \/ /\ f \in DOMAIN conns /\ conns'[f].room = conns[f].room
                 /\ conns'[f].room_prev = conns[f].room_prev
                 /\ conns'[f].room_next = conns[f].room_next
              \/ /\ f \notin DOMAIN conns /\ conns'[f].room = k_no_room
                 /\ conns'[f].room_prev = None /\ conns'[f].room_next = None
      BY <1>1, <1>3
    <2>2. DOMAIN conns' \subseteq Fd /\ \A f \in DOMAIN conns : f \in DOMAIN conns'
      BY <1>1, <1>2
    <2>3. QED
      BY <1>2, <2>1, <2>2, OutsideOK
  <1>5. WhoJoined(conns', g_rooms, joined')
    BY <1>1, <1>2, <1>3 DEF WhoJoined
  <1>6. conns' \in [DOMAIN conns' -> conn]
    <2>1. \A f \in DOMAIN conns' : conns'[f] \in conn
      BY <1>1, <1>2, <1>3
    <2>2. QED
      BY <1>1, <2>1
  <1>7. QED
    BY <1>1, <1>2, <1>4, <1>5, <1>6 DEF RoomsInv

(* The state after a connection left its room. *)
LEMMA Departed ==
    ASSUME RoomsAssumption, RoomsInv, NEW fd \in DOMAIN conns, NEW s, s = leave_room(State, fd)
    PROVE  /\ IsServer(s) /\ RoomsOf(s) /\ Occupied(s.rooms) /\ Typed(s.conns)
           /\ DOMAIN s.conns = DOMAIN conns /\ s.conns[fd].room = k_no_room
           /\ \A f \in DOMAIN conns \ {fd} :
                IF s.conns[f].room = k_no_room THEN joined[f] = << >>
                ELSE joined[f] \in Name /\ CStr(joined[f]) = CStr(s.rooms[s.conns[f].room].name)
  <1>1. Typed(conns)
    BY DEF RoomsInv, Typed
  <1>2. IsServer(State) /\ RoomsOf(State) /\ Occupied(State.rooms) /\ fd \in DOMAIN State.conns
    BY <1>1, StateIs, TypedIsServer DEF RoomsInv
  <1>3. /\ Relinked(State, s) /\ RoomsOf(s) /\ Occupied(s.rooms)
        /\ s.conns[fd].room = k_no_room
        /\ \A f \in DOMAIN State.conns \ {fd} : s.conns[f].room = State.conns[f].room
        /\ \A i \in Slots : /\ s.rooms[i].name = State.rooms[i].name
                            /\ s.rooms[i].live => State.rooms[i].live
    BY <1>2, LeaveOK
  <1>4. Typed(s.conns)
    BY <1>1, <1>3, StateIs, TypedKept
  <1>5. WhoJoined(State.conns, State.rooms, joined)
    BY StateIs DEF RoomsInv
  <1>6. \A f \in DOMAIN State.conns \ {fd} :
          IF s.conns[f].room = k_no_room THEN joined[f] = << >>
          ELSE joined[f] \in Name /\ CStr(joined[f]) = CStr(s.rooms[s.conns[f].room].name)
    BY <1>2, <1>3, <1>5, WhoJoinedKept
  <1>7. IsServer(s) /\ DOMAIN s.conns = DOMAIN State.conns
    BY <1>3 DEF Relinked
  <1>8. QED
    BY <1>3, <1>4, <1>6, <1>7, StateIs

(* Entering keeps the invariant: u is the state with the room open. *)
LEMMA Arrives ==
    ASSUME RoomsAssumption, NEW u, IsServer(u), RoomsOf(u), Typed(u.conns), ~trapped,
           NEW fd \in DOMAIN u.conns, u.conns[fd].room = k_no_room,
           NEW idx \in Slots, u.rooms[idx].live,
           \A i \in Slots \ {idx} : u.rooms[i].live => u.rooms[i].count > 0,
           NEW name \in Name, CStr(u.rooms[idx].name) = CStr(name), DOMAIN joined = DOMAIN u.conns,
           \A f \in DOMAIN u.conns \ {fd} :
              IF u.conns[f].room = k_no_room THEN joined[f] = << >>
              ELSE joined[f] \in Name /\ CStr(joined[f]) = CStr(u.rooms[u.conns[f].room].name),
           Becomes(join_room(u, fd, idx)), joined' = [joined EXCEPT ![fd] = name],
           trapped' = trapped
    PROVE  RoomsInv'
  <1> DEFINE v == join_room(u, fd, idx)
  <1>1. /\ Relinked(u, v) /\ RoomsOf(v) /\ v.conns[fd].room = idx
        /\ \A f \in DOMAIN u.conns \ {fd} : v.conns[f].room = u.conns[f].room
        /\ \A i \in Slots : /\ v.rooms[i].live = u.rooms[i].live
                            /\ v.rooms[i].name = u.rooms[i].name
                            /\ i # idx => v.rooms[i].count = u.rooms[i].count
        /\ v.rooms[idx].count > 0
    BY JoinOK
  <1>2. /\ conns' = v.conns /\ g_rooms' = v.rooms /\ g_room_free' = v.free
        /\ g_room_index' = v.index
    BY DEF Becomes
  <1> HIDE DEF v
  <1>3. Typed(v.conns) /\ DOMAIN v.conns = DOMAIN u.conns
    BY <1>1, TypedKept DEF Relinked
  <1>4. conns' \in [DOMAIN conns' -> conn]
    BY <1>2, <1>3 DEF Typed
  <1>5. Occupied(v.rooms)
    BY <1>1 DEF Occupied
  <1>6. WhoJoined(v.conns, v.rooms, joined')
    <2>1. ASSUME NEW f \in DOMAIN v.conns
          PROVE  IF v.conns[f].room = k_no_room THEN joined'[f] = << >>
                 ELSE joined'[f] \in Name /\ CStr(joined'[f]) = CStr(v.rooms[v.conns[f].room].name)
      <3>1. CASE f = fd
        <4>1. joined'[fd] = name
          BY <1>3
        <4>2. CStr(v.rooms[idx].name) = CStr(name)
          BY <1>1
        <4>3. QED
          BY <1>1, <3>1, <4>1, <4>2, NotSlots
      <3>2. CASE f # fd
        <4>1. joined'[f] = joined[f] /\ v.conns[f].room = u.conns[f].room
          BY <1>1, <1>3, <3>2
        <4>2. u.conns[f].room # k_no_room => u.conns[f].room \in Slots
          BY <1>3 DEF RoomsOf, RoomsOK
        <4>3. QED
          BY <1>1, <1>3, <3>2, <4>1, <4>2
      <3>3. QED
        BY <3>1, <3>2
    <2>2. DOMAIN joined' = DOMAIN v.conns
      BY <1>3
    <2>3. QED
      BY <2>1, <2>2 DEF WhoJoined
  <1>7. QED
    BY <1>1, <1>2, <1>4, <1>5, <1>6 DEF RoomsInv, RoomsOf

LEMMA JoinKeepsRooms ==
    ASSUME RoomsAssumption, RoomsInv, NEW fd \in Fd, NEW name \in Name, join(fd, name)
    PROVE  RoomsInv'
  <1> DEFINE s == leave_room(State, fd)
             found == find(s.rooms, s.index, name)
  <1>1. fd \in DOMAIN conns /\ ~trapped /\ DOMAIN joined = DOMAIN conns
    BY DEF join, RoomsInv, WhoJoined
  <1>2. /\ IsServer(s) /\ RoomsOf(s) /\ Occupied(s.rooms) /\ Typed(s.conns)
        /\ DOMAIN s.conns = DOMAIN conns /\ s.conns[fd].room = k_no_room
        /\ \A f \in DOMAIN conns \ {fd} :
             IF s.conns[f].room = k_no_room THEN joined[f] = << >>
             ELSE joined[f] \in Name /\ CStr(joined[f]) = CStr(s.rooms[s.conns[f].room].name)
    BY <1>1, Departed
  <1>3. s.free # k_no_room
    BY <1>1, <1>2, FreeRecord DEF RoomsOf
  <1>4. /\ \/ found = {} /\ Becomes(join_room(NewRoom(s, name), fd, s.free))
           \/ \E n \in found : Becomes(join_room(s, fd, n.value))
        /\ joined' = [joined EXCEPT ![fd] = name] /\ trapped' = trapped
    BY <1>3 DEF join
  <1> HIDE DEF s
  <1>5. CASE found = {} /\ Becomes(join_room(NewRoom(s, name), fd, s.free))
    <2> DEFINE u == NewRoom(s, name)
    <2>1. /\ s.free \in Slots /\ ~s.rooms[s.free].live
          /\ Relinked(s, u) /\ RoomsOf(u) /\ u.conns = s.conns
          /\ u.rooms[s.free].live /\ u.rooms[s.free].name = name
          /\ \A i \in Slots \ {s.free} : u.rooms[i] = s.rooms[i]
      BY <1>2, <1>3, <1>5, NewRoomOK
    <2>2. Becomes(join_room(u, fd, s.free))
      BY <1>5
    <2> HIDE DEF u
    <2>3. \A i \in Slots \ {s.free} : u.rooms[i].live => u.rooms[i].count > 0
      BY <1>2, <2>1 DEF Occupied
    <2>4. ASSUME NEW f \in DOMAIN u.conns \ {fd}
          PROVE  IF u.conns[f].room = k_no_room THEN joined[f] = << >>
                 ELSE joined[f] \in Name /\ CStr(joined[f]) = CStr(u.rooms[u.conns[f].room].name)
      <3>1. s.conns[f].room # k_no_room =>
              s.conns[f].room \in Slots /\ s.rooms[s.conns[f].room].live
        BY <1>2, <2>1 DEF RoomsOf, RoomsOK
      <3>2. s.conns[f].room # k_no_room => u.rooms[s.conns[f].room] = s.rooms[s.conns[f].room]
        BY <2>1, <3>1
      <3>3. QED
        BY <1>2, <2>1, <3>2
    <2>5. IsServer(u)
      BY <2>1 DEF Relinked
    <2>6. QED
      BY <1>1, <1>2, <1>4, <2>1, <2>2, <2>3, <2>4, <2>5, Arrives
  <1>6. CASE \E n \in found : Becomes(join_room(s, fd, n.value))
    <2>1. PICK n \in found : Becomes(join_room(s, fd, n.value))
      BY <1>6
    <2>2. RoomsOK(s.conns, s.rooms, s.free, s.index)
      BY <1>2 DEF RoomsOf
    <2>3. PICK i \in Slots : /\ s.rooms[i].live /\ CStr(s.rooms[i].name) = CStr(name)
                             /\ n = Node(s.rooms, i)
      BY <2>2, FindIs
    <2>4. Becomes(join_room(s, fd, i))
      BY <2>1, <2>3 DEF Node
    <2>5. \A k \in Slots \ {i} : s.rooms[k].live => s.rooms[k].count > 0
      BY <1>2 DEF Occupied
    <2>6. QED
      BY <1>1, <1>2, <1>4, <2>3, <2>4, <2>5, Arrives
  <1>7. QED
    BY <1>4, <1>5, <1>6

LEMMA ReapKeepsRooms ==
    ASSUME RoomsAssumption, RoomsInv, NEW fd \in Fd, reap(fd)
    PROVE  RoomsInv'
  <1> DEFINE s == leave_room(State, fd)
             rest == DOMAIN conns \ {fd}
             d == [f \in rest |-> s.conns[f]]
  <1>1. fd \in DOMAIN conns /\ ~trapped
    BY DEF reap
  <1>2. /\ IsServer(s) /\ RoomsOf(s) /\ Occupied(s.rooms) /\ Typed(s.conns)
        /\ DOMAIN s.conns = DOMAIN conns /\ s.conns[fd].room = k_no_room
        /\ \A f \in DOMAIN conns \ {fd} :
             IF s.conns[f].room = k_no_room THEN joined[f] = << >>
             ELSE joined[f] \in Name /\ CStr(joined[f]) = CStr(s.rooms[s.conns[f].room].name)
    BY <1>1, Departed
  <1>3. /\ conns' = d /\ g_rooms' = s.rooms /\ g_room_free' = s.free /\ g_room_index' = s.index
        /\ joined' = [f \in rest |-> joined[f]] /\ trapped' = trapped
    <2>1. /\ Becomes([s EXCEPT !.conns = d]) /\ joined' = [f \in rest |-> joined[f]]
          /\ trapped' = trapped
      BY DEF reap
    <2> HIDE DEF d, s
    <2>2. QED
      BY <1>2, <2>1 DEF Becomes, IsServer, RoomFields
  <1> HIDE DEF s
  <1>4. RoomsOK(d, s.rooms, s.free, s.index)
    <2>1. RoomsOK(s.conns, s.rooms, s.free, s.index) /\ DOMAIN s.conns \subseteq Fd
      BY <1>2 DEF RoomsOf, RoomsOK
    <2>2. /\ DOMAIN d \subseteq Fd
          /\ \A f \in DOMAIN d : f \in DOMAIN s.conns /\ d[f] = s.conns[f]
          /\ \A f \in DOMAIN s.conns : f \in DOMAIN d \/ s.conns[f].room = k_no_room
      BY <1>2, <2>1
    <2> HIDE DEF d
    <2>3. QED
      BY <2>1, <2>2, OutsideOK
  <1>5. d \in [rest -> conn] /\ DOMAIN d = rest
    BY <1>2 DEF Typed
  <1>6. WhoJoined(d, s.rooms, joined')
    <2>1. \A f \in rest : joined'[f] = joined[f] /\ d[f] = s.conns[f]
      BY <1>3
    <2>2. QED
      BY <1>2, <1>3, <1>5, <2>1 DEF WhoJoined
  <1> HIDE DEF d
  <1>7. QED
    BY <1>1, <1>2, <1>3, <1>4, <1>5, <1>6 DEF RoomsInv

(* Every step of the server keeps the rooms in order. *)
LEMMA RoomsInvStep ==
    ASSUME RoomsAssumption, RoomsInv, [RoomsNext]_rooms_vars
    PROVE  RoomsInv'
  <1>1. CASE \E fd \in Fd : accept(fd)
    BY <1>1, AcceptKeepsRooms
  <1>2. CASE \E fd \in Fd, name \in Name : join(fd, name)
    BY <1>2, JoinKeepsRooms
  <1>3. CASE \E fd \in Fd : reap(fd)
    BY <1>3, ReapKeepsRooms
  <1>4. CASE UNCHANGED rooms_vars
    BY <1>4 DEF rooms_vars, RoomsInv
  <1>5. QED
    BY <1>1, <1>2, <1>3, <1>4 DEF RoomsNext

(* The invariant gives what the module promises. *)
LEMMA RoomsInvImplies ==
    ASSUME RoomsAssumption, RoomsInv
    PROVE  RoomsTypeOK /\ RoomsAreWhoJoined
  <1>1. /\ RoomsOK(conns, g_rooms, g_room_free, g_room_index) /\ Occupied(g_rooms)
        /\ WhoJoined(conns, g_rooms, joined) /\ ~trapped /\ conns \in [DOMAIN conns -> conn]
        /\ RoomsOf(State)
    BY StateIs DEF RoomsInv
  <1>2. RoomsTypeOK
    <2>1. \A fd \in DOMAIN conns : conns[fd] \in conn /\ joined[fd] \in Name \cup {<< >>}
      BY <1>1 DEF WhoJoined
    <2>2. g_room_free \in Slots \cup {k_no_room}
      <3>1. PICK n \in 0..g_slots :
              \E d \in [1..n -> Slots] : IsFreeList(g_rooms, g_room_free, n, d)
        BY <1>1 DEF RoomsOK, FreeListed
      <3>2. PICK d \in [1..n -> Slots] : IsFreeList(g_rooms, g_room_free, n, d)
        BY <3>1
      <3>3. g_room_free = IF n = 0 THEN k_no_room ELSE d[1]
        BY <3>2 DEF IsFreeList
      <3>4. n # 0 => 1 \in 1..n
        BY NotSlots
      <3>5. QED
        BY <3>3, <3>4
    <2>3. \A n \in g_room_index : n.key \in Slots /\ n.value \in Slots
      BY <1>1 DEF RoomsOK, Node
    <2>4. DOMAIN conns \subseteq Fd /\ DOMAIN joined = DOMAIN conns /\ g_rooms \in [Slots -> room]
      BY <1>1 DEF RoomsOK, WhoJoined
    <2>5. QED
      BY <2>1, <2>2, <2>3, <2>4 DEF RoomsTypeOK
  <1>3. ASSUME NEW name \in Name
        PROVE  LET there == {fd \in DOMAIN conns :
                               joined[fd] # << >> /\ CStr(joined[fd]) = CStr(name)}
               IN  /\ Cardinality(Named(name)) <= 1
                   /\ there # {} => Named(name) # {}
                   /\ \A idx \in Named(name) :
                        LET walk == Walk(State, idx)
                        IN  /\ Hop(State, idx)[Cardinality(Fd)] = None
                            /\ Len(walk) = Cardinality(there)
                            /\ {walk[n] : n \in DOMAIN walk} = there
    <2> DEFINE there == {fd \in DOMAIN conns :
                           joined[fd] # << >> /\ CStr(joined[fd]) = CStr(name)}
    <2>1. ASSUME NEW fd \in there
          PROVE  conns[fd].room \in Named(name)
      <3>1. conns[fd].room # k_no_room /\ CStr(g_rooms[conns[fd].room].name) = CStr(name)
        BY <1>1 DEF WhoJoined
      <3>2. QED
        BY <1>1, <3>1 DEF RoomsOK, Named
    <2>2. ASSUME NEW idx \in Named(name)
          PROVE  idx \in Slots /\ g_rooms[idx].live /\ Named(name) = {idx}
                 /\ there = MembersOf(conns, idx)
      <3>1. idx \in Slots /\ g_rooms[idx].live /\ CStr(g_rooms[idx].name) = CStr(name)
        BY DEF Named
      <3>2. Named(name) = {idx}
        BY <1>1, <3>1 DEF Named, RoomsOK
      <3>3. there \subseteq MembersOf(conns, idx)
        BY <2>1, <3>2 DEF MembersOf
      <3>4. ASSUME NEW fd \in MembersOf(conns, idx) PROVE fd \in there
        <4>1. fd \in DOMAIN conns /\ conns[fd].room = idx /\ idx # k_no_room
          BY <3>1, NotSlots DEF MembersOf
        <4>2. joined[fd] \in Name /\ CStr(joined[fd]) = CStr(g_rooms[idx].name)
          BY <1>1, <4>1 DEF WhoJoined
        <4>3. QED
          BY <3>1, <4>1, <4>2 DEF RoomsAssumption
      <3>5. QED
        BY <3>1, <3>2, <3>3, <3>4
    <2> HIDE DEF there
    <2>3. Cardinality(Named(name)) <= 1
      <3>1. CASE Named(name) = {}
        BY <3>1, FS_EmptySet
      <3>2. CASE Named(name) # {}
        <4>1. PICK idx \in Named(name) : TRUE
          BY <3>2
        <4>2. Named(name) = {idx}
          BY <2>2
        <4>3. Cardinality(Named(name)) = 1
          BY <4>2, FS_Singleton
        <4>4. QED
          BY <4>3
      <3>3. QED
        BY <3>1, <3>2
    <2>4. ASSUME NEW idx \in Named(name)
          PROVE  /\ Hop(State, idx)[Cardinality(Fd)] = None
                 /\ Len(Walk(State, idx)) = Cardinality(there)
                 /\ {Walk(State, idx)[n] : n \in DOMAIN Walk(State, idx)} = there
      <3>1. /\ Hop(State, idx)[Cardinality(Fd)] = None
            /\ Len(Walk(State, idx)) = Cardinality(MembersOf(State.conns, idx))
            /\ {Walk(State, idx)[n] : n \in DOMAIN Walk(State, idx)} = MembersOf(State.conns, idx)
        BY <1>1, <2>2, StateIs, WalkOfRoom
      <3>2. QED
        BY <2>2, <3>1, StateIs
    <2>5. QED
      BY <2>1, <2>3, <2>4 DEF there
  <1>4. QED
    BY <1>1, <1>2, <1>3 DEF RoomsAreWhoJoined

(* The slab, its free list, the borrowed keys and the member lists stay    *)
(* consistent with who joined what, for any number of descriptors and      *)
(* rooms and every set of names (server_sds.cpp room_acquire, room_release,*)
(* join_room, leave_room).                                                 *)
THEOREM RoomsInvariant == RoomsSpec => []RoomsInv
  <1>1. RoomsInit => RoomsInv
    BY RoomsAssumption, RoomsInvInit
  <1>2. RoomsInv /\ [RoomsNext]_rooms_vars => RoomsInv'
    BY RoomsAssumption, RoomsInvStep
  <1>3. QED
    BY <1>1, <1>2, PTL DEF RoomsSpec

(* Each connection's room and links stay what server_sds.cpp declares.     *)
THEOREM RoomsTypes == RoomsSpec => []RoomsTypeOK
  <1>1. RoomsInv => RoomsTypeOK
    BY RoomsAssumption, RoomsInvImplies
  <1>2. QED
    BY <1>1, RoomsInvariant, PTL

(* The members of each room of server_sds.cpp are the connections that     *)
(* joined its name and have not left, and room_acquire never fails.        *)
THEOREM RoomsHold == RoomsSpec => []RoomsAreWhoJoined
  <1>1. RoomsInv => RoomsAreWhoJoined
    BY RoomsAssumption, RoomsInvImplies
  <1>2. QED
    BY <1>1, RoomsInvariant, PTL
-----------------------------------------------------------------------------
(* The lists of doomed and dirty descriptors. *)

(* A list that has no descriptor twice. *)
OneEach(l) == l \in Seq(Fd) /\ \A i, j \in 1..Len(l) : l[i] = l[j] => i = j

LEMMA ToSetIs ==
    ASSUME NEW l, OneEach(l)
    PROVE  ToSet(l) = {l[i] : i \in 1..Len(l)} /\ ToSet(l) \subseteq Fd /\ Len(l) \in Nat
  <1>1. l \in Seq(Fd)
    BY DEF OneEach
  <1>2. DOMAIN l = 1..Len(l) /\ Len(l) \in Nat /\ \A i \in 1..Len(l) : l[i] \in Fd
    BY <1>1
  <1>3. QED
    BY <1>2 DEF ToSet

Pushed(l, fd, m) ==
    /\ OneEach(m) /\ Len(m) = Len(l) + 1 /\ m[Len(l) + 1] = fd
    /\ \A i \in 1..Len(l) : m[i] = l[i]
    /\ ToSet(m) = ToSet(l) \cup {fd} /\ ~push_fails(l)

(* There are as many places as descriptors, so a push of a descriptor that *)
(* is not on the list finds one (LNX_CHECK of doom and mark_dirty).        *)
LEMMA PushOK ==
    ASSUME RoomsAssumption, NEW l, OneEach(l), NEW fd \in Fd, fd \notin ToSet(l),
           NEW m, m = Append(l, fd)
    PROVE  Pushed(l, fd, m)
  <1>1. l \in Seq(Fd) /\ Len(l) \in Nat /\ \A i \in 1..Len(l) : l[i] \in Fd \ {fd}
    BY ToSetIs DEF OneEach
  <1>2. /\ m \in Seq(Fd) /\ Len(m) = Len(l) + 1 /\ m[Len(l) + 1] = fd
        /\ \A i \in 1..Len(l) : m[i] = l[i]
    BY <1>1
  <1>3. OneEach(m)
    <2>1. ASSUME NEW i \in 1..Len(m), NEW j \in 1..Len(m), m[i] = m[j]
          PROVE  i = j
      <3>1. i \in 1..Len(l) \/ i = Len(l) + 1
        BY <1>1, <1>2
      <3>2. j \in 1..Len(l) \/ j = Len(l) + 1
        BY <1>1, <1>2
      <3>3. QED
        BY <1>1, <1>2, <2>1, <3>1, <3>2 DEF OneEach
    <2>2. QED
      BY <1>2, <2>1 DEF OneEach
  <1>4. ToSet(m) = ToSet(l) \cup {fd}
    <2>1. ToSet(m) = {m[i] : i \in 1..Len(m)}
      BY ONLY <1>3, ToSetIs
    <2>4. ToSet(l) = {l[i] : i \in 1..Len(l)}
      BY ToSetIs
    <2>2. 1..Len(m) = 1..Len(l) \cup {Len(l) + 1}
      BY <1>1, <1>2
    <2>3. QED
      BY <1>2, <2>1, <2>2, <2>4
  <1>5. Len(l) < g_slots
    <2> DEFINE rest == Fd \ {fd}
    <2>1. IsFiniteSet(rest) /\ Cardinality(rest) = Cardinality(Fd) - 1
      BY FS_RemoveElement DEF RoomsAssumption
    <2>2. l \in Injection(1..Len(l), rest)
      <3>1. l \in [1..Len(l) -> rest]
        BY <1>1
      <3>2. QED
        BY <3>1 DEF Injection, IsInjective, OneEach
    <2> HIDE DEF rest
    <2>3. Cardinality(1..Len(l)) <= Cardinality(rest)
      BY <2>1, <2>2, FS_Injection
    <2>4. Cardinality(1..Len(l)) = Len(l)
      <3> PICK k : k = Len(l)
        OBVIOUS
      <3>1. k \in Nat
        BY <1>1
      <3>2. Cardinality(1..k) = IF 1 > k THEN 0 ELSE k - 1 + 1
        BY ONLY <3>1, FS_Interval
      <3>3. QED
        BY <3>1, <3>2
    <2>5. Cardinality(Fd) \in Nat /\ g_slots \in Nat /\ g_slots >= Cardinality(Fd)
      BY FS_CardinalityType DEF RoomsAssumption
    <2>6. QED
      BY <1>1, <2>1, <2>3, <2>4, <2>5
  <1>6. ~push_fails(l)
    BY <1>1, <1>5 DEF push_fails, RoomsAssumption
  <1>7. QED
    BY <1>2, <1>3, <1>4, <1>6 DEF Pushed

-----------------------------------------------------------------------------
(* What holds of a server's state between two calls, and between two turns *)
(* of the loops that walk its lists.                                       *)

ConnFields == LinkFields \cup {"nick", "out", "armed_write", "closing", "dirty"}
IsConn(c) ==
    /\ DOMAIN c = ConnFields /\ c = [y \in DOMAIN c |-> c[y]]
    /\ c.nick \in BOOLEAN /\ c.armed_write \in BOOLEAN /\ c.closing \in BOOLEAN
    /\ c.dirty \in BOOLEAN /\ c.out \in Nat

ServerFields == RoomFields \cup {"doomed", "dirty", "trapped"}

(* The first n entries of the doomed list are dead, the others are the     *)
(* connections that are closing.                                           *)
DoomedOK(s, n) ==
    /\ OneEach(s.doomed) /\ n \in 0..Len(s.doomed)
    /\ \A i \in 1..Len(s.doomed) :
         IF i <= n THEN s.doomed[i] \notin DOMAIN s.conns
         ELSE s.doomed[i] \in DOMAIN s.conns /\ s.conns[s.doomed[i]].closing
    /\ \A f \in DOMAIN s.conns : s.conns[f].closing => f \in ToSet(s.doomed)

(* A connection is on the dirty list exactly if its flag says so.          *)
DirtyOK(s) ==
    /\ OneEach(s.dirty)
    /\ \A f \in DOMAIN s.conns : s.conns[f].dirty <=> f \in ToSet(s.dirty)

Standing(s, n) ==
    /\ IsServer(s) /\ DOMAIN s = ServerFields
    /\ \A f \in DOMAIN s.conns : IsConn(s.conns[f])
    /\ RoomsOf(s) /\ DoomedOK(s, n) /\ ~s.trapped

Sound(s, n) == Standing(s, n) /\ DirtyOK(s)

(* t is s but that connections may have been sent to, doomed or marked.    *)
Kept(s, t) ==
    /\ t.rooms = s.rooms /\ t.free = s.free /\ t.index = s.index
    /\ DOMAIN t.conns = DOMAIN s.conns
    /\ \A f \in DOMAIN s.conns :
         /\ t.conns[f].room = s.conns[f].room
         /\ t.conns[f].room_prev = s.conns[f].room_prev
         /\ t.conns[f].room_next = s.conns[f].room_next
         /\ s.conns[f].closing => t.conns[f].closing

(* The record of connection fd is now c. *)
Altered(s, t, fd, c) ==
    /\ DOMAIN t = ServerFields /\ t = [x \in DOMAIN t |-> t[x]]
    /\ t.rooms = s.rooms /\ t.free = s.free /\ t.index = s.index
    /\ t.conns = [s.conns EXCEPT ![fd] = c]
    /\ IsConn(c)
    /\ c.room = s.conns[fd].room /\ c.room_prev = s.conns[fd].room_prev
    /\ c.room_next = s.conns[fd].room_next /\ (s.conns[fd].closing => c.closing)

(* That leaves the rooms as they are. *)
LEMMA AlteredKeeps ==
    ASSUME RoomsAssumption, NEW s, NEW n, Standing(s, n), NEW fd \in DOMAIN s.conns,
           NEW c, NEW t, Altered(s, t, fd, c)
    PROVE  /\ IsServer(t) /\ DOMAIN t = ServerFields
           /\ \A f \in DOMAIN t.conns : IsConn(t.conns[f])
           /\ RoomsOf(t) /\ Kept(s, t)
           /\ t.conns[fd] = c /\ \A f \in DOMAIN s.conns \ {fd} : t.conns[f] = s.conns[f]
  <1>1. /\ s.conns = [f \in DOMAIN s.conns |-> s.conns[f]]
        /\ \A f \in DOMAIN s.conns : IsConn(s.conns[f])
        /\ RoomsOK(s.conns, s.rooms, s.free, s.index)
    BY DEF Standing, IsServer, RoomsOf
  <1>2. /\ t.conns = [s.conns EXCEPT ![fd] = c] /\ IsConn(c)
        /\ t.rooms = s.rooms /\ t.free = s.free /\ t.index = s.index
        /\ DOMAIN t = ServerFields /\ t = [x \in DOMAIN t |-> t[x]]
        /\ c.room = s.conns[fd].room /\ c.room_prev = s.conns[fd].room_prev
        /\ c.room_next = s.conns[fd].room_next /\ (s.conns[fd].closing => c.closing)
    BY DEF Altered
  <1> PICK d : d = t.conns
    OBVIOUS
  <1>3. /\ DOMAIN d = DOMAIN s.conns /\ d[fd] = c /\ d = [f \in DOMAIN d |-> d[f]]
        /\ \A f \in DOMAIN s.conns \ {fd} : d[f] = s.conns[f]
    BY <1>1, <1>2
  <1>4. \A f \in DOMAIN d : IsConn(d[f])
    BY <1>1, <1>2, <1>3
  <1>5. /\ \A f \in DOMAIN s.conns :
             /\ d[f].room = s.conns[f].room /\ d[f].room_prev = s.conns[f].room_prev
             /\ d[f].room_next = s.conns[f].room_next
             /\ s.conns[f].closing => d[f].closing
    BY <1>2, <1>3
  <1>6. RoomsOK(d, s.rooms, s.free, s.index)
    <2>1. DOMAIN s.conns \subseteq Fd
      BY <1>1 DEF RoomsOK
    <2>2. QED
      BY <1>1, <1>3, <1>5, <2>1, OutsideOK
  <1>7. IsServer(t)
    <2>1. RoomFields \subseteq DOMAIN t
      BY <1>2 DEF ServerFields
    <2>2. \A f \in DOMAIN d : IsLinks(d[f])
      BY <1>4 DEF IsConn, IsLinks, ConnFields
    <2>3. QED
      BY <1>2, <1>3, <2>1, <2>2 DEF IsServer
  <1>8. Kept(s, t)
    BY <1>2, <1>3, <1>5 DEF Kept
  <1>9. QED
    BY <1>2, <1>3, <1>4, <1>6, <1>7, <1>8 DEF RoomsOf

(* Neither list is touched. *)
LEMMA AlteredStands ==
    ASSUME RoomsAssumption, NEW s, NEW n, Standing(s, n), NEW fd \in DOMAIN s.conns,
           NEW c, NEW t, Altered(s, t, fd, c),
           c.closing = s.conns[fd].closing, t.doomed = s.doomed, t.trapped = s.trapped
    PROVE  Standing(t, n)
  <1>1. /\ IsServer(t) /\ DOMAIN t = ServerFields
        /\ \A f \in DOMAIN t.conns : IsConn(t.conns[f])
        /\ RoomsOf(t) /\ Kept(s, t)
        /\ t.conns[fd] = c /\ \A f \in DOMAIN s.conns \ {fd} : t.conns[f] = s.conns[f]
    BY AlteredKeeps
  <1>2. DOMAIN t.conns = DOMAIN s.conns
    BY <1>1 DEF Kept
  <1>3. \A f \in DOMAIN s.conns : t.conns[f].closing = s.conns[f].closing
    BY <1>1
  <1>4. DoomedOK(s, n) /\ ~s.trapped
    BY DEF Standing
  <1>5. DoomedOK(t, n)
    BY ONLY <1>2, <1>3, <1>4, t.doomed = s.doomed DEF DoomedOK
  <1>6. QED
    BY <1>1, <1>4, <1>5 DEF Standing

(* doom closes a connection at the end of the iteration; once is enough.   *)
Longer(l, m) == \A i \in 1..Len(l) : i \in 1..Len(m) /\ m[i] = l[i]

LEMMA DoomOK ==
    ASSUME RoomsAssumption, NEW s, NEW n, Standing(s, n), NEW fd \in DOMAIN s.conns,
           NEW t, t = doom(s, fd)
    PROVE  /\ Standing(t, n) /\ Kept(s, t) /\ t.dirty = s.dirty /\ Longer(s.doomed, t.doomed)
           /\ t.conns[fd] = [s.conns[fd] EXCEPT !.closing = TRUE]
           /\ \A f \in DOMAIN s.conns \ {fd} : t.conns[f] = s.conns[f]
  <1>1. /\ IsConn(s.conns[fd]) /\ IsServer(s) /\ DOMAIN s = ServerFields
        /\ s = [x \in DOMAIN s |-> s[x]] /\ s.conns = [f \in DOMAIN s.conns |-> s.conns[f]]
        /\ DoomedOK(s, n) /\ ~s.trapped
    BY DEF Standing, IsServer
  <1> DEFINE c == [s.conns[fd] EXCEPT !.closing = TRUE]
  <1>2. /\ IsConn(c) /\ c.closing /\ c.room = s.conns[fd].room
        /\ c.room_prev = s.conns[fd].room_prev /\ c.room_next = s.conns[fd].room_next
    BY <1>1 DEF IsConn, ConnFields, LinkFields
  <1>3. CASE s.conns[fd].closing
    <2>1. t = s
      BY <1>3 DEF doom
    <2>2. c = s.conns[fd]
      BY <1>1, <1>3 DEF IsConn
    <2>3. Longer(s.doomed, t.doomed)
      BY <2>1 DEF Longer
    <2>4. QED
      BY <2>1, <2>2, <2>3 DEF Kept
  <1>4. CASE ~s.conns[fd].closing
    <2>1. t = [s EXCEPT !.conns[fd].closing = TRUE,
                        !.trapped = @ \/ push_fails(s.doomed), !.doomed = Append(@, fd)]
      BY <1>4 DEF doom
    <2>2. /\ DOMAIN t = ServerFields /\ t = [x \in DOMAIN t |-> t[x]]
          /\ t.rooms = s.rooms /\ t.free = s.free /\ t.index = s.index
          /\ t.conns = [s.conns EXCEPT ![fd] = c] /\ t.dirty = s.dirty
          /\ t.trapped = (s.trapped \/ push_fails(s.doomed)) /\ t.doomed = Append(s.doomed, fd)
      BY <1>1, <2>1 DEF ServerFields, RoomFields
    <2> HIDE DEF c
    <2>3. Altered(s, t, fd, c)
      BY <1>2, <2>2 DEF Altered
    <2>4. /\ IsServer(t) /\ \A f \in DOMAIN t.conns : IsConn(t.conns[f])
          /\ RoomsOf(t) /\ Kept(s, t)
          /\ t.conns[fd] = c /\ \A f \in DOMAIN s.conns \ {fd} : t.conns[f] = s.conns[f]
      BY <2>3, AlteredKeeps
    <2>5. fd \in Fd /\ DOMAIN t.conns = DOMAIN s.conns
      BY <2>4 DEF Standing, RoomsOf, RoomsOK, Kept
    <2> PICK l, m : l = s.doomed /\ m = t.doomed
      OBVIOUS
    <2>6. /\ OneEach(l) /\ n \in 0..Len(l)
          /\ \A i \in 1..Len(l) : IF i <= n THEN l[i] \notin DOMAIN s.conns
                                  ELSE l[i] \in DOMAIN s.conns /\ s.conns[l[i]].closing
          /\ \A f \in DOMAIN s.conns : s.conns[f].closing => f \in ToSet(l)
      BY <1>1 DEF DoomedOK
    <2>7. fd \notin ToSet(l) /\ Len(l) \in Nat
      <3>1. ToSet(l) = {l[i] : i \in 1..Len(l)} /\ Len(l) \in Nat
        BY <2>6, ToSetIs
      <3>2. ASSUME NEW i \in 1..Len(l) PROVE l[i] # fd
        BY <1>4, <2>6
      <3>3. QED
        BY <3>1, <3>2
    <2>8. /\ OneEach(m) /\ Len(m) = Len(l) + 1 /\ m[Len(l) + 1] = fd
          /\ \A i \in 1..Len(l) : m[i] = l[i]
          /\ ToSet(m) = ToSet(l) \cup {fd} /\ ~push_fails(l)
      <3>1. m = Append(l, fd)
        BY ONLY <2>2, l = s.doomed /\ m = t.doomed
      <3>2. Pushed(l, fd, m)
        BY <2>5, <2>6, <2>7, <3>1, PushOK
      <3>3. QED
        BY <3>2 DEF Pushed
    <2>9. DoomedOK(t, n)
      <3>1. ASSUME NEW i \in 1..Len(m)
            PROVE  IF i <= n THEN m[i] \notin DOMAIN t.conns
                   ELSE m[i] \in DOMAIN t.conns /\ t.conns[m[i]].closing
        <4>1. CASE i \in 1..Len(l)
          <5>1. m[i] = l[i] /\ (l[i] # fd => (l[i] \in DOMAIN s.conns =>
                                                t.conns[l[i]] = s.conns[l[i]]))
            BY <2>4, <2>8, <4>1
          <5>2. QED
            BY <1>2, <2>4, <2>5, <2>6, <4>1, <5>1
        <4>2. CASE i = Len(l) + 1
          <5>1. ~(i <= n)
            BY <2>6, <2>7, <4>2
          <5>2. QED
            BY <1>2, <2>4, <2>5, <2>8, <4>2, <5>1
        <4>3. i \in 1..Len(l) \/ i = Len(l) + 1
          BY <2>7, <2>8
        <4>4. QED
          BY <4>1, <4>2, <4>3
      <3>2. \A f \in DOMAIN t.conns : t.conns[f].closing => f \in ToSet(m)
        BY <2>4, <2>5, <2>6, <2>8
      <3>3. n \in 0..Len(m)
        BY <2>6, <2>7, <2>8
      <3>4. QED
        BY <2>8, <3>1, <3>2, <3>3 DEF DoomedOK
    <2>10. ~t.trapped
      BY <1>1, <2>2, <2>8
    <2>11. Standing(t, n)
      BY <2>2, <2>4, <2>9, <2>10 DEF Standing
    <2>12. Longer(l, m)
      BY <2>7, <2>8 DEF Longer
    <2>13. QED
      BY <2>2, <2>4, <2>11, <2>12 DEF c
  <1>5. QED
    BY <1>3, <1>4

-----------------------------------------------------------------------------
(* The abstract server of a server's state.                                *)

Half(c, name) ==
    [nick |-> c.nick, out |-> c.out, room |-> name, armed_write |-> c.armed_write,
     closing |-> c.closing, dirty |-> c.dirty]

NameOf(s, f) == IF s.conns[f].room = k_no_room THEN << >> ELSE s.rooms[s.conns[f].room].name
Seen(s, f) == Half(s.conns[f], NameOf(s, f))

(* Marking may put connections on the dirty list. *)
Marked(s, t) ==
    /\ ToSet(s.dirty) \subseteq ToSet(t.dirty)
    /\ ToSet(t.dirty) \subseteq ToSet(s.dirty) \cup DOMAIN s.conns
    /\ ~g_batch_flush => t.dirty = s.dirty

(* t is s after connection fd became v in the abstract server. *)
Acts(s, t, n, fd, v) ==
    /\ Standing(t, n) /\ Kept(s, t) /\ Marked(s, t) /\ (DirtyOK(s) => DirtyOK(t))
    /\ Longer(s.doomed, t.doomed) /\ Seen(t, fd) = v
    /\ \A f \in DOMAIN s.conns \ {fd} : t.conns[f] = s.conns[f]

LEMMA KeptNames ==
    ASSUME NEW s, NEW t, Kept(s, t), NEW f \in DOMAIN s.conns
    PROVE  NameOf(t, f) = NameOf(s, f)
  BY DEF Kept, NameOf

LEMMA ActsNot ==
    ASSUME NEW s, NEW n, Standing(s, n), NEW fd
    PROVE  Acts(s, s, n, fd, Seen(s, fd))
  <1>1. Kept(s, s) /\ Marked(s, s) /\ Longer(s.doomed, s.doomed)
    BY DEF Kept, Marked, Longer
  <1>2. QED
    BY <1>1 DEF Acts

LEMMA ActsTwice ==
    ASSUME NEW s, NEW t, NEW u, NEW n, NEW fd, NEW v, NEW w,
           Acts(s, t, n, fd, v), Acts(t, u, n, fd, w)
    PROVE  Acts(s, u, n, fd, w)
  <1>1. Kept(s, t) /\ Kept(t, u) /\ Marked(s, t) /\ Marked(t, u)
    BY DEF Acts
  <1>2. Kept(s, u) /\ DOMAIN t.conns = DOMAIN s.conns
    BY <1>1 DEF Kept
  <1>3. Marked(s, u)
    BY <1>1, <1>2 DEF Marked
  <1>5. Longer(s.doomed, u.doomed)
    <2>1. Longer(s.doomed, t.doomed) /\ Longer(t.doomed, u.doomed)
      BY DEF Acts
    <2>2. QED
      BY ONLY <2>1 DEF Longer
  <1>4. QED
    BY <1>2, <1>3, <1>5 DEF Acts

(* A field of a record, set. *)
FieldSet(c, y, v, d) == d = [c EXCEPT ![y] = v]

LEMMA HalfSet ==
    ASSUME NEW c, IsConn(c), NEW name, NEW v,
           NEW y \in {"nick", "out", "armed_write", "closing", "dirty"},
           NEW d, FieldSet(c, y, v, d)
    PROVE  FieldSet(Half(c, name), y, v, Half(d, name))
  <1>1. DOMAIN c = ConnFields /\ c = [z \in DOMAIN c |-> c[z]]
    BY DEF IsConn
  <1>2. CASE y = "nick"
    BY <1>1, <1>2 DEF FieldSet, Half, ConnFields
  <1>3. CASE y = "out"
    BY <1>1, <1>3 DEF FieldSet, Half, ConnFields
  <1>4. CASE y = "armed_write"
    BY <1>1, <1>4 DEF FieldSet, Half, ConnFields
  <1>5. CASE y = "closing"
    BY <1>1, <1>5 DEF FieldSet, Half, ConnFields
  <1>6. CASE y = "dirty"
    BY <1>1, <1>6 DEF FieldSet, Half, ConnFields
  <1>7. QED
    BY <1>2, <1>3, <1>4, <1>5, <1>6

(* A connection is altered but for closing and the lists. *)
LEMMA Alters ==
    ASSUME RoomsAssumption, NEW s, NEW n, Standing(s, n), NEW fd \in DOMAIN s.conns,
           NEW c, IsConn(c), c.room = s.conns[fd].room, c.room_prev = s.conns[fd].room_prev,
           c.room_next = s.conns[fd].room_next, c.closing = s.conns[fd].closing,
           c.dirty = s.conns[fd].dirty,
           NEW t, t = [s EXCEPT !.conns = [s.conns EXCEPT ![fd] = c]]
    PROVE  /\ Acts(s, t, n, fd, Half(c, NameOf(s, fd)))
           /\ t.dirty = s.dirty /\ t.conns[fd] = c
  <1>1. /\ IsServer(s) /\ DOMAIN s = ServerFields /\ s = [x \in DOMAIN s |-> s[x]]
    BY DEF Standing, IsServer
  <1>2. /\ DOMAIN t = ServerFields /\ t = [x \in DOMAIN t |-> t[x]]
        /\ t.rooms = s.rooms /\ t.free = s.free /\ t.index = s.index
        /\ t.conns = [s.conns EXCEPT ![fd] = c] /\ t.dirty = s.dirty
        /\ t.trapped = s.trapped /\ t.doomed = s.doomed
    BY <1>1 DEF ServerFields, RoomFields
  <1>3. Altered(s, t, fd, c)
    BY <1>2 DEF Altered
  <1>4. /\ Standing(t, n) /\ Kept(s, t) /\ t.conns[fd] = c
        /\ \A f \in DOMAIN s.conns \ {fd} : t.conns[f] = s.conns[f]
    <2>1. t.doomed = s.doomed /\ t.trapped = s.trapped
      BY <1>2
    <2>2. Standing(t, n)
      BY ONLY <1>3, <2>1, RoomsAssumption, Standing(s, n), fd \in DOMAIN s.conns,
              c.closing = s.conns[fd].closing, AlteredStands
    <2>3. QED
      BY <1>3, <2>2, AlteredKeeps
  <1>5. Marked(s, t)
    BY <1>2 DEF Marked
  <1>6. DirtyOK(s) => DirtyOK(t)
    <2>1. DOMAIN t.conns = DOMAIN s.conns
      BY <1>4 DEF Kept
    <2>2. \A f \in DOMAIN s.conns : t.conns[f].dirty = s.conns[f].dirty
      BY <1>4
    <2>3. QED
      BY ONLY <2>1, <2>2, t.dirty = s.dirty, <1>2 DEF DirtyOK
  <1>7. NameOf(t, fd) = NameOf(s, fd)
    BY <1>4, KeptNames
  <1>9. Longer(s.doomed, t.doomed)
    BY <1>2 DEF Longer
  <1>8. QED
    BY <1>2, <1>4, <1>5, <1>6, <1>7, <1>9 DEF Acts, Seen

(* The helpers of server_sds.cpp do to a connection what those of          *)
(* server.cpp do.                                                          *)
LEMMA DoomActs ==
    ASSUME RoomsAssumption, NEW s, NEW n, Standing(s, n), NEW fd \in DOMAIN s.conns,
           NEW t, t = doom(s, fd)
    PROVE  Acts(s, t, n, fd, Chat!doom(Seen(s, fd))) /\ t.dirty = s.dirty
  <1>1. /\ Standing(t, n) /\ Kept(s, t) /\ t.dirty = s.dirty /\ Longer(s.doomed, t.doomed)
        /\ t.conns[fd] = [s.conns[fd] EXCEPT !.closing = TRUE]
        /\ \A f \in DOMAIN s.conns \ {fd} : t.conns[f] = s.conns[f]
    BY DoomOK
  <1>2. IsConn(s.conns[fd])
    BY DEF Standing
  <1>3. Seen(t, fd) = Chat!doom(Seen(s, fd))
    <2>1. NameOf(t, fd) = NameOf(s, fd)
      BY <1>1, KeptNames
    <2>2. FieldSet(s.conns[fd], "closing", TRUE, t.conns[fd])
      BY <1>1 DEF FieldSet
    <2>3. FieldSet(Seen(s, fd), "closing", TRUE, Seen(t, fd))
      BY <1>2, <2>1, <2>2, HalfSet DEF Seen
    <2>4. QED
      BY <2>3 DEF FieldSet, Chat!doom
  <1>4. Marked(s, t)
    BY <1>1 DEF Marked
  <1>5. DirtyOK(s) => DirtyOK(t)
    <2>1. \A f \in DOMAIN s.conns : t.conns[f].dirty = s.conns[f].dirty
      BY <1>1, <1>2 DEF IsConn, ConnFields
    <2>2. DOMAIN t.conns = DOMAIN s.conns
      BY <1>1 DEF Kept
    <2>3. QED
      BY <1>1, <2>1, <2>2 DEF DirtyOK
  <1>6. QED
    BY <1>1, <1>3, <1>4, <1>5 DEF Acts

LEMMA QueueActs ==
    ASSUME RoomsAssumption, SdsAssumption, NEW s, NEW n, Standing(s, n),
           NEW fd \in DOMAIN s.conns, NEW len \in Nat, NEW t, t = queue_send(s, fd, len)
    PROVE  Acts(s, t, n, fd, Chat!queue_send(Seen(s, fd), len)) /\ t.dirty = s.dirty
  <1> PICK c : c = s.conns[fd]
    OBVIOUS
  <1> PICK x : x = Seen(s, fd)
    OBVIOUS
  <1>1. /\ IsConn(c) /\ IsServer(s) /\ DOMAIN s = ServerFields
        /\ s = [y \in DOMAIN s |-> s[y]] /\ s.conns = [f \in DOMAIN s.conns |-> s.conns[f]]
    BY DEF Standing, IsServer
  <1>2. x = Half(c, NameOf(s, fd)) /\ x.closing = c.closing /\ x.out = c.out
    BY DEF Seen, Half
  <1>3. k_header_size \in Nat /\ c.out \in Nat
    BY <1>1 DEF SdsAssumption, IsConn
  <1>4. CASE c.closing \/ len > k_max_payload
    <2>1. t = s
      BY <1>4 DEF queue_send
    <2>2. Chat!queue_send(x, len) = x
      BY <1>2, <1>4 DEF Chat!queue_send
    <2>3. QED
      BY <2>1, <2>2, ActsNot
  <1>5. CASE ~c.closing /\ len <= k_max_payload /\ c.out + (k_header_size + len) > k_send_cap
    <2>1. t = doom(s, fd)
      BY <1>5, <1>3 DEF queue_send, SdsAssumption
    <2>2. x.out + k_header_size + len > k_send_cap /\ ~(len > k_max_payload)
      BY <1>2, <1>3, <1>5 DEF SdsAssumption
    <2>3. Chat!queue_send(x, len) = Chat!doom(x)
      BY <1>2, <1>5, <2>2 DEF Chat!queue_send, Chat!queue
    <2>4. QED
      BY <2>1, <2>3, DoomActs
  <1>6. CASE /\ ~c.closing /\ ~(len > k_max_payload)
             /\ ~(c.out + (k_header_size + len) > k_send_cap)
    <2> DEFINE k == c.out + (k_header_size + len)
               d == [c EXCEPT !.out = k]
    <2>1. t = [s EXCEPT !.conns = [s.conns EXCEPT ![fd] = d]]
      BY <1>1, <1>6 DEF queue_send
    <2>2. /\ IsConn(d) /\ d.room = c.room /\ d.room_prev = c.room_prev
          /\ d.room_next = c.room_next /\ d.closing = c.closing /\ d.dirty = c.dirty
      <3>1. k \in Nat
        BY <1>3
      <3> HIDE DEF k
      <3>2. QED
        BY ONLY <1>1, <3>1 DEF IsConn, ConnFields, LinkFields
    <2>3. k = x.out + k_header_size + len /\ k \in Nat
      BY <1>2, <1>3
    <2>4. Half(d, NameOf(s, fd)) = [x EXCEPT !.out = k]
      <3>1. FieldSet(c, "out", k, d)
        BY DEF FieldSet
      <3> HIDE DEF k, d
      <3>2. FieldSet(x, "out", k, Half(d, NameOf(s, fd)))
        BY <1>1, <1>2, <3>1, HalfSet
      <3>3. QED
        BY <3>2 DEF FieldSet
    <2>5. Chat!queue_send(x, len) = [x EXCEPT !.out = k]
      <3>1. ~(x.out + k_header_size + len > k_send_cap)
        BY <1>6, <2>3
      <3> HIDE DEF k
      <3>2. QED
        BY <1>2, <1>6, <2>3, <3>1 DEF Chat!queue_send, Chat!queue
    <2> HIDE DEF d
    <2>6. Acts(s, t, n, fd, Half(d, NameOf(s, fd))) /\ t.dirty = s.dirty
      BY <2>1, <2>2, Alters
    <2>7. QED
      BY <2>4, <2>5, <2>6
  <1>7. c.out + (k_header_size + len) \in Nat /\ k_send_cap \in Nat /\ k_max_payload \in Nat
    BY <1>3 DEF SdsAssumption
  <1>8. QED
    BY <1>4, <1>5, <1>6, <1>7

LEMMA FlushActs ==
    ASSUME RoomsAssumption, NEW s, NEW n, Standing(s, n),
           NEW fd \in DOMAIN s.conns, NEW take \in Nat, NEW t, t = flush_send(s, fd, take)
    PROVE  /\ Acts(s, t, n, fd, Chat!flush_send(Seen(s, fd), fd \in broken, take))
           /\ t.dirty = s.dirty
  <1> PICK c : c = s.conns[fd]
    OBVIOUS
  <1> PICK x : x = Seen(s, fd)
    OBVIOUS
  <1>1. /\ IsConn(c) /\ IsServer(s) /\ DOMAIN s = ServerFields /\ c.out \in Nat
        /\ s = [y \in DOMAIN s |-> s[y]] /\ s.conns = [f \in DOMAIN s.conns |-> s.conns[f]]
    BY DEF Standing, IsServer, IsConn
  <1>2. x = Half(c, NameOf(s, fd)) /\ x.closing = c.closing /\ x.out = c.out
    BY DEF Seen, Half
  <1>3. CASE c.out > 0 /\ fd \in broken
    <2>1. t = doom(s, fd)
      BY <1>3 DEF flush_send
    <2>2. Chat!flush_send(x, fd \in broken, take) = Chat!doom(x)
      BY <1>2, <1>3 DEF Chat!flush_send
    <2>3. QED
      BY <2>1, <2>2, DoomActs
  <1>4. CASE ~(c.out > 0 /\ fd \in broken)
    <2> DEFINE k == IF take < c.out THEN c.out - take ELSE 0
               d == [c EXCEPT !.out = k]
               u == [s EXCEPT !.conns = [s.conns EXCEPT ![fd] = d]]
               e == [d EXCEPT !.armed_write = k > 0]
    <2>1. k \in Nat
      BY <1>1
    <2>2. /\ IsConn(d) /\ d.room = c.room /\ d.room_prev = c.room_prev
          /\ d.room_next = c.room_next /\ d.closing = c.closing /\ d.dirty = c.dirty
          /\ d.out = k
      <3> HIDE DEF k
      <3>1. QED
        BY <1>1, <2>1 DEF IsConn, ConnFields, LinkFields
    <2>3. t = update_epoll_mask(u, fd)
      BY <1>1, <1>4 DEF flush_send
    <2>4. Half(d, NameOf(s, fd)) = [x EXCEPT !.out = k]
      <3>1. FieldSet(c, "out", k, d)
        BY DEF FieldSet
      <3> HIDE DEF k, d
      <3>2. FieldSet(x, "out", k, Half(d, NameOf(s, fd)))
        BY <1>1, <1>2, <3>1, HalfSet
      <3>3. QED
        BY <3>2 DEF FieldSet
    <2>5. Chat!flush_send(x, fd \in broken, take) = [[x EXCEPT !.out = k] EXCEPT !.armed_write = k > 0]
      <3>1. Chat!flush_send(x, fd \in broken, take)
              = Chat!update_epoll_mask([x EXCEPT !.out = IF take < x.out THEN x.out - take ELSE 0])
        BY <1>2, <1>4 DEF Chat!flush_send
      <3>2. (IF take < x.out THEN x.out - take ELSE 0) = k
        BY <1>2
      <3>3. [x EXCEPT !.out = k].out = k
        BY <1>2 DEF Half
      <3> HIDE DEF k
      <3>4. QED
        BY <3>1, <3>2, <3>3 DEF Chat!update_epoll_mask
    <2> HIDE DEF k
    <2>6. /\ Acts(s, u, n, fd, Half(d, NameOf(s, fd))) /\ u.dirty = s.dirty /\ u.conns[fd] = d
      <3> HIDE DEF d
      <3>1. QED
        BY <2>2, Alters
    <2>7. /\ Standing(u, n) /\ Kept(s, u) /\ fd \in DOMAIN u.conns
          /\ NameOf(u, fd) = NameOf(s, fd)
      <3>1. Standing(u, n) /\ Kept(s, u)
        BY <2>6 DEF Acts
      <3> HIDE DEF u
      <3>2. QED
        BY <3>1, KeptNames DEF Kept
    <2>8. t = [u EXCEPT !.conns = [u.conns EXCEPT ![fd] = e]]
      <3> HIDE DEF u, d
      <3>1. u.conns[fd].out = k /\ u.conns[fd] = d
        BY <2>2, <2>6
      <3>2. u = [y \in DOMAIN u |-> u[y]] /\ u.conns = [f \in DOMAIN u.conns |-> u.conns[f]]
        BY <2>7 DEF Standing, IsServer
      <3>3. t = [u EXCEPT !.conns[fd].armed_write = k > 0]
        BY <2>3, <3>1 DEF update_epoll_mask
      <3>4. QED
        BY <3>1, <3>2, <3>3
    <2>9. /\ IsConn(e) /\ e.room = d.room /\ e.room_prev = d.room_prev
          /\ e.room_next = d.room_next /\ e.closing = d.closing /\ e.dirty = d.dirty
      <3> HIDE DEF d
      <3>1. QED
        BY <2>2 DEF IsConn, ConnFields, LinkFields
    <2>10. Half(e, NameOf(s, fd)) = [Half(d, NameOf(s, fd)) EXCEPT !.armed_write = k > 0]
      <3>1. FieldSet(d, "armed_write", k > 0, e)
        BY DEF FieldSet
      <3> HIDE DEF d, e
      <3>2. FieldSet(Half(d, NameOf(s, fd)), "armed_write", k > 0, Half(e, NameOf(s, fd)))
        BY <2>2, <3>1, HalfSet
      <3>3. QED
        BY <3>2 DEF FieldSet
    <2> HIDE DEF u, d, e
    <2>11. Acts(u, t, n, fd, Half(e, NameOf(u, fd))) /\ t.dirty = u.dirty
      BY <2>6, <2>7, <2>8, <2>9, Alters
    <2>12. Acts(s, t, n, fd, Half(e, NameOf(s, fd)))
      BY <2>6, <2>7, <2>11, ActsTwice
    <2>13. QED
      BY <2>4, <2>5, <2>6, <2>10, <2>11, <2>12
  <1>5. QED
    BY <1>3, <1>4

LEMMA MarkActs ==
    ASSUME RoomsAssumption, NEW s, NEW n, Sound(s, n), g_batch_flush,
           NEW fd \in DOMAIN s.conns, NEW t, t = mark_dirty(s, fd)
    PROVE  Acts(s, t, n, fd, Chat!mark_dirty(Seen(s, fd)))
  <1> PICK c : c = s.conns[fd]
    OBVIOUS
  <1> PICK x : x = Seen(s, fd)
    OBVIOUS
  <1>1. /\ IsConn(c) /\ IsServer(s) /\ DOMAIN s = ServerFields /\ Standing(s, n) /\ DirtyOK(s)
        /\ s = [y \in DOMAIN s |-> s[y]] /\ s.conns = [f \in DOMAIN s.conns |-> s.conns[f]]
        /\ c.dirty \in BOOLEAN
    BY DEF Sound, Standing, IsServer, IsConn
  <1>2. x = Half(c, NameOf(s, fd)) /\ x.dirty = c.dirty /\ x.out = c.out
    BY DEF Seen, Half
  <1>3. CASE ~(~c.dirty /\ c.out > 0)
    <2>1. t = s
      BY <1>3 DEF mark_dirty
    <2>2. [x EXCEPT !.dirty = x.dirty] = x
      BY <1>2 DEF Half
    <2>3. (x.dirty \/ x.out > 0) = x.dirty
      BY <1>1, <1>2, <1>3
    <2>4. Chat!mark_dirty(x) = x
      BY <2>2, <2>3 DEF Chat!mark_dirty
    <2>5. QED
      BY <1>1, <2>1, <2>4, ActsNot
  <1>4. CASE ~c.dirty /\ c.out > 0
    <2> DEFINE d == [c EXCEPT !.dirty = TRUE]
    <2>1. t = [s EXCEPT !.conns[fd].dirty = TRUE, !.trapped = @ \/ push_fails(s.dirty),
                        !.dirty = Append(@, fd)]
      BY <1>4 DEF mark_dirty
    <2>2. /\ DOMAIN t = ServerFields /\ t = [y \in DOMAIN t |-> t[y]]
          /\ t.rooms = s.rooms /\ t.free = s.free /\ t.index = s.index
          /\ t.conns = [s.conns EXCEPT ![fd] = d] /\ t.doomed = s.doomed
          /\ t.trapped = (s.trapped \/ push_fails(s.dirty)) /\ t.dirty = Append(s.dirty, fd)
      BY <1>1, <2>1 DEF ServerFields, RoomFields
    <2>3. /\ IsConn(d) /\ d.room = c.room /\ d.room_prev = c.room_prev
          /\ d.room_next = c.room_next /\ d.closing = c.closing /\ d.dirty = TRUE
      BY <1>1 DEF IsConn, ConnFields, LinkFields
    <2>4. FieldSet(c, "dirty", TRUE, d)
      BY DEF FieldSet
    <2> HIDE DEF d
    <2>5. Altered(s, t, fd, d)
      BY <2>2, <2>3 DEF Altered
    <2>6. /\ IsServer(t) /\ DOMAIN t = ServerFields
          /\ \A f \in DOMAIN t.conns : IsConn(t.conns[f])
          /\ RoomsOf(t) /\ Kept(s, t)
          /\ t.conns[fd] = d /\ \A f \in DOMAIN s.conns \ {fd} : t.conns[f] = s.conns[f]
      BY <1>1, <2>5, AlteredKeeps
    <2>7. DOMAIN t.conns = DOMAIN s.conns /\ fd \in Fd
      BY <1>1, <2>6 DEF Standing, RoomsOf, RoomsOK, Kept
    <2> PICK l : l = s.dirty
      OBVIOUS
    <2> PICK m : m = t.dirty
      OBVIOUS
    <2>8. OneEach(l) /\ \A f \in DOMAIN s.conns : s.conns[f].dirty <=> f \in ToSet(l)
      BY <1>1 DEF DirtyOK
    <2>9. /\ OneEach(m) /\ ToSet(m) = ToSet(l) \cup {fd} /\ ~push_fails(l)
      <3>1. m = Append(l, fd)
        BY <2>2
      <3>2. fd \notin ToSet(l)
        BY <1>4, <2>8
      <3>3. Pushed(l, fd, m)
        BY <2>7, <2>8, <3>1, <3>2, PushOK
      <3>4. QED
        BY <3>3 DEF Pushed
    <2>10. DirtyOK(t)
      <3>1. ASSUME NEW f \in DOMAIN t.conns PROVE t.conns[f].dirty <=> f \in ToSet(m)
        <4>1. CASE f = fd
          BY <2>3, <2>6, <2>9, <4>1
        <4>2. CASE f # fd
          BY <2>6, <2>7, <2>8, <2>9, <4>2
        <4>3. QED
          BY <4>1, <4>2
      <3>2. QED
        BY <2>9, <3>1 DEF DirtyOK
    <2>11. Standing(t, n)
      <3>1. DoomedOK(s, n) /\ ~s.trapped
        BY <1>1 DEF Standing
      <3>2. \A f \in DOMAIN s.conns : t.conns[f].closing = s.conns[f].closing
        BY <2>3, <2>6
      <3>3. t.doomed = s.doomed
        BY <2>2
      <3>4. DoomedOK(t, n)
        BY ONLY <2>7, <3>1, <3>2, <3>3 DEF DoomedOK
      <3>5. ~t.trapped
        BY <2>2, <2>9, <3>1
      <3>6. QED
        BY <2>6, <3>4, <3>5 DEF Standing
    <2>12. Marked(s, t)
      BY <2>9 DEF Marked
    <2>13. Seen(t, fd) = Chat!mark_dirty(x)
      <3>1. NameOf(t, fd) = NameOf(s, fd)
        BY <2>6, KeptNames
      <3> PICK name : name = NameOf(s, fd)
        OBVIOUS
      <3>5. FieldSet(Half(c, name), "dirty", TRUE, Half(d, name))
        BY ONLY <1>1, <2>4, HalfSet
      <3>2. FieldSet(x, "dirty", TRUE, Half(d, NameOf(s, fd)))
        BY <1>2, <3>5
      <3>3. (x.dirty \/ x.out > 0) = TRUE
        BY <1>2, <1>4
      <3>4. QED
        BY <2>6, <3>1, <3>2, <3>3 DEF Seen, FieldSet, Chat!mark_dirty
    <2>14. Longer(s.doomed, t.doomed)
      BY <2>2 DEF Longer
    <2>15. QED
      BY <2>6, <2>10, <2>11, <2>12, <2>13, <2>14 DEF Acts
  <1>5. QED
    BY <1>3, <1>4

(* What a member gets of a broadcast, in the abstract server.              *)
Hit(v, f, len, take) == Chat!flush_or_mark(Chat!queue_send(v, len), f \in broken, take)

LEMMA BatchIsFlush ==
    Chat!g_batch_flush <=> g_batch_flush
  BY DEF Chat!g_batch_flush

LEMMA SettleActs ==
    ASSUME RoomsAssumption, NEW s, NEW n, Sound(s, n), NEW fd \in DOMAIN s.conns,
           NEW take \in Nat, NEW t, t = flush_or_mark(s, fd, take)
    PROVE  Acts(s, t, n, fd, Chat!flush_or_mark(Seen(s, fd), fd \in broken, take))
  <1>1. CASE g_batch_flush
    <2>1. t = mark_dirty(s, fd)
      BY <1>1 DEF flush_or_mark
    <2>2. Acts(s, t, n, fd, Chat!mark_dirty(Seen(s, fd)))
      BY <1>1, <2>1, MarkActs
    <2>3. QED
      BY <1>1, <2>2, BatchIsFlush DEF Chat!flush_or_mark
  <1>2. CASE ~g_batch_flush
    <2>1. t = flush_send(s, fd, take)
      BY <1>2 DEF flush_or_mark
    <2>2. Acts(s, t, n, fd, Chat!flush_send(Seen(s, fd), fd \in broken, take))
      BY <2>1, FlushActs DEF Sound
    <2>3. QED
      BY <1>2, <2>2, BatchIsFlush DEF Chat!flush_or_mark
  <1>3. QED
    BY <1>1, <1>2

LEMMA TellActs ==
    ASSUME RoomsAssumption, SdsAssumption, NEW s, NEW n, Sound(s, n), NEW fd \in DOMAIN s.conns,
           NEW len \in Nat, NEW except_fd, NEW take \in Nat,
           NEW t, t = tell(s, fd, len, except_fd, take)
    PROVE  Acts(s, t, n, fd, IF fd = except_fd \/ s.conns[fd].closing THEN Seen(s, fd)
                             ELSE Hit(Seen(s, fd), fd, len, take))
  <1>1. CASE fd = except_fd \/ s.conns[fd].closing
    BY <1>1, ActsNot DEF tell, Sound
  <1>2. CASE ~(fd = except_fd \/ s.conns[fd].closing)
    <2> PICK u : u = queue_send(s, fd, len)
      OBVIOUS
    <2> PICK v : v = Chat!queue_send(Seen(s, fd), len)
      OBVIOUS
    <2>1. Acts(s, u, n, fd, v)
      BY QueueActs DEF Sound
    <2>2. Sound(u, n) /\ fd \in DOMAIN u.conns /\ Seen(u, fd) = v
      BY <2>1 DEF Acts, Sound, Kept
    <2>3. t = flush_or_mark(u, fd, take)
      BY <1>2 DEF tell
    <2>4. Acts(u, t, n, fd, Chat!flush_or_mark(v, fd \in broken, take))
      BY <2>2, <2>3, SettleActs
    <2>5. Acts(s, t, n, fd, Chat!flush_or_mark(v, fd \in broken, take))
      BY <2>1, <2>4, ActsTwice
    <2>6. QED
      BY <1>2, <2>5 DEF Hit
  <1>3. QED
    BY <1>1, <1>2
-----------------------------------------------------------------------------
(* A broadcast. *)

(* The members of a room a broadcast reaches. *)
Reached(s, idx, except_fd) ==
    {f \in DOMAIN s.conns : /\ idx # k_no_room /\ s.conns[f].room = idx
                            /\ f # except_fd /\ ~s.conns[f].closing}

(* t is s after the connections in who were sent a frame. *)
Spread(s, t, n, who, len, take) ==
    /\ Sound(t, n) /\ Kept(s, t) /\ Marked(s, t) /\ Longer(s.doomed, t.doomed)
    /\ \A f \in DOMAIN s.conns :
         Seen(t, f) = IF f \in who THEN Hit(Seen(s, f), f, len, take[f]) ELSE Seen(s, f)

LEMMA SpreadNone ==
    ASSUME NEW s, NEW n, Sound(s, n), NEW len, NEW take
    PROVE  Spread(s, s, n, {}, len, take)
  <1>1. Kept(s, s) /\ Marked(s, s) /\ Longer(s.doomed, s.doomed)
    BY DEF Kept, Marked, Longer
  <1>2. QED
    BY <1>1 DEF Spread

LEMMA SpreadOne ==
    ASSUME RoomsAssumption, SdsAssumption, NEW s, NEW n, NEW t, NEW who, NEW len \in Nat,
           NEW take \in [Fd -> Nat], Spread(s, t, n, who, len, take),
           NEW fd \in DOMAIN s.conns, fd \notin who, NEW except_fd,
           NEW u, u = tell(t, fd, len, except_fd, take[fd])
    PROVE  Spread(s, u, n, IF fd = except_fd \/ s.conns[fd].closing THEN who
                           ELSE who \cup {fd}, len, take)
  <1> DEFINE all == IF fd = except_fd \/ s.conns[fd].closing THEN who ELSE who \cup {fd}
             v == IF fd = except_fd \/ t.conns[fd].closing THEN Seen(t, fd)
                  ELSE Hit(Seen(t, fd), fd, len, take[fd])
  <1>1. /\ Sound(t, n) /\ Kept(s, t) /\ Marked(s, t) /\ Seen(t, fd) = Seen(s, fd)
        /\ \A f \in DOMAIN s.conns :
             Seen(t, f) = IF f \in who THEN Hit(Seen(s, f), f, len, take[f]) ELSE Seen(s, f)
    BY DEF Spread
  <1>2. DOMAIN t.conns = DOMAIN s.conns /\ fd \in Fd
    BY <1>1 DEF Kept, Sound, Standing, RoomsOf, RoomsOK
  <1>3. take[fd] \in Nat
    BY <1>2
  <1>4. Acts(t, u, n, fd, v)
    BY <1>1, <1>2, <1>3, TellActs
  <1>5. t.conns[fd].closing = s.conns[fd].closing
    BY <1>1 DEF Seen, Half
  <1>6. v = IF fd \in all THEN Hit(Seen(s, fd), fd, len, take[fd]) ELSE Seen(s, fd)
    BY <1>1, <1>5
  <1> HIDE DEF v
  <1>7. Sound(u, n) /\ Kept(s, u) /\ Marked(s, u)
    <2>1. /\ Standing(u, n) /\ Kept(t, u) /\ Marked(t, u) /\ DirtyOK(u)
      BY <1>1, <1>4 DEF Acts, Sound
    <2>2. Kept(s, u)
      BY ONLY <1>1, <2>1 DEF Kept
    <2>3. Marked(s, u)
      BY ONLY <1>1, <1>2, <2>1 DEF Marked
    <2>4. QED
      BY <2>1, <2>2, <2>3 DEF Sound
  <1>8. ASSUME NEW f \in DOMAIN s.conns, f # fd
        PROVE  Seen(u, f) = Seen(t, f)
    <2>1. u.conns[f] = t.conns[f] /\ Kept(t, u)
      BY <1>2, <1>4, <1>8 DEF Acts
    <2>2. NameOf(u, f) = NameOf(t, f)
      BY <1>2, <2>1, KeptNames
    <2>3. QED
      BY <2>1, <2>2 DEF Seen
  <1>9. ASSUME NEW f \in DOMAIN s.conns
        PROVE  Seen(u, f) = IF f \in all THEN Hit(Seen(s, f), f, len, take[f]) ELSE Seen(s, f)
    <2>1. CASE f = fd
      <3>1. Seen(u, fd) = v
        BY <1>4 DEF Acts
      <3>2. QED
        BY <1>6, <2>1, <3>1
    <2>2. CASE f # fd
      <3>1. f \in all <=> f \in who
        BY <2>2
      <3>2. QED
        BY <1>1, <1>8, <2>2, <3>1
    <2>3. QED
      BY <2>1, <2>2
  <1>10. Longer(s.doomed, u.doomed)
    <2>1. Longer(s.doomed, t.doomed) /\ Longer(t.doomed, u.doomed)
      BY <1>4 DEF Spread, Acts
    <2>2. QED
      BY ONLY <2>1 DEF Longer
  <1>11. QED
    BY <1>7, <1>9, <1>10 DEF Spread

(* What a broadcast has made of s after n of the connections met. *)
Telling(s, met, len, except_fd, take) ==
    LET told[n \in 0..Len(met)] ==
          IF n = 0 THEN s ELSE tell(told[n - 1], met[n], len, except_fd, take[met[n]])
    IN  told

LEMMA TellingIs ==
    ASSUME NEW s, NEW met, Len(met) \in Nat, NEW len, NEW except_fd, NEW take
    PROVE  \A n \in 0..Len(met) :
             Telling(s, met, len, except_fd, take)[n] =
               IF n = 0 THEN s
               ELSE tell(Telling(s, met, len, except_fd, take)[n - 1], met[n], len, except_fd,
                         take[met[n]])
  <1> DEFINE Def(g, n) == IF n = 0 THEN s
                          ELSE tell(g[n - 1], met[n], len, except_fd, take[met[n]])
             Obeys(g, k) == g = [n \in 0..k |-> Def(g, n)]
             T == {k \in Nat : \E g : Obeys(g, k)}
  <1>1. 0 \in T
    <2> DEFINE g == [n \in 0..0 |-> s]
    <2>1. \A n \in 0..0 : g[n] = Def(g, n)
      OBVIOUS
    <2>2. Obeys(g, 0)
      BY <2>1
    <2>3. QED
      BY <2>2
  <1>2. ASSUME NEW k \in T PROVE k + 1 \in T
    <2> HIDE DEF Def
    <2>1. PICK g : Obeys(g, k)
      OBVIOUS
    <2> DEFINE h == [n \in 0..(k + 1) |-> IF n <= k THEN g[n] ELSE Def(g, n)]
    <2>2. ASSUME NEW n \in 0..(k + 1) PROVE h[n] = Def(h, n)
      <3>1. CASE n <= k
        <4>1. n \in 0..k /\ h[n] = g[n] /\ g[n] = Def(g, n)
          BY <2>1, <3>1
        <4>2. n = 0 \/ (n - 1 \in 0..(k + 1) /\ n - 1 <= k)
          BY <3>1
        <4>3. Def(g, n) = Def(h, n)
          BY <4>2 DEF Def
        <4>4. QED
          BY <4>1, <4>3
      <3>2. CASE ~(n <= k)
        <4>1. n - 1 \in 0..(k + 1) /\ n - 1 <= k /\ n # 0
          BY <3>2
        <4>2. Def(g, n) = Def(h, n)
          BY <4>1 DEF Def
        <4>3. QED
          BY <3>2, <4>2
      <3>3. QED
        BY <3>1, <3>2
    <2>3. Obeys(h, k + 1)
      BY <2>2
    <2>4. k + 1 \in Nat
      OBVIOUS
    <2> HIDE DEF h, Obeys
    <2>5. QED
      BY <2>3, <2>4
  <1>3. Len(met) \in T
    <2> HIDE DEF T
    <2>1. QED
      BY <1>1, <1>2, SetInduction
  <1>4. Telling(s, met, len, except_fd, take) = CHOOSE g : Obeys(g, Len(met))
    BY DEF Telling
  <1>5. Obeys(Telling(s, met, len, except_fd, take), Len(met))
    <2>1. \E g : Obeys(g, Len(met))
      BY <1>3
    <2> PICK told : told = Telling(s, met, len, except_fd, take)
      OBVIOUS
    <2> HIDE DEF Obeys
    <2>2. told = CHOOSE g : Obeys(g, Len(met))
      BY <1>4
    <2>3. Obeys(told, Len(met))
      BY ONLY <2>1, <2>2
    <2>4. QED
      BY <2>3
  <1> PICK told : told = Telling(s, met, len, except_fd, take)
    OBVIOUS
  <1>6. told = [n \in 0..Len(met) |-> Def(told, n)]
    BY <1>5
  <1>7. \A n \in 0..Len(met) : told[n] = Def(told, n)
    <2> HIDE DEF Def
    <2>1. QED
      BY <1>6
  <1>8. QED
    BY <1>7

(* A broadcast sends to the members of the room, once to each, but for the *)
(* closing ones and the excepted one; a dead record has no members.        *)
LEMMA BroadcastSpreads ==
    ASSUME RoomsAssumption, SdsAssumption, NEW s, NEW n, Sound(s, n),
           NEW idx \in Slots \cup {k_no_room}, NEW len \in Nat, NEW except_fd,
           NEW take \in [Fd -> Nat], NEW t, t = broadcast(s, idx, len, except_fd, take)
    PROVE  Spread(s, t, n, Reached(s, idx, except_fd), len, take)
  <1>1. RoomsOf(s) /\ RoomsOK(s.conns, s.rooms, s.free, s.index)
    BY DEF Sound, Standing, RoomsOf
  <1>2. CASE idx = k_no_room \/ ~s.rooms[idx].live
    <2>1. t = s
      BY <1>2 DEF broadcast
    <2>2. Reached(s, idx, except_fd) = {}
      <3>1. CASE idx = k_no_room
        BY <3>1 DEF Reached
      <3>2. CASE idx # k_no_room
        <4>1. MembersOf(s.conns, idx) = {}
          BY <1>1, <1>2, <3>2, DeadIsEmpty
        <4>2. QED
          BY <4>1 DEF Reached, MembersOf
      <3>3. QED
        BY <3>1, <3>2
    <2>3. QED
      BY <2>1, <2>2, SpreadNone
  <1>3. CASE idx # k_no_room /\ s.rooms[idx].live
    <2> PICK met : met = Walk(s, idx)
      OBVIOUS
    <2>1. /\ met \in Seq(MembersOf(s.conns, idx)) /\ Len(met) \in Nat
          /\ \A i, j \in 1..Len(met) : met[i] = met[j] => i = j
          /\ {met[i] : i \in 1..Len(met)} = MembersOf(s.conns, idx)
      <3>1. idx \in Slots
        BY <1>3
      <3>2. /\ met \in Seq(MembersOf(s.conns, idx))
            /\ \A i, j \in 1..Len(met) : met[i] = met[j] => i = j
            /\ {met[i] : i \in DOMAIN met} = MembersOf(s.conns, idx)
        BY <1>1, <1>3, <3>1, WalkOfRoom
      <3>3. QED
        BY <3>2
    <2> PICK told : told = Telling(s, met, len, except_fd, take)
      OBVIOUS
    <2>2. t = told[Len(met)]
      BY <1>3 DEF broadcast, Telling
    <2>3. \A k \in 0..Len(met) :
            told[k] = IF k = 0 THEN s
                      ELSE tell(told[k - 1], met[k], len, except_fd, take[met[k]])
      BY <2>1, TellingIs
    <2> DEFINE First(k) == {f \in Reached(s, idx, except_fd) : \E i \in 1..k : met[i] = f}
               T == {k \in Nat : k <= Len(met) => Spread(s, told[k], n, First(k), len, take)}
    <2>4. 0 \in T
      <3>1. First(0) = {} /\ told[0] = s
        BY <2>1, <2>3
      <3>2. Spread(s, s, n, {}, len, take)
        BY SpreadNone
      <3> HIDE DEF First
      <3>3. QED
        BY <3>1, <3>2
    <2>5. ASSUME NEW k \in T, k + 1 <= Len(met)
          PROVE  Spread(s, told[k + 1], n, First(k + 1), len, take)
      <3> PICK fd : fd = met[k + 1]
        OBVIOUS
      <3> PICK u : u = told[k]
        OBVIOUS
      <3>1. k \in Nat /\ k + 1 \in 1..Len(met) /\ k <= Len(met)
        BY <2>1, <2>5
      <3>2. Spread(s, u, n, First(k), len, take)
        BY <3>1
      <3>3. fd \in MembersOf(s.conns, idx)
        BY <2>1, <3>1
      <3>4. fd \in DOMAIN s.conns /\ s.conns[fd].room = idx
        BY <3>3 DEF MembersOf
      <3>5. \A i \in 1..k : met[i] # fd
        BY <2>1, <3>1
      <3>6. fd \notin First(k)
        BY <3>5
      <3>7. told[k + 1] = tell(u, fd, len, except_fd, take[fd])
        BY <2>3, <3>1
      <3>8. First(k + 1) = IF fd = except_fd \/ s.conns[fd].closing THEN First(k)
                           ELSE First(k) \cup {fd}
        <4>1. 1..(k + 1) = 1..k \cup {k + 1}
          BY <3>1
        <4>2. fd \in Reached(s, idx, except_fd) <=> ~(fd = except_fd \/ s.conns[fd].closing)
          BY <1>3, <3>4 DEF Reached
        <4>3. QED
          BY <4>1, <4>2
      <3> HIDE DEF First
      <3> PICK who : who = First(k)
        OBVIOUS
      <3>9. Spread(s, told[k + 1], n, IF fd = except_fd \/ s.conns[fd].closing THEN who
                                      ELSE who \cup {fd}, len, take)
        BY ONLY RoomsAssumption, SdsAssumption, who = First(k), len \in Nat,
                take \in [Fd -> Nat], <3>2, <3>4, <3>6, <3>7, SpreadOne
      <3>10. QED
        BY <3>8, <3>9
    <2> HIDE DEF First
    <2>6. \A k \in T \cap Nat : k + 1 \in T
      BY <2>5
    <2>7. Len(met) \in T
      <3> HIDE DEF T
      <3>1. QED
        BY <2>1, <2>4, <2>6, SetInduction
    <2>8. First(Len(met)) = Reached(s, idx, except_fd)
      <3> USE DEF First
      <3>1. \A f \in Reached(s, idx, except_fd) : f \in MembersOf(s.conns, idx)
        BY DEF Reached, MembersOf
      <3>2. QED
        BY <2>1, <3>1
    <2>9. QED
      BY <2>1, <2>2, <2>7, <2>8
  <1>4. QED
    BY <1>2, <1>3

-----------------------------------------------------------------------------
(* The pass over the dirty list. *)

(* What the pass makes of a connection on the list, in the abstract server. *)
Clean(v) == [v EXCEPT !.dirty = FALSE]
Flushed(v, f, take) ==
    IF Clean(v).closing THEN Clean(v) ELSE Chat!flush_send(Clean(v), f \in broken, take)

(* The flag of what is flushed is off. *)
LEMMA FlushedClean ==
    ASSUME NEW c, IsConn(c), NEW name, NEW f, NEW take
    PROVE  Flushed(Half(c, name), f, take).dirty = FALSE
  <1>1. Clean(Half(c, name)).dirty = FALSE
    BY DEF Clean, Half
  <1>2. Chat!flush_send(Clean(Half(c, name)), f \in broken, take).dirty = FALSE
    BY DEF Clean, Half, Chat!flush_send, Chat!doom, Chat!update_epoll_mask
  <1>3. QED
    BY <1>1, <1>2 DEF Flushed

(* t is s after the dirty connections in who were flushed; the list stays. *)
Swept(s, t, n, who, take) ==
    /\ Standing(t, n) /\ Kept(s, t) /\ t.dirty = s.dirty
    /\ \A f \in DOMAIN s.conns :
         Seen(t, f) = IF f \in who THEN Flushed(Seen(s, f), f, take[f]) ELSE Seen(s, f)

(* The flag of a connection taken off. *)
LEMMA CleanOne ==
    ASSUME RoomsAssumption, NEW s, NEW n, Standing(s, n), NEW fd \in DOMAIN s.conns,
           NEW t, t = [s EXCEPT !.conns[fd].dirty = FALSE]
    PROVE  /\ Standing(t, n) /\ Kept(s, t) /\ t.dirty = s.dirty
           /\ Seen(t, fd) = Clean(Seen(s, fd))
           /\ t.conns[fd].closing = s.conns[fd].closing
           /\ \A f \in DOMAIN s.conns \ {fd} : t.conns[f] = s.conns[f]
  <1> PICK c : c = s.conns[fd]
    OBVIOUS
  <1> PICK d : d = [c EXCEPT !.dirty = FALSE]
    OBVIOUS
  <1>1. /\ IsConn(c) /\ IsServer(s) /\ DOMAIN s = ServerFields
        /\ s = [y \in DOMAIN s |-> s[y]] /\ s.conns = [f \in DOMAIN s.conns |-> s.conns[f]]
    BY DEF Standing, IsServer
  <1>2. /\ DOMAIN t = ServerFields /\ t = [y \in DOMAIN t |-> t[y]]
        /\ t.rooms = s.rooms /\ t.free = s.free /\ t.index = s.index
        /\ t.conns = [s.conns EXCEPT ![fd] = d] /\ t.dirty = s.dirty
        /\ t.trapped = s.trapped /\ t.doomed = s.doomed
    BY <1>1 DEF ServerFields, RoomFields
  <1>3. /\ IsConn(d) /\ d.room = c.room /\ d.room_prev = c.room_prev
        /\ d.room_next = c.room_next /\ d.closing = c.closing
    BY <1>1 DEF IsConn, ConnFields, LinkFields
  <1>4. FieldSet(c, "dirty", FALSE, d)
    BY DEF FieldSet
  <1>5. Altered(s, t, fd, d)
    BY <1>2, <1>3 DEF Altered
  <1>6. /\ Standing(t, n) /\ Kept(s, t) /\ t.conns[fd] = d
        /\ \A f \in DOMAIN s.conns \ {fd} : t.conns[f] = s.conns[f]
    <2>1. Standing(t, n)
      <3>1. d.closing = s.conns[fd].closing
        BY <1>3
      <3>2. QED
        BY ONLY RoomsAssumption, Standing(s, n), fd \in DOMAIN s.conns, <1>2, <1>5, <3>1,
                AlteredStands
    <2>2. QED
      BY <1>5, <2>1, AlteredKeeps
  <1>7. Seen(t, fd) = Clean(Seen(s, fd))
    <2> PICK name : name = NameOf(s, fd)
      OBVIOUS
    <2>1. NameOf(t, fd) = name
      BY <1>6, KeptNames
    <2>2. FieldSet(Half(c, name), "dirty", FALSE, Half(d, name))
      BY ONLY <1>1, <1>4, HalfSet
    <2>3. QED
      BY <1>6, <2>1, <2>2 DEF Seen, FieldSet, Clean
  <1>8. QED
    BY <1>2, <1>3, <1>6, <1>7

LEMMA SweptOne ==
    ASSUME RoomsAssumption, NEW s, NEW n, NEW t, NEW who, NEW take \in [Fd -> Nat],
           Swept(s, t, n, who, take), NEW fd \in DOMAIN s.conns, fd \notin who,
           NEW u, u = flush_entry(t, fd, take[fd])
    PROVE  Swept(s, u, n, who \cup {fd}, take)
  <1>1. /\ Standing(t, n) /\ Kept(s, t) /\ t.dirty = s.dirty /\ Seen(t, fd) = Seen(s, fd)
        /\ \A f \in DOMAIN s.conns :
             Seen(t, f) = IF f \in who THEN Flushed(Seen(s, f), f, take[f]) ELSE Seen(s, f)
    BY DEF Swept
  <1>2. DOMAIN t.conns = DOMAIN s.conns /\ fd \in Fd /\ fd \in DOMAIN t.conns
    BY <1>1 DEF Kept, Standing, RoomsOf, RoomsOK
  <1>3. take[fd] \in Nat
    BY <1>2
  <1> PICK w : w = [t EXCEPT !.conns[fd].dirty = FALSE]
    OBVIOUS
  <1>4. /\ Standing(w, n) /\ Kept(t, w) /\ w.dirty = t.dirty
        /\ Seen(w, fd) = Clean(Seen(s, fd)) /\ w.conns[fd].closing = t.conns[fd].closing
        /\ \A f \in DOMAIN t.conns \ {fd} : w.conns[f] = t.conns[f]
    BY <1>1, <1>2, CleanOne
  <1>5. DOMAIN w.conns = DOMAIN s.conns /\ Clean(Seen(s, fd)).closing = t.conns[fd].closing
    <2>1. DOMAIN w.conns = DOMAIN s.conns
      BY <1>2, <1>4 DEF Kept
    <2>2. Seen(w, fd).closing = w.conns[fd].closing
      BY DEF Seen, Half
    <2>3. QED
      BY <1>4, <2>1, <2>2
  <1>6. /\ Standing(u, n) /\ Kept(w, u) /\ u.dirty = w.dirty
        /\ Seen(u, fd) = Flushed(Seen(s, fd), fd, take[fd])
        /\ \A f \in DOMAIN w.conns \ {fd} : u.conns[f] = w.conns[f]
    <2>1. CASE t.conns[fd].closing
      <3>1. u = w
        BY <1>2, <2>1 DEF flush_entry, live
      <3>2. Kept(w, w)
        BY DEF Kept
      <3>3. QED
        BY <1>4, <1>5, <2>1, <3>1, <3>2 DEF Flushed
    <2>2. CASE ~t.conns[fd].closing
      <3>1. u = flush_send(w, fd, take[fd])
        BY <1>2, <2>2 DEF flush_entry, live
      <3>2. /\ Acts(w, u, n, fd, Chat!flush_send(Seen(w, fd), fd \in broken, take[fd]))
            /\ u.dirty = w.dirty
        BY ONLY RoomsAssumption, fd \in DOMAIN s.conns, <1>3, <1>4, <1>5, <3>1, FlushActs
      <3>3. QED
        BY <1>4, <1>5, <2>2, <3>2 DEF Acts, Flushed
    <2>3. QED
      BY <2>1, <2>2
  <1>7. Kept(s, u)
    BY ONLY <1>1, <1>4, <1>6 DEF Kept
  <1>8. ASSUME NEW f \in DOMAIN s.conns, f # fd
        PROVE  Seen(u, f) = Seen(t, f)
    <2>1. u.conns[f] = t.conns[f]
      BY <1>2, <1>4, <1>5, <1>6, <1>8
    <2>2. NameOf(u, f) = NameOf(s, f) /\ NameOf(t, f) = NameOf(s, f)
      BY <1>1, <1>7, KeptNames
    <2>3. QED
      BY <2>1, <2>2 DEF Seen
  <1>9. ASSUME NEW f \in DOMAIN s.conns
        PROVE  Seen(u, f) = IF f \in who \cup {fd} THEN Flushed(Seen(s, f), f, take[f])
                            ELSE Seen(s, f)
    <2>1. CASE f = fd
      BY <1>6, <2>1
    <2>2. CASE f # fd
      BY <1>1, <1>8, <2>2
    <2>3. QED
      BY <2>1, <2>2
  <1>10. QED
    BY <1>1, <1>4, <1>6, <1>7, <1>9 DEF Swept
(* What flush_dirty has made of s after n entries of its list.            *)
Flushing(s, take) ==
    LET flushed[n \in 0..Len(s.dirty)] ==
          IF n = 0 THEN s ELSE flush_entry(flushed[n - 1], s.dirty[n], take[s.dirty[n]])
    IN  flushed

LEMMA FlushingIs ==
    ASSUME NEW s, Len(s.dirty) \in Nat, NEW take
    PROVE  \A n \in 0..Len(s.dirty) :
             Flushing(s, take)[n] =
               IF n = 0 THEN s
               ELSE flush_entry(Flushing(s, take)[n - 1], s.dirty[n], take[s.dirty[n]])
  <1> DEFINE Def(g, n) == IF n = 0 THEN s
                          ELSE flush_entry(g[n - 1], s.dirty[n], take[s.dirty[n]])
             Obeys(g, k) == g = [n \in 0..k |-> Def(g, n)]
             T == {k \in Nat : \E g : Obeys(g, k)}
  <1>1. 0 \in T
    <2> DEFINE g == [n \in 0..0 |-> s]
    <2>1. \A n \in 0..0 : g[n] = Def(g, n)
      OBVIOUS
    <2>2. Obeys(g, 0)
      BY <2>1
    <2>3. QED
      BY <2>2
  <1>2. ASSUME NEW k \in T PROVE k + 1 \in T
    <2> HIDE DEF Def
    <2>1. PICK g : Obeys(g, k)
      OBVIOUS
    <2> DEFINE h == [n \in 0..(k + 1) |-> IF n <= k THEN g[n] ELSE Def(g, n)]
    <2>2. ASSUME NEW n \in 0..(k + 1) PROVE h[n] = Def(h, n)
      <3>1. CASE n <= k
        <4>1. n \in 0..k /\ h[n] = g[n] /\ g[n] = Def(g, n)
          BY <2>1, <3>1
        <4>2. n = 0 \/ (n - 1 \in 0..(k + 1) /\ n - 1 <= k)
          BY <3>1
        <4>3. Def(g, n) = Def(h, n)
          BY <4>2 DEF Def
        <4>4. QED
          BY <4>1, <4>3
      <3>2. CASE ~(n <= k)
        <4>1. n - 1 \in 0..(k + 1) /\ n - 1 <= k /\ n # 0
          BY <3>2
        <4>2. Def(g, n) = Def(h, n)
          BY <4>1 DEF Def
        <4>3. QED
          BY <3>2, <4>2
      <3>3. QED
        BY <3>1, <3>2
    <2>3. Obeys(h, k + 1)
      BY <2>2
    <2>4. k + 1 \in Nat
      OBVIOUS
    <2> HIDE DEF h, Obeys
    <2>5. QED
      BY <2>3, <2>4
  <1>3. Len(s.dirty) \in T
    <2> HIDE DEF T
    <2>1. QED
      BY <1>1, <1>2, SetInduction
  <1>4. Flushing(s, take) = CHOOSE g : Obeys(g, Len(s.dirty))
    BY DEF Flushing
  <1>5. Obeys(Flushing(s, take), Len(s.dirty))
    <2>1. \E g : Obeys(g, Len(s.dirty))
      BY <1>3
    <2> PICK flushed : flushed = Flushing(s, take)
      OBVIOUS
    <2> HIDE DEF Obeys
    <2>2. flushed = CHOOSE g : Obeys(g, Len(s.dirty))
      BY <1>4
    <2>3. Obeys(flushed, Len(s.dirty))
      BY ONLY <2>1, <2>2
    <2>4. QED
      BY <2>3
  <1> PICK flushed : flushed = Flushing(s, take)
    OBVIOUS
  <1>6. flushed = [n \in 0..Len(s.dirty) |-> Def(flushed, n)]
    BY <1>5
  <1>7. \A n \in 0..Len(s.dirty) : flushed[n] = Def(flushed, n)
    <2> HIDE DEF Def
    <2>1. QED
      BY <1>6
  <1>8. QED
    BY <1>7


(* flush_dirty flushes each connection on the list once, whatever the      *)
(* order; the list ends empty and every flag is off.                       *)
LEMMA FlushSweeps ==
    ASSUME RoomsAssumption, NEW s, NEW n, Sound(s, n), NEW take \in [Fd -> Nat],
           NEW t, t = flush_dirty(s, take)
    PROVE  /\ Sound(t, n) /\ Kept(s, t) /\ t.dirty = << >>
           /\ \A f \in DOMAIN s.conns :
                Seen(t, f) = IF f \in ToSet(s.dirty) THEN Flushed(Seen(s, f), f, take[f])
                             ELSE Seen(s, f)
  <1> PICK l : l = s.dirty
    OBVIOUS
  <1>1. /\ Standing(s, n) /\ OneEach(l) /\ Len(l) \in Nat
        /\ \A f \in DOMAIN s.conns : s.conns[f].dirty <=> f \in ToSet(l)
        /\ ToSet(l) = {l[i] : i \in 1..Len(l)}
    <2>1. DirtyOK(s) /\ Standing(s, n)
      BY DEF Sound
    <2>2. OneEach(l) /\ \A f \in DOMAIN s.conns : s.conns[f].dirty <=> f \in ToSet(l)
      BY <2>1 DEF DirtyOK
    <2>3. QED
      BY <2>1, <2>2, ToSetIs
  <1> PICK flushed : flushed = Flushing(s, take)
    OBVIOUS
  <1>2. \A k \in 0..Len(l) :
          flushed[k] = IF k = 0 THEN s ELSE flush_entry(flushed[k - 1], l[k], take[l[k]])
    <2>1. Len(s.dirty) \in Nat
      BY <1>1
    <2>2. \A k \in 0..Len(s.dirty) :
            flushed[k] = IF k = 0 THEN s
                         ELSE flush_entry(flushed[k - 1], s.dirty[k], take[s.dirty[k]])
      BY <2>1, FlushingIs
    <2>3. QED
      BY <2>2
  <1> DEFINE First(k) == {f \in DOMAIN s.conns : \E i \in 1..k : l[i] = f}
             T == {k \in Nat : k <= Len(l) => Swept(s, flushed[k], n, First(k), take)}
  <1>3. 0 \in T
    <2>1. First(0) = {} /\ flushed[0] = s
      BY <1>1, <1>2
    <2>2. Swept(s, s, n, {}, take)
      BY <1>1 DEF Swept, Kept
    <2> HIDE DEF First
    <2>3. QED
      BY <2>1, <2>2
  <1>4. ASSUME NEW k \in T, k + 1 <= Len(l)
        PROVE  Swept(s, flushed[k + 1], n, First(k + 1), take)
    <2> PICK fd : fd = l[k + 1]
      OBVIOUS
    <2> PICK u : u = flushed[k]
      OBVIOUS
    <2>1. k \in Nat /\ k + 1 \in 1..Len(l) /\ k <= Len(l)
      BY <1>1, <1>4
    <2>2. Swept(s, u, n, First(k), take)
      BY <2>1
    <2>3. flushed[k + 1] = flush_entry(u, fd, take[fd])
      BY <1>2, <2>1
    <2>4. 1..(k + 1) = 1..k \cup {k + 1}
      BY <2>1
    <2>5. CASE fd \notin DOMAIN s.conns
      <3>1. DOMAIN u.conns = DOMAIN s.conns
        BY <2>2 DEF Swept, Kept
      <3>2. flushed[k + 1] = u
        BY <2>3, <2>5, <3>1 DEF flush_entry, live
      <3>3. First(k + 1) = First(k)
        BY <2>4, <2>5
      <3>4. QED
        BY <2>2, <3>2, <3>3
    <2>6. CASE fd \in DOMAIN s.conns
      <3>1. fd \notin First(k)
        <4>1. ASSUME NEW i \in 1..k PROVE l[i] # l[k + 1]
          BY <1>1, <2>1 DEF OneEach
        <4>2. QED
          BY <4>1
      <3>2. First(k + 1) = First(k) \cup {fd}
        BY <2>4, <2>6
      <3> HIDE DEF First
      <3> PICK who : who = First(k)
        OBVIOUS
      <3>3. Swept(s, flushed[k + 1], n, who \cup {fd}, take)
        BY ONLY RoomsAssumption, who = First(k), take \in [Fd -> Nat], <2>2, <2>3, <2>6,
                <3>1, SweptOne
      <3>4. QED
        BY <3>2, <3>3
    <2>7. QED
      BY <2>5, <2>6
  <1> HIDE DEF First
  <1>5. \A k \in T \cap Nat : k + 1 \in T
    BY <1>4
  <1>6. Len(l) \in T
    <2> HIDE DEF T
    <2>1. QED
      BY <1>1, <1>3, <1>5, SetInduction
  <1> PICK u : u = flushed[Len(l)]
    OBVIOUS
  <1>7. /\ Standing(u, n) /\ Kept(s, u) /\ u.dirty = l
        /\ \A f \in DOMAIN s.conns :
             Seen(u, f) = IF f \in ToSet(l) THEN Flushed(Seen(s, f), f, take[f]) ELSE Seen(s, f)
    <2>1. Swept(s, u, n, First(Len(l)), take)
      BY <1>1, <1>6
    <2>2. \A f \in DOMAIN s.conns : f \in First(Len(l)) <=> f \in ToSet(l)
      BY <1>1 DEF First
    <2>3. QED
      BY <2>1, <2>2 DEF Swept
  <1>8. t = [u EXCEPT !.dirty = << >>]
    BY DEF flush_dirty, Flushing
  <1>9. /\ IsServer(u) /\ DOMAIN u = ServerFields /\ u = [y \in DOMAIN u |-> u[y]]
        /\ \A f \in DOMAIN u.conns : IsConn(u.conns[f])
        /\ RoomsOf(u) /\ DoomedOK(u, n) /\ ~u.trapped
    BY <1>7 DEF Standing, IsServer
  <1>10. /\ DOMAIN t = ServerFields /\ t = [y \in DOMAIN t |-> t[y]]
         /\ t.rooms = u.rooms /\ t.free = u.free /\ t.index = u.index /\ t.conns = u.conns
         /\ t.doomed = u.doomed /\ t.trapped = u.trapped /\ t.dirty = << >>
    BY <1>8, <1>9 DEF ServerFields, RoomFields
  <1>11. Standing(t, n)
    <2>1. IsServer(t)
      BY <1>9, <1>10 DEF IsServer
    <2>2. RoomsOf(t) /\ DoomedOK(t, n)
      BY <1>9, <1>10 DEF RoomsOf, DoomedOK
    <2>3. QED
      BY <1>9, <1>10, <2>1, <2>2 DEF Standing
  <1>12. Kept(s, t)
    BY <1>7, <1>10 DEF Kept
  <1>13. \A f \in DOMAIN s.conns : Seen(t, f) = Seen(u, f)
    BY <1>10 DEF Seen, NameOf
  <1>14. DirtyOK(t)
    <2>1. DOMAIN t.conns = DOMAIN s.conns
      BY <1>12 DEF Kept
    <2>2. ASSUME NEW f \in DOMAIN s.conns PROVE ~t.conns[f].dirty
      <3>1. t.conns[f].dirty = Seen(u, f).dirty /\ s.conns[f].dirty = Seen(s, f).dirty
        BY <1>10 DEF Seen, Half
      <3>2. CASE f \in ToSet(l)
        <4>1. IsConn(s.conns[f])
          BY <1>1 DEF Standing
        <4>2. Flushed(Seen(s, f), f, take[f]).dirty = FALSE
          BY <4>1, FlushedClean DEF Seen
        <4>3. QED
          BY <1>7, <3>1, <3>2, <4>2
      <3>3. CASE f \notin ToSet(l)
        BY <1>1, <1>7, <3>1, <3>3
      <3>4. QED
        BY <3>2, <3>3
    <2>3. OneEach(<< >>) /\ ToSet(<< >>) = {}
      BY DEF OneEach, ToSet
    <2>4. QED
      BY <1>10, <2>1, <2>2, <2>3 DEF DirtyOK
  <1>15. QED
    BY <1>7, <1>10, <1>11, <1>12, <1>13, <1>14 DEF Sound

-----------------------------------------------------------------------------
(* The abstract state of a server.                                         *)

AConns(s) == [f \in DOMAIN s.conns |-> Seen(s, f)]

(* The rooms and the doomed connections, told from the connections. *)
RoomsFrom(C) ==
    [name \in {C[f].room : f \in DOMAIN C} \ {<< >>} |-> {f \in DOMAIN C : C[f].room = name}]
ClosingOf(C) == {f \in DOMAIN C : C[f].closing}

LEMMA ServerIs ==
    /\ Server.conns = conns /\ Server.rooms = g_rooms /\ Server.free = g_room_free
    /\ Server.index = g_room_index /\ Server.doomed = g_doomed /\ Server.dirty = g_dirty
    /\ Server.trapped = trapped /\ DOMAIN Server = ServerFields
    /\ AbsConns = AConns(Server)
  BY DEF Server, ServerFields, RoomFields, AbsConns, AConns, Seen, Half, NameOf

LEMMA ServerIsNext ==
    /\ Server'.conns = conns' /\ Server'.rooms = g_rooms' /\ Server'.free = g_room_free'
    /\ Server'.index = g_room_index' /\ Server'.doomed = g_doomed'
    /\ Server'.dirty = g_dirty' /\ Server'.trapped = trapped' /\ DOMAIN Server' = ServerFields
    /\ AbsConns' = AConns(Server')
  BY DEF Server, ServerFields, RoomFields, AbsConns, AConns, Seen, Half, NameOf

(* What a helper made of the server is the next server. *)
LEMMA BecomesIs ==
    ASSUME NEW t, DOMAIN t = ServerFields, t = [x \in DOMAIN t |-> t[x]], Becomes_server(t)
    PROVE  Server' = t
  <1>1. Server' = [x \in DOMAIN Server' |-> Server'[x]]
    BY DEF Server
  <1>2. /\ Server'.conns = t.conns /\ Server'.rooms = t.rooms /\ Server'.free = t.free
        /\ Server'.index = t.index /\ Server'.doomed = t.doomed
        /\ Server'.dirty = t.dirty /\ Server'.trapped = t.trapped
    BY ServerIsNext DEF Becomes_server, Becomes
  <1>3. \A x \in ServerFields : Server'[x] = t[x]
    BY <1>2 DEF ServerFields, RoomFields
  <1>4. QED
    BY <1>1, <1>3, ServerIsNext

(* A room has members, and its name is no other room's. *)
LEMMA AbsRoomsAre ==
    ASSUME RoomsAssumption, RoomsOK(conns, g_rooms, g_room_free, g_room_index),
           Occupied(g_rooms)
    PROVE  AbsRooms = RoomsFrom(AbsConns)
  <1> DEFINE open == {idx \in Slots : g_rooms[idx].live}
             names == {g_rooms[idx].name : idx \in open}
             In(name) == UNION {ToSet(Walk(State, idx)) :
                                  idx \in {j \in open : g_rooms[j].name = name}}
  <1>1. /\ \A f \in DOMAIN conns : conns[f].room # k_no_room => conns[f].room \in open
        /\ \A i \in open : g_rooms[i].name \in Name
        /\ \A i, j \in open : g_rooms[i].name = g_rooms[j].name => i = j
        /\ \A i \in open : i # k_no_room
    BY NotSlots DEF RoomsOK
  <1>2. ASSUME NEW i \in open
        PROVE  /\ ToSet(Walk(State, i)) = MembersOf(conns, i)
               /\ MembersOf(conns, i) # {}
    <2>1. RoomsOf(State) /\ i \in Slots /\ State.rooms[i].live /\ State.conns = conns
      BY StateIs
    <2>2. {Walk(State, i)[n] : n \in DOMAIN Walk(State, i)} = MembersOf(conns, i)
      BY <2>1, WalkOfRoom
    <2>3. Listed(conns, g_rooms, i) /\ g_rooms[i].count > 0
      BY DEF RoomsOK, Occupied
    <2>4. MembersOf(conns, i) # {}
      BY <2>3, EmptyList
    <2>5. QED
      BY <2>2, <2>4 DEF ToSet
  <1>3. \A f \in DOMAIN conns :
          /\ AbsConns[f].room = IF conns[f].room = k_no_room THEN << >>
                                ELSE g_rooms[conns[f].room].name
    BY DEF AbsConns
  <1>4. ASSUME NEW f \in DOMAIN conns, NEW i \in open
        PROVE  AbsConns[f].room = g_rooms[i].name <=> f \in MembersOf(conns, i)
    <2>1. CASE conns[f].room = k_no_room
      <3>1. g_rooms[i].name # << >>
        BY <1>1 DEF RoomsAssumption
      <3>2. QED
        BY <1>1, <1>3, <2>1, <3>1 DEF MembersOf
    <2>2. CASE conns[f].room # k_no_room
      BY <1>1, <1>3, <2>2 DEF MembersOf
    <2>3. QED
      BY <2>1, <2>2
  <1>5. DOMAIN AbsConns = DOMAIN conns
    BY DEF AbsConns
  <1>6. names = {AbsConns[f].room : f \in DOMAIN AbsConns} \ {<< >>}
    <2>1. ASSUME NEW name \in names
          PROVE  name # << >> /\ \E f \in DOMAIN conns : AbsConns[f].room = name
      <3>1. PICK i \in open : g_rooms[i].name = name
        OBVIOUS
      <3>2. PICK f : f \in MembersOf(conns, i)
        BY <1>2
      <3>3. f \in DOMAIN conns
        BY <3>2 DEF MembersOf
      <3>4. QED
        BY <1>1, <1>4, <3>1, <3>2, <3>3 DEF RoomsAssumption
    <2>2. ASSUME NEW f \in DOMAIN conns, AbsConns[f].room # << >>
          PROVE  AbsConns[f].room \in names
      <3>1. conns[f].room \in open /\ AbsConns[f].room = g_rooms[conns[f].room].name
        BY <1>1, <1>3, <2>2
      <3>2. QED
        BY <3>1
    <2> HIDE DEF names
    <2>3. QED
      BY <1>5, <2>1, <2>2
  <1>7. ASSUME NEW name \in names
        PROVE  In(name) = {f \in DOMAIN AbsConns : AbsConns[f].room = name}
    <2>1. PICK i \in open : g_rooms[i].name = name
      OBVIOUS
    <2>2. {j \in open : g_rooms[j].name = name} = {i}
      BY <1>1, <2>1
    <2>3. In(name) = ToSet(Walk(State, i))
      BY <2>2
    <2>4. In(name) = MembersOf(conns, i)
      BY <1>2, <2>3
    <2>5. \A f : f \in MembersOf(conns, i) => f \in DOMAIN conns
      BY DEF MembersOf
    <2>6. QED
      BY <1>4, <1>5, <2>1, <2>4, <2>5
  <1>8. AbsRooms = [name \in names |-> In(name)]
    BY DEF AbsRooms
  <1>9. QED
    BY <1>6, <1>7, <1>8 DEF RoomsFrom

LEMMA AbsDoomedAre ==
    ASSUME Sound(Server, reaped)
    PROVE  AbsDoomed = ClosingOf(AbsConns)
  <1> PICK l : l = g_doomed
    OBVIOUS
  <1>1. /\ OneEach(l) /\ reaped \in 0..Len(l) /\ Len(l) \in Nat
        /\ \A i \in 1..Len(l) : IF i <= reaped THEN l[i] \notin DOMAIN conns
                                ELSE l[i] \in DOMAIN conns /\ conns[l[i]].closing
        /\ \A f \in DOMAIN conns : conns[f].closing => f \in {l[i] : i \in 1..Len(l)}
    <2>1. DoomedOK(Server, reaped) /\ Server.doomed = l /\ Server.conns = conns
      BY ServerIs DEF Sound, Standing
    <2>2. OneEach(l)
      BY <2>1 DEF DoomedOK
    <2>3. QED
      BY <2>1, <2>2, ToSetIs DEF DoomedOK
  <1>2. AbsDoomed = {l[i] : i \in (reaped + 1)..Len(l)}
    BY DEF AbsDoomed
  <1>3. \A f \in DOMAIN conns : AbsConns[f].closing = conns[f].closing
    BY DEF AbsConns
  <1>4. DOMAIN AbsConns = DOMAIN conns
    BY DEF AbsConns
  <1>5. ASSUME NEW i \in (reaped + 1)..Len(l)
        PROVE  l[i] \in DOMAIN conns /\ conns[l[i]].closing
    BY <1>1
  <1>6. ASSUME NEW f \in DOMAIN conns, conns[f].closing
        PROVE  \E i \in (reaped + 1)..Len(l) : l[i] = f
    <2>1. PICK i \in 1..Len(l) : l[i] = f
      BY <1>1, <1>6
    <2>2. ~(i <= reaped)
      BY <1>1, <2>1
    <2>3. QED
      BY <1>1, <2>1, <2>2
  <1>7. QED
    BY <1>2, <1>3, <1>4, <1>5, <1>6 DEF ClosingOf

(* Between two steps of the loop. *)
Facing == Sound(Server, reaped) /\ Occupied(g_rooms)
Shown == AbsRooms = RoomsFrom(AbsConns) /\ AbsDoomed = ClosingOf(AbsConns)

LEMMA FacingShows == Facing => Shown
  <1>1. SUFFICES ASSUME Facing PROVE Shown
    OBVIOUS
  <1>2. RoomsOK(conns, g_rooms, g_room_free, g_room_index)
    BY <1>1, ServerIs DEF Facing, Sound, Standing, RoomsOf
  <1>3. AbsRooms = RoomsFrom(AbsConns)
    BY <1>1, <1>2, RoomsAssumption, AbsRoomsAre DEF Facing
  <1>4. QED
    BY <1>1, <1>3, AbsDoomedAre DEF Facing, Shown

LEMMA FacingShowsNext == (Facing => Shown)'
  <1>1. [](Facing => Shown)
    BY FacingShows, PTL
  <1>2. QED
    BY <1>1, PTL

-----------------------------------------------------------------------------
(* Connections of the abstract server change.                              *)

Grown(s, t) ==
    /\ DOMAIN t.conns = DOMAIN s.conns /\ Marked(s, t)
    /\ \A f \in DOMAIN s.conns : s.conns[f].closing => t.conns[f].closing

(* The connections in who become U[f]: what Update of EpollChat says.      *)
Upd(C, D, Q, R, open, who, U) ==
    /\ D = [f \in open |-> IF f \in who THEN U[f] ELSE C[f]]
    /\ ClosingOf(D) = (ClosingOf(C) \cap open) \cup {f \in who : U[f].closing}
    /\ R = Q \cup {f \in who : U[f].dirty}

LEMMA UpdateIs ==
    ASSUME NEW s, NEW n, NEW t, NEW m, Sound(s, n), Sound(t, m), Grown(s, t),
           NEW who \in SUBSET DOMAIN s.conns, NEW U,
           \A f \in DOMAIN s.conns : Seen(t, f) = IF f \in who THEN U[f] ELSE Seen(s, f)
    PROVE  Upd(AConns(s), AConns(t), ToSet(s.dirty), ToSet(t.dirty), DOMAIN s.conns, who, U)
  <1> PICK open : open = DOMAIN s.conns
    OBVIOUS
  <1>1. /\ DOMAIN t.conns = open /\ \A f \in open : s.conns[f].closing => t.conns[f].closing
        /\ ToSet(s.dirty) \subseteq ToSet(t.dirty)
        /\ ToSet(t.dirty) \subseteq ToSet(s.dirty) \cup open
    BY DEF Grown, Marked
  <1>2. /\ \A f \in open : s.conns[f].dirty <=> f \in ToSet(s.dirty)
        /\ \A f \in open : t.conns[f].dirty <=> f \in ToSet(t.dirty)
    BY <1>1 DEF Sound, DirtyOK
  <1>3. \A f \in open : /\ Seen(s, f).closing = s.conns[f].closing
                        /\ Seen(t, f).closing = t.conns[f].closing
                        /\ Seen(s, f).dirty = s.conns[f].dirty
                        /\ Seen(t, f).dirty = t.conns[f].dirty
    BY DEF Seen, Half
  <1>4. \A f \in open : Seen(t, f) = IF f \in who THEN U[f] ELSE Seen(s, f)
    OBVIOUS
  <1>5. AConns(t) = [f \in open |-> IF f \in who THEN U[f] ELSE AConns(s)[f]]
    BY <1>1, <1>4 DEF AConns
  <1>6. ClosingOf(AConns(t)) = (ClosingOf(AConns(s)) \cap open) \cup {f \in who : U[f].closing}
    <2>1. ClosingOf(AConns(t)) = {f \in open : t.conns[f].closing}
      BY <1>1, <1>3 DEF ClosingOf, AConns
    <2>2. ClosingOf(AConns(s)) = {f \in open : s.conns[f].closing}
      BY <1>3 DEF ClosingOf, AConns
    <2>3. QED
      BY ONLY <1>1, <1>3, <1>4, <2>1, <2>2, who \in SUBSET DOMAIN s.conns,
              open = DOMAIN s.conns
  <1>7. ToSet(t.dirty) = ToSet(s.dirty) \cup {f \in who : U[f].dirty}
    BY ONLY <1>1, <1>2, <1>3, <1>4, who \in SUBSET DOMAIN s.conns, open = DOMAIN s.conns
  <1>8. QED
    BY <1>5, <1>6, <1>7 DEF Upd

(* The rooms stay, or lose a member, or get one.                           *)
LEMMA RoomsStay ==
    ASSUME NEW C, NEW D, DOMAIN D = DOMAIN C, \A f \in DOMAIN C : D[f].room = C[f].room
    PROVE  RoomsFrom(D) = RoomsFrom(C)
  <1>1. {D[f].room : f \in DOMAIN D} = {C[f].room : f \in DOMAIN C}
    OBVIOUS
  <1>2. \A name : {f \in DOMAIN D : D[f].room = name} = {f \in DOMAIN C : C[f].room = name}
    OBVIOUS
  <1>3. QED
    BY <1>1, <1>2 DEF RoomsFrom

Lost(R, old, fd) ==
    IF old \notin DOMAIN R THEN R
    ELSE IF R[old] \ {fd} = {} THEN [y \in DOMAIN R \ {old} |-> R[y]]
    ELSE [R EXCEPT ![old] = @ \ {fd}]
Gained(R, new, fd) ==
    [y \in DOMAIN R \cup {new} |->
       IF y = new THEN {fd} \cup IF new \in DOMAIN R THEN R[new] ELSE {} ELSE R[y]]

(* D is C without fd, which was in the room old.                            *)
Gone(C, D, old, fd) ==
    /\ fd \in DOMAIN C /\ C[fd].room = old
    /\ DOMAIN C \ {fd} \subseteq DOMAIN D /\ DOMAIN D \subseteq DOMAIN C
    /\ \A f \in DOMAIN C \ {fd} : D[f].room = C[f].room
    /\ fd \in DOMAIN D => D[fd].room = << >>

LEMMA RoomsLose ==
    ASSUME NEW C, NEW D, NEW old, NEW fd, Gone(C, D, old, fd)
    PROVE  RoomsFrom(D) = Lost(RoomsFrom(C), old, fd)
  <1> USE DEF Gone
  <1> SUFFICES RoomsFrom(D) = IF old \notin DOMAIN RoomsFrom(C) THEN RoomsFrom(C)
                               ELSE IF RoomsFrom(C)[old] \ {fd} = {}
                               THEN [y \in DOMAIN RoomsFrom(C) \ {old} |-> RoomsFrom(C)[y]]
                               ELSE [RoomsFrom(C) EXCEPT ![old] = @ \ {fd}]
    BY DEF Lost
  <1> DEFINE names(E) == {E[f].room : f \in DOMAIN E} \ {<< >>}
             In(E, name) == {f \in DOMAIN E : E[f].room = name}
  <1>1. \A name \in names(C) \cup names(D) : name # old => In(D, name) = In(C, name)
    OBVIOUS
  <1>2. old # << >> => In(D, old) = In(C, old) \ {fd}
    OBVIOUS
  <1>3. \A name : name # old => (name \in names(D) <=> name \in names(C))
    OBVIOUS
  <1>4. old \in names(D) <=> old # << >> /\ In(D, old) # {}
    OBVIOUS
  <1>5. old \in names(C) <=> old # << >>
    OBVIOUS
  <1>6. RoomsFrom(C) = [name \in names(C) |-> In(C, name)]
    BY DEF RoomsFrom
  <1>7. RoomsFrom(D) = [name \in names(D) |-> In(D, name)]
    BY DEF RoomsFrom
  <1> HIDE DEF names, In
  <1>8. CASE old = << >>
    <2>4. \A name : name \in names(D) <=> name \in names(C)
      BY <1>3, <1>4, <1>5, <1>8
    <2>1. names(D) = names(C) /\ old \notin names(C)
      BY <1>5, <1>8, <2>4
    <2>2. \A name \in names(C) : In(D, name) = In(C, name)
      BY <1>1, <2>1
    <2>3. QED
      BY <1>6, <1>7, <2>1, <2>2
  <1>9. CASE old # << >> /\ In(C, old) \ {fd} = {}
    <2>1. names(D) = names(C) \ {old} /\ old \in names(C)
      BY <1>2, <1>3, <1>4, <1>5, <1>9
    <2>2. \A name \in names(D) : In(D, name) = In(C, name)
      BY <1>1, <2>1
    <2>3. QED
      BY <1>6, <1>7, <1>9, <2>1, <2>2
  <1>10. CASE old # << >> /\ In(C, old) \ {fd} # {}
    <2>4. \A name : name \in names(D) <=> name \in names(C)
      BY <1>2, <1>3, <1>4, <1>5, <1>10
    <2>1. names(D) = names(C) /\ old \in names(C)
      BY <1>5, <1>10, <2>4
    <2>2. \A name \in names(C) : In(D, name) = IF name = old THEN In(C, old) \ {fd}
                                               ELSE In(C, name)
      BY <1>1, <1>2, <1>10, <2>1
    <2> PICK R : R = RoomsFrom(C)
      OBVIOUS
    <2>5. DOMAIN R = names(C) /\ R = [name \in names(C) |-> R[name]] /\ R[old] = In(C, old)
          /\ \A name \in names(C) : R[name] = In(C, name)
      BY <1>6, <2>1
    <2>6. [R EXCEPT ![old] = @ \ {fd}] = [name \in names(C) |-> In(D, name)]
      <3> DEFINE S == [R EXCEPT ![old] = @ \ {fd}]
      <3>1. DOMAIN S = names(C) /\ S = [name \in names(C) |-> S[name]]
        BY <2>5
      <3>2. \A name \in names(C) : S[name] = IF name = old THEN R[old] \ {fd} ELSE R[name]
        BY <2>5
      <3>3. \A name \in names(C) : S[name] = In(D, name)
        BY <2>2, <2>5, <3>2
      <3>4. S = [name \in names(C) |-> In(D, name)]
        <4> HIDE DEF S
        <4>1. QED
          BY <3>1, <3>3
      <3>5. QED
        BY <3>4
    <2>3. QED
      BY <1>7, <1>10, <2>1, <2>5, <2>6
  <1>11. QED
    BY <1>8, <1>9, <1>10

LEMMA RoomsGain ==
    ASSUME NEW C, NEW D, DOMAIN D = DOMAIN C, NEW fd \in DOMAIN C, NEW new, new # << >>,
           C[fd].room = << >>, D[fd].room = new,
           \A f \in DOMAIN C \ {fd} : D[f].room = C[f].room
    PROVE  RoomsFrom(D) = Gained(RoomsFrom(C), new, fd)
  <1> SUFFICES RoomsFrom(D) =
             [y \in DOMAIN RoomsFrom(C) \cup {new} |->
                IF y = new THEN {fd} \cup IF new \in DOMAIN RoomsFrom(C) THEN RoomsFrom(C)[new]
                                          ELSE {}
                ELSE RoomsFrom(C)[y]]
    BY DEF Gained
  <1> DEFINE names(E) == {E[f].room : f \in DOMAIN E} \ {<< >>}
             In(E, name) == {f \in DOMAIN E : E[f].room = name}
  <1>1. \A name : name # new /\ name # << >> => In(D, name) = In(C, name)
    OBVIOUS
  <1>2. In(D, new) = In(C, new) \cup {fd}
    OBVIOUS
  <1>3. \A name : name \in names(D) <=> name \in names(C) \cup {new}
    OBVIOUS
  <1>4. new \notin names(C) => In(C, new) = {}
    OBVIOUS
  <1>5. << >> \notin names(C)
    OBVIOUS
  <1>6. RoomsFrom(C) = [name \in names(C) |-> In(C, name)]
    BY DEF RoomsFrom
  <1>7. RoomsFrom(D) = [name \in names(D) |-> In(D, name)]
    BY DEF RoomsFrom
  <1> HIDE DEF names, In
  <1>8. names(D) = names(C) \cup {new}
    BY <1>3
  <1>9. \A name \in names(D) :
          In(D, name) = IF name = new
                        THEN {fd} \cup IF new \in names(C) THEN In(C, new) ELSE {}
                        ELSE In(C, name)
    BY <1>1, <1>2, <1>4, <1>5, <1>8
  <1>10. QED
    BY <1>6, <1>7, <1>8, <1>9

(* Relinking leaves the rest of a connection, and both lists, alone.       *)
LEMMA RelinkSound ==
    ASSUME NEW s, NEW n, Sound(s, n), NEW t, Relinked(s, t), RoomsOf(t)
    PROVE  /\ Sound(t, n) /\ Grown(s, t) /\ t.dirty = s.dirty
           /\ \A f \in DOMAIN s.conns : Seen(t, f) = [Seen(s, f) EXCEPT !.room = NameOf(t, f)]
           /\ \A f \in DOMAIN s.conns : t.conns[f].closing = s.conns[f].closing
  <1>1. /\ IsServer(t) /\ DOMAIN t = ServerFields /\ DOMAIN t.conns = DOMAIN s.conns
        /\ t.doomed = s.doomed /\ t.dirty = s.dirty /\ t.trapped = s.trapped
    BY DEF Relinked, Sound, Standing, ServerFields, RoomFields
  <1>2. ASSUME NEW f \in DOMAIN s.conns
        PROVE  /\ IsConn(t.conns[f])
               /\ t.conns[f].nick = s.conns[f].nick /\ t.conns[f].out = s.conns[f].out
               /\ t.conns[f].armed_write = s.conns[f].armed_write
               /\ t.conns[f].closing = s.conns[f].closing
               /\ t.conns[f].dirty = s.conns[f].dirty
    <2> PICK c : c = s.conns[f]
      OBVIOUS
    <2> PICK d : d = t.conns[f]
      OBVIOUS
    <2>1. IsConn(c) /\ IsLinks(d) /\ DOMAIN d = DOMAIN c /\ Rest(d) = Rest(c)
      BY <1>1 DEF Sound, Standing, Relinked, IsServer
    <2>2. \A y \in ConnFields \ LinkFields : Rest(c)[y] = c[y] /\ Rest(d)[y] = d[y]
      BY <2>1 DEF Rest, IsConn
    <2>3. \A y \in ConnFields \ LinkFields : d[y] = c[y]
      BY <2>1, <2>2
    <2>4. /\ d.nick = c.nick /\ d.out = c.out /\ d.armed_write = c.armed_write
          /\ d.closing = c.closing /\ d.dirty = c.dirty
      BY <2>3 DEF ConnFields, LinkFields
    <2>5. IsConn(d)
      BY <2>1, <2>4 DEF IsConn, IsLinks
    <2>6. QED
      BY <2>4, <2>5
  <1>3. DoomedOK(s, n) /\ DirtyOK(s) /\ ~s.trapped
    BY DEF Sound, Standing
  <1>4. DoomedOK(t, n)
    BY ONLY <1>1, <1>2, <1>3 DEF DoomedOK
  <1>5. DirtyOK(t)
    BY ONLY <1>1, <1>2, <1>3 DEF DirtyOK
  <1>6. Sound(t, n)
    BY <1>1, <1>2, <1>3, <1>4, <1>5 DEF Sound, Standing
  <1>7. Grown(s, t)
    BY <1>1, <1>2 DEF Grown, Marked
  <1>8. ASSUME NEW f \in DOMAIN s.conns
        PROVE  Seen(t, f) = [Seen(s, f) EXCEPT !.room = NameOf(t, f)]
    BY <1>2 DEF Seen, Half
  <1>9. QED
    BY <1>1, <1>2, <1>6, <1>7, <1>8

-----------------------------------------------------------------------------
(* The invariant of the loop.                                              *)

Kernel ==
    /\ Facing /\ g_total_live = Cardinality(DOMAIN conns)
    /\ broken \subseteq Fd /\ (~g_batch_flush => g_dirty = << >>)
    /\ (pc # "reap" => reaped = 0)
    /\ (pc \notin {"reap", "flush2"} => ToSet(g_dirty) \subseteq DOMAIN conns)

(* Which connection is read, and which room it is about to enter.          *)
Handling ==
    /\ IF pc \in {"read", "join"} THEN cur \in DOMAIN conns ELSE cur = Listen
    /\ IF pc = "join" THEN target \in Name /\ conns[cur].room = k_no_room
       ELSE target = << >>

ImplInv == ~trapped /\ (pc # "done" => Kernel /\ Handling)

(* The connections in who become U[f].                                     *)
Changed(who, U) ==
    /\ AbsConns' = [f \in DOMAIN AbsConns |-> IF f \in who THEN U[f] ELSE AbsConns[f]]
    /\ AbsDoomed' = (AbsDoomed \cap DOMAIN AbsConns) \cup {f \in who : U[f].closing}
    /\ ToSet(g_dirty)' = ToSet(g_dirty) \cup {f \in who : U[f].dirty}

(* The server becomes t, which is sound.                                   *)
LEMMA ServerSteps ==
    ASSUME Facing, NEW t, Becomes_server(t), Sound(t, reaped), Grown(Server, t),
           Occupied(t.rooms), reaped' = reaped, NEW who \in SUBSET DOMAIN conns, NEW U,
           \A f \in DOMAIN conns : Seen(t, f) = IF f \in who THEN U[f] ELSE Seen(Server, f)
    PROVE  /\ Facing' /\ ~trapped' /\ Shown /\ Shown' /\ Changed(who, U)
           /\ Server' = t /\ AbsConns' = AConns(t) /\ DOMAIN conns' = DOMAIN conns
           /\ DOMAIN AbsConns = DOMAIN conns
  <1>1. DOMAIN t = ServerFields /\ t = [x \in DOMAIN t |-> t[x]] /\ ~t.trapped
    BY DEF Sound, Standing, IsServer
  <1>2. Server' = t
    BY <1>1, BecomesIs
  <1>3. /\ g_rooms' = t.rooms /\ AbsConns' = AConns(t) /\ AbsConns = AConns(Server)
        /\ g_dirty = Server.dirty /\ g_dirty' = t.dirty /\ conns' = t.conns
        /\ Server.conns = conns /\ ~trapped'
    BY <1>1, <1>2, ServerIs, ServerIsNext
  <1>4. Facing'
    BY <1>2, <1>3 DEF Facing
  <1>5. Shown /\ Shown'
    BY <1>4, FacingShows, FacingShowsNext
  <1>6. DOMAIN conns' = DOMAIN conns
    BY <1>3 DEF Grown
  <1>7. Upd(AbsConns, AbsConns', ToSet(g_dirty), ToSet(g_dirty'), DOMAIN conns, who, U)
    <2>1. Sound(Server, reaped)
      BY DEF Facing
    <2>2. Upd(AConns(Server), AConns(t), ToSet(Server.dirty), ToSet(t.dirty),
              DOMAIN Server.conns, who, U)
      BY <1>3, <2>1, UpdateIs
    <2>3. QED
      BY <1>3, <2>2
  <1>8. DOMAIN AbsConns = DOMAIN conns
    BY DEF AbsConns
  <1>9. Changed(who, U)
    BY <1>5, <1>7, <1>8 DEF Upd, Changed, Shown
  <1>10. QED
    BY <1>2, <1>3, <1>4, <1>5, <1>6, <1>8, <1>9

(* t is s after the connections in who became U[f], and nobody moved.      *)
Turned(s, t, n, who, U) ==
    /\ Sound(t, n) /\ Kept(s, t) /\ Marked(s, t)
    /\ \A f \in DOMAIN s.conns : Seen(t, f) = IF f \in who THEN U[f] ELSE Seen(s, f)

LEMMA KeptSteps ==
    ASSUME ImplInv, pc # "done", NEW t, Becomes_server(t), reaped' = reaped,
           UNCHANGED <<g_total_live, broken, g_batch_flush>>,
           NEW who \in SUBSET DOMAIN conns, NEW U, Turned(Server, t, reaped, who, U),
           pc' # "reap" => reaped = 0,
           pc' \notin {"reap", "flush2"} => pc \notin {"reap", "flush2"}
    PROVE  /\ Kernel' /\ ~trapped' /\ Changed(who, U) /\ AbsRooms' = AbsRooms
           /\ DOMAIN conns' = DOMAIN conns /\ conns' = t.conns
           /\ DOMAIN AbsConns = DOMAIN conns
           /\ \A f \in DOMAIN conns : /\ conns'[f].room = conns[f].room
                                      /\ conns'[f].closing = AbsConns'[f].closing
  <1>1. Facing /\ Kernel
    BY DEF ImplInv, Kernel
  <1>10. /\ Sound(t, reaped) /\ Kept(Server, t) /\ Marked(Server, t)
         /\ \A f \in DOMAIN conns : Seen(t, f) = IF f \in who THEN U[f] ELSE Seen(Server, f)
    BY ServerIs DEF Turned
  <1>2. /\ DOMAIN t.conns = DOMAIN conns /\ t.rooms = g_rooms
        /\ \A f \in DOMAIN conns : /\ t.conns[f].room = conns[f].room
                                   /\ conns[f].closing => t.conns[f].closing
    BY <1>10, ServerIs DEF Kept
  <1>3. Grown(Server, t) /\ Occupied(t.rooms)
    BY <1>1, <1>2, <1>10, ServerIs DEF Grown, Facing
  <1>4. /\ Facing' /\ ~trapped' /\ Shown /\ Shown' /\ Changed(who, U)
        /\ Server' = t /\ AbsConns' = AConns(t) /\ DOMAIN conns' = DOMAIN conns
        /\ DOMAIN AbsConns = DOMAIN conns
    BY <1>1, <1>3, <1>10, ServerSteps
  <1>5. /\ conns' = t.conns /\ g_dirty' = t.dirty /\ g_dirty = Server.dirty
        /\ Server.conns = conns
    BY <1>4, ServerIs, ServerIsNext
  <1>6. AbsRooms' = AbsRooms
    <2>1. ASSUME NEW f \in DOMAIN conns PROVE AbsConns'[f].room = AbsConns[f].room
      <3>1. NameOf(t, f) = NameOf(Server, f)
        BY <1>5, <1>10, KeptNames
      <3>2. AConns(t)[f].room = NameOf(t, f) /\ AConns(Server)[f].room = NameOf(Server, f)
        BY <1>2, <1>5 DEF AConns, Seen, Half
      <3>3. QED
        BY <1>4, <3>1, <3>2, ServerIs
    <2>2. DOMAIN AbsConns' = DOMAIN AbsConns
      BY <1>2, <1>4 DEF AConns
    <2>3. RoomsFrom(AbsConns') = RoomsFrom(AbsConns)
      BY <1>4, <2>1, <2>2, RoomsStay
    <2>4. QED
      BY <1>4, <2>3 DEF Shown
  <1>7. Kernel'
    <2>1. g_total_live' = Cardinality(DOMAIN conns') /\ broken' \subseteq Fd
      BY <1>1, <1>4 DEF Kernel
    <2>2. ~g_batch_flush' => g_dirty' = << >>
      BY <1>1, <1>5, <1>10 DEF Kernel, Marked
    <2>3. pc' \notin {"reap", "flush2"} => ToSet(g_dirty') \subseteq DOMAIN conns'
      BY <1>1, <1>4, <1>5, <1>10 DEF Kernel, Marked
    <2>4. QED
      BY <1>4, <2>1, <2>2, <2>3 DEF Kernel
  <1>8. \A f \in DOMAIN conns : conns'[f].closing = AbsConns'[f].closing
    BY <1>2, <1>4, <1>5 DEF AConns, Seen, Half
  <1>9. QED
    BY <1>2, <1>4, <1>5, <1>6, <1>7, <1>8

-----------------------------------------------------------------------------
(* One lemma per step: it is a step of EpollChat, or of the kernel's.      *)

LEMMA NoTarget == target = << >> => AbsTarget = << >>
  BY DEF AbsTarget

LEMMA NoTargetNext == (target = << >> => AbsTarget = << >>)'
  BY DEF AbsTarget

(* The server stands still. *)
LEMMA StillSteps ==
    ASSUME ImplInv, pc # "done",
           UNCHANGED <<conns, g_rooms, g_room_free, g_room_index, trapped, g_doomed, g_dirty,
                       reaped, g_total_live, g_batch_flush>>,
           broken' \subseteq Fd, pc' # "reap" => reaped = 0,
           pc' \notin {"reap", "flush2"} => ToSet(g_dirty) \subseteq DOMAIN conns
    PROVE  /\ Kernel' /\ ~trapped' /\ AbsConns' = AbsConns /\ AbsRooms' = AbsRooms
           /\ AbsDoomed' = AbsDoomed
  <1>1. Kernel
    BY DEF ImplInv
  <1>2. Server' = Server
    BY DEF Server
  <1>3. Facing'
    BY <1>1, <1>2 DEF Kernel, Facing
  <1>4. Kernel'
    BY <1>1, <1>3 DEF Kernel
  <1>5. AbsConns' = AbsConns /\ AbsDoomed' = AbsDoomed
    BY DEF AbsConns, AbsDoomed
  <1>6. AbsRooms' = AbsRooms
    BY <1>1, <1>3, <1>5, FacingShows, FacingShowsNext DEF Shown, Kernel
  <1>7. QED
    BY <1>4, <1>5, <1>6 DEF ImplInv

LEMMA SameCardinality == \A S : Chat!Cardinality(S) = Cardinality(S)
  BY DEF Chat!Cardinality, Cardinality

LEMMA ReportableIs ==
    ASSUME Kernel, NEW src \in DOMAIN conns \cup {Listen, Sig}
    PROVE  Chat!Reportable(src) = Reportable(src) /\ Reportable(src) \subseteq Chat!Masks
  <1>1. Listen \notin Fd /\ Sig \notin Fd /\ broken \subseteq Fd /\ DOMAIN conns \subseteq Fd
    BY SdsAssumption, ServerIs DEF Kernel, Facing, Sound, Standing, RoomsOf, RoomsOK
  <1>2. CASE src \in {Listen, Sig}
    BY <1>1, <1>2 DEF Reportable, Chat!Reportable, Chat!Masks
  <1>3. CASE src \notin {Listen, Sig}
    <2>1. src \in Fd /\ AbsConns[src].armed_write = conns[src].armed_write
      BY <1>1, <1>3 DEF AbsConns
    <2>2. QED
      BY <1>1, <1>3, <2>1 DEF Reportable, Chat!Reportable, Chat!Masks
  <1>4. QED
    BY <1>2, <1>3

LEMMA StepWait ==
    ASSUME ImplInv, epoll_wait
    PROVE  Chat!epoll_wait /\ ImplInv'
  <1>1. /\ Kernel /\ Handling /\ pc = "wait" /\ running /\ pc' = "drain"
        /\ UNCHANGED <<rooms_vars, g_batch_flush, g_doomed, g_dirty, g_total_live, reaped,
                       cur, target, running, broken, born>>
    BY DEF epoll_wait, ImplInv
  <1>2. PICK ready \in UNION {kSubset(k, DOMAIN conns \cup {Listen, Sig}) : k \in 1..MaxEvents} :
          \E what \in [ready -> UNION {Reportable(s) : s \in ready}] :
            /\ \A s \in ready : what[s] \in Reportable(s)
            /\ batch' = {<<s, what[s]>> : s \in ready}
    BY DEF epoll_wait
  <1>3. PICK k \in 1..MaxEvents : ready \in kSubset(k, DOMAIN conns \cup {Listen, Sig})
    OBVIOUS
  <1>4. PICK what \in [ready -> UNION {Reportable(s) : s \in ready}] :
            /\ \A s \in ready : what[s] \in Reportable(s)
            /\ batch' = {<<s, what[s]>> : s \in ready}
    BY <1>2
  <1>5. ready \subseteq DOMAIN conns \cup {Listen, Sig} /\ ready # {}
    <2>1. ready \subseteq DOMAIN conns \cup {Listen, Sig} /\ Cardinality(ready) = k /\ k # 0
      BY <1>3 DEF kSubset
    <2>2. QED
      BY <2>1, FS_EmptySet
  <1>6. ASSUME NEW s \in ready
        PROVE  what[s] \in Chat!Reportable(s) /\ what[s] \in Chat!Masks
    BY <1>1, <1>4, <1>5, ReportableIs
  <1>7. batch' \subseteq UNION {{s} \X Chat!Reportable(s) : s \in ready}
    BY <1>4, <1>6
  <1>8. ASSUME NEW s \in ready
        PROVE  Chat!Cardinality(batch' \cap ({s} \X Chat!Masks)) = 1
    <2>1. batch' \cap ({s} \X Chat!Masks) = {<<s, what[s]>>}
      BY <1>4, <1>6
    <2>2. QED
      BY <2>1, SameCardinality, FS_Singleton
  <1>9. /\ Kernel' /\ ~trapped' /\ AbsConns' = AbsConns /\ AbsRooms' = AbsRooms
        /\ AbsDoomed' = AbsDoomed
    BY <1>1, StillSteps DEF rooms_vars, Kernel
  <1>10. Handling' /\ target' = << >> /\ AbsTarget' = AbsTarget
    BY <1>1, NoTarget, NoTargetNext DEF Handling
  <1>11. DOMAIN AbsConns = DOMAIN conns
    BY DEF AbsConns
  <1>12. Chat!epoll_wait
    <2>1. ready \in SUBSET (DOMAIN AbsConns \cup {Listen, Sig})
      BY <1>5, <1>11
    <2>2. \E r \in SUBSET (DOMAIN AbsConns \cup {Listen, Sig}) :
            /\ r # {} \/ Chat!g_coalesce
            /\ batch' \in {b \in SUBSET UNION {{s} \X Chat!Reportable(s) : s \in r} :
                             \A s \in r : Chat!Cardinality(b \cap ({s} \X Chat!Masks)) = 1}
      BY <1>5, <1>7, <1>8, <2>1
    <2>3. ~trapped
      BY DEF ImplInv
    <2>4. UNCHANGED <<Chat!serverVars, cur, AbsTarget, running, broken, born>>
      BY <1>1, <1>9, <1>10 DEF Chat!serverVars, rooms_vars
    <2>5. (IF trapped THEN "trapped" ELSE pc) = "wait"
          /\ (IF trapped THEN "trapped" ELSE pc)' = "drain"
      BY <1>1, <1>9, <2>3
    <2>6. QED
      BY ONLY <1>1, <2>2, <2>4, <2>5 DEF Chat!epoll_wait
  <1>13. QED
    BY <1>1, <1>9, <1>10, <1>12 DEF ImplInv

(* One connection changes, and nobody moves.                               *)
Became(fd, v) ==
    /\ AbsConns' = [f \in DOMAIN AbsConns |-> IF f \in {fd} THEN v ELSE AbsConns[f]]
    /\ AbsDoomed' = (AbsDoomed \cap DOMAIN AbsConns) \cup {f \in {fd} : v.closing}
    /\ ToSet(g_dirty)' = ToSet(g_dirty) \cup {f \in {fd} : v.dirty}

LEMMA ActsTurns ==
    ASSUME NEW s, NEW n, NEW t, NEW fd \in DOMAIN s.conns, NEW v, Sound(s, n),
           Acts(s, t, n, fd, v), NEW U, U = [f \in {fd} |-> v]
    PROVE  Turned(s, t, n, {fd}, U)
  <1>1. /\ Sound(t, n) /\ Kept(s, t) /\ Marked(s, t) /\ Seen(t, fd) = v
        /\ \A f \in DOMAIN s.conns \ {fd} : t.conns[f] = s.conns[f]
    BY DEF Acts, Sound
  <1>2. ASSUME NEW f \in DOMAIN s.conns, f # fd PROVE Seen(t, f) = Seen(s, f)
    <2>1. NameOf(t, f) = NameOf(s, f) /\ t.conns[f] = s.conns[f]
      BY <1>1, <1>2, KeptNames
    <2>2. QED
      BY <2>1 DEF Seen
  <1>3. QED
    BY <1>1, <1>2 DEF Turned

LEMMA ActsSteps ==
    ASSUME ImplInv, pc # "done", NEW fd \in DOMAIN conns, NEW v, NEW t, Becomes_server(t),
           Acts(Server, t, reaped, fd, v), reaped' = reaped,
           UNCHANGED <<g_total_live, broken, g_batch_flush>>,
           pc' # "reap" => reaped = 0,
           pc' \notin {"reap", "flush2"} => pc \notin {"reap", "flush2"}
    PROVE  /\ Kernel' /\ ~trapped' /\ Became(fd, v) /\ AbsRooms' = AbsRooms
           /\ DOMAIN conns' = DOMAIN conns /\ DOMAIN AbsConns = DOMAIN conns
           /\ t.conns[fd].closing = v.closing
  <1> PICK U : U = [f \in {fd} |-> v]
    OBVIOUS
  <1>1. Sound(Server, reaped) /\ Server.conns = conns /\ U[fd] = v
    BY ServerIs DEF ImplInv, Kernel, Facing
  <1>2. Turned(Server, t, reaped, {fd}, U)
    BY <1>1, ActsTurns
  <1>3. /\ Kernel' /\ ~trapped' /\ Changed({fd}, U) /\ AbsRooms' = AbsRooms
        /\ DOMAIN conns' = DOMAIN conns /\ DOMAIN AbsConns = DOMAIN conns
    BY <1>2, KeptSteps
  <1>4. Became(fd, v)
    BY <1>1, <1>3 DEF Changed, Became
  <1>5. t.conns[fd].closing = v.closing
    BY DEF Acts, Seen, Half
  <1>6. QED
    BY <1>3, <1>4, <1>5

LEMMA SeenIs == \A f \in DOMAIN conns : Seen(Server, f) = AbsConns[f]
  BY ServerIs DEF AConns

LEMMA AbsClosing ==
    /\ DOMAIN AbsConns = DOMAIN conns
    /\ \A f \in DOMAIN conns : /\ AbsConns[f].closing = conns[f].closing
                               /\ AbsConns[f].nick = conns[f].nick
  BY DEF AbsConns

(* The helpers leave the server alone. *)
LEMMA StayPut ==
    ASSUME Becomes_server(Server)
    PROVE  UNCHANGED <<conns, g_rooms, g_room_free, g_room_index, trapped, g_doomed, g_dirty>>
  BY ServerIs DEF Becomes_server, Becomes

LEMMA StepListen ==
    ASSUME ImplInv, event_listen
    PROVE  Chat!event_listen /\ ImplInv'
  <1>1. /\ pc = "drain" /\ <<Listen, {"IN"}>> \in batch
        /\ batch' = batch \ {<<Listen, {"IN"}>>} /\ pc' = "accept"
        /\ UNCHANGED <<g_batch_flush, joined, g_total_live, reaped, target, broken, born,
                       cur, running>>
        /\ UNCHANGED <<conns, g_rooms, g_room_free, g_room_index, trapped, g_doomed, g_dirty>>
    BY StayPut DEF event_listen, Event
  <1>2. Kernel /\ cur = Listen /\ target = << >> /\ ~trapped
    BY <1>1 DEF ImplInv, Handling
  <1>3. /\ Kernel' /\ ~trapped' /\ AbsConns' = AbsConns /\ AbsRooms' = AbsRooms
        /\ AbsDoomed' = AbsDoomed
    BY <1>1, <1>2, StillSteps DEF Kernel
  <1>4. Handling' /\ AbsTarget' = AbsTarget
    BY <1>1, <1>2, NoTarget, NoTargetNext DEF Handling
  <1>5. Chat!event_listen
    BY <1>1, <1>2, <1>3, <1>4 DEF Chat!event_listen, Chat!Handle, Chat!serverVars
  <1>6. QED
    BY <1>3, <1>4, <1>5 DEF ImplInv

LEMMA StepSignal ==
    ASSUME ImplInv, event_signal
    PROVE  Chat!event_signal /\ ImplInv'
  <1>1. /\ pc = "drain" /\ <<Sig, {"IN"}>> \in batch
        /\ batch' = batch \ {<<Sig, {"IN"}>>} /\ running' = FALSE
        /\ UNCHANGED <<g_batch_flush, joined, g_total_live, reaped, target, broken, born,
                       cur, pc>>
        /\ UNCHANGED <<conns, g_rooms, g_room_free, g_room_index, trapped, g_doomed, g_dirty>>
    BY StayPut DEF event_signal, Event
  <1>2. Kernel /\ cur = Listen /\ target = << >> /\ ~trapped
    BY <1>1 DEF ImplInv, Handling
  <1>3. /\ Kernel' /\ ~trapped' /\ AbsConns' = AbsConns /\ AbsRooms' = AbsRooms
        /\ AbsDoomed' = AbsDoomed
    BY <1>1, <1>2, StillSteps DEF Kernel
  <1>4. Handling' /\ AbsTarget' = AbsTarget
    BY <1>1, <1>2, NoTarget, NoTargetNext DEF Handling
  <1>5. Chat!event_signal
    BY <1>1, <1>2, <1>3, <1>4 DEF Chat!event_signal, Chat!Handle, Chat!serverVars
  <1>6. QED
    BY <1>3, <1>4, <1>5 DEF ImplInv

(* How much each socket takes, as EpollChat counts it. *)
LEMMA TakesAre ==
    /\ Chat!Takes = Takes /\ Take \subseteq Nat /\ Takes \subseteq [Fd -> Nat]
    /\ \A n \in Take : [f \in Fd |-> n] \in Takes
  BY SdsAssumption DEF Chat!Takes, Takes, Take

LEMMA FdOf == ImplInv /\ pc # "done" => DOMAIN conns \subseteq Fd /\ Sound(Server, reaped)
  BY ServerIs DEF ImplInv, Kernel, Facing, Sound, Standing, RoomsOf, RoomsOK

LEMMA StepEvent ==
    ASSUME ImplInv, NEW fd \in Fd, NEW what \in Masks, event_conn(fd, what)
    PROVE  /\ Chat!event_skipped(fd) \/ Chat!event_hangup(fd) \/ Chat!event_ready(fd)
           /\ ImplInv'
  <1>1. /\ pc = "drain" /\ <<fd, what>> \in batch /\ batch' = batch \ {<<fd, what>>}
        /\ UNCHANGED <<g_batch_flush, joined, g_total_live, reaped, target, broken, born,
                       running>>
    BY DEF event_conn, Event
  <1>2. /\ Kernel /\ target = << >> /\ ~trapped /\ reaped = 0
        /\ ToSet(g_dirty) \subseteq DOMAIN conns
    BY <1>1 DEF ImplInv, Handling, Kernel
  <1>3. PICK take \in Take :
         LET s == CASE ~live(Server, fd) -> Server
                    [] live(Server, fd) /\ "ERR" \in what -> doom(Server, fd)
                    [] live(Server, fd) /\ "OUT" \in what /\ ~conns[fd].closing ->
                         flush_send(Server, fd, take)
                    [] OTHER -> Server
             reads == live(s, fd) /\ ~s.conns[fd].closing /\ "IN" \in what
         IN  /\ Becomes_server(s)
             /\ pc' = IF reads THEN "read" ELSE "drain"
             /\ cur' = IF reads THEN fd ELSE Listen
    BY DEF event_conn
  <1> DEFINE s == CASE ~live(Server, fd) -> Server
                    [] live(Server, fd) /\ "ERR" \in what -> doom(Server, fd)
                    [] live(Server, fd) /\ "OUT" \in what /\ ~conns[fd].closing ->
                         flush_send(Server, fd, take)
                    [] OTHER -> Server
             reads == live(s, fd) /\ ~s.conns[fd].closing /\ "IN" \in what
  <1>4. /\ Becomes_server(s) /\ pc' = (IF reads THEN "read" ELSE "drain")
        /\ cur' = IF reads THEN fd ELSE Listen
    BY <1>3
  <1>5. AbsTarget = << >> /\ AbsTarget' = << >> /\ target' = << >>
    BY <1>1, <1>2, NoTarget, NoTargetNext
  <1>6. /\ live(Server, fd) <=> fd \in DOMAIN conns
        /\ what \in Chat!Masks /\ ("ERR" \in what => what = {"ERR"})
    BY ServerIs DEF live, Masks, Chat!Masks
  <1>7. CASE fd \in DOMAIN conns => conns[fd].closing
    <2>1. s = Server
      BY <1>6, <1>7, ServerIs DEF doom
    <2>2. ~reads
      BY <1>6, <1>7, <2>1, ServerIs
    <2> HIDE DEF s, reads
    <2>3. UNCHANGED <<conns, g_rooms, g_room_free, g_room_index, trapped, g_doomed, g_dirty>>
      BY <1>4, <2>1, StayPut
    <2>4. /\ Kernel' /\ ~trapped' /\ AbsConns' = AbsConns /\ AbsRooms' = AbsRooms
          /\ AbsDoomed' = AbsDoomed /\ pc' = "drain" /\ cur' = Listen
      BY <1>1, <1>2, <1>4, <2>2, <2>3, StillSteps DEF Kernel
    <2>5. fd \in DOMAIN AbsConns => AbsConns[fd].closing
      BY <1>7, AbsClosing
    <2>6. Chat!event_skipped(fd)
      BY <1>1, <1>2, <1>5, <1>6, <2>3, <2>4, <2>5
      DEF Chat!event_skipped, Chat!Handle, Chat!serverVars
    <2>7. QED
      BY <1>5, <2>4, <2>6 DEF ImplInv, Handling
  <1>8. CASE fd \in DOMAIN conns /\ ~conns[fd].closing
    <2> PICK v : v = IF "ERR" \in what THEN Chat!doom(AbsConns[fd])
                     ELSE IF "OUT" \in what
                     THEN Chat!flush_send(AbsConns[fd], fd \in broken, take) ELSE AbsConns[fd]
      OBVIOUS
    <2>1. Standing(Server, reaped) /\ Server.conns = conns /\ Seen(Server, fd) = AbsConns[fd]
      BY <1>1, <1>8, FdOf, ServerIs, SeenIs DEF Sound
    <2>2. Acts(Server, s, reaped, fd, v)
      <3>1. CASE "ERR" \in what
        <4>1. s = doom(Server, fd)
          BY <1>6, <1>8, <3>1
        <4> HIDE DEF s
        <4>2. QED
          BY <1>8, <2>1, <3>1, <4>1, RoomsAssumption, DoomActs
      <3>2. CASE "ERR" \notin what /\ "OUT" \in what
        <4>1. s = flush_send(Server, fd, take)
          BY <1>6, <1>8, <3>2
        <4>2. take \in Nat
          BY TakesAre
        <4> HIDE DEF s
        <4>3. QED
          BY <1>8, <2>1, <3>2, <4>1, <4>2, RoomsAssumption, FlushActs
      <3>3. CASE "ERR" \notin what /\ "OUT" \notin what
        <4>1. s = Server
          BY <1>6, <1>8, <3>3
        <4> HIDE DEF s
        <4>2. QED
          BY <2>1, <3>3, <4>1, ActsNot
      <3>4. QED
        BY <3>1, <3>2, <3>3
    <2>3. reads = ("IN" \in what /\ ~s.conns[fd].closing)
      <3>1. fd \in DOMAIN s.conns
        <4> HIDE DEF s
        <4>1. QED
          BY <1>8, <2>1, <2>2 DEF Acts, Kept
      <3> HIDE DEF s
      <3>2. QED
        BY <3>1 DEF live
    <2> HIDE DEF s, reads
    <2>4. /\ Kernel' /\ ~trapped' /\ Became(fd, v) /\ AbsRooms' = AbsRooms
          /\ DOMAIN conns' = DOMAIN conns /\ DOMAIN AbsConns = DOMAIN conns
          /\ s.conns[fd].closing = v.closing
      BY <1>1, <1>2, <1>4, <1>8, <2>2, ActsSteps
    <2>5. Handling'
      BY <1>4, <1>5, <1>8, <2>4 DEF Handling
    <2>6. CASE what = {"ERR"}
      <3>1. ~reads /\ v = Chat!doom(AbsConns[fd])
        BY <2>3, <2>6
      <3>2. Chat!Handle(fd, {"ERR"}, "drain")
        BY <1>1, <1>2, <1>4, <1>5, <2>4, <2>6, <3>1 DEF Chat!Handle
      <3>3. Chat!event_hangup(fd)
        BY <1>1, <1>2, <1>8, <2>4, <3>1, <3>2, AbsClosing
        DEF Chat!event_hangup, Chat!Update, Became
      <3>4. QED
        BY <2>4, <2>5, <3>3 DEF ImplInv
    <2>7. CASE what # {"ERR"}
      <3> DEFINE takes == [f \in Fd |-> take]
                 Ready(f) == IF "OUT" \in what
                             THEN Chat!flush_send(AbsConns[f], f \in broken, takes[f])
                             ELSE AbsConns[f]
      <3>1. v = Ready(fd) /\ what \in Chat!Masks \ {{"ERR"}} /\ takes \in Chat!Takes
        BY <1>6, <2>7, TakesAre
      <3>2. Chat!Handle(fd, what, IF "IN" \in what /\ ~Ready(fd).closing THEN "read" ELSE "drain")
        <4>1. reads <=> "IN" \in what /\ ~Ready(fd).closing
          BY <2>3, <2>4, <3>1
        <4> HIDE DEF Ready
        <4>2. QED
          BY <1>1, <1>2, <1>4, <1>5, <2>4, <4>1 DEF Chat!Handle
      <3>3. Chat!Update(DOMAIN AbsConns, {fd}, Ready)
        <4> HIDE DEF Ready
        <4>1. QED
          BY <2>4, <3>1 DEF Chat!Update, Became
      <3>4. fd \in DOMAIN AbsConns /\ ~AbsConns[fd].closing
        BY <1>8, AbsClosing
      <3>5. Chat!event_ready(fd)
        BY <1>1, <2>4, <3>1, <3>2, <3>3, <3>4 DEF Chat!event_ready
      <3>6. QED
        BY <2>4, <2>5, <3>5 DEF ImplInv
    <2>8. QED
      BY <2>6, <2>7
  <1>9. QED
    BY <1>7, <1>8

(* A frame is handled, and nobody moves.                                   *)
LEMMA FrameSteps ==
    ASSUME ImplInv, pc = "read", NEW t, Handled(t), UNCHANGED target,
           NEW who \in SUBSET DOMAIN conns, NEW U, Turned(Server, t, reaped, who, U)
    PROVE  /\ ImplInv' /\ Changed(who, U) /\ AbsRooms' = AbsRooms /\ AbsTarget' = AbsTarget
           /\ Chat!NextFrame /\ ~trapped /\ ~trapped' /\ DOMAIN AbsConns = DOMAIN conns
           /\ UNCHANGED <<g_batch_flush, batch, running, broken, born>>
  <1>1. /\ Becomes_server(t)
        /\ pc' = IF t.conns[cur].closing THEN "drain" ELSE "read"
        /\ cur' = IF t.conns[cur].closing THEN Listen ELSE cur
        /\ UNCHANGED <<g_batch_flush, g_total_live, reaped, batch, running, broken, born>>
    BY DEF Handled
  <1>2. /\ cur \in DOMAIN conns /\ target = << >> /\ ~trapped /\ reaped = 0
    BY DEF ImplInv, Handling, Kernel
  <1>3. /\ Kernel' /\ ~trapped' /\ Changed(who, U) /\ AbsRooms' = AbsRooms
        /\ DOMAIN conns' = DOMAIN conns /\ conns' = t.conns /\ DOMAIN AbsConns = DOMAIN conns
        /\ conns'[cur].closing = AbsConns'[cur].closing
    BY <1>1, <1>2, KeptSteps
  <1>4. AbsTarget' = AbsTarget /\ target' = << >>
    BY <1>2, NoTarget, NoTargetNext
  <1>5. Handling'
    BY <1>1, <1>2, <1>3, <1>4 DEF Handling
  <1>6. Chat!NextFrame
    BY <1>1, <1>3 DEF Chat!NextFrame
  <1>7. QED
    BY <1>1, <1>2, <1>3, <1>4, <1>5, <1>6 DEF ImplInv

(* A frame that only its sender is concerned with.                         *)
LEMMA OwnFrame ==
    ASSUME ImplInv, pc = "read", NEW t, NEW v, Handled(t), UNCHANGED target,
           Acts(Server, t, reaped, cur, v)
    PROVE  /\ ImplInv' /\ Became(cur, v) /\ AbsRooms' = AbsRooms /\ AbsTarget' = AbsTarget
           /\ Chat!NextFrame /\ ~trapped /\ ~trapped' /\ DOMAIN AbsConns = DOMAIN conns
           /\ UNCHANGED <<g_batch_flush, batch, running, broken, born>>
  <1> PICK U : U = [f \in {cur} |-> v]
    OBVIOUS
  <1>1. /\ Sound(Server, reaped) /\ Server.conns = conns /\ U[cur] = v /\ cur \in DOMAIN conns
        /\ cur \in DOMAIN Server.conns
    BY ServerIs DEF ImplInv, Kernel, Facing, Handling
  <1>2. Turned(Server, t, reaped, {cur}, U)
    BY <1>1, ActsTurns
  <1>3. /\ ImplInv' /\ Changed({cur}, U) /\ AbsRooms' = AbsRooms /\ AbsTarget' = AbsTarget
        /\ Chat!NextFrame /\ ~trapped /\ ~trapped' /\ DOMAIN AbsConns = DOMAIN conns
        /\ UNCHANGED <<g_batch_flush, batch, running, broken, born>>
    BY <1>1, <1>2, FrameSteps
  <1>4. Became(cur, v)
    BY <1>1, <1>3 DEF Changed, Became
  <1>5. QED
    BY <1>3, <1>4

LEMMA StepComplain ==
    ASSUME ImplInv, complain
    PROVE  Chat!complain /\ ImplInv'
  <1>1. pc = "read" /\ Handled(queue_send(Server, cur, NoticeLen)) /\ UNCHANGED target
    BY DEF complain, Reading
  <1> PICK t : t = queue_send(Server, cur, NoticeLen)
    OBVIOUS
  <1> PICK v : v = Chat!queue_send(AbsConns[cur], NoticeLen)
    OBVIOUS
  <1>2. /\ cur \in DOMAIN Server.conns /\ Standing(Server, reaped)
        /\ Seen(Server, cur) = AbsConns[cur] /\ NoticeLen \in Nat
    BY <1>1, FdOf, SeenIs, ServerIs, SdsAssumption DEF ImplInv, Handling, Sound
  <1>3. Acts(Server, t, reaped, cur, v)
    BY <1>2, RoomsAssumption, SdsAssumption, QueueActs
  <1>4. /\ ImplInv' /\ Became(cur, v) /\ AbsRooms' = AbsRooms /\ AbsTarget' = AbsTarget
        /\ Chat!NextFrame /\ ~trapped /\ ~trapped'
        /\ UNCHANGED <<g_batch_flush, batch, running, broken, born>>
    BY <1>1, <1>3, OwnFrame
  <1>5. Chat!complain
    BY <1>1, <1>4 DEF Chat!complain, Chat!Frame, Chat!Update, Became
  <1>6. QED
    BY <1>4, <1>5

LEMMA StepHangUp ==
    ASSUME ImplInv, hang_up
    PROVE  Chat!hang_up /\ ImplInv'
  <1>1. pc = "read" /\ Handled(doom(Server, cur)) /\ UNCHANGED target
    BY DEF hang_up, Reading
  <1> PICK t : t = doom(Server, cur)
    OBVIOUS
  <1> PICK v : v = Chat!doom(AbsConns[cur])
    OBVIOUS
  <1>2. /\ cur \in DOMAIN Server.conns /\ Standing(Server, reaped)
        /\ Seen(Server, cur) = AbsConns[cur]
    BY <1>1, FdOf, SeenIs, ServerIs DEF ImplInv, Handling, Sound
  <1>3. Acts(Server, t, reaped, cur, v)
    BY <1>2, RoomsAssumption, DoomActs
  <1>4. /\ ImplInv' /\ Became(cur, v) /\ AbsRooms' = AbsRooms /\ AbsTarget' = AbsTarget
        /\ Chat!NextFrame /\ ~trapped /\ ~trapped'
        /\ UNCHANGED <<g_batch_flush, batch, running, broken, born>>
    BY <1>1, <1>3, OwnFrame
  <1>5. Chat!hang_up
    BY <1>1, <1>4 DEF Chat!hang_up, Chat!Frame, Chat!Update, Became
  <1>6. QED
    BY <1>4, <1>5

(* A connection takes a nick, or loses it.                                 *)
LEMMA NickActs ==
    ASSUME RoomsAssumption, NEW s, NEW n, Standing(s, n), NEW fd \in DOMAIN s.conns,
           NEW named \in BOOLEAN, NEW t, t = [s EXCEPT !.conns[fd].nick = named]
    PROVE  Acts(s, t, n, fd, [Seen(s, fd) EXCEPT !.nick = named])
  <1> PICK c : c = s.conns[fd]
    OBVIOUS
  <1> PICK d : d = [c EXCEPT !.nick = named]
    OBVIOUS
  <1> PICK name : name = NameOf(s, fd)
    OBVIOUS
  <1>1. /\ IsConn(c) /\ IsServer(s) /\ DOMAIN s = ServerFields
        /\ s = [y \in DOMAIN s |-> s[y]] /\ s.conns = [f \in DOMAIN s.conns |-> s.conns[f]]
    BY DEF Standing, IsServer
  <1>2. t = [s EXCEPT !.conns = [s.conns EXCEPT ![fd] = d]]
    BY <1>1
  <1>3. /\ IsConn(d) /\ d.room = c.room /\ d.room_prev = c.room_prev
        /\ d.room_next = c.room_next /\ d.closing = c.closing /\ d.dirty = c.dirty
    BY <1>1 DEF IsConn, ConnFields, LinkFields
  <1>4. FieldSet(c, "nick", named, d)
    BY DEF FieldSet
  <1>5. FieldSet(Half(c, name), "nick", named, Half(d, name))
    BY ONLY <1>1, <1>4, HalfSet
  <1>6. Acts(s, t, n, fd, Half(d, name))
    BY ONLY RoomsAssumption, Standing(s, n), fd \in DOMAIN s.conns, c = s.conns[fd],
            name = NameOf(s, fd), <1>2, <1>3, Alters
  <1>7. QED
    BY <1>5, <1>6 DEF FieldSet, Seen

LEMMA StepNick ==
    ASSUME ImplInv, set_nick
    PROVE  Chat!set_nick /\ ImplInv'
  <1>1. pc = "read" /\ UNCHANGED target
    BY DEF set_nick, Reading
  <1>2. PICK named \in BOOLEAN :
          Handled(queue_send([Server EXCEPT !.conns[cur].nick = named], cur, NoticeLen))
    BY DEF set_nick
  <1> PICK u : u = [Server EXCEPT !.conns[cur].nick = named]
    OBVIOUS
  <1> PICK t : t = queue_send(u, cur, NoticeLen)
    OBVIOUS
  <1> PICK w : w = [AbsConns[cur] EXCEPT !.nick = named]
    OBVIOUS
  <1> PICK v : v = Chat!queue_send(w, NoticeLen)
    OBVIOUS
  <1>3. /\ cur \in DOMAIN Server.conns /\ Standing(Server, reaped)
        /\ Seen(Server, cur) = AbsConns[cur] /\ NoticeLen \in Nat
    BY <1>1, FdOf, SeenIs, ServerIs, SdsAssumption DEF ImplInv, Handling, Sound
  <1>4. Acts(Server, u, reaped, cur, w)
    BY <1>3, RoomsAssumption, NickActs
  <1>5. Standing(u, reaped) /\ cur \in DOMAIN u.conns /\ Seen(u, cur) = w
    BY <1>3, <1>4 DEF Acts, Kept
  <1>6. Acts(u, t, reaped, cur, v)
    BY <1>3, <1>5, RoomsAssumption, SdsAssumption, QueueActs
  <1>7. Acts(Server, t, reaped, cur, v)
    BY <1>4, <1>6, ActsTwice
  <1>8. /\ ImplInv' /\ Became(cur, v) /\ AbsRooms' = AbsRooms /\ AbsTarget' = AbsTarget
        /\ Chat!NextFrame /\ ~trapped /\ ~trapped'
        /\ UNCHANGED <<g_batch_flush, batch, running, broken, born>>
    BY <1>1, <1>2, <1>7, OwnFrame
  <1>9. Chat!set_nick
    BY <1>1, <1>8 DEF Chat!set_nick, Chat!Frame, Chat!Update, Became
  <1>10. QED
    BY <1>8, <1>9

LEMMA StepDrained ==
    ASSUME ImplInv, drained
    PROVE  Chat!drained /\ ImplInv'
  <1>1. /\ pc = "read" /\ pc' = "drain" /\ cur' = Listen
        /\ UNCHANGED <<g_batch_flush, joined, g_total_live, reaped, batch, target, running,
                       broken, born>>
    BY DEF drained, Reading
  <1>2. PICK take \in Take : Becomes_server(flush_or_mark(Server, cur, take))
    BY DEF drained
  <1> PICK t : t = flush_or_mark(Server, cur, take)
    OBVIOUS
  <1> PICK v : v = Chat!flush_or_mark(AbsConns[cur], cur \in broken, take)
    OBVIOUS
  <1>3. /\ cur \in DOMAIN Server.conns /\ Sound(Server, reaped) /\ cur \in Fd
        /\ Seen(Server, cur) = AbsConns[cur] /\ take \in Nat /\ cur \in DOMAIN conns
        /\ target = << >> /\ ~trapped /\ reaped = 0
    BY <1>1, FdOf, SeenIs, ServerIs, TakesAre DEF ImplInv, Handling, Kernel
  <1>4. Acts(Server, t, reaped, cur, v)
    BY <1>3, RoomsAssumption, SettleActs
  <1>5. /\ Kernel' /\ ~trapped' /\ Became(cur, v) /\ AbsRooms' = AbsRooms
    BY <1>1, <1>2, <1>3, <1>4, ActsSteps
  <1>6. AbsTarget' = AbsTarget /\ Handling'
    BY <1>1, <1>3, NoTarget, NoTargetNext DEF Handling
  <1>7. Chat!drained
    <2> DEFINE takes == [f \in Fd |-> take]
               Settled_(f) == Chat!flush_or_mark(AbsConns[f], f \in broken, takes[f])
    <2>1. takes \in Chat!Takes /\ v = Settled_(cur)
      BY <1>3, TakesAre
    <2>2. Chat!Update(DOMAIN AbsConns, {cur}, Settled_)
      <3> HIDE DEF Settled_
      <3>1. QED
        BY <1>5, <2>1 DEF Chat!Update, Became
    <2>3. QED
      BY <1>1, <1>3, <1>5, <1>6, <2>1, <2>2 DEF Chat!drained
  <1>8. QED
    BY <1>1, <1>5, <1>6, <1>7 DEF ImplInv

LEMMA StepAcceptStop ==
    ASSUME ImplInv, accept_stop
    PROVE  Chat!accept_stop /\ ImplInv'
  <1>1. /\ pc = "accept" /\ pc' = "drain"
        /\ UNCHANGED <<rooms_vars, g_batch_flush, g_doomed, g_dirty, g_total_live, reaped,
                       loop_vars>>
        /\ UNCHANGED <<conns, g_rooms, g_room_free, g_room_index, trapped>>
        /\ UNCHANGED <<batch, cur, target, running, broken, born>>
    BY DEF accept_stop, rooms_vars, loop_vars
  <1>2. Kernel /\ cur = Listen /\ target = << >> /\ ~trapped
    BY <1>1 DEF ImplInv, Handling
  <1>3. /\ Kernel' /\ ~trapped' /\ AbsConns' = AbsConns /\ AbsRooms' = AbsRooms
        /\ AbsDoomed' = AbsDoomed
    BY <1>1, <1>2, StillSteps DEF Kernel
  <1>4. Handling' /\ AbsTarget' = AbsTarget
    BY <1>1, <1>2, NoTarget, NoTargetNext DEF Handling
  <1>5. Chat!accept_stop
    BY <1>1, <1>2, <1>3, <1>4 DEF Chat!accept_stop, Chat!serverVars
  <1>6. QED
    BY <1>3, <1>4, <1>5 DEF ImplInv

LEMMA StepBatchEnd ==
    ASSUME ImplInv, end_of_batch
    PROVE  Chat!end_of_batch /\ ImplInv'
  <1>1. /\ pc = "drain" /\ batch = {} /\ pc' = (IF g_batch_flush THEN "flush" ELSE "reap")
        /\ born' = {}
        /\ UNCHANGED <<g_batch_flush, g_doomed, g_dirty, g_total_live, reaped,
                       batch, cur, target, running, broken>>
        /\ UNCHANGED <<conns, g_rooms, g_room_free, g_room_index, trapped>>
    BY DEF end_of_batch, rooms_vars
  <1>2. /\ Kernel /\ cur = Listen /\ target = << >> /\ ~trapped /\ reaped = 0
        /\ ToSet(g_dirty) \subseteq DOMAIN conns
    BY <1>1 DEF ImplInv, Handling, Kernel
  <1>3. /\ Kernel' /\ ~trapped' /\ AbsConns' = AbsConns /\ AbsRooms' = AbsRooms
        /\ AbsDoomed' = AbsDoomed
    BY <1>1, <1>2, StillSteps DEF Kernel
  <1>4. Handling' /\ AbsTarget' = AbsTarget
    BY <1>1, <1>2, NoTarget, NoTargetNext DEF Handling
  <1>5. pc' \in {Chat!FlushPhase} \cup IF Chat!g_coalesce THEN {"tick"} ELSE {}
    BY <1>1, BatchIsFlush DEF Chat!FlushPhase
  <1>6. Chat!end_of_batch
    BY <1>1, <1>2, <1>3, <1>4, <1>5 DEF Chat!end_of_batch, Chat!serverVars
  <1>7. QED
    BY <1>1, <1>3, <1>4, <1>6 DEF ImplInv

LEMMA StepReset ==
    ASSUME ImplInv, NEW fd \in Fd, peer_reset(fd)
    PROVE  Chat!peer_reset /\ ImplInv'
  <1>1. /\ ~trapped /\ fd \in DOMAIN conns \ broken /\ broken' = broken \cup {fd}
        /\ UNCHANGED <<g_batch_flush, g_doomed, g_dirty, g_total_live, reaped,
                       pc, batch, cur, target, running, born>>
        /\ UNCHANGED <<conns, g_rooms, g_room_free, g_room_index, trapped>>
    BY DEF peer_reset, rooms_vars
  <1>2. AbsConns' = AbsConns /\ AbsDoomed' = AbsDoomed /\ AbsRooms' = AbsRooms
        /\ AbsTarget' = AbsTarget
    <2>1. State' = State
      BY <1>1 DEF State
    <2>2. QED
      BY <1>1, <2>1 DEF AbsConns, AbsDoomed, AbsRooms, AbsTarget
  <1>3. Chat!peer_reset
    <2>1. fd \in DOMAIN AbsConns \ broken
      BY <1>1, AbsClosing
    <2>2. QED
      BY <1>1, <1>2, <2>1 DEF Chat!peer_reset, Chat!serverVars, Chat!loopVars
  <1>4. CASE pc = "done"
    BY <1>1, <1>3, <1>4 DEF ImplInv
  <1>5. CASE pc # "done"
    <2>1. Kernel /\ Handling
      BY <1>5 DEF ImplInv
    <2>2. Kernel'
      BY <1>1, <1>5, <2>1, StillSteps DEF Kernel
    <2>3. Handling'
      BY <1>1, <2>1 DEF Handling
    <2>4. QED
      BY <1>1, <1>3, <2>2, <2>3 DEF ImplInv
  <1>6. QED
    BY <1>3, <1>4, <1>5

LEMMA StepShutdown ==
    ASSUME ImplInv, shutdown
    PROVE  Chat!shutdown /\ ImplInv'
  <1>1. /\ pc = "wait" /\ ~running /\ ~trapped /\ pc' = "done" /\ ~trapped'
        /\ conns' = [f \in {} |-> NewConn] /\ broken' = {}
        /\ g_rooms' = [i \in Slots |-> [g_rooms[i] EXCEPT !.live = FALSE]]
        /\ UNCHANGED <<g_batch_flush, g_doomed, g_dirty, reaped, batch, cur, target, running,
                       born>>
    BY DEF shutdown
  <1>2. target = << >>
    BY <1>1 DEF ImplInv, Handling
  <1>3. AbsTarget' = AbsTarget
    BY <1>1, <1>2, NoTarget, NoTargetNext
  <1>4. AbsConns' = [f \in {} |-> Chat!NewConn]
    BY <1>1 DEF AbsConns
  <1>5. AbsRooms' = [r \in {} |-> {}]
    <2>1. Kernel
      BY <1>1 DEF ImplInv
    <2>2. g_rooms \in [Slots -> room]
      BY <2>1, ServerIs DEF Kernel, Facing, Sound, Standing, RoomsOf, RoomsOK
    <2>3. \A i \in Slots : ~g_rooms'[i].live
      BY <1>1, <2>2 DEF room
    <2>4. {idx \in Slots : g_rooms'[idx].live} = {}
      BY <2>3
    <2>5. QED
      BY <2>4 DEF AbsRooms
  <1>6. AbsDoomed' = AbsDoomed
    BY <1>1 DEF AbsDoomed
  <1>7. Chat!shutdown
    BY <1>1, <1>3, <1>4, <1>5, <1>6 DEF Chat!shutdown
  <1>8. QED
    BY <1>1, <1>7 DEF ImplInv

LEMMA StepAccept ==
    ASSUME ImplInv, NEW fd \in Fd, accept_conn(fd)
    PROVE  Chat!accept_conn /\ ImplInv'
  <1>1. /\ pc = "accept" /\ ~trapped /\ fd \notin DOMAIN conns /\ g_total_live < g_max_conns
        /\ conns' = [f \in DOMAIN conns \cup {fd} |-> IF f = fd THEN NewConn ELSE conns[f]]
        /\ g_total_live' = g_total_live + 1 /\ born' = born \cup {fd}
        /\ UNCHANGED <<g_rooms, g_room_free, g_room_index, trapped, g_batch_flush, g_doomed,
                       g_dirty, reaped, pc, batch, cur, target, running, broken>>
    BY DEF accept_conn
  <1>2. /\ Kernel /\ Sound(Server, reaped) /\ Occupied(g_rooms) /\ cur = Listen
        /\ target = << >> /\ reaped = 0 /\ ToSet(g_dirty) \subseteq DOMAIN conns
        /\ g_total_live = Cardinality(DOMAIN conns) /\ DOMAIN conns \subseteq Fd
    BY <1>1, FdOf DEF ImplInv, Handling, Kernel, Facing
  <1>3. /\ DOMAIN conns' = DOMAIN conns \cup {fd} /\ conns'[fd] = NewConn
        /\ conns' = [f \in DOMAIN conns' |-> conns'[f]]
        /\ \A f \in DOMAIN conns : conns'[f] = conns[f]
    BY <1>1
  <1>4. /\ IsConn(NewConn) /\ ~NewConn.closing /\ ~NewConn.dirty /\ NewConn.room = k_no_room
        /\ NewConn.room_prev = None /\ NewConn.room_next = None
    BY DEF NewConn, IsConn, ConnFields, LinkFields
  <1>5. /\ RoomsOK(conns, g_rooms, g_room_free, g_room_index)
        /\ DoomedOK(Server, reaped) /\ DirtyOK(Server)
        /\ \A f \in DOMAIN conns : IsConn(conns[f])
    BY <1>2, ServerIs DEF Sound, Standing, RoomsOf
  <1>6. RoomsOK(conns', g_rooms, g_room_free, g_room_index)
    <2> PICK d : d = conns'
      OBVIOUS
    <2>1. DOMAIN d \subseteq Fd
      BY <1>2, <1>3
    <2>2. \A f \in DOMAIN d :
              \/ /\ f \in DOMAIN conns /\ d[f].room = conns[f].room
                 /\ d[f].room_prev = conns[f].room_prev /\ d[f].room_next = conns[f].room_next
              \/ /\ f \notin DOMAIN conns /\ d[f].room = k_no_room
                 /\ d[f].room_prev = None /\ d[f].room_next = None
      BY <1>1, <1>3, <1>4
    <2>3. \A f \in DOMAIN conns : f \in DOMAIN d \/ conns[f].room = k_no_room
      BY <1>3
    <2>4. QED
      BY <1>5, <2>1, <2>2, <2>3, RoomsAssumption, OutsideOK
  <1>7. Sound(Server', reaped')
    <2>1. /\ Server'.conns = conns' /\ Server'.rooms = g_rooms /\ Server'.free = g_room_free
          /\ Server'.index = g_room_index /\ Server'.doomed = g_doomed
          /\ Server'.dirty = g_dirty /\ Server'.trapped = trapped
          /\ DOMAIN Server' = ServerFields /\ reaped' = reaped
      BY <1>1, ServerIsNext
    <2>2. \A f \in DOMAIN conns' : IsConn(conns'[f])
      BY <1>3, <1>4, <1>5
    <2>3. IsServer(Server')
      <3>1. Server' = [x \in DOMAIN Server' |-> Server'[x]]
        BY DEF Server
      <3>2. \A f \in DOMAIN conns' : IsLinks(conns'[f])
        BY <2>2 DEF IsConn, IsLinks, ConnFields
      <3>3. RoomFields \subseteq DOMAIN Server'
        BY <2>1 DEF ServerFields
      <3>4. QED
        BY <1>3, <2>1, <3>1, <3>2, <3>3 DEF IsServer
    <2>4. DoomedOK(Server', reaped)
      <3>1. /\ OneEach(g_doomed) /\ reaped \in 0..Len(g_doomed)
            /\ \A i \in 1..Len(g_doomed) :
                  g_doomed[i] \in DOMAIN conns /\ conns[g_doomed[i]].closing
            /\ \A f \in DOMAIN conns : conns[f].closing => f \in ToSet(g_doomed)
        BY <1>2, <1>5, ServerIs DEF DoomedOK
      <3>2. \A i \in 1..Len(g_doomed) : ~(i <= reaped)
        BY <1>2
      <3>3. QED
        BY <1>3, <1>4, <2>1, <3>1, <3>2 DEF DoomedOK
    <2>5. DirtyOK(Server')
      <3>1. /\ OneEach(g_dirty)
            /\ \A f \in DOMAIN conns : conns[f].dirty <=> f \in ToSet(g_dirty)
        BY <1>5, ServerIs DEF DirtyOK
      <3>2. \A f \in DOMAIN conns' : conns'[f].dirty <=> f \in ToSet(g_dirty)
        BY <1>1, <1>2, <1>3, <1>4, <3>1
      <3>3. QED
        BY <2>1, <3>1, <3>2 DEF DirtyOK
    <2>6. QED
      BY <1>1, <1>6, <2>1, <2>2, <2>3, <2>4, <2>5 DEF Sound, Standing, RoomsOf
  <1>8. Facing /\ Facing'
    BY <1>1, <1>2, <1>7 DEF Facing
  <1>9. IsFiniteSet(DOMAIN conns) /\ Cardinality(DOMAIN conns') = Cardinality(DOMAIN conns) + 1
    BY <1>1, <1>2, <1>3, RoomsAssumption, FS_Subset, FS_AddElement DEF RoomsAssumption
  <1>10. Kernel' /\ Handling'
    BY <1>1, <1>2, <1>3, <1>8, <1>9 DEF Kernel, Handling
  <1>11. AbsTarget' = AbsTarget /\ AbsDoomed' = AbsDoomed
    <2>1. AbsDoomed' = AbsDoomed
      BY <1>1 DEF AbsDoomed
    <2>2. QED
      BY <1>1, <1>2, <2>1, NoTarget, NoTargetNext
  <1>12. AbsConns' = Chat!With(AbsConns, fd, Chat!NewConn)
    <2>1. \A f \in DOMAIN conns : AbsConns'[f] = AbsConns[f]
      BY <1>1, <1>3 DEF AbsConns
    <2>2. AbsConns'[fd] = Chat!NewConn
      BY <1>1, <1>3 DEF AbsConns, NewConn, Chat!NewConn
    <2>3. AbsConns' = [f \in DOMAIN conns \cup {fd} |-> AbsConns'[f]]
      BY <1>3 DEF AbsConns
    <2>4. AbsConns' = [f \in DOMAIN conns \cup {fd} |-> IF f = fd THEN Chat!NewConn ELSE AbsConns[f]]
      BY <1>1, <2>1, <2>2, <2>3
    <2>5. QED
      BY <2>4, AbsClosing DEF Chat!With
  <1>13. AbsRooms' = AbsRooms
    <2> PICK C : C = AbsConns'
      OBVIOUS
    <2> PICK D : D = AbsConns
      OBVIOUS
    <2>1. /\ DOMAIN C = DOMAIN conns \cup {fd} /\ DOMAIN D = DOMAIN conns
          /\ C[fd] = Chat!NewConn /\ \A f \in DOMAIN conns : C[f] = D[f]
      BY <1>1, <1>12, AbsClosing DEF Chat!With
    <2>2. C[fd].room = << >>
      BY <2>1 DEF Chat!NewConn
    <2>3. << >> \notin DOMAIN RoomsFrom(C)
      BY DEF RoomsFrom
    <2>4. RoomsFrom(D) = RoomsFrom(C)
      BY <1>1, <2>1, <2>2, <2>3, RoomsLose DEF Lost, Gone
    <2>5. QED
      BY <1>8, <2>4, FacingShows, FacingShowsNext DEF Shown
  <1>14. Chat!accept_conn
    <2>1. Chat!Cardinality(DOMAIN AbsConns) < g_max_conns
      BY <1>1, <1>2, SameCardinality, AbsClosing
    <2>2. fd \in Fd \ DOMAIN AbsConns
      BY <1>1, AbsClosing
    <2>3. QED
      BY <1>1, <1>11, <1>12, <1>13, <2>1, <2>2 DEF Chat!accept_conn, Chat!loopVars
  <1>15. QED
    BY <1>1, <1>10, <1>14 DEF ImplInv

(* The name of a room tells its members.                                   *)
LEMMA NamesTell ==
    ASSUME RoomsAssumption, NEW s, RoomsOf(s), NEW f \in DOMAIN s.conns
    PROVE  /\ NameOf(s, f) = << >> <=> s.conns[f].room = k_no_room
           /\ \A idx \in Slots : s.rooms[idx].live =>
                (NameOf(s, f) = s.rooms[idx].name <=> s.conns[f].room = idx)
           /\ s.conns[f].room # k_no_room =>
                s.conns[f].room \in Slots /\ s.rooms[s.conns[f].room].live
  <1>1. /\ \A idx \in Slots : s.rooms[idx].live => s.rooms[idx].name \in Name
        /\ \A i, j \in Slots :
             s.rooms[i].live /\ s.rooms[j].live /\ CStr(s.rooms[i].name) = CStr(s.rooms[j].name)
               => i = j
        /\ s.conns[f].room # k_no_room =>
             s.conns[f].room \in Slots /\ s.rooms[s.conns[f].room].live
    BY DEF RoomsOf, RoomsOK
  <1>2. << >> \notin Name /\ k_no_room \notin Slots
    BY NotSlots, RoomsAssumption DEF RoomsAssumption
  <1>3. CASE s.conns[f].room = k_no_room
    BY <1>1, <1>2, <1>3 DEF NameOf
  <1>4. CASE s.conns[f].room # k_no_room
    BY <1>1, <1>2, <1>4 DEF NameOf
  <1>5. QED
    BY <1>3, <1>4

LEMMA AudienceIs ==
    ASSUME Facing, NEW name, name # << >>, NEW except_fd
    PROVE  Chat!Audience(name, except_fd) =
             {f \in DOMAIN conns : /\ NameOf(Server, f) = name
                                   /\ f # except_fd /\ ~conns[f].closing}
  <1>1. AbsRooms = RoomsFrom(AbsConns)
    BY FacingShows DEF Shown
  <1>2. /\ DOMAIN AbsConns = DOMAIN conns
        /\ \A f \in DOMAIN conns : /\ AbsConns[f].room = NameOf(Server, f)
                                   /\ AbsConns[f].closing = conns[f].closing
    BY ServerIs, AbsClosing DEF AConns, Seen, Half
  <1>3. CASE name \in DOMAIN AbsRooms
    <2>1. AbsRooms[name] = {f \in DOMAIN conns : NameOf(Server, f) = name}
      BY <1>1, <1>2, <1>3 DEF RoomsFrom
    <2>2. QED
      BY <1>2, <1>3, <2>1 DEF Chat!Audience
  <1>4. CASE name \notin DOMAIN AbsRooms
    <2>1. \A f \in DOMAIN conns : NameOf(Server, f) # name
      BY <1>1, <1>2, <1>4 DEF RoomsFrom
    <2>2. QED
      BY <1>4, <2>1 DEF Chat!Audience
  <1>5. QED
    BY <1>3, <1>4

LEMMA ReachedIs ==
    ASSUME Facing, NEW fd \in DOMAIN conns, conns[fd].room # k_no_room, NEW except_fd
    PROVE  /\ Reached(Server, conns[fd].room, except_fd)
                = Chat!Audience(AbsConns[fd].room, except_fd)
           /\ AbsConns[fd].room # << >>
  <1> PICK idx : idx = conns[fd].room
    OBVIOUS
  <1>1. RoomsOf(Server) /\ Server.conns = conns /\ fd \in DOMAIN Server.conns
    BY ServerIs DEF Facing, Sound, Standing
  <1>2. /\ idx \in Slots /\ Server.rooms[idx].live /\ NameOf(Server, fd) = Server.rooms[idx].name
        /\ NameOf(Server, fd) # << >> /\ idx # k_no_room
    BY <1>1, RoomsAssumption, NamesTell
  <1>3. \A f \in DOMAIN conns : NameOf(Server, f) = NameOf(Server, fd) <=> conns[f].room = idx
    BY <1>1, <1>2, RoomsAssumption, NamesTell
  <1>4. AbsConns[fd].room = NameOf(Server, fd)
    BY ServerIs DEF AConns, Seen, Half
  <1>5. QED
    BY <1>1, <1>2, <1>3, <1>4, AudienceIs DEF Reached

LEMMA SpreadTurns ==
    ASSUME NEW s, NEW t, NEW n, NEW who, NEW len, NEW take, Spread(s, t, n, who, len, take),
           NEW U, U = [f \in who |-> Hit(Seen(s, f), f, len, take[f])]
    PROVE  Turned(s, t, n, who, U)
  BY DEF Spread, Turned

LEMMA StepChat ==
    ASSUME ImplInv, NEW len \in LineLen, chat(len)
    PROVE  Chat!chat_now(len) /\ ImplInv'
  <1>1. pc = "read" /\ conns[cur].room # k_no_room /\ UNCHANGED target
    BY DEF chat, Reading
  <1>2. PICK take \in Takes : Handled(broadcast(Server, conns[cur].room, len, Listen, take))
    BY DEF chat
  <1> PICK t : t = broadcast(Server, conns[cur].room, len, Listen, take)
    OBVIOUS
  <1> PICK who : who = Reached(Server, conns[cur].room, Listen)
    OBVIOUS
  <1> PICK U : U = [f \in who |-> Hit(Seen(Server, f), f, len, take[f])]
    OBVIOUS
  <1>3. /\ Facing /\ Sound(Server, reaped) /\ cur \in DOMAIN conns /\ Server.conns = conns
        /\ who \in SUBSET DOMAIN conns /\ take \in [Fd -> Nat] /\ len \in Nat
        /\ conns[cur].room \in Slots \cup {k_no_room}
    <2>1. Facing /\ Sound(Server, reaped) /\ cur \in DOMAIN conns /\ Server.conns = conns
      BY <1>1, FdOf, ServerIs DEF ImplInv, Kernel, Handling
    <2>2. RoomsOf(Server)
      BY <2>1 DEF Sound, Standing
    <2>3. conns[cur].room \in Slots \cup {k_no_room}
      BY <2>1, <2>2, RoomsAssumption, NamesTell
    <2>4. QED
      BY <2>1, <2>3, TakesAre, SdsAssumption DEF SdsAssumption, Reached
  <1>4. Turned(Server, t, reaped, who, U)
    <2> PICK idx : idx = conns[cur].room
      OBVIOUS
    <2>1. Spread(Server, t, reaped, who, len, take)
      BY <1>3, RoomsAssumption, SdsAssumption, BroadcastSpreads
    <2>2. QED
      BY <2>1, SpreadTurns
  <1>5. /\ ImplInv' /\ Changed(who, U) /\ AbsRooms' = AbsRooms /\ AbsTarget' = AbsTarget
        /\ Chat!NextFrame /\ ~trapped /\ ~trapped' /\ DOMAIN AbsConns = DOMAIN conns
        /\ UNCHANGED <<g_batch_flush, batch, running, broken, born>>
    BY <1>1, <1>2, <1>3, <1>4, FrameSteps
  <1>6. who = Chat!Audience(AbsConns[cur].room, Listen) /\ AbsConns[cur].room # << >>
    BY <1>1, <1>3, ReachedIs
  <1>7. \A f \in who : U[f] = Chat!broadcast(f, len, take)
    BY <1>3, SeenIs DEF Hit, Chat!broadcast
  <1>8. Chat!Update(DOMAIN AbsConns, who, LAMBDA f : Chat!broadcast(f, len, take))
    BY <1>5, <1>7 DEF Chat!Update, Changed
  <1>9. take \in Chat!Takes /\ ~Chat!g_coalesce
    BY TakesAre DEF Chat!g_coalesce
  <1>10. Chat!chat_now(len)
    BY <1>1, <1>5, <1>6, <1>8, <1>9 DEF Chat!chat_now
  <1>11. QED
    BY <1>5, <1>10

(* What a name calls: the room it finds, or the one it will open.          *)
Called(s, name) ==
    LET found == find(s.rooms, s.index, name)
    IN  IF found = {} THEN name ELSE s.rooms[(CHOOSE n \in found : TRUE).value].name

LEMMA FoundIs ==
    ASSUME RoomsAssumption, NEW s, RoomsOf(s), NEW name, NEW n,
           n \in find(s.rooms, s.index, name)
    PROVE  n.value \in Slots /\ s.rooms[n.value].live /\ s.rooms[n.value].name \in Name
  <1>1. RoomsOK(s.conns, s.rooms, s.free, s.index)
    BY DEF RoomsOf
  <1>2. PICK i \in Slots : s.rooms[i].live /\ n = Node(s.rooms, i)
    <2>1. \A m \in find(s.rooms, s.index, name) :
            \E i \in Slots : s.rooms[i].live /\ m = Node(s.rooms, i)
      BY ONLY <1>1, FindIs
    <2>2. QED
      BY <2>1
  <1>3. n.value = i
    BY ONLY <1>2 DEF Node
  <1>4. \A j \in Slots : s.rooms[j].live => s.rooms[j].name \in Name
    BY <1>1 DEF RoomsOK
  <1>5. QED
    BY <1>2, <1>3, <1>4

LEMMA CalledNames ==
    ASSUME RoomsAssumption, NEW s, RoomsOf(s), NEW name \in Name
    PROVE  Called(s, name) \in Name
  <1> PICK found : found = find(s.rooms, s.index, name)
    OBVIOUS
  <1>1. CASE found = {}
    BY <1>1 DEF Called
  <1>2. CASE found # {}
    <2> PICK m : m = (CHOOSE n \in found : TRUE)
      OBVIOUS
    <2>1. m \in found
      BY <1>2
    <2>2. s.rooms[m.value].name \in Name
      BY <2>1, RoomsAssumption, FoundIs
    <2>3. Called(s, name) = s.rooms[m.value].name
      BY <1>2 DEF Called
    <2>4. QED
      BY <2>2, <2>3
  <1>3. QED
    BY <1>1, <1>2

LEMMA TargetCalls ==
    target \in Name => AbsTarget = Called(Server, target)
  BY RoomsAssumption, ServerIs DEF RoomsAssumption, AbsTarget, Called

LEMMA TargetNames == Facing /\ target \in Name => AbsTarget \in Name
  BY RoomsAssumption, TargetCalls, CalledNames DEF Facing, Sound, Standing

LEMMA TargetNamesNext == (Facing /\ target \in Name => AbsTarget \in Name)'
  <1>1. [](Facing /\ target \in Name => AbsTarget \in Name)
    BY TargetNames, PTL
  <1>2. QED
    BY <1>1, PTL

(* t is s after connection fd left its room.                               *)
Left(s, t, n, fd) ==
    /\ Sound(t, n) /\ Grown(s, t) /\ t.dirty = s.dirty /\ Occupied(t.rooms)
    /\ t.conns[fd].room = k_no_room
    /\ \A f \in DOMAIN s.conns \ {fd} : t.conns[f].room = s.conns[f].room
    /\ \A f \in DOMAIN s.conns :
         /\ t.conns[f].closing = s.conns[f].closing
         /\ Seen(t, f) = IF f = fd THEN [Seen(s, fd) EXCEPT !.room = << >>] ELSE Seen(s, f)

LEMMA LeaveActs ==
    ASSUME RoomsAssumption, NEW s, NEW n, Sound(s, n), Occupied(s.rooms),
           NEW fd \in DOMAIN s.conns, NEW t, t = leave_room(s, fd)
    PROVE  Left(s, t, n, fd)
  <1>1. IsServer(s) /\ RoomsOf(s)
    BY DEF Sound, Standing
  <1>2. /\ Relinked(s, t) /\ RoomsOf(t) /\ Occupied(t.rooms)
        /\ t.conns[fd].room = k_no_room
        /\ \A f \in DOMAIN s.conns \ {fd} : t.conns[f].room = s.conns[f].room
        /\ \A i \in Slots : t.rooms[i].name = s.rooms[i].name
    BY <1>1, RoomsAssumption, LeaveOK
  <1>3. /\ Sound(t, n) /\ Grown(s, t) /\ t.dirty = s.dirty
        /\ \A f \in DOMAIN s.conns : Seen(t, f) = [Seen(s, f) EXCEPT !.room = NameOf(t, f)]
        /\ \A f \in DOMAIN s.conns : t.conns[f].closing = s.conns[f].closing
    BY <1>2, RelinkSound
  <1>4. NameOf(t, fd) = << >>
    BY <1>2 DEF NameOf
  <1>5. ASSUME NEW f \in DOMAIN s.conns, f # fd
        PROVE  Seen(t, f) = Seen(s, f)
    <2>1. s.conns[f].room # k_no_room => s.conns[f].room \in Slots
      BY <1>1, RoomsAssumption, NamesTell
    <2>2. NameOf(t, f) = NameOf(s, f)
      BY <1>2, <1>5, <2>1 DEF NameOf
    <2>3. [Seen(s, f) EXCEPT !.room = NameOf(s, f)] = Seen(s, f)
      BY DEF Seen, Half
    <2>4. QED
      BY <1>3, <2>2, <2>3
  <1>6. QED
    BY <1>2, <1>3, <1>4, <1>5 DEF Left

LEMMA StepLeave ==
    ASSUME ImplInv, NEW name \in Name, join_leave(name)
    PROVE  Chat!join_leave /\ ImplInv'
  <1>1. /\ pc = "read" /\ conns[cur].nick /\ conns[cur].room # k_no_room
        /\ target' = name /\ pc' = "join"
        /\ UNCHANGED <<g_batch_flush, g_total_live, reaped, batch, cur, running, broken, born>>
    BY DEF join_leave, Reading
  <1>2. PICK take \in Takes :
          Becomes_server(leave_room(broadcast(Server, conns[cur].room, NoticeLen, cur, take), cur))
    BY DEF join_leave
  <1> PICK idx : idx = conns[cur].room
    OBVIOUS
  <1> PICK u : u = broadcast(Server, idx, NoticeLen, cur, take)
    OBVIOUS
  <1> PICK t : t = leave_room(u, cur)
    OBVIOUS
  <1> PICK told : told = Reached(Server, idx, cur)
    OBVIOUS
  <1> PICK v : v = [AbsConns[cur] EXCEPT !.room = << >>]
    OBVIOUS
  <1> PICK who : who = told \cup {cur}
    OBVIOUS
  <1> PICK U : U = [f \in who |-> IF f = cur THEN v ELSE Chat!broadcast(f, NoticeLen, take)]
    OBVIOUS
  <1>3. /\ Kernel /\ Facing /\ Sound(Server, reaped) /\ cur \in DOMAIN conns /\ Server.conns = conns
        /\ told \in SUBSET DOMAIN conns /\ take \in [Fd -> Nat] /\ NoticeLen \in Nat
        /\ idx \in Slots \cup {k_no_room} /\ Occupied(Server.rooms) /\ ~trapped
        /\ Seen(Server, cur) = AbsConns[cur] /\ cur \notin told
    <2>1. /\ Kernel /\ Facing /\ Sound(Server, reaped) /\ cur \in DOMAIN conns
          /\ Server.conns = conns /\ Occupied(Server.rooms) /\ ~trapped
      BY <1>1, FdOf, ServerIs DEF ImplInv, Kernel, Handling, Facing
    <2>2. RoomsOf(Server)
      BY <2>1 DEF Sound, Standing
    <2>3. idx \in Slots \cup {k_no_room}
      BY <2>1, <2>2, RoomsAssumption, NamesTell
    <2>4. QED
      BY <2>1, <2>3, TakesAre, SdsAssumption, SeenIs DEF SdsAssumption, Reached
  <1>4. Spread(Server, u, reaped, told, NoticeLen, take)
    BY <1>3, RoomsAssumption, SdsAssumption, BroadcastSpreads
  <1>5. Left(u, t, reaped, cur)
    <2>1. Sound(u, reaped) /\ Occupied(u.rooms) /\ cur \in DOMAIN u.conns
      BY <1>3, <1>4 DEF Spread, Kept
    <2>2. QED
      BY <2>1, RoomsAssumption, LeaveActs
  <1>6. /\ Sound(t, reaped) /\ Grown(Server, t) /\ Occupied(t.rooms)
        /\ t.conns[cur].room = k_no_room /\ DOMAIN t.conns = DOMAIN conns
    BY <1>3, <1>4, <1>5 DEF Left, Spread, Grown, Kept, Marked
  <1>7. ASSUME NEW f \in DOMAIN conns
        PROVE  Seen(t, f) = IF f \in who THEN U[f] ELSE Seen(Server, f)
    <2>1. /\ Seen(u, f) = IF f \in told THEN Hit(Seen(Server, f), f, NoticeLen, take[f])
                          ELSE Seen(Server, f)
          /\ Seen(t, f) = IF f = cur THEN [Seen(u, cur) EXCEPT !.room = << >>] ELSE Seen(u, f)
      BY <1>3, <1>4, <1>5, <1>7 DEF Left, Spread, Kept
    <2>2. Seen(u, cur) = AbsConns[cur]
      BY <1>3, <1>4 DEF Spread
    <2>3. Hit(Seen(Server, f), f, NoticeLen, take[f]) = Chat!broadcast(f, NoticeLen, take)
      BY <1>7, SeenIs DEF Hit, Chat!broadcast
    <2>4. QED
      BY <2>1, <2>2, <2>3
  <1>8. /\ Facing' /\ ~trapped' /\ Shown /\ Shown' /\ Changed(who, U)
        /\ Server' = t /\ AbsConns' = AConns(t) /\ DOMAIN conns' = DOMAIN conns
        /\ DOMAIN AbsConns = DOMAIN conns
    <2>1. Becomes_server(t) /\ who \in SUBSET DOMAIN conns
      BY <1>2, <1>3
    <2>2. QED
      BY ONLY <1>1, <1>3, <1>6, <1>7, <2>1, ServerSteps
  <1>9. Kernel'
    <2>1. g_total_live' = Cardinality(DOMAIN conns') /\ broken' \subseteq Fd
      BY <1>1, <1>3, <1>8 DEF Kernel
    <2>2. /\ g_dirty' = t.dirty /\ ToSet(t.dirty) \subseteq ToSet(Server.dirty) \cup DOMAIN conns
          /\ ~g_batch_flush => t.dirty = Server.dirty
      BY <1>2, <1>3, <1>6 DEF Becomes_server, Grown, Marked
    <2>3. QED
      BY <1>1, <1>3, <1>8, <2>1, <2>2, ServerIs DEF Kernel
  <1>10. Handling'
    <2>1. conns' = t.conns
      BY <1>2 DEF Becomes_server, Becomes
    <2>2. QED
      BY <1>1, <1>3, <1>6, <2>1 DEF Handling
  <1>11. told = Chat!Audience(AbsConns[cur].room, cur) /\ AbsConns[cur].room # << >>
    BY <1>1, <1>3, ReachedIs
  <1>12. Chat!leave_room(cur, AbsConns[cur].room)
    <2> PICK C : C = AbsConns
      OBVIOUS
    <2> PICK D : D = AbsConns'
      OBVIOUS
    <2> PICK old : old = C[cur].room
      OBVIOUS
    <2>1. AbsRooms = RoomsFrom(C) /\ AbsRooms' = RoomsFrom(D)
      BY <1>8 DEF Shown
    <2>2. DOMAIN C = DOMAIN conns /\ DOMAIN D = DOMAIN C /\ cur \in DOMAIN C
      BY <1>3, <1>8 DEF AConns, Changed
    <2>3. D[cur].room = << >>
      BY <1>6, <1>8, <1>3 DEF AConns, Seen, Half, NameOf
    <2>4. ASSUME NEW f \in DOMAIN C \ {cur} PROVE D[f].room = C[f].room
      <3>1. D[f] = Seen(t, f) /\ Seen(t, f) = Seen(u, f) /\ C[f] = Seen(Server, f)
        BY <1>3, <1>4, <1>5, <1>8, <2>2, SeenIs DEF AConns, Left, Spread, Kept
      <3>2. NameOf(u, f) = NameOf(Server, f)
        BY <1>3, <1>4, <2>2, KeptNames DEF Spread
      <3>3. QED
        BY <3>1, <3>2 DEF Seen, Half
    <2>5. RoomsFrom(D) = Lost(RoomsFrom(C), old, cur)
      BY ONLY <2>2, <2>3, <2>4, RoomsLose, old = C[cur].room DEF Gone
    <2>6. QED
      BY <1>1, <2>1, <2>5 DEF Chat!leave_room, Chat!Without, Chat!g_coalesce, Lost
  <1>13. AbsTarget' \in Name
    BY <1>1, <1>8, TargetNamesNext
  <1>14. Chat!join_leave
    <2> DEFINE Left_(f) == IF f = cur THEN [AbsConns[f] EXCEPT !.room = << >>]
                           ELSE Chat!broadcast(f, NoticeLen, take)
    <2>1. Chat!Update(DOMAIN AbsConns, Chat!Audience(AbsConns[cur].room, cur) \cup {cur}, Left_)
      <3>1. \A f \in who : U[f] = Left_(f)
        OBVIOUS
      <3>2. who = Chat!Audience(AbsConns[cur].room, cur) \cup {cur}
        BY <1>11
      <3> HIDE DEF Left_
      <3>3. /\ \A f \in DOMAIN AbsConns : f \in who => U[f] = Left_(f)
            /\ {f \in who : U[f].closing} = {f \in who : Left_(f).closing}
            /\ {f \in who : U[f].dirty} = {f \in who : Left_(f).dirty}
        BY ONLY <3>1
      <3>4. QED
        BY ONLY <1>8, <3>2, <3>3 DEF Chat!Update, Changed
    <2>2. AbsConns[cur].nick
      BY <1>1, <1>3, AbsClosing
    <2>3. take \in Chat!Takes
      BY TakesAre
    <2>4. QED
      BY <1>1, <1>3, <1>8, <1>11, <1>12, <1>13, <2>1, <2>2, <2>3 DEF Chat!join_leave
  <1>15. QED
    BY <1>1, <1>8, <1>9, <1>10, <1>14 DEF ImplInv

(* t is s after connection fd, which was in no room, entered room idx.     *)
Entered(s, t, n, fd, idx, name) ==
    /\ Sound(t, n) /\ Grown(s, t) /\ t.dirty = s.dirty /\ Occupied(t.rooms)
    /\ idx \in Slots /\ name \in Name /\ t.conns[fd].room = idx
    /\ \A f \in DOMAIN s.conns \ {fd} :
         /\ t.conns[f].room = s.conns[f].room
         /\ s.conns[f].room = idx <=> NameOf(s, f) = name
    /\ \A f \in DOMAIN s.conns :
         /\ t.conns[f].closing = s.conns[f].closing
         /\ Seen(t, f) = IF f = fd THEN [Seen(s, fd) EXCEPT !.room = name] ELSE Seen(s, f)

(* The record of the room to enter: found, or taken off the free list.     *)
Opened(s, b, idx, name) ==
    /\ Relinked(s, b) /\ RoomsOf(b) /\ b.conns = s.conns /\ idx \in Slots
    /\ b.rooms[idx].live /\ b.rooms[idx].name = name /\ name \in Name
    /\ \A i \in Slots \ {idx} : b.rooms[i] = s.rooms[i]
    /\ b.rooms[idx] = s.rooms[idx] \/ ~s.rooms[idx].live

Opening(s, name, found, m, idx, called, b) ==
    /\ found = find(s.rooms, s.index, name) /\ (found # {} => m \in found)
    /\ idx = IF found = {} THEN s.free ELSE m.value
    /\ called = IF found = {} THEN name ELSE s.rooms[idx].name
    /\ b = IF found = {} THEN NewRoom(s, name) ELSE s

LEMMA OpenOK ==
    ASSUME RoomsAssumption, NEW s, IsServer(s), RoomsOf(s), s.free # k_no_room,
           NEW name \in Name, NEW found, NEW m, NEW idx, NEW called, NEW b,
           Opening(s, name, found, m, idx, called, b)
    PROVE  Opened(s, b, idx, called)
  <1> USE DEF Opening
  <1>1. CASE found = {}
    <2>1. idx = s.free /\ b = NewRoom(s, name) /\ called = name
      BY <1>1
    <2>2. /\ s.free \in Slots /\ ~s.rooms[s.free].live
          /\ Relinked(s, b) /\ RoomsOf(b) /\ b.conns = s.conns
          /\ b.rooms[s.free].live /\ b.rooms[s.free].name = name
          /\ \A i \in Slots \ {s.free} : b.rooms[i] = s.rooms[i]
      <3>1. find(s.rooms, s.index, name) = {}
        BY <1>1
      <3>2. b = NewRoom(s, name)
        BY <2>1
      <3>3. QED
        BY ONLY <3>1, <3>2, RoomsAssumption, IsServer(s), RoomsOf(s), s.free # k_no_room,
                name \in Name, NewRoomOK
    <2>3. QED
      BY ONLY <2>1, <2>2, name \in Name DEF Opened
  <1>2. CASE found # {}
    <2>1. idx = m.value /\ b = s /\ m \in found /\ called = s.rooms[idx].name
      BY <1>2
    <2>2. idx \in Slots /\ s.rooms[idx].live /\ s.rooms[idx].name \in Name
      BY <2>1, RoomsAssumption, FoundIs
    <2>3. Relinked(s, s)
      BY DEF Relinked
    <2>4. QED
      BY ONLY <2>1, <2>2, <2>3, RoomsOf(s) DEF Opened
  <1>3. QED
    BY <1>1, <1>2

LEMMA EnterActs ==
    ASSUME RoomsAssumption, NEW s, NEW n, Sound(s, n), Occupied(s.rooms),
           NEW fd \in DOMAIN s.conns, s.conns[fd].room = k_no_room,
           NEW b, NEW idx, NEW name, Opened(s, b, idx, name),
           NEW t, t = join_room(b, fd, idx)
    PROVE  Entered(s, t, n, fd, idx, name)
  <1>1. /\ IsServer(s) /\ RoomsOf(s)
        /\ Relinked(s, b) /\ RoomsOf(b) /\ b.conns = s.conns /\ idx \in Slots
        /\ b.rooms[idx].live /\ b.rooms[idx].name = name /\ name \in Name
        /\ \A i \in Slots \ {idx} : b.rooms[i] = s.rooms[i]
        /\ b.rooms[idx] = s.rooms[idx] \/ ~s.rooms[idx].live
    BY DEF Sound, Standing, Opened
  <1>2. /\ Relinked(b, t) /\ RoomsOf(t) /\ t.conns[fd].room = idx
        /\ \A f \in DOMAIN b.conns \ {fd} : t.conns[f].room = b.conns[f].room
        /\ \A i \in Slots : /\ t.rooms[i].live = b.rooms[i].live
                            /\ t.rooms[i].name = b.rooms[i].name
                            /\ i # idx => t.rooms[i].count = b.rooms[i].count
        /\ t.rooms[idx].count > 0
    <2>1. IsServer(b) /\ fd \in DOMAIN b.conns /\ b.conns[fd].room = k_no_room
      BY <1>1 DEF Relinked
    <2>2. QED
      BY <1>1, <2>1, RoomsAssumption, JoinOK
  <1>3. Relinked(s, t)
    BY <1>1, <1>2, RelinkedTwice
  <1>4. /\ Sound(t, n) /\ Grown(s, t) /\ t.dirty = s.dirty
        /\ \A f \in DOMAIN s.conns : Seen(t, f) = [Seen(s, f) EXCEPT !.room = NameOf(t, f)]
        /\ \A f \in DOMAIN s.conns : t.conns[f].closing = s.conns[f].closing
    BY <1>2, <1>3, RelinkSound
  <1>5. Occupied(t.rooms)
    BY <1>1, <1>2 DEF Occupied
  <1>6. NameOf(t, fd) = name
    BY <1>1, <1>2, NotSlots, RoomsAssumption DEF NameOf
  <1>7. ASSUME NEW f \in DOMAIN s.conns \ {fd}
        PROVE  /\ Seen(t, f) = Seen(s, f) /\ t.conns[f].room = s.conns[f].room
               /\ s.conns[f].room = idx <=> NameOf(s, f) = name
    <2>1. /\ NameOf(s, f) = << >> <=> s.conns[f].room = k_no_room
          /\ s.conns[f].room # k_no_room =>
                s.conns[f].room \in Slots /\ s.rooms[s.conns[f].room].live
      BY <1>1, <1>7, RoomsAssumption, NamesTell
    <2>2. t.conns[f].room = s.conns[f].room
      BY <1>1, <1>2, <1>7
    <2>3. NameOf(t, f) = NameOf(s, f)
      BY <1>1, <1>2, <2>1, <2>2 DEF NameOf
    <2>4. [Seen(s, f) EXCEPT !.room = NameOf(s, f)] = Seen(s, f)
      BY DEF Seen, Half
    <2>5. \A i, j \in Slots :
             b.rooms[i].live /\ b.rooms[j].live /\ b.rooms[i].name = b.rooms[j].name => i = j
      BY <1>1 DEF RoomsOf, RoomsOK
    <2>6. s.conns[f].room = idx <=> NameOf(s, f) = name
      <3>1. name # << >> /\ idx # k_no_room
        BY <1>1, NotSlots, RoomsAssumption DEF RoomsAssumption
      <3>2. CASE s.conns[f].room = idx
        BY <1>1, <2>1, <3>1, <3>2 DEF NameOf
      <3>3. CASE NameOf(s, f) = name
        <4>1. /\ s.conns[f].room \in Slots /\ s.rooms[s.conns[f].room].live
              /\ s.rooms[s.conns[f].room].name = name
          BY <2>1, <3>1, <3>3 DEF NameOf
        <4> PICK j : j = s.conns[f].room
          OBVIOUS
        <4>2. j = idx \/ b.rooms[j] = s.rooms[j]
          BY <1>1, <4>1
        <4>3. QED
          BY ONLY <1>1, <2>5, <3>3, <4>1, <4>2, j = s.conns[f].room
      <3>4. QED
        BY <3>2, <3>3
    <2>7. QED
      BY <1>4, <1>7, <2>2, <2>3, <2>4, <2>6
  <1>8. QED
    BY <1>1, <1>2, <1>4, <1>5, <1>6, <1>7 DEF Entered

LEMMA StepEnter ==
    ASSUME ImplInv, pc \in {"read", "join"}, conns[cur].room = k_no_room,
           NEW sent \in Name, join_enter(sent), NEW name, name = Called(Server, sent)
    PROVE  Chat!join_enter(name) /\ ImplInv' /\ name \in Name
  <1> PICK found : found = find(g_rooms, g_room_index, sent)
    OBVIOUS
  <1> PICK idx : idx = IF found = {} THEN g_room_free ELSE (CHOOSE n \in found : TRUE).value
    OBVIOUS
  <1> PICK m : m = (CHOOSE n \in found : TRUE)
    OBVIOUS
  <1> PICK b : b = IF found = {} THEN NewRoom(Server, sent) ELSE Server
    OBVIOUS
  <1> PICK t : t = join_room(b, cur, idx)
    OBVIOUS
  <1> PICK u : u = queue_send(t, cur, NoticeLen)
    OBVIOUS
  <1>1. /\ Kernel /\ Facing /\ Sound(Server, reaped) /\ cur \in DOMAIN conns /\ Server.conns = conns
        /\ Occupied(Server.rooms) /\ ~trapped /\ IsServer(Server) /\ RoomsOf(Server)
        /\ NoticeLen \in Nat /\ SUBSET DOMAIN conns = SUBSET DOMAIN Server.conns
        /\ reaped = 0 /\ cur \in Fd
    <2>1. /\ Kernel /\ Facing /\ Sound(Server, reaped) /\ cur \in DOMAIN conns
          /\ Server.conns = conns /\ Occupied(Server.rooms) /\ ~trapped /\ reaped = 0
          /\ cur \in Fd
      BY FdOf, ServerIs DEF ImplInv, Kernel, Handling, Facing
    <2>2. QED
      BY <2>1, SdsAssumption DEF Sound, Standing, SdsAssumption
  <1>2. g_room_free # k_no_room
    <2>1. RoomsOK(conns, g_rooms, g_room_free, g_room_index) /\ Occupied(g_rooms)
      BY <1>1, ServerIs DEF RoomsOf
    <2>2. QED
      BY <1>1, <2>1, RoomsAssumption, FreeRecord
  <1>3. Opened(Server, b, idx, name)
    <2>1. found = find(Server.rooms, Server.index, sent) /\ Server.free # k_no_room
      BY <1>2, ServerIs
    <2>2. found # {} => m \in found
      OBVIOUS
    <2>3. idx = IF found = {} THEN Server.free ELSE m.value
      BY ServerIs
    <2>4. name = IF found = {} THEN sent ELSE Server.rooms[idx].name
      BY <2>1, <2>3, ServerIs DEF Called
    <2>5. Opening(Server, sent, found, m, idx, name, b)
      BY <2>1, <2>2, <2>3, <2>4 DEF Opening
    <2>6. QED
      BY ONLY <1>1, <2>1, <2>5, RoomsAssumption, OpenOK, sent \in Name
  <1>4. Entered(Server, t, reaped, cur, idx, name)
    <2>1. cur \in DOMAIN Server.conns /\ Server.conns[cur].room = k_no_room
      BY <1>1
    <2>2. QED
      BY ONLY <1>1, <1>3, <2>1, t = join_room(b, cur, idx), RoomsAssumption, EnterActs
  <1>5. PICK take \in Takes : Handled(broadcast(u, idx, NoticeLen, cur, take))
    <2>1. ~(found = {} /\ g_room_free = k_no_room)
      BY <1>2
    <2>2. \E take \in Takes : Handled(broadcast(u, idx, NoticeLen, cur, take))
      BY <2>1 DEF join_enter
    <2>3. QED
      BY <2>2
  <1>6. target' = << >>
    BY <1>2 DEF join_enter
  <1> PICK w : w = broadcast(u, idx, NoticeLen, cur, take)
    OBVIOUS
  <1> PICK told : told = Reached(Server, idx, cur)
    OBVIOUS
  <1> PICK who : who = told \cup {cur}
    OBVIOUS
  <1> PICK v : v = Chat!queue_send([AbsConns[cur] EXCEPT !.room = name], NoticeLen)
    OBVIOUS
  <1> PICK U : U = [f \in who |-> IF f = cur THEN v ELSE Chat!broadcast(f, NoticeLen, take)]
    OBVIOUS
  <1>7. /\ DOMAIN t.conns = DOMAIN conns /\ Sound(t, reaped) /\ cur \in DOMAIN t.conns
        /\ Seen(t, cur) = [AbsConns[cur] EXCEPT !.room = name]
        /\ idx \in Slots /\ idx # k_no_room /\ name \in Name /\ name # << >>
    <2>1. /\ DOMAIN t.conns = DOMAIN Server.conns /\ Sound(t, reaped) /\ idx \in Slots
          /\ name \in Name
      BY ONLY <1>4 DEF Entered, Grown
    <2>2. Seen(t, cur) = [Seen(Server, cur) EXCEPT !.room = name]
      BY ONLY <1>1, <1>4 DEF Entered
    <2>3. QED
      BY <1>1, <2>1, <2>2, SeenIs, NotSlots, RoomsAssumption DEF RoomsAssumption
  <1>8. Acts(t, u, reaped, cur, v) /\ u.dirty = t.dirty
    <2>1. Standing(t, reaped)
      BY <1>7 DEF Sound
    <2>2. /\ Acts(t, u, reaped, cur, Chat!queue_send(Seen(t, cur), NoticeLen))
          /\ u.dirty = t.dirty
      BY <1>1, <1>7, <2>1, RoomsAssumption, SdsAssumption, QueueActs
    <2>3. QED
      BY <1>7, <2>2
  <1>9. Sound(u, reaped) /\ DOMAIN u.conns = DOMAIN conns /\ u.rooms = t.rooms
    BY <1>7, <1>8 DEF Acts, Sound, Kept
  <1>10. Reached(u, idx, cur) = told
    <2>1. \A f \in DOMAIN conns \ {cur} : /\ u.conns[f] = t.conns[f]
                                          /\ t.conns[f].room = conns[f].room
                                          /\ t.conns[f].closing = conns[f].closing
      <3>1. \A f \in DOMAIN t.conns \ {cur} : u.conns[f] = t.conns[f]
        BY ONLY <1>8 DEF Acts
      <3>2. \A f \in DOMAIN Server.conns \ {cur} :
              /\ t.conns[f].room = Server.conns[f].room
              /\ t.conns[f].closing = Server.conns[f].closing
        BY ONLY <1>4 DEF Entered
      <3>3. QED
        BY ONLY <1>1, <1>7, <3>1, <3>2
    <2>2. told = {f \in DOMAIN conns : /\ idx # k_no_room /\ conns[f].room = idx
                                       /\ f # cur /\ ~conns[f].closing}
      BY <1>1 DEF Reached
    <2>3. Reached(u, idx, cur) =
            {f \in DOMAIN conns : /\ idx # k_no_room /\ u.conns[f].room = idx
                                  /\ f # cur /\ ~u.conns[f].closing}
      BY <1>9 DEF Reached
    <2>4. QED
      BY ONLY <2>1, <2>2, <2>3
  <1>11. Spread(u, w, reaped, told, NoticeLen, take)
    <2>1. Spread(u, w, reaped, Reached(u, idx, cur), NoticeLen, take)
      <3>1. take \in [Fd -> Nat] /\ idx \in Slots \cup {k_no_room}
        BY <1>7, TakesAre
      <3>2. QED
        BY ONLY <1>1, <1>9, <3>1, RoomsAssumption, SdsAssumption, BroadcastSpreads,
                w = broadcast(u, idx, NoticeLen, cur, take)
    <2>2. QED
      BY <1>10, <2>1
  <1>12. /\ Sound(w, reaped) /\ Occupied(w.rooms) /\ DOMAIN w.conns = DOMAIN conns
         /\ told \in SUBSET DOMAIN conns /\ cur \notin told /\ w.conns[cur].room = idx
    <2>1. Occupied(t.rooms) /\ t.conns[cur].room = idx
      BY <1>4 DEF Entered
    <2>2. /\ Kept(u, w) /\ Sound(w, reaped) /\ Kept(t, u)
      BY ONLY <1>8, <1>11 DEF Spread, Acts
    <2>3. w.conns[cur].room = idx /\ w.rooms = t.rooms /\ DOMAIN w.conns = DOMAIN conns
      BY ONLY <1>1, <1>7, <1>9, <2>1, <2>2 DEF Kept
    <2>4. QED
      BY <1>1, <2>1, <2>2, <2>3 DEF Reached
  <1>13. Grown(Server, w)
    <2>1. Grown(Server, t) /\ t.dirty = Server.dirty
      BY <1>4 DEF Entered
    <2>2. Kept(t, u) /\ Kept(u, w) /\ Marked(u, w) /\ u.dirty = Server.dirty
      BY <1>8, <1>11, <2>1 DEF Acts, Spread
    <2>3. Marked(Server, w)
      BY <1>1, <1>9, <2>2 DEF Marked
    <2>4. QED
      <3>1. \A f \in DOMAIN conns : /\ Server.conns[f].closing => t.conns[f].closing
                                    /\ t.conns[f].closing => u.conns[f].closing
                                    /\ u.conns[f].closing => w.conns[f].closing
        BY ONLY <1>1, <1>7, <1>9, <2>1, <2>2 DEF Grown, Kept
      <3>2. QED
        BY ONLY <1>1, <1>12, <2>3, <3>1 DEF Grown
  <1>14. ASSUME NEW f \in DOMAIN conns
         PROVE  Seen(w, f) = IF f \in who THEN U[f] ELSE Seen(Server, f)
    <2>1. Seen(w, f) = IF f \in told THEN Hit(Seen(u, f), f, NoticeLen, take[f]) ELSE Seen(u, f)
      BY <1>9, <1>11, <1>14 DEF Spread
    <2>2. Seen(u, cur) = v
      BY <1>8 DEF Acts
    <2>3. CASE f = cur
      BY <1>12, <2>1, <2>2, <2>3
    <2>4. CASE f # cur
      <3>1. Seen(u, f) = Seen(t, f)
        <4>1. u.conns[f] = t.conns[f]
          BY <1>7, <1>8, <1>14, <2>4 DEF Acts
        <4>2. NameOf(u, f) = NameOf(t, f)
          BY <1>9, <4>1 DEF NameOf
        <4>3. QED
          BY <4>1, <4>2 DEF Seen
      <3>2. Seen(t, f) = Seen(Server, f)
        BY <1>1, <1>4, <1>14, <2>4 DEF Entered
      <3>3. Hit(Seen(Server, f), f, NoticeLen, take[f]) = Chat!broadcast(f, NoticeLen, take)
        BY <1>14, SeenIs DEF Hit, Chat!broadcast
      <3>4. QED
        BY <2>1, <2>4, <3>1, <3>2, <3>3
    <2>5. QED
      BY <2>3, <2>4
  <1>15. /\ Becomes_server(w)
         /\ pc' = IF w.conns[cur].closing THEN "drain" ELSE "read"
         /\ cur' = IF w.conns[cur].closing THEN Listen ELSE cur
         /\ UNCHANGED <<g_batch_flush, g_total_live, reaped, batch, running, broken, born>>
    BY <1>5 DEF Handled
  <1>16. /\ Facing' /\ ~trapped' /\ Shown /\ Shown' /\ Changed(who, U)
         /\ Server' = w /\ AbsConns' = AConns(w) /\ DOMAIN conns' = DOMAIN conns
         /\ DOMAIN AbsConns = DOMAIN conns
    <2>1. who \in SUBSET DOMAIN conns
      BY <1>1, <1>12
    <2>2. QED
      BY ONLY <1>1, <1>12, <1>13, <1>14, <1>15, <2>1, ServerSteps
  <1>17. conns' = w.conns /\ AbsConns'[cur].closing = w.conns[cur].closing
    BY <1>1, <1>12, <1>15, <1>16 DEF Becomes_server, Becomes, AConns, Seen, Half
  <1>18. Kernel'
    <2>1. g_total_live' = Cardinality(DOMAIN conns') /\ broken' \subseteq Fd
      BY <1>1, <1>15, <1>16 DEF Kernel
    <2>2. /\ g_dirty' = w.dirty /\ ToSet(w.dirty) \subseteq ToSet(Server.dirty) \cup DOMAIN conns
          /\ ~g_batch_flush => w.dirty = Server.dirty
      BY <1>1, <1>13, <1>15 DEF Becomes_server, Grown, Marked
    <2>3. ToSet(g_dirty) \subseteq DOMAIN conns /\ (~g_batch_flush => g_dirty = << >>)
      BY <1>1 DEF Kernel
    <2>4. QED
      BY <1>1, <1>15, <1>16, <2>1, <2>2, <2>3, ServerIs DEF Kernel
  <1>19. Handling'
    BY <1>1, <1>6, <1>15, <1>16 DEF Handling
  <1>20. told = Chat!Audience(name, cur)
    <2>1. Chat!Audience(name, cur) = {f \in DOMAIN conns : /\ NameOf(Server, f) = name
                                                           /\ f # cur /\ ~conns[f].closing}
      BY <1>1, <1>7, AudienceIs
    <2>2. \A f \in DOMAIN conns \ {cur} : conns[f].room = idx <=> NameOf(Server, f) = name
      BY <1>1, <1>4 DEF Entered
    <2>3. QED
      BY <1>1, <1>7, <2>1, <2>2 DEF Reached
  <1>21. AbsRooms' = Gained(AbsRooms, name, cur)
    <2> PICK C : C = AbsConns
      OBVIOUS
    <2> PICK D : D = AbsConns'
      OBVIOUS
    <2>1. AbsRooms = RoomsFrom(C) /\ AbsRooms' = RoomsFrom(D)
      BY <1>16 DEF Shown
    <2>2. DOMAIN C = DOMAIN conns /\ DOMAIN D = DOMAIN C /\ cur \in DOMAIN C
      BY <1>1, <1>16 DEF Changed
    <2>3. C[cur].room = << >>
      BY <1>1 DEF AbsConns
    <2>4. D = AConns(w) /\ D[cur] = Seen(w, cur) /\ NameOf(w, cur) = w.rooms[idx].name
      BY <1>1, <1>7, <1>12, <1>16 DEF AConns, NameOf
    <2>5. D[cur].room = name
      <3>1. NameOf(w, cur) = NameOf(u, cur) /\ NameOf(u, cur) = NameOf(t, cur)
        BY <1>7, <1>8, <1>9, <1>11, KeptNames DEF Spread, Acts
      <3>2. Seen(t, cur).room = name
        BY <1>1, <1>7, AbsClosing DEF AbsConns
      <3>3. QED
        BY <2>4, <3>1, <3>2 DEF Seen, Half
    <2>6. ASSUME NEW f \in DOMAIN C \ {cur} PROVE D[f].room = C[f].room
      <3>1. D[f] = Seen(w, f) /\ C[f] = Seen(Server, f)
        <4>1. f \in DOMAIN conns /\ f \in DOMAIN D
          BY <2>2
        <4>2. D[f] = Seen(w, f)
          BY ONLY <2>4, <4>1 DEF AConns
        <4>3. QED
          BY <4>1, <4>2, SeenIs
      <3>2. NameOf(w, f) = NameOf(u, f) /\ NameOf(u, f) = NameOf(t, f)
        <4>1. f \in DOMAIN t.conns /\ f \in DOMAIN u.conns
          BY <1>7, <1>9, <2>2 DEF Spread, Kept, Acts
        <4>2. Kept(t, u) /\ Kept(u, w)
          BY <1>8, <1>9, <1>11 DEF Spread, Acts
        <4>3. QED
          BY ONLY <4>1, <4>2, KeptNames
      <3>3. Seen(t, f) = Seen(Server, f)
        BY <1>1, <1>4, <2>2 DEF Entered
      <3>4. QED
        BY <3>1, <3>2, <3>3 DEF Seen, Half
    <2>7. RoomsFrom(D) = Gained(RoomsFrom(C), name, cur)
      BY ONLY <1>7, <2>2, <2>3, <2>5, <2>6, RoomsGain
    <2>8. QED
      BY <2>1, <2>7
  <1>22. AbsTarget' = << >>
    BY <1>6, NoTargetNext
  <1>23. Chat!NextFrame
    BY <1>1, <1>15, <1>16, <1>17 DEF Chat!NextFrame
  <1>24. Chat!join_enter(name)
    <2> DEFINE Entered_(f) == IF f = cur
                                THEN Chat!queue_send([AbsConns[f] EXCEPT !.room = name], NoticeLen)
                                ELSE Chat!broadcast(f, NoticeLen, take)
    <2>1. Chat!Update(DOMAIN AbsConns, Chat!Audience(name, cur) \cup {cur}, Entered_)
      <3>1. \A f \in who : U[f] = Entered_(f)
        OBVIOUS
      <3>2. who = Chat!Audience(name, cur) \cup {cur}
        BY <1>20
      <3> HIDE DEF Entered_
      <3>3. /\ \A f \in DOMAIN AbsConns : f \in who => U[f] = Entered_(f)
            /\ {f \in who : U[f].closing} = {f \in who : Entered_(f).closing}
            /\ {f \in who : U[f].dirty} = {f \in who : Entered_(f).dirty}
        BY ONLY <3>1
      <3>4. QED
        BY ONLY <1>16, <3>2, <3>3 DEF Chat!Update, Changed
    <2>2. take \in Chat!Takes
      BY TakesAre
    <2>3. UNCHANGED <<g_batch_flush, batch, running, broken, born>>
      BY <1>15
    <2>4. AbsRooms' = Chat!With(AbsRooms, name, {cur} \cup IF name \in DOMAIN AbsRooms
                                                          THEN AbsRooms[name] ELSE {})
      BY <1>21 DEF Gained, Chat!With
    <2> HIDE DEF Entered_
    <2>5. \E taken \in Chat!Takes :
            Chat!Update(DOMAIN AbsConns, Chat!Audience(name, cur) \cup {cur},
              LAMBDA f : IF f = cur
                           THEN Chat!queue_send([AbsConns[f] EXCEPT !.room = name], NoticeLen)
                           ELSE Chat!broadcast(f, NoticeLen, taken))
      BY <2>1, <2>2 DEF Entered_
    <2>6. QED
      BY <1>22, <1>23, <2>3, <2>4, <2>5 DEF Chat!join_enter
  <1>25. QED
    BY <1>1, <1>7, <1>16, <1>18, <1>19, <1>24 DEF ImplInv

LEMMA StepJoinFirst ==
    ASSUME ImplInv, NEW name \in Name, join_first(name)
    PROVE  Chat!join_first /\ ImplInv'
  <1>1. /\ pc = "read" /\ ~trapped /\ conns[cur].nick /\ conns[cur].room = k_no_room
        /\ join_enter(name)
    BY DEF join_first, Reading
  <1> PICK called : called = Called(Server, name)
    OBVIOUS
  <1>2. Chat!join_enter(called) /\ ImplInv' /\ called \in Name
    BY <1>1, StepEnter
  <1>3. cur \in DOMAIN conns
    BY <1>1 DEF ImplInv, Handling
  <1>4. AbsConns[cur].nick /\ AbsConns[cur].room = << >>
    BY <1>1, <1>3 DEF AbsConns
  <1>5. QED
    BY <1>1, <1>2, <1>4 DEF Chat!join_first

LEMMA StepJoinMove ==
    ASSUME ImplInv, join_move
    PROVE  Chat!join_move /\ ImplInv'
  <1>1. pc = "join" /\ ~trapped /\ join_enter(target)
    BY DEF join_move
  <1>2. target \in Name /\ conns[cur].room = k_no_room
    BY <1>1 DEF ImplInv, Handling
  <1>3. AbsTarget = Called(Server, target)
    BY <1>2, TargetCalls
  <1>4. Chat!join_enter(AbsTarget) /\ ImplInv'
    BY <1>1, <1>2, <1>3, StepEnter
  <1>5. QED
    BY <1>1, <1>4 DEF Chat!join_move

(* A pass over the dirty list: flush_dirty, before the reap and after it.  *)
LEMMA FlushSteps ==
    ASSUME ImplInv, flush_pass
    PROVE  Chat!flush_dirty /\ AbsRooms' = AbsRooms /\ ImplInv'
  <1>1. /\ pc \in {"flush", "flush2"} /\ pc' = (IF pc = "flush" THEN "reap" ELSE "wait")
        /\ UNCHANGED <<g_batch_flush, g_total_live, reaped, batch, cur, target, running, broken,
                       born>>
    BY DEF flush_pass, loop_vars
  <1>2. PICK take \in Takes : Becomes_server(flush_dirty(Server, take))
    BY DEF flush_pass
  <1> PICK t : t = flush_dirty(Server, take)
    OBVIOUS
  <1> PICK swept : swept = ToSet(g_dirty) \cap DOMAIN AbsConns
    OBVIOUS
  <1> PICK F : F = [f \in swept |-> Flushed(AbsConns[f], f, take[f])]
    OBVIOUS
  <1>3. /\ Kernel /\ Facing /\ Sound(Server, reaped) /\ cur = Listen /\ target = << >>
        /\ ~trapped /\ reaped = 0 /\ Server.conns = conns /\ Server.dirty = g_dirty
        /\ Occupied(Server.rooms) /\ take \in [Fd -> Nat]
    <2>1. /\ Kernel /\ Facing /\ cur = Listen /\ target = << >> /\ ~trapped /\ reaped = 0
      BY <1>1 DEF ImplInv, Handling, Kernel
    <2>2. QED
      BY <2>1, ServerIs, TakesAre DEF Facing
  <1>4. /\ Sound(t, reaped) /\ Kept(Server, t) /\ t.dirty = << >>
        /\ \A f \in DOMAIN conns :
             Seen(t, f) = IF f \in ToSet(g_dirty) THEN Flushed(Seen(Server, f), f, take[f])
                          ELSE Seen(Server, f)
    <2>1. /\ Sound(t, reaped) /\ Kept(Server, t) /\ t.dirty = << >>
          /\ \A f \in DOMAIN Server.conns :
               Seen(t, f) = IF f \in ToSet(Server.dirty) THEN Flushed(Seen(Server, f), f, take[f])
                            ELSE Seen(Server, f)
      BY ONLY <1>3, t = flush_dirty(Server, take), RoomsAssumption, FlushSweeps
    <2>2. QED
      BY <1>3, <2>1
  <1>5. Server' = t
    <2>1. DOMAIN t = ServerFields /\ t = [x \in DOMAIN t |-> t[x]]
      BY ONLY <1>4 DEF Sound, Standing, IsServer
    <2>2. QED
      BY ONLY <1>2, <2>1, BecomesIs, t = flush_dirty(Server, take)
  <1>6. Facing'
    <2>1. Occupied(t.rooms) /\ g_rooms' = t.rooms
      BY <1>2, <1>3, <1>4 DEF Kept, Becomes_server, Becomes
    <2>2. QED
      BY <1>1, <1>4, <1>5, <2>1 DEF Facing
  <1>7. /\ DOMAIN conns' = DOMAIN conns /\ g_dirty' = << >> /\ ~trapped' /\ conns' = t.conns
    <2>1. ~t.trapped
      BY <1>4 DEF Sound, Standing
    <2>2. QED
      BY <1>2, <1>3, <1>4, <2>1 DEF Becomes_server, Becomes, Kept
  <1>8. ToSet(<< >>) = {}
    BY DEF ToSet
  <1>9. Kernel'
    <2>1. /\ g_total_live' = Cardinality(DOMAIN conns') /\ broken' \subseteq Fd /\ reaped' = 0
      BY <1>1, <1>3, <1>7 DEF Kernel
    <2>2. QED
      BY <1>6, <1>7, <1>8, <2>1 DEF Kernel
  <1>10. ImplInv'
    <2>1. Handling'
      BY <1>1, <1>3 DEF Handling
    <2>2. QED
      BY <1>7, <1>9, <2>1 DEF ImplInv
  <1> PICK C : C = AbsConns
    OBVIOUS
  <1> PICK D : D = AbsConns'
    OBVIOUS
  <1>11. /\ AbsRooms = RoomsFrom(C) /\ AbsRooms' = RoomsFrom(D)
         /\ AbsDoomed = ClosingOf(C) /\ AbsDoomed' = ClosingOf(D)
    BY <1>3, <1>6, FacingShows, FacingShowsNext DEF Shown
  <1>12. /\ DOMAIN C = DOMAIN conns /\ D = AConns(t) /\ DOMAIN D = DOMAIN C
         /\ swept \in SUBSET DOMAIN C
    BY <1>3, <1>5, <1>7, AbsClosing, ServerIsNext DEF AConns
  <1>13. \A f \in DOMAIN C : D[f] = IF f \in swept THEN F[f] ELSE C[f]
    BY <1>3, <1>4, <1>7, <1>12, SeenIs DEF AConns
  <1>14. ASSUME NEW f \in DOMAIN C
         PROVE  D[f].room = C[f].room /\ (C[f].closing => D[f].closing)
    <2>1. D[f] = Seen(t, f) /\ C[f] = Seen(Server, f)
      BY <1>7, <1>12, SeenIs DEF AConns
    <2>2. NameOf(t, f) = NameOf(Server, f)
      BY <1>3, <1>4, <1>12, KeptNames
    <2>3. Server.conns[f].closing => t.conns[f].closing
      BY <1>3, <1>4, <1>12 DEF Kept
    <2>4. QED
      BY <2>1, <2>2, <2>3 DEF Seen, Half
  <1>15. AbsRooms' = AbsRooms
    BY <1>11, <1>12, <1>14, RoomsStay
  <1>16. AbsDoomed' = AbsDoomed \cup {f \in swept : F[f].closing}
    <2>1. ClosingOf(D) = ClosingOf(C) \cup {f \in swept : F[f].closing}
      <3>1. \A f \in DOMAIN C : D[f] = IF f \in swept THEN F[f] ELSE C[f]
        BY <1>13
      <3>2. \A f \in DOMAIN C : C[f].closing => D[f].closing
        BY <1>14
      <3>3. QED
        BY ONLY <1>12, <3>1, <3>2 DEF ClosingOf
    <2>2. QED
      BY <1>11, <2>1
  <1>17. D = [f \in DOMAIN C |-> IF f \in swept THEN F[f] ELSE C[f]]
    BY <1>12, <1>13 DEF AConns
  <1>18. Chat!flush_dirty
    <2> DEFINE Flushed_(f) == LET c == [AbsConns[f] EXCEPT !.dirty = FALSE]
                              IN  IF c.closing THEN c
                                  ELSE Chat!flush_send(c, f \in broken, take[f])
    <2>1. \A f \in swept : F[f] = Flushed_(f)
      BY DEF Flushed, Clean
    <2>2. take \in Chat!Takes
      BY TakesAre
    <2> HIDE DEF Flushed_
    <2>3. AbsConns' = [f \in DOMAIN AbsConns |-> IF f \in ToSet(g_dirty) \cap DOMAIN AbsConns
                                                 THEN Flushed_(f) ELSE AbsConns[f]]
      BY <1>17, <2>1
    <2>4. AbsDoomed' = AbsDoomed \cup {f \in ToSet(g_dirty) \cap DOMAIN AbsConns :
                                         Flushed_(f).closing}
      BY <1>16, <2>1
    <2>5. ToSet(g_dirty)' = {}
      BY <1>7, <1>8
    <2>6. QED
      BY <2>2, <2>3, <2>4, <2>5 DEF Chat!flush_dirty, Flushed_
  <1>19. QED
    BY <1>10, <1>15, <1>18

LEMMA StepFlush ==
    ASSUME ImplInv, flush_pass
    PROVE  (Chat!first_flush \/ Chat!second_flush) /\ ImplInv'
  <1>1. /\ pc \in {"flush", "flush2"} /\ pc' = (IF pc = "flush" THEN "reap" ELSE "wait")
        /\ UNCHANGED <<g_batch_flush, batch, cur, target, running, broken, born>>
    BY DEF flush_pass, loop_vars
  <1>2. Chat!flush_dirty /\ AbsRooms' = AbsRooms /\ ImplInv'
    BY FlushSteps
  <1>3. ~trapped /\ ~trapped' /\ target = << >>
    BY <1>1, <1>2 DEF ImplInv, Handling
  <1>4. AbsTarget' = AbsTarget
    BY <1>1, <1>3, NoTarget, NoTargetNext
  <1>5. QED
    BY <1>1, <1>2, <1>3, <1>4 DEF Chat!first_flush, Chat!second_flush

-----------------------------------------------------------------------------
(* The reap. *)

(* x is w without connection fd, the next on the doomed list.              *)
Removed(w, x, n, fd) ==
    /\ Sound(x, n + 1) /\ x.rooms = w.rooms /\ x.dirty = w.dirty
    /\ DOMAIN x.conns = DOMAIN w.conns \ {fd}
    /\ \A f \in DOMAIN w.conns \ {fd} : Seen(x, f) = Seen(w, f)

LEMMA RemoveOK ==
    ASSUME RoomsAssumption, NEW w, NEW n \in Nat, Sound(w, n), NEW fd \in DOMAIN w.conns,
           w.conns[fd].room = k_no_room, n < Len(w.doomed), w.doomed[n + 1] = fd,
           NEW rest, rest = DOMAIN w.conns \ {fd},
           NEW x, x = [w EXCEPT !.conns = [f \in rest |-> w.conns[f]]]
    PROVE  Removed(w, x, n, fd)
  <1>1. /\ IsServer(w) /\ DOMAIN w = ServerFields /\ ~w.trapped
        /\ \A f \in DOMAIN w.conns : IsConn(w.conns[f])
        /\ RoomsOf(w) /\ DoomedOK(w, n) /\ DirtyOK(w)
        /\ w = [y \in DOMAIN w |-> w[y]]
    BY DEF Sound, Standing, IsServer
  <1>2. /\ x.conns = [f \in rest |-> w.conns[f]] /\ DOMAIN x = ServerFields
        /\ x = [y \in DOMAIN x |-> x[y]]
        /\ x.rooms = w.rooms /\ x.free = w.free /\ x.index = w.index
        /\ x.doomed = w.doomed /\ x.dirty = w.dirty /\ x.trapped = w.trapped
    BY <1>1 DEF ServerFields, RoomFields
  <1> PICK d : d = x.conns
    OBVIOUS
  <1>3. /\ DOMAIN d = rest /\ d = [f \in DOMAIN d |-> d[f]]
        /\ \A f \in rest : f \in DOMAIN w.conns /\ d[f] = w.conns[f]
    BY <1>2
  <1>4. RoomsOf(x)
    <2>1. DOMAIN d \subseteq Fd
      BY <1>1, <1>3 DEF RoomsOf, RoomsOK
    <2>2. \A f \in DOMAIN w.conns : f \in DOMAIN d \/ w.conns[f].room = k_no_room
      BY <1>3
    <2>3. RoomsOK(w.conns, w.rooms, w.free, w.index)
      BY <1>1 DEF RoomsOf
    <2>4. RoomsOK(d, w.rooms, w.free, w.index)
      BY ONLY <1>3, <2>1, <2>2, <2>3, RoomsAssumption, OutsideOK
    <2>5. QED
      BY <1>2, <2>4 DEF RoomsOf
  <1>5. DoomedOK(x, n + 1)
    <2> PICK l : l = w.doomed
      OBVIOUS
    <2>1. /\ OneEach(l) /\ n \in 0..Len(l) /\ Len(l) \in Nat /\ l[n + 1] = fd /\ n + 1 \in 1..Len(l)
          /\ \A i \in 1..Len(l) : IF i <= n THEN l[i] \notin DOMAIN w.conns
                                  ELSE l[i] \in DOMAIN w.conns /\ w.conns[l[i]].closing
          /\ \A f \in DOMAIN w.conns : w.conns[f].closing => f \in ToSet(l)
      BY <1>1, ToSetIs DEF DoomedOK
    <2>2. ASSUME NEW i \in 1..Len(l)
          PROVE  IF i <= n + 1 THEN l[i] \notin rest ELSE l[i] \in rest /\ d[l[i]].closing
      <3>1. CASE i <= n
        BY <2>1, <3>1
      <3>2. CASE i = n + 1
        BY <2>1, <3>2
      <3>3. CASE i > n + 1
        <4>1. l[i] # fd
          BY <2>1, <3>3 DEF OneEach
        <4>2. l[i] \in DOMAIN w.conns /\ w.conns[l[i]].closing
          BY <2>1, <3>3
        <4>3. QED
          BY <1>3, <2>1, <3>3, <4>1, <4>2
      <3>4. QED
        BY <2>1, <3>1, <3>2, <3>3
    <2>3. \A f \in DOMAIN d : d[f].closing => f \in ToSet(l)
      BY <1>3, <2>1
    <2>4. n + 1 \in 0..Len(l) /\ x.conns = d /\ x.doomed = l
      BY <1>2, <2>1
    <2>5. QED
      BY ONLY <1>3, <2>1, <2>2, <2>3, <2>4 DEF DoomedOK
  <1>6. DirtyOK(x)
    BY <1>1, <1>2, <1>3 DEF DirtyOK
  <1>7. IsServer(x) /\ \A f \in DOMAIN x.conns : IsConn(x.conns[f])
    <2>1. \A f \in DOMAIN d : IsLinks(d[f]) /\ IsConn(d[f])
      BY <1>1, <1>3 DEF IsServer
    <2>2. RoomFields \subseteq DOMAIN x
      BY <1>2 DEF ServerFields
    <2>3. QED
      BY <1>2, <1>3, <2>1, <2>2 DEF IsServer
  <1>8. Sound(x, n + 1)
    BY <1>1, <1>2, <1>4, <1>5, <1>6, <1>7 DEF Sound, Standing
  <1>9. QED
    BY <1>2, <1>3, <1>8 DEF Removed, Seen, NameOf

LEMMA NextDoomed ==
    ASSUME Sound(Server, reaped), reaped < Len(g_doomed), NEW fd, fd = g_doomed[reaped + 1]
    PROVE  /\ fd \in DOMAIN conns /\ conns[fd].closing /\ reaped \in Nat
           /\ reaped + 1 \in 1..Len(g_doomed)
  <1>1. /\ OneEach(g_doomed) /\ reaped \in 0..Len(g_doomed) /\ Len(g_doomed) \in Nat
        /\ \A i \in 1..Len(g_doomed) :
             IF i <= reaped THEN g_doomed[i] \notin DOMAIN conns
             ELSE g_doomed[i] \in DOMAIN conns /\ conns[g_doomed[i]].closing
    BY ServerIs, ToSetIs DEF Sound, Standing, DoomedOK
  <1>2. reaped + 1 \in 1..Len(g_doomed) /\ ~(reaped + 1 <= reaped)
    BY <1>1
  <1>3. QED
    BY <1>1, <1>2

(* Whom a reap tells.                                                      *)
ReapTold(fd) == IF conns[fd].nick THEN Chat!Audience(AbsConns[fd].room, fd) ELSE {}
ReapSends(s, fd, take) ==
    IF conns[fd].room # k_no_room /\ conns[fd].nick
    THEN broadcast(s, conns[fd].room, NoticeLen, fd, take) ELSE s

LEMMA ReapTells ==
    ASSUME RoomsAssumption, SdsAssumption, Facing, NEW fd \in DOMAIN conns,
           NEW s, Left(Server, s, reaped, fd), NEW take \in [Fd -> Nat],
           NEW told, told = ReapTold(fd), NEW w, w = ReapSends(s, fd, take)
    PROVE  /\ Spread(s, w, reaped, told, NoticeLen, take)
           /\ told \in SUBSET DOMAIN conns /\ fd \notin told
  <1> USE DEF ReapTold, ReapSends
  <1> PICK idx : idx = conns[fd].room
    OBVIOUS
  <1>1. /\ Server.conns = conns /\ DOMAIN s.conns = DOMAIN conns /\ Sound(s, reaped)
        /\ RoomsOf(Server) /\ NoticeLen \in Nat
    BY ServerIs, SdsAssumption DEF Left, Grown, Facing, Sound, Standing, SdsAssumption
  <1>2. idx \in Slots \cup {k_no_room}
    BY <1>1, RoomsAssumption, NamesTell
  <1>3. CASE idx # k_no_room /\ conns[fd].nick
    <2>1. told = Reached(Server, idx, fd)
      BY <1>3, ReachedIs
    <2>2. \A f \in DOMAIN conns \ {fd} : /\ s.conns[f].room = conns[f].room
                                         /\ s.conns[f].closing = conns[f].closing
      BY <1>1 DEF Left
    <2>3. Reached(s, idx, fd) = told
      BY <1>1, <2>1, <2>2 DEF Reached
    <2>4. w = broadcast(s, idx, NoticeLen, fd, take)
      BY <1>3
    <2>5. Spread(s, w, reaped, Reached(s, idx, fd), NoticeLen, take)
      BY ONLY <1>1, <1>2, <2>4, RoomsAssumption, SdsAssumption, BroadcastSpreads,
              take \in [Fd -> Nat]
    <2>6. QED
      BY <1>1, <2>1, <2>3, <2>5 DEF Reached
  <1>4. CASE ~(idx # k_no_room /\ conns[fd].nick)
    <2>1. told = {}
      <3>1. CASE ~conns[fd].nick
        BY <3>1
      <3>2. CASE idx = k_no_room
        <4>1. AbsConns[fd].room = << >>
          BY <3>2 DEF AbsConns
        <4>2. << >> \notin DOMAIN AbsRooms
          BY FacingShows DEF Shown, RoomsFrom
        <4>3. Chat!Audience(AbsConns[fd].room, fd) = {}
          BY <4>1, <4>2 DEF Chat!Audience
        <4>4. QED
          BY <4>3
      <3>3. QED
        BY <1>4, <3>1, <3>2
    <2>2. w = s
      BY <1>4
    <2>3. QED
      BY ONLY <1>1, <2>1, <2>2, SpreadNone
  <1>5. QED
    BY <1>3, <1>4

LEMMA StepReap ==
    ASSUME ImplInv, reap_one
    PROVE  (\E fd \in AbsDoomed : Chat!reap_one(fd)) /\ ImplInv'
  <1> PICK fd : fd = g_doomed[reaped + 1]
    OBVIOUS
  <1> PICK rest : rest = DOMAIN conns \ {fd}
    OBVIOUS
  <1> PICK s : s = leave_room(Server, fd)
    OBVIOUS
  <1>1. /\ pc = "reap" /\ reaped < Len(g_doomed) /\ reaped' = reaped + 1
        /\ UNCHANGED <<g_batch_flush, pc, batch, cur, target, running, born>>
    BY DEF reap_one
  <1>2. /\ Kernel /\ Facing /\ Sound(Server, reaped) /\ Occupied(Server.rooms)
        /\ Server.conns = conns /\ Server.dirty = g_dirty /\ Server.doomed = g_doomed
        /\ ~trapped /\ cur = Listen /\ target = << >>
    BY <1>1, ServerIs DEF ImplInv, Kernel, Handling, Facing
  <1>3. /\ fd \in DOMAIN conns /\ conns[fd].closing /\ reaped \in Nat
        /\ reaped + 1 \in 1..Len(g_doomed)
    BY <1>1, <1>2, NextDoomed
  <1>4. /\ g_total_live' = g_total_live - 1 /\ broken' = broken \ {fd}
        /\ \E take \in Takes :
             LET t == IF conns[fd].room # k_no_room /\ conns[fd].nick
                      THEN broadcast(s, conns[fd].room, NoticeLen, fd, take) ELSE s
             IN  Becomes_server([t EXCEPT !.conns = [f \in rest |-> t.conns[f]]])
    <2>1. live(Server, fd)
      BY <1>2, <1>3 DEF live
    <2>2. QED
      BY ONLY <2>1, reap_one, fd = g_doomed[reaped + 1], rest = DOMAIN conns \ {fd},
              s = leave_room(Server, fd)
      DEF reap_one
  <1>5. PICK take \in Takes :
             LET t == IF conns[fd].room # k_no_room /\ conns[fd].nick
                      THEN broadcast(s, conns[fd].room, NoticeLen, fd, take) ELSE s
             IN  Becomes_server([t EXCEPT !.conns = [f \in rest |-> t.conns[f]]])
    BY <1>4
  <1> PICK w : w = ReapSends(s, fd, take)
    OBVIOUS
  <1> PICK x : x = [w EXCEPT !.conns = [f \in rest |-> w.conns[f]]]
    OBVIOUS
  <1> PICK told : told = ReapTold(fd)
    OBVIOUS
  <1>6. Becomes_server(x)
    BY <1>5 DEF ReapSends
  <1>7. Left(Server, s, reaped, fd)
    BY <1>2, <1>3, RoomsAssumption, LeaveActs
  <1>8. /\ Spread(s, w, reaped, told, NoticeLen, take)
        /\ told \in SUBSET DOMAIN conns /\ fd \notin told
    <2>1. take \in [Fd -> Nat]
      BY TakesAre
    <2>2. Facing
      BY <1>2
    <2>3. QED
      BY ONLY <1>3, <1>7, <2>1, <2>2, RoomsAssumption, SdsAssumption, ReapTells,
              told = ReapTold(fd), w = ReapSends(s, fd, take)
  <1>9. /\ Sound(w, reaped) /\ DOMAIN w.conns = DOMAIN conns /\ Occupied(w.rooms)
        /\ w.conns[fd].room = k_no_room
    BY <1>2, <1>3, <1>7, <1>8 DEF Spread, Left, Kept, Grown
  <1>10. w.doomed[reaped + 1] = fd /\ reaped < Len(w.doomed)
    <2>1. s.doomed = g_doomed
      <3>1. IsServer(Server) /\ RoomsOf(Server)
        BY <1>2 DEF Sound, Standing
      <3>2. Relinked(Server, s)
        BY <1>2, <1>3, <3>1, RoomsAssumption, LeaveOK
      <3>3. QED
        BY <1>2, <3>2 DEF Relinked, Sound, Standing, ServerFields, RoomFields
    <2>2. Longer(s.doomed, w.doomed)
      BY <1>8 DEF Spread
    <2>3. OneEach(w.doomed)
      BY <1>9 DEF Sound, Standing, DoomedOK
    <2>4. Len(w.doomed) \in Nat
      BY <2>3, ToSetIs
    <2>5. reaped + 1 \in 1..Len(w.doomed) /\ w.doomed[reaped + 1] = g_doomed[reaped + 1]
      BY <1>3, <2>1, <2>2 DEF Longer
    <2>6. QED
      BY <1>3, <2>4, <2>5
  <1>11. Removed(w, x, reaped, fd)
    <2>1. rest = DOMAIN w.conns \ {fd} /\ fd \in DOMAIN w.conns
      BY <1>3, <1>9
    <2>2. QED
      BY ONLY <1>3, <1>9, <1>10, <2>1, RoomsAssumption, RemoveOK,
              x = [w EXCEPT !.conns = [f \in rest |-> w.conns[f]]]
  <1>12. Server' = x
    <2>1. DOMAIN x = ServerFields /\ x = [y \in DOMAIN x |-> x[y]]
      BY ONLY <1>11 DEF Removed, Sound, Standing, IsServer
    <2>2. QED
      BY ONLY <1>6, <2>1, BecomesIs
  <1>13. /\ Facing' /\ DOMAIN conns' = rest /\ g_dirty' = w.dirty /\ ~trapped' /\ conns' = x.conns
    <2>1. /\ conns' = x.conns /\ g_rooms' = x.rooms /\ g_dirty' = x.dirty /\ trapped' = x.trapped
      BY <1>6 DEF Becomes_server, Becomes
    <2>2. /\ Sound(x, reaped + 1) /\ x.rooms = w.rooms /\ x.dirty = w.dirty
          /\ DOMAIN x.conns = rest
      BY <1>9, <1>11 DEF Removed
    <2>3. ~x.trapped
      BY <2>2 DEF Sound, Standing
    <2>4. QED
      BY <1>1, <1>9, <1>12, <2>1, <2>2, <2>3 DEF Facing
  <1>14. Kernel'
    <2>1. g_total_live' = Cardinality(DOMAIN conns')
      <3>1. g_total_live = Cardinality(DOMAIN conns) /\ DOMAIN conns \subseteq Fd
        BY <1>1, <1>2, FdOf DEF Kernel
      <3>2. IsFiniteSet(DOMAIN conns)
        BY <3>1, RoomsAssumption, FS_Subset DEF RoomsAssumption
      <3>3. Cardinality(rest) = Cardinality(DOMAIN conns) - 1
        BY <1>3, <3>2, FS_RemoveElement
      <3>4. QED
        BY <1>4, <1>13, <3>1, <3>3
    <2>2. ~g_batch_flush => w.dirty = g_dirty
      <3>1. s.dirty = g_dirty
        BY <1>2, <1>7 DEF Left
      <3>2. QED
        BY <1>8, <3>1 DEF Spread, Marked
    <2>3. broken' \subseteq Fd
      BY <1>2, <1>4 DEF Kernel
    <2>4. QED
      BY <1>1, <1>2, <1>13, <2>1, <2>2, <2>3 DEF Kernel
  <1>15. ImplInv'
    <2>1. Handling'
      BY <1>1, <1>2 DEF Handling
    <2>2. QED
      BY <1>13, <1>14, <2>1 DEF ImplInv
  <1> PICK C : C = AbsConns
    OBVIOUS
  <1> PICK D : D = AbsConns'
    OBVIOUS
  <1> PICK U : U = [f \in told |-> Chat!broadcast(f, NoticeLen, take)]
    OBVIOUS
  <1>16. /\ AbsRooms = RoomsFrom(C) /\ AbsRooms' = RoomsFrom(D)
         /\ AbsDoomed = ClosingOf(C) /\ AbsDoomed' = ClosingOf(D)
    BY <1>2, <1>13, FacingShows, FacingShowsNext DEF Shown
  <1>17. DOMAIN C = DOMAIN conns /\ D = AConns(x) /\ DOMAIN D = rest
    BY <1>12, <1>13, AbsClosing, ServerIsNext DEF AConns
  <1>18. ASSUME NEW f \in rest
         PROVE  /\ D[f] = Seen(w, f) /\ Seen(s, f) = C[f]
                /\ Seen(w, f) = IF f \in told THEN U[f] ELSE C[f]
                /\ D[f].room = C[f].room /\ (C[f].closing => D[f].closing)
    <2>1. f \in DOMAIN conns /\ f # fd /\ f \in DOMAIN s.conns
      BY <1>2, <1>7 DEF Left, Grown
    <2>2. D[f] = Seen(w, f)
      <3>1. Seen(x, f) = Seen(w, f) /\ f \in DOMAIN x.conns
        BY <1>9, <1>11, <2>1 DEF Removed
      <3>2. QED
        BY <1>17, <3>1 DEF AConns
    <2>3. Seen(s, f) = C[f]
      BY <1>2, <1>7, <2>1, SeenIs DEF Left
    <2>4. Seen(w, f) = IF f \in told THEN Hit(C[f], f, NoticeLen, take[f]) ELSE C[f]
      BY <1>8, <2>1, <2>3 DEF Spread
    <2>5. Hit(C[f], f, NoticeLen, take[f]) = Chat!broadcast(f, NoticeLen, take)
      BY DEF Hit, Chat!broadcast
    <2>6. NameOf(w, f) = NameOf(s, f)
      BY <1>8, <2>1, KeptNames DEF Spread
    <2>7. s.conns[f].closing => w.conns[f].closing
      BY <1>8, <2>1 DEF Spread, Kept
    <2>8. Seen(w, f) = IF f \in told THEN U[f] ELSE C[f]
      BY <2>4, <2>5
    <2>9. Seen(w, f).room = Seen(s, f).room
      BY <2>6 DEF Seen, Half
    <2>10. Seen(s, f).closing => Seen(w, f).closing
      BY <2>7 DEF Seen, Half
    <2>11. QED
      BY ONLY <2>2, <2>3, <2>8, <2>9, <2>10
  <1>19. D = [f \in rest |-> IF f \in told THEN U[f] ELSE C[f]]
    <2>1. D = [f \in DOMAIN D |-> D[f]]
      BY <1>17 DEF AConns
    <2>2. QED
      BY ONLY <1>17, <1>18, <2>1
  <1>20. told \subseteq rest
    BY <1>8
  <1>21. ClosingOf(D) = (ClosingOf(C) \cap rest) \cup {f \in told : U[f].closing}
    <2>1. rest \subseteq DOMAIN C /\ DOMAIN D = rest
      BY <1>17
    <2>2. \A f \in rest : (C[f].closing => D[f].closing)
      BY <1>18
    <2>3. \A f \in rest : D[f] = IF f \in told THEN U[f] ELSE C[f]
      BY <1>19
    <2>4. QED
      BY ONLY <1>20, <2>1, <2>2, <2>3 DEF ClosingOf
  <1>22. ToSet(w.dirty) = ToSet(g_dirty) \cup {f \in told : U[f].dirty}
    <2>1. s.dirty = g_dirty /\ Sound(s, reaped) /\ DOMAIN s.conns = DOMAIN conns
      BY <1>2, <1>7 DEF Left, Grown
    <2>2. Marked(s, w)
      BY <1>8 DEF Spread
    <2>3. \A f \in DOMAIN conns : /\ s.conns[f].dirty <=> f \in ToSet(g_dirty)
                                  /\ w.conns[f].dirty <=> f \in ToSet(w.dirty)
      BY <1>9, <2>1 DEF Sound, DirtyOK
    <2>4. \A f \in told : f \in DOMAIN conns /\ U[f].dirty = w.conns[f].dirty
      <3>1. \A f \in told : f \in DOMAIN conns /\ U[f] = Seen(w, f)
        BY <1>8, <1>18, <1>20
      <3>2. \A f \in told : Seen(w, f).dirty = w.conns[f].dirty
        BY DEF Seen, Half
      <3>3. QED
        BY ONLY <3>1, <3>2
    <2>5. \A f \in DOMAIN conns \ told : w.conns[f].dirty = s.conns[f].dirty
      BY <1>8, <2>1 DEF Spread, Seen, Half
    <2>6. ToSet(g_dirty) \subseteq ToSet(w.dirty)
      BY <2>1, <2>2 DEF Marked
    <2>7. ToSet(w.dirty) \subseteq ToSet(g_dirty) \cup DOMAIN conns
      BY <2>1, <2>2 DEF Marked
    <2>8. QED
      BY ONLY <2>3, <2>4, <2>5, <2>6, <2>7
  <1>23. AbsRooms' = Lost(AbsRooms, C[fd].room, fd)
    <2>1. DOMAIN C \ {fd} \subseteq DOMAIN D /\ DOMAIN D \subseteq DOMAIN C /\ fd \notin DOMAIN D
      BY <1>17
    <2>2. \A f \in DOMAIN C \ {fd} : D[f].room = C[f].room
      BY <1>17, <1>18
    <2>3. fd \in DOMAIN C
      BY <1>3, <1>17
    <2> PICK old : old = C[fd].room
      OBVIOUS
    <2>4. fd \in DOMAIN D => D[fd].room = << >>
      BY <2>1
    <2>6. C[fd].room = old
      OBVIOUS
    <2>7. RoomsFrom(D) = Lost(RoomsFrom(C), old, fd)
      <3>1. \A f \in DOMAIN C \ {fd} : D[f].room = C[f].room
        BY ONLY <2>2
      <3>2. DOMAIN C \ {fd} \subseteq DOMAIN D /\ DOMAIN D \subseteq DOMAIN C
        BY ONLY <2>1
      <3>3. Gone(C, D, old, fd)
        BY ONLY <3>1, <3>2, <2>3, <2>4, <2>6 DEF Gone
      <3>4. QED
        BY ONLY <3>3, RoomsLose
    <2>8. QED
      BY <1>16, <2>7
  <1>24. fd \in AbsDoomed
    BY <1>3 DEF AbsDoomed
  <1>25. AbsTarget' = AbsTarget
    BY <1>1, <1>2, NoTarget, NoTargetNext
  <1>26. Chat!reap_one(fd)
    <2> DEFINE Told_(f) == Chat!broadcast(f, NoticeLen, take)
    <2>1. Chat!Update(DOMAIN AbsConns \ {fd},
                      IF AbsConns[fd].nick THEN Chat!Audience(AbsConns[fd].room, fd) ELSE {},
                      Told_)
      <3>1. \A f \in told : U[f] = Told_(f)
        OBVIOUS
      <3>2. told = IF AbsConns[fd].nick THEN Chat!Audience(AbsConns[fd].room, fd) ELSE {}
        BY <1>3, AbsClosing DEF ReapTold
      <3>3. /\ DOMAIN AbsConns \ {fd} = rest
            /\ AbsConns' = [f \in rest |-> IF f \in told THEN U[f] ELSE AbsConns[f]]
            /\ AbsDoomed' = (AbsDoomed \cap rest) \cup {f \in told : U[f].closing}
            /\ ToSet(g_dirty)' = ToSet(g_dirty) \cup {f \in told : U[f].dirty}
        BY <1>13, <1>16, <1>17, <1>19, <1>21, <1>22
      <3> HIDE DEF Told_
      <3>4. /\ \A f \in rest : f \in told => U[f] = Told_(f)
            /\ {f \in told : U[f].closing} = {f \in told : Told_(f).closing}
            /\ {f \in told : U[f].dirty} = {f \in told : Told_(f).dirty}
        BY ONLY <3>1
      <3>5. QED
        BY ONLY <3>2, <3>3, <3>4 DEF Chat!Update
    <2>2. Chat!leave_room(fd, AbsConns[fd].room)
      BY <1>1, <1>23 DEF Chat!leave_room, Chat!Without, Chat!g_coalesce, Lost
    <2>3. take \in Chat!Takes
      BY TakesAre
    <2>4. QED
      BY <1>1, <1>2, <1>4, <1>13, <1>24, <1>25, <2>1, <2>2, <2>3
      DEF Chat!reap_one, Chat!loopVars
  <1>27. QED
    BY <1>15, <1>24, <1>26

LEMMA StepReapDone ==
    ASSUME ImplInv, reap_done
    PROVE  Chat!reap_done /\ ImplInv'
  <1>1. /\ pc = "reap" /\ reaped = Len(g_doomed) /\ g_doomed' = << >> /\ reaped' = 0
        /\ pc' = (IF g_batch_flush THEN "flush2" ELSE "wait")
        /\ UNCHANGED <<g_batch_flush, g_dirty, g_total_live, batch, cur, target, running, broken,
                       born>>
        /\ UNCHANGED <<conns, g_rooms, g_room_free, g_room_index, trapped>>
    BY DEF reap_done, rooms_vars, loop_vars
  <1>2. /\ Kernel /\ Facing /\ Sound(Server, reaped) /\ Server.conns = conns
        /\ Server.doomed = g_doomed /\ ~trapped /\ cur = Listen /\ target = << >>
    BY <1>1, ServerIs DEF ImplInv, Kernel, Handling, Facing
  <1>3. \A f \in DOMAIN conns : ~conns[f].closing
    <2>1. /\ OneEach(g_doomed)
          /\ \A i \in 1..Len(g_doomed) : i <= Len(g_doomed) => g_doomed[i] \notin DOMAIN conns
          /\ \A f \in DOMAIN conns : conns[f].closing => f \in ToSet(g_doomed)
      BY <1>1, <1>2 DEF Sound, Standing, DoomedOK
    <2>2. ToSet(g_doomed) = {g_doomed[i] : i \in 1..Len(g_doomed)} /\ Len(g_doomed) \in Nat
      BY <2>1, ToSetIs
    <2>3. QED
      BY <2>1, <2>2
  <1>4. Facing'
    <2>1. /\ Server'.conns = conns /\ Server'.rooms = g_rooms /\ Server'.free = g_room_free
          /\ Server'.index = g_room_index /\ Server'.doomed = << >>
          /\ Server'.dirty = g_dirty /\ Server'.trapped = trapped
          /\ DOMAIN Server' = ServerFields /\ Server' = [y \in DOMAIN Server' |-> Server'[y]]
      <3>1. Server' = [y \in DOMAIN Server' |-> Server'[y]]
        BY DEF Server
      <3>2. QED
        BY <1>1, <3>1, ServerIsNext
    <2> PICK t : t = Server'
      OBVIOUS
    <2>2. DoomedOK(t, 0)
      <3>1. OneEach(<< >>) /\ Len(<< >>) = 0
        BY DEF OneEach
      <3>2. t.conns = conns /\ t.doomed = << >>
        BY <2>1
      <3>3. QED
        BY <1>3, <3>1, <3>2 DEF DoomedOK
    <2>3. IsServer(t)
      BY <1>2, <2>1, ServerIs DEF Sound, Standing, IsServer, ServerFields
    <2>4. DirtyOK(t)
      BY <1>2, <2>1, ServerIs DEF Sound, DirtyOK
    <2>5. Sound(t, 0)
      BY <1>2, <2>1, <2>2, <2>3, <2>4, ServerIs DEF Sound, Standing, RoomsOf
    <2>6. QED
      BY <1>1, <1>2, <2>5 DEF Facing
  <1>5. AbsDoomed = {} /\ AbsDoomed' = {}
    <2>1. OneEach(g_doomed)
      BY <1>2 DEF Sound, Standing, DoomedOK
    <2>2. Len(g_doomed) \in Nat
      BY <2>1, ToSetIs
    <2>3. AbsDoomed = {}
      BY <1>1, <2>2 DEF AbsDoomed
    <2>4. AbsDoomed' = {}
      BY <1>1 DEF AbsDoomed
    <2>5. QED
      BY <2>3, <2>4
  <1>6. ToSet(<< >>) = {}
    BY DEF ToSet
  <1>7. Kernel' /\ Handling'
    BY <1>1, <1>2, <1>4, <1>6 DEF Kernel, Handling
  <1>8. AbsConns' = AbsConns /\ AbsRooms' = AbsRooms /\ AbsTarget' = AbsTarget
    <2>1. State' = State
      BY <1>1 DEF State
    <2>2. QED
      BY <1>1, <2>1 DEF AbsConns, AbsRooms, AbsTarget
  <1>9. Chat!reap_done
    BY <1>1, <1>2, <1>5, <1>8, BatchIsFlush DEF Chat!reap_done, Chat!serverVars
  <1>10. QED
    BY <1>1, <1>2, <1>7, <1>9 DEF ImplInv

-----------------------------------------------------------------------------
(* The refinement. *)

LEMMA ImplInit ==
    ASSUME ChatInit
    PROVE  ImplInv /\ Chat!Init
  <1>1. /\ RoomsInit /\ g_doomed = << >> /\ g_dirty = << >> /\ g_total_live = 0 /\ reaped = 0
        /\ pc = "wait" /\ batch = {} /\ cur = Listen /\ target = << >>
        /\ running = TRUE /\ broken = {} /\ born = {}
    BY DEF ChatInit
  <1>2. RoomsOK(conns, g_rooms, g_room_free, g_room_index) /\ Occupied(g_rooms) /\ ~trapped
    BY <1>1, RoomsAssumption, RoomsInvInit DEF RoomsInv
  <1>3. DOMAIN conns = {} /\ conns = [f \in DOMAIN conns |-> conns[f]]
    BY <1>1 DEF RoomsInit
  <1>4. OneEach(<< >>) /\ Len(<< >>) = 0 /\ ToSet(<< >>) = {}
    BY DEF OneEach, ToSet
  <1>5. Sound(Server, 0)
    <2> PICK s : s = Server
      OBVIOUS
    <2>1. /\ DOMAIN s = ServerFields /\ s = [x \in DOMAIN s |-> s[x]]
          /\ s.conns = conns /\ s.rooms = g_rooms /\ s.free = g_room_free
          /\ s.index = g_room_index /\ s.doomed = << >> /\ s.dirty = << >> /\ s.trapped = trapped
      <3>1. Server = [x \in DOMAIN Server |-> Server[x]]
        BY DEF Server
      <3>2. QED
        BY <1>1, <3>1, ServerIs
    <2>2. DOMAIN s.conns = {}
      BY <1>3, <2>1
    <2>3. DoomedOK(s, 0) /\ DirtyOK(s)
      BY <1>4, <2>1, <2>2 DEF DoomedOK, DirtyOK
    <2>4. IsServer(s)
      BY <1>3, <2>1, <2>2 DEF IsServer, ServerFields
    <2>5. QED
      BY <1>2, <2>1, <2>2, <2>3, <2>4 DEF Sound, Standing, RoomsOf
  <1>6. Kernel
    <2>1. Cardinality({}) = 0
      BY FS_EmptySet
    <2>2. QED
      BY <1>1, <1>2, <1>3, <1>4, <1>5, <2>1 DEF Kernel, Facing
  <1>7. ImplInv
    BY <1>1, <1>2, <1>6 DEF ImplInv, Handling
  <1>8. Chat!Init
    <2>1. AbsConns = [f \in {} |-> Chat!NewConn]
      <3>1. AbsConns = [f \in DOMAIN AbsConns |-> AbsConns[f]] /\ DOMAIN AbsConns = {}
        BY <1>3 DEF AbsConns
      <3>2. QED
        BY <3>1
    <2>2. AbsRooms = [r \in {} |-> {}]
      <3>1. AbsRooms = RoomsFrom(AbsConns)
        BY <1>6, FacingShows DEF Kernel, Shown
      <3>2. {AbsConns[f].room : f \in DOMAIN AbsConns} = {}
        BY <2>1
      <3>3. QED
        BY <3>1, <3>2 DEF RoomsFrom
    <2>3. AbsDoomed = {}
      BY <1>6, <2>1, FacingShows DEF Kernel, Shown, ClosingOf
    <2>4. AbsTarget = << >>
      BY <1>1, NoTarget
    <2>5. (IF g_batch_flush THEN {"flush"} ELSE {}) \in {{"flush"}, {}}
      OBVIOUS
    <2>6. QED
      BY <1>1, <1>2, <1>4, <2>1, <2>2, <2>3, <2>4, <2>5 DEF Chat!Init
  <1>9. QED
    BY <1>7, <1>8

LEMMA ImplStutter ==
    ASSUME ImplInv, UNCHANGED chat_vars
    PROVE  ImplInv' /\ UNCHANGED Chat!vars
  <1>1. /\ UNCHANGED <<conns, g_rooms, g_room_free, g_room_index, joined, trapped>>
        /\ UNCHANGED <<g_batch_flush, g_doomed, g_dirty, g_total_live, reaped, pc>>
        /\ UNCHANGED <<batch, cur, target, running, broken, born>>
    BY DEF chat_vars, rooms_vars, loop_vars
  <1>2. Server' = Server
    BY <1>1 DEF Server
  <1>3. AbsConns' = AbsConns /\ AbsDoomed' = AbsDoomed /\ AbsTarget' = AbsTarget
    BY <1>1 DEF AbsConns, AbsDoomed, AbsTarget
  <1>4. AbsRooms' = AbsRooms
    <2>1. State' = State
      BY <1>1 DEF State
    <2>2. QED
      BY <1>1, <2>1 DEF AbsRooms
  <1>5. Facing' <=> Facing
    BY <1>1, <1>2 DEF Facing
  <1>6. ImplInv'
    BY <1>1, <1>5 DEF ImplInv, Kernel, Handling
  <1>7. QED
    BY <1>1, <1>3, <1>4, <1>6 DEF Chat!vars

(* Each step of the sds server is the step of the chat server of its name. *)
LEMMA ImplStep ==
    ASSUME ImplInv, ChatNext
    PROVE  ImplInv' /\ [Chat!Next]_(Chat!vars)
  <1> USE DEF Chat!Next
  <1>1. CASE epoll_wait
    BY <1>1, StepWait
  <1>2. CASE event_listen
    BY <1>2, StepListen DEF Chat!Drain
  <1>3. CASE event_signal
    BY <1>3, StepSignal DEF Chat!Drain
  <1>4. CASE \E fd \in Fd, what \in Masks : event_conn(fd, what)
    <2>1. PICK fd \in Fd, what \in Masks : event_conn(fd, what)
      BY <1>4
    <2>2. ImplInv' /\ (Chat!event_skipped(fd) \/ Chat!event_hangup(fd) \/ Chat!event_ready(fd))
      BY <2>1, StepEvent
    <2>3. Chat!Drain
      BY <2>2 DEF Chat!Drain
    <2>4. QED
      BY <2>2, <2>3
  <1>5. CASE \E fd \in Fd : accept_conn(fd)
    BY <1>5, StepAccept DEF Chat!Drain, Chat!Accept
  <1>6. CASE accept_stop
    BY <1>6, StepAcceptStop DEF Chat!Drain, Chat!Accept
  <1>7. CASE set_nick \/ complain \/ hang_up
    BY <1>7, StepNick, StepComplain, StepHangUp DEF Chat!Drain, Chat!Packet
  <1>8. CASE \E name \in Name : join_leave(name) \/ join_first(name)
    BY <1>8, StepLeave, StepJoinFirst DEF Chat!Drain, Chat!Packet
  <1>9. CASE join_move
    BY <1>9, StepJoinMove DEF Chat!Drain, Chat!Packet
  <1>10. CASE \E len \in LineLen : chat(len)
    <2>1. PICK len \in LineLen : chat(len)
      BY <1>10
    <2>2. ImplInv' /\ Chat!chat_now(len)
      BY <2>1, StepChat
    <2>3. Chat!Packet
      BY <2>2 DEF Chat!Packet
    <2>4. QED
      BY <2>2, <2>3 DEF Chat!Drain
  <1>11. CASE drained \/ end_of_batch
    BY <1>11, StepDrained, StepBatchEnd DEF Chat!Drain
  <1>12. CASE flush_pass
    BY <1>12, StepFlush DEF Chat!Tail
  <1>13. CASE reap_one
    BY <1>13, StepReap DEF Chat!Tail
  <1>14. CASE reap_done
    BY <1>14, StepReapDone DEF Chat!Tail
  <1>15. CASE shutdown
    BY <1>15, StepShutdown
  <1>16. CASE Terminated
    BY <1>16, ImplStutter DEF Terminated
  <1>17. CASE \E fd \in Fd : peer_reset(fd)
    BY <1>17, StepReset
  <1>18. QED
    BY <1>1, <1>2, <1>3, <1>4, <1>5, <1>6, <1>7, <1>8, <1>9, <1>10, <1>11, <1>12, <1>13, <1>14,
       <1>15, <1>16, <1>17 DEF ChatNext

(* In server_sds.cpp no LNX_CHECK of a list push fails, g_total_live is    *)
(* the number of open connections, and between two helpers the slab, the   *)
(* index, the member lists, the doomed list and the dirty list agree.      *)
THEOREM ChatInvariant == ChatSpec => []ImplInv
  <1>1. ChatInit => ImplInv
    BY ImplInit
  <1>2. ImplInv /\ [ChatNext]_chat_vars => ImplInv'
    BY ImplStep, ImplStutter
  <1>3. QED
    BY <1>1, <1>2, PTL DEF ChatSpec

(* server_sds.cpp does what server.cpp does: every behaviour of the slab,  *)
(* the intrusive lists and the index loops is one of its maps and sets, in *)
(* both delivery modes, for any descriptors, names and message lengths.    *)
THEOREM SdsImplementsChat == ChatSpec => ImplementsChat
  <1>1. ChatInit => Chat!Init
    BY ImplInit
  <1>2. ImplInv /\ [ChatNext]_chat_vars => [Chat!Next]_(Chat!vars)
    BY ImplStep, ImplStutter
  <1>3. QED
    BY <1>1, <1>2, ChatInvariant, PTL DEF ChatSpec, ImplementsChat, Chat!Spec
=============================================================================

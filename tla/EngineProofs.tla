---------------------------- MODULE EngineProofs ----------------------------
(***************************************************************************)
(* Proofs about the parts of the io_uring server and of its engine that    *)
(* share no state.                                                         *)
(*                                                                         *)
(* The session table, for every capacity and generation width: a validate  *)
(* answers yes exactly for the sessions that are live, and a session that  *)
(* died never answers again.                                               *)
(*                                                                         *)
(* An edge of the mesh, for every pipe, every set of messages and every    *)
(* interleaving: messages are received whole and in order.  The inductive  *)
(* invariant says that the pipe can be cut into the frames of the messages *)
(* posted and not received.  The cuts are a function that exists, not one  *)
(* that is computed, so that a post extends it, a take shifts it, and no   *)
(* recursion over the pipe is needed.                                      *)
(*                                                                         *)
(* The lock objects, for every number of threads, mutexes and variables: a *)
(* mutex that is locked has one object to unlock it.  Counting owners is   *)
(* not inductive as it stands.  HeldOnce says it without a count: the      *)
(* owners of a mutex are a set of one object in the thread that holds it,  *)
(* and nothing anywhere else, so an object that owns a lock knows that its *)
(* own thread holds the mutex and that no second object does.              *)
(*                                                                         *)
(* sds::malloc_vector, for any number of vectors and every length: with    *)
(* malloc failing at any call the vectors implement the sequences of       *)
(* SoftVector.  Every operation but a move changes one vector and the      *)
(* buffers it owns before and after (OneAltered).                          *)
(*                                                                         *)
(* Threads under main, for any number of workers: main is an owner in the  *)
(* sense of ThreadCtl, so the lifecycle proofs of ThreadCtlProofs hold of  *)
(* this program, and its order of starts and joins keeps the acceptor      *)
(* among live workers and the mesh edges alive under every thread.         *)
(***************************************************************************)
EXTENDS Mesh, SessionTable, Locks, MallocVector, Supervisor, FiniteSetTheorems, SequenceTheorems,
        TLAPS

(***************************************************************************)
(* The session table                                                       *)
(***************************************************************************)
(* A nonempty set of naturals has a least element. *)
LEMMA LeastNatural ==
    ASSUME NEW S \in SUBSET Nat, S # {}
    PROVE  \E m \in S : \A k \in S : m <= k
  <1> DEFINE R == OpToRel(<, Nat)
  <1>1. IsWellFoundedOn(R, Nat)
    BY NatLessThanWellFounded
  <1>2. PICK x \in S : \A y \in S : ~(<<y, x>> \in R)
    <2> HIDE DEF R
    <2> QED BY <1>1, WFMin
  <1>3. \A y \in S : ~(y < x)
    BY <1>2 DEF OpToRel
  <1>4. QED
    BY <1>3

(* The first of a nonempty set of slots exists. *)
LEMMA FirstIsSlot ==
    ASSUME NEW S \in SUBSET Slot, S # {}
    PROVE  First(S) \in S
  <1>1. Slot \subseteq Nat
    BY TableAssumption DEF Slot
  <1>2. \E m \in S : \A k \in S : m <= k
    BY <1>1, LeastNatural
  <1>3. QED
    BY <1>2 DEF First

(* An empty table is well-formed. *)
LEMMA InitTableInv == TableInit => TableInv
  <1> SUFFICES ASSUME TableInit PROVE TableInv
    OBVIOUS
  <1>1. EmptyRecord \in session_record
    BY TableAssumption DEF EmptyRecord, session_record, session_state, k_invalid_session
  <1>2. Live = {}
    BY DEF TableInit, Live, EmptyRecord
  <1>3. TableTypeOK
    BY <1>1, TableAssumption DEF TableInit, TableTypeOK
  <1>4. QED
    BY <1>2, <1>3, FS_EmptySet DEF TableInit, TableInv, LiveAsMinted

(* The table is finite, and so is every set of its slots. *)
LEMMA LiveFinite == IsFiniteSet(Live)
  <1>1. IsFiniteSet(Slot)
    BY FS_Interval, TableAssumption DEF Slot
  <1>2. Live \subseteq Slot
    BY DEF Live
  <1>3. QED
    BY <1>1, <1>2, FS_Subset

(* A live id is in one slot only, the one it was minted in. *)
LEMMA HoldingIsOne ==
    ASSUME TableInv, NEW id \in 0..MaxId, Holding(id) # {}
    PROVE  /\ slot_of(id) \in Live /\ _slots[slot_of(id)].id = id
           /\ Holding(id) = {slot_of(id)}
           /\ id \in DOMAIN minted
  <1>1. slot_of(id) \in Holding(id)
    BY FirstIsSlot DEF slot_of, Holding
  <1>2. \A s \in Holding(id) : s \in Live /\ minted[id].slot = s /\ id \in DOMAIN minted
    <2> SUFFICES ASSUME NEW s \in Holding(id)
                 PROVE  s \in Live /\ minted[id].slot = s /\ id \in DOMAIN minted
      OBVIOUS
    <2>1. s \in Live /\ _slots[s].id = id
      BY DEF Holding, Live
    <2>2. /\ id \in DOMAIN minted
          /\ minted[id] = [slot |-> s, generation |-> _slots[s].generation,
                           account |-> _slots[s].account]
      BY <2>1 DEF TableInv, LiveAsMinted
    <2>3. QED
      BY <2>1, <2>2
  <1>3. QED
    BY <1>1, <1>2 DEF Holding

(* allocate fills a free slot with an id nobody has seen. *)
LEMMA AllocateTableInv ==
    ASSUME TableInv, NEW a \in Account, allocate(a)
    PROVE  TableInv'
  <1> DEFINE s == First(FreeSlots)
             r == [id |-> _next_id,
                   generation |-> (_slots[s].generation + 1) % GenWidth,
                   account |-> a, owner_worker |-> -1, state |-> "accepted"]
             m == [slot |-> s, generation |-> r.generation, account |-> a]
  <1>1. s \in FreeSlots
    BY FirstIsSlot DEF allocate, FreeSlots
  <1>2. s \in Slot /\ s \notin Live /\ _slots[s].generation \in 0..(GenWidth - 1)
    BY <1>1 DEF FreeSlots, Live, TableInv, TableTypeOK, session_record
  <1>3. /\ _next_id \in 1..MaxId
        /\ _slots' = [_slots EXCEPT ![s] = r]
        /\ _next_id' = _next_id + 1
        /\ _count' = _count + 1
        /\ minted' = [id \in DOMAIN minted \cup {_next_id} |->
                        IF id = _next_id THEN m ELSE minted[id]]
    BY TableAssumption DEF allocate, TableInv, TableTypeOK
  <1>4. DOMAIN minted = 1..(_next_id - 1) /\ _next_id \notin DOMAIN minted
    BY <1>3, TableAssumption DEF TableInv, TableTypeOK
  <1>5. r.generation \in 0..(GenWidth - 1)
    BY <1>2, TableAssumption
  <1>6. r \in session_record
    BY <1>3, <1>5 DEF session_record, session_state
  <1>7. TableTypeOK'
    <2>1. _slots' \in [Slot -> session_record] /\ _next_id' \in 1..(MaxId + 1)
      BY <1>3, <1>6, <1>2, TableAssumption DEF TableInv, TableTypeOK
    <2>2. _count' \in Nat
      BY <1>3 DEF TableInv, TableTypeOK
    <2>3. DOMAIN minted' = 1..(_next_id' - 1)
      BY <1>3, <1>4
    <2>4. minted' \in [1..(_next_id' - 1) ->
                         [slot : Slot, generation : 0..(GenWidth - 1), account : Account]]
      BY <1>2, <1>3, <1>4, <1>5, <2>3 DEF TableInv, TableTypeOK
    <2>5. QED
      BY <2>1, <2>2, <2>4 DEF TableTypeOK
  <1>8. Live' = Live \cup {s}
    BY <1>2, <1>3 DEF Live, k_invalid_session, TableInv, TableTypeOK
  <1>9. LiveAsMinted'
    <2> SUFFICES ASSUME NEW t \in Live'
                 PROVE  /\ _slots'[t].id \in DOMAIN minted'
                        /\ minted'[_slots'[t].id] =
                             [slot |-> t, generation |-> _slots'[t].generation,
                              account |-> _slots'[t].account]
      BY DEF LiveAsMinted
    <2>1. CASE t = s
      <3>1. _slots'[t] = r
        BY <1>2, <1>3, <2>1 DEF TableInv, TableTypeOK
      <3>2. QED
        BY <1>3, <2>1, <3>1
    <2>2. CASE t # s
      <3>1. t \in Live /\ _slots'[t] = _slots[t]
        BY <1>2, <1>3, <1>8, <2>2 DEF Live, TableInv, TableTypeOK
      <3>2. QED
        BY <1>3, <1>4, <3>1 DEF TableInv, LiveAsMinted
    <2>3. QED
      BY <2>1, <2>2
  <1>10. _count' = Cardinality(Live')
    BY <1>2, <1>3, <1>8, LiveFinite, FS_AddElement DEF TableInv
  <1>11. QED
    BY <1>7, <1>9, <1>10 DEF TableInv

(* What the operations on one record have in common: the record keeps the  *)
(* identity it was minted with.                                            *)
LEMMA UpdateTableInv ==
    ASSUME TableInv, NEW id \in 0..MaxId, NEW r \in session_record,
           Update(id, r), r.id = id, _count' = _count,
           r.generation = _slots[slot_of(id)].generation,
           r.account = _slots[slot_of(id)].account
    PROVE  TableInv'
  <1>1. /\ slot_of(id) \in Live /\ _slots[slot_of(id)].id = id
        /\ id # k_invalid_session
    BY HoldingIsOne DEF Update, Holding
  <1>2. /\ _slots' = [_slots EXCEPT ![slot_of(id)] = r]
        /\ UNCHANGED <<_next_id, minted, _count>>
    BY DEF Update
  <1>3. TableTypeOK'
    BY <1>2 DEF TableInv, TableTypeOK
  <1>4. Live' = Live
    BY <1>1, <1>2 DEF Live, TableInv, TableTypeOK
  <1>5. LiveAsMinted'
    BY <1>1, <1>2, <1>4 DEF Live, LiveAsMinted, TableInv, TableTypeOK
  <1>6. QED
    BY <1>2, <1>3, <1>4, <1>5 DEF TableInv

(* Marking a session changes neither its id nor what it was minted with. *)
LEMMA MarkTableInv ==
    ASSUME TableInv, NEW id \in 0..MaxId,
           mark_in_world(id) \/ \E w \in WorkerId : mark_assigning(id, w)
    PROVE  TableInv'
  <1> DEFINE old == _slots[slot_of(id)]
  <1>1. Holding(id) # {} /\ _count' = _count
    BY DEF mark_in_world, mark_assigning, Update
  <1>2. old \in session_record /\ old.id = id
    BY <1>1, HoldingIsOne DEF Live, TableInv, TableTypeOK
  <1>3. CASE mark_in_world(id)
    <2>1. [old EXCEPT !.state = "in_world"] \in session_record
      BY <1>2 DEF session_record, session_state
    <2>2. QED
      BY <1>1, <1>2, <1>3, <2>1, UpdateTableInv DEF mark_in_world, session_record
  <1>4. ASSUME NEW w \in WorkerId, mark_assigning(id, w) PROVE TableInv'
    <2>1. [old EXCEPT !.owner_worker = w, !.state = "assigning"] \in session_record
      BY <1>2 DEF session_record, session_state
    <2>2. QED
      BY <1>1, <1>2, <1>4, <2>1, UpdateTableInv DEF mark_assigning, session_record
  <1>5. QED
    BY <1>3, <1>4

(* remove empties the only slot that held the id. *)
LEMMA RemoveTableInv ==
    ASSUME TableInv, NEW id \in 0..MaxId, remove(id)
    PROVE  TableInv'
  <1> DEFINE s == slot_of(id)
             r == [_slots[s] EXCEPT !.id = k_invalid_session, !.owner_worker = -1,
                                    !.state = "closed"]
  <1>1. s \in Live /\ _slots[s].id = id
    BY HoldingIsOne DEF remove, Update
  <1>2. /\ _slots' = [_slots EXCEPT ![s] = r]
        /\ UNCHANGED <<_next_id, minted>> /\ _count' = _count - 1
    BY DEF remove, Update
  <1>3. r \in session_record /\ r.id = k_invalid_session
    <2>1. _slots[s] \in session_record
      BY <1>1 DEF Live, TableInv, TableTypeOK
    <2>2. k_invalid_session \in 0..MaxId /\ -1 \in WorkerId \cup {-1}
      BY TableAssumption DEF k_invalid_session
    <2>3. QED
      BY <2>1, <2>2 DEF session_record, session_state
  <1> HIDE DEF r, s
  <1>4. Live' = Live \ {s}
    BY <1>1, <1>2, <1>3 DEF Live, TableInv, TableTypeOK
  <1>5. _count' = Cardinality(Live') /\ _count' \in Nat
    BY <1>1, <1>2, <1>4, LiveFinite, FS_RemoveElement, FS_CardinalityType, FS_Subset
       DEF TableInv
  <1>6. TableTypeOK'
    BY <1>2, <1>3, <1>5 DEF TableInv, TableTypeOK
  <1>7. LiveAsMinted'
    BY <1>2, <1>4 DEF Live, LiveAsMinted, TableInv, TableTypeOK
  <1>8. QED
    BY <1>5, <1>6, <1>7 DEF TableInv

(* Every step preserves the inductive invariant. *)
LEMMA StepTableInv == TableInv /\ [TableNext]_table_vars => TableInv'
  <1> SUFFICES ASSUME TableInv, [TableNext]_table_vars PROVE TableInv'
    OBVIOUS
  <1>1. CASE UNCHANGED table_vars
    BY <1>1 DEF table_vars, TableInv, TableTypeOK, LiveAsMinted, Live
  <1>2. CASE ids_spent
    BY <1>1, <1>2 DEF ids_spent
  <1>3. QED
    BY <1>1, <1>2, AllocateTableInv, MarkTableInv, RemoveTableInv DEF TableNext

(* The inductive invariant of the session table. *)
THEOREM TableInvariance == TableSpec => []TableInv
  <1>1. QED
    BY InitTableInv, StepTableInv, PTL DEF TableSpec

(* A reference validates iff its session is live, and then finds the       *)
(* record it was minted for, however often slots and generations were      *)
(* reused.                                                                 *)
THEOREM StaleIsRefused == TableSpec => []ValidateIsExact
  <1>1. ASSUME TableInv PROVE ValidateIsExact
    <2> SUFFICES ASSUME NEW id \in DOMAIN minted
                 PROVE  /\ validate(id, minted[id].generation)
                              <=> \E s \in Slot : _slots[s].id = id
                        /\ validate(id, minted[id].generation) =>
                             /\ slot_of(id) = minted[id].slot
                             /\ _slots[minted[id].slot].account = minted[id].account
      BY DEF ValidateIsExact
    <2>1. id \in 0..MaxId /\ id # k_invalid_session
      BY <1>1, TableAssumption DEF TableInv, TableTypeOK, k_invalid_session
    <2>2. Holding(id) = {s \in Slot : _slots[s].id = id}
      BY <2>1 DEF Holding
    <2>3. ASSUME Holding(id) # {}
          PROVE  minted[id] = [slot |-> slot_of(id),
                               generation |-> _slots[slot_of(id)].generation,
                               account |-> _slots[slot_of(id)].account]
      BY <1>1, <2>1, <2>3, HoldingIsOne DEF TableInv, LiveAsMinted
    <2>4. QED
      BY <2>2, <2>3 DEF validate
  <1>2. QED
    BY <1>1, TableInvariance, PTL

(* An id whose session is gone never names a session again. *)
THEOREM DeadStaysDead == TableSpec => NeverResurrected
  <1> DEFINE A == \A id \in DOMAIN minted : Holding(id) = {} => Holding(id)' = {}
  <1>1. TableInv /\ [TableNext]_table_vars => [A]_table_vars
    <2> SUFFICES ASSUME TableInv, TableNext,
                        NEW id \in DOMAIN minted, Holding(id) = {}
                 PROVE  Holding(id)' = {}
      OBVIOUS
    <2>1. \A s \in Slot : _slots[s].id # id
      BY TableAssumption DEF Holding, TableInv, TableTypeOK, k_invalid_session
    <2>2. ASSUME NEW a \in Account, allocate(a) PROVE Holding(id)' = {}
      <3>1. _next_id # id
        BY TableAssumption DEF TableInv, TableTypeOK
      <3>2. First(FreeSlots) \in Slot
        BY <2>2, FirstIsSlot DEF allocate, FreeSlots
      <3>3. QED
        BY <2>1, <2>2, <3>1, <3>2 DEF allocate, Holding, TableInv, TableTypeOK
    <2>3. ASSUME NEW d \in 0..MaxId, NEW r, Update(d, r),
                 r.id \in {d, k_invalid_session}
          PROVE  Holding(id)' = {}
      <3>1. slot_of(d) \in Slot /\ _slots[slot_of(d)].id = d
        BY <2>3, HoldingIsOne DEF Update, Live
      <3>2. QED
        BY <2>1, <2>3, <3>1 DEF Update, Holding, TableInv, TableTypeOK
    <2>4. ASSUME NEW d \in 0..MaxId, Holding(d) # {}
          PROVE  _slots[slot_of(d)] \in session_record /\ _slots[slot_of(d)].id = d
      BY <2>4, HoldingIsOne DEF Live, TableInv, TableTypeOK
    <2>5. ASSUME NEW d \in 0..MaxId,
                 mark_in_world(d) \/ remove(d) \/ \E w \in WorkerId : mark_assigning(d, w)
          PROVE  Holding(id)' = {}
      <3>1. CASE mark_in_world(d)
        BY <2>3, <2>4, <3>1 DEF mark_in_world, session_record, Update
      <3>2. CASE remove(d)
        BY <2>3, <2>4, <3>2 DEF remove, session_record, Update
      <3>3. CASE \E w \in WorkerId : mark_assigning(d, w)
        BY <2>3, <2>4, <3>3 DEF mark_assigning, session_record, Update
      <3>4. QED
        BY <2>5, <3>1, <3>2, <3>3
    <2>6. CASE ids_spent
      BY <2>1, <2>6 DEF ids_spent, table_vars, Holding
    <2>7. QED
      BY <2>2, <2>5, <2>6 DEF TableNext
  <1>2. QED
    BY <1>1, TableInvariance, PTL DEF TableSpec, NeverResurrected

(***************************************************************************)
(* An edge of the mesh                                                     *)
(***************************************************************************)
(* What is put behind a byte string. *)
LEMMA JoinFacts ==
    ASSUME NEW S, NEW s \in Seq(S), NEW u \in Seq(S), NEW v, v = s \o u
    PROVE  /\ v \in Seq(S) /\ Len(v) = Len(s) + Len(u)
           /\ \A i \in 1..Len(s) : v[i] = s[i]
           /\ \A k \in 1..Len(u) : v[Len(s) + k] = u[k]
  <1> DEFINE w == s \o u
  <1>1. /\ w \in Seq(S) /\ Len(w) = Len(s) + Len(u)
        /\ \A i \in 1..(Len(s) + Len(u)) :
             w[i] = IF i <= Len(s) THEN s[i] ELSE u[i - Len(s)]
    BY ConcatProperties
  <1>2. w = v
    OBVIOUS
  <1> HIDE DEF w
  <1>3. Len(s) \in Nat /\ Len(u) \in Nat
    OBVIOUS
  <1>4. \A i \in 1..Len(s) : w[i] = s[i]
    BY <1>1, <1>3
  <1>5. ASSUME NEW k \in 1..Len(u) PROVE w[Len(s) + k] = u[k]
    <2>1. Len(s) + k \in 1..(Len(s) + Len(u)) /\ ~(Len(s) + k <= Len(s))
          /\ (Len(s) + k) - Len(s) = k
      BY <1>3
    <2>2. QED
      BY <2>1, <1>1
  <1>6. QED
    BY <1>1, <1>2, <1>4, <1>5

(* What a take leaves, and what it returns. *)
LEMMA CutOffFacts ==
    ASSUME NEW S, NEW s \in Seq(S), NEW n \in 0..Len(s)
    PROVE  /\ SubSeq(s, n + 1, Len(s)) \in Seq(S)
           /\ Len(SubSeq(s, n + 1, Len(s))) = Len(s) - n
           /\ \A i \in 1..(Len(s) - n) : SubSeq(s, n + 1, Len(s))[i] = s[n + i]
           /\ SubSeq(s, 1, n) \in Seq(S)
           /\ Len(SubSeq(s, 1, n)) = n
           /\ \A i \in 1..n : SubSeq(s, 1, n)[i] = s[i]
  <1> DEFINE L == Len(s)
             rest == SubSeq(s, n + 1, L)
             first == SubSeq(s, 1, n)
  <1>1. L \in Nat /\ n \in Nat /\ n <= L /\ \A i \in 1..L : s[i] \in S
    OBVIOUS
  <1> HIDE DEF L
  <1>2. \A i \in (n + 1)..L : s[i] \in S
    BY <1>1
  <1>3. /\ rest \in Seq(S) /\ Len(rest) = IF n + 1 <= L THEN L - (n + 1) + 1 ELSE 0
        /\ \A i \in 1..(L - (n + 1) + 1) : rest[i] = s[(n + 1) + i - 1]
    <2>1. n + 1 \in Int /\ L \in Int
      BY <1>1
    <2>2. QED
      BY <1>2, <2>1, SubSeqProperties
  <1>4. \A i \in 1..n : s[i] \in S
    BY <1>1
  <1>5. /\ first \in Seq(S) /\ Len(first) = IF 1 <= n THEN n - 1 + 1 ELSE 0
        /\ \A i \in 1..(n - 1 + 1) : first[i] = s[1 + i - 1]
    <2>1. 1 \in Int /\ n \in Int
      BY <1>1
    <2>2. QED
      BY <1>4, <2>1, SubSeqProperties
  <1> HIDE DEF rest, first
  <1>6. Len(rest) = L - n /\ Len(first) = n
    BY <1>1, <1>3, <1>5
  <1>7. \A i \in 1..(L - n) : rest[i] = s[n + i]
    <2>1. \A i \in 1..(L - n) : i \in 1..(L - (n + 1) + 1) /\ (n + 1) + i - 1 = n + i
      BY <1>1
    <2>2. QED
      BY <2>1, <1>3
  <1>8. \A i \in 1..n : first[i] = s[i]
    <2>1. \A i \in 1..n : i \in 1..(n - 1 + 1) /\ 1 + i - 1 = i
      BY <1>1
    <2>2. QED
      BY <2>1, <1>5
  <1>9. QED
    BY <1>3, <1>5, <1>6, <1>7, <1>8 DEF rest, first, L

(* A message of the type the callers use. *)
LEMMA MessageParts ==
    ASSUME NEW m \in Message
    PROVE  /\ m.type \in MsgType /\ m.type \in Byte
           /\ m.body \in Bodies /\ m.body \in Seq(Byte)
           /\ Len(m.body) \in Nat /\ Len(m.body) \in Byte /\ Len(m.body) <= BodyCap
  BY MeshAssumption DEF Message

(* The bytes of a frame. *)
LEMMA FrameBytes ==
    ASSUME NEW m \in Message, NEW f,
           f = HeaderBytes([size |-> Len(m.body), type |-> m.type]) \o m.body
    PROVE  /\ f \in Seq(Byte) /\ Len(f) = 2 + Len(m.body)
           /\ f[1] = Len(m.body) /\ f[2] = m.type
           /\ \A k \in 1..Len(m.body) : f[2 + k] = m.body[k]
  <1> DEFINE h == <<Len(m.body), m.type>>
             b == m.body
  <1>1. b \in Seq(Byte) /\ Len(b) \in Byte /\ m.type \in Byte
    BY MessageParts
  <1>2. h \in Seq(Byte) /\ Len(h) = 2 /\ h[1] = Len(b) /\ h[2] = m.type
    BY <1>1
  <1>3. f = h \o b
    BY DEF HeaderBytes
  <1> HIDE DEF h, b
  <1>4. /\ f \in Seq(Byte) /\ Len(f) = Len(h) + Len(b)
        /\ \A i \in 1..Len(h) : f[i] = h[i]
        /\ \A k \in 1..Len(b) : f[Len(h) + k] = b[k]
    <2>1. b \in Seq(Byte) /\ h \in Seq(Byte)
      BY <1>1, <1>2
    <2>2. QED
      BY ONLY <2>1, <1>3, JoinFacts
  <1>5. f \in Seq(Byte) /\ Len(f) = 2 + Len(b) /\ f[1] = h[1] /\ f[2] = h[2]
    BY ONLY <1>2, <1>4
  <1>6. \A k \in 1..Len(b) : f[2 + k] = b[k]
    BY <1>2, <1>4
  <1>7. QED
    BY <1>2, <1>5, <1>6 DEF b

(* q2 is q with the frame of m behind it. *)
Behind(q, q2, m) ==
    /\ Len(q) \in Nat /\ Len(q2) = Len(q) + (2 + Len(m.body))
    /\ \A i \in 1..Len(q) : q2[i] = q[i]
    /\ q2[Len(q) + 1] = Len(m.body) /\ q2[Len(q) + 2] = m.type
    /\ \A k \in 1..Len(m.body) : q2[Len(q) + 2 + k] = m.body[k]

(* A frame, spelled out. *)
LEMMA FrameIs ==
    ASSUME NEW q, NEW m, NEW from, NEW to
    PROVE  IsFrame(q, m, from, to) <=>
             /\ to = from + (2 + Len(m.body))
             /\ from >= 0 => q[from + 1] = Len(m.body) /\ q[from + 2] = m.type
             /\ \A k \in 1..Len(m.body) : q[from + 2 + k] = m.body[k]
  BY DEF IsFrame, k_hdr, mesh_frame_size

(* A frame is where it was, counted from n symbols further on. *)
LEMMA FrameMoved ==
    ASSUME NEW q, NEW q2, NEW m \in Message, NEW from \in Int, NEW to \in Int, NEW n \in Nat,
           NEW l2 \in Nat, from - n >= -2, to - n <= l2, IsFrame(q, m, from, to),
           \A x \in 1..l2 : q2[x] = q[n + x]
    PROVE  IsFrame(q2, m, from - n, to - n)
  <1> DEFINE b == m.body
             l == Len(b)
             a == from - n
             z == to - n
  <1>1. l \in Nat
    BY MessageParts
  <1>2. /\ to = from + (2 + l)
        /\ from >= 0 => q[from + 1] = l /\ q[from + 2] = m.type
        /\ \A k \in 1..l : q[from + 2 + k] = b[k]
    BY FrameIs
  <1> HIDE DEF l, b
  <1>3. /\ a \in Int /\ a >= -2 /\ z <= l2 /\ z = a + (2 + l)
        /\ n + (a + 1) = from + 1 /\ n + (a + 2) = from + 2
        /\ a >= 0 => from >= 0 /\ a + 1 \in 1..l2 /\ a + 2 \in 1..l2
        /\ \A k \in 1..l : a + 2 + k \in 1..l2 /\ n + (a + 2 + k) = from + 2 + k
    BY <1>1, <1>2
  <1> HIDE DEF a, z
  <1>4. a >= 0 => q2[a + 1] = l /\ q2[a + 2] = m.type
    BY <1>2, <1>3
  <1>5. \A k \in 1..l : q2[a + 2 + k] = b[k]
    BY <1>2, <1>3
  <1>6. IsFrame(q2, m, a, z)
    BY <1>3, <1>4, <1>5, FrameIs DEF l, b
  <1>7. QED
    BY <1>6 DEF a, z

(* One more frame behind a string that can be cut. *)
LEMMA CutExtended ==
    ASSUME NEW q, NEW q2, NEW msgs \in Seq(Message), NEW m \in Message, Behind(q, q2, m),
           NEW r \in Nat, r <= Len(msgs), NEW begin, CanBeCut(q, msgs, r, begin)
    PROVE  CanBeCut(q2, Append(msgs, m), r, begin)
  <1> DEFINE ql == Len(q)
             bl == Len(m.body)
             p == Len(msgs)
             msgs2 == Append(msgs, m)
  <1>1. ql \in Nat /\ bl \in Nat /\ p \in Nat /\ r <= p
    BY MessageParts DEF Behind
  <1>2. /\ Len(q2) = ql + (2 + bl) /\ \A i \in 1..ql : q2[i] = q[i]
        /\ q2[ql + 1] = bl /\ q2[ql + 2] = m.type
        /\ \A k \in 1..bl : q2[ql + 2 + k] = m.body[k]
    BY DEF Behind
  <1>3. Len(msgs2) = p + 1 /\ msgs2[p + 1] = m /\ \A i \in 1..p : msgs2[i] = msgs[i]
    OBVIOUS
  <1>4. PICK c \in [r..p -> (-2)..ql] : IsCut(q, msgs, r, begin, c)
    BY DEF CanBeCut, k_hdr
  <1>5. /\ c[r] = begin /\ c[p] = ql
        /\ \A i, j \in r..p : i <= j => c[i] <= c[j]
        /\ \A i \in (r + 1)..p : IsFrame(q, msgs[i], c[i - 1], c[i])
    BY <1>4 DEF IsCut
  <1>6. \A i \in 1..p : msgs[i] \in Message
    OBVIOUS
  <1> HIDE DEF ql, bl, p, msgs2
  <1> DEFINE e == ql + (2 + bl)
             d == [i \in r..(p + 1) |-> IF i = p + 1 THEN e ELSE c[i]]
  <1>7. e \in Nat /\ e >= ql + 2
    BY <1>1
  <1>8. d[p + 1] = e /\ \A i \in r..p : d[i] = c[i]
    BY <1>1
  <1>9. \A i \in r..p : c[i] \in Int /\ -2 <= c[i] /\ c[i] <= ql
    BY <1>4, <1>1
  <1> HIDE DEF e
  <1>10. d \in [r..(p + 1) -> (-2)..e]
    BY <1>1, <1>7, <1>9
  <1> HIDE DEF d
  <1>11. \A i, j \in r..(p + 1) : i <= j => d[i] <= d[j]
    <2> SUFFICES ASSUME NEW i \in r..(p + 1), NEW j \in r..(p + 1), i <= j
                 PROVE  d[i] <= d[j]
      OBVIOUS
    <2>1. CASE j = p + 1
      BY <2>1, <1>1, <1>7, <1>8, <1>9
    <2>2. CASE j # p + 1
      <3>1. i \in r..p /\ j \in r..p
        BY <2>2, <1>1
      <3>2. QED
        BY <3>1, <1>5, <1>8
    <2>3. QED
      BY <2>1, <2>2
  <1>12. ASSUME NEW i \in (r + 1)..p
        PROVE  IsFrame(q2, msgs2[i], d[i - 1], d[i])
    <2>1. /\ i \in 1..p /\ i \in r..p /\ i - 1 \in r..p
          /\ msgs2[i] = msgs[i] /\ d[i] = c[i] /\ d[i - 1] = c[i - 1]
      <3>1. i \in 1..p /\ i \in r..p /\ i - 1 \in r..p
        BY <1>1
      <3>2. QED
        BY <3>1, <1>3, <1>8
    <2>2. IsFrame(q, msgs[i], c[i - 1], c[i]) /\ msgs[i] \in Message
      BY <1>5, <1>6, <2>1
    <2>3. c[i - 1] \in Int /\ c[i - 1] - 0 >= -2 /\ c[i] \in Int /\ c[i] - 0 <= ql
      BY <2>1, <1>9
    <2>4. \A x \in 1..ql : q2[x] = q[0 + x]
      BY <1>1, <1>2
    <2>5. IsFrame(q2, msgs[i], c[i - 1] - 0, c[i] - 0)
      BY <2>2, <2>3, <2>4, <1>1, FrameMoved
    <2>6. QED
      BY <2>1, <2>3, <2>5
  <1>13. IsFrame(q2, msgs2[p + 1], d[p], d[p + 1])
    <2>1. d[p] = ql
      BY <1>5, <1>1, <1>8
    <2>2. e = ql + (2 + bl)
      BY <1>1 DEF e
    <2>3. IsFrame(q2, m, ql, e)
      BY <2>2, <1>2, FrameIs DEF bl
    <2>4. QED
      BY <2>1, <2>3, <1>8, <1>3
  <1>14. \A i \in (r + 1)..(p + 1) : IsFrame(q2, msgs2[i], d[i - 1], d[i])
    <2> TAKE i \in (r + 1)..(p + 1)
    <2>1. CASE i \in (r + 1)..p
      BY <2>1, <1>12
    <2>2. CASE i = p + 1
      <3>1. i - 1 = p
        BY <2>2, <1>1
      <3>2. QED
        BY <3>1, <2>2, <1>13
    <2>3. QED
      BY <2>1, <2>2, <1>1
  <1>15. d[r] = begin
    BY <1>5, <1>1, <1>8
  <1>16. Len(q2) = e /\ Len(msgs2) = p + 1
    BY <1>2, <1>3 DEF e
  <1>17. IsCut(q2, msgs2, r, begin, d)
    BY <1>8, <1>11, <1>14, <1>15, <1>16 DEF IsCut
  <1>18. QED
    BY <1>10, <1>16, <1>17 DEF CanBeCut, k_hdr, msgs2

(* q2 is q without its first n symbols. *)
Taken(q, q2, n) ==
    /\ n \in Nat /\ Len(q) \in Nat /\ Len(q2) \in Nat
    /\ Len(q2) = Len(q) - n
    /\ \A x \in 1..Len(q2) : q2[x] = q[n + x]

(* What is left of a string that can be cut, once n symbols are taken. *)
LEMMA CutTaken ==
    ASSUME NEW q, NEW q2, NEW n, Taken(q, q2, n), NEW msgs \in Seq(Message), NEW r \in Nat,
           NEW begin, NEW c \in [r..Len(msgs) -> (-k_hdr)..Len(q)],
           IsCut(q, msgs, r, begin, c), NEW r2 \in r..Len(msgs), c[r2] - n >= -2
    PROVE  CanBeCut(q2, msgs, r2, c[r2] - n)
  <1> DEFINE p == Len(msgs)
             ql == Len(q)
             l2 == Len(q2)
             d == [i \in r2..p |-> c[i] - n]
             start2 == c[r2] - n
  <1>1. /\ p \in Nat /\ ql \in Nat /\ l2 \in Nat /\ l2 = ql - n
        /\ r2 \in Nat /\ r <= r2 /\ r2 <= p
        /\ c \in [r..p -> (-2)..ql] /\ n \in Nat
    BY DEF k_hdr, Taken
  <1>2. /\ c[p] = ql
        /\ \A i, j \in r..p : i <= j => c[i] <= c[j]
        /\ \A i \in (r + 1)..p : IsFrame(q, msgs[i], c[i - 1], c[i])
    BY DEF IsCut
  <1>3. \A i \in 1..p : msgs[i] \in Message
    OBVIOUS
  <1>4. \A x \in 1..l2 : q2[x] = q[n + x]
    BY DEF Taken
  <1> HIDE DEF p, ql, l2
  <1>5. \A i \in r2..p : d[i] = c[i] - n
    OBVIOUS
  <1>6. \A i \in r2..p : c[i] \in Int /\ c[i] - n >= -2 /\ c[i] - n <= l2 /\ i \in r..p
    <2> TAKE i \in r2..p
    <2>1. i \in r..p /\ r2 \in r..p /\ p \in r..p /\ r2 <= i /\ i <= p
      BY <1>1
    <2>2. c[r2] <= c[i] /\ c[i] <= ql /\ c[i] \in Int /\ c[r2] \in Int
      BY <2>1, <1>1, <1>2
    <2>3. QED
      BY <2>1, <2>2, <1>1
  <1>7. d \in [r2..p -> (-2)..l2]
    BY <1>1, <1>6
  <1> HIDE DEF d
  <1>8. d[r2] = start2 /\ d[p] = l2
    <2>1. r2 \in r2..p /\ p \in r2..p
      BY <1>1
    <2>2. d[r2] = c[r2] - n /\ d[p] = c[p] - n
      BY <2>1, <1>5
    <2>3. QED
      BY <2>2, <1>1, <1>2
  <1>9. ASSUME NEW i \in r2..p, NEW j \in r2..p, i <= j
        PROVE  d[i] <= d[j]
    <2>1. c[i] \in Int /\ c[j] \in Int /\ i \in r..p /\ j \in r..p
      BY <1>6
    <2>2. c[i] <= c[j]
      BY <2>1, <1>2, <1>9
    <2>3. d[i] = c[i] - n /\ d[j] = c[j] - n
      BY <1>5
    <2>4. n \in Nat
      BY <1>1
    <2>5. QED
      BY ONLY <2>1, <2>2, <2>3, <2>4
  <1>10. ASSUME NEW i \in (r2 + 1)..p
         PROVE  IsFrame(q2, msgs[i], d[i - 1], d[i])
    <2>1. i \in r2..p /\ i - 1 \in r2..p /\ i \in (r + 1)..p /\ i \in 1..p
      BY <1>1
    <2>2. IsFrame(q, msgs[i], c[i - 1], c[i]) /\ msgs[i] \in Message
      BY <2>1, <1>2, <1>3
    <2>3. /\ c[i - 1] \in Int /\ c[i - 1] - n >= -2 /\ c[i] \in Int /\ c[i] - n <= l2
          /\ d[i] = c[i] - n /\ d[i - 1] = c[i - 1] - n
      BY <2>1, <1>5, <1>6
    <2>4. IsFrame(q2, msgs[i], c[i - 1] - n, c[i] - n)
      BY <2>2, <2>3, <1>1, <1>4, FrameMoved
    <2>5. QED
      BY <2>3, <2>4
  <1>11. IsCut(q2, msgs, r2, start2, d)
    BY <1>8, <1>9, <1>10 DEF IsCut, p, l2
  <1>12. QED
    BY <1>7, <1>11 DEF CanBeCut, p, l2, k_hdr

(* The first frame of a string that can be cut. *)
LEMMA FirstFrame ==
    ASSUME NEW q, NEW msgs \in Seq(Message), NEW r \in Nat, r < Len(msgs), Len(q) \in Nat,
           NEW begin \in Int, NEW c \in [r..Len(msgs) -> (-k_hdr)..Len(q)],
           IsCut(q, msgs, r, begin, c)
    PROVE  /\ msgs[r + 1] \in Message
           /\ IsFrame(q, msgs[r + 1], begin, c[r + 1])
           /\ c[r + 1] = begin + (2 + Len(msgs[r + 1].body))
           /\ c[r + 1] <= Len(q)
  <1>1. /\ Len(msgs) \in Nat /\ r + 1 \in (r + 1)..Len(msgs) /\ r + 1 \in r..Len(msgs)
        /\ (r + 1) - 1 = r /\ r + 1 \in 1..Len(msgs) /\ Len(msgs) \in r..Len(msgs)
        /\ r + 1 <= Len(msgs)
    OBVIOUS
  <1>2. msgs[r + 1] \in Message
    BY <1>1
  <1>3. c[r] = begin /\ IsFrame(q, msgs[r + 1], c[(r + 1) - 1], c[r + 1])
    BY <1>1 DEF IsCut
  <1>4. IsFrame(q, msgs[r + 1], begin, c[r + 1])
    BY <1>1, <1>3
  <1>5. c[r + 1] <= Len(q)
    BY <1>1 DEF IsCut
  <1>6. QED
    BY <1>2, <1>4, <1>5, FrameIs

(* A string with a symbol in it has a frame. *)
LEMMA SomeFrame ==
    ASSUME NEW q, NEW msgs \in Seq(Message), NEW r \in Nat, r <= Len(msgs),
           CanBeCut(q, msgs, r, 0), Len(q) \in Nat, Len(q) > 0
    PROVE  r < Len(msgs)
  <1>1. PICK c \in [r..Len(msgs) -> (-k_hdr)..Len(q)] : IsCut(q, msgs, r, 0, c)
    BY DEF CanBeCut
  <1>2. c[r] = 0 /\ c[Len(msgs)] = Len(q)
    BY <1>1 DEF IsCut
  <1>3. QED
    BY <1>2

-----------------------------------------------------------------------------
(* Nothing was posted. *)
LEMMA InitMeshInv == MeshInit => MeshInv
  <1> SUFFICES ASSUME MeshInit PROVE MeshInv
    OBVIOUS
  <1>1. /\ pipe = << >> /\ out = << >> /\ posted = << >> /\ received = << >>
        /\ cpc = "idle" /\ hdr = NoHeader
    BY DEF MeshInit, Pipe!FifoInit
  <1>2. MeshTypeOK
    BY <1>1, MeshAssumption DEF MeshTypeOK, app_msg_header, NoHeader
  <1>3. ReceivedSoFar /\ RecvKnows
    BY <1>1 DEF ReceivedSoFar, RecvKnows
  <1>4. Framed
    <2> DEFINE c == [i \in 0..0 |-> 0]
    <2>1. Len(pipe) = 0 /\ Len(posted) = 0 /\ Len(received) = 0
      BY <1>1
    <2>2. c \in [0..0 -> (-k_hdr)..0] /\ c[0] = 0
      BY DEF k_hdr
    <2> HIDE DEF c
    <2>3. IsCut(pipe, posted, 0, 0, c)
      BY <2>1, <2>2 DEF IsCut
    <2>4. CanBeCut(pipe, posted, 0, 0)
      BY <2>1, <2>2, <2>3 DEF CanBeCut
    <2>5. QED
      BY <1>1, <2>1, <2>4 DEF Framed
  <1>5. QED
    BY <1>2, <1>3, <1>4 DEF MeshInv

(* The parts of the invariant the proofs below start from. *)
LEMMA MeshFacts ==
    ASSUME MeshInv
    PROVE  /\ pipe \in Seq(Byte) /\ posted \in Seq(Message) /\ received \in Seq(Message)
           /\ Len(pipe) \in Nat /\ Len(posted) \in Nat /\ Len(received) \in Nat
           /\ Len(received) <= Len(posted) /\ Len(pipe) <= N /\ N \in Nat
  BY MeshAssumption DEF MeshInv, MeshTypeOK, ReceivedSoFar

(* mesh_post puts the frame of its message behind the last one. *)
LEMMA PostInv ==
    ASSUME MeshInv, NEW type \in MsgType, NEW body \in Bodies, mesh_post(type, body)
    PROVE  MeshInv'
  <1> DEFINE m == [type |-> type, body |-> body]
             f == HeaderBytes([size |-> Len(m.body), type |-> m.type]) \o m.body
  <1>1. /\ Len(pipe) + Len(f) <= N /\ pipe' = pipe \o f /\ out' = out
        /\ posted' = Append(posted, m) /\ UNCHANGED <<cpc, hdr, received>>
    BY DEF mesh_post, Pipe!Put
  <1>2. m \in Message
    BY DEF Message
  <1> HIDE DEF m
  <1>3. /\ f \in Seq(Byte) /\ Len(f) = 2 + Len(m.body)
        /\ f[1] = Len(m.body) /\ f[2] = m.type
        /\ \A k \in 1..Len(m.body) : f[2 + k] = m.body[k]
    BY <1>2, FrameBytes
  <1>4. Len(m.body) \in Nat
    BY <1>2, MessageParts
  <1> HIDE DEF f
  <1>5. /\ pipe \in Seq(Byte) /\ posted \in Seq(Message)
        /\ Len(pipe) \in Nat /\ Len(posted) \in Nat /\ Len(received) \in Nat
        /\ Len(received) <= Len(posted)
    BY MeshFacts
  <1>6. /\ pipe' \in Seq(Byte) /\ Len(pipe') = Len(pipe) + Len(f)
        /\ \A i \in 1..Len(pipe) : pipe'[i] = pipe[i]
        /\ \A k \in 1..Len(f) : pipe'[Len(pipe) + k] = f[k]
    <2>1. pipe \in Seq(Byte) /\ f \in Seq(Byte) /\ pipe' = pipe \o f
      BY <1>1, <1>3, <1>5
    <2>2. QED
      BY ONLY <2>1, JoinFacts
  <1>7. /\ posted' \in Seq(Message) /\ Len(posted') = Len(posted) + 1
        /\ \A i \in 1..Len(posted) : posted'[i] = posted[i]
    BY <1>1, <1>2, <1>5
  <1>8. MeshTypeOK'
    BY <1>1, <1>6, <1>7 DEF MeshInv, MeshTypeOK
  <1>9. Len(pipe') >= Len(pipe)
    BY <1>3, <1>4, <1>5, <1>6
  <1>10. ReceivedSoFar'
    BY <1>1, <1>5, <1>7 DEF MeshInv, ReceivedSoFar
  <1>11. RecvKnows'
    <2>1. cpc' = "peek" => Len(pipe') >= k_hdr
      BY <1>1, <1>5, <1>6, <1>9 DEF MeshInv, RecvKnows, k_hdr
    <2>2. Len(received) + 1 <= Len(posted) =>
            /\ Len(received) + 1 <= Len(posted')
            /\ posted'[Len(received) + 1] = posted[Len(received) + 1]
      BY <1>5, <1>7
    <2>3. QED
      BY <1>1, <2>1, <2>2 DEF MeshInv, RecvKnows
  <1>12. Behind(pipe, pipe', m)
    <2>1. pipe'[Len(pipe) + 1] = f[1] /\ pipe'[Len(pipe) + 2] = f[2]
      BY <1>3, <1>4, <1>6
    <2>2. ASSUME NEW k \in 1..Len(m.body) PROVE pipe'[Len(pipe) + 2 + k] = m.body[k]
      <3>1. 2 + k \in 1..Len(f) /\ Len(pipe) + (2 + k) = Len(pipe) + 2 + k
        BY <1>3, <1>4, <1>5
      <3>2. QED
        BY <3>1, <1>3, <1>6
    <2>3. Len(pipe') = Len(pipe) + (2 + Len(m.body))
      BY <1>3, <1>6
    <2>4. QED
      BY <1>3, <1>5, <1>6, <2>1, <2>2, <2>3 DEF Behind
  <1>13. Framed'
    <2> DEFINE begin == IF cpc = "body" THEN -k_hdr ELSE 0
    <2>1. CanBeCut(pipe, posted, Len(received), begin)
      BY DEF MeshInv, Framed
    <2>2. begin = IF cpc' = "body" THEN -k_hdr ELSE 0
      BY <1>1
    <2> HIDE DEF begin
    <2>3. CanBeCut(pipe', Append(posted, m), Len(received), begin)
      BY <1>2, <1>5, <1>12, <2>1, CutExtended
    <2>4. QED
      BY <1>1, <2>2, <2>3 DEF Framed
  <1>14. QED
    BY <1>8, <1>10, <1>11, <1>13 DEF MeshInv

(* A step of mesh_try_recv that moves nothing. *)
LEMMA LookInv ==
    ASSUME MeshInv, UNCHANGED <<pipe, posted, received>>, cpc # "body", cpc' # "body"
    PROVE  ReceivedSoFar' /\ Framed'
  BY DEF MeshInv, ReceivedSoFar, Framed

(* The header is there, or the call ends. *)
LEMMA HeaderReadyInv == ASSUME MeshInv, header_ready PROVE MeshInv'
  <1>1. /\ UNCHANGED <<pipe, out, hdr, posted, received>> /\ cpc = "idle" /\ cpc' = "peek"
        /\ Len(pipe) >= k_hdr
    BY DEF header_ready
  <1>2. ReceivedSoFar' /\ Framed'
    BY <1>1, LookInv
  <1>3. MeshTypeOK' /\ RecvKnows'
    BY <1>1 DEF MeshInv, MeshTypeOK, RecvKnows
  <1>4. QED
    BY <1>2, <1>3 DEF MeshInv

(* What is peeked is the header of the next message. *)
LEMMA PeekInv == ASSUME MeshInv, peek_header PROVE MeshInv'
  <1> DEFINE r == Len(received)
             m == posted[r + 1]
  <1>1. /\ cpc = "peek" /\ cpc' = "whole" /\ UNCHANGED <<pipe, posted, received>>
        /\ k_hdr <= Len(pipe) /\ out' = SubSeq(pipe, 1, k_hdr) /\ hdr' = HeaderOf(out')
    BY DEF peek_header, Pipe!Look
  <1>2. ReceivedSoFar' /\ Framed'
    BY <1>1, LookInv
  <1>3. /\ pipe \in Seq(Byte) /\ posted \in Seq(Message) /\ r \in Nat
        /\ Len(pipe) \in Nat /\ Len(posted) \in Nat /\ r <= Len(posted)
    BY MeshFacts
  <1>4. CanBeCut(pipe, posted, r, 0)
    BY <1>1 DEF MeshInv, Framed
  <1> HIDE DEF r
  <1>5. r < Len(posted)
    <2>1. Len(pipe) > 0
      BY <1>1, <1>3 DEF k_hdr
    <2>2. QED
      BY <2>1, <1>3, <1>4, SomeFrame
  <1>6. PICK c \in [r..Len(posted) -> (-k_hdr)..Len(pipe)] : IsCut(pipe, posted, r, 0, c)
    BY <1>4 DEF CanBeCut
  <1>7. IsFrame(pipe, m, 0, c[r + 1]) /\ m \in Message
    BY <1>3, <1>5, <1>6, FirstFrame
  <1>8. pipe[1] = Len(m.body) /\ pipe[2] = m.type
    BY <1>7, FrameIs
  <1>9. /\ out' \in Seq(Byte) /\ Len(out') = 2 /\ out'[1] = pipe[1] /\ out'[2] = pipe[2]
    <2>1. 2 \in 0..Len(pipe)
      BY <1>1, <1>3 DEF k_hdr
    <2>2. /\ SubSeq(pipe, 1, 2) \in Seq(Byte) /\ Len(SubSeq(pipe, 1, 2)) = 2
          /\ \A i \in 1..2 : SubSeq(pipe, 1, 2)[i] = pipe[i]
      BY <2>1, <1>3, CutOffFacts
    <2>3. out' = SubSeq(pipe, 1, 2)
      BY <1>1 DEF k_hdr
    <2>4. QED
      BY <2>2, <2>3
  <1>10. hdr' = [size |-> Len(m.body), type |-> m.type]
    BY <1>1, <1>8, <1>9 DEF HeaderOf
  <1>11. hdr' \in app_msg_header
    <2>1. Len(m.body) \in Byte /\ m.type \in Byte
      BY <1>7, MessageParts
    <2>2. QED
      BY <2>1, <1>10 DEF app_msg_header
  <1>12. MeshTypeOK'
    BY <1>1, <1>9, <1>11 DEF MeshInv, MeshTypeOK
  <1>13. RecvKnows'
    BY <1>1, <1>3, <1>5, <1>10 DEF RecvKnows, r
  <1>14. QED
    BY <1>2, <1>12, <1>13 DEF MeshInv

(* A whole frame is there, whose body fits the buffer. *)
LEMMA FrameReadyInv == ASSUME MeshInv, frame_ready PROVE MeshInv'
  <1>1. /\ cpc = "whole" /\ UNCHANGED <<pipe, out, hdr, posted, received>>
        /\ cpc' = CASE Len(pipe) < mesh_frame_size(hdr.size) -> "idle"
                    [] hdr.size > BodyCap -> "trap"
                    [] OTHER -> "header"
    BY DEF frame_ready
  <1>2. /\ Len(received) + 1 <= Len(posted)
        /\ hdr.size = Len(posted[Len(received) + 1].body)
    BY <1>1 DEF MeshInv, RecvKnows
  <1>3. posted[Len(received) + 1] \in Message
    BY <1>2, MeshFacts
  <1>4. hdr.size \in Nat /\ hdr.size <= BodyCap /\ BodyCap \in Nat
    BY <1>2, <1>3, MessageParts, MeshAssumption
  <1>5. cpc' \in {"idle", "header"}
    BY <1>1, <1>4
  <1>6. ReceivedSoFar' /\ Framed'
    BY <1>1, <1>5, LookInv
  <1>7. MeshTypeOK' /\ RecvKnows'
    BY <1>1, <1>5 DEF MeshInv, MeshTypeOK, RecvKnows
  <1>8. QED
    BY <1>6, <1>7 DEF MeshInv

(* The next message is handed back whole. *)
LEMMA DeliverInv ==
    ASSUME MeshInv, NEW m, Len(received) < Len(posted), m = posted[Len(received) + 1],
           UNCHANGED posted, received' = Append(received, m), hdr' = NoHeader, cpc' = "idle",
           NEW n \in Nat, n <= Len(pipe),
           out' = SubSeq(pipe, 1, n), pipe' = SubSeq(pipe, n + 1, Len(pipe)),
           CanBeCut(pipe', posted, Len(received) + 1, 0)
    PROVE  MeshInv'
  <1>1. /\ pipe \in Seq(Byte) /\ posted \in Seq(Message) /\ received \in Seq(Message)
        /\ Len(pipe) \in Nat /\ Len(posted) \in Nat /\ Len(received) \in Nat
        /\ Len(received) <= Len(posted) /\ Len(pipe) <= N /\ N \in Nat
    BY MeshFacts
  <1>2. m \in Message
    BY <1>1
  <1>3. /\ received' \in Seq(Message) /\ Len(received') = Len(received) + 1
        /\ received'[Len(received) + 1] = m
        /\ \A i \in 1..Len(received) : received'[i] = received[i]
    BY <1>1, <1>2
  <1>4. n \in 0..Len(pipe)
    BY <1>1
  <1>5. pipe' \in Seq(Byte) /\ Len(pipe') = Len(pipe) - n /\ out' \in Seq(Byte)
    BY <1>1, <1>4, CutOffFacts
  <1>6. MeshTypeOK'
    <2>1. Len(pipe') <= N
      BY <1>1, <1>5
    <2>2. hdr' \in app_msg_header
      BY MeshAssumption DEF NoHeader, app_msg_header
    <2>3. QED
      BY <2>1, <2>2, <1>3, <1>5 DEF MeshInv, MeshTypeOK
  <1>7. ReceivedSoFar'
    <2>1. Len(received') <= Len(posted')
      BY <1>1, <1>3
    <2>2. ASSUME NEW i \in 1..Len(received') PROVE received'[i] = posted'[i]
      <3>1. i \in 1..Len(received) \/ i = Len(received) + 1
        BY <1>1, <1>3
      <3>2. QED
        BY <3>1, <1>3 DEF MeshInv, ReceivedSoFar
    <2>3. QED
      BY <2>1, <2>2 DEF ReceivedSoFar
  <1>8. RecvKnows'
    BY DEF RecvKnows
  <1>9. Framed'
    BY <1>3 DEF Framed
  <1>10. QED
    BY <1>6, <1>7, <1>8, <1>9 DEF MeshInv

(* What a take of n symbols from the pipe leaves. *)
LEMMA TakeFacts ==
    ASSUME MeshInv, NEW n \in Nat, n <= Len(pipe), pipe' = SubSeq(pipe, n + 1, Len(pipe))
    PROVE  Taken(pipe, pipe', n)
  <1>1. pipe \in Seq(Byte) /\ n \in 0..Len(pipe) /\ Len(pipe) \in Nat
    BY MeshFacts
  <1>2. /\ Len(pipe') = Len(pipe) - n
        /\ \A x \in 1..(Len(pipe) - n) : pipe'[x] = pipe[n + x]
    BY <1>1, CutOffFacts
  <1>3. Len(pipe') \in Nat
    BY <1>1, <1>2
  <1>4. QED
    BY <1>1, <1>2, <1>3 DEF Taken

(* The header leaves the pipe; its body stays, or is empty. *)
LEMMA DequeueHeaderInv == ASSUME MeshInv, dequeue_header PROVE MeshInv'
  <1> DEFINE r == Len(received)
             m == posted[r + 1]
  <1>1. /\ cpc = "header" /\ UNCHANGED posted /\ 2 <= Len(pipe)
        /\ out' = SubSeq(pipe, 1, 2) /\ pipe' = SubSeq(pipe, 2 + 1, Len(pipe))
    BY DEF dequeue_header, Pipe!Take, k_hdr
  <1>2. /\ pipe \in Seq(Byte) /\ posted \in Seq(Message) /\ r \in Nat
        /\ Len(pipe) \in Nat /\ Len(posted) \in Nat
    BY MeshFacts
  <1>3. r + 1 <= Len(posted) /\ hdr = [size |-> Len(m.body), type |-> m.type]
    BY <1>1 DEF MeshInv, RecvKnows
  <1>4. r < Len(posted)
    BY <1>2, <1>3
  <1>5. CanBeCut(pipe, posted, r, 0)
    BY <1>1 DEF MeshInv, Framed
  <1>6. PICK c \in [r..Len(posted) -> (-k_hdr)..Len(pipe)] : IsCut(pipe, posted, r, 0, c)
    BY <1>5 DEF CanBeCut
  <1>7. m \in Message /\ c[r + 1] = 0 + (2 + Len(m.body))
    BY <1>2, <1>4, <1>6, FirstFrame
  <1>8. c[r] = 0
    BY <1>6 DEF IsCut
  <1>9. Taken(pipe, pipe', 2)
    BY <1>1, TakeFacts
  <1>10. CASE hdr.size = 0
    <2>1. received' = Append(received, [type |-> hdr.type, body |-> << >>])
          /\ hdr' = NoHeader /\ cpc' = "idle"
      BY <1>10 DEF dequeue_header, Deliver
    <2>2. Len(m.body) = 0 /\ m.body \in Seq(Byte)
      BY <1>3, <1>7, <1>10, MessageParts
    <2>3. m.body = << >>
      BY <2>2, EmptySeq
    <2>4. [type |-> hdr.type, body |-> << >>] = m
      BY <1>3, <1>7, <2>3 DEF Message
    <2>5. r + 1 \in r..Len(posted) /\ c[r + 1] - 2 = 0
      BY <1>2, <1>4, <1>7, <2>2
    <2>6. CanBeCut(pipe', posted, r + 1, 0)
      <3>1. c[r + 1] - 2 >= -2
        BY <2>5
      <3>2. CanBeCut(pipe', posted, r + 1, c[r + 1] - 2)
        BY <2>5, <3>1, <1>2, <1>6, <1>9, CutTaken
      <3>3. QED
        BY <2>5, <3>2
    <2>7. received' = Append(received, m)
      BY <2>1, <2>4
    <2>8. QED
      BY <1>1, <1>4, <2>1, <2>6, <2>7, DeliverInv
  <1>11. CASE hdr.size # 0
    <2>1. cpc' = "body" /\ UNCHANGED <<hdr, received>>
      BY <1>11 DEF dequeue_header
    <2>2. r \in r..Len(posted) /\ c[r] - 2 = -2
      BY <1>2, <1>4, <1>8
    <2>3. CanBeCut(pipe', posted, r, -2)
      <3>1. c[r] - 2 >= -2
        BY <2>2
      <3>2. CanBeCut(pipe', posted, r, c[r] - 2)
        BY <2>2, <3>1, <1>2, <1>6, <1>9, CutTaken
      <3>3. QED
        BY <2>2, <3>2
    <2>4. Framed'
      BY <1>1, <2>1, <2>3 DEF Framed, k_hdr
    <2>5. pipe' \in Seq(Byte) /\ out' \in Seq(Byte)
      <3>1. 2 \in 0..Len(pipe)
        BY <1>1, <1>2
      <3>2. QED
        BY <3>1, <1>1, <1>2, CutOffFacts
    <2>6. Len(pipe') <= N
      BY <1>2, <1>9, MeshFacts DEF Taken
    <2>7. MeshTypeOK'
      BY <1>1, <2>1, <2>5, <2>6 DEF MeshInv, MeshTypeOK
    <2>8. ReceivedSoFar' /\ RecvKnows'
      BY <1>1, <2>1 DEF MeshInv, ReceivedSoFar, RecvKnows
    <2>9. QED
      BY <2>4, <2>7, <2>8 DEF MeshInv
  <1>12. QED
    BY <1>10, <1>11

(* The symbols up to the next frame are the body that was announced. *)
LEMMA DequeueBodyInv == ASSUME MeshInv, dequeue_body PROVE MeshInv'
  <1> DEFINE r == Len(received)
             m == posted[r + 1]
             n == hdr.size
  <1>1. /\ cpc = "body" /\ UNCHANGED posted /\ n <= Len(pipe)
        /\ out' = SubSeq(pipe, 1, n) /\ pipe' = SubSeq(pipe, n + 1, Len(pipe))
        /\ received' = Append(received, [type |-> hdr.type, body |-> out'])
        /\ hdr' = NoHeader /\ cpc' = "idle"
    BY DEF dequeue_body, Pipe!Take, Deliver
  <1>2. /\ pipe \in Seq(Byte) /\ posted \in Seq(Message) /\ r \in Nat
        /\ Len(pipe) \in Nat /\ Len(posted) \in Nat
    BY MeshFacts
  <1>3. r + 1 <= Len(posted) /\ hdr = [size |-> Len(m.body), type |-> m.type]
    BY <1>1 DEF MeshInv, RecvKnows
  <1>4. r < Len(posted)
    BY <1>2, <1>3
  <1>5. CanBeCut(pipe, posted, r, -2)
    BY <1>1 DEF MeshInv, Framed, k_hdr
  <1>6. PICK c \in [r..Len(posted) -> (-k_hdr)..Len(pipe)] : IsCut(pipe, posted, r, -2, c)
    BY <1>5 DEF CanBeCut
  <1>7. /\ m \in Message /\ IsFrame(pipe, m, -2, c[r + 1])
        /\ c[r + 1] = -2 + (2 + Len(m.body))
    BY <1>2, <1>4, <1>6, FirstFrame
  <1>8. m.body \in Seq(Byte) /\ Len(m.body) \in Nat
    BY <1>7, MessageParts
  <1>9. n = Len(m.body) /\ n \in Nat /\ hdr.type = m.type
    BY <1>3, <1>8
  <1>10. \A k \in 1..Len(m.body) : pipe[-2 + 2 + k] = m.body[k]
    BY <1>7, FrameIs
  <1> HIDE DEF n
  <1>11. \A k \in 1..n : pipe[k] = m.body[k]
    BY <1>9, <1>10
  <1>12. out' \in Seq(Byte) /\ Len(out') = n /\ \A k \in 1..n : out'[k] = pipe[k]
    <2>1. n \in 0..Len(pipe)
      BY <1>1, <1>2, <1>9
    <2>2. QED
      BY <2>1, <1>1, <1>2, CutOffFacts
  <1>13. out' = m.body
    <2> DEFINE o == out'
               b == m.body
    <2>1. /\ o \in Seq(Byte) /\ b \in Seq(Byte) /\ Len(o) = Len(b)
          /\ \A k \in 1..Len(o) : o[k] = b[k]
      BY <1>8, <1>9, <1>11, <1>12
    <2> HIDE DEF o, b
    <2>2. o = b
      BY ONLY <2>1, SeqEqual
    <2>3. QED
      BY <2>2 DEF o, b
  <1>14. [type |-> hdr.type, body |-> out'] = m
    BY <1>7, <1>9, <1>13 DEF Message
  <1>15. Taken(pipe, pipe', n)
    BY <1>1, <1>9, TakeFacts
  <1>16. r + 1 \in r..Len(posted) /\ c[r + 1] - n = 0
    BY <1>2, <1>4, <1>7, <1>8, <1>9
  <1>17. CanBeCut(pipe', posted, r + 1, 0)
    <2>1. c[r + 1] - n >= -2
      BY <1>16
    <2>2. CanBeCut(pipe', posted, r + 1, c[r + 1] - n)
      BY <2>1, <1>2, <1>6, <1>15, <1>16, CutTaken
    <2>3. QED
      BY <1>16, <2>2
  <1>18. received' = Append(received, m)
    BY <1>1, <1>14
  <1>19. QED
    BY <1>1, <1>4, <1>9, <1>17, <1>18, DeliverInv

(* Every step of the producer and of the consumer. *)
LEMMA StepMeshInv == MeshInv /\ [MeshNext]_mesh_vars => MeshInv'
  <1> SUFFICES ASSUME MeshInv, [MeshNext]_mesh_vars PROVE MeshInv'
    OBVIOUS
  <1>1. CASE UNCHANGED mesh_vars
    BY <1>1 DEF mesh_vars, MeshInv, MeshTypeOK, ReceivedSoFar, RecvKnows, Framed
  <1>2. CASE Quiet
    BY <1>1, <1>2 DEF Quiet
  <1>3. CASE mesh_try_recv
    BY <1>3, HeaderReadyInv, PeekInv, FrameReadyInv, DequeueHeaderInv, DequeueBodyInv
    DEF mesh_try_recv
  <1>4. QED
    BY <1>1, <1>2, <1>3, PostInv DEF MeshNext

(* The pipe holds whole frames, of the messages posted and not received. *)
THEOREM MeshInvariance == MeshSpec => []MeshInv
  BY InitMeshInv, StepMeshInv, PTL DEF MeshSpec

(* mesh.h: for every capacity of the pipe, every set of messages and every *)
(* interleaving of mesh_post with the steps of mesh_try_recv, what is      *)
(* received is a prefix of what was posted and the size check on a peeked  *)
(* header never fires.                                                     *)
THEOREM MessagesStayWhole == MeshSpec => []DeliveredInOrder
  <1>1. MeshInv => DeliveredInOrder
    <2> SUFFICES ASSUME MeshInv PROVE DeliveredInOrder
      OBVIOUS
    <2> DEFINE r == Len(received)
               a == SubSeq(received, 1, r)
               b == SubSeq(posted, 1, r)
    <2>1. /\ received \in Seq(Message) /\ posted \in Seq(Message)
          /\ r \in Nat /\ r \in 0..Len(posted) /\ r \in 0..Len(received)
          /\ \A i \in 1..r : received[i] = posted[i]
      BY MeshFacts DEF MeshInv, ReceivedSoFar
    <2>2. a \in Seq(Message) /\ Len(a) = r /\ \A i \in 1..r : a[i] = received[i]
      BY <2>1, CutOffFacts
    <2>3. b \in Seq(Message) /\ Len(b) = r /\ \A i \in 1..r : b[i] = posted[i]
      BY <2>1, CutOffFacts
    <2> HIDE DEF a, b
    <2>4. /\ a \in Seq(Message) /\ b \in Seq(Message) /\ Len(a) = Len(b)
          /\ \A i \in 1..Len(a) : a[i] = b[i]
      BY <2>1, <2>2, <2>3
    <2>5. a = b
      BY ONLY <2>4, SeqEqual
    <2>6. IsPrefix(received, posted)
      BY <2>5, MeshFacts DEF IsPrefix, a, b
    <2>7. QED
      BY <2>6 DEF MeshInv, RecvKnows, DeliveredInOrder
  <1>2. QED
    BY <1>1, MeshInvariance, PTL

(***************************************************************************)
(* Mutexes and guards                                                      *)
(***************************************************************************)
(* One object more owns a mutex that was free. *)
LEMMA Acquired ==
    ASSUME LocksTypeOK, HeldOnce, NEW t \in Thr, NEW m \in Mtx, NEW o,
           mutex_lock(t, m),
           Owners(t, m)' = Owners(t, m) \cup {o},
           \A s \in Thr, n \in Mtx : s # t \/ n # m => Owners(s, n)' = Owners(s, n)
    PROVE  HeldOnce'
  <1>1. holder' = [holder EXCEPT ![m] = t] /\ holder[m] = None
    BY DEF mutex_lock
  <1>2. \A s \in Thr : Owners(s, m) = {}
    BY <1>1, LocksAssumption DEF HeldOnce
  <1>3. ASSUME NEW s \in Thr, NEW n \in Mtx
        PROVE  IF holder'[n] = s THEN \E p \in Owners(s, n)' : Owners(s, n)' = {p}
                                 ELSE Owners(s, n)' = {}
    <2>1. CASE s = t /\ n = m
      BY <2>1, <1>1, <1>2 DEF LocksTypeOK
    <2>2. CASE n = m /\ s # t
      BY <2>2, <1>1, <1>2 DEF LocksTypeOK
    <2>3. CASE n # m
      BY <2>3, <1>1 DEF LocksTypeOK, HeldOnce
    <2>4. QED
      BY <2>1, <2>2, <2>3
  <1>4. QED
    BY <1>3 DEF HeldOnce

(* The only owner of a mutex unlocks it. *)
LEMMA LetGo ==
    ASSUME LocksTypeOK, HeldOnce, NEW t \in Thr, NEW m \in Mtx,
           NEW o \in Owners(t, m),
           holder' = mutex_unlock(holder, m),
           Owners(t, m)' = Owners(t, m) \ {o},
           \A s \in Thr, n \in Mtx : s # t \/ n # m => Owners(s, n)' = Owners(s, n)
    PROVE  HeldOnce'
  <1>1. holder' = [holder EXCEPT ![m] = None]
    BY DEF mutex_unlock
  <1>2. holder[m] = t /\ Owners(t, m) = {o}
    BY DEF HeldOnce
  <1>3. ASSUME NEW s \in Thr, NEW n \in Mtx
        PROVE  IF holder'[n] = s THEN \E p \in Owners(s, n)' : Owners(s, n)' = {p}
                                 ELSE Owners(s, n)' = {}
    <2>1. CASE s = t /\ n = m
      BY <2>1, <1>1, <1>2, LocksAssumption DEF LocksTypeOK
    <2>2. CASE n = m /\ s # t
      BY <2>2, <1>1, <1>2, LocksAssumption DEF LocksTypeOK, HeldOnce
    <2>3. CASE n # m
      BY <2>3, <1>1 DEF LocksTypeOK, HeldOnce
    <2>4. QED
      BY <2>1, <2>2, <2>3
  <1>4. QED
    BY <1>3 DEF HeldOnce

(* A mutex passes from one object of a thread to another, or nothing       *)
(* happens to it.                                                          *)
LEMMA Kept ==
    ASSUME HeldOnce, UNCHANGED holder,
           \A s \in Thr, n \in Mtx :
              Owners(s, n)' = Owners(s, n)
              \/ \E o \in Owners(s, n) : \E p : Owners(s, n)' = (Owners(s, n) \ {o}) \cup {p}
    PROVE  HeldOnce'
  <1>1. ASSUME NEW s \in Thr, NEW n \in Mtx
        PROVE  IF holder'[n] = s THEN \E p \in Owners(s, n)' : Owners(s, n)' = {p}
                                 ELSE Owners(s, n)' = {}
    <2>1. CASE Owners(s, n)' = Owners(s, n)
      BY <2>1 DEF HeldOnce
    <2>2. ASSUME NEW o \in Owners(s, n), NEW p, Owners(s, n)' = (Owners(s, n) \ {o}) \cup {p}
          PROVE  holder'[n] = s /\ Owners(s, n)' = {p}
      BY <2>2 DEF HeldOnce
    <2>3. QED
      BY <2>1, <2>2
  <1>2. QED
    BY <1>1 DEF HeldOnce

(* Variable i of thread t owns m. *)
Mine(t, i, m) == ul[t][i].owns /\ ul[t][i].mtx = m

(* The guard and the bare pointers of a thread are left alone. *)
RestKept(t) == guard'[t] = guard[t] /\ raw'[t] = raw[t]

(* The variables of a thread that own a mutex, before and after. *)
LEMMA OwnersByVar ==
    ASSUME NEW t \in Thr, NEW m \in Mtx
    PROVE  /\ \A i \in Var : i \in Owners(t, m) <=> Mine(t, i, m)
           /\ \A i \in Var : i \in Owners(t, m)' <=> Mine(t, i, m)'
           /\ RestKept(t) => \A o : o \notin Var =>
                               (o \in Owners(t, m)' <=> o \in Owners(t, m))
  <1>1. \A i \in Var : i # <<"guard", t>> /\ i # <<"raw", t>>
    BY LocksAssumption
  <1>2. m # None
    BY LocksAssumption
  <1>3. QED
    BY <1>1, <1>2 DEF Owners, Owned, Mine, RestKept

(* All that may own a mutex, before and after. *)
LEMMA OwnersAre ==
    ASSUME NEW t \in Thr, NEW m \in Mtx
    PROVE  /\ \A o : o \in Owners(t, m) <=>
                       \/ o \in Var /\ Mine(t, o, m)
                       \/ o = <<"guard", t>> /\ guard[t] = m
                       \/ o = <<"raw", t>> /\ m \in raw[t]
           /\ \A o : o \in Owners(t, m)' <=>
                       \/ o \in Var /\ Mine(t, o, m)'
                       \/ o = <<"guard", t>> /\ guard'[t] = m
                       \/ o = <<"raw", t>> /\ m \in raw'[t]
  <1>1. m # None
    BY LocksAssumption
  <1>2. QED
    BY <1>1 DEF Owners, Owned, Mine

(* A mutex no variable gained or lost. *)
LEMMA SameOwners ==
    ASSUME NEW t \in Thr, NEW m \in Mtx, RestKept(t),
           \A i \in Var : Mine(t, i, m)' <=> Mine(t, i, m)
    PROVE  Owners(t, m)' = Owners(t, m)
  <1>1. \A o : o \in Owners(t, m)' <=> o \in Owners(t, m)
    BY OwnersByVar
  <1>2. QED
    BY <1>1

(* A mutex one variable lost. *)
LEMMA LostOwner ==
    ASSUME NEW t \in Thr, NEW m \in Mtx, NEW i \in Var, RestKept(t), ~Mine(t, i, m)',
           \A j \in Var : j # i => (Mine(t, j, m)' <=> Mine(t, j, m))
    PROVE  Owners(t, m)' = Owners(t, m) \ {i}
  <1>1. \A o : o \in Owners(t, m)' <=> o \in Owners(t, m) /\ o # i
    BY OwnersByVar
  <1>2. QED
    BY <1>1

(* A mutex one variable gained. *)
LEMMA GainedOwner ==
    ASSUME NEW t \in Thr, NEW m \in Mtx, NEW i \in Var, RestKept(t), Mine(t, i, m)',
           \A j \in Var : j # i => (Mine(t, j, m)' <=> Mine(t, j, m))
    PROVE  Owners(t, m)' = Owners(t, m) \cup {i}
  <1>1. \A o : o \in Owners(t, m)' <=> o \in Owners(t, m) \/ o = i
    BY OwnersByVar
  <1>2. QED
    BY <1>1

(* The owners of a thread that took no step are the same. *)
LEMMA OthersKept ==
    ASSUME NEW t \in Thr,
           \A s \in Thr : s # t => ul'[s] = ul[s] /\ RestKept(s)
    PROVE  \A s \in Thr, n \in Mtx : s # t => Owners(s, n)' = Owners(s, n)
  BY DEF Owners, Owned, RestKept

(* A step of a thread on one of its variables leaves all other variables   *)
(* alone: what is left to show of the mutexes.                             *)
LEMMA OnlyVar ==
    ASSUME LocksTypeOK, NEW t \in Thr, NEW i \in Var, NEW l,
           ul' = [ul EXCEPT ![t][i] = l], UNCHANGED <<guard, raw>>
    PROVE  /\ \A s \in Thr : RestKept(s)
           /\ \A s \in Thr, n \in Mtx : s # t => Owners(s, n)' = Owners(s, n)
           /\ \A j \in Var, n \in Mtx : j # i => (Mine(t, j, n)' <=> Mine(t, j, n))
           /\ \A n \in Mtx : Mine(t, i, n)' <=> l.owns /\ l.mtx = n
  <1>1. \A s \in Thr : RestKept(s)
    BY DEF RestKept
  <1>2. \A s \in Thr : s # t => ul'[s] = ul[s]
    BY DEF LocksTypeOK
  <1>3. \A s \in Thr, n \in Mtx : s # t => Owners(s, n)' = Owners(s, n)
    BY <1>1, <1>2, OthersKept
  <1>4. \A j \in Var : j # i => ul'[t][j] = ul[t][j]
    BY DEF LocksTypeOK
  <1>5. ul'[t][i] = l
    BY DEF LocksTypeOK
  <1>6. QED
    BY <1>1, <1>3, <1>4, <1>5 DEF Mine

(* Nothing happens. *)
LEMMA LocksStutter ==
    ASSUME LocksInv, UNCHANGED locks_vars
    PROVE  LocksInv'
  BY DEF LocksInv, locks_vars, LocksTypeOK, OwnsAMutex, HeldOnce, Owners, Owned, RwExact

(* A variable that owned nothing locks a mutex. *)
LEMMA VarGains ==
    ASSUME LocksTypeOK, HeldOnce, NEW t \in Thr, NEW i \in Var, NEW l, NEW m \in Mtx,
           ul' = [ul EXCEPT ![t][i] = l], UNCHANGED <<guard, raw>>,
           ~ul[t][i].owns, l.owns, l.mtx = m, mutex_lock(t, m)
    PROVE  HeldOnce'
  <1>1. /\ \A s \in Thr : RestKept(s)
        /\ \A s \in Thr, n \in Mtx : s # t => Owners(s, n)' = Owners(s, n)
        /\ \A j \in Var, n \in Mtx : j # i => (Mine(t, j, n)' <=> Mine(t, j, n))
        /\ \A n \in Mtx : Mine(t, i, n)' <=> l.owns /\ l.mtx = n
    BY OnlyVar
  <1>2. \A n \in Mtx : ~Mine(t, i, n)
    BY DEF Mine
  <1>3. Owners(t, m)' = Owners(t, m) \cup {i}
    <2>1. RestKept(t) /\ Mine(t, i, m)'
      BY <1>1
    <2>2. \A j \in Var : j # i => (Mine(t, j, m)' <=> Mine(t, j, m))
      BY <1>1
    <2>3. QED
      BY <2>1, <2>2, GainedOwner
  <1>4. ASSUME NEW n \in Mtx, n # m
        PROVE  Owners(t, n)' = Owners(t, n)
    <2>1. RestKept(t) /\ \A j \in Var : Mine(t, j, n)' <=> Mine(t, j, n)
      BY <1>1, <1>2, <1>4
    <2>2. QED
      BY <2>1, SameOwners
  <1>5. \A s \in Thr, n \in Mtx : s # t \/ n # m => Owners(s, n)' = Owners(s, n)
    BY <1>1, <1>4
  <1>6. QED
    BY <1>3, <1>5, Acquired

(* A variable lets go of what it owned, if anything. *)
LEMMA VarLoses ==
    ASSUME LocksTypeOK, OwnsAMutex, HeldOnce, NEW t \in Thr, NEW i \in Var, NEW l,
           ul' = [ul EXCEPT ![t][i] = l], UNCHANGED <<guard, raw>>,
           ~l.owns, holder' = let_go(holder, ul[t][i])
    PROVE  HeldOnce'
  <1>1. /\ \A s \in Thr : RestKept(s)
        /\ \A s \in Thr, n \in Mtx : s # t => Owners(s, n)' = Owners(s, n)
        /\ \A j \in Var, n \in Mtx : j # i => (Mine(t, j, n)' <=> Mine(t, j, n))
        /\ \A n \in Mtx : Mine(t, i, n)' <=> l.owns /\ l.mtx = n
    BY OnlyVar
  <1>2. ASSUME NEW n \in Mtx, ~Mine(t, i, n)
        PROVE  Owners(t, n)' = Owners(t, n)
    <2>1. RestKept(t) /\ \A j \in Var : Mine(t, j, n)' <=> Mine(t, j, n)
      BY <1>1, <1>2
    <2>2. QED
      BY <2>1, SameOwners
  <1>3. CASE Owned(ul[t][i])
    <2>1. PICK m \in Mtx : m = ul[t][i].mtx
      BY <1>3 DEF LocksTypeOK, Owned
    <2>2. holder' = mutex_unlock(holder, m)
      BY <1>3, <2>1 DEF let_go
    <2>3. Mine(t, i, m) /\ \A n \in Mtx : n # m => ~Mine(t, i, n)
      BY <1>3, <2>1 DEF Mine, Owned
    <2>4. i \in Owners(t, m)
      BY <2>3, OwnersByVar
    <2>5. Owners(t, m)' = Owners(t, m) \ {i}
      <3>1. RestKept(t) /\ ~Mine(t, i, m)'
        BY <1>1
      <3>2. \A j \in Var : j # i => (Mine(t, j, m)' <=> Mine(t, j, m))
        BY <1>1
      <3>3. QED
        BY <3>1, <3>2, LostOwner
    <2>6. \A s \in Thr, n \in Mtx : s # t \/ n # m => Owners(s, n)' = Owners(s, n)
      BY <1>1, <1>2, <2>3
    <2>7. QED
      BY <2>2, <2>4, <2>5, <2>6, LetGo
  <1>4. CASE ~Owned(ul[t][i])
    <2>1. UNCHANGED holder
      BY <1>4 DEF let_go
    <2>2. \A n \in Mtx : ~Mine(t, i, n)
      BY <1>4 DEF OwnsAMutex, Owned, Mine
    <2>3. \A s \in Thr, n \in Mtx : Owners(s, n)' = Owners(s, n)
      BY <2>2, <1>1, <1>2
    <2>4. QED
      BY <2>1, <2>3, Kept
  <1>5. QED
    BY <1>3, <1>4

(* Only the shared_mutex is touched, or only it is left alone. *)
LEMMA RwKept == ASSUME RwExact, UNCHANGED <<rw, hold>> PROVE RwExact'
  BY DEF RwExact

(* A unique_lock constructed, with a mutex or without. *)
LEMMA UniqueLockInv ==
    ASSUME LocksInv, NEW t \in Thr, NEW i \in Var, unique_lock(t, i)
    PROVE  LocksInv'
  <1>1. UNCHANGED <<guard, raw, rw, hold>> /\ ~ul[t][i].owns
    BY DEF LocksInv, OwnsAMutex, unique_lock
  <1>2. RwExact'
    BY <1>1, RwKept DEF LocksInv
  <1>3. CASE ul' = [ul EXCEPT ![t][i] = Empty] /\ UNCHANGED holder
    <2>1. LocksTypeOK' /\ OwnsAMutex'
      BY <1>1, <1>3 DEF LocksInv, LocksTypeOK, OwnsAMutex, Empty
    <2>2. holder' = let_go(holder, ul[t][i]) /\ ~Empty.owns
      BY <1>1, <1>3 DEF let_go, Owned, Empty
    <2>3. HeldOnce'
      BY <1>1, <1>3, <2>2, VarLoses DEF LocksInv
    <2>4. QED
      BY <2>1, <2>3, <1>2 DEF LocksInv
  <1>4. ASSUME NEW m \in Mtx, mutex_lock(t, m),
               ul' = [ul EXCEPT ![t][i] = [live |-> TRUE, mtx |-> m, owns |-> TRUE]]
        PROVE  LocksInv'
    <2>1. LocksTypeOK' /\ OwnsAMutex'
      BY <1>1, <1>4, LocksAssumption DEF LocksInv, LocksTypeOK, OwnsAMutex, mutex_lock
    <2> DEFINE l == [live |-> TRUE, mtx |-> m, owns |-> TRUE]
    <2>2. l.owns /\ l.mtx = m /\ ul' = [ul EXCEPT ![t][i] = l]
      BY <1>4
    <2> HIDE DEF l
    <2>3. HeldOnce'
      BY <1>1, <1>4, <2>2, VarGains DEF LocksInv
    <2>4. QED
      BY <2>1, <2>3, <1>2 DEF LocksInv
  <1>5. QED
    BY <1>3, <1>4 DEF unique_lock

(* A destroyed unique_lock unlocks what it owned. *)
LEMMA DestroyInv ==
    ASSUME LocksInv, NEW t \in Thr, NEW i \in Var, destroy_unique_lock(t, i)
    PROVE  LocksInv'
  <1>1. LocksTypeOK' /\ OwnsAMutex'
    BY DEF LocksInv, LocksTypeOK, OwnsAMutex, destroy_unique_lock, let_go, mutex_unlock, Unset
  <1>2. RwExact'
    BY RwKept DEF LocksInv, destroy_unique_lock
  <1>3. /\ ul' = [ul EXCEPT ![t][i] = Unset] /\ UNCHANGED <<guard, raw>>
        /\ ~Unset.owns /\ holder' = let_go(holder, ul[t][i])
    BY DEF destroy_unique_lock, Unset
  <1>4. HeldOnce'
    BY <1>3, VarLoses DEF LocksInv
  <1>5. QED
    BY <1>1, <1>2, <1>4 DEF LocksInv

(* lock() on a unique_lock bound to a mutex that is free. *)
LEMMA LockInv ==
    ASSUME LocksInv, NEW t \in Thr, NEW i \in Var, lock(t, i)
    PROVE  LocksInv'
  <1> DEFINE l == [ul[t][i] EXCEPT !.owns = TRUE]
  <1>1. PICK m \in Mtx : m = ul[t][i].mtx
    BY DEF LocksInv, LocksTypeOK, lock
  <1>2. /\ ul' = [ul EXCEPT ![t][i] = l] /\ UNCHANGED <<guard, raw, rw, hold>>
        /\ ~ul[t][i].owns /\ mutex_lock(t, m)
    BY <1>1 DEF LocksInv, LocksTypeOK, lock
  <1>3. l.owns /\ l.mtx = m /\ l.live = ul[t][i].live
        /\ l \in [live : BOOLEAN, mtx : Mtx \cup {None}, owns : BOOLEAN]
    <2>1. ul[t][i] \in [live : BOOLEAN, mtx : Mtx \cup {None}, owns : BOOLEAN]
      BY DEF LocksInv, LocksTypeOK
    <2>2. QED
      BY <2>1, <1>1
  <1> HIDE DEF l
  <1>4. LocksTypeOK' /\ OwnsAMutex'
    BY <1>1, <1>2, <1>3, LocksAssumption DEF LocksInv, LocksTypeOK, OwnsAMutex, mutex_lock
  <1>5. HeldOnce'
    BY <1>2, <1>3, VarGains DEF LocksInv
  <1>6. RwExact'
    BY <1>2, RwKept DEF LocksInv
  <1>7. QED
    BY <1>4, <1>5, <1>6 DEF LocksInv

(* unlock() of a lock that is owned. *)
LEMMA UnlockInv ==
    ASSUME LocksInv, NEW t \in Thr, NEW i \in Var, unlock(t, i)
    PROVE  LocksInv'
  <1> DEFINE l == [ul[t][i] EXCEPT !.owns = FALSE]
  <1>1. /\ ul' = [ul EXCEPT ![t][i] = l] /\ UNCHANGED <<guard, raw, rw, hold>>
        /\ holder' = let_go(holder, ul[t][i])
    BY DEF LocksInv, LocksTypeOK, unlock, let_go
  <1>2. ~l.owns /\ l.mtx = ul[t][i].mtx /\ l.live = ul[t][i].live
        /\ l \in [live : BOOLEAN, mtx : Mtx \cup {None}, owns : BOOLEAN]
    <2>1. ul[t][i] \in [live : BOOLEAN, mtx : Mtx \cup {None}, owns : BOOLEAN]
      BY DEF LocksInv, LocksTypeOK
    <2>2. QED
      BY <2>1
  <1> HIDE DEF l
  <1>3. LocksTypeOK' /\ OwnsAMutex'
    BY <1>1, <1>2 DEF LocksInv, LocksTypeOK, OwnsAMutex, let_go, mutex_unlock
  <1>4. HeldOnce'
    BY <1>1, <1>2, VarLoses DEF LocksInv
  <1>5. RwExact'
    BY <1>1, RwKept DEF LocksInv
  <1>6. QED
    BY <1>3, <1>4, <1>5 DEF LocksInv

(* try_lock(), refused or not. *)
LEMMA TryLockInv ==
    ASSUME LocksInv, NEW t \in Thr, NEW i \in Var, try_lock(t, i)
    PROVE  LocksInv'
  <1> DEFINE v == ul[t][i]
             ok == v.mtx # None /\ ~v.owns /\ holder[v.mtx] = None
  <1>1. CASE ok
    <2>1. lock(t, i)
      <3>1. holder' = [holder EXCEPT ![v.mtx] = t] /\ UNCHANGED <<guard, raw, rw, hold>>
        BY <1>1 DEF try_lock
      <3>2. ul' = [ul EXCEPT ![t][i].owns = TRUE]
        BY <1>1 DEF try_lock
      <3>3. QED
        BY <1>1, <3>1, <3>2 DEF lock, mutex_lock
    <2>2. QED
      BY <2>1, LockInv
  <1>2. CASE ~ok
    <2>1. UNCHANGED <<holder, guard, raw, rw, hold>>
      BY <1>2 DEF try_lock
    <2>2. /\ ul \in [Thr -> [Var -> [live : BOOLEAN, mtx : Mtx \cup {None}, owns : BOOLEAN]]]
          /\ ul[t][i].owns \in BOOLEAN
      BY DEF LocksInv, LocksTypeOK
    <2>3. ul' = ul
      <3>1. (ul[t][i].owns \/ ok) = ul[t][i].owns
        BY <1>2, <2>2
      <3>2. ul' = [ul EXCEPT ![t][i].owns = ul[t][i].owns \/ ok]
        BY DEF try_lock
      <3> HIDE DEF ok
      <3>3. ul' = [ul EXCEPT ![t][i].owns = ul[t][i].owns]
        BY <3>1, <3>2
      <3>4. [ul[t][i] EXCEPT !.owns = ul[t][i].owns] = ul[t][i]
        BY <2>2
      <3>5. QED
        BY <3>3, <3>4, <2>2
    <2>4. QED
      BY <2>1, <2>3, LocksStutter DEF locks_vars
  <1>3. QED
    BY <1>1, <1>2

(* release() hands the mutex, if any, to a bare pointer. *)
LEMMA ReleaseInv ==
    ASSUME LocksInv, NEW t \in Thr, NEW i \in Var, release(t, i)
    PROVE  LocksInv'
  <1>1. /\ UNCHANGED <<holder, guard, rw, hold>>
        /\ ul' = [ul EXCEPT ![t][i] = Empty]
        /\ raw' = [raw EXCEPT ![t] = IF Owned(ul[t][i]) THEN @ \cup {ul[t][i].mtx} ELSE @]
    BY DEF release
  <1>2. LocksTypeOK' /\ OwnsAMutex'
    <2>1. Owned(ul[t][i]) => ul[t][i].mtx \in Mtx
      BY DEF LocksInv, LocksTypeOK, Owned
    <2>2. raw' \in [Thr -> SUBSET Mtx]
      BY <1>1, <2>1 DEF LocksInv, LocksTypeOK
    <2>3. QED
      BY <1>1, <2>2 DEF LocksInv, LocksTypeOK, OwnsAMutex, Empty
  <1>3. ASSUME NEW s \in Thr, NEW n \in Mtx
        PROVE  \/ Owners(s, n)' = Owners(s, n)
               \/ \E o \in Owners(s, n) : \E p : Owners(s, n)' = (Owners(s, n) \ {o}) \cup {p}
    <2>1. guard'[s] = guard[s]
      BY <1>1
    <2>2. CASE s # t
      <3>1. ul'[s] = ul[s] /\ RestKept(s)
        BY <2>2, <1>1 DEF LocksInv, LocksTypeOK, RestKept
      <3>2. QED
        BY <3>1, SameOwners DEF Mine
    <2>3. CASE s = t /\ Mine(t, i, n)
      <3>1. Owned(ul[t][i]) /\ ul[t][i].mtx = n
        BY <2>3, LocksAssumption DEF Mine, Owned
      <3>2. raw'[t] = raw[t] \cup {n}
        BY <3>1, <1>1 DEF LocksInv, LocksTypeOK
      <3>3. \A j \in Var : Mine(t, j, n)' <=> Mine(t, j, n) /\ j # i
        BY <1>1 DEF LocksInv, LocksTypeOK, Mine, Empty
      <3>4. i # <<"guard", t>> /\ i # <<"raw", t>>
        BY LocksAssumption
      <3>5. i \in Owners(t, n)
        BY <2>3, OwnersAre
      <3>6. \A o : o \in Owners(t, n)' <=> (o \in Owners(t, n) /\ o # i) \/ o = <<"raw", t>>
        BY <2>1, <2>3, <3>2, <3>3, <3>4, OwnersAre
      <3>7. Owners(t, n)' = (Owners(t, n) \ {i}) \cup {<<"raw", t>>}
        BY <3>6
      <3>8. QED
        BY <2>3, <3>5, <3>7
    <2>4. CASE s = t /\ ~Mine(t, i, n)
      <3>1. n \in raw'[t] <=> n \in raw[t]
        BY <2>4, <1>1 DEF LocksInv, LocksTypeOK, Mine, Owned
      <3>2. \A j \in Var : Mine(t, j, n)' <=> Mine(t, j, n)
        BY <2>4, <1>1 DEF LocksInv, LocksTypeOK, Mine, Empty
      <3>3. \A o : o \in Owners(t, n)' <=> o \in Owners(t, n)
        BY <2>1, <2>4, <3>1, <3>2, OwnersAre
      <3>4. QED
        BY <2>4, <3>3
    <2>5. QED
      BY <2>2, <2>3, <2>4
  <1>4. HeldOnce'
    BY <1>1, <1>3, Kept DEF LocksInv
  <1>5. RwExact'
    BY <1>1, RwKept DEF LocksInv
  <1>6. QED
    BY <1>2, <1>4, <1>5 DEF LocksInv

(* The caller of release() unlocks the mutex it was handed. *)
LEMMA UnlockReleasedInv ==
    ASSUME LocksInv, NEW t \in Thr, unlock_released(t)
    PROVE  LocksInv'
  <1>1. PICK m \in raw[t] : /\ holder' = mutex_unlock(holder, m)
                            /\ raw' = [raw EXCEPT ![t] = @ \ {m}]
                            /\ UNCHANGED <<ul, guard, rw, hold>>
    BY DEF unlock_released
  <1>2. m \in Mtx
    BY DEF LocksInv, LocksTypeOK
  <1>3. LocksTypeOK' /\ OwnsAMutex'
    BY <1>1, <1>2 DEF LocksInv, LocksTypeOK, OwnsAMutex, mutex_unlock
  <1>4. \A s \in Thr, n \in Mtx : s # t \/ n # m => Owners(s, n)' = Owners(s, n)
    BY <1>1, <1>2 DEF LocksInv, LocksTypeOK, Owners
  <1>5. <<"raw", t>> \in Owners(t, m)
    BY <1>1, <1>2, OwnersAre
  <1>6. Owners(t, m)' = Owners(t, m) \ {<<"raw", t>>}
    <2>1. m \notin raw'[t] /\ guard' = guard /\ \A j \in Var : Mine(t, j, m)' <=> Mine(t, j, m)
      BY <1>1 DEF LocksInv, LocksTypeOK, Mine
    <2>2. <<"raw", t>> # <<"guard", t>> /\ <<"raw", t>> \notin Var
      BY LocksAssumption
    <2>3. \A o : o \in Owners(t, m)' <=> o \in Owners(t, m) /\ o # <<"raw", t>>
      BY <1>2, <2>1, <2>2, OwnersAre
    <2>4. QED
      BY <2>3
  <1>7. HeldOnce'
    BY <1>1, <1>2, <1>4, <1>5, <1>6, LetGo DEF LocksInv
  <1>8. RwExact'
    BY <1>1, RwKept DEF LocksInv
  <1>9. QED
    BY <1>3, <1>7, <1>8 DEF LocksInv

(* A lock_guard locks when it is constructed and unlocks when destroyed. *)
LEMMA LockGuardInv ==
    ASSUME LocksInv, NEW t \in Thr, lock_guard(t)
    PROVE  LocksInv'
  <1>1. UNCHANGED <<ul, raw, rw, hold>>
    BY DEF lock_guard
  <1>2. RwExact'
    BY <1>1, RwKept DEF LocksInv
  <1>3. <<"raw", t>> # <<"guard", t>> /\ <<"guard", t>> \notin Var
    BY LocksAssumption
  <1>4. ASSUME guard[t] = None, NEW m \in Mtx, mutex_lock(t, m),
               guard' = [guard EXCEPT ![t] = m]
        PROVE  LocksInv'
    <2>1. LocksTypeOK' /\ OwnsAMutex'
      BY <1>1, <1>4 DEF LocksInv, LocksTypeOK, OwnsAMutex, mutex_lock
    <2>2. \A s \in Thr, n \in Mtx : s # t \/ n # m => Owners(s, n)' = Owners(s, n)
      BY <1>1, <1>4, LocksAssumption DEF LocksInv, LocksTypeOK, Owners
    <2>3. guard'[t] = m /\ raw' = raw /\ \A j \in Var : Mine(t, j, m)' <=> Mine(t, j, m)
      BY <1>1, <1>4 DEF LocksInv, LocksTypeOK, Mine
    <2>4. \A o : o \in Owners(t, m)' <=> o \in Owners(t, m) \/ o = <<"guard", t>>
      BY <1>3, <2>3, OwnersAre
    <2>5. Owners(t, m)' = Owners(t, m) \cup {<<"guard", t>>}
      BY <2>4
    <2>6. HeldOnce'
      BY <1>4, <2>2, <2>5, Acquired DEF LocksInv
    <2>7. QED
      BY <2>1, <2>6, <1>2 DEF LocksInv
  <1>5. ASSUME guard[t] # None, holder' = mutex_unlock(holder, guard[t]),
               guard' = [guard EXCEPT ![t] = None]
        PROVE  LocksInv'
    <2>1. LocksTypeOK' /\ OwnsAMutex'
      BY <1>1, <1>5 DEF LocksInv, LocksTypeOK, OwnsAMutex, mutex_unlock
    <2>2. PICK m \in Mtx : m = guard[t]
      BY <1>5 DEF LocksInv, LocksTypeOK
    <2>3. \A s \in Thr, n \in Mtx : s # t \/ n # m => Owners(s, n)' = Owners(s, n)
      BY <1>1, <1>5, <2>2, LocksAssumption DEF LocksInv, LocksTypeOK, Owners
    <2>4. guard'[t] # m /\ raw' = raw /\ \A j \in Var : Mine(t, j, m)' <=> Mine(t, j, m)
      BY <1>1, <1>5, LocksAssumption DEF LocksInv, LocksTypeOK, Mine
    <2>5. \A o : o \in Owners(t, m)' <=> o \in Owners(t, m) /\ o # <<"guard", t>>
      BY <1>3, <2>4, OwnersAre
    <2>6. <<"guard", t>> \in Owners(t, m) /\ Owners(t, m)' = Owners(t, m) \ {<<"guard", t>>}
      BY <2>2, <2>5, OwnersAre
    <2>7. HeldOnce'
      BY <1>5, <2>2, <2>3, <2>6, LetGo DEF LocksInv
    <2>8. QED
      BY <2>1, <2>7, <1>2 DEF LocksInv
  <1>6. QED
    BY <1>4, <1>5 DEF lock_guard

(* Moving a lock: the target first lets go of what it owned. *)
LEMMA MoveInv ==
    ASSUME LocksInv, NEW t \in Thr, NEW i \in Var, NEW j \in Var, move(t, i, j)
    PROVE  LocksInv'
  <1>1. /\ i # j /\ UNCHANGED <<guard, raw, rw, hold>>
        /\ holder' = let_go(holder, ul[t][i])
        /\ ul' = [ul EXCEPT ![t][i] = ul[t][j], ![t][j] = Empty]
    BY DEF move
  <1>2. /\ \A s \in Thr : s # t => ul'[s] = ul[s]
        /\ \A k \in Var : ul'[t][k] = IF k = j THEN Empty ELSE IF k = i THEN ul[t][j] ELSE ul[t][k]
    BY <1>1 DEF LocksInv, LocksTypeOK
  <1>3. LocksTypeOK' /\ OwnsAMutex'
    <2>1. holder' \in [Mtx -> Thr \cup {None}]
      BY <1>1 DEF LocksInv, LocksTypeOK, let_go, mutex_unlock
    <2>2. ul' \in [Thr -> [Var -> [live : BOOLEAN, mtx : Mtx \cup {None}, owns : BOOLEAN]]]
      BY <1>1 DEF LocksInv, LocksTypeOK, Empty
    <2>3. OwnsAMutex'
      BY <1>2 DEF LocksInv, OwnsAMutex, Empty
    <2>4. QED
      BY <1>1, <2>1, <2>2, <2>3 DEF LocksInv, LocksTypeOK
  <1>4. \A s \in Thr : RestKept(s)
    BY <1>1 DEF RestKept
  <1>5. \A s \in Thr, n \in Mtx : s # t => Owners(s, n)' = Owners(s, n)
    BY <1>2, <1>4, OthersKept
  <1>6. \A n \in Mtx, k \in Var :
           Mine(t, k, n)' <=> k # j /\ (IF k = i THEN Mine(t, j, n) ELSE Mine(t, k, n))
    BY <1>2 DEF Mine, Empty
  <1>7. \A n \in Mtx : Mine(t, i, n) <=> Owned(ul[t][i]) /\ ul[t][i].mtx = n
    BY LocksAssumption DEF Mine, Owned
  <1>8. \A n \in Mtx : ~(Mine(t, i, n) /\ Mine(t, j, n))
    <2>1. \A n \in Mtx : Mine(t, i, n) /\ Mine(t, j, n) =>
                           i \in Owners(t, n) /\ j \in Owners(t, n)
      BY OwnersByVar
    <2>2. QED
      BY <2>1, <1>1 DEF LocksInv, HeldOnce
  <1>9. ASSUME NEW s \in Thr, NEW n \in Mtx
        PROVE  IF holder'[n] = s THEN \E p \in Owners(s, n)' : Owners(s, n)' = {p}
                                 ELSE Owners(s, n)' = {}
    <2>1. CASE Mine(t, i, n)
      <3>1. i \in Owners(t, n)
        BY <2>1, OwnersByVar
      <3>2. holder[n] = t /\ Owners(t, n) = {i}
        BY <3>1 DEF LocksInv, HeldOnce
      <3>3. holder'[n] = None
        BY <1>1, <1>7, <2>1 DEF LocksInv, LocksTypeOK, let_go, mutex_unlock
      <3>4. ~Mine(t, j, n)
        BY <2>1, <1>8
      <3>5. Owners(t, n)' = Owners(t, n) \ {i}
        <4>1. \A k \in Var : k # i => (Mine(t, k, n)' <=> Mine(t, k, n))
          BY <1>6, <3>4
        <4>2. ~Mine(t, i, n)' /\ RestKept(t)
          BY <1>6, <3>4, <1>4
        <4>3. QED
          BY <4>1, <4>2, LostOwner
      <3>6. CASE s = t
        BY <3>6, <3>2, <3>3, <3>5, LocksAssumption
      <3>7. CASE s # t
        BY <3>7, <3>2, <3>3, <1>5, LocksAssumption DEF LocksInv, HeldOnce
      <3>8. QED
        BY <3>6, <3>7
    <2>2. CASE ~Mine(t, i, n)
      <3>1. holder'[n] = holder[n]
        BY <1>1, <1>7, <2>2 DEF LocksInv, LocksTypeOK, let_go, mutex_unlock
      <3>2. CASE s # t
        BY <3>1, <3>2, <1>5 DEF LocksInv, HeldOnce
      <3>3. CASE s = t /\ Mine(t, j, n)
        <4>1. j \in Owners(t, n)
          BY <3>3, OwnersByVar
        <4>2. holder[n] = t /\ Owners(t, n) = {j}
          BY <4>1 DEF LocksInv, HeldOnce
        <4>3. \A o : o \in Owners(t, n)' <=> o = i
          BY <4>2, <3>3, <1>4, <1>6, OwnersByVar, <1>1
        <4>4. QED
          BY <4>2, <4>3, <3>1, <3>3
      <3>4. CASE s = t /\ ~Mine(t, j, n)
        <4>1. \A k \in Var : Mine(t, k, n)' <=> Mine(t, k, n)
          BY <2>2, <3>4, <1>6
        <4>2. Owners(t, n)' = Owners(t, n)
          BY <4>1, <1>4, SameOwners
        <4>3. QED
          BY <4>2, <3>1, <3>4 DEF LocksInv, HeldOnce
      <3>5. QED
        BY <3>2, <3>3, <3>4
    <2>3. QED
      BY <2>1, <2>2
  <1>10. HeldOnce'
    BY <1>9 DEF HeldOnce
  <1>11. RwExact'
    BY <1>1, RwKept DEF LocksInv
  <1>12. QED
    BY <1>3, <1>10, <1>11 DEF LocksInv

(* The mutexes and their owners, when only the shared_mutex is touched. *)
LEMMA MutexesKept ==
    ASSUME LocksInv, UNCHANGED <<holder, ul, guard, raw>>
    PROVE  OwnsAMutex' /\ HeldOnce'
  BY DEF LocksInv, OwnsAMutex, HeldOnce, Owners, Owned

(* The readers of the shared_mutex. *)
Readers == {t \in Thr : hold[t] = "shared"}

(* The shared_mutex is taken by a reader, taken by a writer, released. *)
LEMMA SharedInv ==
    ASSUME LocksInv, NEW t \in Thr,
           lock_shared(t) \/ lock_exclusive(t) \/ unlock_shared(t)
    PROVE  LocksInv'
  <1>1. UNCHANGED <<holder, ul, guard, raw>>
    BY DEF lock_shared, lock_exclusive, unlock_shared
  <1>2. OwnsAMutex' /\ HeldOnce'
    BY <1>1, MutexesKept
  <1>3. IsFiniteSet(Readers) /\ rw.readers = Cardinality(Readers)
    BY LocksAssumption, FS_Subset DEF Readers, LocksInv, RwExact
  <1>4. CASE lock_shared(t)
    <2>1. Readers' = Readers \cup {t} /\ t \notin Readers
      BY <1>4 DEF lock_shared, Readers, LocksInv, LocksTypeOK
    <2>2. Cardinality(Readers') = Cardinality(Readers) + 1
      BY <1>3, <2>1, FS_AddElement
    <2>3. LocksTypeOK'
      BY <1>1, <1>4 DEF lock_shared, LocksInv, LocksTypeOK
    <2>4. RwExact'
      BY <1>3, <1>4, <2>2, LocksAssumption
      DEF lock_shared, LocksInv, LocksTypeOK, RwExact, Readers
    <2>5. QED
      BY <1>2, <2>3, <2>4 DEF LocksInv
  <1>5. CASE lock_exclusive(t)
    <2>1. Readers' = Readers
      BY <1>5 DEF lock_exclusive, Readers, LocksInv, LocksTypeOK
    <2>2. LocksTypeOK'
      BY <1>1, <1>5 DEF lock_exclusive, LocksInv, LocksTypeOK
    <2>3. RwExact'
      BY <1>3, <1>5, <2>1, LocksAssumption
      DEF lock_exclusive, LocksInv, LocksTypeOK, RwExact, Readers
    <2>4. QED
      BY <1>2, <2>2, <2>3 DEF LocksInv
  <1>6. CASE unlock_shared(t) /\ hold[t] = "shared"
    <2>1. Readers' = Readers \ {t} /\ t \in Readers
      BY <1>6 DEF unlock_shared, Readers, LocksInv, LocksTypeOK
    <2>2. Cardinality(Readers') = Cardinality(Readers) - 1
      BY <1>3, <2>1, FS_RemoveElement
    <2>3. Cardinality(Readers) # 0 /\ Cardinality(Readers) \in Nat
      BY <1>3, <2>1, FS_EmptySet, FS_CardinalityType
    <2>4. rw.writer = None
      BY <1>3, <2>3 DEF LocksInv, RwExact
    <2>5. LocksTypeOK'
      <3>1. rw' = [rw EXCEPT !.readers = rw.readers - 1] /\ hold' = [hold EXCEPT ![t] = "none"]
        BY <1>6, <2>4 DEF unlock_shared
      <3>2. rw.readers - 1 \in Nat
        BY <1>3, <2>3
      <3>3. QED
        BY <1>1, <3>1, <3>2 DEF LocksInv, LocksTypeOK
    <2>6. RwExact'
      BY <1>3, <1>6, <2>2, <2>4, LocksAssumption
      DEF unlock_shared, LocksInv, LocksTypeOK, RwExact, Readers
    <2>7. QED
      BY <1>2, <2>5, <2>6 DEF LocksInv
  <1>7. CASE unlock_shared(t) /\ hold[t] = "exclusive"
    <2>1. rw.writer = t /\ rw.readers = 0
      BY <1>7, LocksAssumption DEF LocksInv, RwExact
    <2>2. Readers' = Readers
      BY <1>7 DEF unlock_shared, Readers, LocksInv, LocksTypeOK
    <2>3. LocksTypeOK'
      <3>1. rw' = [rw EXCEPT !.writer = None] /\ hold' = [hold EXCEPT ![t] = "none"]
        BY <1>7, <2>1, LocksAssumption DEF unlock_shared
      <3>2. QED
        BY <1>1, <3>1 DEF LocksInv, LocksTypeOK
    <2>4. RwExact'
      BY <1>3, <1>7, <2>1, <2>2, LocksAssumption
      DEF unlock_shared, LocksInv, LocksTypeOK, RwExact, Readers
    <2>5. QED
      BY <1>2, <2>3, <2>4 DEF LocksInv
  <1>8. QED
    BY <1>4, <1>5, <1>6, <1>7 DEF unlock_shared, LocksInv, LocksTypeOK

(* Nobody holds anything at first. *)
LEMMA InitLocksInv == LocksInit => LocksInv
  <1> SUFFICES ASSUME LocksInit PROVE LocksInv
    OBVIOUS
  <1>1. LocksTypeOK /\ OwnsAMutex
    BY DEF LocksInit, LocksTypeOK, OwnsAMutex, Unset
  <1>2. HeldOnce
    BY LocksAssumption DEF LocksInit, HeldOnce, Owners, Owned, Unset
  <1>3. RwExact
    <2>1. {t \in Thr : hold[t] = "shared"} = {}
      BY DEF LocksInit
    <2>2. QED
      BY <2>1, FS_EmptySet, LocksAssumption DEF LocksInit, RwExact
  <1>4. QED
    BY <1>1, <1>2, <1>3 DEF LocksInv

(* Every step of every thread. *)
LEMMA StepLocksInv == LocksInv /\ [LocksNext]_locks_vars => LocksInv'
  <1> SUFFICES ASSUME LocksInv, [LocksNext]_locks_vars PROVE LocksInv'
    OBVIOUS
  <1>1. CASE UNCHANGED locks_vars
    BY <1>1, LocksStutter
  <1>2. ASSUME NEW t \in Thr, NEW i \in Var,
               \/ unique_lock(t, i) \/ destroy_unique_lock(t, i)
               \/ lock(t, i) \/ unlock(t, i) \/ try_lock(t, i) \/ release(t, i)
               \/ \E j \in Var : move(t, i, j)
        PROVE  LocksInv'
    BY <1>2, UniqueLockInv, DestroyInv, LockInv, UnlockInv, TryLockInv, ReleaseInv, MoveInv
  <1>3. ASSUME NEW t \in Thr,
               \/ unlock_released(t) \/ lock_guard(t)
               \/ lock_shared(t) \/ lock_exclusive(t) \/ unlock_shared(t)
        PROVE  LocksInv'
    BY <1>3, UnlockReleasedInv, LockGuardInv, SharedInv
  <1>4. QED
    BY <1>1, <1>2, <1>3 DEF LocksNext

(* The mutexes, their owners and the shared_mutex agree in every state. *)
THEOREM LocksInvariance == LocksSpec => []LocksInv
  BY InitLocksInv, StepLocksInv, PTL DEF LocksSpec

(* mutex.h: whatever is constructed, moved, released and destroyed in      *)
(* whatever order by any number of threads, a locked mutex has exactly one *)
(* object to unlock it, in the thread that locked it, and a free one none; *)
(* the shared_mutex has one writer or its readers, never both.             *)
THEOREM EveryLockIsOwnedOnce == LocksSpec => []OneOwner
  <1>1. LocksInv => OneOwner
    <2> SUFFICES ASSUME LocksInv PROVE OneOwner
      OBVIOUS
    <2>1. ASSUME NEW m \in Mtx, NEW t \in Thr
          PROVE  Cardinality(Owners(t, m)) = IF holder[m] = t THEN 1 ELSE 0
      <3>1. CASE holder[m] = t
        <4>1. PICK o \in Owners(t, m) : Owners(t, m) = {o}
          BY <3>1 DEF LocksInv, HeldOnce
        <4>2. Cardinality({o}) = 1
          BY FS_Singleton
        <4>3. QED
          BY <3>1, <4>1, <4>2
      <3>2. CASE holder[m] # t
        BY <3>2, FS_EmptySet DEF LocksInv, HeldOnce
      <3>3. QED
        BY <3>1, <3>2
    <2>2. QED
      BY <2>1 DEF LocksInv, RwExact, OneOwner
  <1>2. QED
    BY <1>1, LocksInvariance, PTL
-----------------------------------------------------------------------------
(* The vectors: how memory is changed. *)

(* A buffer in use is not taken for a freed one. *)
LEMMA CellsNotFreed == \A s \in Seq(Cell) : s # Freed
  <1> SUFFICES ASSUME Freed \in Seq(Cell) PROVE FALSE
    OBVIOUS
  <1>1. Len(Freed) = 1 /\ Freed[1] = "freed"
    BY DEF Freed
  <1>2. Freed[1] \in Cell
    BY <1>1
  <1>3. QED
    BY <1>1, <1>2, VectorAssumption DEF Cell

(* The null pointer is not a buffer. *)
LEMMA BufFacts == Null \notin Buf /\ IsFiniteSet(Buf) /\ Cardinality(Buf) = Cardinality(Vec) + 1
  <1>1. Cardinality(Vec) \in Nat
    BY VectorAssumption, FS_CardinalityType
  <1>2. QED
    BY <1>1, FS_Interval DEF Buf, Null

(* There is one buffer more than there are vectors: if none leaks, malloc  *)
(* has one to give.                                                        *)
LEMMA FreshBuffer ==
    ASSUME NEW m, Intact(m)
    PROVE  \E c \in Buf : m.heap[c] = Freed
  <1> SUFFICES ASSUME \A c \in Buf : m.heap[c] # Freed PROVE FALSE
    OBVIOUS
  <1> DEFINE f == [v \in Vec |-> m.vec[v].data]
             used == {f[v] : v \in Vec}
  <1>1. f \in Surjection(Vec, used)
    BY DEF Surjection
  <1>2. IsFiniteSet(used) /\ Cardinality(used) <= Cardinality(Vec)
    BY <1>1, VectorAssumption, FS_Surjection
  <1>3. Buf \subseteq used
    BY DEF Intact, Sound
  <1>4. Cardinality(Buf) <= Cardinality(used)
    BY <1>2, <1>3, FS_Subset
  <1>5. Cardinality(Vec) \in Nat /\ Cardinality(used) \in Nat
    BY <1>2, VectorAssumption, FS_CardinalityType
  <1>6. QED
    BY <1>2, <1>4, <1>5, BufFacts

(* A memory with another heap cell, or another object. *)
LEMMA HeapExcept ==
    ASSUME NEW m \in Memory, NEW b, NEW x, NEW k, k = [m EXCEPT !.heap[b] = x]
    PROVE  k = [heap |-> [m.heap EXCEPT ![b] = x], vec |-> m.vec]
  BY DEF Memory

(* The same, for the object of one vector. *)
LEMMA VecExcept ==
    ASSUME NEW m \in Memory, NEW v, NEW o, NEW k, k = [m EXCEPT !.vec[v] = o]
    PROVE  k = [heap |-> m.heap, vec |-> [m.vec EXCEPT ![v] = o]]
  BY DEF Memory

(* An object without a buffer that is alive, and one that is not. *)
EmptyVector == [Gone EXCEPT !.live = TRUE]

(* An empty vector is an object, alive and without a buffer. *)
LEMMA EmptyFacts ==
    /\ Gone \in Object /\ Gone.data = Null /\ Gone.size = 0 /\ Gone.capacity = 0
    /\ EmptyVector \in Object /\ EmptyVector.data = Null /\ EmptyVector.size = 0 /\ EmptyVector.capacity = 0
    /\ EmptyVector.live
  <1>1. Gone \in Object /\ Gone.data = Null /\ Gone.size = 0 /\ Gone.capacity = 0
    BY DEF Gone, Object
  <1>2. EmptyVector \in Object
    BY <1>1 DEF EmptyVector, Object
  <1>3. EmptyVector.data = Null /\ EmptyVector.size = 0 /\ EmptyVector.capacity = 0
    BY <1>1 DEF EmptyVector, Object
  <1>4. EmptyVector.live
    BY <1>1 DEF EmptyVector, Object
  <1>5. QED
    BY <1>1, <1>2, <1>3, <1>4

(* malloc gives a buffer nobody has and touches nothing else. *)
LEMMA Mallocs ==
    ASSUME NEW m, Intact(m), NEW n \in Nat
    PROVE  LET a == Malloc(m, n)
           IN  /\ a.ptr \in Buf /\ m.heap[a.ptr] = Freed
               /\ \A v \in Vec : m.vec[v].data # a.ptr
               /\ a.m = [heap |-> [m.heap EXCEPT ![a.ptr] = [i \in 1..n |-> Junk]],
                         vec |-> m.vec]
  <1> DEFINE b == CHOOSE c \in Buf : m.heap[c] = Freed
  <1>1. b \in Buf /\ m.heap[b] = Freed
    BY FreshBuffer
  <1>2. \A v \in Vec : m.vec[v].data # b
    BY <1>1 DEF Intact, Sound
  <1>3. Malloc(m, n) = [m |-> [m EXCEPT !.heap[b] = [i \in 1..n |-> Junk]], ptr |-> b]
    BY DEF Malloc
  <1> DEFINE j == [i \in 1..n |-> Junk]
  <1> HIDE DEF b, j
  <1>4. [m EXCEPT !.heap[b] = j] = [heap |-> [m.heap EXCEPT ![b] = j], vec |-> m.vec]
    BY HeapExcept DEF Intact
  <1>5. QED
    BY <1>1, <1>2, <1>3, <1>4 DEF j

(* free gives one buffer back. *)
LEMMA Frees ==
    ASSUME NEW m \in Memory, NEW b \in Buf \cup {Null}
    PROVE  Free(m, b) = [heap |-> [c \in Buf |-> IF c = b THEN Freed ELSE m.heap[c]],
                         vec |-> m.vec]
  <1>1. CASE b = Null
    <2>1. [c \in Buf |-> IF c = b THEN Freed ELSE m.heap[c]] = m.heap
      BY <1>1, BufFacts DEF Heap, Memory
    <2>2. QED
      BY <1>1, <2>1 DEF Free, Memory
  <1>2. CASE b # Null
    <2>1. [m.heap EXCEPT ![b] = Freed] = [c \in Buf |-> IF c = b THEN Freed ELSE m.heap[c]]
      BY DEF Heap, Memory
    <2>2. [m EXCEPT !.heap[b] = Freed] = [heap |-> [m.heap EXCEPT ![b] = Freed], vec |-> m.vec]
      BY HeapExcept
    <2>3. QED
      BY <1>2, <2>1, <2>2 DEF Free
  <1>3. QED
    BY <1>1, <1>2

(* Only vector v was changed, and soundly. *)
Alters(m, k, v) ==
    /\ Intact(k)
    /\ \A w \in Vec : w # v => k.vec[w] = m.vec[w]
    /\ SeqsOf(k) = [SeqsOf(m) EXCEPT ![v] = Contents(k, v)]
    /\ RoomOf(k) = [RoomOf(m) EXCEPT ![v] = k.vec[v].capacity]

(* What an operation on v may do to the memory: its buffer is rewritten,   *)
(* exchanged for a free one or given back, and no other is touched.        *)
Admissible(m, v, H, o) ==
    LET d == m.vec[v].data
    IN  /\ H \in Heap /\ o \in Object
        /\ o.size <= o.capacity
        /\ IF o.data = Null THEN o.capacity = 0
           ELSE /\ o.data = d \/ m.heap[o.data] = Freed
                /\ H[o.data] \in Seq(Cell) /\ Len(H[o.data]) = o.capacity
        /\ d # Null /\ d # o.data => H[d] = Freed
        /\ \A b \in Buf : b # d /\ b # o.data => H[b] = m.heap[b]
        /\ ~o.live => o.data = Null

(* Such a change leaves the memory intact and every other vector alone. *)
LEMMA OneAltered ==
    ASSUME NEW m, Intact(m), NEW v \in Vec, NEW H, NEW o, Admissible(m, v, H, o),
           NEW k, k = [heap |-> H, vec |-> [m.vec EXCEPT ![v] = o]]
    PROVE  /\ Alters(m, k, v) /\ k.vec[v] = o /\ k.heap = H
           /\ Contents(k, v) = IF o.data = Null THEN << >>
                               ELSE SubSeq(H[o.data], 1, o.size)
  <1> DEFINE d == m.vec[v].data
  <1>0. /\ m.vec \in [Vec -> Object] /\ m.heap \in Heap /\ o \in Object
        /\ d \in Buf \cup {Null} /\ o.data \in Buf \cup {Null}
    BY DEF Intact, Memory, Object, Admissible
  <1>1. /\ k.heap = H /\ k.vec[v] = o /\ DOMAIN k.vec = Vec
        /\ \A w \in Vec : w # v => k.vec[w] = m.vec[w]
    BY <1>0
  <1>2. k \in Memory
    BY <1>0 DEF Memory, Admissible
  <1>3. ASSUME NEW w \in Vec, w # v, m.vec[w].data # Null
        PROVE  m.vec[w].data # d /\ m.vec[w].data # o.data /\ m.vec[w].data \in Buf
    <2>1. m.vec[w].data # d /\ m.vec[w].data \in Buf
      BY <1>3, <1>0 DEF Intact, Sound, Object
    <2>2. m.heap[m.vec[w].data] # Freed
      BY <2>1 DEF Intact, Sound
    <2>3. QED
      BY <2>1, <2>2, <1>3 DEF Admissible
  <1>4. ASSUME NEW b \in Buf
        PROVE  H[b] # Freed <=> \E u \in Vec : k.vec[u].data = b
    <2>0. b # Null
      BY BufFacts
    <2>1. CASE b = o.data
      BY <1>1, <2>0, <2>1, CellsNotFreed DEF Admissible
    <2>2. CASE b = d /\ b # o.data
      BY <1>1, <1>3, <2>0, <2>2 DEF Admissible
    <2>3. CASE b # d /\ b # o.data
      <3>1. H[b] = m.heap[b]
        BY <2>3 DEF Admissible
      <3>2. m.heap[b] # Freed <=> \E u \in Vec : m.vec[u].data = b
        BY DEF Intact, Sound
      <3>3. (\E u \in Vec : m.vec[u].data = b) <=> (\E u \in Vec : k.vec[u].data = b)
        BY <1>1, <2>3
      <3>4. QED
        BY <3>1, <3>2, <3>3
    <2>4. QED
      BY <2>1, <2>2, <2>3
  <1>5. \A u, w \in Vec : k.vec[u].data = k.vec[w].data /\ u # w => k.vec[u].data = Null
    <2> SUFFICES ASSUME NEW u \in Vec, NEW w \in Vec, u # w, k.vec[u].data = k.vec[w].data,
                        k.vec[u].data # Null
                 PROVE  FALSE
      OBVIOUS
    <2>1. CASE u = v
      BY <1>1, <1>3, <2>1
    <2>2. CASE w = v
      BY <1>1, <1>3, <2>2
    <2>3. CASE u # v /\ w # v
      BY <1>1, <2>3 DEF Intact, Sound
    <2>4. QED
      BY <2>1, <2>2, <2>3
  <1>6. ASSUME NEW w \in Vec
        PROVE  /\ k.vec[w].size <= k.vec[w].capacity
               /\ IF k.vec[w].data = Null THEN k.vec[w].capacity = 0
                  ELSE Len(H[k.vec[w].data]) = k.vec[w].capacity
               /\ ~k.vec[w].live => k.vec[w].data = Null
    <2>1. CASE w = v
      BY <1>1, <2>1 DEF Admissible
    <2>2. CASE w # v
      <3>1. m.vec[w].data # Null => H[m.vec[w].data] = m.heap[m.vec[w].data]
        BY <1>3, <2>2 DEF Admissible
      <3>2. QED
        BY <1>1, <2>2, <3>1 DEF Intact, Sound
    <2>3. QED
      BY <2>1, <2>2
  <1>7. Sound(k)
    BY <1>1, <1>4, <1>5, <1>6 DEF Sound
  <1>8. Intact(k)
    BY <1>2, <1>6, <1>7 DEF Intact
  <1>9. Contents(k, v) = IF o.data = Null THEN << >> ELSE SubSeq(H[o.data], 1, o.size)
    BY <1>1, <1>7 DEF Contents
  <1>10. ASSUME NEW w \in Vec, w # v
         PROVE  Contents(k, w) = Contents(m, w)
    <2>1. m.vec[w].data # Null => H[m.vec[w].data] = m.heap[m.vec[w].data]
      BY <1>3, <1>10 DEF Admissible
    <2>2. QED
      BY <1>1, <1>7, <1>10, <2>1 DEF Contents, Intact
  <1>11. SeqsOf(k) = [SeqsOf(m) EXCEPT ![v] = Contents(k, v)]
    BY <1>10 DEF SeqsOf
  <1>12. RoomOf(k) = [RoomOf(m) EXCEPT ![v] = k.vec[v].capacity]
    BY <1>1, <1>7 DEF RoomOf, Intact
  <1>13. QED
    BY <1>1, <1>8, <1>9, <1>11, <1>12 DEF Alters

-----------------------------------------------------------------------------
(* The operations. *)

(* A vector is constructed: empty, with a buffer if one was asked for and  *)
(* found.                                                                  *)
LEMMA Constructs ==
    ASSUME NEW m, Intact(m), NEW v \in Vec, ~m.vec[v].live,
           NEW n \in Nat, NEW ok \in BOOLEAN
    PROVE  Alters(m, construct(m, v, n, ok), v) /\ Contents(construct(m, v, n, ok), v) = << >>
  <1> DEFINE a == Malloc(m, n)
  <1>0. m \in Memory /\ m.vec[v].data = Null /\ m.heap \in Heap /\ Null \notin Buf
    BY BufFacts DEF Intact, Memory
  <1>2. CASE ~(n > 0 /\ ok)
    <2>1. construct(m, v, n, ok) = [heap |-> m.heap, vec |-> [m.vec EXCEPT ![v] = EmptyVector]]
      BY <1>0, <1>2, VecExcept DEF construct, EmptyVector
    <2>2. Admissible(m, v, m.heap, EmptyVector)
      BY <1>0, EmptyFacts DEF Admissible
    <2>3. QED
      BY <2>1, <2>2, OneAltered, EmptyFacts
  <1>3. CASE n > 0 /\ ok
    <2> DEFINE H == [m.heap EXCEPT ![a.ptr] = [i \in 1..n |-> Junk]]
    <2>1. /\ a.ptr \in Buf /\ m.heap[a.ptr] = Freed
          /\ \A w \in Vec : m.vec[w].data # a.ptr
          /\ a.m = [heap |-> H, vec |-> m.vec]
      BY Mallocs
    <2>2. [i \in 1..n |-> Junk] \in Seq(Cell) /\ Len([i \in 1..n |-> Junk]) = n
      BY DEF Cell
    <2>3. H \in Heap /\ H[a.ptr] = [i \in 1..n |-> Junk]
          /\ \A b \in Buf : b # a.ptr => H[b] = m.heap[b]
      BY <1>0, <2>1, <2>2 DEF Heap
    <2>4. a.m \in Memory
      BY <1>0, <2>1, <2>3 DEF Memory
    <2> PICK p : p = a.ptr
      OBVIOUS
    <2> PICK f : f = [EmptyVector EXCEPT !.data = p, !.capacity = n]
      OBVIOUS
    <2>5. f \in Object /\ f.data = p /\ f.capacity = n /\ f.size = 0 /\ f.live
      <3>1. EmptyVector \in Object /\ p \in Buf
        BY <2>1, EmptyFacts
      <3>2. f \in Object
        BY <3>1 DEF Object
      <3>3. f.data = p /\ f.capacity = n /\ f.size = 0
        BY <3>1, EmptyFacts DEF Object
      <3>4. f.live
        BY <3>1, EmptyFacts DEF Object
      <3>5. QED
        BY <3>2, <3>3, <3>4
    <2>6. construct(m, v, n, ok) = [heap |-> H, vec |-> [m.vec EXCEPT ![v] = f]]
      <3>1. construct(m, v, n, ok) = [a.m EXCEPT !.vec[v] = f]
        BY <1>3 DEF construct, EmptyVector
      <3>2. [a.m EXCEPT !.vec[v] = f] = [heap |-> a.m.heap, vec |-> [a.m.vec EXCEPT ![v] = f]]
        BY <2>4, VecExcept
      <3>3. QED
        BY <2>1, <3>1, <3>2
    <2> HIDE DEF H, a
    <2>8. Admissible(m, v, H, f)
      BY <1>0, <2>1, <2>2, <2>3, <2>5, EmptyFacts DEF Admissible
    <2>9. /\ Alters(m, construct(m, v, n, ok), v)
          /\ Contents(construct(m, v, n, ok), v) = SubSeq(H[f.data], 1, f.size)
      <3>1. f.data # Null
        BY <1>0, <2>1, <2>5
      <3>2. QED
        BY ONLY <2>6, <2>8, <3>1, Intact(m), v \in Vec, OneAltered
    <2>10. SubSeq(H[f.data], 1, f.size) = << >>
      BY <2>2, <2>3, <2>5
    <2>11. QED
      BY <2>9, <2>10
  <1>4. QED
    BY <1>2, <1>3

(* A vector is destroyed: its buffer is given back. *)
LEMMA Destroys ==
    ASSUME NEW m, Intact(m), NEW v \in Vec
    PROVE  Alters(m, destroy(m, v), v) /\ Contents(destroy(m, v), v) = << >>
  <1> DEFINE d == m.vec[v].data
             H == [c \in Buf |-> IF c = d THEN Freed ELSE m.heap[c]]
  <1>0. m \in Memory /\ m.heap \in Heap /\ m.vec \in [Vec -> Object] /\ d \in Buf \cup {Null}
    BY DEF Intact, Memory, Object
  <1>1. Free(m, d) = [heap |-> H, vec |-> m.vec]
    BY <1>0, Frees
  <1>2. H \in Heap
    BY <1>0 DEF Heap
  <1>3. Gone \in Object /\ Gone.data = Null /\ Gone.capacity = 0 /\ Gone.size = 0
    BY EmptyFacts
  <1>4. destroy(m, v) = [heap |-> H, vec |-> [m.vec EXCEPT ![v] = Gone]]
    <2>1. Free(m, d) \in Memory
      BY <1>0, <1>1, <1>2 DEF Memory
    <2>2. QED
      BY <1>1, <2>1, VecExcept DEF destroy
  <1>5. Admissible(m, v, H, Gone)
    BY <1>0, <1>2, <1>3 DEF Admissible
  <1> HIDE DEF H, d
  <1>6. QED
    BY <1>3, <1>4, <1>5, OneAltered

(* A vector gets the members of another: what move construction does, and  *)
(* move assignment once the target's buffer is freed.                      *)
LEMMA Steals ==
    ASSUME NEW m, Intact(m), NEW v \in Vec, NEW w \in Vec, v # w, m.vec[w].live
    PROVE  LET k == steal(Free(m, m.vec[v].data), v, w)
           IN  /\ Intact(k)
               /\ SeqsOf(k) = [SeqsOf(m) EXCEPT ![v] = SeqsOf(m)[w], ![w] = << >>]
               /\ RoomOf(k) = [RoomOf(m) EXCEPT ![v] = RoomOf(m)[w], ![w] = 0]
  <1> DEFINE d == m.vec[v].data
             H == [c \in Buf |-> IF c = d THEN Freed ELSE m.heap[c]]
             V == [m.vec EXCEPT ![v] = m.vec[w], ![w] = EmptyVector]
             k == [heap |-> H, vec |-> V]
  <1>0. m \in Memory /\ m.heap \in Heap /\ m.vec \in [Vec -> Object] /\ d \in Buf \cup {Null}
    BY DEF Intact, Memory, Object
  <1>1. Free(m, d) = [heap |-> H, vec |-> m.vec]
    BY <1>0, Frees
  <1>2. H \in Heap
    BY <1>0 DEF Heap
  <1>3. EmptyVector \in Object
    BY EmptyFacts
  <1>4. steal(Free(m, d), v, w) = k
    <2> DEFINE j == Free(m, d)
    <2>1. j \in Memory /\ j.heap = H /\ j.vec = m.vec
      BY <1>0, <1>1, <1>2 DEF Memory
    <2> PICK q, r : q = j.vec[w] /\ r = [j EXCEPT !.vec[v] = q, !.vec[w] = EmptyVector]
      OBVIOUS
    <2>2. steal(j, v, w) = r
      BY DEF steal, EmptyVector
    <2> HIDE DEF j
    <2>3. r = [heap |-> j.heap, vec |-> [j.vec EXCEPT ![v] = q, ![w] = EmptyVector]]
      BY <2>1 DEF Memory
    <2>4. QED
      BY <2>1, <2>2, <2>3 DEF j
  <1>5. /\ k \in Memory /\ k.heap = H /\ k.vec[v] = m.vec[w] /\ k.vec[w] = EmptyVector
        /\ \A u \in Vec : u # v /\ u # w => k.vec[u] = m.vec[u]
    BY <1>0, <1>2, <1>3 DEF Memory
  <1>6. \A u \in Vec : u # v /\ m.vec[u].data # Null => m.vec[u].data # d /\ m.vec[u].data \in Buf
    BY <1>0 DEF Intact, Sound, Object
  <1>7. \A u \in Vec : u # v /\ m.vec[u].data # Null => H[m.vec[u].data] = m.heap[m.vec[u].data]
    BY <1>6
  <1>8. EmptyVector.data = Null /\ EmptyVector.size = 0 /\ EmptyVector.capacity = 0 /\ EmptyVector.live
    BY EmptyFacts
  <1> HIDE DEF H, V, k
  <1>9. ASSUME NEW b \in Buf
        PROVE  H[b] # Freed <=> \E u \in Vec : k.vec[u].data = b
    <2>0. b # Null
      BY BufFacts
    <2>1. m.heap[b] # Freed <=> \E u \in Vec : m.vec[u].data = b
      BY DEF Intact, Sound
    <2>2. CASE b = d
      <3>1. H[b] = Freed
        BY <2>2 DEF H
      <3>2. \A u \in Vec : u # v => m.vec[u].data # b
        BY <1>6, <2>0, <2>2
      <3>3. \A u \in Vec : k.vec[u].data # b
        BY <1>5, <1>8, <2>0, <3>2
      <3>4. QED
        BY <3>1, <3>3
    <2>3. CASE b # d
      <3>1. H[b] = m.heap[b]
        BY <2>3 DEF H
      <3>2. (\E u \in Vec : m.vec[u].data = b) => \E u \in Vec : k.vec[u].data = b
        BY <1>5, <2>3
      <3>3. (\E u \in Vec : k.vec[u].data = b) => \E u \in Vec : m.vec[u].data = b
        BY <1>5, <1>8, <2>0
      <3>4. QED
        BY <2>1, <3>1, <3>2, <3>3
    <2>4. QED
      BY <2>2, <2>3
  <1>10. \A u, x \in Vec : k.vec[u].data = k.vec[x].data /\ u # x => k.vec[u].data = Null
    <2> SUFFICES ASSUME NEW u \in Vec, NEW x \in Vec, u # x, k.vec[u].data = k.vec[x].data,
                        k.vec[u].data # Null
                 PROVE  FALSE
      OBVIOUS
    <2> DEFINE src(y) == IF y = v THEN w ELSE y
    <2>1. u # w /\ x # w
      BY <1>5, <1>8
    <2>2. \A y \in Vec : y # w => k.vec[y] = m.vec[src(y)] /\ src(y) \in Vec
      BY <1>5
    <2>3. src(u) # src(x)
      BY <2>1
    <2>4. m.vec[src(u)].data = m.vec[src(x)].data /\ m.vec[src(u)].data # Null
      BY <2>1, <2>2
    <2> HIDE DEF src
    <2>5. QED
      BY <2>1, <2>2, <2>3, <2>4 DEF Intact, Sound
  <1>11. ASSUME NEW u \in Vec
         PROVE  /\ k.vec[u].size <= k.vec[u].capacity
                /\ IF k.vec[u].data = Null THEN k.vec[u].capacity = 0
                   ELSE Len(H[k.vec[u].data]) = k.vec[u].capacity
                /\ ~k.vec[u].live => k.vec[u].data = Null
    <2>1. CASE u = w
      BY <1>5, <1>8, <2>1
    <2>2. ASSUME NEW x \in Vec, x # v, k.vec[u] = m.vec[x]
          PROVE  /\ k.vec[u].size <= k.vec[u].capacity
                 /\ IF k.vec[u].data = Null THEN k.vec[u].capacity = 0
                    ELSE Len(H[k.vec[u].data]) = k.vec[u].capacity
                 /\ ~k.vec[u].live => k.vec[u].data = Null
      <3>1. /\ m.vec[x].size <= m.vec[x].capacity
            /\ IF m.vec[x].data = Null THEN m.vec[x].capacity = 0
               ELSE Len(m.heap[m.vec[x].data]) = m.vec[x].capacity
        BY DEF Intact, Sound
      <3>2. ~m.vec[x].live => m.vec[x].data = Null
        BY DEF Intact
      <3>3. m.vec[x].data # Null => H[m.vec[x].data] = m.heap[m.vec[x].data]
        BY <1>7, <2>2
      <3>4. QED
        BY ONLY <2>2, <3>1, <3>2, <3>3
    <2>3. QED
      BY <1>5, <2>1, <2>2
  <1>12. Sound(k)
    BY <1>5, <1>9, <1>10, <1>11 DEF Sound
  <1>13. Intact(k)
    BY <1>5, <1>11, <1>12 DEF Intact
  <1>14. /\ Contents(k, v) = Contents(m, w) /\ Contents(k, w) = << >>
         /\ \A u \in Vec : u # v /\ u # w => Contents(k, u) = Contents(m, u)
    BY <1>5, <1>7, <1>8, <1>12 DEF Contents, Intact
  <1>15. SeqsOf(k) = [SeqsOf(m) EXCEPT ![v] = SeqsOf(m)[w], ![w] = << >>]
    BY <1>14 DEF SeqsOf
  <1>16. RoomOf(k) = [RoomOf(m) EXCEPT ![v] = RoomOf(m)[w], ![w] = 0]
    BY <1>5, <1>8, <1>12 DEF RoomOf, Intact
  <1>17. QED
    BY <1>4, <1>13, <1>15, <1>16

(* What a vector holds, cell by cell. *)
LEMMA ContentsFacts ==
    ASSUME NEW m, Intact(m), NEW v \in Vec
    PROVE  LET o == m.vec[v]
           IN  /\ o \in Object /\ o.size \in Nat /\ o.capacity \in Nat /\ o.size <= o.capacity
               /\ o.data \in Buf \cup {Null}
               /\ o.data = Null => o.capacity = 0 /\ o.size = 0
               /\ o.data # Null => /\ o.data \in Buf
                                   /\ m.heap[o.data] \in Seq(Cell)
                                   /\ Len(m.heap[o.data]) = o.capacity
               /\ Contents(m, v) \in Seq(Cell) /\ Len(Contents(m, v)) = o.size
               /\ \A i \in 1..o.size : Contents(m, v)[i] = m.heap[o.data][i]
  <1> DEFINE o == m.vec[v]
  <1>1. /\ o \in Object /\ o.size \in Nat /\ o.capacity \in Nat
        /\ o.data \in Buf \cup {Null} /\ m.heap \in Heap
    BY DEF Intact, Memory, Object
  <1>2. /\ o.size <= o.capacity
        /\ IF o.data = Null THEN o.capacity = 0 ELSE Len(m.heap[o.data]) = o.capacity
    BY DEF Intact, Sound
  <1>3. o.data # Null => o.data \in Buf /\ m.heap[o.data] \in Seq(Cell)
    <2>1. o.data # Null => o.data \in Buf /\ m.heap[o.data] # Freed
      BY <1>1 DEF Intact, Sound
    <2>2. QED
      BY <1>1, <2>1 DEF Heap
  <1>4. Contents(m, v) = IF o.data = Null THEN << >> ELSE SubSeq(m.heap[o.data], 1, o.size)
    BY DEF Contents, Intact
  <1> HIDE DEF o
  <1>5. CASE o.data = Null
    BY <1>1, <1>2, <1>4, <1>5 DEF o
  <1>6. CASE o.data # Null
    <2> PICK s : s = m.heap[o.data]
      OBVIOUS
    <2>1. s \in Seq(Cell) /\ Len(s) = o.capacity
      BY <1>2, <1>3, <1>6
    <2>2. /\ SubSeq(s, 1, o.size) \in Seq(Cell) /\ Len(SubSeq(s, 1, o.size)) = o.size
          /\ \A i \in 1..o.size : SubSeq(s, 1, o.size)[i] = s[i]
      BY <1>1, <1>2, <2>1
    <2>3. QED
      BY <1>1, <1>2, <1>3, <1>4, <1>6, <2>1, <2>2 DEF o
  <1>7. QED
    BY <1>5, <1>6

(* A step that changes nothing, and two steps in a row. *)
LEMMA AltersSelf ==
    ASSUME NEW m, Intact(m), NEW v \in Vec
    PROVE  Alters(m, m, v)
  <1>1. SeqsOf(m) = [SeqsOf(m) EXCEPT ![v] = Contents(m, v)]
    BY DEF SeqsOf
  <1>2. RoomOf(m) = [RoomOf(m) EXCEPT ![v] = m.vec[v].capacity]
    BY DEF RoomOf, Intact
  <1>3. QED
    BY <1>1, <1>2 DEF Alters

(* Changes of one vector add up. *)
LEMMA AltersTrans ==
    ASSUME NEW m, NEW r, NEW k, NEW v \in Vec, Alters(m, r, v), Alters(r, k, v)
    PROVE  Alters(m, k, v)
  <1>1. SeqsOf(k) = [SeqsOf(m) EXCEPT ![v] = Contents(k, v)]
    BY DEF Alters, SeqsOf
  <1>2. RoomOf(k) = [RoomOf(m) EXCEPT ![v] = k.vec[v].capacity]
    BY DEF Alters, RoomOf
  <1>3. QED
    BY <1>1, <1>2 DEF Alters

(* Nothing but the room of v grew. *)
Roomier(m, k, v) ==
    /\ Alters(m, k, v)
    /\ Contents(k, v) = Contents(m, v)
    /\ k.vec[v].size = m.vec[v].size /\ k.vec[v].capacity >= m.vec[v].capacity
    /\ m.vec[v].live => k.vec[v].live

(* reserve keeps every element, whether or not it finds memory. *)
LEMMA Reserves ==
    ASSUME NEW m, Intact(m), NEW v \in Vec, m.vec[v].live, NEW n \in Nat, NEW ok \in BOOLEAN
    PROVE  Roomier(m, reserve(m, v, n, ok), v)
  <1>1. CASE n <= m.vec[v].capacity \/ ~ok
    <2>1. reserve(m, v, n, ok) = m
      BY <1>1 DEF reserve
    <2>2. m.vec[v].capacity >= m.vec[v].capacity
      BY ContentsFacts
    <2>3. QED
      BY <2>1, <2>2, AltersSelf DEF Roomier
  <1>2. CASE ~(n <= m.vec[v].capacity \/ ~ok)
    <2> PICK o, d, a, p :
          o = m.vec[v] /\ d = o.data /\ a = Malloc(m, n) /\ p = a.ptr
      OBVIOUS
    <2> PICK cells :
          cells = [i \in 1..n |-> IF i <= o.size THEN m.heap[d][i] ELSE Junk]
      OBVIOUS
    <2> DEFINE G == [m.heap EXCEPT ![p] = cells]
               H == [c \in Buf |-> IF c = d THEN Freed ELSE G[c]]
    <2>0. /\ m \in Memory /\ m.heap \in Heap /\ m.vec \in [Vec -> Object]
          /\ Null \notin Buf
      BY BufFacts DEF Intact, Memory
    <2>1. /\ o \in Object /\ o.size \in Nat /\ o.capacity \in Nat /\ o.size <= o.capacity
          /\ d \in Buf \cup {Null} /\ (d = Null => o.size = 0)
          /\ d # Null => m.heap[d] \in Seq(Cell) /\ Len(m.heap[d]) = o.capacity
      BY ContentsFacts
    <2>2. p \in Buf /\ m.heap[p] = Freed /\ p # d
      BY Mallocs
    <2>3. cells \in Seq(Cell) /\ Len(cells) = n /\ \A i \in 1..o.size : cells[i] = m.heap[d][i]
      <3>1. \A i \in 1..n : (IF i <= o.size THEN m.heap[d][i] ELSE Junk) \in Cell
        BY <2>1 DEF Cell
      <3>2. \A i \in 1..o.size : i \in 1..n
        BY <1>2, <2>1
      <3>3. QED
        BY <3>1, <3>2
    <2>4. G \in Heap /\ H \in Heap /\ H[p] = cells
          /\ \A b \in Buf : b # d /\ b # p => H[b] = m.heap[b]
      BY <2>0, <2>2, <2>3 DEF Heap
    <2> PICK kept : kept = [a.m EXCEPT !.heap[p] = cells]
      OBVIOUS
    <2> HIDE DEF G, H
    <2>5. kept \in Memory /\ kept.heap = G /\ kept.vec = m.vec
      <3> PICK j : j = [i \in 1..n |-> Junk]
        OBVIOUS
      <3>1. a.m = [heap |-> [m.heap EXCEPT ![p] = j], vec |-> m.vec]
        BY Mallocs
      <3>2. kept = [heap |-> [a.m.heap EXCEPT ![p] = cells], vec |-> a.m.vec]
        BY <3>1
      <3>3. [a.m.heap EXCEPT ![p] = cells] = G
        BY <2>0, <3>1 DEF Heap, G
      <3>4. kept = [heap |-> G, vec |-> m.vec]
        BY ONLY <3>1, <3>2, <3>3
      <3>5. QED
        BY ONLY <2>0, <2>4, <3>4 DEF Memory
    <2> PICK f : f = [o EXCEPT !.data = p, !.capacity = n]
      OBVIOUS
    <2>6. f \in Object /\ f.data = p /\ f.capacity = n /\ f.size = o.size
      BY <2>1, <2>2 DEF Object
    <2>7. f.live
      <3>1. o.live
        OBVIOUS
      <3>2. QED
        BY <2>1, <3>1 DEF Object
    <2>8. reserve(m, v, n, ok) = [heap |-> H, vec |-> [m.vec EXCEPT ![v] = f]]
      <3> PICK j : j = Free(kept, d)
        OBVIOUS
      <3>1. j = [heap |-> H, vec |-> m.vec]
        <4>1. j = [heap |-> [c \in Buf |-> IF c = d THEN Freed ELSE kept.heap[c]],
                   vec |-> kept.vec]
          BY <2>1, <2>5, Frees
        <4>2. [c \in Buf |-> IF c = d THEN Freed ELSE kept.heap[c]] = H
          BY ONLY <2>5 DEF H
        <4>3. QED
          BY <2>5, <4>1, <4>2
      <3>2. reserve(m, v, n, ok) = [j EXCEPT !.vec[v] = f]
        BY <1>2 DEF reserve
      <3>3. [j EXCEPT !.vec[v] = f] = [heap |-> H, vec |-> [m.vec EXCEPT ![v] = f]]
        BY ONLY <3>1
      <3>4. QED
        BY ONLY <3>2, <3>3
    <2>9. Admissible(m, v, H, f)
      <3>1. d # Null => H[d] = Freed
        BY <2>1 DEF H
      <3>2. f.data # Null /\ o.size <= n /\ d = m.vec[v].data
        BY <1>2, <2>0, <2>1, <2>2, <2>6
      <3>3. QED
        BY ONLY <2>2, <2>3, <2>4, <2>6, <2>7, <3>1, <3>2 DEF Admissible
    <2> PICK k : k = reserve(m, v, n, ok)
      OBVIOUS
    <2>10. Alters(m, k, v) /\ k.vec[v] = f /\ k.heap = H
      <3>1. k = [heap |-> H, vec |-> [m.vec EXCEPT ![v] = f]]
        BY <2>8
      <3>2. Alters(m, k, v)
        BY ONLY <3>1, <2>9, Intact(m), v \in Vec, OneAltered
      <3>3. QED
        BY ONLY <2>0, <3>1, <3>2, v \in Vec
    <2>11. Contents(k, v) = Contents(m, v)
      <3>1. Intact(k)
        BY <2>10 DEF Alters
      <3>2. /\ Contents(k, v) \in Seq(Cell) /\ Len(Contents(k, v)) = o.size
            /\ \A i \in 1..o.size : Contents(k, v)[i] = H[p][i]
        BY ONLY <2>6, <2>10, <3>1, v \in Vec, ContentsFacts
      <3>3. /\ Contents(m, v) \in Seq(Cell) /\ Len(Contents(m, v)) = o.size
            /\ \A i \in 1..o.size : Contents(m, v)[i] = m.heap[d][i]
        BY ContentsFacts
      <3>4. \A i \in 1..o.size : Contents(k, v)[i] = Contents(m, v)[i]
        BY ONLY <2>3, <2>4, <3>2, <3>3
      <3>5. QED
        BY <3>2, <3>3, <3>4, SeqEqual
    <2>12. QED
      BY <1>2, <2>1, <2>6, <2>7, <2>10, <2>11 DEF Roomier
  <1>3. QED
    BY <1>1, <1>2

(* A vector's size is set within its capacity: the common elements stay. *)
LEMMA Sizes ==
    ASSUME NEW m, Intact(m), NEW v \in Vec, m.vec[v].live,
           NEW n \in Nat, n <= m.vec[v].capacity,
           NEW k, k = [m EXCEPT !.vec[v].size = n]
    PROVE  /\ Alters(m, k, v) /\ k.vec[v].capacity = m.vec[v].capacity
           /\ Len(Contents(k, v)) = n
           /\ \A i \in 1..n : i <= m.vec[v].size => Contents(k, v)[i] = Contents(m, v)[i]
  <1> PICK o : o = m.vec[v]
    OBVIOUS
  <1> PICK f : f = [o EXCEPT !.size = n]
    OBVIOUS
  <1>1. /\ m \in Memory /\ m.heap \in Heap /\ m.vec \in [Vec -> Object] /\ Null \notin Buf
    BY BufFacts DEF Intact, Memory
  <1>2. /\ o \in Object /\ o.size \in Nat /\ o.capacity \in Nat /\ o.size <= o.capacity
        /\ o.data \in Buf \cup {Null} /\ (o.data = Null => o.capacity = 0 /\ o.size = 0)
        /\ o.data # Null => m.heap[o.data] \in Seq(Cell) /\ Len(m.heap[o.data]) = o.capacity
    BY ContentsFacts
  <1>3. f \in Object /\ f.data = o.data /\ f.capacity = o.capacity /\ f.size = n
    BY <1>2 DEF Object
  <1>4. f.live
    <2>1. o.live
      OBVIOUS
    <2>2. QED
      BY <1>2, <2>1 DEF Object
  <1>5. k = [heap |-> m.heap, vec |-> [m.vec EXCEPT ![v] = f]]
    BY <1>1 DEF Memory
  <1>6. Admissible(m, v, m.heap, f)
    BY <1>1, <1>2, <1>3, <1>4 DEF Admissible
  <1>7. Alters(m, k, v)
    BY ONLY <1>5, <1>6, Intact(m), v \in Vec, OneAltered
  <1>8. k.vec[v] = f /\ k.heap = m.heap
    BY ONLY <1>1, <1>5, v \in Vec
  <1>9. /\ Len(Contents(k, v)) = n
        /\ \A i \in 1..n : Contents(k, v)[i] = m.heap[o.data][i]
    <2>1. Intact(k)
      BY <1>7 DEF Alters
    <2>2. /\ Len(Contents(k, v)) = k.vec[v].size
          /\ \A i \in 1..k.vec[v].size : Contents(k, v)[i] = k.heap[k.vec[v].data][i]
      BY ONLY <2>1, v \in Vec, ContentsFacts
    <2>3. QED
      BY ONLY <1>3, <1>8, <2>2
  <1>10. \A i \in 1..o.size : Contents(m, v)[i] = m.heap[o.data][i]
    BY ContentsFacts
  <1>11. QED
    BY ONLY <1>2, <1>3, <1>7, <1>8, <1>9, <1>10, o = m.vec[v], n \in Nat

(* An element of a sequence more, or less. *)
LEMMA InsertSeq ==
    ASSUME NEW S, NEW s \in Seq(S), NEW x \in S, NEW i \in 1..(Len(s) + 1)
    PROVE  /\ InsertAt(s, i, x) \in Seq(S) /\ Len(InsertAt(s, i, x)) = Len(s) + 1
           /\ \A j \in 1..(Len(s) + 1) :
                InsertAt(s, i, x)[j] = IF j < i THEN s[j] ELSE IF j = i THEN x ELSE s[j - 1]
  <1> PICK a, b, c, t :
        a = SubSeq(s, 1, i - 1) /\ b = SubSeq(s, i, Len(s)) /\ c = <<x>> /\ t = a \o c
    OBVIOUS
  <1>1. Len(s) \in Nat /\ i \in Nat /\ 1 <= i /\ i <= Len(s) + 1
        /\ \A j \in 1..Len(s) : s[j] \in S
    OBVIOUS
  <1>2. a \in Seq(S) /\ Len(a) = i - 1 /\ \A j \in 1..(i - 1) : a[j] = s[j]
    BY <1>1, SubSeqProperties
  <1>3. b \in Seq(S) /\ Len(b) = Len(s) - i + 1
        /\ \A j \in 1..(Len(s) - i + 1) : b[j] = s[i + j - 1]
    BY <1>1, SubSeqProperties
  <1>4. c \in Seq(S) /\ Len(c) = 1 /\ c[1] = x
    OBVIOUS
  <1>5. t \in Seq(S) /\ Len(t) = i
        /\ \A j \in 1..i : t[j] = IF j <= i - 1 THEN a[j] ELSE c[j - (i - 1)]
    <2>1. t \in Seq(S) /\ Len(t) = Len(a) + Len(c)
          /\ \A j \in 1..(Len(a) + Len(c)) :
               t[j] = IF j <= Len(a) THEN a[j] ELSE c[j - Len(a)]
      BY ONLY <1>2, <1>4, t = a \o c, ConcatProperties
    <2>2. Len(a) + Len(c) = i
      BY ONLY <1>1, <1>2, <1>4
    <2>3. QED
      BY ONLY <1>2, <2>1, <2>2
  <1>6. InsertAt(s, i, x) = t \o b
    BY DEF InsertAt
  <1>7. t \o b \in Seq(S) /\ Len(t \o b) = Len(s) + 1
        /\ \A j \in 1..(Len(s) + 1) : (t \o b)[j] = IF j <= i THEN t[j] ELSE b[j - i]
    <2>1. t \o b \in Seq(S) /\ Len(t \o b) = Len(t) + Len(b)
          /\ \A j \in 1..(Len(t) + Len(b)) :
               (t \o b)[j] = IF j <= Len(t) THEN t[j] ELSE b[j - Len(t)]
      BY ONLY <1>3, <1>5, ConcatProperties
    <2>2. Len(t) + Len(b) = Len(s) + 1
      BY ONLY <1>1, <1>3, <1>5
    <2>3. QED
      BY ONLY <1>5, <2>1, <2>2
  <1>8. ASSUME NEW j \in 1..(Len(s) + 1)
        PROVE  (t \o b)[j] = IF j < i THEN s[j] ELSE IF j = i THEN x ELSE s[j - 1]
    <2>1. CASE j < i
      BY ONLY <1>1, <1>2, <1>5, <1>7, <2>1, j \in 1..(Len(s) + 1)
    <2>2. CASE j = i
      BY ONLY <1>1, <1>4, <1>5, <1>7, <2>2, j \in 1..(Len(s) + 1)
    <2>3. CASE ~(j < i) /\ j # i
      <3>1. (t \o b)[j] = b[j - i] /\ j - i \in 1..(Len(s) - i + 1)
        BY ONLY <1>1, <1>7, <2>3, j \in 1..(Len(s) + 1)
      <3>2. b[j - i] = s[i + (j - i) - 1] /\ i + (j - i) - 1 = j - 1
        BY ONLY <1>1, <1>3, <3>1, j \in 1..(Len(s) + 1)
      <3>3. QED
        BY ONLY <1>1, <2>3, <3>1, <3>2, j \in 1..(Len(s) + 1)
    <2>4. QED
      BY ONLY <2>1, <2>2, <2>3
  <1>9. QED
    BY ONLY <1>6, <1>7, <1>8

(* The same, for an element taken out. *)
LEMMA RemoveSeq ==
    ASSUME NEW S, NEW s \in Seq(S), NEW i \in 1..Len(s)
    PROVE  /\ RemoveAt(s, i) \in Seq(S) /\ Len(RemoveAt(s, i)) = Len(s) - 1
           /\ \A j \in 1..(Len(s) - 1) :
                RemoveAt(s, i)[j] = IF j < i THEN s[j] ELSE s[j + 1]
  <1> PICK a, b : a = SubSeq(s, 1, i - 1) /\ b = SubSeq(s, i + 1, Len(s))
    OBVIOUS
  <1>1. Len(s) \in Nat /\ i \in Nat /\ 1 <= i /\ i <= Len(s)
        /\ \A j \in 1..Len(s) : s[j] \in S
    OBVIOUS
  <1>2. a \in Seq(S) /\ Len(a) = i - 1 /\ \A j \in 1..(i - 1) : a[j] = s[j]
    BY <1>1, SubSeqProperties
  <1>3. b \in Seq(S) /\ Len(b) = Len(s) - i
        /\ \A j \in 1..(Len(s) - i) : b[j] = s[i + j]
    <2>1. i + 1 \in Int /\ Len(s) \in Int /\ \A j \in (i + 1)..Len(s) : s[j] \in S
      BY <1>1
    <2>2. /\ b \in Seq(S)
          /\ Len(b) = IF i + 1 <= Len(s) THEN Len(s) - (i + 1) + 1 ELSE 0
          /\ \A j \in 1..(Len(s) - (i + 1) + 1) : b[j] = s[(i + 1) + j - 1]
      BY ONLY <2>1, b = SubSeq(s, i + 1, Len(s)), SubSeqProperties
    <2>3. ASSUME NEW j \in 1..(Len(s) - i)
          PROVE  b[j] = s[i + j]
      <3>1. j \in 1..(Len(s) - (i + 1) + 1) /\ (i + 1) + j - 1 = i + j
        BY <1>1
      <3>2. QED
        BY ONLY <2>2, <3>1
    <2>4. Len(b) = Len(s) - i
      BY ONLY <1>1, <2>2
    <2>5. QED
      BY ONLY <2>2, <2>3, <2>4
  <1>4. RemoveAt(s, i) = a \o b
    BY DEF RemoveAt
  <1>5. a \o b \in Seq(S) /\ Len(a \o b) = Len(s) - 1
        /\ \A j \in 1..(Len(s) - 1) : (a \o b)[j] = IF j <= i - 1 THEN a[j] ELSE b[j - (i - 1)]
    BY ONLY <1>1, <1>2, <1>3, ConcatProperties
  <1>6. ASSUME NEW j \in 1..(Len(s) - 1)
        PROVE  (a \o b)[j] = IF j < i THEN s[j] ELSE s[j + 1]
    <2>1. CASE j < i
      BY ONLY <1>1, <1>2, <1>5, <2>1, j \in 1..(Len(s) - 1)
    <2>2. CASE ~(j < i)
      <3>1. (a \o b)[j] = b[j - (i - 1)] /\ j - (i - 1) \in 1..(Len(s) - i)
        BY ONLY <1>1, <1>5, <2>2, j \in 1..(Len(s) - 1)
      <3>2. b[j - (i - 1)] = s[i + (j - (i - 1))] /\ i + (j - (i - 1)) = j + 1
        BY ONLY <1>1, <1>3, <3>1, j \in 1..(Len(s) - 1)
      <3>3. QED
        BY ONLY <2>2, <3>1, <3>2
    <2>3. QED
      BY ONLY <2>1, <2>2
  <1>7. QED
    BY ONLY <1>4, <1>5, <1>6

(* Room for one more keeps every element. *)
LEMMA Grows ==
    ASSUME NEW m, Intact(m), NEW v \in Vec, m.vec[v].live, NEW ok \in BOOLEAN
    PROVE  Roomier(m, Grown(m, v, ok), v)
  <1> PICK n : n = IF m.vec[v].capacity > 0 THEN m.vec[v].capacity * 2 ELSE 4
    OBVIOUS
  <1>1. m.vec[v].capacity \in Nat
    BY ContentsFacts
  <1>2. n \in Nat
    BY <1>1
  <1>3. Roomier(m, m, v)
    BY <1>1, AltersSelf DEF Roomier
  <1>4. Roomier(m, reserve(m, v, n, ok), v)
    BY <1>2, Reserves
  <1>5. QED
    BY <1>3, <1>4 DEF Grown

(* An object with another size. *)
LEMMA SizedObject ==
    ASSUME NEW o \in Object, NEW n \in Nat, NEW f, f = [o EXCEPT !.size = n]
    PROVE  f \in Object /\ f.data = o.data /\ f.capacity = o.capacity /\ f.size = n
  BY DEF Object

(* A live object with another size is a live object. *)
LEMMA SizedLive ==
    ASSUME NEW o \in Object, NEW n \in Nat, NEW f, f = [o EXCEPT !.size = n], o.live
    PROVE  f.live
  BY DEF Object

(* The buffer of v is rewritten in place and its size changes. *)
Rewritten(m, v, o, n, cells, H, f) ==
    /\ o \in Object /\ o = m.vec[v] /\ o.live /\ o.data # Null
    /\ n \in Nat /\ n <= o.capacity /\ cells \in Seq(Cell) /\ Len(cells) = o.capacity
    /\ H \in Heap /\ H[o.data] = cells /\ \A b \in Buf : b # o.data => H[b] = m.heap[b]
    /\ f \in Object /\ f.data = o.data /\ f.capacity = o.capacity /\ f.size = n /\ f.live

(* The memory with another heap and another object in place of v. *)
With(m, v, H, f) == [heap |-> H, vec |-> [m.vec EXCEPT ![v] = f]]

(* Rewriting one buffer and its size within its capacity alters that vector. *)
LEMMA Rewrites ==
    ASSUME NEW m, Intact(m), NEW v \in Vec, NEW o, NEW n, NEW cells, NEW H, NEW f,
           Rewritten(m, v, o, n, cells, H, f),
           NEW k, k = With(m, v, H, f)
    PROVE  /\ Alters(m, k, v) /\ k.vec[v].capacity = o.capacity
           /\ Contents(k, v) \in Seq(Cell) /\ Len(Contents(k, v)) = n
           /\ \A i \in 1..n : Contents(k, v)[i] = cells[i]
  <1>1. /\ m.heap \in Heap /\ m.vec \in [Vec -> Object] /\ Null \notin Buf
    BY BufFacts DEF Intact, Memory
  <1>2. o \in Object /\ o.capacity \in Nat /\ o.data \in Buf
    BY ContentsFacts DEF Rewritten
  <1>3. f \in Object /\ f.data = o.data /\ f.capacity = o.capacity /\ f.size = n
    BY DEF Rewritten
  <1>4. f.live
    BY DEF Rewritten
  <1>5. H \in Heap /\ H[o.data] = cells /\ \A b \in Buf : b # o.data => H[b] = m.heap[b]
    BY DEF Rewritten
  <1>6. Admissible(m, v, H, f)
    <2>1. m.vec[v] = o /\ Len(cells) = o.capacity /\ n <= o.capacity /\ cells \in Seq(Cell)
      BY DEF Rewritten
    <2>2. QED
      BY ONLY <1>1, <1>2, <1>3, <1>4, <1>5, <2>1 DEF Admissible
  <1>7. k = [heap |-> H, vec |-> [m.vec EXCEPT ![v] = f]]
    BY DEF With
  <1>8. Alters(m, k, v)
    BY ONLY <1>6, <1>7, Intact(m), v \in Vec, OneAltered
  <1>9. k.vec[v] = f /\ k.heap = H
    BY ONLY <1>1, <1>7, v \in Vec
  <1>10. /\ Contents(k, v) \in Seq(Cell) /\ Len(Contents(k, v)) = k.vec[v].size
         /\ \A i \in 1..k.vec[v].size : Contents(k, v)[i] = k.heap[k.vec[v].data][i]
    <2>1. Intact(k)
      BY <1>8 DEF Alters
    <2>2. QED
      BY ONLY <2>1, v \in Vec, ContentsFacts
  <1>11. QED
    BY ONLY <1>3, <1>5, <1>8, <1>9, <1>10

(* An element is put at an index, with room for it. *)
LEMMA Places ==
    ASSUME NEW m, Intact(m), NEW v \in Vec, m.vec[v].live,
           m.vec[v].size < m.vec[v].capacity, NEW index \in 0..m.vec[v].size, NEW x \in Cell
    PROVE  LET k == Placed(m, v, index, x)
           IN  /\ Alters(m, k, v) /\ k.vec[v].capacity = m.vec[v].capacity
               /\ Contents(k, v) = InsertAt(Contents(m, v), index + 1, x)
  <1> PICK o, old, s, k : o = m.vec[v] /\ old = m.heap[o.data] /\ s = Contents(m, v)
                          /\ k = Placed(m, v, index, x)
    OBVIOUS
  <1>1. /\ o.size \in Nat /\ o.capacity \in Nat /\ o.size < o.capacity /\ o.data # Null
        /\ old \in Seq(Cell) /\ Len(old) = o.capacity
        /\ s \in Seq(Cell) /\ Len(s) = o.size /\ \A i \in 1..o.size : s[i] = old[i]
        /\ index \in Nat /\ index <= o.size
    BY ContentsFacts
  <1> DEFINE cell(i) == CASE i = index + 1 -> x
                          [] index + 1 < i /\ i <= o.size + 1 -> old[i - 1]
                          [] OTHER -> old[i]
  <1>2. \A i \in 1..o.capacity :
          /\ i < index + 1 => cell(i) = old[i]
          /\ i = index + 1 => cell(i) = x
          /\ i > index + 1 /\ i <= o.size + 1 => cell(i) = old[i - 1]
          /\ i > o.size + 1 => cell(i) = old[i]
    BY ONLY <1>1
  <1>3. \A i \in 1..o.capacity : cell(i) \in Cell
    <2>1. \A i \in 1..o.capacity : old[i] \in Cell
      BY ONLY <1>1
    <2>2. \A i \in 1..o.capacity : i > index + 1 => i - 1 \in 1..o.capacity
      BY ONLY <1>1
    <2> HIDE DEF cell
    <2>3. TAKE i \in 1..o.capacity
    <2>4. CASE i < index + 1
      BY ONLY <1>2, <2>1, <2>4, i \in 1..o.capacity
    <2>5. CASE i = index + 1
      BY ONLY <1>2, <2>5, i \in 1..o.capacity, x \in Cell
    <2>6. CASE i > index + 1 /\ i <= o.size + 1
      BY ONLY <1>2, <2>1, <2>2, <2>6, i \in 1..o.capacity
    <2>7. CASE i > o.size + 1
      BY ONLY <1>2, <2>1, <2>7, i \in 1..o.capacity
    <2>8. QED
      BY ONLY <1>1, <2>4, <2>5, <2>6, <2>7, i \in 1..o.capacity
  <1> PICK cells : cells = [i \in 1..o.capacity |-> cell(i)]
    OBVIOUS
  <1>4. k = [heap |-> [m.heap EXCEPT ![o.data] = cells],
             vec |-> [m.vec EXCEPT ![v].size = o.size + 1]]
    BY DEF Placed
  <1>5. \A i \in 1..o.capacity : cells[i] = cell(i)
    OBVIOUS
  <1> HIDE DEF cell
  <1>6. cells \in Seq(Cell) /\ Len(cells) = o.capacity
    BY ONLY <1>1, <1>3, cells = [i \in 1..o.capacity |-> cell(i)]
  <1>7. o.size + 1 \in Nat /\ o.size + 1 <= o.capacity
    BY ONLY <1>1
  <1>8. /\ Alters(m, k, v) /\ k.vec[v].capacity = o.capacity
        /\ Contents(k, v) \in Seq(Cell) /\ Len(Contents(k, v)) = o.size + 1
        /\ \A i \in 1..(o.size + 1) : Contents(k, v)[i] = cells[i]
    <2>1. PICK n, H, f : /\ n = o.size + 1 /\ H = [m.heap EXCEPT ![o.data] = cells]
                         /\ f = [o EXCEPT !.size = n]
      OBVIOUS
    <2>2. /\ n \in Nat /\ n <= o.capacity /\ o.data # Null /\ Len(cells) = o.capacity
          /\ cells \in Seq(Cell) /\ o.live /\ o = m.vec[v] /\ o \in Object
      BY <1>1, <1>6, <1>7, <2>1, ContentsFacts
    <2>3. k = With(m, v, H, f)
      BY <1>4, <2>1 DEF With
    <2>4. f \in Object /\ f.data = o.data /\ f.capacity = o.capacity /\ f.size = n
      BY ONLY <2>1, <2>2, SizedObject
    <2>5. f.live
      BY ONLY <2>1, <2>2, SizedLive
    <2>6. H \in Heap /\ H[o.data] = cells /\ \A b \in Buf : b # o.data => H[b] = m.heap[b]
      BY <1>1, <2>1, <2>2 DEF Heap, Intact, Memory, Object
    <2>7. /\ Alters(m, k, v) /\ k.vec[v].capacity = o.capacity
          /\ Contents(k, v) \in Seq(Cell) /\ Len(Contents(k, v)) = n
          /\ \A i \in 1..n : Contents(k, v)[i] = cells[i]
      <3>1. Rewritten(m, v, o, n, cells, H, f)
        BY ONLY <2>2, <2>4, <2>5, <2>6 DEF Rewritten
      <3>2. QED
        BY ONLY <2>3, <3>1, Intact(m), v \in Vec, Rewrites
    <2>8. QED
      BY <2>1, <2>7
  <1>9. Contents(k, v) = InsertAt(s, index + 1, x)
    <2> PICK t : t = InsertAt(s, index + 1, x)
      OBVIOUS
    <2>1. index + 1 \in 1..(Len(s) + 1)
      BY ONLY <1>1
    <2>2. /\ t \in Seq(Cell) /\ Len(t) = o.size + 1
          /\ \A j \in 1..(o.size + 1) :
               t[j] = IF j < index + 1 THEN s[j] ELSE IF j = index + 1 THEN x ELSE s[j - 1]
      BY ONLY <1>1, <2>1, x \in Cell, t = InsertAt(s, index + 1, x), InsertSeq
    <2>3. ASSUME NEW j \in 1..(o.size + 1)
          PROVE  t[j] = Contents(k, v)[j]
      <3>1. Contents(k, v)[j] = cell(j) /\ j \in 1..o.capacity
        BY ONLY <1>1, <1>5, <1>7, <1>8, <2>3
      <3>2. CASE j < index + 1
        <4>1. j \in 1..o.size /\ t[j] = s[j]
          BY ONLY <1>1, <2>2, <2>3, <3>2
        <4>2. cell(j) = old[j]
          BY ONLY <1>1, <1>2, <3>1, <3>2
        <4>3. QED
          BY ONLY <1>1, <3>1, <4>1, <4>2
      <3>3. CASE j = index + 1
        BY ONLY <1>1, <1>2, <2>2, <2>3, <3>1, <3>3
      <3>4. CASE j > index + 1
        <4>1. j - 1 \in 1..o.size /\ t[j] = s[j - 1]
          BY ONLY <1>1, <2>2, <2>3, <3>4
        <4>2. cell(j) = old[j - 1]
          BY ONLY <1>1, <1>2, <2>3, <3>1, <3>4
        <4>3. QED
          BY ONLY <1>1, <3>1, <4>1, <4>2
      <3>5. QED
        BY ONLY <1>1, <2>3, <3>2, <3>3, <3>4
    <2>4. QED
      BY ONLY <1>8, <2>2, <2>3, t = InsertAt(s, index + 1, x), SeqEqual
  <1>10. QED
    BY <1>8, <1>9

(* The element at an index is taken out. *)
LEMMA Erases ==
    ASSUME NEW m, Intact(m), NEW v \in Vec, m.vec[v].live,
           NEW index \in Nat, index < m.vec[v].size
    PROVE  LET k == erase(m, v, index)
           IN  /\ Alters(m, k, v) /\ k.vec[v].capacity = m.vec[v].capacity
               /\ Contents(k, v) = RemoveAt(Contents(m, v), index + 1)
  <1> PICK o, old, s, k : o = m.vec[v] /\ old = m.heap[o.data] /\ s = Contents(m, v)
                          /\ k = erase(m, v, index)
    OBVIOUS
  <1>1. /\ o.size \in Nat /\ o.capacity \in Nat /\ o.size <= o.capacity /\ o.data # Null
        /\ old \in Seq(Cell) /\ Len(old) = o.capacity
        /\ s \in Seq(Cell) /\ Len(s) = o.size /\ \A i \in 1..o.size : s[i] = old[i]
        /\ index \in Nat /\ index < o.size
    BY ContentsFacts
  <1> DEFINE cell(i) == IF index < i /\ i < o.size THEN old[i + 1] ELSE old[i]
  <1>2. \A i \in 1..o.capacity : cell(i) \in Cell
    <2>1. \A i \in 1..o.capacity : old[i] \in Cell
      BY ONLY <1>1
    <2>2. \A i \in 1..o.capacity : i < o.size => i + 1 \in 1..o.capacity
      BY ONLY <1>1
    <2>3. QED
      BY ONLY <2>1, <2>2
  <1> PICK cells : cells = [i \in 1..o.capacity |-> cell(i)]
    OBVIOUS
  <1>3. k = [heap |-> [m.heap EXCEPT ![o.data] = cells],
             vec |-> [m.vec EXCEPT ![v].size = o.size - 1]]
    <2>1. ~(index >= m.vec[v].size)
      BY <1>1
    <2>2. QED
      BY <2>1 DEF erase
  <1>4. \A i \in 1..o.capacity : cells[i] = cell(i)
    OBVIOUS
  <1> HIDE DEF cell
  <1>5. cells \in Seq(Cell) /\ Len(cells) = o.capacity
    <2>1. cells \in [1..o.capacity -> Cell]
      BY <1>2
    <2>2. QED
      BY ONLY <1>1, <2>1
  <1>6. o.size - 1 \in Nat /\ o.size - 1 <= o.capacity
    BY ONLY <1>1
  <1>7. /\ Alters(m, k, v) /\ k.vec[v].capacity = o.capacity
        /\ Contents(k, v) \in Seq(Cell) /\ Len(Contents(k, v)) = o.size - 1
        /\ \A i \in 1..(o.size - 1) : Contents(k, v)[i] = cells[i]
    <2>1. PICK n, H, f : /\ n = o.size - 1 /\ H = [m.heap EXCEPT ![o.data] = cells]
                         /\ f = [o EXCEPT !.size = n]
      OBVIOUS
    <2>2. /\ n \in Nat /\ n <= o.capacity /\ o.data # Null /\ Len(cells) = o.capacity
          /\ cells \in Seq(Cell) /\ o.live /\ o = m.vec[v] /\ o \in Object
      BY <1>1, <1>5, <1>6, <2>1, ContentsFacts
    <2>3. k = With(m, v, H, f)
      BY <1>3, <2>1 DEF With
    <2>4. f \in Object /\ f.data = o.data /\ f.capacity = o.capacity /\ f.size = n
      BY ONLY <2>1, <2>2, SizedObject
    <2>5. f.live
      BY ONLY <2>1, <2>2, SizedLive
    <2>6. H \in Heap /\ H[o.data] = cells /\ \A b \in Buf : b # o.data => H[b] = m.heap[b]
      BY <1>1, <2>1, <2>2 DEF Heap, Intact, Memory, Object
    <2>7. /\ Alters(m, k, v) /\ k.vec[v].capacity = o.capacity
          /\ Contents(k, v) \in Seq(Cell) /\ Len(Contents(k, v)) = n
          /\ \A i \in 1..n : Contents(k, v)[i] = cells[i]
      <3>1. Rewritten(m, v, o, n, cells, H, f)
        BY ONLY <2>2, <2>4, <2>5, <2>6 DEF Rewritten
      <3>2. QED
        BY ONLY <2>3, <3>1, Intact(m), v \in Vec, Rewrites
    <2>8. QED
      BY <2>1, <2>7
  <1>8. Contents(k, v) = RemoveAt(s, index + 1)
    <2> PICK t : t = RemoveAt(s, index + 1)
      OBVIOUS
    <2>1. index + 1 \in 1..Len(s)
      BY ONLY <1>1
    <2>2. /\ t \in Seq(Cell) /\ Len(t) = o.size - 1
          /\ \A j \in 1..(o.size - 1) : t[j] = IF j < index + 1 THEN s[j] ELSE s[j + 1]
      <3>1. /\ t \in Seq(Cell) /\ Len(t) = Len(s) - 1
            /\ \A j \in 1..(Len(s) - 1) : t[j] = IF j < index + 1 THEN s[j] ELSE s[j + 1]
        BY ONLY <1>1, <2>1, t = RemoveAt(s, index + 1), RemoveSeq
      <3>2. QED
        BY ONLY <1>1, <3>1
    <2>3. ASSUME NEW j \in 1..(o.size - 1)
          PROVE  t[j] = Contents(k, v)[j]
      <3>1. Contents(k, v)[j] = cell(j)
        <4>1. j \in 1..o.capacity
          BY ONLY <1>1, <2>3
        <4>2. QED
          BY ONLY <1>4, <1>7, <2>3, <4>1
      <3>2. j \in 1..o.size /\ j + 1 \in 1..o.size /\ j < o.size
        BY ONLY <1>1, <2>3
      <3>3. CASE j < index + 1
        BY ONLY <1>1, <2>2, <2>3, <3>1, <3>2, <3>3 DEF cell
      <3>4. CASE ~(j < index + 1)
        BY ONLY <1>1, <2>2, <2>3, <3>1, <3>2, <3>4 DEF cell
      <3>5. QED
        BY ONLY <3>3, <3>4
    <2>4. QED
      BY ONLY <1>7, <2>2, <2>3, t = RemoveAt(s, index + 1), SeqEqual
  <1>9. QED
    BY <1>7, <1>8

(* find gives an index of the vector, or its end. *)
LEMMA Finds ==
    ASSUME NEW m, Intact(m), NEW v \in Vec, NEW x
    PROVE  find(m, v, x) \in Nat
  <1> DEFINE at == {i \in 0..(m.vec[v].size - 1) : m.heap[m.vec[v].data][i + 1] = x}
  <1>1. m.vec[v].size \in Nat /\ at \subseteq Nat
    BY ContentsFacts
  <1>2. CASE at = {}
    BY <1>1, <1>2 DEF find
  <1>3. CASE at # {}
    <2>1. \E i \in at : \A j \in at : i <= j
      BY <1>1, <1>3, LeastNatural
    <2>2. (CHOOSE i \in at : \A j \in at : i <= j) \in at
      BY <2>1
    <2>3. find(m, v, x) = CHOOSE i \in at : \A j \in at : i <= j
      BY <1>3 DEF find
    <2>4. QED
      BY <1>1, <2>2, <2>3
  <1>4. QED
    BY <1>2, <1>3

-----------------------------------------------------------------------------
(* The refinement. *)

(* An operation on v that does not shrink its room. *)
LEMMA AbstractHolds ==
    ASSUME VectorInv, NEW v \in Vec, NEW k, mem' = k, Alters(mem, k, v),
           k.vec[v].capacity >= mem.vec[v].capacity
    PROVE  VectorInv' /\ Soft!Holds(v, SeqsOf(mem)'[v])
  <1>1. Intact(k) /\ Intact(mem)
    BY DEF Alters, VectorInv
  <1>2. VectorInv'
    BY <1>1 DEF VectorInv
  <1>3. SeqsOf(mem)' = SeqsOf(k) /\ RoomOf(mem)' = RoomOf(k)
    OBVIOUS
  <1>4. RoomOf(k)[v] = k.vec[v].capacity /\ RoomOf(mem)[v] = mem.vec[v].capacity
    BY <1>1 DEF RoomOf, Intact
  <1>5. k.vec[v].capacity >= Len(Contents(k, v))
    BY <1>1, ContentsFacts
  <1>6. SeqsOf(k)[v] = Contents(k, v)
    BY DEF SeqsOf
  <1>7. QED
    BY <1>2, <1>3, <1>4, <1>5, <1>6 DEF Alters, Soft!Holds

(* What every step has to be. *)
Refines == VectorInv' /\ (Soft!SoftNext \/ UNCHANGED Soft!soft_vars)

(* What the abstract state says of a vector. *)
LEMMA Views ==
    ASSUME NEW m, NEW v \in Vec
    PROVE  SeqsOf(m)[v] = Contents(m, v) /\ DOMAIN SeqsOf(m) = Vec
  BY DEF SeqsOf

(* A step that changes no memory is a stutter. *)
LEMMA SameRefines == ASSUME VectorInv, mem' = mem PROVE Refines
  BY DEF Refines, VectorInv, Soft!soft_vars, SeqsOf, RoomOf, Contents, Sound

(* A vector that is constructed or destroyed is an empty sequence. *)
LEMMA RenewRefines ==
    ASSUME VectorInv, NEW v \in Vec, NEW k, mem' = k, Alters(mem, k, v), Contents(k, v) = << >>
    PROVE  Refines
  <1>1. VectorInv'
    BY DEF Alters, VectorInv
  <1>2. SeqsOf(mem)' = SeqsOf(k) /\ RoomOf(mem)' = RoomOf(k)
    OBVIOUS
  <1>3. RoomOf(k)[v] = k.vec[v].capacity
    BY DEF RoomOf, Alters, Intact
  <1>4. Soft!Renewed(v)
    BY <1>2, <1>3 DEF Soft!Renewed, Alters
  <1>5. QED
    BY <1>1, <1>4 DEF Refines, Soft!SoftNext

(* A move carries the whole sequence and leaves an empty one. *)
LEMMA MoveRefines ==
    ASSUME VectorInv, NEW v \in Vec, NEW w \in Vec, v # w, mem.vec[w].live,
           mem' = steal(Free(mem, mem.vec[v].data), v, w)
    PROVE  Refines
  <1> PICK k : k = steal(Free(mem, mem.vec[v].data), v, w)
    OBVIOUS
  <1>1. /\ Intact(k)
        /\ SeqsOf(k) = [SeqsOf(mem) EXCEPT ![v] = SeqsOf(mem)[w], ![w] = << >>]
        /\ RoomOf(k) = [RoomOf(mem) EXCEPT ![v] = RoomOf(mem)[w], ![w] = 0]
    BY Steals DEF VectorInv
  <1>2. mem' = k
    OBVIOUS
  <1>3. SeqsOf(mem)' = SeqsOf(k) /\ RoomOf(mem)' = RoomOf(k) /\ VectorInv'
    BY ONLY <1>1, <1>2 DEF VectorInv
  <1>4. Soft!Moved(v, w)
    BY ONLY <1>1, <1>3, v # w DEF Soft!Moved
  <1>5. QED
    BY ONLY <1>3, <1>4, v \in Vec, w \in Vec DEF Refines, Soft!SoftNext

(* A change of the size keeps the common elements. *)
LEMMA ResizeRefines ==
    ASSUME VectorInv, NEW v \in Vec, NEW k, mem' = k, Alters(mem, k, v),
           k.vec[v].capacity >= mem.vec[v].capacity,
           \A i \in 1..Len(Contents(k, v)) : i <= mem.vec[v].size =>
              Contents(k, v)[i] = Contents(mem, v)[i]
    PROVE  Refines
  <1>1. VectorInv' /\ Soft!Holds(v, SeqsOf(mem)'[v])
    BY AbstractHolds
  <1>2. Intact(k) /\ Intact(mem) /\ SeqsOf(mem)' = SeqsOf(k)
    BY DEF Alters, VectorInv
  <1>3. SeqsOf(k)[v] = Contents(k, v) /\ SeqsOf(mem)[v] = Contents(mem, v)
    BY Views
  <1>4. /\ Contents(k, v) \in Seq(Cell) /\ Contents(mem, v) \in Seq(Cell)
        /\ Len(Contents(mem, v)) = mem.vec[v].size /\ mem.vec[v].size \in Nat
    BY <1>2, ContentsFacts
  <1>5. \A i \in DOMAIN Contents(mem, v) \cap DOMAIN Contents(k, v) :
          Contents(k, v)[i] = Contents(mem, v)[i]
    BY <1>4
  <1>6. Soft!Resized(v)
    BY ONLY <1>1, <1>2, <1>3, <1>5 DEF Soft!Resized
  <1>7. QED
    BY ONLY <1>1, <1>6, v \in Vec DEF Refines, Soft!SoftNext

(* More room for the same elements is a resize to the same length. *)
LEMMA RoomierRefines ==
    ASSUME VectorInv, NEW v \in Vec, NEW k, mem' = k, Roomier(mem, k, v)
    PROVE  Refines
  BY ResizeRefines DEF Roomier

(* An element put in is an insertion in the sequence. *)
LEMMA InsertRefines ==
    ASSUME VectorInv, NEW v \in Vec, mem.vec[v].live, NEW x \in Elem,
           NEW ok \in BOOLEAN, NEW index \in 0..mem.vec[v].size,
           NEW g, g = Grown(mem, v, ok), g.vec[v].size < g.vec[v].capacity,
           mem' = Placed(g, v, index, x)
    PROVE  Refines
  <1> PICK k : k = Placed(g, v, index, x)
    OBVIOUS
  <1>1. Intact(mem) /\ Roomier(mem, g, v)
    BY Grows DEF VectorInv
  <1>2. Intact(g) /\ g.vec[v].live /\ index \in 0..g.vec[v].size /\ x \in Cell
    BY <1>1 DEF Roomier, Alters, Cell
  <1>3. /\ Alters(g, k, v) /\ k.vec[v].capacity = g.vec[v].capacity
        /\ Contents(k, v) = InsertAt(Contents(g, v), index + 1, x)
    BY <1>2, Places
  <1>4. Alters(mem, k, v) /\ Contents(k, v) = InsertAt(Contents(mem, v), index + 1, x)
        /\ k.vec[v].capacity >= mem.vec[v].capacity
    BY <1>1, <1>3, AltersTrans DEF Roomier
  <1>5. mem' = k
    OBVIOUS
  <1>6. VectorInv' /\ Soft!Holds(v, SeqsOf(mem)'[v])
    BY ONLY <1>4, <1>5, VectorInv, v \in Vec, AbstractHolds
  <1>7. SeqsOf(mem)' = SeqsOf(k) /\ SeqsOf(k)[v] = Contents(k, v)
        /\ SeqsOf(mem)[v] = Contents(mem, v)
    BY ONLY <1>5, v \in Vec, Views
  <1>8. SeqsOf(mem)'[v] = InsertAt(SeqsOf(mem)[v], index + 1, x)
    BY ONLY <1>4, <1>7
  <1>9. index + 1 \in 1..(Len(SeqsOf(mem)[v]) + 1)
    <2>1. Len(Contents(mem, v)) = mem.vec[v].size /\ mem.vec[v].size \in Nat
      BY <1>1, ContentsFacts
    <2>2. QED
      BY <1>7, <2>1
  <1>10. Soft!Holds(v, InsertAt(SeqsOf(mem)[v], index + 1, x))
    BY ONLY <1>6, <1>8
  <1>11. \E y \in Elem, i \in 1..(Len(SeqsOf(mem)[v]) + 1) :
           Soft!Holds(v, InsertAt(SeqsOf(mem)[v], i, y))
    BY ONLY <1>9, <1>10, x \in Elem, Zenon
  <1>12. Soft!SoftNext
    BY ONLY <1>11, v \in Vec, Zenon DEF Soft!SoftNext, InsertAt, Soft!InsertAt
  <1>13. QED
    BY ONLY <1>6, <1>12 DEF Refines

(* An element taken out is a removal from the sequence. *)
LEMMA EraseRefines ==
    ASSUME VectorInv, NEW v \in Vec, mem.vec[v].live, NEW index \in Nat,
           mem' = erase(mem, v, index)
    PROVE  Refines
  <1>0. Intact(mem)
    BY DEF VectorInv
  <1>1. CASE index >= mem.vec[v].size
    BY <1>1, SameRefines DEF erase
  <1>2. CASE ~(index >= mem.vec[v].size)
    <2> PICK k : k = erase(mem, v, index)
      OBVIOUS
    <2>1. Len(Contents(mem, v)) = mem.vec[v].size /\ mem.vec[v].size \in Nat
          /\ mem.vec[v].capacity \in Nat /\ Contents(mem, v) \in Seq(Cell)
      BY <1>0, ContentsFacts
    <2>2. index < mem.vec[v].size /\ index + 1 \in DOMAIN Contents(mem, v)
      BY <1>2, <2>1
    <2>3. /\ Alters(mem, k, v) /\ k.vec[v].capacity = mem.vec[v].capacity
          /\ Contents(k, v) = RemoveAt(Contents(mem, v), index + 1)
      BY <1>0, <2>2, Erases
    <2>4. mem' = k /\ k.vec[v].capacity >= mem.vec[v].capacity
      BY <2>1, <2>3
    <2>5. VectorInv' /\ Soft!Holds(v, SeqsOf(mem)'[v])
      BY ONLY <2>3, <2>4, VectorInv, v \in Vec, AbstractHolds
    <2>6. SeqsOf(mem)' = SeqsOf(k) /\ SeqsOf(k)[v] = Contents(k, v)
          /\ SeqsOf(mem)[v] = Contents(mem, v)
      BY ONLY <2>4, v \in Vec, Views
    <2>7. SeqsOf(mem)'[v] = RemoveAt(SeqsOf(mem)[v], index + 1)
          /\ index + 1 \in DOMAIN SeqsOf(mem)[v]
      BY ONLY <2>2, <2>3, <2>6
    <2>8. Soft!Holds(v, RemoveAt(SeqsOf(mem)[v], index + 1))
      BY ONLY <2>5, <2>7
    <2>9. \E i \in DOMAIN SeqsOf(mem)[v] : Soft!Holds(v, RemoveAt(SeqsOf(mem)[v], i))
      BY ONLY <2>7, <2>8, Zenon
    <2>10. Soft!SoftNext
      BY ONLY <2>9, v \in Vec, Zenon DEF Soft!SoftNext, RemoveAt, Soft!RemoveAt
    <2>11. QED
      BY ONLY <2>5, <2>10 DEF Refines
  <1>3. QED
    BY <1>1, <1>2

-----------------------------------------------------------------------------
(* One case per operation of malloc_vector.h. *)
LEMMA StepRefinesVector == ASSUME VectorInv, [VectorNext]_vector_vars PROVE Refines
  <1>0. Intact(mem)
    BY DEF VectorInv
  <1>1. CASE UNCHANGED vector_vars
    BY <1>1, SameRefines DEF vector_vars
  <1>2. ASSUME NEW v \in Vec, Unborn(v), NEW n \in 0..2, NEW ok \in BOOLEAN,
               Step(construct(mem, v, n, ok))
        PROVE  Refines
    <2> PICK k : k = construct(mem, v, n, ok)
      OBVIOUS
    <2>1. mem' = k /\ Alters(mem, k, v) /\ Contents(k, v) = << >>
      BY <1>0, <1>2, Constructs DEF Step, Unborn
    <2>2. QED
      BY ONLY <2>1, VectorInv, v \in Vec, RenewRefines
  <1>3. ASSUME NEW v \in Vec, Unborn(v), NEW w \in Vec, ~Unborn(w), Step(steal(mem, v, w))
        PROVE  Refines
    <2>1. mem.vec[v].data = Null /\ v # w /\ mem.vec[w].live
      BY <1>0, <1>3 DEF Intact, Unborn
    <2>2. Free(mem, mem.vec[v].data) = mem
      BY <2>1 DEF Free
    <2>3. QED
      BY <1>3, <2>1, <2>2, MoveRefines DEF Step
  <1>4. ASSUME NEW v \in Vec, ~Unborn(v), Step(destroy(mem, v))
        PROVE  Refines
    BY <1>0, <1>4, Destroys, RenewRefines DEF Step
  <1>5. ASSUME NEW v \in Vec, ~Unborn(v), NEW w \in Vec, ~Unborn(w),
               Step(move_assign(mem, v, w))
        PROVE  Refines
    <2>1. CASE v = w
      BY <1>5, <2>1, SameRefines DEF Step, move_assign
    <2>2. CASE v # w
      BY <1>5, <2>2, MoveRefines DEF Step, move_assign, Unborn
    <2>3. QED
      BY <2>1, <2>2
  <1>6. ASSUME NEW v \in Vec, ~Unborn(v), NEW n \in 0..MaxLen, NEW ok \in BOOLEAN,
               Step(reserve(mem, v, n, ok))
        PROVE  Refines
    <2>1. n \in Nat
      BY VectorAssumption
    <2>2. QED
      BY <1>0, <1>6, <2>1, Reserves, RoomierRefines DEF Step, Unborn
  <1>7. ASSUME NEW v \in Vec, ~Unborn(v), NEW n \in 0..MaxLen, NEW ok \in BOOLEAN,
               Step(resize(mem, v, n, ok))
        PROVE  Refines
    <2> PICK r : r = reserve(mem, v, n, ok)
      OBVIOUS
    <2>1. n \in Nat
      BY VectorAssumption
    <2>2. Roomier(mem, r, v)
      BY <1>0, <1>7, <2>1, Reserves DEF Unborn
    <2>3. CASE ~(n <= r.vec[v].capacity)
      BY <1>7, <2>2, <2>3, RoomierRefines DEF Step, resize
    <2>4. CASE n <= r.vec[v].capacity
      <3> PICK k : k = [r EXCEPT !.vec[v].size = n]
        OBVIOUS
      <3>1. mem' = k
        BY <1>7, <2>4 DEF Step, resize
      <3>2. Intact(r) /\ r.vec[v].live /\ r.vec[v].size = mem.vec[v].size
            /\ Contents(r, v) = Contents(mem, v) /\ Alters(mem, r, v)
            /\ r.vec[v].capacity >= mem.vec[v].capacity
        BY <1>7, <2>2 DEF Roomier, Alters, Unborn
      <3>3. /\ Alters(r, k, v) /\ k.vec[v].capacity = r.vec[v].capacity
            /\ Len(Contents(k, v)) = n
            /\ \A i \in 1..n : i <= r.vec[v].size => Contents(k, v)[i] = Contents(r, v)[i]
        BY <2>1, <2>4, <3>2, Sizes
      <3>4. Alters(mem, k, v) /\ k.vec[v].capacity >= mem.vec[v].capacity
        BY <3>2, <3>3, AltersTrans
      <3>5. \A i \in 1..Len(Contents(k, v)) : i <= mem.vec[v].size =>
               Contents(k, v)[i] = Contents(mem, v)[i]
        BY ONLY <3>2, <3>3
      <3>6. QED
        BY ONLY <3>1, <3>4, <3>5, VectorInv, v \in Vec, ResizeRefines
    <2>5. QED
      BY <2>3, <2>4
  <1>8. ASSUME NEW v \in Vec, ~Unborn(v), NEW n \in Nat, n <= mem.vec[v].size,
               NEW k, mem' = k, k = [mem EXCEPT !.vec[v].size = n]
        PROVE  Refines
    <2>1. mem.vec[v].size <= mem.vec[v].capacity /\ mem.vec[v].size \in Nat
          /\ mem.vec[v].capacity \in Nat
      BY <1>0, ContentsFacts
    <2>2. n <= mem.vec[v].capacity /\ mem.vec[v].live
      BY <1>8, <2>1 DEF Unborn
    <2>3. /\ Alters(mem, k, v) /\ k.vec[v].capacity = mem.vec[v].capacity
          /\ Len(Contents(k, v)) = n
          /\ \A i \in 1..n : i <= mem.vec[v].size => Contents(k, v)[i] = Contents(mem, v)[i]
      BY <1>0, <1>8, <2>2, Sizes
    <2>4. k.vec[v].capacity >= mem.vec[v].capacity
          /\ \A i \in 1..Len(Contents(k, v)) : i <= mem.vec[v].size =>
               Contents(k, v)[i] = Contents(mem, v)[i]
      BY ONLY <2>1, <2>3
    <2>5. QED
      BY ONLY <1>8, <2>3, <2>4, VectorInv, v \in Vec, ResizeRefines
  <1>9. ASSUME NEW v \in Vec, ~Unborn(v), Step(pop_back(mem, v))
        PROVE  Refines
    <2> PICK n : n = IF mem.vec[v].size > 0 THEN mem.vec[v].size - 1 ELSE 0
      OBVIOUS
    <2>1. mem.vec[v].size \in Nat
      BY <1>0, ContentsFacts
    <2>2. n \in Nat /\ n <= mem.vec[v].size
      BY <2>1
    <2>3. mem' = [mem EXCEPT !.vec[v].size = n]
      BY <1>9 DEF Step, pop_back
    <2>4. QED
      BY <1>8, <1>9, <2>2, <2>3
  <1>10. ASSUME NEW v \in Vec, ~Unborn(v), Step(vector_clear(mem, v))
         PROVE  Refines
    <2>1. mem' = [mem EXCEPT !.vec[v].size = 0] /\ 0 <= mem.vec[v].size
      BY <1>0, <1>10, ContentsFacts DEF Step, vector_clear
    <2>2. QED
      BY <1>8, <1>10, <2>1
  <1>11. ASSUME NEW v \in Vec, ~Unborn(v), NEW i \in 0..mem.vec[v].size,
                Step(erase(mem, v, i))
         PROVE  Refines
    <2>1. i \in Nat
      BY <1>0, ContentsFacts
    <2>2. QED
      BY <1>11, <2>1, EraseRefines DEF Step, Unborn
  <1>12. ASSUME NEW v \in Vec, ~Unborn(v), NEW x \in Elem,
                Step(erase(mem, v, find(mem, v, x)))
         PROVE  Refines
    BY <1>0, <1>12, Finds, EraseRefines DEF Step, Unborn
  <1>13. ASSUME NEW v \in Vec, ~Unborn(v), NEW x \in Elem, NEW ok \in BOOLEAN,
                Step(push_back(mem, v, x, ok))
         PROVE  Refines
    <2> PICK g : g = Grown(mem, v, ok)
      OBVIOUS
    <2>1. Roomier(mem, g, v) /\ mem.vec[v].live
      BY <1>0, <1>13, Grows DEF Unborn
    <2>2. CASE ~(g.vec[v].size < g.vec[v].capacity)
      BY <1>13, <2>1, <2>2, RoomierRefines DEF Step, push_back
    <2>3. CASE g.vec[v].size < g.vec[v].capacity
      <3>1. mem' = Placed(g, v, mem.vec[v].size, x)
        BY <1>13, <2>1, <2>3 DEF Step, push_back, Roomier
      <3>2. mem.vec[v].size \in 0..mem.vec[v].size
        BY <1>0, ContentsFacts
      <3>3. QED
        BY <2>1, <2>3, <3>1, <3>2, InsertRefines
    <2>4. QED
      BY <2>2, <2>3
  <1>14. ASSUME NEW v \in Vec, ~Unborn(v), NEW x \in Elem, NEW ok \in BOOLEAN,
                NEW i \in 0..mem.vec[v].size, Step(insert(mem, v, i, x, ok))
         PROVE  Refines
    <2> PICK g : g = Grown(mem, v, ok)
      OBVIOUS
    <2>1. mem.vec[v].live
      BY <1>14 DEF Unborn
    <2>2. CASE i > mem.vec[v].size \/ g.vec[v].size >= g.vec[v].capacity
      BY <1>14, <2>2, SameRefines DEF Step, insert
    <2>3. CASE ~(i > mem.vec[v].size \/ g.vec[v].size >= g.vec[v].capacity)
      <3>1. mem' = Placed(g, v, i, x)
        BY <1>14, <2>3 DEF Step, insert
      <3>2. g.vec[v].size < g.vec[v].capacity
        <4>1. Intact(g)
          BY <1>0, <2>1, Grows DEF Roomier, Alters
        <4>2. g.vec[v].size \in Nat /\ g.vec[v].capacity \in Nat
          BY <4>1, ContentsFacts
        <4>3. QED
          BY <2>3, <4>2
      <3>3. QED
        BY <2>1, <3>1, <3>2, InsertRefines
    <2>4. QED
      BY <2>2, <2>3
  <1>15. ASSUME NEW v \in Vec, Unborn(v),
                \/ \E n \in 0..2, ok \in BOOLEAN : Step(construct(mem, v, n, ok))
                \/ \E w \in Vec : ~Unborn(w) /\ Step(steal(mem, v, w))
         PROVE  Refines
    BY ONLY <1>2, <1>3, <1>15, v \in Vec
  <1>16. ASSUME NEW v \in Vec, ~Unborn(v),
                \/ Step(destroy(mem, v))
                \/ \E w \in Vec : ~Unborn(w) /\ Step(move_assign(mem, v, w))
                \/ \E n \in 0..MaxLen, ok \in BOOLEAN :
                     Step(reserve(mem, v, n, ok)) \/ Step(resize(mem, v, n, ok))
                \/ Step(pop_back(mem, v))
                \/ Step(vector_clear(mem, v))
                \/ \E i \in 0..mem.vec[v].size : Step(erase(mem, v, i))
                \/ \E x \in Elem : Step(erase(mem, v, find(mem, v, x)))
                \/ \E x \in Elem, ok \in BOOLEAN :
                     \/ Step(push_back(mem, v, x, ok))
                     \/ \E i \in 0..mem.vec[v].size : Step(insert(mem, v, i, x, ok))
         PROVE  Refines
    BY ONLY <1>4, <1>5, <1>6, <1>7, <1>9, <1>10, <1>11, <1>12, <1>13, <1>14, <1>16, v \in Vec
  <1>17. CASE VectorNext
    BY ONLY <1>15, <1>16, <1>17 DEF VectorNext
  <1>18. QED
    BY <1>1, <1>17

(* malloc_vector.h: for any number of vectors, every length and every      *)
(* pattern of failing mallocs, each buffer has one owner that knows its    *)
(* capacity, none leaks, and a dead vector owns none.                      *)
THEOREM VectorInvariance == VectorSpec => []VectorInv
  <1>1. VectorInit => VectorInv
    <2> SUFFICES ASSUME VectorInit PROVE Intact(mem)
      BY DEF VectorInv
    <2>1. mem.heap = [b \in Buf |-> Freed] /\ mem.vec = [v \in Vec |-> Gone]
      BY DEF VectorInit
    <2>2. Gone \in Object /\ Gone.data = Null /\ Gone.size = 0 /\ Gone.capacity = 0
      BY EmptyFacts
    <2>3. mem \in Memory
      BY <2>2 DEF VectorInit, Memory, Heap
    <2>4. \A v \in Vec : mem.vec[v] = Gone
      BY <2>1
    <2>5. \A b \in Buf : mem.heap[b] = Freed /\ b # Null
      BY <2>1, BufFacts
    <2>6. QED
      BY ONLY <2>2, <2>3, <2>4, <2>5 DEF Intact, Sound
  <1>2. VectorInv /\ [VectorNext]_vector_vars => VectorInv'
    BY StepRefinesVector DEF Refines
  <1>3. QED
    BY <1>1, <1>2, PTL DEF VectorSpec

(* malloc_vector.h: for any number of vectors and every length, whatever   *)
(* malloc refuses, the vectors are sequences: growth keeps every element,  *)
(* a move carries them all, insertion and erasure shift exactly the rest.  *)
THEOREM VectorsAreSequences == VectorSpec => ImplementsVector
  <1>1. VectorInit => Soft!SoftInit
    <2> SUFFICES ASSUME VectorInit PROVE Soft!SoftInit
      OBVIOUS
    <2>1. \A v \in Vec : mem.vec[v] = Gone
      BY DEF VectorInit
    <2>2. \A b \in Buf : mem.heap[b] = Freed /\ b # Null
      BY BufFacts DEF VectorInit
    <2>3. Gone.data = Null /\ Gone.size = 0 /\ Gone.capacity = 0
      BY EmptyFacts
    <2>4. Sound(mem)
      BY ONLY <2>1, <2>2, <2>3 DEF Sound
    <2>5. \A v \in Vec : Contents(mem, v) = << >>
      BY <2>1, <2>3, <2>4 DEF Contents
    <2>6. QED
      BY <2>1, <2>3, <2>4, <2>5 DEF Soft!SoftInit, SeqsOf, RoomOf
  <1>2. VectorInv /\ [VectorNext]_vector_vars => [Soft!SoftNext]_(Soft!soft_vars)
    BY StepRefinesVector DEF Refines
  <1>3. QED
    BY <1>1, <1>2, VectorInvariance, PTL DEF VectorSpec, ImplementsVector, Soft!SoftSpec

-----------------------------------------------------------------------------
(* Threads under main.                                                     *)
Proved == INSTANCE ThreadCtlProofs WITH Ctl <- 0..K, Caller <- {Main}, Nobody <- NoBlock

(* The inductive step of the control blocks, taken over from ThreadCtl. *)
LEMMA StepCtl == CtlInv /\ [CtlNext]_ctlVars => CtlInv'
  <1>1. Proved!NobodyAssumption
    BY RosterAssumption DEF Proved!NobodyAssumption, NoBlock
  <1>2. Proved!CtlInv /\ [Proved!CtlNext]_(Proved!ctlVars) => Proved!CtlInv'
    BY <1>1, Proved!StepCtlInv
  <1> USE DEF CtlInv, CtlTypeOK, ThreadInv, CallInv, NoTrap, StopSticks, State,
              TrampolinePc, Idle, ctlVars, Proved!CtlInv, Proved!CtlTypeOK,
              Proved!ThreadInv, Proved!CallInv, Proved!NoTrap, Proved!StopSticks,
              Proved!State, Proved!TrampolinePc, Proved!Idle, Proved!ctlVars
  <1>3. CtlInv <=> Proved!CtlInv
    OBVIOUS
  <1>4. CtlInv' <=> Proved!CtlInv'
    OBVIOUS
  <1>5. CtlNext <=> Proved!CtlNext
    BY DEF CtlNext, Owner, Trampoline, install_pipes, start, join, request_stop,
           stop_cas, GoTo, publish_tid, attach, promote, leave_loop, publish_stopped,
           Proved!CtlNext, Proved!Owner, Proved!Trampoline, Proved!install_pipes,
           Proved!start, Proved!join, Proved!request_stop, Proved!stop_cas,
           Proved!GoTo, Proved!publish_tid, Proved!attach, Proved!promote,
           Proved!leave_loop, Proved!publish_stopped
  <1>6. QED
    BY <1>2, <1>3, <1>4, <1>5

(* Before main has done anything. *)
LEMMA InitSupInv == Init => SupInv
  <1> SUFFICES ASSUME Init PROVE SupInv
    OBVIOUS
  <1> USE RosterAssumption DEF Worker, Acceptor, NoBlock
  <1>1. Idle \in [ctl : 0..K \cup {NoBlock}, observed : State]
    BY DEF Idle, State
  <1>2. CtlTypeOK
    BY <1>1 DEF Init, CtlInit, CtlTypeOK, State, TrampolinePc
  <1>3. CtlInv
    <2>1. \A c \in 0..K : ThreadInv(c)
      BY DEF Init, CtlInit, ThreadInv
    <2>2. CallInv /\ NoTrap /\ StopSticks
      BY DEF Init, CtlInit, CallInv, NoTrap, StopSticks
    <2>3. QED
      BY <1>2, <2>1, <2>2 DEF CtlInv
  <1>4. TypeOK
    <2>1. nth \in Worker
      BY DEF Init
    <2>2. mpc \in MainPc /\ pending \in BOOLEAN
      BY DEF Init, MainPc
    <2>3. QED
      BY <1>2, <2>1, <2>2 DEF TypeOK
  <1>5. ASSUME NEW w \in Worker PROVE WorkerInv(w)
    BY <1>5 DEF Init, CtlInit, WorkerInv, Started, Joined, Up, AcceptorAlive
  <1>6. AcceptorInv /\ StopInv
    BY DEF Init, CtlInit, AcceptorInv, StopInv, AcceptorAlive, AcceptorGone
  <1>7. QED
    BY <1>3, <1>4, <1>5, <1>6 DEF SupInv

(* main wires before it starts, starts once and joins what it started: its *)
(* steps are steps of an owner or leave the control blocks alone.          *)
LEMMA StepIsOwners ==
    ASSUME SupInv, [Next]_vars
    PROVE  [CtlNext]_ctlVars
  <1> USE RosterAssumption DEF Worker, Acceptor, NoBlock
  <1>0. nth \in 0..K /\ K \in 0..K /\ Main \in {Main} /\ nth \in Worker
    BY DEF SupInv, TypeOK
  <1>1. CASE construct_worker
    <2>1. ~pipes[nth]
      BY <1>0, <1>1 DEF construct_worker, SupInv, WorkerInv
    <2>2. QED
      BY <1>0, <1>1, <2>1 DEF construct_worker, CtlNext, Owner
  <1>2. CASE start_worker
    <2>1. pipes[nth] /\ tpc[nth] = "none"
      BY <1>0, <1>2 DEF start_worker, SupInv, WorkerInv, Started
    <2>2. QED
      BY <1>0, <1>2, <2>1 DEF start_worker, CtlNext, Owner
  <1>3. CASE construct_acceptor
    <2>1. ~pipes[K]
      BY <1>3 DEF construct_acceptor, SupInv, AcceptorInv, AcceptorAlive, AcceptorGone
    <2>2. QED
      BY <1>0, <1>3, <2>1 DEF construct_acceptor, CtlNext, Owner
  <1>4. CASE start_acceptor
    <2>1. pipes[K] /\ tpc[K] = "none"
      BY <1>4 DEF start_acceptor, SupInv, AcceptorInv, AcceptorAlive, AcceptorGone
    <2>2. QED
      BY <1>0, <1>4, <2>1 DEF start_acceptor, CtlNext, Owner
  <1>5. CASE join_acceptor
    <2>1. joinable[K]
      BY <1>5 DEF join_acceptor, SupInv, AcceptorInv, AcceptorAlive
    <2>2. QED
      BY <1>0, <1>5, <2>1 DEF join_acceptor, CtlNext, Owner
  <1>6. CASE join_worker
    <2>1. joinable[nth]
      BY <1>0, <1>6 DEF join_worker, SupInv, WorkerInv, Started, Joined
    <2>2. QED
      BY <1>0, <1>6, <2>1 DEF join_worker, CtlNext, Owner
  <1>7. CASE return
    <2>1. \A c \in 0..K : c \in Worker \/ c = K
      OBVIOUS
    <2>2. \A c \in 0..K : ~joinable[c]
      BY <1>7, <2>1 DEF return, SupInv, WorkerInv, AcceptorInv, Joined, AcceptorAlive
    <2>3. trapped' = trapped
      BY <1>7, <2>2 DEF return, SupInv, CtlInv, CtlTypeOK
    <2>4. QED
      BY <1>7, <2>3 DEF return, ctlVars
  <1>8. CASE stop_acceptor \/ stop_worker
    BY <1>0, <1>8 DEF stop_acceptor, stop_worker, CtlNext
  <1>9. CASE worker_barrier \/ acceptor_barrier \/ sigwait \/ raise_signal
    BY <1>9 DEF worker_barrier, acceptor_barrier, sigwait, raise_signal, threadVars,
                ctlVars
  <1>10. CASE MainCas \/ \E c \in 0..K : RoleThread(c)
    BY <1>0, <1>10 DEF MainCas, RoleThread, CtlNext
  <1>11. CASE UNCHANGED vars \/ Terminated
    BY <1>11 DEF vars, ctlVars, Terminated
  <1>12. QED
    BY <1>1, <1>2, <1>3, <1>4, <1>5, <1>6, <1>7, <1>8, <1>9, <1>10, <1>11
       DEF Next, MainStep

(* A step of a role thread leaves the order of main's steps as it is. *)
LEMMA RoleThreadSupInv ==
    ASSUME SupInv, CtlInv', NEW c \in 0..K, RoleThread(c)
    PROVE  SupInv'
  <1> USE RosterAssumption DEF Worker, Acceptor, NoBlock
  <1>1. UNCHANGED <<mpc, nth, pending, pipes, joinable, call, asked>>
    BY DEF RoleThread, Trampoline, publish_tid, attach, promote, leave_loop,
           publish_stopped, mainVars
  <1>2. \A d \in 0..K : /\ tpc'[d] = "none" <=> tpc[d] = "none"
                        /\ tpc[d] = "exit" => tpc'[d] = "exit"
    BY DEF RoleThread, Trampoline, publish_tid, attach, promote, leave_loop,
           publish_stopped, GoTo, SupInv, CtlInv, CtlTypeOK
  <1>3. \A d \in 0..K : _state[d] = "running" => _state'[d] = "running"
    BY DEF RoleThread, Trampoline, publish_tid, attach, promote, leave_loop,
           publish_stopped, GoTo, SupInv, CtlInv, CtlTypeOK, ThreadInv
  <1>4. TypeOK'
    BY <1>1 DEF SupInv, TypeOK, CtlInv
  <1>5. ASSUME NEW w \in Worker PROVE WorkerInv(w)'
    BY <1>1, <1>2, <1>3 DEF SupInv, WorkerInv, Started, Joined, Up
  <1>6. AcceptorInv' /\ StopInv'
    BY <1>1, <1>2 DEF SupInv, AcceptorInv, StopInv
  <1>7. QED
    BY <1>4, <1>5, <1>6 DEF SupInv

(* A compare-exchange of main touches the state of the block it is         *)
(* stopping, which is no worker while the acceptor is alive.               *)
LEMMA MainCasSupInv ==
    ASSUME SupInv, CtlInv', MainCas
    PROVE  SupInv'
  <1> USE RosterAssumption DEF Worker, Acceptor, NoBlock
  <1>1. UNCHANGED <<mpc, nth, pending, pipes, joinable, tpc>> /\ call[Main] # Idle
    BY DEF MainCas, stop_cas, mainVars
  <1>2. mpc \in {"join_acceptor"} \cup AcceptorGone
    BY <1>1 DEF SupInv, StopInv
  <1>3. mpc = "join_acceptor" => call[Main].ctl = K
    BY <1>1 DEF SupInv, StopInv
  <1>4. \A w \in Worker : w # call[Main].ctl => _state'[w] = _state[w]
    BY DEF MainCas, stop_cas, SupInv, CtlInv, CtlTypeOK
  <1>5. TypeOK'
    BY <1>1 DEF SupInv, TypeOK, CtlInv
  <1>6. ASSUME NEW w \in Worker PROVE WorkerInv(w)'
    <2>1. Up(w) => _state'[w] = "running"
      BY <1>2, <1>3, <1>4 DEF SupInv, WorkerInv, Up, AcceptorAlive, AcceptorGone
    <2>2. QED
      BY <1>1, <2>1 DEF SupInv, WorkerInv, Started, Joined, Up
  <1>7. AcceptorInv'
    BY <1>1 DEF SupInv, AcceptorInv
  <1>8. StopInv'
    <2>1. asked' \subseteq asked \cup {call[Main].ctl}
      BY DEF MainCas, stop_cas
    <2>2. call' \in [{Main} -> [ctl : 0..K \cup {NoBlock}, observed : State]]
      BY DEF CtlInv, CtlTypeOK
    <2>3. call'[Main] # Idle => call'[Main].ctl = call[Main].ctl
      BY DEF MainCas, stop_cas, SupInv, CtlInv, CtlTypeOK
    <2>4. QED
      BY <1>1, <1>2, <1>3, <2>1, <2>3 DEF SupInv, StopInv, AcceptorGone
  <1>9. QED
    BY <1>5, <1>6, <1>7, <1>8 DEF SupInv

(* The boot steps of main: wiring, starting and the barriers. *)
LEMMA BootSupInv ==
    ASSUME SupInv, CtlInv',
           \/ construct_worker \/ start_worker \/ worker_barrier
           \/ construct_acceptor \/ start_acceptor \/ acceptor_barrier
    PROVE  SupInv'
  <1> USE RosterAssumption DEF Worker, Acceptor, NoBlock
  <1>0. nth \in Worker /\ nth \in 0..K /\ mpc \in MainPc /\ CtlTypeOK /\ CtlTypeOK'
    BY DEF SupInv, TypeOK, CtlInv
  <1>1. CASE construct_worker
    <2>1. /\ pipes' = [pipes EXCEPT ![nth] = TRUE]
          /\ UNCHANGED <<_state, _kernel_tid, joinable, tpc, call, asked, pending>>
          /\ mpc = "construct"
      BY <1>1 DEF construct_worker, install_pipes
    <2>2. \/ nth + 1 < K /\ nth' = nth + 1 /\ mpc' = "construct"
          \/ nth + 1 = K /\ nth' = 0 /\ mpc' = "start"
      BY <1>0, <1>1, <2>1 DEF construct_worker, Advance
    <2>3. TypeOK'
      BY <1>0, <2>1, <2>2 DEF SupInv, TypeOK, MainPc
    <2>4. ASSUME NEW w \in Worker PROVE WorkerInv(w)'
      BY <1>0, <2>1, <2>2, <2>4
         DEF SupInv, WorkerInv, Started, Joined, Up, AcceptorAlive, CtlTypeOK
    <2>5. AcceptorInv' /\ StopInv'
      BY <1>0, <2>1, <2>2
         DEF SupInv, AcceptorInv, StopInv, AcceptorAlive, AcceptorGone, CtlTypeOK
    <2>6. QED
      BY <2>3, <2>4, <2>5 DEF SupInv
  <1>2. CASE start_worker
    <2>1. pipes[nth] /\ ~joinable[nth] /\ mpc = "start"
      BY <1>0, <1>2 DEF start_worker, SupInv, WorkerInv, Started
    <2>2. /\ joinable' = [joinable EXCEPT ![nth] = TRUE]
          /\ tpc' = [tpc EXCEPT ![nth] = "entry"]
          /\ UNCHANGED <<_state, _kernel_tid, pipes, call, asked, pending>>
      BY <1>2, <2>1 DEF start_worker, start
    <2>3. \/ nth + 1 < K /\ nth' = nth + 1 /\ mpc' = "start"
          \/ nth + 1 = K /\ nth' = 0 /\ mpc' = "barrier"
      BY <1>0, <1>2, <2>1 DEF start_worker, Advance
    <2>4. TypeOK'
      BY <1>0, <2>2, <2>3 DEF SupInv, TypeOK, MainPc
    <2>5. ASSUME NEW w \in Worker PROVE WorkerInv(w)'
      BY <1>0, <2>1, <2>2, <2>3, <2>5
         DEF SupInv, WorkerInv, Started, Joined, Up, AcceptorAlive, CtlTypeOK
    <2>6. AcceptorInv' /\ StopInv'
      BY <1>0, <2>1, <2>2, <2>3
         DEF SupInv, AcceptorInv, StopInv, AcceptorAlive, AcceptorGone, CtlTypeOK
    <2>7. QED
      BY <2>4, <2>5, <2>6 DEF SupInv
  <1>3. CASE worker_barrier
    <2>1. /\ UNCHANGED <<_state, _kernel_tid, pipes, joinable, tpc, call, asked, pending>>
          /\ mpc = "barrier" /\ _state[nth] = "running"
      BY <1>3 DEF worker_barrier, threadVars
    <2>2. \/ nth + 1 < K /\ nth' = nth + 1 /\ mpc' = "barrier"
          \/ nth + 1 = K /\ nth' = 0 /\ mpc' = "construct_acceptor"
      BY <1>0, <1>3, <2>1 DEF worker_barrier, Advance
    <2>3. TypeOK'
      BY <1>0, <2>1, <2>2 DEF SupInv, TypeOK, MainPc
    <2>4. ASSUME NEW w \in Worker PROVE WorkerInv(w)'
      BY <1>0, <2>1, <2>2, <2>4
         DEF SupInv, WorkerInv, Started, Joined, Up, AcceptorAlive, CtlTypeOK
    <2>5. AcceptorInv' /\ StopInv'
      BY <1>0, <2>1, <2>2
         DEF SupInv, AcceptorInv, StopInv, AcceptorAlive, AcceptorGone, CtlTypeOK
    <2>6. QED
      BY <2>3, <2>4, <2>5 DEF SupInv
  <1>4. CASE construct_acceptor
    <2>1. /\ pipes' = [pipes EXCEPT ![K] = TRUE]
          /\ UNCHANGED <<_state, _kernel_tid, joinable, tpc, call, asked, pending, nth>>
          /\ mpc = "construct_acceptor" /\ mpc' = "start_acceptor"
      BY <1>4 DEF construct_acceptor, install_pipes
    <2>2. QED
      BY <1>0, <2>1
         DEF SupInv, TypeOK, MainPc, WorkerInv, Started, Joined, Up, AcceptorInv,
             StopInv, AcceptorAlive, AcceptorGone, CtlTypeOK
  <1>5. CASE start_acceptor
    <2>1. pipes[K] /\ ~joinable[K] /\ mpc = "start_acceptor" /\ mpc' = "acceptor_barrier"
      BY <1>5 DEF start_acceptor, SupInv, AcceptorInv, AcceptorAlive, AcceptorGone
    <2>2. /\ joinable' = [joinable EXCEPT ![K] = TRUE]
          /\ tpc' = [tpc EXCEPT ![K] = "entry"]
          /\ UNCHANGED <<_state, _kernel_tid, pipes, call, asked, pending, nth>>
      BY <1>5, <2>1 DEF start_acceptor, start
    <2>3. QED
      BY <1>0, <2>1, <2>2
         DEF SupInv, TypeOK, MainPc, WorkerInv, Started, Joined, Up, AcceptorInv,
             StopInv, AcceptorAlive, AcceptorGone, CtlTypeOK
  <1>6. CASE acceptor_barrier
    <2>1. /\ UNCHANGED <<_state, _kernel_tid, pipes, joinable, tpc, call, asked, pending, nth>>
          /\ mpc = "acceptor_barrier" /\ mpc' = "sigwait"
      BY <1>6 DEF acceptor_barrier, threadVars
    <2>2. QED
      BY <1>0, <2>1
         DEF SupInv, TypeOK, MainPc, WorkerInv, Started, Joined, Up, AcceptorInv,
             StopInv, AcceptorAlive, AcceptorGone
  <1>7. QED
    BY <1>1, <1>2, <1>3, <1>4, <1>5, <1>6

(* The shutdown steps of main: the acceptor first, then the workers. *)
LEMMA ShutdownSupInv ==
    ASSUME SupInv, CtlInv',
           \/ sigwait \/ stop_acceptor \/ join_acceptor
           \/ stop_worker \/ join_worker \/ return
    PROVE  SupInv'
  <1> USE RosterAssumption DEF Worker, Acceptor, NoBlock
  <1>0. nth \in Worker /\ nth \in 0..K /\ mpc \in MainPc /\ CtlTypeOK /\ CtlTypeOK'
    BY DEF SupInv, TypeOK, CtlInv
  <1>1. CASE sigwait
    <2>1. /\ UNCHANGED <<_state, _kernel_tid, pipes, joinable, tpc, call, asked, nth>>
          /\ mpc = "sigwait" /\ mpc' = "stop_acceptor" /\ pending' = FALSE
      BY <1>1 DEF sigwait, threadVars
    <2>2. QED
      BY <1>0, <2>1
         DEF SupInv, TypeOK, MainPc, WorkerInv, Started, Joined, Up, AcceptorInv,
             StopInv, AcceptorAlive, AcceptorGone
  <1>2. CASE stop_acceptor
    <2>1. /\ UNCHANGED <<_state, _kernel_tid, pipes, joinable, tpc, pending, nth>>
          /\ mpc = "stop_acceptor" /\ mpc' = "join_acceptor"
      BY <1>2 DEF stop_acceptor, request_stop
    <2>2. asked = {} /\ call[Main] = Idle
      BY <2>1 DEF SupInv, StopInv, AcceptorGone
    <2>3. asked' \subseteq {K} /\ (call'[Main] # Idle => call'[Main].ctl = K)
      BY <1>0, <1>2, <2>2 DEF stop_acceptor, request_stop, CtlTypeOK
    <2>4. QED
      BY <1>0, <2>1, <2>3
         DEF SupInv, TypeOK, MainPc, WorkerInv, Started, Joined, Up, AcceptorInv,
             StopInv, AcceptorAlive, AcceptorGone
  <1>3. CASE join_acceptor
    <2>1. /\ joinable' = [joinable EXCEPT ![K] = FALSE]
          /\ UNCHANGED <<_state, _kernel_tid, pipes, tpc, call, asked, pending, nth>>
          /\ mpc = "join_acceptor" /\ mpc' = "stop"
      BY <1>3 DEF join_acceptor, join
    <2>2. tpc[K] = "exit"
      BY <1>3, <2>1 DEF join_acceptor, join, SupInv, AcceptorInv, AcceptorAlive
    <2>3. QED
      BY <1>0, <2>1, <2>2
         DEF SupInv, TypeOK, MainPc, WorkerInv, Started, Joined, Up, AcceptorInv,
             StopInv, AcceptorAlive, AcceptorGone, CtlTypeOK
  <1>4. CASE stop_worker
    <2>1. /\ UNCHANGED <<_state, _kernel_tid, pipes, joinable, tpc, pending>>
          /\ mpc = "stop"
      BY <1>4 DEF stop_worker, request_stop
    <2>2. \/ nth + 1 < K /\ nth' = nth + 1 /\ mpc' = "stop"
          \/ nth + 1 = K /\ nth' = 0 /\ mpc' = "join"
      BY <1>0, <1>4, <2>1 DEF stop_worker, Advance
    <2>3. TypeOK'
      BY <1>0, <2>1, <2>2 DEF SupInv, TypeOK, MainPc
    <2>4. ASSUME NEW w \in Worker PROVE WorkerInv(w)'
      BY <1>0, <2>1, <2>2, <2>4 DEF SupInv, WorkerInv, Started, Joined, Up, AcceptorAlive
    <2>5. AcceptorInv' /\ StopInv'
      BY <1>0, <2>1, <2>2 DEF SupInv, AcceptorInv, StopInv, AcceptorAlive, AcceptorGone
    <2>6. QED
      BY <2>3, <2>4, <2>5 DEF SupInv
  <1>5. CASE join_worker
    <2>1. /\ joinable' = [joinable EXCEPT ![nth] = FALSE]
          /\ UNCHANGED <<_state, _kernel_tid, pipes, tpc, call, asked, pending>>
          /\ mpc = "join"
      BY <1>5 DEF join_worker, join
    <2>2. joinable[nth] /\ tpc[nth] = "exit"
      BY <1>0, <1>5 DEF join_worker, join, SupInv, WorkerInv, Started, Joined
    <2>3. \/ nth + 1 < K /\ nth' = nth + 1 /\ mpc' = "join"
          \/ nth + 1 = K /\ nth' = 0 /\ mpc' = "return"
      BY <1>0, <1>5, <2>1 DEF join_worker, Advance
    <2>4. TypeOK'
      BY <1>0, <2>1, <2>3 DEF SupInv, TypeOK, MainPc
    <2>5. ASSUME NEW w \in Worker PROVE WorkerInv(w)'
      BY <1>0, <2>1, <2>2, <2>3, <2>5
         DEF SupInv, WorkerInv, Started, Joined, Up, AcceptorAlive, CtlTypeOK
    <2>6. AcceptorInv' /\ StopInv'
      BY <1>0, <2>1, <2>3
         DEF SupInv, AcceptorInv, StopInv, AcceptorAlive, AcceptorGone, CtlTypeOK
    <2>7. QED
      BY <2>4, <2>5, <2>6 DEF SupInv
  <1>6. CASE return
    <2>1. /\ UNCHANGED <<_state, _kernel_tid, pipes, joinable, tpc, call, asked, nth, pending>>
          /\ mpc = "return" /\ mpc' = "done"
      BY <1>6 DEF return
    <2>2. QED
      BY <1>0, <2>1
         DEF SupInv, TypeOK, MainPc, WorkerInv, Started, Joined, Up, AcceptorInv,
             StopInv, AcceptorAlive, AcceptorGone
  <1>7. QED
    BY <1>1, <1>2, <1>3, <1>4, <1>5, <1>6

(* Every step preserves the inductive invariant. *)
LEMMA StepSupInv == SupInv /\ [Next]_vars => SupInv'
  <1> SUFFICES ASSUME SupInv, [Next]_vars PROVE SupInv'
    OBVIOUS
  <1>1. CtlInv'
    BY StepIsOwners, StepCtl DEF SupInv
  <1>2. CASE UNCHANGED <<_state, pipes, joinable, tpc, call, asked, mpc, nth>>
             /\ pending' \in BOOLEAN
    BY <1>1, <1>2 DEF SupInv, CtlInv, TypeOK, WorkerInv, Started, Joined, Up,
                      AcceptorInv, StopInv
  <1>3. CASE raise_signal \/ Terminated \/ UNCHANGED vars
    BY <1>2, <1>3 DEF raise_signal, Terminated, vars, mainVars, threadVars, SupInv, TypeOK
  <1>4. CASE MainStep
    BY <1>1, <1>4, BootSupInv, ShutdownSupInv DEF MainStep
  <1>5. QED
    BY <1>1, <1>3, <1>4, MainCasSupInv, RoleThreadSupInv DEF Next

(* The inductive invariant of main and its threads. *)
THEOREM SupInvariance == Spec => []SupInv
  <1>1. QED
    BY InitSupInv, StepSupInv, PTL DEF Spec

(* main wires, starts and joins as ThreadCtl asks of an owner, so that the *)
(* program implements ThreadCtl's specification, for any number of         *)
(* workers.                                                                *)
THEOREM OwnerDiscipline == Spec => MainIsOwner
  <1>1. Init => CtlInit
    BY DEF Init
  <1>2. SupInv /\ [Next]_vars => [CtlNext]_ctlVars
    BY StepIsOwners
  <1>3. QED
    BY <1>1, <1>2, SupInvariance, PTL DEF Spec, MainIsOwner, CtlSpec

(* The acceptor is only ever alive among running workers that nobody asked *)
(* to stop.                                                                *)
THEOREM AcceptorAmongWorkers == Spec => []ProducerHasConsumers
  <1>1. ASSUME SupInv PROVE ProducerHasConsumers
    <2> SUFFICES ASSUME tpc[Acceptor] \notin {"none", "exit"}, NEW w \in Worker
                 PROVE  _state[w] = "running" /\ w \notin asked
      BY DEF ProducerHasConsumers
    <2>1. mpc \in AcceptorAlive
      BY <1>1 DEF SupInv, AcceptorInv
    <2>2. w # Acceptor
      BY RosterAssumption DEF Worker, Acceptor, NoBlock
    <2>3. QED
      BY <1>1, <2>1, <2>2 DEF SupInv, WorkerInv, Up, StopInv, AcceptorAlive, AcceptorGone
  <1>2. QED
    BY <1>1, SupInvariance, PTL

(* When main returns, every thread that can reach the mesh edges in its    *)
(* frame has exited and was joined.                                        *)
THEOREM FrameIsLast == Spec => []FrameOutlivesThreads
  <1>1. ASSUME SupInv PROVE FrameOutlivesThreads
    <2> SUFFICES ASSUME mpc \in {"return", "done"}, NEW c \in 0..K
                 PROVE  tpc[c] = "exit" /\ ~joinable[c]
      BY DEF FrameOutlivesThreads
    <2>1. c \in Worker \/ c = Acceptor
      BY RosterAssumption DEF Worker, Acceptor, NoBlock
    <2>2. QED
      BY <1>1, <2>1 DEF SupInv, WorkerInv, Joined, AcceptorInv, AcceptorAlive, AcceptorGone
  <1>2. QED
    BY <1>1, SupInvariance, PTL

(* No LNX_CHECK of the lifecycle, the destructors' included, fires in this *)
(* program.                                                                *)
THEOREM MainNeverTraps == Spec => []NoTrap
  <1>1. SupInv => NoTrap
    BY DEF SupInv, CtlInv
  <1>2. QED
    BY <1>1, SupInvariance, PTL

=============================================================================

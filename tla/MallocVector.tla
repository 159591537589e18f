---------------------------- MODULE MallocVector ----------------------------
(***************************************************************************)
(* engine-uring/src/sds/malloc_vector.h: vectors over malloc'ed buffers.   *)
(* malloc may fail on any call, and every operation carries on without an  *)
(* error.  A position of an iterator is its index in the buffer.           *)
(***************************************************************************)
EXTENDS Integers, Sequences, SequencesExt, FiniteSets

CONSTANTS Vec, Elem,          \* the vectors and the values put in them
          Junk,               \* what fresh memory holds
          MaxLen              \* bound: no vector is made longer than this

ASSUME VectorAssumption ==
    IsFiniteSet(Vec) /\ MaxLen \in Nat /\ "freed" \notin Elem \cup {Junk}

VARIABLE mem                  \* [heap : Buf -> cells, vec : Vec -> object]

vector_vars == <<mem>>

Null  == 0
Buf   == 1..(Cardinality(Vec) + 1)
Freed == << "freed" >>
Gone  == [data |-> Null, size |-> 0, capacity |-> 0, live |-> FALSE]

VectorInit == mem = [heap |-> [b \in Buf |-> Freed], vec |-> [v \in Vec |-> Gone]]

(***************************************************************************)
(* The C allocator                                                         *)
(***************************************************************************)
Malloc(m, n) ==
    LET b == CHOOSE c \in Buf : m.heap[c] = Freed
    IN  [m |-> [m EXCEPT !.heap[b] = [i \in 1..n |-> Junk]], ptr |-> b]

Free(m, b) == IF b = Null THEN m ELSE [m EXCEPT !.heap[b] = Freed]

(***************************************************************************)
(* The operations, as functions of the memory; ok says whether malloc, if  *)
(* it is called, finds memory                                              *)
(***************************************************************************)
construct(m, v, capacity, ok) ==
    LET a == Malloc(m, capacity)
        o == [Gone EXCEPT !.live = TRUE]
    IN  IF capacity > 0 /\ ok
        THEN [a.m EXCEPT !.vec[v] = [o EXCEPT !.data = a.ptr, !.capacity = capacity]]
        ELSE [m EXCEPT !.vec[v] = o]

destroy(m, v) == [Free(m, m.vec[v].data) EXCEPT !.vec[v] = Gone]

(* Fault: a move leaves both objects on one buffer. *)
steal_shared(m, v, other) == [m EXCEPT !.vec[v] = m.vec[other]]

(* Of both moves: the members are copied and the source is left empty. *)
steal(m, v, other) ==
    [m EXCEPT !.vec[v] = m.vec[other],
              !.vec[other] = [Gone EXCEPT !.live = TRUE]]

move_assign(m, v, other) ==
    IF v = other THEN m ELSE steal(Free(m, m.vec[v].data), v, other)

reserve(m, v, capacity, ok) ==
    LET o    == m.vec[v]
        a    == Malloc(m, capacity)
        kept == [a.m EXCEPT !.heap[a.ptr] =
                   [i \in 1..capacity |-> IF i <= o.size THEN m.heap[o.data][i] ELSE Junk]]
    IN  IF capacity <= o.capacity \/ ~ok THEN m
        ELSE [Free(kept, o.data) EXCEPT
               !.vec[v] = [o EXCEPT !.data = a.ptr, !.capacity = capacity]]

(* Room for one more: double, or start with four. *)
Grown(m, v, ok) ==
    LET o == m.vec[v]
    IN  IF o.size < o.capacity THEN m
        ELSE reserve(m, v, IF o.capacity > 0 THEN o.capacity * 2 ELSE 4, ok)

resize(m, v, size, ok) ==
    LET r == reserve(m, v, size, ok)
    IN  IF size <= r.vec[v].capacity THEN [r EXCEPT !.vec[v].size = size] ELSE r

(* x at an index, the cells from there to the end moved up by one. *)
Placed(m, v, index, x) ==
    LET o     == m.vec[v]
        cells == m.heap[o.data]
    IN  [heap |-> [m.heap EXCEPT ![o.data] = [i \in 1..o.capacity |->
              CASE i = index + 1 -> x
                [] index + 1 < i /\ i <= o.size + 1 -> cells[i - 1]
                [] OTHER -> cells[i]]],
         vec |-> [m.vec EXCEPT ![v].size = @ + 1]]

push_back(m, v, x, ok) ==
    LET g == Grown(m, v, ok)
        o == g.vec[v]
    IN  IF o.size < o.capacity THEN Placed(g, v, o.size, x) ELSE g

pop_back(m, v) == [m EXCEPT !.vec[v].size = IF @ > 0 THEN @ - 1 ELSE 0]

vector_clear(m, v) == [m EXCEPT !.vec[v].size = 0]

(* The index of the first x, or of end(). *)
find(m, v, x) ==
    LET o  == m.vec[v]
        at == {i \in 0..(o.size - 1) : m.heap[o.data][i + 1] = x}
    IN  IF at = {} THEN o.size ELSE CHOOSE i \in at : \A j \in at : i <= j

erase(m, v, index) ==
    LET o     == m.vec[v]
        cells == m.heap[o.data]
    IN  IF index >= o.size THEN m
        ELSE [heap |-> [m.heap EXCEPT ![o.data] = [i \in 1..o.capacity |->
                   IF index < i /\ i < o.size THEN cells[i + 1] ELSE cells[i]]],
              vec |-> [m.vec EXCEPT ![v].size = @ - 1]]

insert(m, v, index, x, ok) ==
    LET g == Grown(m, v, ok)
        o == g.vec[v]
    IN  IF index > m.vec[v].size \/ o.size >= o.capacity THEN m
        ELSE Placed(g, v, index, x)

(***************************************************************************)
(* The program makes, moves, changes and drops vectors in any order        *)
(***************************************************************************)
Step(m) == mem' = m

Unborn(v) == ~mem.vec[v].live

VectorNext ==
    \E v \in Vec :
      \/ /\ Unborn(v)
         /\ \/ \E n \in 0..2, ok \in BOOLEAN : Step(construct(mem, v, n, ok))
            \/ \E w \in Vec : ~Unborn(w) /\ Step(steal(mem, v, w))
      \/ /\ ~Unborn(v)
         /\ \/ Step(destroy(mem, v))
            \/ \E w \in Vec : ~Unborn(w) /\ Step(move_assign(mem, v, w))
            \/ \E n \in 0..MaxLen, ok \in BOOLEAN :
                 Step(reserve(mem, v, n, ok)) \/ Step(resize(mem, v, n, ok))
            \/ Step(pop_back(mem, v))
            \/ Step(vector_clear(mem, v))
            \/ \E i \in 0..mem.vec[v].size : Step(erase(mem, v, i))
            \/ \E x \in Elem : Step(erase(mem, v, find(mem, v, x)))
            \/ /\ mem.vec[v].size < MaxLen
               /\ \E x \in Elem, ok \in BOOLEAN :
                    \/ Step(push_back(mem, v, x, ok))
                    \/ \E i \in 0..mem.vec[v].size : Step(insert(mem, v, i, x, ok))

VectorSpec == VectorInit /\ [][VectorNext]_vector_vars

(***************************************************************************)
(* Properties                                                              *)
(***************************************************************************)

(* Every buffer in use has one owner, and an owner's buffer is in use and  *)
(* as long as its capacity.                                                *)
Sound(m) ==
    /\ \A b \in Buf : m.heap[b] # Freed <=> \E v \in Vec : m.vec[v].data = b
    /\ \A v, w \in Vec : m.vec[v].data = m.vec[w].data /\ v # w => m.vec[v].data = Null
    /\ \A v \in Vec : LET o == m.vec[v] IN
         /\ o.size <= o.capacity
         /\ IF o.data = Null THEN o.capacity = 0 ELSE Len(m.heap[o.data]) = o.capacity

Contents(m, v) ==
    LET o == m.vec[v]
    IN  IF ~Sound(m) THEN << Null >>
        ELSE IF o.data = Null THEN << >> ELSE SubSeq(m.heap[o.data], 1, o.size)

SeqsOf(m) == [v \in Vec |-> Contents(m, v)]
RoomOf(m) == [v \in Vec |-> IF Sound(m) THEN m.vec[v].capacity ELSE -1]

Soft == INSTANCE SoftVector WITH seqs <- SeqsOf(mem), room <- RoomOf(mem)

(* Whatever the order of constructions, moves, growth that fails and       *)
(* destructions, the vectors of malloc_vector.h are sequences: no buffer   *)
(* is shared, leaked or used after it was freed, growth keeps every        *)
(* element, and a move carries them all and leaves its source empty.       *)
ImplementsVector == Soft!SoftSpec

-----------------------------------------------------------------------------
(* What makes it inductive: the types, and that a vector that is not alive *)
(* owns no buffer.                                                         *)
Cell   == Elem \cup {Junk}
Object == [data : Buf \cup {Null}, size : Nat, capacity : Nat, live : BOOLEAN]
Heap   == [Buf -> Seq(Cell) \cup {Freed}]
Memory == [heap : Heap, vec : [Vec -> Object]]

Intact(m) ==
    m \in Memory /\ Sound(m) /\ \A v \in Vec : ~m.vec[v].live => m.vec[v].data = Null

VectorInv == Intact(mem)
=============================================================================

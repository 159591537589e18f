---------------------------- MODULE CstrHashMap ----------------------------
(***************************************************************************)
(* engine-uring/src/sds/cstr_hash_map.h: chained buckets, doubled when the *)
(* load passes 3/4, with objects that can be moved from.                   *)
(*                                                                         *)
(* A key stands for a C string and Hash for hash_func of it; keys compare  *)
(* equal when cstr_cmp says so.  A chain is the sequence of its nodes.     *)
(***************************************************************************)
EXTENDS Integers, Sequences, FiniteSets, SequencesExt

CONSTANTS
    Map,                \* objects
    Key, Value, Default,
    Hash,               \* key -> hash
    InitialCapacity,    \* constructor argument, by default 64
    FreshCapacity,      \* rehash_to(64) of an object that was moved from
    Reserve             \* arguments of reserve

ASSUME MapAssumption ==
    /\ Hash \in [Key -> Nat] /\ Default \in Value
    /\ InitialCapacity \in Nat /\ FreshCapacity \in Nat \ {0} /\ Reserve \subseteq Nat

VARIABLES
    buckets_,   \* object -> index -> chain
    size_

map_vars == <<buckets_, size_>>

(* The smallest power of two that is at least n. *)
next_power_of_two(n) ==
    LET power[i \in 0..n] == IF i = 0 THEN 1 ELSE 2 * power[i - 1]
    IN  Min({p \in {power[i] : i \in 0..n} : p >= n})

NoNodes(cap) == [i \in 0..(cap - 1) |-> << >>]

capacity_(m) == Cardinality(DOMAIN buckets_[m])

MapInit ==
    /\ buckets_ = [m \in Map |-> NoNodes(next_power_of_two(InitialCapacity))]
    /\ size_ = [m \in Map |-> 0]

-----------------------------------------------------------------------------
(* hash & (capacity_ - 1): the capacity is a power of two. *)
bucket_index(k, cap) == Hash[k] % cap

PushNode(table, cap, n) == [table EXCEPT ![bucket_index(n.key, cap)] = <<n>> \o @]

(* All nodes in the order rehash_to and the iterators meet them. *)
Nodes(table) ==
    FlattenSeq([i \in 1..Cardinality(DOMAIN table) |-> table[i - 1]])

(* Each node is pushed in front of the chain of its new index. *)
PushAll(nodes, cap) ==
    LET pushed[j \in 0..Len(nodes)] ==
            IF j = 0 THEN NoNodes(cap) ELSE PushNode(pushed[j - 1], cap, nodes[j])
    IN  pushed[Len(nodes)]

rehash_to(table, n) == PushAll(Nodes(table), next_power_of_two(n))

(* A moved-from object gets its buckets back before it is used. *)
Usable(table) == IF DOMAIN table = {} THEN rehash_to(table, FreshCapacity) ELSE table

(* rehash_if_needed_for_insert. *)
Grown(table, size) ==
    LET cap == Cardinality(DOMAIN table)
    IN  IF size + 1 > (3 * cap) \div 4 THEN rehash_to(table, cap * 2) ELSE table

(* Position of a key in its chain, 0 if it is not there. *)
Position(table, k) ==
    LET cap == Cardinality(DOMAIN table)
    IN  IF cap = 0 THEN 0
        ELSE LET chain == table[bucket_index(k, cap)]
             IN  SelectInSeq(chain, LAMBDA n : n.key = k)

found(m, k) == Position(buckets_[m], k) # 0

find(m, k) ==
    buckets_[m][bucket_index(k, capacity_(m))][Position(buckets_[m], k)].value

(* A key that is there: its value is replaced in place. *)
insert_existing(m, k, v) ==
    /\ found(m, k)
    /\ buckets_' = [buckets_ EXCEPT
          ![m][bucket_index(k, capacity_(m))][Position(buckets_[m], k)].value = v]
    /\ UNCHANGED size_

(* Grow if needed, then a new node in front of its chain. *)
NewNode(m, k, v) ==
    LET t == Grown(Usable(buckets_[m]), size_[m])
    IN  /\ buckets_' = [buckets_ EXCEPT
              ![m] = PushNode(t, Cardinality(DOMAIN t), [key |-> k, value |-> v])]
        /\ size_' = [size_ EXCEPT ![m] = @ + 1]

insert_new(m, k, v) == ~found(m, k) /\ NewNode(m, k, v)

(* operator[] on a key that is not there; otherwise it only looks. *)
subscript_new(m, k) == ~found(m, k) /\ NewNode(m, k, Default)

(* Fault: the chain is cut at the erased node. *)
erase_cuts(m, k) ==
    LET b == bucket_index(k, capacity_(m))
    IN  /\ found(m, k)
        /\ buckets_' = [buckets_ EXCEPT
              ![m][b] = SubSeq(@, 1, Position(buckets_[m], k) - 1)]
        /\ size_' = [size_ EXCEPT ![m] = @ - 1]

erase(m, k) ==
    LET b == bucket_index(k, capacity_(m))
    IN  /\ found(m, k)
        /\ buckets_' = [buckets_ EXCEPT
              ![m][b] = RemoveAt(@, Position(buckets_[m], k))]
        /\ size_' = [size_ EXCEPT ![m] = @ - 1]

clear(m) ==
    /\ DOMAIN buckets_[m] # {}
    /\ buckets_' = [buckets_ EXCEPT ![m] = NoNodes(capacity_(m))]
    /\ size_' = [size_ EXCEPT ![m] = 0]

reserve(m, n) ==
    /\ n > capacity_(m)
    /\ buckets_' = [buckets_ EXCEPT ![m] = rehash_to(@, n)]
    /\ UNCHANGED size_

(* Move assignment: a loses its nodes, b is left without buckets. *)
move(a, b) ==
    /\ a # b
    /\ buckets_' = [buckets_ EXCEPT ![a] = buckets_[b], ![b] = NoNodes(0)]
    /\ size_' = [size_ EXCEPT ![a] = size_[b], ![b] = 0]

MapNext ==
    \/ \E m \in Map, k \in Key, v \in Value : insert_existing(m, k, v) \/ insert_new(m, k, v)
    \/ \E m \in Map, k \in Key : subscript_new(m, k) \/ erase(m, k)
    \/ \E m \in Map : clear(m)
    \/ \E m \in Map, n \in Reserve : reserve(m, n)
    \/ \E a, b \in Map : move(a, b)

MapSpec == MapInit /\ [][MapNext]_map_vars

-----------------------------------------------------------------------------
Entry == [key : Key, value : Value]

(* A table of cap chains: every key in the chain of its index, once. *)
Chained(table, cap) ==
    /\ table \in [0..(cap - 1) -> Seq(Entry)]
    /\ \A i \in 0..(cap - 1) : \A x \in 1..Len(table[i]) :
          /\ bucket_index(table[i][x].key, cap) = i
          /\ \A y \in 1..Len(table[i]) : table[i][x].key = table[i][y].key => x = y

(* The map find shows. *)
Bindings(m) == [k \in {j \in Key : found(m, j)} |-> find(m, k)]

(* The inductive invariant of the map: sound chains, and size() is exact.  *)
MapInv ==
    /\ buckets_ = [m \in Map |-> buckets_[m]] /\ size_ = [m \in Map |-> size_[m]]
    /\ \A m \in Map :
          /\ capacity_(m) \in Nat /\ Chained(buckets_[m], capacity_(m))
          /\ IsFiniteSet(DOMAIN Bindings(m)) /\ size_[m] = Cardinality(DOMAIN Bindings(m))

AbstractMap == INSTANCE KeyMap WITH map <- [m \in Map |-> Bindings(m)]

(* Chains, growth and moves implement a partial function per object:       *)
(* rehashing and reserve are invisible.                                    *)
ImplementsMap == AbstractMap!MapSpec
=============================================================================

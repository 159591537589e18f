----------------------------- MODULE PacketPool -----------------------------
(***************************************************************************)
(* The per-thread packet pools of engine-uring/src/memory/packet_pool.cpp: *)
(* one mapped region per thread, cut into three buckets of fixed blocks,   *)
(* whose free lists run through the blocks themselves.                     *)
(*                                                                         *)
(* Memory is one row of cells; a region is a range of them, a block some   *)
(* cells of it, and the link of a free block is in its first cell.  Owners *)
(* write their blocks when they like, up to the size they asked for.       *)
(* Callers release what they own, once, but may forget to warm up, ask for *)
(* any size, and release on another thread or with another size class: the *)
(* checks then end the process.                                            *)
(***************************************************************************)
EXTENDS Integers, FiniteSets, FiniteSetsExt

CONSTANTS
    NThreads,
    block_size,     \* of the buckets, in ascending order
    capacity,       \* blocks of each, prewarmed
    k_region_align, k_region_slack,
    MaxSize         \* bound: sizes asked for are 1..MaxSize

Threads == 0..(NThreads - 1)
Buckets == DOMAIN block_size

ASSUME PoolAssumption ==
    /\ NThreads \in Nat \ {0} /\ MaxSize \in Nat
    /\ k_region_align \in Nat \ {0} /\ k_region_slack \in Nat
    /\ DOMAIN capacity = Buckets /\ Buckets # {}
    /\ IsFiniteSet(Buckets) /\ Buckets = 1..Cardinality(Buckets)
    /\ \A b \in Buckets : block_size[b] \in Nat \ {0} /\ capacity[b] \in Nat \ {0}
    /\ \A b, c \in Buckets : b < c => block_size[b] < block_size[c]

VARIABLES
    mem,        \* memory: null, the address of a link, or an owner's data
    pool_phase,      \* of each thread's pool: "none", "mapped", "warm", "gone"
    free_list,  \* address of the first free block, or null
    in_use,
    owned,      \* blocks handed out: thread, address, size asked for, written
    trap        \* the check that ended the process, or "none"

pool_vars == <<mem, pool_phase, free_list, in_use, owned, trap>>
pool == <<mem, pool_phase, free_list, in_use, owned>>

null == 0
Data(p) == -p

-----------------------------------------------------------------------------
(* The layout. *)
align_up(n) == ((n + k_region_align - 1) \div k_region_align) * k_region_align

BucketBytes(b) == align_up(block_size[b] * capacity[b])
Before(b) == MapThenSumSet(BucketBytes, 1..(b - 1))
region_size == MapThenSumSet(BucketBytes, Buckets) + k_region_slack

RegionOf(t) == (1 + t * region_size)..((t + 1) * region_size)
region_begin(t, b) == 1 + t * region_size + Before(b)
region_end(t, b) == region_begin(t, b) + BucketBytes(b)
Block(t, b, idx) == region_begin(t, b) + (idx - 1) * block_size[b]
Blocks(t, b) == {Block(t, b, idx) : idx \in 1..capacity[b]}
Addr == UNION {RegionOf(t) : t \in Threads}

(* Fault: one byte more than the block has is still routed to it. *)
Fits_off_by_one(b, size) == size <= block_size[b] + 1

Fits(b, size) == size <= block_size[b]

(* The smallest bucket that fits; larger sizes trap. *)
bucket_for(size) == CHOOSE b \in Buckets : Fits(b, size) /\ \A c \in 1..(b - 1) : ~Fits(c, size)
HasBucket(size) == \E b \in Buckets : Fits(b, size)

PoolInit ==
    /\ mem = [a \in Addr |-> null]
    /\ pool_phase = [t \in Threads |-> "none"]
    /\ free_list = [t \in Threads |-> [b \in Buckets |-> null]]
    /\ in_use = [t \in Threads |-> [b \in Buckets |-> 0]]
    /\ owned = {} /\ trap = "none"

Trap(check) == trap' = check /\ UNCHANGED pool

-----------------------------------------------------------------------------
(* First use on a thread: the region is mapped. *)
instance(t) ==
    /\ pool_phase[t] = "none"
    /\ pool_phase' = [pool_phase EXCEPT ![t] = "mapped"]
    /\ UNCHANGED <<mem, free_list, in_use, owned, trap>>

(* The blocks are pushed in reverse, each on top of what the list held. *)
LinkOf(t, b, idx) == IF idx < capacity[b] THEN Block(t, b, idx + 1) ELSE free_list[t][b]

PushBlocks(t) ==
    /\ pool_phase' = [pool_phase EXCEPT ![t] = "warm"]
    /\ mem' = [a \in Addr |->
                 IF \E b \in Buckets : a \in Blocks(t, b)
                 THEN LET b == CHOOSE b \in Buckets : a \in Blocks(t, b)
                          idx == CHOOSE i \in 1..capacity[b] : Block(t, b, i) = a
                      IN  LinkOf(t, b, idx)
                 ELSE mem[a]]
    /\ free_list' = [free_list EXCEPT ![t] = [b \in Buckets |-> Block(t, b, 1)]]
    /\ UNCHANGED <<in_use, owned, trap>>

(* Idempotent: a warm pool is left alone. *)
prewarm(t) == pool_phase[t] = "mapped" /\ PushBlocks(t)

(* Thread exit unmaps the region, with whatever is still outstanding. *)
thread_exit(t) ==
    /\ pool_phase[t] \in {"mapped", "warm"}
    /\ pool_phase' = [pool_phase EXCEPT ![t] = "gone"]
    /\ owned' = {o \in owned : o.thread # t}
    /\ UNCHANGED <<mem, free_list, in_use, trap>>

-----------------------------------------------------------------------------
(* The check an acquire fails on. *)
Refusal(t, size) ==
    CASE ~HasBucket(size) -> "size"
      [] HasBucket(size) /\ pool_phase[t] # "warm" -> "cold"
      [] HasBucket(size) /\ pool_phase[t] = "warm" ->
           IF free_list[t][bucket_for(size)] = null THEN "exhausted" ELSE "none"

Pop(t, size) ==
    LET b == bucket_for(size)
        link == free_list[t][b]
    IN  /\ free_list' = [free_list EXCEPT ![t][b] = mem[link]]
        /\ in_use' = [in_use EXCEPT ![t][b] = @ + 1]
        /\ owned' = owned \cup {[thread |-> t, addr |-> link, size |-> size, written |-> FALSE]}
        /\ UNCHANGED <<mem, pool_phase, trap>>

Calls(t) == trap = "none" /\ pool_phase[t] \in {"mapped", "warm"}

acquire(t, size) ==
    /\ Calls(t)
    /\ IF Refusal(t, size) = "none" THEN Pop(t, size) ELSE Trap(Refusal(t, size))

(* The owner fills what it asked for. *)
owner_writes(o) ==
    /\ trap = "none" /\ o \in owned /\ ~o.written
    /\ mem' = [a \in Addr |-> IF a \in o.addr..(o.addr + o.size - 1) THEN Data(o.addr) ELSE mem[a]]
    /\ owned' = (owned \ {o}) \cup {[o EXCEPT !.written = TRUE]}
    /\ UNCHANGED <<pool_phase, free_list, in_use, trap>>

InBucket(t, p, b) == region_begin(t, b) <= p /\ p < region_end(t, b)

(* The block becomes the head of the list. *)
ReturnBlock(t, o, b) ==
    /\ mem' = [mem EXCEPT ![o.addr] = free_list[t][b]]
    /\ free_list' = [free_list EXCEPT ![t][b] = o.addr]
    /\ in_use' = [in_use EXCEPT ![t][b] = @ - 1]
    /\ owned' = owned \ {o}
    /\ UNCHANGED <<pool_phase, trap>>

release(t, o, size) ==
    /\ Calls(t) /\ o \in owned
    /\ IF ~HasBucket(size) THEN Trap("size")
       ELSE IF ~InBucket(t, o.addr, bucket_for(size)) THEN Trap("range")
       ELSE IF in_use[t][bucket_for(size)] = 0 THEN Trap("unused")
       ELSE ReturnBlock(t, o, bucket_for(size))

PoolNext ==
    \E t \in Threads :
        \/ trap = "none" /\ (instance(t) \/ prewarm(t) \/ thread_exit(t))
        \/ \E size \in 1..MaxSize :
              acquire(t, size) \/ \E o \in owned : release(t, o, size)
        \/ \E o \in owned : o.thread = t /\ owner_writes(o)

PoolSpec == PoolInit /\ [][PoolNext]_pool_vars

-----------------------------------------------------------------------------
Held(t, b) == {o \in owned : o.thread = t /\ bucket_for(o.size) = b}

(* The addresses a walk along the links meets. *)
Chain(t, b) ==
    LET link[i \in 0..capacity[b]] ==
            IF i = 0 THEN free_list[t][b]
            ELSE IF link[i - 1] \in Addr THEN mem[link[i - 1]] ELSE null
    IN  link

ListIsFree(t, b) ==
    LET free == Blocks(t, b) \ {o.addr : o \in Held(t, b)}
        link == Chain(t, b)
    IN  /\ {link[i] : i \in 0..(Cardinality(free) - 1)} = free
        /\ link[Cardinality(free)] = null

DataIntact(o) ==
    \A a \in o.addr..(o.addr + o.size - 1) : a \in RegionOf(o.thread) /\ mem[a] = Data(o.addr)

(* Every block has one holder.  The free list of a warm bucket holds each  *)
(* block nobody owns, once, and then ends, although its links lie in       *)
(* memory that owners write; in_use counts the others; and what an owner   *)
(* wrote stays until it releases the block, links and neighbours           *)
(* notwithstanding.                                                        *)
OneHolder ==
    /\ \A t \in Threads, b \in Buckets :
         pool_phase[t] = "warm" =>
            ListIsFree(t, b) /\ in_use[t][b] = Cardinality(Held(t, b))
    /\ \A o \in owned : o.written => DataIntact(o)

-----------------------------------------------------------------------------
(* The inductive invariant behind it: the blocks nobody owns are a chain.  *)

Block_owned ==
    [thread : Threads, addr : Addr, size : 1..MaxSize, written : BOOLEAN]

PoolTypeOK ==
    /\ mem \in [Addr -> Int]
    /\ trap \in {"none", "size", "cold", "exhausted", "range", "unused"}
    /\ pool_phase \in [Threads -> {"none", "mapped", "warm", "gone"}]
    /\ free_list \in [Threads -> [Buckets -> Addr \cup {null}]]
    /\ in_use \in [Threads -> [Buckets -> Nat]]
    /\ owned \subseteq Block_owned /\ IsFiniteSet(owned)

Free(t, b) == Blocks(t, b) \ {o.addr : o \in Held(t, b)}

(* The links go through the m blocks d, first to last. *)
IsChain(t, b, m, d) ==
    /\ \A a \in Free(t, b) : \E i \in 1..m : d[i] = a
    /\ \A i, j \in 1..m : d[i] = d[j] => i = j
    /\ free_list[t][b] = IF m = 0 THEN null ELSE d[1]
    /\ \A i \in 1..m : mem[d[i]] = IF i = m THEN null ELSE d[i + 1]

HasChain(t, b) ==
    \E m \in 0..capacity[b] : \E d \in [1..m -> Free(t, b)] : IsChain(t, b, m, d)

PoolInv ==
    /\ PoolTypeOK
    /\ \A o \in owned :
         /\ HasBucket(o.size) /\ o.addr \in Blocks(o.thread, bucket_for(o.size))
         /\ pool_phase[o.thread] = "warm"
         /\ o.written => DataIntact(o)
    /\ \A o, p \in owned : o.addr = p.addr => o = p
    /\ \A t \in Threads, b \in Buckets :
         /\ pool_phase[t] \in {"none", "mapped"} => free_list[t][b] = null /\ in_use[t][b] = 0
         /\ pool_phase[t] = "warm" => HasChain(t, b) /\ in_use[t][b] = Cardinality(Held(t, b))
=============================================================================

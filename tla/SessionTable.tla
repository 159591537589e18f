---------------------------- MODULE SessionTable ----------------------------
(***************************************************************************)
(* The acceptor's authority table (server-uring/src/session_table.{h,cpp}, *)
(* session_record.h): a fixed array of slots, linear scans, process-unique *)
(* ids and a generation per slot.  One thread owns it; what makes it hard  *)
(* is the callers' references: an (id, generation) pair travels through    *)
(* the mesh and comes back arbitrarily late, or twice, after its slot was  *)
(* removed and reused.  So every operation is called with any id that was  *)
(* ever minted (or the invalid id), in any order.                          *)
(***************************************************************************)
EXTENDS Integers, FiniteSets

CONSTANTS
    Capacity,   \* config::k_session_capacity
    GenWidth,   \* number of values of the u32 generation
    Account,    \* account ids
    WorkerId,   \* worker indices
    MaxId       \* bound on the ids minted (u64)

ASSUME TableAssumption ==
    /\ Capacity \in Nat \ {0} /\ GenWidth \in Nat \ {0} /\ MaxId \in Nat
    /\ WorkerId \subseteq Nat /\ Account # {}

VARIABLES
    _slots,     \* the session records
    _next_id,   \* next id to mint
    _count,     \* live sessions, a u32
    minted      \* history: where, with which generation and for which
                \* account each id was minted

table_vars == <<_slots, _next_id, _count, minted>>

k_invalid_session == 0
Slot == 0..(Capacity - 1)
session_state == {"accepted", "assigning", "in_world", "disconnecting", "closed"}

session_record ==
    [id : 0..MaxId, generation : 0..(GenWidth - 1), account : Account \cup {0},
     owner_worker : WorkerId \cup {-1}, state : session_state]

EmptyRecord ==
    [id |-> k_invalid_session, generation |-> 0, account |-> 0,
     owner_worker |-> -1, state |-> "closed"]

TableInit ==
    /\ _slots = [s \in Slot |-> EmptyRecord]
    /\ _next_id = 1
    /\ _count = 0
    /\ minted = [id \in {} |-> EmptyRecord]

(* The slots holding an id; slot_of and find return the first of them. *)
Holding(id) ==
    {s \in Slot : id # k_invalid_session /\ _slots[s].id = id}

First(S) == CHOOSE s \in S : \A t \in S : s <= t

slot_of(id) == First(Holding(id))

validate(id, generation) ==
    Holding(id) # {} /\ _slots[slot_of(id)].generation = generation

FreeSlots == {s \in Slot : _slots[s].id = k_invalid_session}

(* Faults of allocate: another next id, generation or account. *)
AllocateWith(account, next, generation(_), kept) ==
    LET s == First(FreeSlots)
        r == [id |-> _next_id, generation |-> generation(_slots[s].generation),
              account |-> IF kept /\ _slots[s].account # 0
                            THEN _slots[s].account ELSE account,
              owner_worker |-> -1, state |-> "accepted"]
    IN  /\ FreeSlots # {}
        /\ _next_id <= MaxId
        /\ _slots' = [_slots EXCEPT ![s] = r]
        /\ _next_id' = next
        /\ _count' = _count + 1
        /\ minted' = [id \in DOMAIN minted \cup {_next_id} |->
                        IF id = _next_id
                          THEN [slot |-> s, generation |-> r.generation,
                                account |-> account]
                          ELSE minted[id]]

(* Fault: the id counter wraps early. *)
allocate_id_wraps(account) ==
    AllocateWith(account, (_next_id % MaxId) + 1, LAMBDA g : (g + 1) % GenWidth, FALSE)

(* Fault: the account of the slot's former session stays. *)
allocate_keeps_account(account) ==
    AllocateWith(account, _next_id + 1, LAMBDA g : (g + 1) % GenWidth, TRUE)

(* allocate takes the first free slot; a full table returns nullptr. *)
allocate(account) ==
    LET s == First(FreeSlots)
        r == [id |-> _next_id,
              generation |-> (_slots[s].generation + 1) % GenWidth,
              account |-> account, owner_worker |-> -1, state |-> "accepted"]
    IN  /\ FreeSlots # {}
        /\ _next_id <= MaxId
        /\ _slots' = [_slots EXCEPT ![s] = r]
        /\ _next_id' = _next_id + 1
        /\ _count' = _count + 1
        /\ minted' = [id \in DOMAIN minted \cup {_next_id} |->
                        IF id = _next_id
                          THEN [slot |-> s, generation |-> r.generation,
                                account |-> account]
                          ELSE minted[id]]

(* An operation on the record of an id; an absent id returns false. *)
Update(id, r) ==
    /\ Holding(id) # {}
    /\ _slots' = [_slots EXCEPT ![slot_of(id)] = r]
    /\ UNCHANGED <<_next_id, minted>>

mark_assigning(id, worker) ==
    /\ Update(id, [_slots[slot_of(id)] EXCEPT !.owner_worker = worker,
                                              !.state = "assigning"])
    /\ UNCHANGED _count

mark_in_world(id) ==
    /\ Update(id, [_slots[slot_of(id)] EXCEPT !.state = "in_world"])
    /\ UNCHANGED _count

(* remove frees the slot; its generation and account stay. *)
remove(id) ==
    /\ Update(id, [_slots[slot_of(id)] EXCEPT !.id = k_invalid_session,
                                              !.owner_worker = -1,
                                              !.state = "closed"])
    /\ _count' = _count - 1

(* The bound on the ids is reached (never so for the 64-bit counter). *)
ids_spent == _next_id > MaxId /\ UNCHANGED table_vars

TableNext ==
    \/ \E a \in Account : allocate(a)
    \/ \E id \in 0..MaxId :
         \/ \E w \in WorkerId : mark_assigning(id, w)
         \/ mark_in_world(id)
         \/ remove(id)
    \/ ids_spent

TableSpec == TableInit /\ [][TableNext]_table_vars

-----------------------------------------------------------------------------
TableTypeOK ==
    /\ _slots \in [Slot -> session_record]
    /\ _next_id \in 1..(MaxId + 1)
    /\ _count \in Nat
    /\ minted \in [1..(_next_id - 1) ->
                    [slot : Slot, generation : 0..(GenWidth - 1),
                     account : Account]]

Live == {s \in Slot : _slots[s].id # k_invalid_session}

(* The guard against stale messages is exact: a reference (id, generation) *)
(* that was handed out validates iff that very session is still live, and  *)
(* then the record found is the one it was minted with, in its slot, for   *)
(* its account.  This holds even when the generation counter has wrapped.  *)
ValidateIsExact ==
    \A id \in DOMAIN minted :
        LET m == minted[id]
        IN  /\ validate(id, m.generation) <=> \E s \in Slot : _slots[s].id = id
            /\ validate(id, m.generation) => /\ slot_of(id) = m.slot
                                             /\ _slots[m.slot].account = m.account

(* The inductive strengthening used by the proofs: a live record is the    *)
(* one its id was minted with, so no two slots hold the same id, and the   *)
(* count is the number of live slots.                                      *)
LiveAsMinted ==
    \A s \in Live :
        LET r == _slots[s]
        IN  /\ r.id \in DOMAIN minted
            /\ minted[r.id] = [slot |-> s, generation |-> r.generation,
                               account |-> r.account]

TableInv ==
    /\ TableTypeOK
    /\ LiveAsMinted
    /\ _count = Cardinality(Live)

(* A dead id never comes back: an id that was minted and whose session is  *)
(* gone names no session ever again, so a late message for it is refused   *)
(* by every later state of the table.                                      *)
NeverResurrected ==
    [][\A id \in DOMAIN minted : Holding(id) = {} => Holding(id)' = {}]_table_vars
=============================================================================

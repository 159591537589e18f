------------------------------- MODULE Locks -------------------------------
(***************************************************************************)
(* engine-uring/src/sync/mutex.h: the mutexes over pthread and the objects *)
(* that own them.  A thread has a few unique_lock variables it constructs, *)
(* moves between and destroys, a lock_guard, and one guard or raw hold of  *)
(* the shared_mutex.  A blocking call is an action enabled when the        *)
(* mutex is free.                                                          *)
(***************************************************************************)
EXTENDS Integers, FiniteSets

CONSTANTS Thr, Mtx,           \* threads and mutexes
          Var,                \* the unique_lock variables of each thread
          None

ASSUME LocksAssumption ==
    /\ None \notin Thr /\ None \notin Mtx
    /\ IsFiniteSet(Thr)
    /\ \A t \in Thr : <<"guard", t>> \notin Var /\ <<"raw", t>> \notin Var

VARIABLES holder,             \* the pthread owner of each mutex
          ul,                 \* [Thr -> [Var -> [live, mtx, owns]]]
          guard,              \* the mutex of each thread's lock_guard
          raw,                \* the mutexes a thread owns by bare pointer
          rw,                 \* [writer, readers]: the pthread rwlock
          hold                \* how each thread holds the shared_mutex

locks_vars == <<holder, ul, guard, raw, rw, hold>>

Unset == [live |-> FALSE, mtx |-> None, owns |-> FALSE]
Empty == [live |-> TRUE, mtx |-> None, owns |-> FALSE]

LocksInit ==
    /\ holder = [m \in Mtx |-> None]
    /\ ul = [t \in Thr |-> [i \in Var |-> Unset]]
    /\ guard = [t \in Thr |-> None]
    /\ raw = [t \in Thr |-> {}]
    /\ rw = [writer |-> None, readers |-> 0]
    /\ hold = [t \in Thr |-> "none"]

(***************************************************************************)
(* class mutex, over pthread_mutex_t                                       *)
(***************************************************************************)
mutex_lock(t, m) == holder[m] = None /\ holder' = [holder EXCEPT ![m] = t]

mutex_unlock(h, m) == [h EXCEPT ![m] = None]

(***************************************************************************)
(* class unique_lock                                                       *)
(***************************************************************************)
Owned(l) == l.owns /\ l.mtx # None

(* Fault: the mutex held is forgotten, not unlocked. *)
let_go_never(h, l) == h

(* What both the destructor and the move assignment do first. *)
let_go(h, l) == IF Owned(l) THEN mutex_unlock(h, l.mtx) ELSE h

unique_lock(t, i) ==
    /\ ~ul[t][i].live
    /\ \/ /\ ul' = [ul EXCEPT ![t][i] = Empty]
          /\ UNCHANGED holder
       \/ \E m \in Mtx : /\ mutex_lock(t, m)
                         /\ ul' = [ul EXCEPT ![t][i] = [live |-> TRUE, mtx |-> m, owns |-> TRUE]]
    /\ UNCHANGED <<guard, raw, rw, hold>>

destroy_unique_lock(t, i) ==
    /\ ul[t][i].live
    /\ holder' = let_go(holder, ul[t][i])
    /\ ul' = [ul EXCEPT ![t][i] = Unset]
    /\ UNCHANGED <<guard, raw, rw, hold>>

(* Construction from, or assignment of, an expiring unique_lock. *)
move(t, i, j) ==
    /\ i # j
    /\ ul[t][j].live
    /\ holder' = let_go(holder, ul[t][i])
    /\ ul' = [ul EXCEPT ![t][i] = ul[t][j], ![t][j] = Empty]
    /\ UNCHANGED <<guard, raw, rw, hold>>

lock(t, i) ==
    /\ ul[t][i].mtx # None /\ ~ul[t][i].owns
    /\ mutex_lock(t, ul[t][i].mtx)
    /\ ul' = [ul EXCEPT ![t][i].owns = TRUE]
    /\ UNCHANGED <<guard, raw, rw, hold>>

unlock(t, i) ==
    /\ Owned(ul[t][i])
    /\ holder' = mutex_unlock(holder, ul[t][i].mtx)
    /\ ul' = [ul EXCEPT ![t][i].owns = FALSE]
    /\ UNCHANGED <<guard, raw, rw, hold>>

(* Refused at once if another lock, of any thread, holds the mutex. *)
try_lock(t, i) ==
    LET l  == ul[t][i]
        ok == l.mtx # None /\ ~l.owns /\ holder[l.mtx] = None
    IN  /\ l.live
        /\ holder' = IF ok THEN [holder EXCEPT ![l.mtx] = t] ELSE holder
        /\ ul' = [ul EXCEPT ![t][i].owns = @ \/ ok]
        /\ UNCHANGED <<guard, raw, rw, hold>>

(* The caller, who asked owns_lock() before, has the mutex to unlock now. *)
release(t, i) ==
    /\ ul[t][i].live
    /\ raw' = [raw EXCEPT ![t] = IF Owned(ul[t][i]) THEN @ \cup {ul[t][i].mtx} ELSE @]
    /\ ul' = [ul EXCEPT ![t][i] = Empty]
    /\ UNCHANGED <<holder, guard, rw, hold>>

unlock_released(t) ==
    \E m \in raw[t] :
      /\ holder' = mutex_unlock(holder, m)
      /\ raw' = [raw EXCEPT ![t] = @ \ {m}]
      /\ UNCHANGED <<ul, guard, rw, hold>>

(***************************************************************************)
(* class lock_guard                                                        *)
(***************************************************************************)
lock_guard(t) ==
    /\ \/ /\ guard[t] = None
          /\ \E m \in Mtx : mutex_lock(t, m) /\ guard' = [guard EXCEPT ![t] = m]
       \/ /\ guard[t] # None
          /\ holder' = mutex_unlock(holder, guard[t])
          /\ guard' = [guard EXCEPT ![t] = None]
    /\ UNCHANGED <<ul, raw, rw, hold>>

(***************************************************************************)
(* class shared_mutex and its two guards: pthread_rwlock_unlock is called  *)
(* by both kinds of holder and releases what the lock is held for.         *)
(***************************************************************************)
lock_shared(t) ==
    /\ hold[t] = "none" /\ rw.writer = None
    /\ rw' = [rw EXCEPT !.readers = @ + 1]
    /\ hold' = [hold EXCEPT ![t] = "shared"]
    /\ UNCHANGED <<holder, ul, guard, raw>>

lock_exclusive(t) ==
    /\ hold[t] = "none" /\ rw = [writer |-> None, readers |-> 0]
    /\ rw' = [rw EXCEPT !.writer = t]
    /\ hold' = [hold EXCEPT ![t] = "exclusive"]
    /\ UNCHANGED <<holder, ul, guard, raw>>

unlock_shared(t) ==
    /\ hold[t] # "none"
    /\ rw' = IF rw.writer = None THEN [rw EXCEPT !.readers = @ - 1]
                                 ELSE [rw EXCEPT !.writer = None]
    /\ hold' = [hold EXCEPT ![t] = "none"]
    /\ UNCHANGED <<holder, ul, guard, raw>>

LocksNext ==
    \E t \in Thr :
      \/ \E i \in Var : \/ unique_lock(t, i) \/ destroy_unique_lock(t, i)
                        \/ lock(t, i) \/ unlock(t, i) \/ try_lock(t, i) \/ release(t, i)
                        \/ \E j \in Var : move(t, i, j)
      \/ unlock_released(t) \/ lock_guard(t)
      \/ lock_shared(t) \/ lock_exclusive(t) \/ unlock_shared(t)

LocksSpec == LocksInit /\ [][LocksNext]_locks_vars

(***************************************************************************)
(* Properties                                                              *)
(***************************************************************************)

(* The objects of thread t that will unlock m. *)
Owners(t, m) ==
    {i \in Var : Owned(ul[t][i]) /\ ul[t][i].mtx = m}
      \cup (IF guard[t] = m THEN {<<"guard", t>>} ELSE {})
      \cup (IF m \in raw[t] THEN {<<"raw", t>>} ELSE {})

(* Whatever is constructed, moved, released and destroyed in whatever      *)
(* order, a pthread mutex that is locked has exactly one object to unlock  *)
(* it, in the thread that locked it, and a free one has none; and the      *)
(* rwlock is held by one writer or by as many readers as there are guards. *)
OneOwner ==
    /\ \A m \in Mtx, t \in Thr :
         Cardinality(Owners(t, m)) = IF holder[m] = t THEN 1 ELSE 0
    /\ rw.readers = Cardinality({t \in Thr : hold[t] = "shared"})
    /\ \A t \in Thr : hold[t] = "exclusive" <=> rw.writer = t
    /\ rw.writer = None \/ rw.readers = 0

-----------------------------------------------------------------------------
(* The inductive invariant behind OneOwner. *)
LocksTypeOK ==
    /\ holder \in [Mtx -> Thr \cup {None}]
    /\ ul \in [Thr -> [Var -> [live : BOOLEAN, mtx : Mtx \cup {None}, owns : BOOLEAN]]]
    /\ guard \in [Thr -> Mtx \cup {None}]
    /\ raw \in [Thr -> SUBSET Mtx]
    /\ rw \in [writer : Thr \cup {None}, readers : Nat]
    /\ hold \in [Thr -> {"none", "shared", "exclusive"}]

(* A variable that owns a lock is bound to a mutex, and one that is bound  *)
(* is constructed.                                                         *)
OwnsAMutex ==
    \A t \in Thr, i \in Var :
        /\ ul[t][i].owns => ul[t][i].mtx # None
        /\ ul[t][i].mtx # None => ul[t][i].live

(* The owners of a mutex, without counting. *)
HeldOnce ==
    \A t \in Thr, m \in Mtx :
        IF holder[m] = t THEN \E o \in Owners(t, m) : Owners(t, m) = {o} ELSE Owners(t, m) = {}

RwExact ==
    /\ rw.readers = Cardinality({t \in Thr : hold[t] = "shared"})
    /\ \A t \in Thr : hold[t] = "exclusive" <=> rw.writer = t
    /\ rw.writer = None \/ rw.readers = 0

LocksInv == LocksTypeOK /\ OwnsAMutex /\ HeldOnce /\ RwExact
=============================================================================

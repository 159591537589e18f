----------------------------- MODULE RingBuffer -----------------------------
(***************************************************************************)
(* sds::ring_buffer<N, Sync> (engine-uring/src/sds/ring_buffer.h): the one *)
(* byte ring under both the TCP buffers and the cross-thread mesh edges.   *)
(*                                                                         *)
(* A producer and a consumer run concurrently.  A cursor is an atomic with *)
(* acquire loads and release stores, so loading it and publishing it are   *)
(* single steps.  The copies between them are plain memcpys: each byte is  *)
(* a step of its own and the bytes of one call move in ANY order, which is *)
(* all the memory model promises before the release store.  The storage    *)
(* starts with arbitrary contents (it is never initialised).               *)
(*                                                                         *)
(* Under ring_sync::single one thread plays both roles, which gives a      *)
(* subset of these behaviours.                                             *)
(***************************************************************************)
EXTENDS Integers, Sequences

CONSTANTS
    N,          \* capacity, the template parameter
    Byte,       \* byte values
    Blank,      \* a byte of the caller's destination not written yet
    Payloads,   \* the byte strings callers pass to enqueue and enqueue2
    MaxCursor   \* largest value of the i64 cursors ("never wrap in practice")

ASSUME CapacityAssumption == N \in Nat \ {0, 1}
ASSUME PayloadAssumption ==
    \A s \in Payloads : s \in Seq(Byte)
ASSUME BlankAssumption == Blank \notin Byte
ASSUME CursorAssumption == MaxCursor \in Nat

VARIABLES
    enqueue_,   \* producer cursor
    dequeue_,   \* consumer cursor
    buffer_,    \* the N bytes of storage
    ppc,        \* what the producer is in the middle of
    frame,      \* the bytes it is putting in
    na,         \* length of the first of the two regions of frame
    pending,    \* indices of frame (from 0) not yet stored
    room,       \* size of the region handed out by direct_enqueue_size
    cpc,        \* what the consumer is in the middle of
    cn,         \* bytes the consumer's call covers
    wanted,     \* indices (from 0) not yet copied out
    dst,        \* the destination of the copy
    got         \* what the last completed read returned

pvars == <<enqueue_, ppc, frame, na, pending, room>>
cvars == <<dequeue_, cpc, cn, wanted, dst, got>>
vars == <<enqueue_, dequeue_, buffer_, ppc, frame, na, pending, room,
          cpc, cn, wanted, dst, got>>

Cells == 0..(N - 1)

umin(a, b) == IF a < b THEN a ELSE b

(* Fault: the remainder after the wrap starts one cell late. *)
Slot_off_by_one(cursor, n, i) ==
    LET off   == cursor % N
        first == umin(n, N - off)
    IN  IF i < first THEN off + i ELSE i - first + 1

(* Storage index of byte i of an n-byte copy at a cursor: a contiguous run *)
(* to the end of the storage, the remainder from its start.                *)
Slot(cursor, n, i) ==
    LET off   == cursor % N
        first == umin(n, N - off)
    IN  IF i < first THEN off + i ELSE i - first

(* Fault: the second region starts at the cursor too. *)
FrameSlot_same_cursor(i) ==
    IF i < na THEN Slot(enqueue_, na, i)
              ELSE Slot(enqueue_, Len(frame) - na, i - na)

(* enqueue2 writes its two regions with one write_at each. *)
FrameSlot(i) ==
    IF i < na THEN Slot(enqueue_, na, i)
              ELSE Slot(enqueue_ + na, Len(frame) - na, i - na)

(* Fault: the free run counts one byte too many. *)
free_size_plus_one == N + 1 - (enqueue_ - dequeue_)

free_size == N - (enqueue_ - dequeue_)
used_size == enqueue_ - dequeue_

(* The contiguous run from a cursor to the end of the storage. *)
ToEnd(cursor) == N - (cursor % N)

Init ==
    /\ enqueue_ = 0
    /\ dequeue_ = 0
    /\ buffer_ \in [Cells -> Byte]
    /\ ppc = "idle"
    /\ frame = << >>
    /\ na = 0
    /\ pending = {}
    /\ room = 0
    /\ cpc = "idle"
    /\ cn = 0
    /\ wanted = {}
    /\ dst = [i \in Cells |-> Blank]
    /\ got = << >>

-----------------------------------------------------------------------------
(* Producer *)

(* enqueue2(a, b): read both cursors; a frame that does not fit is refused *)
(* (the call returns 0 and changes nothing, so the guard is the action's). *)
enqueue2(a, b) ==
    /\ ppc = "idle"
    /\ (enqueue_ - dequeue_) + (Len(a) + Len(b)) <= N
    /\ enqueue_ + Len(a) + Len(b) <= MaxCursor
    /\ ppc' = "copy"
    /\ frame' = a \o b
    /\ na' = Len(a)
    /\ pending' = 0..(Len(a) + Len(b) - 1)
    /\ UNCHANGED <<enqueue_, buffer_, room>>
    /\ UNCHANGED cvars

(* enqueue(src): the same with a single region. *)
enqueue(src) ==
    /\ ppc = "idle"
    /\ (enqueue_ - dequeue_) + Len(src) <= N
    /\ enqueue_ + Len(src) <= MaxCursor
    /\ ppc' = "copy"
    /\ frame' = src
    /\ na' = Len(src)
    /\ pending' = 0..(Len(src) - 1)
    /\ UNCHANGED <<enqueue_, buffer_, room>>
    /\ UNCHANGED cvars

(* One byte of write_at lands in the storage. *)
write_at(i) ==
    /\ ppc = "copy"
    /\ i \in pending
    /\ buffer_' = [buffer_ EXCEPT ![FrameSlot(i)] = frame[i + 1]]
    /\ pending' = pending \ {i}
    /\ UNCHANGED <<enqueue_, ppc, frame, na, room>>
    /\ UNCHANGED cvars

(* Fault: the cursor is published before the copy is complete. *)
p_publish_early ==
    /\ ppc = "copy"
    /\ enqueue_' = enqueue_ + Len(frame)
    /\ ppc' = "idle"
    /\ frame' = << >>
    /\ na' = 0
    /\ pending' = {}
    /\ UNCHANGED <<buffer_, room>>
    /\ UNCHANGED cvars

(* p_publish, once, after every region has landed. *)
p_publish ==
    /\ ppc = "copy"
    /\ pending = {}
    /\ enqueue_' = enqueue_ + Len(frame)
    /\ ppc' = "idle"
    /\ frame' = << >>
    /\ na' = 0
    /\ UNCHANGED <<buffer_, pending, room>>
    /\ UNCHANGED cvars

(* direct_enqueue_ptr/size: hand out the contiguous free run. *)
direct_enqueue ==
    /\ ppc = "idle"
    /\ ppc' = "direct"
    /\ room' = umin(free_size, ToEnd(enqueue_))
    /\ UNCHANGED <<enqueue_, buffer_, frame, na, pending>>
    /\ UNCHANGED cvars

(* The kernel (an io_uring recv) stores the next byte into that run. *)
kernel_fill(v) ==
    /\ ppc = "direct"
    /\ Len(frame) < room
    /\ enqueue_ + Len(frame) < MaxCursor
    /\ buffer_' = [buffer_ EXCEPT ![(enqueue_ % N) + Len(frame)] = v]
    /\ frame' = Append(frame, v)
    /\ UNCHANGED <<enqueue_, ppc, na, pending, room>>
    /\ UNCHANGED cvars

(* commit_enqueue(k) with the k bytes that landed. *)
commit_enqueue ==
    /\ ppc = "direct"
    /\ enqueue_' = enqueue_ + Len(frame)
    /\ ppc' = "idle"
    /\ frame' = << >>
    /\ room' = 0
    /\ UNCHANGED <<buffer_, na, pending>>
    /\ UNCHANGED cvars

-----------------------------------------------------------------------------
(* Consumer *)

(* The common start of a read of m bytes by the call named op. *)
BeginRead(op, m) ==
    /\ cpc = "idle"
    /\ cpc' = op
    /\ cn' = m
    /\ wanted' = 0..(m - 1)
    /\ dst' = [i \in Cells |-> Blank]
    /\ UNCHANGED <<dequeue_, got, buffer_>>
    /\ UNCHANGED pvars

dequeue(n) == BeginRead("dequeue", umin(n, used_size))

peek(n) == BeginRead("peek", umin(n, used_size))

(* direct_dequeue_ptr/size: only the contiguous run. *)
direct_dequeue == BeginRead("direct", umin(used_size, ToEnd(dequeue_)))

(* One byte of the copy-out. *)
copy_out(i) ==
    /\ i \in wanted
    /\ dst' = [dst EXCEPT ![i] = buffer_[Slot(dequeue_, cn, i)]]
    /\ wanted' = wanted \ {i}
    /\ UNCHANGED <<dequeue_, cpc, cn, got, buffer_>>
    /\ UNCHANGED pvars

(* The read returns its first k bytes; the cursor moves to cursor. *)
EndRead(k, cursor) ==
    /\ dequeue_' = cursor
    /\ got' = [i \in 1..k |-> dst[i - 1]]
    /\ cpc' = "idle"
    /\ cn' = 0
    /\ wanted' = {}
    /\ dst' = [i \in Cells |-> Blank]
    /\ UNCHANGED buffer_
    /\ UNCHANGED pvars

(* c_publish at the end of dequeue, after the copy. *)
c_publish ==
    /\ cpc = "dequeue"
    /\ wanted = {}
    /\ EndRead(cn, dequeue_ + cn)

peek_return ==
    /\ cpc = "peek"
    /\ wanted = {}
    /\ EndRead(cn, dequeue_)

(* commit_dequeue(k): the caller has used the first k bytes in place. *)
commit_dequeue(k) ==
    /\ cpc = "direct"
    /\ k \in 0..cn
    /\ wanted \cap 0..(k - 1) = {}
    /\ EndRead(k, dequeue_ + k)

-----------------------------------------------------------------------------
Producer ==
    \/ \E a, b \in Payloads : enqueue2(a, b)
    \/ \E a \in Payloads : enqueue(a)
    \/ \E i \in pending : write_at(i)
    \/ p_publish
    \/ direct_enqueue
    \/ \E v \in Byte : kernel_fill(v)
    \/ commit_enqueue

Consumer ==
    \/ \E n \in 0..N : dequeue(n) \/ peek(n)
    \/ direct_dequeue
    \/ \E i \in wanted : copy_out(i)
    \/ c_publish
    \/ peek_return
    \/ \E k \in 0..N : commit_dequeue(k)

Next == Producer \/ Consumer

Spec == Init /\ [][Next]_vars

-----------------------------------------------------------------------------
(* Type invariant: the cursors stay within the i64 range and never apart   *)
(* by more than the capacity, which is what free_size and used_size assume *)
(* when they cast the difference to an unsigned size.                      *)
TypeOK ==
    /\ enqueue_ \in 0..MaxCursor
    /\ dequeue_ \in 0..enqueue_
    /\ enqueue_ - dequeue_ <= N
    /\ buffer_ \in [Cells -> Byte]
    /\ ppc \in {"idle", "copy", "direct"}
    /\ frame \in Seq(Byte)
    /\ na \in 0..Len(frame)
    /\ pending \subseteq 0..(Len(frame) - 1)
    /\ room \in 0..N
    /\ cpc \in {"idle", "dequeue", "peek", "direct"}
    /\ cn \in 0..N
    /\ wanted \subseteq 0..(cn - 1)
    /\ dst \in [Cells -> Byte \cup {Blank}]
    /\ got \in Seq(Byte \cup {Blank})

(* Cells the producer may still store into during its current call. *)
WriteSet ==
    CASE ppc = "copy" -> {FrameSlot(i) : i \in pending}
      [] ppc = "direct" -> {(enqueue_ % N) + k : k \in Len(frame)..(room - 1)}
      [] OTHER -> {}

(* Cells the consumer may still load during its current call. *)
ReadSet == {Slot(dequeue_, cn, i) : i \in wanted}

(* Cells that hold published, unconsumed bytes. *)
LiveCells == {k % N : k \in dequeue_..(enqueue_ - 1)}

(* No data race: the plain stores of write_at (or of the kernel) and the   *)
(* plain loads of dequeue, peek or a zero-copy reader never meet in a      *)
(* cell, and no store hits a byte that is published and not yet consumed,  *)
(* although the producer decides with a dequeue_ it loaded earlier.        *)
NoDataRace ==
    /\ WriteSet \subseteq Cells
    /\ WriteSet \cap (ReadSet \cup LiveCells) = {}

(* What the consumer has copied so far is still what the storage holds at  *)
(* the head of the queue: nothing it already read is overwritten before it *)
(* publishes its cursor (ring_buffer.h: "a reader never observes a torn    *)
(* frame").                                                                *)
ReadsIntact ==
    \A i \in 0..(cn - 1) \ wanted : dst[i] = buffer_[(dequeue_ + i) % N]

(* The bytes between the cursors, oldest first. *)
Contents == [i \in 1..(enqueue_ - dequeue_) |-> buffer_[(dequeue_ + i - 1) % N]]

Fifo == INSTANCE ByteFifo WITH queue <- Contents, offer <- frame, out <- got

(* The ring implements a bounded byte FIFO: every enqueue appears as one   *)
(* atomic append of exactly the bytes its caller passed (never a torn      *)
(* frame, never past the capacity) at its p_publish, every dequeue as one  *)
(* atomic removal of the oldest bytes at its c_publish, and every other    *)
(* step of either thread is invisible.                                     *)
ImplementsFifo == Fifo!FifoSpec
-----------------------------------------------------------------------------
(* The inductive strengthening used by the proofs. *)

(* A producer's call was admitted against a dequeue_ that can only have    *)
(* moved forward since, so its frame (or region) still fits.               *)
ProducerInv ==
    /\ ppc # "copy" => pending = {} /\ na = 0
    /\ ppc # "direct" => room = 0
    /\ ppc = "idle" => frame = << >>
    /\ enqueue_ - dequeue_ + Len(frame) <= N
    /\ enqueue_ + Len(frame) <= MaxCursor
    /\ ppc = "direct" => /\ Len(frame) <= room
                         /\ enqueue_ - dequeue_ + room <= N
                         /\ (enqueue_ % N) + room <= N

(* A consumer's call covers only bytes that were published before it. *)
ConsumerInv ==
    /\ cpc = "idle" => cn = 0
    /\ cn <= enqueue_ - dequeue_

(* The bytes of the current frame that have landed are where p_publish     *)
(* will uncover them.                                                      *)
Landed ==
    \A i \in 0..(Len(frame) - 1) \ pending :
        buffer_[(enqueue_ + i) % N] = frame[i + 1]

IInv == TypeOK /\ ProducerInv /\ ConsumerInv /\ Landed /\ ReadsIntact
=============================================================================

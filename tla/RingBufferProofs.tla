-------------------------- MODULE RingBufferProofs --------------------------
(***************************************************************************)
(* Proofs about the bytes of a connection, in and out of rings.            *)
(*                                                                         *)
(* RingBuffer, for every capacity, byte alphabet, payload set and cursor   *)
(* limit: the inductive invariant, the absence of data races, and that the *)
(* ring implements ByteFifo.                                               *)
(*                                                                         *)
(* The receive side of a chat connection (FrameParser), for both servers   *)
(* and every payload cap, ring, buffer and cut of the stream: the frames   *)
(* handled are the ones sent, and the backlog guards never fire.  The      *)
(* buffer is tied to the stream by position: it holds the bytes from the   *)
(* end of the last frame handled up to what was read.  A header at its     *)
(* front is then the header of the next frame, whatever the payload bytes  *)
(* look like.                                                              *)
(***************************************************************************)
EXTENDS RingBuffer, FrameParser, SequenceTheorems, TLAPS

-----------------------------------------------------------------------------
(* Arithmetic of storage offsets. *)

(* The remainder is the r of any decomposition N*q + r. *)
LEMMA ModUnique ==
    ASSUME NEW q \in Int, NEW r \in 0..(N - 1)
    PROVE  (N * q + r) % N = r
  BY CapacityAssumption

(* A cursor's storage offset lies in the storage. *)
LEMMA ModRange ==
    ASSUME NEW a \in Nat
    PROVE  a % N \in Cells
  BY CapacityAssumption DEF Cells

(* Advancing within the contiguous run moves the offset along. *)
LEMMA ModNoWrap ==
    ASSUME NEW a \in Nat, NEW k \in Nat, (a % N) + k < N
    PROVE  (a + k) % N = (a % N) + k
  <1> DEFINE q == a \div N
  <1>1. q \in Int /\ a = N * q + (a % N) /\ a % N \in 0..(N - 1)
    BY CapacityAssumption
  <1> HIDE DEF q
  <1>2. a + k = N * q + ((a % N) + k) /\ (a % N) + k \in 0..(N - 1)
    BY <1>1, CapacityAssumption
  <1>3. QED
    BY <1>1, <1>2, ModUnique

(* Advancing past the end of the storage continues from its start. *)
LEMMA ModWrap ==
    ASSUME NEW a \in Nat, NEW k \in Nat, k <= N, (a % N) + k >= N
    PROVE  (a + k) % N = (a % N) + k - N
  <1> DEFINE q == a \div N
  <1>1. q \in Int /\ a = N * q + (a % N) /\ a % N \in 0..(N - 1)
    BY CapacityAssumption
  <1> HIDE DEF q
  <1>2. a + k = N * (q + 1) + ((a % N) + k - N)
    <2>1. N \in Int /\ N * (q + 1) = N * q + N
      BY <1>1, CapacityAssumption
    <2>2. N * q \in Int /\ a % N \in Int
      BY <1>1, CapacityAssumption
    <2>3. \A m, r, n \in Int : a = m + r => a + k = (m + n) + (r + k - n)
      OBVIOUS
    <2>4. a + k = (N * q + N) + ((a % N) + k - N)
      BY <1>1, <2>1, <2>2, <2>3, Zenon
    <2>5. QED
      BY <2>1, <2>4, Zenon
  <1>3. (a % N) + k - N \in 0..(N - 1) /\ q + 1 \in Int
    BY <1>1, CapacityAssumption
  <1>4. QED
    BY <1>2, <1>3, ModUnique

(* Two stream positions less than N apart use different cells. *)
LEMMA ModDistinct ==
    ASSUME NEW a \in Nat, NEW b \in Nat, a < b, b < a + N
    PROVE  a % N # b % N
  <1>1. b - a \in Nat /\ 0 < b - a /\ b - a < N /\ b = a + (b - a)
    BY CapacityAssumption
  <1>2. a % N \in 0..(N - 1)
    BY CapacityAssumption
  <1>3. CASE (a % N) + (b - a) < N
    <2>1. (a + (b - a)) % N = (a % N) + (b - a)
      BY <1>1, <1>3, ModNoWrap
    <2>2. QED
      BY <1>1, <1>2, <2>1
  <1>4. CASE (a % N) + (b - a) >= N
    <2>1. (a + (b - a)) % N = (a % N) + (b - a) - N
      <3>1. b - a <= N
        BY <1>1, CapacityAssumption
      <3>2. QED
        BY <1>1, <1>4, <3>1, ModWrap
    <2>2. QED
      BY <1>1, <1>2, <2>1, CapacityAssumption
  <1>5. QED
    BY <1>1, <1>2, <1>3, <1>4, CapacityAssumption

(* write_at's and dequeue's split at the wrap puts byte i of a copy in the *)
(* cell of stream position cursor + i.                                     *)
LEMMA SlotIsMod ==
    ASSUME NEW cursor \in Nat, NEW n \in 0..N, NEW i \in 0..(n - 1)
    PROVE  Slot(cursor, n, i) = (cursor + i) % N
  <1>1. cursor % N \in 0..(N - 1) /\ i \in Nat /\ i <= N /\ i < n
    BY CapacityAssumption
  <1>2. CASE (cursor % N) + i < N
    <2>1. Slot(cursor, n, i) = (cursor % N) + i
      BY <1>1, <1>2, CapacityAssumption DEF Slot, umin
    <2>2. QED
      BY <1>1, <1>2, <2>1, ModNoWrap
  <1>3. CASE (cursor % N) + i >= N
    <2>1. Slot(cursor, n, i) = (cursor % N) + i - N
      BY <1>1, <1>3, CapacityAssumption DEF Slot, umin
    <2>2. QED
      BY <1>1, <1>3, <2>1, ModWrap
  <1>4. QED
    BY <1>1, <1>2, <1>3, CapacityAssumption

(* enqueue2's two regions are adjacent: byte i of the whole frame goes to  *)
(* the cell of stream position enqueue_ + i, in either region.             *)
LEMMA FrameSlotIsMod ==
    ASSUME TypeOK, ProducerInv, NEW i \in 0..(Len(frame) - 1)
    PROVE  FrameSlot(i) = (enqueue_ + i) % N
  <1>1. /\ enqueue_ \in Nat /\ na \in 0..Len(frame) /\ Len(frame) \in 0..N
        /\ i \in Nat
    BY CapacityAssumption, CursorAssumption, LenProperties
       DEF TypeOK, ProducerInv
  <1>2. CASE i < na
    <2>1. na \in 0..N /\ i \in 0..(na - 1)
      BY <1>1, <1>2, CapacityAssumption
    <2>2. QED
      BY <1>1, <1>2, <2>1, SlotIsMod DEF FrameSlot
  <1>3. CASE i >= na
    <2>1. /\ enqueue_ + na \in Nat
          /\ Len(frame) - na \in 0..N
          /\ i - na \in 0..((Len(frame) - na) - 1)
          /\ (enqueue_ + na) + (i - na) = enqueue_ + i
      BY <1>1, <1>3, CapacityAssumption
    <2>2. Slot(enqueue_ + na, Len(frame) - na, i - na)
            = ((enqueue_ + na) + (i - na)) % N
      BY <2>1, SlotIsMod
    <2>3. QED
      BY <1>1, <1>3, <2>1, <2>2 DEF FrameSlot
  <1>4. QED
    BY <1>1, <1>2, <1>3

-----------------------------------------------------------------------------
(* The inductive invariant. *)

(* The ring starts empty, whatever the storage holds. *)
LEMMA InitIInv == Init => IInv
  <1> SUFFICES ASSUME Init PROVE IInv
    OBVIOUS
  <1>1. frame = << >> /\ frame \in Seq(Byte) /\ Len(frame) = 0
    BY EmptySeq DEF Init
  <1>2. got \in Seq(Byte \cup {Blank})
    BY EmptySeq DEF Init
  <1>3. TypeOK
    BY <1>1, <1>2, CapacityAssumption, CursorAssumption DEF Init, TypeOK, Cells
  <1>4. ProducerInv /\ ConsumerInv
    BY <1>1, CapacityAssumption, CursorAssumption
       DEF Init, ProducerInv, ConsumerInv
  <1>5. Landed /\ ReadsIntact
    BY <1>1 DEF Init, Landed, ReadsIntact
  <1>6. QED
    BY <1>3, <1>4, <1>5 DEF IInv

(* The facts about ranges that every step below needs. *)
LEMMA Ranges ==
    ASSUME IInv
    PROVE  /\ N \in Nat /\ N > 1 /\ MaxCursor \in Nat
           /\ enqueue_ \in Nat /\ dequeue_ \in Nat /\ dequeue_ <= enqueue_
           /\ enqueue_ - dequeue_ <= N
           /\ Len(frame) \in 0..N /\ na \in Nat
           /\ enqueue_ + Len(frame) <= dequeue_ + N
           /\ cn \in 0..N /\ cn <= enqueue_ - dequeue_
           /\ room \in 0..N
  BY CapacityAssumption, CursorAssumption, LenProperties
     DEF IInv, TypeOK, ProducerInv, ConsumerInv

(* A store at a stream position that is not yet published, but will fit,   *)
(* leaves every other cell of the frame and of the queue alone.            *)
LEMMA StoreElsewhere ==
    ASSUME IInv, NEW p \in Nat, NEW v,
           enqueue_ <= p, p < dequeue_ + N,
           buffer_' = [buffer_ EXCEPT ![p % N] = v]
    PROVE  \A k \in Nat : /\ dequeue_ <= k
                          /\ k < dequeue_ + N
                          /\ k # p
                          => buffer_'[k % N] = buffer_[k % N]
  <1> SUFFICES ASSUME NEW k \in Nat, dequeue_ <= k, k < dequeue_ + N, k # p
               PROVE  buffer_'[k % N] = buffer_[k % N]
    OBVIOUS
  <1>1. k % N # p % N
    <2>1. CASE k < p
      BY <2>1, Ranges, ModDistinct
    <2>2. CASE p < k
      BY <2>2, Ranges, ModDistinct
    <2>3. QED
      BY <2>1, <2>2
  <1>2. k % N \in Cells /\ p % N \in Cells /\ buffer_ \in [Cells -> Byte]
    BY ModRange DEF IInv, TypeOK
  <1>3. QED
    BY <1>1, <1>2

(* Admitting a frame (enqueue, or enqueue2 with its two regions). *)
LEMMA EnqueueIInv ==
    ASSUME IInv, NEW s \in Seq(Byte), NEW m \in 0..Len(s),
           ppc = "idle",
           (enqueue_ - dequeue_) + Len(s) <= N,
           enqueue_ + Len(s) <= MaxCursor,
           ppc' = "copy", frame' = s, na' = m, pending' = 0..(Len(s) - 1),
           UNCHANGED <<enqueue_, buffer_, room>>, UNCHANGED cvars
    PROVE  IInv'
  <1>1. Len(s) \in Nat
    BY LenProperties
  <1>2. TypeOK'
    BY <1>1, CapacityAssumption, CursorAssumption DEF IInv, TypeOK, cvars, Cells
  <1>3. ProducerInv' /\ ConsumerInv'
    BY <1>1 DEF IInv, TypeOK, ProducerInv, ConsumerInv, cvars
  <1>4. Landed' /\ ReadsIntact'
    BY DEF IInv, Landed, ReadsIntact, cvars
  <1>5. QED
    BY <1>2, <1>3, <1>4 DEF IInv

(* One byte of write_at: it lands past every published byte. *)
LEMMA WriteAtIInv ==
    ASSUME IInv, NEW i \in pending, write_at(i)
    PROVE  IInv'
  <1>1. i \in 0..(Len(frame) - 1) /\ i \in Nat /\ i < Len(frame)
    BY Ranges DEF IInv, TypeOK
  <1>2. FrameSlot(i) = (enqueue_ + i) % N
    BY <1>1, FrameSlotIsMod DEF IInv
  <1>3. frame[i + 1] \in Byte
    BY <1>1, Ranges, ElementOfSeq DEF IInv, TypeOK
  <1>4. buffer_' = [buffer_ EXCEPT ![(enqueue_ + i) % N] = frame[i + 1]]
    BY <1>2 DEF write_at
  <1>5. enqueue_ + i \in Nat /\ enqueue_ <= enqueue_ + i /\ enqueue_ + i < dequeue_ + N
    BY <1>1, Ranges
  <1>6. \A k \in Nat : dequeue_ <= k /\ k < dequeue_ + N /\ k # enqueue_ + i
                         => buffer_'[k % N] = buffer_[k % N]
    BY <1>4, <1>5, StoreElsewhere
  <1>7. buffer_' \in [Cells -> Byte] /\ buffer_'[(enqueue_ + i) % N] = frame[i + 1]
    BY <1>3, <1>4, <1>5, ModRange DEF IInv, TypeOK
  <1>8. TypeOK'
    BY <1>7 DEF IInv, TypeOK, write_at, cvars
  <1>9. ProducerInv' /\ ConsumerInv'
    BY DEF IInv, ProducerInv, ConsumerInv, write_at, cvars
  <1>10. Landed'
    <2> SUFFICES ASSUME NEW j \in 0..(Len(frame) - 1), j \notin pending \ {i}
                 PROVE  buffer_'[(enqueue_ + j) % N] = frame[j + 1]
      BY DEF Landed, write_at, cvars
    <2>1. CASE j = i
      BY <2>1, <1>7
    <2>2. CASE j # i
      <3>1. /\ enqueue_ + j \in Nat /\ dequeue_ <= enqueue_ + j
            /\ enqueue_ + j < dequeue_ + N /\ enqueue_ + j # enqueue_ + i
        BY <2>2, <1>1, Ranges
      <3>2. buffer_[(enqueue_ + j) % N] = frame[j + 1]
        BY <2>2 DEF IInv, Landed
      <3>3. QED
        BY <3>1, <3>2, <1>6
    <2>3. QED
      BY <2>1, <2>2
  <1>11. ReadsIntact'
    <2> SUFFICES ASSUME NEW j \in 0..(cn - 1), j \notin wanted
                 PROVE  dst[j] = buffer_'[(dequeue_ + j) % N]
      BY DEF ReadsIntact, write_at, cvars
    <2>1. /\ dequeue_ + j \in Nat /\ dequeue_ <= dequeue_ + j
          /\ dequeue_ + j < dequeue_ + N /\ dequeue_ + j # enqueue_ + i
      BY <1>1, Ranges
    <2>2. QED
      BY <2>1, <1>6 DEF IInv, ReadsIntact
  <1>12. QED
    BY <1>8, <1>9, <1>10, <1>11 DEF IInv

(* Publishing n bytes that were admitted, or committing a direct region. *)
LEMMA PublishIInv ==
    ASSUME IInv, p_publish \/ commit_enqueue
    PROVE  IInv'
  <1>1. /\ enqueue_' = enqueue_ + Len(frame) /\ ppc' = "idle" /\ frame' = << >>
        /\ pending' = {} /\ pending = {} /\ na' = 0 /\ room' = 0
        /\ buffer_' = buffer_ /\ UNCHANGED cvars
    BY DEF IInv, ProducerInv, p_publish, commit_enqueue
  <1>2. frame' \in Seq(Byte) /\ Len(frame') = 0
    BY <1>1, EmptySeq
  <1>3. TypeOK'
    BY <1>1, <1>2, Ranges DEF IInv, TypeOK, ProducerInv, cvars
  <1>4. ProducerInv' /\ ConsumerInv'
    BY <1>1, <1>2, Ranges DEF IInv, ProducerInv, ConsumerInv, cvars
  <1>5. Landed' /\ ReadsIntact'
    BY <1>1, <1>2 DEF IInv, Landed, ReadsIntact, cvars
  <1>6. QED
    BY <1>3, <1>4, <1>5 DEF IInv

(* Handing out the contiguous free run for an io_uring recv. *)
LEMMA DirectEnqueueIInv ==
    ASSUME IInv, direct_enqueue
    PROVE  IInv'
  <1>1. enqueue_ % N \in 0..(N - 1)
    BY Ranges, ModRange DEF Cells
  <1>2. /\ room' \in 0..N /\ enqueue_ - dequeue_ + room' <= N
        /\ (enqueue_ % N) + room' <= N
    <2> DEFINE off == enqueue_ % N
    <2>1. room' = umin(N - (enqueue_ - dequeue_), N - off) /\ off \in 0..(N - 1)
      BY <1>1 DEF direct_enqueue, free_size, ToEnd
    <2> HIDE DEF off
    <2>2. room' \in 0..N /\ enqueue_ - dequeue_ + room' <= N /\ off + room' <= N
      <3>1. CASE N - (enqueue_ - dequeue_) < N - off
        <4>1. room' = N - (enqueue_ - dequeue_)
          BY <2>1, <3>1 DEF umin
        <4>2. N - (enqueue_ - dequeue_) \in 0..N /\ off <= enqueue_ - dequeue_
          BY <2>1, <3>1, Ranges
        <4>3. QED
          BY <2>1, <4>1, <4>2, Ranges
      <3>2. CASE ~(N - (enqueue_ - dequeue_) < N - off)
        <4>1. room' = N - off
          BY <2>1, <3>2 DEF umin
        <4>2. N - off \in 0..N /\ N - off <= N - (enqueue_ - dequeue_)
          BY <2>1, <3>2, Ranges
        <4>3. QED
          BY <2>1, <4>1, <4>2, Ranges
      <3>3. QED
        BY <3>1, <3>2
    <2>3. QED
      BY <2>2 DEF off
  <1>3. frame = << >> /\ Len(frame) = 0
    BY EmptySeq DEF IInv, ProducerInv, direct_enqueue
  <1>4. TypeOK'
    BY <1>2 DEF IInv, TypeOK, direct_enqueue, cvars
  <1>5. ProducerInv' /\ ConsumerInv'
    BY <1>2, <1>3 DEF IInv, ProducerInv, ConsumerInv, direct_enqueue, cvars
  <1>6. Landed' /\ ReadsIntact'
    BY DEF IInv, Landed, ReadsIntact, direct_enqueue, cvars
  <1>7. QED
    BY <1>4, <1>5, <1>6 DEF IInv

(* One byte the kernel stores into that run. *)
LEMMA KernelFillIInv ==
    ASSUME IInv, NEW v \in Byte, kernel_fill(v)
    PROVE  IInv'
  <1> DEFINE p == enqueue_ + Len(frame)
  <1>1. /\ Len(frame) < room /\ (enqueue_ % N) + room <= N
        /\ enqueue_ - dequeue_ + room <= N /\ p < MaxCursor
    BY DEF IInv, ProducerInv, kernel_fill
  <1>2. (enqueue_ + Len(frame)) % N = (enqueue_ % N) + Len(frame)
    <2> DEFINE off == enqueue_ % N
    <2>1. off \in 0..(N - 1) /\ off + room <= N
      BY <1>1, Ranges, ModRange DEF Cells
    <2> HIDE DEF off
    <2>2. off + Len(frame) < N
      BY <2>1, <1>1, Ranges
    <2>3. QED
      BY <2>2, Ranges, ModNoWrap DEF off
  <1>3. p \in Nat /\ enqueue_ <= p /\ p < dequeue_ + N
    BY <1>1, Ranges
  <1>4. buffer_' = [buffer_ EXCEPT ![p % N] = v]
    BY <1>2 DEF kernel_fill
  <1>5. /\ frame' = Append(frame, v) /\ frame' \in Seq(Byte)
        /\ Len(frame') = Len(frame) + 1 /\ frame'[Len(frame) + 1] = v
        /\ \A j \in 1..Len(frame) : frame'[j] = frame[j]
    BY AppendProperties DEF IInv, TypeOK, kernel_fill
  <1> HIDE DEF p
  <1>6. \A k \in Nat : dequeue_ <= k /\ k < dequeue_ + N /\ k # p
                         => buffer_'[k % N] = buffer_[k % N]
    BY <1>3, <1>4, StoreElsewhere
  <1>7. buffer_' \in [Cells -> Byte] /\ buffer_'[p % N] = v
    BY <1>3, <1>4, ModRange DEF IInv, TypeOK
  <1>8. pending = {} /\ na = 0 /\ ppc = "direct"
    BY DEF IInv, ProducerInv, kernel_fill
  <1>9. TypeOK'
    BY <1>5, <1>7, <1>8, Ranges DEF IInv, TypeOK, kernel_fill, cvars
  <1>10. ProducerInv' /\ ConsumerInv'
    BY <1>1, <1>5, <1>8, Ranges
       DEF p, IInv, ProducerInv, ConsumerInv, kernel_fill, cvars
  <1>11. Landed'
    <2> SUFFICES ASSUME NEW j \in 0..Len(frame)
                 PROVE  buffer_'[(enqueue_ + j) % N] = frame'[j + 1]
      <3>1. Len(frame') - 1 = Len(frame) /\ enqueue_' = enqueue_
        BY <1>5, Ranges DEF kernel_fill
      <3>2. QED
        BY <3>1 DEF Landed
    <2>1. CASE j = Len(frame)
      BY <2>1, <1>5, <1>7 DEF p
    <2>2. CASE j # Len(frame)
      <3>1. /\ enqueue_ + j \in Nat /\ dequeue_ <= enqueue_ + j
            /\ enqueue_ + j < dequeue_ + N /\ enqueue_ + j # p
            /\ j \in 0..(Len(frame) - 1) /\ j + 1 \in 1..Len(frame)
        BY <2>2, Ranges DEF p
      <3>2. buffer_[(enqueue_ + j) % N] = frame[j + 1]
        BY <3>1, <1>8 DEF IInv, Landed
      <3>3. QED
        BY <3>1, <3>2, <1>5, <1>6
    <2>3. QED
      BY <2>1, <2>2
  <1>12. ReadsIntact'
    <2> SUFFICES ASSUME NEW j \in 0..(cn - 1), j \notin wanted
                 PROVE  dst[j] = buffer_'[(dequeue_ + j) % N]
      BY DEF ReadsIntact, kernel_fill, cvars
    <2>1. /\ dequeue_ + j \in Nat /\ dequeue_ <= dequeue_ + j
          /\ dequeue_ + j < dequeue_ + N /\ dequeue_ + j # p
      BY <1>3, Ranges
    <2>2. QED
      BY <2>1, <1>6 DEF IInv, ReadsIntact
  <1>13. QED
    BY <1>9, <1>10, <1>11, <1>12 DEF IInv

(* Starting a dequeue, a peek or an in-place read. *)
LEMMA BeginReadIInv ==
    ASSUME IInv, NEW op \in {"dequeue", "peek", "direct"},
           NEW m \in 0..used_size, BeginRead(op, m)
    PROVE  IInv'
  <1>1. m \in 0..N /\ m <= enqueue_ - dequeue_
    BY Ranges DEF used_size
  <1>2. TypeOK'
    BY <1>1 DEF IInv, TypeOK, BeginRead, pvars
  <1>3. ProducerInv' /\ ConsumerInv'
    BY <1>1 DEF IInv, ProducerInv, ConsumerInv, BeginRead, pvars
  <1>4. Landed' /\ ReadsIntact'
    BY DEF IInv, Landed, ReadsIntact, BeginRead, pvars
  <1>5. QED
    BY <1>2, <1>3, <1>4 DEF IInv

(* One byte copied out: it is the byte at the head of the queue. *)
LEMMA CopyOutIInv ==
    ASSUME IInv, NEW i \in wanted, copy_out(i)
    PROVE  IInv'
  <1>1. i \in 0..(cn - 1) /\ i \in Cells /\ dequeue_ + i \in Nat
    BY Ranges DEF IInv, TypeOK, Cells
  <1>2. Slot(dequeue_, cn, i) = (dequeue_ + i) % N
    BY <1>1, Ranges, SlotIsMod
  <1>3. dst' = [dst EXCEPT ![i] = buffer_[(dequeue_ + i) % N]]
    BY <1>2 DEF copy_out
  <1>4. buffer_[(dequeue_ + i) % N] \in Byte
    BY <1>1, ModRange DEF IInv, TypeOK
  <1>5. TypeOK'
    BY <1>1, <1>3, <1>4 DEF IInv, TypeOK, copy_out, pvars
  <1>6. ProducerInv' /\ ConsumerInv' /\ Landed'
    BY DEF IInv, ProducerInv, ConsumerInv, Landed, copy_out, pvars
  <1>7. ReadsIntact'
    <2> SUFFICES ASSUME NEW j \in 0..(cn - 1), j \notin wanted \ {i}
                 PROVE  dst'[j] = buffer_[(dequeue_ + j) % N]
      BY DEF ReadsIntact, copy_out, pvars
    <2>1. j \in Cells /\ dst \in [Cells -> Byte \cup {Blank}]
      BY Ranges DEF IInv, TypeOK, Cells
    <2>2. CASE j = i
      BY <2>1, <2>2, <1>1, <1>3
    <2>3. CASE j # i
      BY <2>1, <2>3, <1>1, <1>3 DEF IInv, ReadsIntact
    <2>4. QED
      BY <2>2, <2>3
  <1>8. QED
    BY <1>5, <1>6, <1>7 DEF IInv

(* Publishing the consumer cursor, or returning from a peek. *)
LEMMA EndReadIInv ==
    ASSUME IInv, NEW k \in 0..cn, NEW c \in {dequeue_, dequeue_ + k},
           EndRead(k, c)
    PROVE  IInv'
  <1>1. c \in Nat /\ dequeue_ <= c /\ c <= enqueue_
    BY Ranges
  <1>2. got' \in Seq(Byte \cup {Blank})
    <2>1. ASSUME NEW i \in 1..k
          PROVE  dst[i - 1] \in Byte \cup {Blank}
      <3>1. i - 1 \in Cells
        BY Ranges DEF Cells
      <3>2. QED
        BY <3>1 DEF IInv, TypeOK
    <2>2. got' \in [1..k -> Byte \cup {Blank}] /\ k \in Nat
      BY <2>1, Ranges DEF EndRead
    <2>3. QED
      BY <2>2, SeqDef
  <1>3. TypeOK'
    BY <1>1, <1>2, Ranges DEF IInv, TypeOK, EndRead, pvars
  <1>4. ProducerInv'
    <2>1. /\ dequeue_' = c /\ UNCHANGED pvars
          /\ enqueue_ - c <= enqueue_ - dequeue_ /\ enqueue_ - c \in Nat
      <3>1. dequeue_' = c /\ UNCHANGED pvars
        BY DEF EndRead
      <3>2. enqueue_ \in Nat /\ dequeue_ \in Nat
        BY Ranges
      <3>3. QED
        BY <1>1, <3>1, <3>2
    <2>2. /\ enqueue_ - c + Len(frame) <= N
          /\ enqueue_ - dequeue_ + room <= N => enqueue_ - c + room <= N
      <3>1. /\ enqueue_ \in Nat /\ dequeue_ \in Nat /\ Len(frame) \in Nat
            /\ room \in Nat /\ N \in Nat /\ enqueue_ + Len(frame) <= dequeue_ + N
        BY Ranges
      <3>2. QED
        BY <1>1, <3>1
    <2>3. QED
      BY <2>1, <2>2 DEF IInv, ProducerInv, pvars
  <1>5. ConsumerInv'
    BY <1>1, Ranges DEF ConsumerInv, EndRead, pvars
  <1>6. Landed' /\ ReadsIntact'
    BY DEF IInv, Landed, ReadsIntact, EndRead, pvars
  <1>7. QED
    BY <1>3, <1>4, <1>5, <1>6 DEF IInv

(* Every step of either thread preserves the inductive invariant. *)
LEMMA StepIInv == IInv /\ [Next]_vars => IInv'
  <1> SUFFICES ASSUME IInv, [Next]_vars PROVE IInv'
    OBVIOUS
  <1>1. ASSUME NEW a \in Payloads, NEW b \in Payloads, enqueue2(a, b)
        PROVE  IInv'
    <2>1. a \in Seq(Byte) /\ b \in Seq(Byte)
      BY PayloadAssumption
    <2>2. /\ a \o b \in Seq(Byte) /\ Len(a \o b) = Len(a) + Len(b)
          /\ Len(a) \in Nat /\ Len(b) \in Nat
      BY <2>1, ConcatProperties, LenProperties
    <2>3. Len(a) \in 0..Len(a \o b) /\ enqueue_ \in Nat
      BY <2>2, Ranges
    <2>4. /\ (enqueue_ - dequeue_) + Len(a \o b) <= N
          /\ enqueue_ + Len(a \o b) <= MaxCursor
          /\ pending' = 0..(Len(a \o b) - 1)
      BY <1>1, <2>2, <2>3, Ranges DEF enqueue2
    <2>5. QED
      BY <1>1, <2>2, <2>3, <2>4, EnqueueIInv DEF enqueue2
  <1>2. ASSUME NEW a \in Payloads, enqueue(a)
        PROVE  IInv'
    <2>1. a \in Seq(Byte) /\ Len(a) \in 0..Len(a)
      BY PayloadAssumption, LenProperties
    <2>2. QED
      BY <1>2, <2>1, EnqueueIInv DEF enqueue
  <1>3. ASSUME NEW i \in pending, write_at(i)
        PROVE  IInv'
    BY <1>3, WriteAtIInv
  <1>4. ASSUME p_publish \/ commit_enqueue
        PROVE  IInv'
    BY <1>4, PublishIInv
  <1>5. CASE direct_enqueue
    BY <1>5, DirectEnqueueIInv
  <1>6. ASSUME NEW v \in Byte, kernel_fill(v)
        PROVE  IInv'
    BY <1>6, KernelFillIInv
  <1>7. ASSUME NEW n \in 0..N, dequeue(n) \/ peek(n)
        PROVE  IInv'
    <2>1. umin(n, used_size) \in 0..used_size
      BY Ranges DEF umin, used_size
    <2>2. QED
      BY <1>7, <2>1, BeginReadIInv DEF dequeue, peek
  <1>8. CASE direct_dequeue
    <2>1. dequeue_ % N \in 0..(N - 1)
      BY Ranges, ModRange DEF Cells
    <2>2. umin(used_size, ToEnd(dequeue_)) \in 0..used_size
      BY <2>1, Ranges DEF umin, used_size, ToEnd
    <2>3. QED
      BY <1>8, <2>2, BeginReadIInv DEF direct_dequeue
  <1>9. ASSUME NEW i \in wanted, copy_out(i)
        PROVE  IInv'
    BY <1>9, CopyOutIInv
  <1>10. CASE c_publish
    BY <1>10, Ranges, EndReadIInv DEF c_publish
  <1>11. CASE peek_return
    BY <1>11, Ranges, EndReadIInv DEF peek_return
  <1>12. ASSUME NEW k \in 0..N, commit_dequeue(k)
         PROVE  IInv'
    BY <1>12, EndReadIInv DEF commit_dequeue
  <1>13. CASE UNCHANGED vars
    BY <1>13 DEF vars, IInv, TypeOK, ProducerInv, ConsumerInv, Landed, ReadsIntact
  <1>14. QED
    BY <1>1, <1>2, <1>3, <1>4, <1>5, <1>6, <1>7, <1>8, <1>9, <1>10, <1>11,
       <1>12, <1>13 DEF Next, Producer, Consumer

(* The inductive invariant holds throughout: in particular the types, and  *)
(* 0 <= enqueue_ - dequeue_ <= N, so that the unsigned casts of free_size  *)
(* and used_size never see a negative difference.                          *)
THEOREM Invariance == Spec => []IInv
  <1>1. QED
    BY InitIInv, StepIInv, PTL DEF Spec

(* Type correctness of the ring. *)
THEOREM TypeCorrect == Spec => []TypeOK
  <1>1. IInv => TypeOK
    BY DEF IInv
  <1>2. QED
    BY <1>1, Invariance, PTL

(* Bytes the consumer has copied out of the storage stay what it copied    *)
(* until it publishes its cursor.                                          *)
THEOREM ReadsStayIntact == Spec => []ReadsIntact
  <1>1. IInv => ReadsIntact
    BY DEF IInv
  <1>2. QED
    BY <1>1, Invariance, PTL

(* Every cell the producer may still store into is the cell of a stream    *)
(* position at or past enqueue_ and within the capacity.                   *)
LEMMA WriteSetPositions ==
    ASSUME IInv, NEW x \in WriteSet
    PROVE  \E p \in Nat : /\ enqueue_ <= p /\ p < dequeue_ + N
                          /\ x = p % N
  <1>1. CASE ppc = "copy"
    <2>1. PICK i \in pending : x = FrameSlot(i)
      BY <1>1 DEF WriteSet
    <2>2. i \in 0..(Len(frame) - 1)
      BY DEF IInv, TypeOK
    <2>3. x = (enqueue_ + i) % N
      BY <2>1, <2>2, FrameSlotIsMod DEF IInv
    <2>4. enqueue_ + i \in Nat /\ enqueue_ <= enqueue_ + i /\ enqueue_ + i < dequeue_ + N
      BY <2>2, Ranges
    <2>5. QED
      BY <2>3, <2>4
  <1>2. CASE ppc = "direct"
    <2>1. PICK k \in Len(frame)..(room - 1) : x = (enqueue_ % N) + k
      BY <1>2 DEF WriteSet
    <2> DEFINE off == enqueue_ % N
    <2>2. /\ off \in 0..(N - 1) /\ off + room <= N
          /\ enqueue_ - dequeue_ + room <= N
      <3>1. enqueue_ \in Nat
        BY Ranges
      <3>2. off \in 0..(N - 1)
        BY <3>1, ModRange DEF Cells
      <3>3. ppc = "direct" => /\ enqueue_ - dequeue_ + room <= N
                              /\ (enqueue_ % N) + room <= N
        BY Zenon DEF IInv, ProducerInv
      <3>4. QED
        BY <1>2, <3>2, <3>3
    <2> HIDE DEF off
    <2>3. /\ k \in Nat /\ off + k < N
          /\ enqueue_ + k \in Nat /\ enqueue_ <= enqueue_ + k
          /\ enqueue_ + k < dequeue_ + N
      <3>1. /\ enqueue_ \in Nat /\ dequeue_ \in Nat /\ room \in Nat
            /\ N \in Nat /\ Len(frame) \in Nat
        BY Ranges
      <3>2. k \in Nat /\ k < room
        BY <3>1
      <3>3. QED
        BY <2>2, <3>1, <3>2
    <2>4. (enqueue_ + k) % N = (enqueue_ % N) + k
      BY <2>3, Ranges, ModNoWrap DEF off
    <2>5. QED
      BY <2>1, <2>3, <2>4
  <1>3. CASE ppc = "idle"
    BY <1>3 DEF WriteSet
  <1>4. QED
    BY <1>1, <1>2, <1>3 DEF IInv, TypeOK

(* Every cell the consumer may still load, and every live cell, is the     *)
(* cell of a stream position between the two cursors.                      *)
LEMMA ReadSetPositions ==
    ASSUME IInv, NEW x \in ReadSet \cup LiveCells
    PROVE  \E p \in Nat : dequeue_ <= p /\ p < enqueue_ /\ x = p % N
  <1>1. CASE x \in ReadSet
    <2>1. PICK i \in wanted : x = Slot(dequeue_, cn, i)
      BY <1>1 DEF ReadSet
    <2>2. i \in 0..(cn - 1)
      BY DEF IInv, TypeOK
    <2>3. x = (dequeue_ + i) % N
      BY <2>1, <2>2, Ranges, SlotIsMod
    <2>4. dequeue_ + i \in Nat /\ dequeue_ <= dequeue_ + i /\ dequeue_ + i < enqueue_
      BY <2>2, Ranges
    <2>5. QED
      BY <2>3, <2>4
  <1>2. CASE x \in LiveCells
    <2>1. PICK p \in dequeue_..(enqueue_ - 1) : x = p % N
      BY <1>2 DEF LiveCells
    <2>2. p \in Nat /\ dequeue_ <= p /\ p < enqueue_
      BY Ranges
    <2>3. QED
      BY <2>1, <2>2
  <1>3. QED
    BY <1>1, <1>2

(* No data race, for every capacity: a plain store of the producer never   *)
(* meets a plain load of the consumer or a byte still in the queue.        *)
THEOREM RaceFreedom == Spec => []NoDataRace
  <1>1. IInv => NoDataRace
    <2> SUFFICES ASSUME IInv, NEW x \in WriteSet
                 PROVE  x \in Cells /\ x \notin ReadSet \cup LiveCells
      BY DEF NoDataRace
    <2>1. PICK p \in Nat : enqueue_ <= p /\ p < dequeue_ + N /\ x = p % N
      BY WriteSetPositions
    <2>2. x \in Cells
      BY <2>1, ModRange
    <2>3. ASSUME x \in ReadSet \cup LiveCells
          PROVE  FALSE
      <3>1. PICK r \in Nat : dequeue_ <= r /\ r < enqueue_ /\ x = r % N
        BY <2>3, ReadSetPositions
      <3>2. r < p /\ p < r + N
        BY <2>1, <3>1, Ranges
      <3>3. QED
        BY <2>1, <3>1, <3>2, ModDistinct
    <2>4. QED
      BY <2>2, <2>3
  <1>2. QED
    BY <1>1, Invariance, PTL

-----------------------------------------------------------------------------
(* Refinement of ByteFifo. *)

(* The bytes of the storage f between two cursors d and e. *)
LEMMA WindowFacts ==
    ASSUME NEW f \in [Cells -> Byte], NEW d \in Nat, NEW e \in Nat, d <= e
    PROVE  LET w == [i \in 1..(e - d) |-> f[(d + i - 1) % N]]
           IN  w \in Seq(Byte) /\ Len(w) = e - d
  <1> DEFINE w == [i \in 1..(e - d) |-> f[(d + i - 1) % N]]
  <1>1. e - d \in Nat
    OBVIOUS
  <1>2. ASSUME NEW i \in 1..(e - d)
        PROVE  f[(d + i - 1) % N] \in Byte
    <2>1. d + i - 1 \in Nat
      OBVIOUS
    <2>2. QED
      BY <2>1, ModRange
  <1>3. w \in [1..(e - d) -> Byte]
    BY <1>2
  <1> HIDE DEF w
  <1>4. w \in Seq(Byte)
    BY <1>1, <1>3, SeqDef
  <1>5. Len(w) = e - d
    BY <1>1, <1>3, <1>4, LenProperties
  <1>6. QED
    BY <1>4, <1>5 DEF w

(* The abstract queue is a byte string as long as the cursors are apart. *)
LEMMA ContentsFacts ==
    ASSUME IInv
    PROVE  /\ Contents \in Seq(Byte)
           /\ Len(Contents) = enqueue_ - dequeue_
           /\ \A i \in 1..(enqueue_ - dequeue_) :
                Contents[i] = buffer_[(dequeue_ + i - 1) % N]
  BY Ranges, WindowFacts DEF Contents, IInv, TypeOK

(* A store into an unpublished cell is invisible in the queue. *)
LEMMA StoreInvisible ==
    ASSUME IInv, NEW p \in Nat, NEW v,
           enqueue_ <= p, p < dequeue_ + N,
           buffer_' = [buffer_ EXCEPT ![p % N] = v],
           UNCHANGED <<enqueue_, dequeue_>>
    PROVE  Contents' = Contents
  <1>1. ASSUME NEW i \in 1..(enqueue_ - dequeue_)
        PROVE  buffer_'[(dequeue_ + i - 1) % N] = buffer_[(dequeue_ + i - 1) % N]
    <2>1. /\ dequeue_ + i - 1 \in Nat /\ dequeue_ <= dequeue_ + i - 1
          /\ dequeue_ + i - 1 < dequeue_ + N /\ dequeue_ + i - 1 # p
      BY Ranges
    <2>2. QED
      BY <2>1, StoreElsewhere
  <1>2. QED
    BY <1>1 DEF Contents

(* Publishing appends the whole frame. *)
LEMMA PublishIsPut ==
    ASSUME IInv, p_publish \/ commit_enqueue
    PROVE  Fifo!Put(frame) /\ frame' = << >>
  <1>1. /\ enqueue_' = enqueue_ + Len(frame) /\ buffer_' = buffer_
        /\ dequeue_' = dequeue_ /\ got' = got /\ pending = {}
    BY DEF IInv, ProducerInv, p_publish, commit_enqueue, cvars
  <1>2. frame \in Seq(Byte) /\ Len(frame) \in 0..N
    BY Ranges DEF IInv, TypeOK
  <1>3. /\ Contents \o frame \in Seq(Byte)
        /\ Len(Contents \o frame) = (enqueue_ - dequeue_) + Len(frame)
        /\ \A i \in 1..((enqueue_ - dequeue_) + Len(frame)) :
             (Contents \o frame)[i] = IF i <= enqueue_ - dequeue_
                                      THEN Contents[i]
                                      ELSE frame[i - (enqueue_ - dequeue_)]
    <2> DEFINE d == enqueue_ - dequeue_
    <2>1. Contents \in Seq(Byte) /\ Len(Contents) = d
      BY ContentsFacts
    <2> HIDE DEF d
    <2>2. /\ Contents \o frame \in Seq(Byte)
          /\ Len(Contents \o frame) = Len(Contents) + Len(frame)
          /\ \A i \in 1..(Len(Contents) + Len(frame)) :
               (Contents \o frame)[i] = IF i <= Len(Contents)
                                        THEN Contents[i]
                                        ELSE frame[i - Len(Contents)]
      BY <1>2, <2>1, ConcatProperties
    <2>3. QED
      BY <2>1, <2>2 DEF d
  <1>4. /\ Contents' \in Seq(Byte)
        /\ Len(Contents') = (enqueue_ - dequeue_) + Len(frame)
    <2>1. Contents' \in Seq(Byte) /\ Len(Contents') = enqueue_' - dequeue_'
      <3>1. /\ buffer_' \in [Cells -> Byte] /\ dequeue_' \in Nat
            /\ enqueue_' \in Nat /\ dequeue_' <= enqueue_'
        BY <1>1, <1>2, Ranges DEF IInv, TypeOK
      <3>2. QED
        BY <3>1, WindowFacts DEF Contents
    <2>2. QED
      BY <1>1, <1>2, <2>1, Ranges
  <1>5. ASSUME NEW i \in 1..((enqueue_ - dequeue_) + Len(frame))
        PROVE  Contents'[i] = (Contents \o frame)[i]
    <2>1. Contents'[i] = buffer_[(dequeue_ + i - 1) % N]
      <3>1. i \in 1..(enqueue_' - dequeue_')
        BY <1>1, <1>2, Ranges
      <3>2. QED
        BY <1>1, <3>1 DEF Contents
    <2>2. CASE i <= enqueue_ - dequeue_
      <3>1. i \in 1..(enqueue_ - dequeue_)
        BY <2>2, Ranges
      <3>2. QED
        BY <2>1, <2>2, <3>1, <1>3, ContentsFacts
    <2>3. CASE ~(i <= enqueue_ - dequeue_)
      <3> DEFINE j == i - (enqueue_ - dequeue_) - 1
      <3>1. /\ j \in 0..(Len(frame) - 1) /\ enqueue_ + j = dequeue_ + i - 1
            /\ j + 1 = i - (enqueue_ - dequeue_)
        BY <2>3, <1>2, Ranges
      <3> HIDE DEF j
      <3>2. buffer_[(enqueue_ + j) % N] = frame[j + 1]
        BY <3>1, <1>1 DEF IInv, Landed
      <3>3. QED
        BY <2>1, <2>3, <3>1, <3>2, <1>3
    <2>4. QED
      BY <2>2, <2>3
  <1>6. Contents' = Contents \o frame
    <2>1. Len(Contents') = Len(Contents \o frame)
      BY <1>3, <1>4
    <2>2. \A i \in 1..Len(Contents') : Contents'[i] = (Contents \o frame)[i]
      BY <1>4, <1>5
    <2>3. QED
      BY <1>3, <1>4, <2>1, <2>2, SeqEqual
  <1>7. Len(Contents) + Len(frame) <= N
    BY <1>2, ContentsFacts, Ranges
  <1>8. frame' = << >>
    BY DEF p_publish, commit_enqueue
  <1>9. QED
    BY <1>1, <1>6, <1>7, <1>8 DEF Fifo!Put

(* What a finished read returns is the head of the queue. *)
LEMMA ReadReturnsHead ==
    ASSUME IInv, NEW k \in 0..cn, wanted \cap 0..(k - 1) = {},
           got' = [i \in 1..k |-> dst[i - 1]]
    PROVE  got' = SubSeq(Contents, 1, k) /\ k <= Len(Contents) /\ k \in 0..N
  <1>1. k \in Nat /\ k <= enqueue_ - dequeue_ /\ k \in 0..N
    BY Ranges
  <1>2. \A i \in 1..k : Contents[i] \in Byte
    BY <1>1, ContentsFacts, ElementOfSeq
  <1>3. /\ SubSeq(Contents, 1, k) \in Seq(Byte)
        /\ Len(SubSeq(Contents, 1, k)) = k
        /\ \A i \in 1..k : SubSeq(Contents, 1, k)[i] = Contents[i]
    BY <1>1, <1>2, SubSeqProperties
  <1>4. ASSUME NEW i \in 1..k
        PROVE  got'[i] = Contents[i] /\ got'[i] \in Byte
    <2>1. i - 1 \in 0..(cn - 1) /\ i - 1 \notin wanted
      <3>1. cn \in Nat
        BY Ranges
      <3>2. i - 1 \in 0..(k - 1) /\ i - 1 \in 0..(cn - 1)
        BY <3>1, <1>1
      <3>3. QED
        BY <3>2
    <2>2. dst[i - 1] = buffer_[(dequeue_ + (i - 1)) % N]
      BY <2>1 DEF IInv, ReadsIntact
    <2>3. dequeue_ + (i - 1) = dequeue_ + i - 1 /\ i \in 1..(enqueue_ - dequeue_)
      BY <1>1, Ranges
    <2>4. QED
      BY <2>2, <2>3, <1>2, ContentsFacts
  <1>5. got' \in Seq(Byte) /\ Len(got') = k
    <2>1. got' \in [1..k -> Byte]
      BY <1>4
    <2>2. got' \in Seq(Byte)
      BY <2>1, <1>1, SeqDef
    <2>3. QED
      BY <2>1, <2>2, <1>1, LenProperties
  <1>6. QED
    BY <1>1, <1>3, <1>4, <1>5, ContentsFacts, SeqEqual

(* Moving the cursor by k removes the k oldest bytes. *)
LEMMA AdvanceDropsHead ==
    ASSUME IInv, NEW k \in 0..cn, dequeue_' = dequeue_ + k,
           UNCHANGED <<enqueue_, buffer_>>
    PROVE  Contents' = SubSeq(Contents, k + 1, Len(Contents))
  <1> DEFINE d == enqueue_ - dequeue_
  <1>1. d \in Nat /\ k \in Nat /\ k <= d /\ d - k = enqueue_' - dequeue_'
    BY Ranges
  <1>2. /\ Contents' \in Seq(Byte) /\ Len(Contents') = d - k
    <2>1. /\ buffer_' \in [Cells -> Byte] /\ dequeue_' \in Nat
          /\ enqueue_' \in Nat /\ dequeue_' <= enqueue_'
      BY <1>1, Ranges DEF IInv, TypeOK
    <2>2. QED
      BY <1>1, <2>1, WindowFacts DEF Contents
  <1>3. Contents \in Seq(Byte) /\ Len(Contents) = d
    BY ContentsFacts
  <1>4. \A i \in (k + 1)..d : Contents[i] \in Byte
    BY <1>1, <1>3, ElementOfSeq
  <1>5. /\ SubSeq(Contents, k + 1, d) \in Seq(Byte)
        /\ Len(SubSeq(Contents, k + 1, d)) = d - k
        /\ \A i \in 1..(d - k) : SubSeq(Contents, k + 1, d)[i] = Contents[k + i]
    <2>1. k + 1 \in Int /\ d \in Int
      BY <1>1
    <2>2. /\ SubSeq(Contents, k + 1, d) \in Seq(Byte)
          /\ Len(SubSeq(Contents, k + 1, d))
               = IF k + 1 <= d THEN d - (k + 1) + 1 ELSE 0
          /\ \A i \in 1..(d - (k + 1) + 1) :
               SubSeq(Contents, k + 1, d)[i] = Contents[(k + 1) + i - 1]
      BY <2>1, <1>4, SubSeqProperties
    <2>3. /\ d - (k + 1) + 1 = d - k
          /\ (IF k + 1 <= d THEN d - (k + 1) + 1 ELSE 0) = d - k
          /\ \A i \in 1..(d - k) : (k + 1) + i - 1 = k + i
      BY <1>1
    <2>4. QED
      BY <2>2, <2>3
  <1>6. ASSUME NEW i \in 1..(d - k)
        PROVE  Contents'[i] = SubSeq(Contents, k + 1, d)[i]
    <2>1. i \in 1..(enqueue_' - dequeue_')
      BY <1>1
    <2>2. Contents'[i] = buffer_[((dequeue_ + k) + i - 1) % N]
      BY <2>1 DEF Contents
    <2>3. /\ (dequeue_ + k) + i - 1 = dequeue_ + (k + i) - 1
          /\ k + i \in 1..(enqueue_ - dequeue_)
      <3> PICK de : de = dequeue_
        OBVIOUS
      <3> PICK width : width = d
        OBVIOUS
      <3>1. /\ width \in Nat /\ k \in Nat /\ k <= width /\ de \in Nat
            /\ i \in 1..(width - k) /\ width = enqueue_ - dequeue_
        BY <1>1, Ranges
      <3>2. (de + k) + i - 1 = de + (k + i) - 1 /\ k + i \in 1..width
        BY ONLY <3>1
      <3>3. QED
        BY ONLY <3>1, <3>2, de = dequeue_
    <2>4. Contents[k + i] = buffer_[(dequeue_ + (k + i) - 1) % N]
      BY <2>3, ContentsFacts
    <2>5. QED
      BY <2>2, <2>3, <2>4, <1>5
  <1> HIDE DEF d
  <1>7. QED
    BY <1>2, <1>3, <1>5, <1>6, SeqEqual

(* A finished dequeue is an atomic Take of the oldest bytes. *)
LEMMA EndReadIsTake ==
    ASSUME IInv, NEW k \in 0..cn, wanted \cap 0..(k - 1) = {},
           EndRead(k, dequeue_ + k)
    PROVE  Fifo!Take(k) /\ k \in 0..N /\ frame' = frame
  <1>1. got' = SubSeq(Contents, 1, k) /\ k <= Len(Contents) /\ k \in 0..N
    BY ReadReturnsHead DEF EndRead
  <1>2. Contents' = SubSeq(Contents, k + 1, Len(Contents))
    BY AdvanceDropsHead DEF EndRead, pvars
  <1>3. QED
    BY <1>1, <1>2 DEF Fifo!Take, EndRead, pvars

(* Bytes that join the frame without showing are an Offer. *)
LEMMA OfferIsStep ==
    ASSUME NEW s \in Seq(Byte), Len(s) <= N, frame' = frame \o s,
           UNCHANGED <<Contents, got>>
    PROVE  Fifo!FifoNext
  <1>1. s \in Fifo!Strings
    <2>1. s \in [1..Len(s) -> Byte] /\ Len(s) \in 0..N
      BY LenProperties, CapacityAssumption
    <2>2. QED
      BY <2>1 DEF Fifo!Strings
  <1>2. Fifo!Offer(s)
    BY DEF Fifo!Offer
  <1>3. QED
    BY <1>1, <1>2 DEF Fifo!FifoNext

(* Every step of the ring is a step of the FIFO or invisible to it. *)
LEMMA StepRefines == IInv /\ [Next]_vars => [Fifo!FifoNext]_(Fifo!fifoVars)
  <1> SUFFICES ASSUME IInv, [Next]_vars
               PROVE  Fifo!FifoNext \/ UNCHANGED <<Contents, frame, got>>
    BY DEF Fifo!fifoVars
  <1>1. ASSUME UNCHANGED <<enqueue_, dequeue_, buffer_>>
        PROVE  UNCHANGED Contents
    BY <1>1 DEF Contents
  <1>2. ASSUME NEW i \in pending, write_at(i)
        PROVE  UNCHANGED <<Contents, frame, got>>
    <2>1. i \in 0..(Len(frame) - 1)
      BY DEF IInv, TypeOK
    <2>2. FrameSlot(i) = (enqueue_ + i) % N
      BY <2>1, FrameSlotIsMod DEF IInv
    <2>3. /\ enqueue_ + i \in Nat /\ enqueue_ <= enqueue_ + i
          /\ enqueue_ + i < dequeue_ + N
      BY <2>1, Ranges
    <2>4. QED
      BY <1>2, <2>2, <2>3, StoreInvisible DEF write_at, cvars
  <1>3. ASSUME NEW v \in Byte, kernel_fill(v)
        PROVE  Fifo!FifoNext
    <2> DEFINE off == enqueue_ % N
    <2>1. /\ off \in 0..(N - 1) /\ off + room <= N /\ Len(frame) < room
          /\ enqueue_ - dequeue_ + room <= N
      BY <1>3, Ranges, ModRange DEF IInv, ProducerInv, Cells, kernel_fill
    <2> HIDE DEF off
    <2>2. /\ off + Len(frame) < N
          /\ enqueue_ + Len(frame) \in Nat
          /\ enqueue_ <= enqueue_ + Len(frame)
          /\ enqueue_ + Len(frame) < dequeue_ + N
      BY <2>1, Ranges
    <2>3. (enqueue_ + Len(frame)) % N = (enqueue_ % N) + Len(frame)
      BY <2>2, Ranges, ModNoWrap DEF off
    <2>4. UNCHANGED <<Contents, got>>
      BY <1>3, <2>2, <2>3, StoreInvisible DEF kernel_fill, cvars
    <2>5. frame' = frame \o <<v>>
      BY <1>3, Ranges DEF kernel_fill
    <2>6. <<v>> \in Seq(Byte) /\ Len(<<v>>) <= N
      BY CapacityAssumption
    <2>7. QED
      BY <2>4, <2>5, <2>6, OfferIsStep
  <1>4. ASSUME p_publish \/ commit_enqueue
        PROVE  Fifo!FifoNext
    BY <1>4, PublishIsPut DEF Fifo!FifoNext
  <1>5. CASE c_publish
    <2>1. Fifo!Take(cn) /\ cn \in 0..N /\ frame' = frame
      BY <1>5, Ranges, EndReadIsTake DEF c_publish
    <2>2. QED
      BY <2>1 DEF Fifo!FifoNext
  <1>6. CASE peek_return
    <2>1. got' = SubSeq(Contents, 1, cn) /\ cn <= Len(Contents) /\ cn \in 0..N
      <3>1. /\ cn \in 0..cn /\ wanted \cap 0..(cn - 1) = {}
            /\ got' = [i \in 1..cn |-> dst[i - 1]]
        BY <1>6, Ranges DEF peek_return, EndRead
      <3>2. QED
        BY <3>1, ReadReturnsHead
    <2>2. Contents' = Contents /\ frame' = frame
      BY <1>6 DEF peek_return, EndRead, pvars, Contents
    <2>3. QED
      BY <2>1, <2>2 DEF Fifo!FifoNext, Fifo!Look
  <1>7. ASSUME NEW k \in 0..N, commit_dequeue(k)
        PROVE  Fifo!FifoNext
    <2>1. k \in 0..cn /\ wanted \cap 0..(k - 1) = {} /\ EndRead(k, dequeue_ + k)
      BY <1>7 DEF commit_dequeue
    <2>2. Fifo!Take(k) /\ frame' = frame
      BY <2>1, EndReadIsTake
    <2>3. QED
      BY <2>2 DEF Fifo!FifoNext
  <1>8. CASE direct_enqueue \/ UNCHANGED vars
    BY <1>1, <1>8 DEF direct_enqueue, vars, cvars
  <1>9. ASSUME NEW s \in Seq(Byte), ppc = "idle", frame' = s, Len(s) <= N,
               UNCHANGED <<enqueue_, dequeue_, buffer_, got>>
        PROVE  Fifo!FifoNext
    <2>1. s = frame \o s
      BY <1>9 DEF IInv, ProducerInv
    <2>2. QED
      BY <1>1, <1>9, <2>1, OfferIsStep
  <1>10. ASSUME NEW a \in Payloads, NEW b \in Payloads, enqueue2(a, b)
         PROVE  Fifo!FifoNext
    <2>1. /\ a \in Seq(Byte) /\ b \in Seq(Byte)
          /\ a \o b \in Seq(Byte) /\ Len(a \o b) = Len(a) + Len(b)
      BY PayloadAssumption
    <2>2. Len(a \o b) <= N
      <3>1. (enqueue_ - dequeue_) + (Len(a) + Len(b)) <= N
        BY <1>10 DEF enqueue2
      <3>2. Len(a) \in Nat /\ Len(b) \in Nat
        BY <2>1
      <3> HIDE <1>10
      <3>3. QED
        BY <2>1, <3>1, <3>2, Ranges
    <2>3. QED
      BY <1>9, <1>10, <2>1, <2>2 DEF enqueue2, cvars
  <1>11. ASSUME NEW a \in Payloads, enqueue(a)
         PROVE  Fifo!FifoNext
    <2>1. a \in Seq(Byte)
      BY PayloadAssumption
    <2>2. Len(a) <= N
      BY <1>11, <2>1, Ranges DEF enqueue
    <2>3. QED
      BY <1>9, <1>11, <2>1, <2>2 DEF enqueue, cvars
  <1>12. CASE \/ \E n \in 0..N : dequeue(n) \/ peek(n)
              \/ direct_dequeue
              \/ \E i \in wanted : copy_out(i)
    BY <1>1, <1>12 DEF dequeue, peek, direct_dequeue, BeginRead, copy_out, pvars
  <1>13. QED
    BY <1>2, <1>3, <1>4, <1>5, <1>6, <1>7, <1>8, <1>10, <1>11, <1>12
       DEF Next, Producer, Consumer

(* The ring implements the bounded byte FIFO, for every capacity: an       *)
(* enqueue is one atomic append of its frame at its p_publish, a dequeue   *)
(* one atomic removal at its c_publish; no other step of either shows.     *)
THEOREM Refinement == Spec => ImplementsFifo
  <1>1. Init => Fifo!FifoInit
    <2> SUFFICES ASSUME Init PROVE Fifo!FifoInit
      OBVIOUS
    <2>1. IInv
      BY InitIInv
    <2>2. Len(Contents) = 0 /\ Contents \in Seq(Byte)
      BY <2>1, ContentsFacts DEF Init
    <2>3. Contents = << >>
      BY <2>2, EmptySeq
    <2>4. QED
      BY <2>3 DEF Init, Fifo!FifoInit
  <1>2. QED
    BY <1>1, Invariance, StepRefines, PTL
       DEF Spec, ImplementsFifo, Fifo!FifoSpec
-----------------------------------------------------------------------------
(* Sequences. *)

(* The smaller of two numbers. *)
LEMMA MinOfTwo ==
    ASSUME NEW a \in Int, NEW b \in Int
    PROVE  Min({a, b}) = IF a <= b THEN a ELSE b
  <1> DEFINE v == IF a <= b THEN a ELSE b
  <1>1. v \in {a, b} /\ \A y \in {a, b} : v <= y
    OBVIOUS
  <1>2. ASSUME NEW x \in {a, b}, \A y \in {a, b} : x <= y
        PROVE  x = v
    BY <1>2
  <1>3. QED
    BY <1>1, <1>2 DEF Min

(* One string behind another. *)
LEMMA Joined ==
    ASSUME NEW S, NEW s \in Seq(S), NEW u \in Seq(S), NEW v, v = s \o u
    PROVE  /\ v \in Seq(S) /\ Len(v) = Len(s) + Len(u)
           /\ \A i \in 1..Len(s) : v[i] = s[i]
           /\ \A k \in 1..Len(u) : v[Len(s) + k] = u[k]
  <1> DEFINE w == s \o u
  <1>1. /\ w \in Seq(S) /\ Len(w) = Len(s) + Len(u)
        /\ \A i \in 1..(Len(s) + Len(u)) :
             w[i] = IF i <= Len(s) THEN s[i] ELSE u[i - Len(s)]
    BY ConcatProperties
  <1>2. w = v /\ Len(s) \in Nat /\ Len(u) \in Nat
    OBVIOUS
  <1> HIDE DEF w
  <1>3. \A i \in 1..Len(s) : w[i] = s[i]
    BY <1>1, <1>2
  <1>4. ASSUME NEW k \in 1..Len(u) PROVE w[Len(s) + k] = u[k]
    <2>1. /\ Len(s) + k \in 1..(Len(s) + Len(u)) /\ ~(Len(s) + k <= Len(s))
          /\ (Len(s) + k) - Len(s) = k
      BY <1>2
    <2>2. QED
      BY <2>1, <1>1
  <1>5. QED
    BY <1>1, <1>2, <1>3, <1>4

(* A part of a string, from after position a up to b. *)
LEMMA Between ==
    ASSUME NEW S, NEW s \in Seq(S), NEW a \in Nat, NEW b \in Nat, a <= b, b <= Len(s)
    PROVE  /\ SubSeq(s, a + 1, b) \in Seq(S) /\ Len(SubSeq(s, a + 1, b)) = b - a
           /\ \A i \in 1..(b - a) : SubSeq(s, a + 1, b)[i] = s[a + i]
  <1> DEFINE u == SubSeq(s, a + 1, b)
  <1>1. Len(s) \in Nat /\ \A i \in 1..Len(s) : s[i] \in S
    OBVIOUS
  <1>2. a + 1 \in Int /\ b \in Int /\ \A i \in (a + 1)..b : s[i] \in S
    BY <1>1
  <1>3. /\ u \in Seq(S) /\ Len(u) = IF a + 1 <= b THEN b - (a + 1) + 1 ELSE 0
        /\ \A i \in 1..(b - (a + 1) + 1) : u[i] = s[(a + 1) + i - 1]
    BY <1>2, SubSeqProperties
  <1> HIDE DEF u
  <1>4. Len(u) = b - a
    BY <1>3
  <1>5. \A i \in 1..(b - a) : i \in 1..(b - (a + 1) + 1) /\ (a + 1) + i - 1 = a + i
    OBVIOUS
  <1>6. \A i \in 1..(b - a) : u[i] = s[a + i]
    BY <1>3, <1>5
  <1>7. QED
    BY <1>3, <1>4, <1>6 DEF u

(* The bytes of a frame. *)
LEMMA Encoded ==
    ASSUME NEW f \in Frame
    PROVE  /\ f.len \in Nat /\ f.type \in Nat
           /\ Encode(f) \in Seq(Nat) /\ Len(Encode(f)) = 2 + f.len
           /\ Encode(f)[1] = f.len /\ Encode(f)[2] = f.type
  <1> DEFINE h == <<f.len, f.type>>
             b == [i \in 1..f.len |-> f.fill]
  <1>1. f.len \in Nat /\ f.type \in Nat /\ f.fill \in Nat
    BY ParserAssumption DEF Frame, Plain, Fatal
  <1>2. h \in Seq(Nat) /\ Len(h) = 2 /\ h[1] = f.len /\ h[2] = f.type
    BY <1>1
  <1>3. b \in Seq(Nat) /\ Len(b) = f.len
    <2>1. b \in [1..f.len -> Nat]
      BY <1>1
    <2> HIDE DEF b
    <2>2. QED
      BY <1>1, <2>1
  <1> DEFINE w == h \o b
  <1>4. w = Encode(f) /\ w = h \o b
    BY DEF Encode
  <1> HIDE DEF h, b, w
  <1>5. /\ w \in Seq(Nat) /\ Len(w) = Len(h) + Len(b)
        /\ \A i \in 1..Len(h) : w[i] = h[i]
    <2>1. h \in Seq(Nat) /\ b \in Seq(Nat)
      BY <1>2, <1>3
    <2>2. w = h \o b
      BY <1>4
    <2>3. QED
      BY ONLY <2>1, <2>2, Joined
  <1>6. /\ w \in Seq(Nat) /\ Len(w) = 2 + f.len /\ w[1] = f.len /\ w[2] = f.type
    <2>1. Len(h) = 2 /\ 1 \in 1..2 /\ 2 \in 1..2
      BY <1>2
    <2>2. w[1] = h[1] /\ w[2] = h[2]
      BY ONLY <1>5, <2>1
    <2>3. Len(w) = 2 + f.len
      BY ONLY <1>1, <1>3, <1>5, <2>1
    <2>4. QED
      BY <1>2, <1>5, <2>2, <2>3
  <1>7. QED
    BY <1>1, <1>4, <1>6

-----------------------------------------------------------------------------
(* What the invariant says of the numbers. *)
LEMMA Facts ==
    ASSUME ParserTypeOK
    PROVE  /\ sent \in Seq(Frame) /\ stream \in Seq(Nat) /\ ends \in Seq(Nat)
           /\ in \in Seq(Nat) /\ handled \in Seq([len : Nat, type : Nat])
           /\ Len(sent) \in Nat /\ Len(stream) \in Nat /\ Len(in) \in Nat
           /\ Len(handled) \in Nat /\ taken \in Nat /\ arrived \in Nat
           /\ taken <= arrived /\ arrived <= Len(stream)
           /\ k_max_payload \in Nat /\ k_rx_ring \in Nat /\ k_rx_ring > 2 + k_max_payload
           /\ BufSize \in Nat /\ BufSize > 0
  <1>1. BufSize \in Nat \ {0}
    BY ParserAssumption DEF BufSize
  <1>2. Len(stream) \in Nat
    BY DEF ParserTypeOK
  <1>3. arrived \in Nat /\ arrived <= Len(stream)
    BY <1>2 DEF ParserTypeOK
  <1>4. taken \in Nat /\ taken <= arrived
    BY <1>3 DEF ParserTypeOK
  <1>5. QED
    BY <1>1, <1>2, <1>3, <1>4, ParserAssumption DEF ParserTypeOK, k_max_frame, k_header_size

(* The invariant holds of a fresh connection. *)
LEMMA InitParserInv == ParserInit => ParserInv
  <1> SUFFICES ASSUME ParserInit PROVE ParserInv
    OBVIOUS
  <1>1. ParserTypeOK
    <2>1. << >> \in Seq(Frame) /\ << >> \in Seq(Nat) /\ << >> \in Seq([len : Nat, type : Nat])
      OBVIOUS
    <2>2. Len(stream) = 0 /\ Len(in) = 0 /\ arrived = 0 /\ taken = 0
      BY DEF ParserInit
    <2>3. taken \in 0..arrived /\ arrived \in 0..Len(stream) /\ Len(in) <= k_rx_ring
      BY <2>2, ParserAssumption
    <2>4. QED
      BY <2>1, <2>3 DEF ParserInit, ParserTypeOK
  <1>2. StreamFramed /\ Buffered
    BY DEF ParserInit, StreamFramed, Buffered, Offset
  <1>3. ParsedOut /\ HandledInOrder /\ BacklogNeverFires
    BY DEF ParserInit, ParsedOut, Partial, HeaderBuffered, k_header_size, HandledInOrder,
           BacklogNeverFires
  <1>4. QED
    BY <1>1, <1>2, <1>3 DEF ParserInv

-----------------------------------------------------------------------------
(* The client writes a frame: it begins where the stream ended. *)
LEMMA ClientSendsInv ==
    ASSUME ParserInv, NEW f \in Frame, client_sends(f)
    PROVE  ParserInv'
  <1> DEFINE e == Encode(f)
  <1> PICK n : n = Len(sent)
    OBVIOUS
  <1> PICK l : l = Len(stream)
    OBVIOUS
  <1>1. /\ sent' = Append(sent, f) /\ stream' = stream \o e
        /\ ends' = Append(ends, l + 2 + f.len)
        /\ UNCHANGED <<build, arrived, closed, taken, in, pc, full, handled, closing, why>>
    BY DEF client_sends, k_header_size
  <1>2. /\ ParserTypeOK /\ StreamFramed /\ Buffered /\ ParsedOut /\ HandledInOrder
        /\ BacklogNeverFires
    BY DEF ParserInv
  <1>3. /\ f.len \in Nat /\ f.type \in Nat /\ e \in Seq(Nat) /\ Len(e) = 2 + f.len
        /\ e[1] = f.len /\ e[2] = f.type
    BY Encoded
  <1> HIDE DEF e
  <1>4. /\ stream' \in Seq(Nat) /\ Len(stream') = l + 2 + f.len
        /\ \A i \in 1..l : stream'[i] = stream[i]
        /\ stream'[l + 1] = f.len /\ stream'[l + 2] = f.type
    <2>1. stream \in Seq(Nat) /\ e \in Seq(Nat) /\ l \in Nat /\ l = Len(stream)
      BY <1>2, <1>3, Facts
    <2>2. stream' = stream \o e
      BY <1>1
    <2>3. /\ stream' \in Seq(Nat) /\ Len(stream') = Len(stream) + Len(e)
          /\ \A i \in 1..Len(stream) : stream'[i] = stream[i]
          /\ \A k \in 1..Len(e) : stream'[Len(stream) + k] = e[k]
      BY ONLY <2>1, <2>2, Joined
    <2>4. Len(stream') = l + 2 + f.len
      <3>1. f.len \in Nat /\ l \in Nat
        BY <1>3, <2>1
      <3>2. Len(stream') = l + (2 + f.len)
        BY <1>3, <2>1, <2>3
      <3>3. l + (2 + f.len) = l + 2 + f.len
        BY ONLY <3>1
      <3>4. QED
        BY ONLY <3>2, <3>3
    <2>5. 1 \in 1..Len(e) /\ 2 \in 1..Len(e)
      BY ONLY <1>3
    <2>6. QED
      BY ONLY <2>1, <2>3, <2>4, <2>5, <1>3
  <1>5. /\ sent' \in Seq(Frame) /\ Len(sent') = n + 1 /\ sent'[n + 1] = f
        /\ \A k \in 1..n : sent'[k] = sent[k]
    <2>1. sent \in Seq(Frame) /\ n = Len(sent) /\ f \in Frame
      BY <1>2, Facts
    <2>2. sent' = Append(sent, f)
      BY <1>1
    <2>3. QED
      BY ONLY <2>1, <2>2
  <1>6. /\ ends' \in Seq(Nat) /\ Len(ends') = n + 1 /\ ends'[n + 1] = l + 2 + f.len
        /\ \A k \in 1..n : ends'[k] = ends[k]
    <2> DEFINE z == l + 2 + f.len
    <2>1. Len(ends) = n /\ z \in Nat /\ ends \in Seq(Nat)
      <3>1. f.len \in Nat /\ l \in Nat
        BY <1>2, <1>3, Facts
      <3>2. z \in Nat
        BY ONLY <3>1
      <3>3. QED
        BY <3>2, <1>2, Facts DEF StreamFramed
    <2>2. ends' = Append(ends, z)
      BY <1>1
    <2> HIDE DEF z
    <2>3. /\ ends' \in Seq(Nat) /\ Len(ends') = n + 1 /\ ends'[n + 1] = z
          /\ \A k \in 1..n : ends'[k] = ends[k]
      BY ONLY <2>1, <2>2
    <2>4. QED
      BY <2>3 DEF z
  <1>7. n \in Nat /\ l \in Nat
    BY <1>2, Facts
  <1>8. /\ \A k \in 0..n : Offset(k)' = Offset(k)
        /\ Offset(n + 1)' = l + 2 + f.len
    BY <1>6, <1>7 DEF Offset
  <1>9. /\ Offset(n) = l /\ \A k \in 0..n : Offset(k) \in 0..l
        /\ \A k \in 1..n :
             /\ Offset(k) = Offset(k - 1) + 2 + sent[k].len
             /\ stream[Offset(k - 1) + 1] = sent[k].len
             /\ stream[Offset(k - 1) + 2] = sent[k].type
    BY <1>2 DEF StreamFramed, k_header_size
  <1>10. \A k \in 1..n : sent[k].len \in Nat
    BY <1>2, Facts, Encoded
  <1>11. \A k \in 0..(n + 1) : Offset(k)' \in 0..Len(stream')
    <2> TAKE k \in 0..(n + 1)
    <2>1. CASE k \in 0..n
      BY <2>1, <1>3, <1>4, <1>7, <1>8, <1>9
    <2>2. CASE k = n + 1
      BY <2>2, <1>3, <1>4, <1>7, <1>8
    <2>3. QED
      BY <2>1, <2>2, <1>7
  <1>12. ASSUME NEW k \in 1..(n + 1)
         PROVE  /\ Offset(k)' = Offset(k - 1)' + 2 + sent'[k].len
                /\ stream'[Offset(k - 1)' + 1] = sent'[k].len
                /\ stream'[Offset(k - 1)' + 2] = sent'[k].type
    <2>1. CASE k \in 1..n
      <3>1. k \in 0..n /\ k - 1 \in 0..n
        BY <2>1, <1>7
      <3>2. /\ Offset(k)' = Offset(k) /\ Offset(k - 1)' = Offset(k - 1)
            /\ Offset(k - 1) \in Nat /\ Offset(k) <= l /\ sent'[k] = sent[k]
        BY <3>1, <2>1, <1>5, <1>8, <1>9, <1>7
      <3>3. /\ Offset(k) = Offset(k - 1) + 2 + sent[k].len /\ sent[k].len \in Nat
            /\ stream[Offset(k - 1) + 1] = sent[k].len
            /\ stream[Offset(k - 1) + 2] = sent[k].type
        BY <2>1, <1>9, <1>10
      <3>4. Offset(k - 1) + 1 \in 1..l /\ Offset(k - 1) + 2 \in 1..l
        BY ONLY <3>2, <3>3, <1>7
      <3>5. QED
        BY <3>2, <3>3, <3>4, <1>4
    <2>2. CASE k = n + 1
      <3>1. k - 1 = n /\ n \in 0..n
        BY <2>2, <1>7
      <3>2. Offset(k - 1)' = l /\ Offset(k)' = l + 2 + f.len /\ sent'[k] = f
        BY <3>1, <2>2, <1>5, <1>8, <1>9
      <3>3. QED
        BY <3>2, <1>4
    <2>3. QED
      BY <2>1, <2>2, <1>7
  <1>13. StreamFramed'
    BY <1>4, <1>5, <1>6, <1>8, <1>11, <1>12 DEF StreamFramed, k_header_size
  <1>14. Len(handled) \in 0..n
    BY <1>2, Facts DEF HandledInOrder
  <1>15. Buffered'
    <2>1. taken = Offset(Len(handled)) + Len(in) /\ taken \in Nat /\ taken <= l
          /\ Len(in) \in Nat /\ Offset(Len(handled)) \in Nat
      BY <1>2, <1>9, <1>14, <1>7, Facts DEF Buffered
    <2>2. \A j \in 1..Len(in) : Offset(Len(handled)) + j \in 1..l
      BY <2>1, <1>7
    <2>3. \A j \in 1..Len(in) : in[j] = stream'[Offset(Len(handled)) + j]
      BY <2>2, <1>2, <1>4 DEF Buffered
    <2>4. Offset(Len(handled))' = Offset(Len(handled))
      <3>1. Offset(Len(handled))' = IF Len(handled) = 0 THEN 0 ELSE ends'[Len(handled)]
        BY <1>1 DEF Offset
      <3>2. QED
        BY <3>1, <1>6, <1>14, <1>7 DEF Offset
    <2>5. QED
      BY <2>1, <2>3, <2>4, <1>1 DEF Buffered
  <1>16. ParserTypeOK'
    <2>1. arrived \in 0..Len(stream')
      <3>1. arrived \in Nat /\ arrived <= l /\ f.len \in Nat
        BY <1>2, <1>3, Facts
      <3>2. Len(stream') = l + 2 + f.len
        BY <1>4
      <3>3. QED
        BY ONLY <3>1, <3>2, <1>7
    <2>2. QED
      BY <2>1, <1>1, <1>2, <1>4, <1>5, <1>6 DEF ParserTypeOK, build
  <1>17. ParsedOut' /\ BacklogNeverFires'
    BY <1>1, <1>2 DEF ParsedOut, Partial, HeaderBuffered, BacklogNeverFires
  <1>18. HandledInOrder'
    <2>1. DOMAIN handled = 1..Len(handled)
      BY <1>2, Facts
    <2>2. \A i \in 1..Len(handled) : i \in 1..n /\ sent'[i] = sent[i]
      BY <1>5, <1>7, <1>14
    <2>3. Len(handled') <= Len(sent')
      BY <1>1, <1>5, <1>7, <1>14
    <2>4. QED
      BY <2>1, <2>2, <2>3, <1>1, <1>2 DEF HandledInOrder
  <1>19. QED
    BY <1>13, <1>15, <1>16, <1>17, <1>18 DEF ParserInv

(* The steps that touch neither the stream nor the buffer. *)
LEMMA QuietParserInv ==
    ASSUME ParserInv, UNCHANGED <<build, wrote, taken, in, handled>>,
           arrived' \in 0..Len(stream), taken <= arrived',
           pc' \in {"idle", "recv", "parse"}, full' \in BOOLEAN,
           closing' \in BOOLEAN, closing' = (why' # "none"), why' # "backlog", ParsedOut'
    PROVE  ParserInv'
  <1>1. ParserTypeOK'
    <2>1. taken' \in 0..arrived' /\ arrived' \in 0..Len(stream')
      BY Facts DEF ParserInv, wrote
    <2>2. QED
      BY <2>1 DEF ParserInv, ParserTypeOK, build, wrote
  <1>2. StreamFramed' /\ Buffered'
    BY DEF ParserInv, StreamFramed, Buffered, Offset, wrote
  <1>3. HandledInOrder' /\ BacklogNeverFires'
    BY DEF ParserInv, HandledInOrder, BacklogNeverFires, wrote
  <1>4. QED
    BY <1>1, <1>2, <1>3 DEF ParserInv

(* A parse is over when it finds neither a whole frame nor a bad length. *)
LEMMA DoneIsPartial ==
    ASSUME ParserTypeOK, ~FrameBuffered, ~Oversize
    PROVE  Partial
  <1> SUFFICES ASSUME HeaderBuffered
               PROVE  in[1] <= k_max_payload /\ Len(in) < k_header_size + in[1]
    BY DEF Partial
  <1>1. in \in Seq(Nat) /\ Len(in) \in Nat /\ Len(in) >= 2 /\ k_max_payload \in Nat
    BY Facts DEF HeaderBuffered, k_header_size
  <1>2. in[1] \in Nat
    BY <1>1
  <1>3. ~(in[1] > k_max_payload) /\ ~(Len(in) >= 2 + in[1])
    BY DEF FrameBuffered, Oversize, k_header_size
  <1>4. QED
    BY ONLY <1>1, <1>2, <1>3 DEF k_header_size

(* Steps that handle nothing and move no byte between the buffers. *)
LEMMA QuietStepsInv ==
    ASSUME ParserInv,
           \/ \E n \in 1..Len(stream) : arrives(n)
           \/ client_closes \/ on_readable \/ recv_end \/ recv_again \/ oversize \/ parse_done
    PROVE  ParserInv'
  <1>1. ParserTypeOK /\ ParsedOut /\ BacklogNeverFires
    BY DEF ParserInv
  <1>2. /\ arrived \in 0..Len(stream) /\ taken <= arrived /\ full \in BOOLEAN
        /\ pc \in {"idle", "recv", "parse"} /\ closing \in BOOLEAN
        /\ closing = (why # "none") /\ why # "backlog"
        /\ taken \in Nat /\ arrived \in Nat /\ Len(stream) \in Nat
    BY <1>1, Facts DEF ParserTypeOK, BacklogNeverFires
  <1>3. CASE \E n \in 1..Len(stream) : arrives(n)
    <2>1. PICK n \in 1..Len(stream) : arrives(n)
      BY <1>3
    <2>2. /\ arrived' = n /\ n \in (arrived + 1)..Len(stream)
          /\ UNCHANGED <<build, wrote, closed, taken, in, pc, full, handled, closing, why>>
      BY <2>1 DEF arrives
    <2>3. arrived' \in 0..Len(stream) /\ taken <= arrived'
      BY <2>2, <1>2
    <2>4. ParsedOut'
      BY <2>2, <1>1 DEF ParsedOut, Partial, HeaderBuffered
    <2>5. QED
      BY <2>2, <2>3, <2>4, <1>2, QuietParserInv
  <1>4. CASE client_closes
    <2>1. UNCHANGED <<build, wrote, arrived, taken, in, pc, full, handled, closing, why>>
      BY <1>4 DEF client_closes
    <2>2. ParsedOut'
      BY <2>1, <1>1 DEF ParsedOut, Partial, HeaderBuffered
    <2>3. QED
      BY <2>1, <2>2, <1>2, QuietParserInv
  <1>5. CASE on_readable
    <2>1. /\ UNCHANGED <<build, wrote, arrived, taken, in, full, handled, closing, why>>
          /\ pc = "idle" /\ ~closing /\ pc' = "recv"
      BY <1>5 DEF on_readable
    <2>2. ParsedOut'
      BY <2>1, <1>1 DEF ParsedOut, Partial, HeaderBuffered
    <2>3. QED
      BY <2>1, <2>2, <1>2, QuietParserInv
  <1>6. CASE recv_end
    <2>1. /\ UNCHANGED <<build, wrote, arrived, taken, in, full, handled>>
          /\ pc' = "idle" /\ closing' = TRUE /\ why' \in {"end", "error"}
      BY <1>6 DEF recv_end, doom
    <2>2. ParsedOut'
      BY <2>1 DEF ParsedOut
    <2>3. closing' \in BOOLEAN /\ closing' = (why' # "none") /\ why' # "backlog"
      BY <2>1
    <2>4. QED
      BY <2>1, <2>2, <2>3, <1>2, QuietParserInv
  <1>7. CASE recv_again
    <2>1. /\ UNCHANGED <<build, wrote, arrived, taken, in, full, handled, closing, why>>
          /\ pc = "recv" /\ pc' = "idle"
      BY <1>7 DEF recv_again
    <2>2. ParsedOut'
      BY <2>1, <1>1 DEF ParsedOut, Partial, HeaderBuffered
    <2>3. QED
      BY <2>1, <2>2, <1>2, QuietParserInv
  <1>8. CASE oversize
    <2>1. /\ UNCHANGED <<build, wrote, arrived, taken, in, pc, full, handled>>
          /\ pc = "parse" /\ closing' = TRUE /\ why' = "oversize"
      BY <1>8 DEF oversize, doom
    <2>2. ParsedOut'
      BY <2>1 DEF ParsedOut
    <2>3. closing' \in BOOLEAN /\ closing' = (why' # "none") /\ why' # "backlog"
      BY <2>1
    <2>4. QED
      BY <2>1, <2>2, <2>3, <1>2, QuietParserInv
  <1>9. CASE parse_done
    <2>1. /\ UNCHANGED <<build, wrote, arrived, taken, in, full, handled, closing, why>>
          /\ pc' \in {"idle", "recv"} /\ (closing => pc' = "idle")
          /\ closing \/ (~FrameBuffered /\ ~Oversize)
      BY <1>9 DEF parse_done
    <2>2. closing \/ Partial
      BY <2>1, <1>1, DoneIsPartial
    <2>3. ParsedOut'
      BY <2>1, <2>2 DEF ParsedOut, Partial, HeaderBuffered
    <2>4. QED
      BY <2>1, <2>3, <1>2, QuietParserInv
  <1>10. QED
    BY <1>3, <1>4, <1>5, <1>6, <1>7, <1>8, <1>9

(* A buffer that was parsed out has room for a recv, in either server. *)
LEMMA RecvHasRoom ==
    ASSUME ParserTypeOK, Partial
    PROVE  /\ want \in Nat /\ want > 0 /\ want <= BufSize
           /\ ring => Len(in) + want <= k_rx_ring
           /\ Got \in Seq(Nat) /\ Len(Got) \in Nat /\ Len(Got) <= want
           /\ taken + Len(Got) <= arrived
           /\ \A i \in 1..Len(Got) : Got[i] = stream[taken + i]
           /\ ~Backlogged
  <1>1. /\ Len(in) \in Nat /\ k_max_payload \in Nat /\ k_rx_ring \in Nat
        /\ k_rx_ring > 2 + k_max_payload /\ BufSize \in Nat /\ BufSize > 0
        /\ taken \in Nat /\ arrived \in Nat /\ taken <= arrived /\ arrived <= Len(stream)
        /\ stream \in Seq(Nat) /\ ring \in BOOLEAN
    BY Facts DEF ParserTypeOK
  <1>2. Len(in) < 2 + k_max_payload
    <2>1. CASE HeaderBuffered
      <3>1. in \in Seq(Nat) /\ Len(in) >= 2
        BY <2>1, Facts DEF HeaderBuffered, k_header_size
      <3>2. in[1] \in Nat
        BY <3>1, <1>1
      <3>3. in[1] <= k_max_payload /\ Len(in) < 2 + in[1]
        BY <2>1 DEF Partial, k_header_size
      <3>4. QED
        BY ONLY <3>2, <3>3, <1>1
    <2>2. CASE ~HeaderBuffered
      BY <2>2, <1>1 DEF HeaderBuffered, k_header_size
    <2>3. QED
      BY <2>1, <2>2
  <1>3. /\ want \in Nat /\ want > 0 /\ want <= BufSize
        /\ ring => Len(in) + want <= k_rx_ring
    <2>1. CASE ring
      <3> DEFINE free == k_rx_ring - Len(in)
      <3>1. free \in Nat /\ free > 0
        BY <1>1, <1>2
      <3>2. want = IF free <= BufSize THEN free ELSE BufSize
        <4>1. want = Min({free, BufSize})
          BY <2>1 DEF want
        <4>2. free \in Int /\ BufSize \in Int
          BY <3>1, <1>1
        <4> HIDE DEF free
        <4>3. QED
          BY <4>1, <4>2, MinOfTwo
      <3>3. want \in Nat /\ want > 0 /\ want <= BufSize /\ want <= free
        BY <3>1, <3>2, <1>1
      <3> HIDE DEF free
      <3>4. want <= k_rx_ring - Len(in)
        BY <3>3 DEF free
      <3>5. QED
        BY <3>3, <3>4, <1>1
    <2>2. CASE ~ring
      BY <2>2, <1>1 DEF want
    <2>3. QED
      BY <2>1, <2>2, <1>1
  <1> PICK g : g = Min({want, arrived - taken})
    OBVIOUS
  <1>4. g \in Nat /\ g <= want /\ taken + g <= arrived
    <2>1. arrived - taken \in Nat
      BY <1>1
    <2>2. g = IF want <= arrived - taken THEN want ELSE arrived - taken
      BY <1>3, <2>1, MinOfTwo
    <2>3. QED
      BY <2>1, <2>2, <1>1, <1>3
  <1>5. /\ Got \in Seq(Nat) /\ Len(Got) = g
        /\ \A i \in 1..g : Got[i] = stream[taken + i]
    <2>1. Got = SubSeq(stream, taken + 1, taken + g)
      BY DEF Got
    <2> PICK b : b = taken + g
      OBVIOUS
    <2>2. b \in Nat /\ taken <= b /\ b <= Len(stream) /\ b - taken = g /\ Len(stream) \in Nat
      BY <1>1, <1>4
    <2>3. Got = SubSeq(stream, taken + 1, b)
      BY <2>1
    <2>4. /\ SubSeq(stream, taken + 1, b) \in Seq(Nat)
          /\ Len(SubSeq(stream, taken + 1, b)) = b - taken
          /\ \A i \in 1..(b - taken) : SubSeq(stream, taken + 1, b)[i] = stream[taken + i]
      <3>1. stream \in Seq(Nat) /\ taken \in Nat
        BY <1>1
      <3>2. b \in Nat /\ taken <= b /\ b <= Len(stream)
        BY <2>2
      <3>3. QED
        BY ONLY <3>1, <3>2, Between
    <2>5. QED
      BY ONLY <2>2, <2>3, <2>4
  <1>6. ~Backlogged
    <2>1. CASE ring
      BY <2>1, <1>3 DEF Backlogged
    <2>2. CASE ~ring
      <3>1. Len(Got) \in Nat /\ Len(Got) <= BufSize
        BY <1>1, <1>3, <1>4, <1>5
      <3>2. ~(Len(in) + Len(Got) > k_max_payload + 2 + BufSize)
        BY <3>1, <1>1, <1>2
      <3>3. QED
        BY <2>2, <3>2 DEF Backlogged, k_header_size
    <2>3. QED
      BY <2>1, <2>2, <1>1
  <1>7. QED
    BY <1>3, <1>4, <1>5, <1>6

(* What a recv got goes behind what is buffered. *)
LEMMA RecvInv == ASSUME ParserInv, recv PROVE ParserInv'
  <1>1. /\ ParserTypeOK /\ StreamFramed /\ Buffered /\ ParsedOut /\ HandledInOrder
        /\ BacklogNeverFires
    BY DEF ParserInv
  <1>2. pc = "recv" /\ ~closing /\ Partial
    BY <1>1 DEF recv, ParsedOut
  <1>3. /\ want \in Nat /\ (ring => Len(in) + want <= k_rx_ring)
        /\ Got \in Seq(Nat) /\ Len(Got) \in Nat /\ Len(Got) <= want
        /\ taken + Len(Got) <= arrived
        /\ \A i \in 1..Len(Got) : Got[i] = stream[taken + i]
        /\ ~Backlogged
    BY <1>1, <1>2, RecvHasRoom
  <1>4. /\ taken' = taken + Len(Got) /\ in' = in \o Got /\ full' = (Len(Got) = want)
        /\ pc' = "parse" /\ UNCHANGED <<closing, why>>
        /\ UNCHANGED <<build, wrote, arrived, closed, handled>>
    BY <1>3 DEF recv
  <1> PICK h : h = Offset(Len(handled))
    OBVIOUS
  <1>5. /\ in \in Seq(Nat) /\ Len(in) \in Nat /\ h \in Nat /\ taken = h + Len(in)
        /\ \A j \in 1..Len(in) : in[j] = stream[h + j]
        /\ taken \in Nat /\ arrived \in Nat /\ k_rx_ring \in Nat
    <2>1. Len(handled) \in 0..Len(sent) /\ Len(stream) \in Nat
      BY <1>1, Facts DEF HandledInOrder
    <2>2. h \in Nat
      BY <2>1, <1>1 DEF StreamFramed
    <2>3. QED
      BY <2>2, <1>1, Facts DEF Buffered
  <1>6. /\ in' \in Seq(Nat) /\ Len(in') = Len(in) + Len(Got)
        /\ \A i \in 1..Len(in) : in'[i] = in[i]
        /\ \A k \in 1..Len(Got) : in'[Len(in) + k] = Got[k]
    <2>1. in \in Seq(Nat) /\ Got \in Seq(Nat)
      BY <1>3, <1>5
    <2>2. in' = in \o Got
      BY <1>4
    <2>3. QED
      BY ONLY <2>1, <2>2, Joined
  <1>7. taken' = h + Len(in')
    BY ONLY <1>3, <1>4, <1>5, <1>6
  <1>8. ASSUME NEW j \in 1..Len(in') PROVE in'[j] = stream[h + j]
    <2>1. CASE j \in 1..Len(in)
      BY <2>1, <1>5, <1>6
    <2>2. CASE j \notin 1..Len(in)
      <3> PICK k : k = j - Len(in)
        OBVIOUS
      <3>1. k \in 1..Len(Got) /\ j = Len(in) + k /\ taken + k = h + j
        <4>1. /\ Len(in) \in Nat /\ Len(Got) \in Nat /\ h \in Nat /\ taken = h + Len(in)
              /\ j \in Nat /\ j > Len(in) /\ j <= Len(in) + Len(Got)
          <5>1. Len(in) \in Nat /\ Len(Got) \in Nat /\ Len(in') = Len(in) + Len(Got)
            BY <1>3, <1>5, <1>6
          <5>2. j \in 1..(Len(in) + Len(Got))
            BY <5>1
          <5>3. j \in Nat /\ j > Len(in) /\ j <= Len(in) + Len(Got)
            BY ONLY <5>1, <5>2, <2>2
          <5>4. QED
            BY <5>1, <5>3, <1>5
        <4>2. QED
          BY ONLY <4>1, k = j - Len(in)
      <3>2. QED
        BY <3>1, <1>3, <1>6
    <2>3. QED
      BY <2>1, <2>2
  <1>9. Offset(Len(handled))' = h
    BY <1>4 DEF Offset, wrote
  <1>10. Buffered'
    <2>1. stream' = stream
      BY <1>4 DEF wrote
    <2>2. QED
      BY <2>1, <1>7, <1>8, <1>9 DEF Buffered
  <1>11. ParserTypeOK'
    <2>1. taken' \in 0..arrived
      BY <1>3, <1>4, <1>5
    <2>2. ring => Len(in') <= k_rx_ring
      BY <1>3, <1>5, <1>6
    <2>3. full' \in BOOLEAN
      BY <1>4
    <2>4. QED
      BY <2>1, <2>2, <2>3, <1>1, <1>4, <1>6 DEF ParserTypeOK, build, wrote
  <1>12. StreamFramed'
    BY <1>1, <1>4 DEF StreamFramed, Offset, wrote
  <1>13. HandledInOrder' /\ BacklogNeverFires' /\ ParsedOut'
    BY <1>1, <1>4 DEF HandledInOrder, BacklogNeverFires, ParsedOut, wrote
  <1>14. QED
    BY <1>10, <1>11, <1>12, <1>13 DEF ParserInv

(* A whole frame at the front of the buffer is the next one sent. *)
LEMMA HandlePacketInv == ASSUME ParserInv, handle_packet PROVE ParserInv'
  <1>1. /\ ParserTypeOK /\ StreamFramed /\ Buffered /\ ParsedOut /\ HandledInOrder
        /\ BacklogNeverFires
    BY DEF ParserInv
  <1> PICK n : n = Len(handled)
    OBVIOUS
  <1> PICK h : h = Offset(n)
    OBVIOUS
  <1> PICK l : l = in[1]
    OBVIOUS
  <1> PICK y : y = in[2]
    OBVIOUS
  <1>2. /\ in \in Seq(Nat) /\ Len(in) \in Nat /\ n \in Nat /\ n <= Len(sent)
        /\ Len(sent) \in Nat /\ Len(stream) \in Nat /\ taken <= Len(stream)
        /\ taken \in Nat /\ handled \in Seq([len : Nat, type : Nat])
    BY <1>1, Facts DEF HandledInOrder
  <1>3. /\ h \in Nat /\ taken = h + Len(in) /\ \A j \in 1..Len(in) : in[j] = stream[h + j]
    <2>1. n \in 0..Len(sent)
      BY <1>2
    <2>2. h \in Nat
      BY <2>1, <1>1, <1>2 DEF StreamFramed
    <2>3. QED
      BY <2>2, <1>1 DEF Buffered
  <1>4. Len(in) >= 2 /\ Len(in) >= 2 + l /\ pc = "parse" /\ ~closing
    BY DEF handle_packet, FrameBuffered, HeaderBuffered, k_header_size
  <1>5. l \in Nat /\ y \in Nat /\ l = stream[h + 1] /\ y = stream[h + 2]
    <2>1. 1 \in 1..Len(in) /\ 2 \in 1..Len(in)
      BY <1>2, <1>4
    <2>2. in[1] \in Nat /\ in[2] \in Nat
      BY ONLY <2>1, <1>2
    <2>3. in[1] = stream[h + 1] /\ in[2] = stream[h + 2]
      BY ONLY <2>1, <1>3
    <2>4. QED
      BY <2>2, <2>3
  <1>6. n < Len(sent)
    <2>1. CASE n = Len(sent)
      <3>1. h = Len(stream)
        BY <2>1, <1>1 DEF StreamFramed
      <3>2. QED
        BY ONLY <3>1, <1>2, <1>3, <1>4
    <2>2. QED
      BY <2>1, <1>2
  <1>7. /\ n + 1 \in 1..Len(sent) /\ n + 1 \in 0..Len(sent)
        /\ Offset(n + 1) = h + 2 + l /\ sent[n + 1].len = l /\ sent[n + 1].type = y
    <2>1. n + 1 \in 1..Len(sent) /\ n + 1 \in 0..Len(sent) /\ (n + 1) - 1 = n
      BY <1>2, <1>6
    <2>2. /\ Offset(n + 1) = Offset((n + 1) - 1) + 2 + sent[n + 1].len
          /\ stream[Offset((n + 1) - 1) + 1] = sent[n + 1].len
          /\ stream[Offset((n + 1) - 1) + 2] = sent[n + 1].type
      BY <2>1, <1>1 DEF StreamFramed, k_header_size
    <2>3. QED
      BY <2>1, <2>2, <1>5
  <1>8. /\ handled' = Append(handled, [len |-> l, type |-> y])
        /\ in' = SubSeq(in, (2 + l) + 1, Len(in))
        /\ IF y = Plain THEN UNCHANGED <<closing, why>> ELSE closing' = TRUE /\ why' = "handler"
        /\ UNCHANGED <<build, wrote, arrived, closed, taken, pc, full>>
    BY DEF handle_packet, doom, k_header_size
  <1> PICK a : a = 2 + l
    OBVIOUS
  <1>9. /\ in' \in Seq(Nat) /\ Len(in') = Len(in) - a
        /\ \A i \in 1..(Len(in) - a) : in'[i] = in[a + i]
    <2>1. a \in Nat /\ a <= Len(in)
      BY <1>4, <1>5
    <2>2. in' = SubSeq(in, a + 1, Len(in))
      BY <1>8
    <2>3. in \in Seq(Nat) /\ Len(in) \in Nat /\ Len(in) <= Len(in)
      BY <1>2
    <2>4. QED
      BY ONLY <2>1, <2>2, <2>3, Between
  <1>10. a \in Nat /\ a <= Len(in) /\ Offset(n + 1) = h + a
    <2>1. h \in Nat /\ l \in Nat /\ Len(in) >= 2 + l /\ Offset(n + 1) = h + 2 + l
      BY <1>3, <1>4, <1>5, <1>7
    <2>2. QED
      BY ONLY <2>1, a = 2 + l
  <1>11. /\ handled' \in Seq([len : Nat, type : Nat]) /\ Len(handled') = n + 1
         /\ handled'[n + 1] = [len |-> l, type |-> y]
         /\ \A i \in 1..n : handled'[i] = handled[i]
    <2> DEFINE r == [len |-> l, type |-> y]
    <2>1. r \in [len : Nat, type : Nat]
      BY <1>5
    <2>2. handled' = Append(handled, r) /\ n = Len(handled)
      BY <1>8
    <2> HIDE DEF r
    <2>3. /\ handled' \in Seq([len : Nat, type : Nat]) /\ Len(handled') = n + 1
          /\ handled'[n + 1] = r /\ \A i \in 1..n : handled'[i] = handled[i]
      BY ONLY <2>1, <2>2, <1>2
    <2>4. QED
      BY <2>3 DEF r
  <1>12. Offset(Len(handled))' = h + a
    <2>1. Offset(Len(handled))' = IF n + 1 = 0 THEN 0 ELSE ends[n + 1]
      BY <1>8, <1>11 DEF Offset, wrote
    <2>2. Offset(n + 1) = IF n + 1 = 0 THEN 0 ELSE ends[n + 1]
      BY DEF Offset
    <2>3. QED
      BY <2>1, <2>2, <1>10
  <1>13. Buffered'
    <2>1. taken' = (h + a) + Len(in')
      BY <1>2, <1>3, <1>8, <1>9, <1>10
    <2>2. ASSUME NEW i \in 1..Len(in') PROVE in'[i] = stream[(h + a) + i]
      <3>1. i \in 1..(Len(in) - a) /\ a + i \in 1..Len(in) /\ h + (a + i) = (h + a) + i
        <4>1. Len(in) \in Nat /\ h \in Nat /\ a \in Nat /\ a <= Len(in)
          BY <1>2, <1>3, <1>10
        <4>2. i \in 1..(Len(in) - a)
          BY <1>9
        <4>3. QED
          BY ONLY <4>1, <4>2
      <3>2. QED
        BY <3>1, <1>3, <1>9
    <2>3. stream' = stream
      BY <1>8 DEF wrote
    <2>4. QED
      BY <2>1, <2>2, <2>3, <1>12 DEF Buffered
  <1>14. closing' \in BOOLEAN /\ closing' = (why' # "none") /\ why' # "backlog"
    <2>1. closing \in BOOLEAN /\ closing = (why # "none") /\ why # "backlog"
      BY <1>1 DEF ParserTypeOK, BacklogNeverFires
    <2>2. CASE y = Plain
      BY <2>1, <2>2, <1>8
    <2>3. CASE y # Plain
      <3>1. closing' = TRUE /\ why' = "handler"
        BY <2>3, <1>8
      <3>2. QED
        BY ONLY <3>1
    <2>4. QED
      BY <2>2, <2>3
  <1>15. ParserTypeOK'
    <2>1. ring => Len(in') <= k_rx_ring
      <3>1. Len(in') <= Len(in) /\ Len(in') \in Nat
        BY <1>2, <1>9, <1>10
      <3>2. k_rx_ring \in Nat
        BY <1>1, Facts
      <3>3. QED
        BY <3>1, <3>2, <1>1, <1>2 DEF ParserTypeOK
    <2>2. QED
      BY <2>1, <1>1, <1>8, <1>9, <1>11, <1>14 DEF ParserTypeOK, build, wrote
  <1>16. StreamFramed'
    BY <1>1, <1>8 DEF StreamFramed, Offset, wrote
  <1>17. ParsedOut' /\ BacklogNeverFires'
    BY <1>4, <1>8, <1>14 DEF ParsedOut, BacklogNeverFires
  <1>18. HandledInOrder'
    <2>1. DOMAIN handled' = 1..(n + 1) /\ DOMAIN handled = 1..n
      BY <1>2, <1>11
    <2>2. ASSUME NEW i \in 1..(n + 1)
          PROVE  handled'[i].len = sent[i].len /\ handled'[i].type = sent[i].type
      <3>1. CASE i \in 1..n
        BY <3>1, <2>1, <1>1, <1>11 DEF HandledInOrder
      <3>2. CASE i = n + 1
        BY ONLY <3>2, <1>7, <1>11
      <3>3. i \in 1..n \/ i = n + 1
        BY ONLY <1>2, i \in 1..(n + 1)
      <3>4. QED
        BY ONLY <3>1, <3>2, <3>3
    <2>3. Len(handled') <= Len(sent)
      BY <1>2, <1>6, <1>11
    <2>4. sent' = sent
      BY <1>8 DEF wrote
    <2>5. QED
      BY <2>1, <2>2, <2>3, <2>4 DEF HandledInOrder
  <1>19. QED
    BY <1>13, <1>15, <1>16, <1>17, <1>18 DEF ParserInv

(* Every step keeps the invariant. *)
LEMMA StepParserInv == ParserInv /\ [ParserNext]_parser_vars => ParserInv'
  <1> SUFFICES ASSUME ParserInv, [ParserNext]_parser_vars PROVE ParserInv'
    OBVIOUS
  <1>1. CASE ParserNext
    BY <1>1, ClientSendsInv, QuietStepsInv, RecvInv, HandlePacketInv DEF ParserNext, Server
  <1>2. CASE UNCHANGED parser_vars
    <2>1. /\ UNCHANGED <<build, wrote, taken, in, handled>>
          /\ UNCHANGED <<arrived, pc, full, closing, why>>
      BY <1>2 DEF parser_vars
    <2>2. ParserTypeOK /\ ParsedOut /\ BacklogNeverFires
      BY DEF ParserInv
    <2>3. ParsedOut'
      BY <2>1, <2>2 DEF ParsedOut, Partial, HeaderBuffered
    <2>4. QED
      BY <2>1, <2>2, <2>3, Facts, QuietParserInv DEF ParserTypeOK, BacklogNeverFires
  <1>3. QED
    BY <1>1, <1>2

-----------------------------------------------------------------------------
(* The inductive invariant holds in every run. *)
THEOREM ParserInvariance == ParserSpec => []ParserInv
  <1>1. QED
    BY InitParserInv, StepParserInv, PTL DEF ParserSpec

(* HandledInOrder: parse_frames hands handle_packet the frames the client  *)
(* sent, in order, however TCP cuts the stream and whatever the payload    *)
(* bytes look like.                                                        *)
THEOREM FramesAreTheClients == ParserSpec => []HandledInOrder
  <1>1. ParserInv => HandledInOrder
    BY DEF ParserInv
  <1>2. QED
    BY <1>1, ParserInvariance, PTL

(* BacklogNeverFires: a parse leaves less than one frame, so that neither  *)
(* the bound of server.cpp on the string nor the full ring of              *)
(* server_sds.cpp ever dooms a connection.                                 *)
THEOREM NoBacklog == ParserSpec => []BacklogNeverFires
  <1>1. ParserInv => BacklogNeverFires
    BY DEF ParserInv
  <1>2. QED
    BY <1>1, ParserInvariance, PTL

=============================================================================

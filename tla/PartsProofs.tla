----------------------------- MODULE PartsProofs -----------------------------
(***************************************************************************)
(* Proofs about the building blocks of module Parts and the tools.         *)
(*                                                                         *)
(* The send queue, for every cap, frame size limit and set of frames: no   *)
(* copy leaves the transmit region, and the linear queue implements the    *)
(* byte string of SendQueue, before and after the connection is doomed.    *)
(*                                                                         *)
(* The packet pool, for every number of threads and every layout of the    *)
(* buckets: the blocks of a bucket that nobody owns are a chain of links   *)
(* that starts at its free list and ends, and what an owner wrote stays.   *)
(* The layout needs sums over sets and their splitting, which are proved   *)
(* first; that two blocks share no cell carries the rest.                  *)
(*                                                                         *)
(* The verdict, for every bucket width, sample and threshold: the bins of  *)
(* a histogram count the samples that fall in them, so the bin at which a  *)
(* percentile stops is that of the sample of the rank it stops at, which   *)
(* is the asked one in merge.py and may be one lower in the program.       *)
(*                                                                         *)
(* The profiler, for every scope, name and clock: the records are those    *)
(* of the scopes that ended since the last clear, and sums and extrema     *)
(* over the ones are sums and extrema over the others.                     *)
(*                                                                         *)
(* The set-up of a load generator, for all options, texts and limits: what *)
(* each stage has established when the next one starts.                    *)
(***************************************************************************)
EXTENDS SdsSend, PacketPool, Profiler, RunSetup, Verdict, SequenceTheorems, FiniteSetTheorems,
        WellFoundedInduction, TLAPS

(* The bytes of region b from offset h up to t. *)
Window(b, h, t) == [i \in 1..(t - h) |-> b[h + i - 1]]

(* Offsets a window may have. *)
IsWindow(b, h, t) ==
    /\ b \in [Region -> Byte]
    /\ h \in Nat /\ t \in Nat /\ h <= t /\ t <= k_tx_region

(* A window is a byte string. *)
LEMMA WindowIsSeq ==
    ASSUME NEW b, NEW h, NEW t, IsWindow(b, h, t)
    PROVE  /\ Window(b, h, t) \in Seq(Byte)
           /\ Len(Window(b, h, t)) = t - h
           /\ \A i \in 1..(t - h) : Window(b, h, t)[i] = b[h + i - 1]
  <1> DEFINE w == Window(b, h, t)
  <1>1. t - h \in Nat
    BY DEF IsWindow
  <1>2. \A i \in 1..(t - h) : h + i - 1 \in Region
    BY SendAssumption DEF IsWindow, Region, k_tx_region
  <1>3. w \in [1..(t - h) -> Byte]
    BY <1>2 DEF IsWindow, Window
  <1> HIDE DEF w
  <1>4. w \in Seq(Byte)
    BY <1>1, <1>3, SeqDef
  <1>5. Len(w) = t - h
    BY <1>1, <1>3, <1>4, LenProperties
  <1>6. QED
    BY <1>4, <1>5 DEF w, Window

(* Region c has from k to u the bytes of b from h to t and then f. *)
Holds(c, k, u, b, h, t, f) ==
    /\ \A i \in 1..(t - h) : c[k + i - 1] = b[h + i - 1]
    /\ \A j \in 1..Len(f) : c[k + (t - h) + j - 1] = f[j]
    /\ u - k = (t - h) + Len(f)

(* A window that holds the bytes of another one and then a frame. *)
LEMMA WindowAppend ==
    ASSUME NEW b, NEW h, NEW t, IsWindow(b, h, t),
           NEW c, NEW k, NEW u, IsWindow(c, k, u),
           NEW f \in Seq(Byte), Holds(c, k, u, b, h, t, f)
    PROVE  Window(c, k, u) = Window(b, h, t) \o f
  <1> DEFINE w == Window(b, h, t)
             v == Window(c, k, u)
             d == t - h
  <1>1. /\ w \in Seq(Byte) /\ Len(w) = d
        /\ \A i \in 1..d : w[i] = b[h + i - 1]
    BY WindowIsSeq
  <1>2. /\ v \in Seq(Byte) /\ Len(v) = d + Len(f)
        /\ \A i \in 1..(d + Len(f)) : v[i] = c[k + i - 1]
    BY WindowIsSeq DEF Holds
  <1>3. d \in Nat /\ Len(f) \in Nat /\ k \in Nat
    BY DEF IsWindow
  <1>4. \A j \in 1..Len(f) : c[k + d + j - 1] = f[j]
    BY DEF Holds
  <1>5. \A i \in 1..d : c[k + i - 1] = b[h + i - 1]
    BY DEF Holds
  <1> HIDE DEF w, v, d
  <1>6. /\ w \o f \in Seq(Byte)
        /\ Len(w \o f) = d + Len(f)
        /\ \A i \in 1..(d + Len(f)) :
             (w \o f)[i] = IF i <= d THEN w[i] ELSE f[i - d]
    BY <1>1, ConcatProperties
  <1>7. ASSUME NEW i \in 1..(d + Len(f))
        PROVE  v[i] = (w \o f)[i]
    <2>1. CASE i <= d
      <3>1. i \in 1..d
        BY <2>1, <1>3
      <3>2. QED
        BY <3>1, <2>1, <1>1, <1>2, <1>5, <1>6
    <2>2. CASE ~(i <= d)
      <3>1. /\ i - d \in 1..Len(f) /\ k + d + (i - d) - 1 = k + i - 1
        BY <2>2, <1>3
      <3>2. v[i] = f[i - d]
        BY <3>1, <1>2, <1>4
      <3>3. QED
        BY <3>2, <2>2, <1>6
    <2>3. QED
      BY <2>1, <2>2
  <1>8. v = w \o f
    BY <1>2, <1>6, <1>7, SeqEqual
  <1>9. QED
    BY <1>8 DEF w, v

(* The first n bytes of a window, and the rest. *)
LEMMA WindowSplit ==
    ASSUME NEW b, NEW h, NEW t, IsWindow(b, h, t), NEW n \in 0..(t - h)
    PROVE  /\ SubSeq(Window(b, h, t), 1, n) = Window(b, h, h + n)
           /\ SubSeq(Window(b, h, t), n + 1, t - h) = Window(b, h + n, t)
  <1> DEFINE w == Window(b, h, t)
             p == Window(b, h, h + n)
             r == Window(b, h + n, t)
             d == t - h
  <1>1. /\ w \in Seq(Byte) /\ Len(w) = d
        /\ \A i \in 1..d : w[i] = b[h + i - 1]
    BY WindowIsSeq
  <1>2. /\ d \in Nat /\ n \in Nat /\ n <= d /\ h \in Nat /\ t \in Nat
        /\ IsWindow(b, h, h + n) /\ IsWindow(b, h + n, t)
        /\ (h + n) - h = n /\ t - (h + n) = d - n
    BY SendAssumption DEF IsWindow, k_tx_region
  <1>3. /\ p \in Seq(Byte) /\ Len(p) = n
        /\ \A i \in 1..n : p[i] = b[h + i - 1]
    BY <1>2, WindowIsSeq
  <1>4. /\ r \in Seq(Byte) /\ Len(r) = d - n
        /\ \A i \in 1..(d - n) : r[i] = b[(h + n) + i - 1]
    BY <1>2, WindowIsSeq
  <1> HIDE DEF w, p, r, d
  <1>5. SubSeq(w, 1, n) = p
    <2>1. \A i \in 1..n : w[i] \in Byte
      BY <1>1, <1>2, ElementOfSeq
    <2>2. /\ SubSeq(w, 1, n) \in Seq(Byte)
          /\ Len(SubSeq(w, 1, n)) = n
          /\ \A i \in 1..n : SubSeq(w, 1, n)[i] = w[i]
      BY <1>2, <2>1, SubSeqProperties
    <2>3. ASSUME NEW i \in 1..n
          PROVE  SubSeq(w, 1, n)[i] = p[i]
      <3>1. i \in 1..d
        BY <1>2
      <3>2. w[i] = b[h + i - 1]
        BY <3>1, <1>1
      <3>3. QED
        BY <3>2, <2>2, <1>3
    <2>4. QED
      BY <2>2, <2>3, <1>3, SeqEqual
  <1>6. SubSeq(w, n + 1, d) = r
    <2>1. \A i \in (n + 1)..d : w[i] \in Byte
      BY <1>1, <1>2, ElementOfSeq
    <2>2. /\ SubSeq(w, n + 1, d) \in Seq(Byte)
          /\ Len(SubSeq(w, n + 1, d)) = IF n + 1 <= d THEN d - (n + 1) + 1 ELSE 0
          /\ \A i \in 1..(d - (n + 1) + 1) :
               SubSeq(w, n + 1, d)[i] = w[(n + 1) + i - 1]
      <3>1. n + 1 \in Int /\ d \in Int
        BY <1>2
      <3>2. QED
        BY <3>1, <2>1, SubSeqProperties
    <2>3. /\ d - (n + 1) + 1 = d - n
          /\ (IF n + 1 <= d THEN d - (n + 1) + 1 ELSE 0) = d - n
      BY <1>2
    <2>4. ASSUME NEW i \in 1..(d - n)
          PROVE  SubSeq(w, n + 1, d)[i] = r[i]
      <3>1. /\ (n + 1) + i - 1 = n + i /\ n + i \in 1..d
            /\ h + (n + i) - 1 = (h + n) + i - 1
        BY <1>2
      <3>2. w[n + i] = b[(h + n) + i - 1]
        BY <3>1, <1>1
      <3>3. QED
        BY <3>1, <3>2, <2>2, <2>3, <1>4
    <2>5. QED
      BY <2>2, <2>3, <2>4, <1>4, SeqEqual
  <1>7. QED
    BY <1>5, <1>6 DEF w, p, r, d

-----------------------------------------------------------------------------
(* The queue always fits: TypeOK is inductive.  The case that matters is   *)
(* the compaction, where used + Len(f) <= k_send_cap is what keeps the     *)
(* copy inside a region of k_send_cap + k_max_frame bytes.                 *)
LEMMA InitType == Init => TypeOK
  <1>1. ASSUME Init
        PROVE  /\ tx_head \in 0..tx_tail /\ tx_tail \in 0..k_tx_region
               /\ used <= k_send_cap
    BY <1>1, SendAssumption DEF Init, used, k_tx_region
  <1>2. QED
    BY <1>1, EmptySeq DEF Init, TypeOK

(* What a stored frame leaves in the region. *)
LEMMA StoredType ==
    ASSUME NEW region \in [Region -> Byte], NEW at \in Nat,
           NEW f \in Frame, at + Len(f) <= k_tx_region
    PROVE  /\ Stored(region, at, f) \in [Region -> Byte]
           /\ \A i \in Region : i < at => Stored(region, at, f)[i] = region[i]
           /\ \A j \in 1..Len(f) : Stored(region, at, f)[at + j - 1] = f[j]
  <1>1. f \in Seq(Byte) /\ Len(f) \in Nat
    BY SendAssumption
  <1>2. \A j \in 1..Len(f) : f[j] \in Byte
    BY <1>1, ElementOfSeq
  <1>3. \A i \in Region : i >= at /\ i < at + Len(f) => i - at + 1 \in 1..Len(f)
    BY <1>1 DEF Region
  <1>4. Stored(region, at, f) \in [Region -> Byte]
    BY <1>2, <1>3 DEF Stored
  <1>5. \A i \in Region : i < at => Stored(region, at, f)[i] = region[i]
    BY DEF Stored, Region
  <1>6. ASSUME NEW j \in 1..Len(f)
        PROVE  Stored(region, at, f)[at + j - 1] = f[j]
    <2>1. /\ at + j - 1 \in Region /\ at + j - 1 >= at
          /\ at + j - 1 < at + Len(f) /\ (at + j - 1) - at + 1 = j
      BY <1>1, SendAssumption DEF Region, k_tx_region
    <2>2. QED
      BY <2>1 DEF Stored
  <1>7. QED
    BY <1>4, <1>5, <1>6

(* The compacted region has the queue at offset 0. *)
LEMMA CompactedType ==
    ASSUME TypeOK
    PROVE  /\ Compacted \in [Region -> Byte]
           /\ \A i \in 0..(used - 1) : Compacted[i] = tx[tx_head + i]
  <1>1. \A i \in Region : i < used => tx_head + i \in Region
    BY SendAssumption DEF TypeOK, Region, used, k_tx_region
  <1>2. Compacted \in [Region -> Byte]
    BY <1>1 DEF TypeOK, Compacted
  <1>3. \A i \in 0..(used - 1) : i \in Region /\ i < used
    BY SendAssumption DEF TypeOK, Region, used, k_tx_region
  <1>4. QED
    BY <1>2, <1>3 DEF Compacted

(* The queue in progress is a window of the region. *)
LEMMA ContentsIsWindow ==
    ASSUME TypeOK
    PROVE  /\ IsWindow(tx, tx_head, tx_tail)
           /\ Contents = Window(tx, tx_head, tx_tail)
           /\ Contents \in Seq(Byte)
           /\ Len(Contents) = used
  <1>1. IsWindow(tx, tx_head, tx_tail)
    BY SendAssumption DEF TypeOK, IsWindow, k_tx_region
  <1>2. Contents = Window(tx, tx_head, tx_tail)
    BY DEF Contents, Window, used
  <1>3. QED
    BY <1>1, <1>2, WindowIsSeq DEF used

(* Every frame queued leaves the offsets where they may be, and appends    *)
(* exactly its bytes to the queue.                                         *)
LEMMA QueueStep ==
    ASSUME TypeOK, NEW f \in Frame, queue_send(f) \/ queue_send_compact(f)
    PROVE  TypeOK' /\ Contents' = Contents \o f
  <1>1. /\ f \in Seq(Byte) /\ Len(f) \in 1..k_max_frame
        /\ k_send_cap \in Nat /\ k_max_frame \in Nat
    BY SendAssumption
  <1>2. /\ tx_head \in Nat /\ tx_tail \in Nat /\ tx_head <= tx_tail
        /\ tx_tail <= k_tx_region /\ k_tx_region \in Nat
        /\ tx \in [Region -> Byte]
    BY <1>1 DEF TypeOK, k_tx_region
  <1>3. CASE queue_send(f)
    <2>1. tx_tail + Len(f) <= k_tx_region /\ used + Len(f) <= k_send_cap
      BY <1>3 DEF queue_send
    <2>2. /\ tx' = Stored(tx, tx_tail, f) /\ tx_head' = tx_head
          /\ tx_tail' = tx_tail + Len(f)
      BY <1>3 DEF queue_send
    <2>3. /\ tx' \in [Region -> Byte]
          /\ \A i \in Region : i < tx_tail => tx'[i] = tx[i]
          /\ \A j \in 1..Len(f) : tx'[tx_tail + j - 1] = f[j]
      BY <2>1, <2>2, <1>2, StoredType
    <2>4. /\ tx_head' \in 0..tx_tail' /\ tx_tail' \in 0..k_tx_region
          /\ tx_tail' - tx_head' <= k_send_cap
      BY <2>1, <2>2, <1>1, <1>2 DEF used
    <2>5. TypeOK'
      <3>1. closing' \in BOOLEAN /\ line' \in Seq(Byte) /\ wire' \in Seq(Byte)
        BY <1>3, <1>1 DEF queue_send, TypeOK
      <3>2. QED
        BY <3>1, <2>3, <2>4 DEF TypeOK, used
    <2>6. IsWindow(tx', tx_head', tx_tail')
      BY <2>3, <2>4, <1>2 DEF IsWindow
    <2>7. Holds(tx', tx_head', tx_tail', tx, tx_head, tx_tail, f)
      <3>1. \A i \in 1..(tx_tail - tx_head) :
              /\ tx_head + i - 1 \in Region
              /\ tx_head + i - 1 < tx_tail
        BY <1>2 DEF Region
      <3>2. \A j \in 1..Len(f) :
              tx_head + (tx_tail - tx_head) + j - 1 = tx_tail + j - 1
        BY <1>2
      <3>3. tx_tail' - tx_head' = (tx_tail - tx_head) + Len(f)
        BY <2>2, <1>1, <1>2
      <3>4. QED
        BY <3>1, <3>2, <3>3, <2>2, <2>3 DEF Holds
    <2>8. Window(tx', tx_head', tx_tail') = Window(tx, tx_head, tx_tail) \o f
      BY <2>6, <2>7, <1>1, WindowAppend, ContentsIsWindow
    <2>9. Contents' = Window(tx', tx_head', tx_tail')
      BY DEF Contents, Window, used
    <2>10. QED
      BY <2>5, <2>8, <2>9, ContentsIsWindow
  <1>4. CASE queue_send_compact(f)
    <2>1. used + Len(f) <= k_send_cap
      BY <1>4 DEF queue_send_compact
    <2>2. /\ tx' = Stored(Compacted, used, f) /\ tx_head' = 0
          /\ tx_tail' = used + Len(f)
      BY <1>4 DEF queue_send_compact
    <2>3. used \in Nat /\ used + Len(f) <= k_tx_region
      BY <2>1, <1>1, <1>2 DEF used, k_tx_region
    <2>4. /\ Compacted \in [Region -> Byte]
          /\ \A i \in 0..(used - 1) : Compacted[i] = tx[tx_head + i]
      BY CompactedType
    <2>5. /\ tx' \in [Region -> Byte]
          /\ \A i \in Region : i < used => tx'[i] = Compacted[i]
          /\ \A j \in 1..Len(f) : tx'[used + j - 1] = f[j]
      BY <2>2, <2>3, <2>4, StoredType
    <2>6. /\ tx_head' \in 0..tx_tail' /\ tx_tail' \in 0..k_tx_region
          /\ tx_tail' - tx_head' <= k_send_cap
      BY <2>1, <2>2, <2>3, <1>1
    <2>7. TypeOK'
      <3>1. closing' \in BOOLEAN /\ line' \in Seq(Byte) /\ wire' \in Seq(Byte)
        BY <1>4, <1>1 DEF queue_send_compact, TypeOK
      <3>2. QED
        BY <3>1, <2>5, <2>6 DEF TypeOK, used
    <2>8. IsWindow(tx', tx_head', tx_tail')
      BY <2>5, <2>6, <1>2 DEF IsWindow
    <2>9. Holds(tx', tx_head', tx_tail', tx, tx_head, tx_tail, f)
      <3>1. used = tx_tail - tx_head
        BY DEF used
      <3>2. ASSUME NEW i \in 1..(tx_tail - tx_head)
            PROVE  tx'[tx_head' + i - 1] = tx[tx_head + i - 1]
        <4>1. /\ i - 1 \in Region /\ i - 1 < used /\ i - 1 \in 0..(used - 1)
              /\ tx_head' + i - 1 = i - 1 /\ tx_head + (i - 1) = tx_head + i - 1
          BY <3>1, <2>2, <2>3, <1>1, <1>2 DEF Region
        <4>2. tx'[i - 1] = Compacted[i - 1]
          BY <4>1, <2>5
        <4>3. Compacted[i - 1] = tx[tx_head + (i - 1)]
          BY <4>1, <2>4
        <4>4. QED
          BY <4>1, <4>2, <4>3
      <3>3. ASSUME NEW j \in 1..Len(f)
            PROVE  tx'[tx_head' + (tx_tail - tx_head) + j - 1] = f[j]
        <4>1. tx_head' + (tx_tail - tx_head) + j - 1 = used + j - 1
          BY <3>1, <2>2, <2>3
        <4>2. QED
          BY <4>1, <2>5
      <3>4. tx_tail' - tx_head' = (tx_tail - tx_head) + Len(f)
        BY <3>1, <2>2, <2>3, <1>1
      <3>5. QED
        BY <3>2, <3>3, <3>4 DEF Holds
    <2>10. Window(tx', tx_head', tx_tail') = Window(tx, tx_head, tx_tail) \o f
      BY <2>8, <2>9, <1>1, WindowAppend, ContentsIsWindow
    <2>11. Contents' = Window(tx', tx_head', tx_tail')
      BY DEF Contents, Window, used
    <2>12. QED
      BY <2>7, <2>10, <2>11, ContentsIsWindow
  <1>5. QED
    BY <1>3, <1>4

(* A send takes the oldest bytes and leaves the rest, in order; a drained  *)
(* queue restarts at offset 0.                                             *)
LEMMA FlushStep ==
    ASSUME TypeOK, NEW n, flush_send(n)
    PROVE  /\ TypeOK'
           /\ n \in 1..k_send_cap /\ n <= Len(Contents)
           /\ wire' = SubSeq(Contents, 1, n)
           /\ Contents' = SubSeq(Contents, n + 1, Len(Contents))
  <1>1. /\ n \in 1..used /\ tx' = tx
        /\ tx_head' = IF n = used THEN 0 ELSE tx_head + n
        /\ tx_tail' = IF n = used THEN 0 ELSE tx_tail
        /\ wire' = [i \in 1..n |-> tx[tx_head + i - 1]]
        /\ closing' = closing /\ line' = line
    BY DEF flush_send
  <1>2. /\ tx_head \in Nat /\ tx_tail \in Nat /\ tx_head <= tx_tail
        /\ tx_tail <= k_tx_region /\ k_tx_region \in Nat
        /\ used = tx_tail - tx_head /\ used <= k_send_cap
        /\ k_send_cap \in Nat
    BY SendAssumption DEF TypeOK, k_tx_region, used
  <1>3. /\ n \in Nat /\ n \in 0..(tx_tail - tx_head) /\ n \in 1..k_send_cap
        /\ n <= used /\ tx_head + n <= tx_tail
    BY <1>1, <1>2
  <1>4. /\ SubSeq(Contents, 1, n) = Window(tx, tx_head, tx_head + n)
        /\ SubSeq(Contents, n + 1, used) = Window(tx, tx_head + n, tx_tail)
    <2>1. /\ IsWindow(tx, tx_head, tx_tail)
          /\ Contents = Window(tx, tx_head, tx_tail)
      BY ContentsIsWindow
    <2>2. LET w == Window(tx, tx_head, tx_tail)
          IN  /\ SubSeq(w, 1, n) = Window(tx, tx_head, tx_head + n)
              /\ SubSeq(w, n + 1, tx_tail - tx_head) = Window(tx, tx_head + n, tx_tail)
      BY <1>3, <2>1, WindowSplit
    <2>3. QED
      BY <2>1, <2>2, <1>2
  <1>5. IsWindow(tx, tx_head, tx_head + n) /\ (tx_head + n) - tx_head = n
    BY <1>2, <1>3, ContentsIsWindow DEF IsWindow
  <1>6. wire' = Window(tx, tx_head, tx_head + n)
    BY <1>1, <1>5 DEF Window
  <1>7. wire' \in Seq(Byte)
    BY <1>5, <1>6, WindowIsSeq
  <1>8. Contents' = Window(tx, tx_head', tx_tail')
    BY <1>1 DEF Contents, Window, used
  <1>9. Contents' = Window(tx, tx_head + n, tx_tail)
    <2>1. CASE n = used
      <3>1. 1..(0 - 0) = 1..(tx_tail - (tx_head + n))
        BY <2>1, <1>2
      <3>2. tx_head' = 0 /\ tx_tail' = 0
        BY <2>1, <1>1
      <3>3. 1..(0 - 0) = {}
        OBVIOUS
      <3>4. Window(tx, 0, 0) = Window(tx, tx_head + n, tx_tail)
        BY <3>1, <3>3 DEF Window
      <3>5. QED
        BY <3>2, <3>4, <1>8
    <2>2. CASE n # used
      BY <2>2, <1>1, <1>8
    <2>3. QED
      BY <2>1, <2>2
  <1>10. TypeOK'
    <2>1. /\ tx_head' \in 0..tx_tail' /\ tx_tail' \in 0..k_tx_region
          /\ tx_tail' - tx_head' <= k_send_cap
      <3>1. CASE n = used
        BY <3>1, <1>1, <1>2
      <3>2. CASE n # used
        BY <3>2, <1>1, <1>2, <1>3
      <3>3. QED
        BY <3>1, <3>2
    <2>2. QED
      BY <2>1, <1>1, <1>7 DEF TypeOK, used
  <1>11. QED
    BY <1>3, <1>4, <1>6, <1>9, <1>10, ContentsIsWindow

(* A step that leaves the queue alone. *)
LEMMA QuietStep ==
    ASSUME TypeOK, UNCHANGED <<tx_head, tx_tail, tx>>,
           closing' \in BOOLEAN, line' \in Seq(Byte), wire' \in Seq(Byte)
    PROVE  TypeOK' /\ Contents' = Contents
  BY DEF TypeOK, Contents, used

(* Every step keeps the type and is a step of the byte string. *)
LEMMA StepRefines ==
    ASSUME TypeOK, [Next]_vars
    PROVE  TypeOK' /\ [Out!OutNext]_(Out!outVars)
  <1>1. Len(Contents) = used
    BY ContentsIsWindow
  <1>2. closing \in BOOLEAN /\ line \in Seq(Byte) /\ wire \in Seq(Byte)
    BY DEF TypeOK
  <1>3. ASSUME NEW f \in Frame, queue_send_drop(f)
        PROVE  TypeOK' /\ Out!OutNext
    <2>1. /\ UNCHANGED <<tx_head, tx_tail, tx>> /\ wire' = wire
          /\ line' = f /\ closing' = TRUE /\ ~closing
          /\ used + Len(f) > k_send_cap
      BY <1>3 DEF queue_send_drop
    <2>2. TypeOK' /\ Contents' = Contents
      BY <2>1, <1>2, SendAssumption, QuietStep
    <2>3. Out!Queue(f)
      BY <2>1, <2>2, <1>1 DEF Out!Queue
    <2>4. QED
      BY <2>2, <2>3 DEF Out!OutNext
  <1>4. ASSUME NEW f \in Frame, queue_send(f) \/ queue_send_compact(f)
        PROVE  TypeOK' /\ Out!OutNext
    <2>1. /\ wire' = wire /\ line' = f /\ closing' = closing /\ ~closing
          /\ used + Len(f) <= k_send_cap
      BY <1>4 DEF queue_send, queue_send_compact
    <2>2. TypeOK' /\ Contents' = Contents \o f
      BY <1>4, QueueStep
    <2>3. closing' = FALSE
      BY <2>1, <1>2
    <2>4. Out!Queue(f)
      BY <2>1, <2>2, <2>3, <1>1 DEF Out!Queue
    <2>5. QED
      BY <2>2, <2>4 DEF Out!OutNext
  <1>5. ASSUME NEW n, flush_send(n)
        PROVE  TypeOK' /\ Out!OutNext
    <2>1. closing' = closing /\ line' = line
      BY <1>5 DEF flush_send
    <2>2. /\ TypeOK' /\ n \in 1..k_send_cap /\ n <= Len(Contents)
          /\ wire' = SubSeq(Contents, 1, n)
          /\ Contents' = SubSeq(Contents, n + 1, Len(Contents))
      BY <1>5, FlushStep
    <2>3. Out!Send(n)
      BY <2>1, <2>2 DEF Out!Send
    <2>4. QED
      BY <2>2, <2>3 DEF Out!OutNext
  <1>6. CASE flush_send_error
    <2>1. /\ UNCHANGED <<tx_head, tx_tail, tx>> /\ wire' = wire
          /\ line' = line /\ closing' = TRUE
      BY <1>6 DEF flush_send_error
    <2>2. TypeOK' /\ Contents' = Contents
      BY <2>1, <1>2, QuietStep
    <2>3. QED
      BY <2>1, <2>2 DEF Out!Fail, Out!OutNext
  <1>7. CASE UNCHANGED vars
    <2>1. /\ UNCHANGED <<tx_head, tx_tail, tx>> /\ wire' = wire
          /\ line' = line /\ closing' = closing
      BY <1>7 DEF vars
    <2>2. TypeOK' /\ Contents' = Contents
      BY <2>1, <1>2, QuietStep
    <2>3. QED
      BY <2>1, <2>2 DEF Out!outVars
  <1>8. ASSUME NEW f \in Frame, queue_send_closing(f)
        PROVE  TypeOK' /\ Out!OutNext
    <2>1. /\ UNCHANGED <<tx_head, tx_tail, tx>> /\ wire' = wire
          /\ line' = f /\ closing' = closing /\ closing
      BY <1>8 DEF queue_send_closing
    <2>2. TypeOK' /\ Contents' = Contents
      BY <2>1, <1>2, SendAssumption, QuietStep
    <2>3. Out!Queue(f)
      BY <2>1, <2>2 DEF Out!Queue
    <2>4. QED
      BY <2>2, <2>3 DEF Out!OutNext
  <1>9. QED
    BY <1>3, <1>4, <1>5, <1>6, <1>7, <1>8 DEF Next

(* Whatever the cap and the frames, no queue_send, compaction or send      *)
(* takes an offset outside the region allocated for the connection.        *)
THEOREM TypeCorrect == Spec => []TypeOK
  <1>1. TypeOK /\ [Next]_vars => TypeOK'
    BY StepRefines
  <1>2. QED
    BY <1>1, InitType, PTL DEF Spec

(* The linear queue of server_sds.cpp implements the std::string of        *)
(* server.cpp: compaction and reset lose, repeat and reorder nothing.      *)
THEOREM Refinement == Spec => ImplementsOut
  <1>1. Init => Out!OutInit
    <2>1. ASSUME Init
          PROVE  Contents = << >>
      <3>1. 1..used = {}
        BY <2>1 DEF Init, used
      <3>2. TypeOK
        BY <2>1, InitType
      <3>3. Contents \in Seq(Byte) /\ Len(Contents) = 0
        BY <2>1, <3>2, ContentsIsWindow DEF Init, used
      <3>4. QED
        BY <3>3, EmptySeq
    <2>2. QED
      BY <2>1 DEF Init, Out!OutInit
  <1>2. TypeOK /\ [Next]_vars => [Out!OutNext]_(Out!outVars)
    BY StepRefines
  <1>3. QED
    BY <1>1, <1>2, TypeCorrect, PTL DEF Spec, ImplementsOut, Out!OutSpec

-----------------------------------------------------------------------------
(***************************************************************************)
(* Induction and sums                                                      *)
(***************************************************************************)
(* A set of numbers that is not empty has a least one. *)
LEMMA LeastNat ==
    ASSUME NEW T, T \subseteq Nat, T # {}
    PROVE  \E i \in T : \A j \in T : i <= j
  <1> PICK R : R = OpToRel(<, Nat)
    OBVIOUS
  <1>1. \E i \in T : \A j \in T : ~ (<<j, i>> \in R)
    BY NatLessThanWellFounded, WFMin
  <1>2. \A i, j \in Nat : j < i => <<j, i>> \in R
    BY DEF OpToRel
  <1>3. PICK i \in T : \A j \in T : ~ (<<j, i>> \in R)
    BY <1>1
  <1>4. \A j \in T : ~(j < i)
    BY <1>2, <1>3
  <1>5. \A j \in T : i <= j
    BY ONLY <1>4, T \subseteq Nat, i \in T
  <1>6. QED
    BY <1>5

(* A set that holds 0 and the successor of each of its members holds every *)
(* number.                                                                 *)
LEMMA SetInduction ==
    ASSUME NEW T, 0 \in T, \A n \in T \cap Nat : n + 1 \in T
    PROVE  Nat \subseteq T
  <1> DEFINE missed == Nat \ T
  <1>1. SUFFICES ASSUME missed # {} PROVE FALSE
    OBVIOUS
  <1>2. PICK i \in missed : \A j \in missed : i <= j
    BY <1>1, LeastNat
  <1>3. i \in Nat /\ i # 0
    BY <1>2
  <1>4. i - 1 \in Nat /\ ~(i <= i - 1)
    BY <1>3
  <1>5. i - 1 \in T
    BY <1>2, <1>4
  <1>6. (i - 1) + 1 = i
    BY <1>3
  <1>7. QED
    BY <1>2, <1>4, <1>5, <1>6

(* The recursion behind a sum over a set: of the values f, on the subsets  *)
(* of S.                                                                   *)
PickOf(s) == CHOOSE x \in s : TRUE
Sums(f, S, I) ==
    I = [s \in SUBSET S |-> IF s = {} THEN 0 ELSE f[PickOf(s)] + I[s \ {PickOf(s)}]]
Total(f, S) == (CHOOSE I : Sums(f, S, I))[S]
Numbered(f, S) == IsFiniteSet(S) /\ \A x \in S : f[x] \in Int

LEMMA PickIs == ASSUME NEW s, s # {} PROVE PickOf(s) \in s
  BY DEF PickOf

(* A subset of a finite set without one of its members is a smaller one.   *)
LEMMA Smaller ==
    ASSUME NEW S, IsFiniteSet(S), NEW x \in S
    PROVE  /\ IsFiniteSet(S \ {x}) /\ Cardinality(S) \in Nat
           /\ Cardinality(S \ {x}) \in Nat /\ Cardinality(S \ {x}) = Cardinality(S) - 1
  BY FS_RemoveElement, FS_CardinalityType

LEMMA SubsetsFinite ==
    ASSUME NEW S, IsFiniteSet(S), NEW s \in SUBSET S
    PROVE  /\ IsFiniteSet(s) /\ Cardinality(s) \in Nat /\ Cardinality(S) \in Nat
           /\ Cardinality(s) <= Cardinality(S)
  BY FS_Subset, FS_CardinalityType

(* The recursion has a solution ... *)
LEMMA SumsExist ==
    ASSUME NEW f, NEW S, Numbered(f, S)
    PROVE  \E I : Sums(f, S, I)
  <1> DEFINE Upto(n) == {s \in SUBSET S : Cardinality(s) <= n}
             Body(s, I) == IF s = {} THEN 0 ELSE f[PickOf(s)] + I[s \ {PickOf(s)}]
             Obeys(n, I) == I = [s \in Upto(n) |-> Body(s, I)]
             T == {n \in Nat : \E I : Obeys(n, I)}
  <1>1. \A s \in SUBSET S : IsFiniteSet(s) /\ Cardinality(s) \in Nat
                            /\ Cardinality(s) <= Cardinality(S)
    BY SubsetsFinite DEF Numbered
  <1>2. \A s \in SUBSET S : s # {} =>
          /\ PickOf(s) \in s /\ s \ {PickOf(s)} \in SUBSET S
          /\ Cardinality(s \ {PickOf(s)}) = Cardinality(s) - 1
    BY <1>1, PickIs, Smaller
  <1>3. 0 \in T
    <2> DEFINE I == [s \in Upto(0) |-> 0]
    <2>1. ASSUME NEW s \in Upto(0) PROVE s = {}
      <3>1. Cardinality(s) = 0 /\ IsFiniteSet(s)
        BY <1>1
      <3>2. QED
        BY ONLY <3>1, FS_EmptySet
    <2>2. \A s \in Upto(0) : Body(s, I) = 0
      BY <2>1
    <2>3. I = [s \in Upto(0) |-> Body(s, I)]
      BY ONLY <2>2
    <2> HIDE DEF I, Body, Upto
    <2>4. Obeys(0, I)
      BY <2>3
    <2>5. QED
      BY <2>4
  <1>4. ASSUME NEW n \in T \cap Nat PROVE n + 1 \in T
    <2>1. PICK I : Obeys(n, I)
      BY <1>4
    <2> DEFINE J == [s \in Upto(n + 1) |-> Body(s, I)]
    <2>2. ASSUME NEW s \in Upto(n) PROVE J[s] = I[s]
      <3>1. s \in Upto(n + 1)
        BY <1>1
      <3>2. J[s] = Body(s, I)
        BY ONLY <3>1
      <3> HIDE DEF Body, Upto, J
      <3>3. I[s] = Body(s, I)
        BY <2>1
      <3>4. QED
        BY <3>2, <3>3
    <2>3. ASSUME NEW s \in Upto(n + 1) PROVE Body(s, I) = Body(s, J)
      <3>1. CASE s = {}
        BY <3>1
      <3>2. CASE s # {}
        <4>1. s \ {PickOf(s)} \in Upto(n)
          BY <1>1, <1>2, <3>2
        <4>2. J[s \ {PickOf(s)}] = I[s \ {PickOf(s)}]
          BY <2>2, <4>1
        <4> HIDE DEF J
        <4>3. QED
          BY ONLY <4>2
      <3>3. QED
        BY <3>1, <3>2
    <2>4. J = [s \in Upto(n + 1) |-> Body(s, J)]
      BY <2>3
    <2> HIDE DEF J, Body, Upto
    <2>5. Obeys(n + 1, J)
      BY <2>4
    <2>6. QED
      BY <2>5
  <1>5. Nat \subseteq T
    <2> HIDE DEF T
    <2>1. QED
      BY <1>3, <1>4, SetInduction
  <1>6. PICK I : Obeys(Cardinality(S), I)
    <2>1. Cardinality(S) \in Nat
      BY FS_CardinalityType DEF Numbered
    <2>2. QED
      BY <1>5, <2>1
  <1>7. Upto(Cardinality(S)) = SUBSET S
    BY <1>1
  <1>8. Sums(f, S, I)
    BY <1>6, <1>7 DEF Sums
  <1>9. QED
    BY <1>8

(* ... and one only, also where it is cut down to the subsets of a part.   *)
LEMMA SumsAgree ==
    ASSUME NEW f, NEW S, Numbered(f, S), NEW I, Sums(f, S, I),
           NEW R \in SUBSET S, NEW J, Sums(f, R, J)
    PROVE  J[R] = I[R]
  <1> DEFINE T == {n \in Nat : \A s \in SUBSET R : Cardinality(s) = n => I[s] = J[s]}
  <1>1. \A s \in SUBSET R : IsFiniteSet(s) /\ Cardinality(s) \in Nat
    BY SubsetsFinite DEF Numbered
  <1>2. \A s \in SUBSET R : s # {} =>
          /\ PickOf(s) \in s /\ s \ {PickOf(s)} \in SUBSET R
          /\ Cardinality(s \ {PickOf(s)}) = Cardinality(s) - 1
    BY <1>1, PickIs, Smaller
  <1>3. \A s \in SUBSET R :
          /\ I[s] = IF s = {} THEN 0 ELSE f[PickOf(s)] + I[s \ {PickOf(s)}]
          /\ J[s] = IF s = {} THEN 0 ELSE f[PickOf(s)] + J[s \ {PickOf(s)}]
    BY DEF Sums
  <1>4. 0 \in T
    <2>1. ASSUME NEW s \in SUBSET R, Cardinality(s) = 0 PROVE s = {}
      BY ONLY <1>1, <2>1, FS_EmptySet
    <2>2. QED
      BY <1>3, <2>1
  <1>5. ASSUME NEW n \in T \cap Nat PROVE n + 1 \in T
    <2>1. ASSUME NEW s \in SUBSET R, Cardinality(s) = n + 1 PROVE I[s] = J[s]
      <3>1. s # {}
        BY <2>1, FS_EmptySet
      <3>2. Cardinality(s \ {PickOf(s)}) = n /\ s \ {PickOf(s)} \in SUBSET R
        BY <1>2, <2>1, <3>1
      <3>3. I[s \ {PickOf(s)}] = J[s \ {PickOf(s)}]
        BY <1>5, <3>2
      <3>4. QED
        BY <1>3, <3>1, <3>3
    <2>2. QED
      BY <2>1
  <1>6. Nat \subseteq T
    <2> HIDE DEF T
    <2>1. QED
      BY <1>4, <1>5, SetInduction
  <1>7. R \in SUBSET R /\ Cardinality(R) \in Nat
    BY <1>1
  <1>8. QED
    BY <1>6, <1>7

(* A sum of numbers is one. *)
LEMMA SumsTyped ==
    ASSUME NEW f, NEW S, Numbered(f, S), NEW I, Sums(f, S, I)
    PROVE  \A s \in SUBSET S : I[s] \in Int
  <1> DEFINE T == {n \in Nat : \A s \in SUBSET S : Cardinality(s) = n => I[s] \in Int}
  <1>1. \A s \in SUBSET S : IsFiniteSet(s) /\ Cardinality(s) \in Nat
    BY SubsetsFinite DEF Numbered
  <1>2. \A s \in SUBSET S : Cardinality(s) = 0 <=> s = {}
    BY <1>1, FS_EmptySet
  <1>3. \A s \in SUBSET S :
          I[s] = IF s = {} THEN 0 ELSE f[PickOf(s)] + I[s \ {PickOf(s)}]
    BY DEF Sums
  <1>4. 0 \in T
    <2>1. ASSUME NEW s \in SUBSET S, Cardinality(s) = 0 PROVE I[s] \in Int
      <3>1. s = {}
        BY ONLY <1>2, <2>1
      <3>2. I[s] = 0
        BY <1>3, <3>1
      <3>3. QED
        BY <3>2
    <2>2. QED
      BY <2>1
  <1>5. ASSUME NEW n \in T \cap Nat PROVE n + 1 \in T
    <2>1. ASSUME NEW s \in SUBSET S, Cardinality(s) = n + 1 PROVE I[s] \in Int
      <3>1. s # {}
        BY <1>2, <1>5, <2>1
      <3>2. PickOf(s) \in s
        BY <3>1, PickIs
      <3>3. s \ {PickOf(s)} \in SUBSET S /\ Cardinality(s \ {PickOf(s)}) = n
        BY <1>1, <2>1, <3>2, Smaller
      <3>4. I[s \ {PickOf(s)}] \in Int /\ f[PickOf(s)] \in Int
        BY <1>5, <3>2, <3>3 DEF Numbered
      <3>5. QED
        BY <1>3, <3>1, <3>4
    <2>2. QED
      BY <2>1
  <1>6. Nat \subseteq T
    <2> HIDE DEF T
    <2>1. QED
      BY <1>4, <1>5, SetInduction
  <1>7. QED
    BY <1>1, <1>6

(* A sum is any of its values and the sum of the others. *)
LEMMA SumsSplit ==
    ASSUME NEW f, NEW S, Numbered(f, S), NEW I, Sums(f, S, I)
    PROVE  \A s \in SUBSET S : \A x \in s : I[s] = f[x] + I[s \ {x}]
  <1> DEFINE Fine(s) == \A x \in s : I[s] = f[x] + I[s \ {x}]
             T == {n \in Nat : \A s \in SUBSET S : Cardinality(s) = n => Fine(s)}
  <1>1. \A s \in SUBSET S : IsFiniteSet(s) /\ Cardinality(s) \in Nat
    BY SubsetsFinite DEF Numbered
  <1>2. \A s \in SUBSET S : Cardinality(s) = 0 <=> s = {}
    BY <1>1, FS_EmptySet
  <1>3. \A s \in SUBSET S :
          I[s] = IF s = {} THEN 0 ELSE f[PickOf(s)] + I[s \ {PickOf(s)}]
    BY DEF Sums
  <1>4. 0 \in T
    BY <1>2
  <1>5. ASSUME NEW n \in T \cap Nat PROVE n + 1 \in T
    <2>1. ASSUME NEW s \in SUBSET S, Cardinality(s) = n + 1, NEW x \in s
          PROVE  I[s] = f[x] + I[s \ {x}]
      <3> PICK y : y = PickOf(s)
        OBVIOUS
      <3>1. y \in s
        BY PickIs
      <3>2. I[s] = f[y] + I[s \ {y}]
        BY <1>3, <3>1
      <3>3. CASE x = y
        BY <3>2, <3>3
      <3>4. CASE x # y
        <4>1. /\ s \ {x} \in SUBSET S /\ s \ {y} \in SUBSET S
              /\ Cardinality(s \ {x}) = n /\ Cardinality(s \ {y}) = n
          BY <1>1, <2>1, <3>1, Smaller
        <4>2. Fine(s \ {x}) /\ Fine(s \ {y})
          BY <1>5, <4>1
        <4>3. (s \ {x}) \ {y} = (s \ {y}) \ {x}
          OBVIOUS
        <4>4. /\ I[s \ {x}] = f[y] + I[(s \ {x}) \ {y}]
              /\ I[s \ {y}] = f[x] + I[(s \ {x}) \ {y}]
          <5>1. y \in s \ {x} /\ x \in s \ {y}
            BY <3>1, <3>4
          <5>2. QED
            BY <4>2, <4>3, <5>1
        <4>5. /\ I[(s \ {x}) \ {y}] \in Int /\ f[x] \in Int /\ f[y] \in Int
          <5>1. (s \ {x}) \ {y} \in SUBSET S
            OBVIOUS
          <5>2. QED
            BY <5>1, <3>1, SumsTyped DEF Numbered
        <4> HIDE DEF Fine
        <4>6. QED
          BY ONLY <3>2, <4>4, <4>5
      <3>5. QED
        BY <3>3, <3>4
    <2>2. n + 1 \in Nat
      BY <1>5
    <2>3. QED
      BY <2>1, <2>2
  <1>6. Nat \subseteq T
    <2> HIDE DEF T
    <2>1. QED
      BY <1>4, <1>5, SetInduction
  <1>7. QED
    BY <1>1, <1>6

(* What a sum over a set is. *)
LEMMA TotalIs ==
    ASSUME NEW f, NEW S, Numbered(f, S)
    PROVE  /\ Total(f, S) \in Int
           /\ S = {} => Total(f, S) = 0
           /\ \A x \in S : Total(f, S) = f[x] + Total(f, S \ {x})
  <1> PICK I : I = CHOOSE J : Sums(f, S, J)
    OBVIOUS
  <1>1. Sums(f, S, I) /\ Total(f, S) = I[S]
    BY SumsExist DEF Total
  <1>2. I[S] \in Int
    BY <1>1, SumsTyped
  <1>3. S = {} => I[S] = 0
    BY <1>1 DEF Sums
  <1>4. ASSUME NEW x \in S PROVE I[S] = f[x] + Total(f, S \ {x})
    <2>1. Numbered(f, S \ {x})
      BY FS_Subset DEF Numbered
    <2> PICK J : J = CHOOSE K : Sums(f, S \ {x}, K)
      OBVIOUS
    <2>2. Sums(f, S \ {x}, J) /\ Total(f, S \ {x}) = J[S \ {x}]
      BY <2>1, SumsExist DEF Total
    <2>3. J[S \ {x}] = I[S \ {x}]
      BY <1>1, <2>2, SumsAgree
    <2>4. I[S] = f[x] + I[S \ {x}]
      BY <1>1, SumsSplit
    <2>5. QED
      BY <2>2, <2>3, <2>4
  <1>5. QED
    BY <1>1, <1>2, <1>3, <1>4

(* What holds of the empty set, and of a set with one more element, holds  *)
(* of every finite set.                                                    *)
LEMMA FiniteInduction ==
    ASSUME NEW S, IsFiniteSet(S), NEW T, {} \in T,
           \A s \in SUBSET S : \A x \in s : s \ {x} \in T => s \in T
    PROVE  S \in T
  <1> DEFINE N == {n \in Nat : \A s \in SUBSET S : Cardinality(s) = n => s \in T}
  <1>1. \A s \in SUBSET S : IsFiniteSet(s) /\ Cardinality(s) \in Nat
    BY SubsetsFinite
  <1>2. 0 \in N
    BY <1>1, FS_EmptySet
  <1>3. ASSUME NEW n \in N \cap Nat PROVE n + 1 \in N
    <2>1. ASSUME NEW s \in SUBSET S, Cardinality(s) = n + 1 PROVE s \in T
      <3>1. s # {}
        <4>1. n + 1 # 0
          OBVIOUS
        <4>2. Cardinality({}) = 0
          BY FS_EmptySet
        <4>3. QED
          BY ONLY <2>1, <4>1, <4>2
      <3>2. PICK x : x \in s
        BY <3>1
      <3>3. s \ {x} \in SUBSET S /\ Cardinality(s \ {x}) = n
        BY <1>1, <1>3, <2>1, <3>2, Smaller
      <3>4. QED
        BY <1>3, <3>2, <3>3
    <2>2. QED
      BY <1>3, <2>1
  <1>4. Nat \subseteq N
    <2> HIDE DEF N
    <2>1. QED
      BY <1>2, <1>3, SetInduction
  <1>5. QED
    BY <1>1, <1>4

(* Sums of the same values are the same. *)
LEMMA TotalSame ==
    ASSUME NEW f, NEW g, NEW S, Numbered(f, S), \A x \in S : f[x] = g[x]
    PROVE  Numbered(g, S) /\ Total(f, S) = Total(g, S)
  <1> DEFINE T == {s \in SUBSET S : Total(f, s) = Total(g, s)}
  <1>1. \A s \in SUBSET S : Numbered(f, s) /\ Numbered(g, s)
    BY FS_Subset DEF Numbered
  <1>2. {} \in T
    BY <1>1, TotalIs
  <1>3. ASSUME NEW s \in SUBSET S, NEW x \in s, s \ {x} \in T PROVE s \in T
    <2>1. /\ Total(f, s) = f[x] + Total(f, s \ {x})
          /\ Total(g, s) = g[x] + Total(g, s \ {x})
      BY <1>1, TotalIs
    <2>2. QED
      BY <1>3, <2>1
  <1>4. IsFiniteSet(S)
    BY DEF Numbered
  <1> HIDE DEF T
  <1>5. S \in T
    BY <1>2, <1>3, <1>4, FiniteInduction
  <1>6. QED
    BY <1>1, <1>5 DEF T

(* One value changes. *)
LEMMA TotalChanged ==
    ASSUME NEW f, NEW g, NEW S, Numbered(f, S), NEW x \in S, g[x] \in Int,
           \A y \in S : y # x => f[y] = g[y]
    PROVE  Numbered(g, S) /\ Total(g, S) = Total(f, S) - f[x] + g[x]
  <1>1. Numbered(f, S \ {x}) /\ Numbered(g, S)
    BY FS_Subset DEF Numbered
  <1>2. Total(f, S \ {x}) = Total(g, S \ {x})
    BY <1>1, TotalSame
  <1>3. /\ Total(f, S) = f[x] + Total(f, S \ {x})
        /\ Total(g, S) = g[x] + Total(g, S \ {x})
    BY <1>1, TotalIs
  <1>4. Total(f, S \ {x}) \in Int /\ f[x] \in Int
    BY <1>1, TotalIs DEF Numbered
  <1>5. QED
    BY <1>1, <1>2, <1>3, <1>4

(* Sums of natural numbers grow with the set. *)
LEMMA TotalGrows ==
    ASSUME NEW f, NEW S, IsFiniteSet(S), \A x \in S : f[x] \in Nat, NEW R \in SUBSET S
    PROVE  Total(f, R) \in Nat /\ Total(f, S) \in Nat /\ Total(f, R) <= Total(f, S)
  <1> DEFINE T == {s \in SUBSET S : Total(f, s \cap R) \in Nat /\ Total(f, s) \in Nat
                                    /\ Total(f, s \cap R) <= Total(f, s)}
  <1>1. \A s \in SUBSET S : Numbered(f, s)
    BY FS_Subset DEF Numbered
  <1>2. {} \in T
    <2>1. Total(f, {}) = 0 /\ {} \cap R = {}
      BY <1>1, TotalIs
    <2>2. QED
      BY <2>1
  <1>3. ASSUME NEW s \in SUBSET S, NEW x \in s, s \ {x} \in T PROVE s \in T
    <2>1. Total(f, s) = f[x] + Total(f, s \ {x}) /\ f[x] \in Nat
      BY <1>1, TotalIs
    <2> PICK u, v : u = Total(f, (s \ {x}) \cap R) /\ v = Total(f, s \ {x})
      OBVIOUS
    <2>5. u \in Nat /\ v \in Nat /\ u <= v
      BY <1>3
    <2>2. CASE x \in R
      <3>1. Total(f, s \cap R) = f[x] + Total(f, (s \cap R) \ {x})
        BY <1>1, <2>2, TotalIs
      <3>2. (s \cap R) \ {x} = (s \ {x}) \cap R
        OBVIOUS
      <3>3. Total(f, s) = f[x] + v /\ Total(f, s \cap R) = f[x] + u
        BY <2>1, <3>1, <3>2
      <3>4. /\ Total(f, s \cap R) \in Nat /\ Total(f, s) \in Nat
            /\ Total(f, s \cap R) <= Total(f, s)
        BY ONLY <2>1, <2>5, <3>3
      <3>5. QED
        BY <3>4
    <2>3. CASE x \notin R
      <3>1. s \cap R = (s \ {x}) \cap R
        BY <2>3
      <3>2. Total(f, s) = f[x] + v /\ Total(f, s \cap R) = u
        BY <2>1, <3>1
      <3>3. /\ Total(f, s \cap R) \in Nat /\ Total(f, s) \in Nat
            /\ Total(f, s \cap R) <= Total(f, s)
        BY ONLY <2>1, <2>5, <3>2
      <3>4. QED
        BY <3>3
    <2>4. QED
      BY <2>2, <2>3
  <1> HIDE DEF T
  <1>4. S \in T
    BY <1>2, <1>3, FiniteInduction
  <1>5. S \cap R = R
    OBVIOUS
  <1>6. QED
    BY <1>4, <1>5 DEF T

(* A sum lies between as many of its least and of its greatest value. *)
LEMMA TotalBetween ==
    ASSUME NEW f, NEW S, Numbered(f, S), NEW low \in Int, NEW high \in Int,
           \A x \in S : low <= f[x] /\ f[x] <= high
    PROVE  low * Cardinality(S) <= Total(f, S) /\ Total(f, S) <= high * Cardinality(S)
  <1> DEFINE Within(s) == low * Cardinality(s) <= Total(f, s) /\ Total(f, s) <= high * Cardinality(s)
             T == {s \in SUBSET S : Within(s)}
  <1>1. \A s \in SUBSET S : Numbered(f, s) /\ IsFiniteSet(s) /\ Cardinality(s) \in Nat
    BY FS_Subset, FS_CardinalityType DEF Numbered
  <1>2. {} \in T
    BY <1>1, TotalIs, FS_EmptySet
  <1>3. ASSUME NEW s \in SUBSET S, NEW x \in s, s \ {x} \in T PROVE s \in T
    <2>1. Total(f, s) = f[x] + Total(f, s \ {x}) /\ f[x] \in Int /\ Total(f, s \ {x}) \in Int
      BY <1>1, TotalIs DEF Numbered
    <2>2. PICK n \in Nat : n = Cardinality(s \ {x})
      BY <1>1
    <2>3. Cardinality(s) = n + 1
      BY <1>1, <2>2, Smaller
    <2>4. low * n <= Total(f, s \ {x}) /\ Total(f, s \ {x}) <= high * n
      BY <1>3, <2>2
    <2>5. low * (n + 1) = low * n + low /\ high * (n + 1) = high * n + high
          /\ low * n \in Int /\ high * n \in Int
      OBVIOUS
    <2>6. low <= f[x] /\ f[x] <= high
      OBVIOUS
    <2>7. low * (n + 1) <= Total(f, s) /\ Total(f, s) <= high * (n + 1)
      <3> PICK u, v, p, q : u = low * n /\ v = high * n /\ p = low * (n + 1) /\ q = high * (n + 1)
        OBVIOUS
      <3>1. u \in Int /\ v \in Int /\ p = u + low /\ q = v + high
        BY <2>5
      <3>2. u <= Total(f, s \ {x}) /\ Total(f, s \ {x}) <= v
        BY <2>4
      <3>3. p <= Total(f, s) /\ Total(f, s) <= q
        BY ONLY <2>1, <2>6, <3>1, <3>2, low \in Int, high \in Int
      <3>4. QED
        BY <3>3
    <2>8. QED
      BY <2>3, <2>7
  <1>4. IsFiniteSet(S)
    BY DEF Numbered
  <1> HIDE DEF T
  <1>5. S \in T
    BY <1>2, <1>3, <1>4, FiniteInduction
  <1>6. QED
    BY <1>5 DEF T

(***************************************************************************)
(* The layout of the pools                                                 *)
(***************************************************************************)
BucketCount == Cardinality(Buckets)
BucketSizes == [b \in Buckets |-> BucketBytes(b)]

LEMMA BucketsAre ==
    /\ BucketCount \in Nat \ {0} /\ Buckets = 1..BucketCount
    /\ \A b \in Buckets : /\ b \in Nat \ {0} /\ block_size[b] \in Nat \ {0}
                          /\ capacity[b] \in Nat \ {0}
  <1>1. BucketCount \in Nat /\ Buckets = 1..BucketCount /\ Buckets # {}
    BY PoolAssumption, FS_CardinalityType DEF BucketCount
  <1>2. BucketCount # 0
    BY <1>1
  <1>3. \A b \in Buckets : b \in Nat \ {0}
    BY <1>1
  <1>4. QED
    BY <1>1, <1>2, <1>3, PoolAssumption

(* Rounding up rounds up. *)
LEMMA AlignUp ==
    ASSUME NEW n \in Nat
    PROVE  align_up(n) \in Nat /\ align_up(n) >= n
  <1> PICK a : a = k_region_align
    OBVIOUS
  <1>1. a \in Nat \ {0}
    BY PoolAssumption
  <1> PICK q, r : q = (n + a - 1) \div a /\ r = (n + a - 1) % a
    OBVIOUS
  <1>2. n + a - 1 \in Nat
    BY <1>1
  <1>3. q \in Nat /\ r \in 0..(a - 1) /\ n + a - 1 = a * q + r
    BY ONLY <1>1, <1>2, q = (n + a - 1) \div a, r = (n + a - 1) % a
  <1>4. q * a = a * q /\ a * q \in Nat
    BY <1>1, <1>3
  <1>5. a * q >= n
    BY ONLY <1>1, <1>3, <1>4, n \in Nat
  <1>6. align_up(n) = q * a
    BY DEF align_up
  <1>7. QED
    BY <1>4, <1>5, <1>6

(* More of the same. *)
LEMMA MulMono ==
    ASSUME NEW i \in Nat, NEW j \in Nat, NEW k \in Nat, i <= j
    PROVE  i * k \in Nat /\ j * k \in Nat /\ i * k <= j * k
  <1>1. j - i \in Nat /\ j = i + (j - i)
    OBVIOUS
  <1>2. (j - i) * k \in Nat
    BY <1>1
  <1>3. (i + (j - i)) * k = i * k + (j - i) * k
    BY <1>1
  <1>4. i * k \in Nat /\ j * k \in Nat
    OBVIOUS
  <1>5. QED
    BY <1>1, <1>2, <1>3, <1>4

LEMMA BucketHolds ==
    ASSUME NEW b \in Buckets
    PROVE  /\ BucketBytes(b) \in Nat
           /\ BucketBytes(b) >= capacity[b] * block_size[b]
  <1>1. block_size[b] \in Nat /\ capacity[b] \in Nat
    BY BucketsAre
  <1>2. block_size[b] * capacity[b] \in Nat
        /\ block_size[b] * capacity[b] = capacity[b] * block_size[b]
    BY <1>1
  <1>3. QED
    BY <1>2, AlignUp DEF BucketBytes

(* The sums of the layout. *)
LEMMA BytesTotal ==
    ASSUME NEW R \in SUBSET Buckets
    PROVE  /\ Numbered(BucketSizes, R)
           /\ MapThenSumSet(BucketBytes, R) = Total(BucketSizes, R)
  <1> DEFINE Obeys(I) == I = [s \in SUBSET R |->
                IF s = {} THEN 0 ELSE BucketBytes(PickOf(s)) + I[s \ {PickOf(s)}]]
  <1>1. MapThenSumSet(BucketBytes, R) = (CHOOSE I : Obeys(I))[R]
    BY DEF MapThenSumSet, MapThenFoldSet, PickOf
  <1>2. Numbered(BucketSizes, R)
    <2>1. IsFiniteSet(R)
      BY PoolAssumption, FS_Subset
    <2>2. \A b \in Buckets : BucketSizes[b] \in Int
      BY BucketHolds DEF BucketSizes
    <2>3. QED
      BY <2>1, <2>2 DEF Numbered
  <1>3. ASSUME NEW I PROVE Obeys(I) <=> Sums(BucketSizes, R, I)
    <2>1. \A s \in SUBSET R : s # {} => BucketSizes[PickOf(s)] = BucketBytes(PickOf(s))
      BY PickIs DEF BucketSizes
    <2>2. [s \in SUBSET R |->
                IF s = {} THEN 0 ELSE BucketBytes(PickOf(s)) + I[s \ {PickOf(s)}]]
            = [s \in SUBSET R |-> IF s = {} THEN 0 ELSE BucketSizes[PickOf(s)] + I[s \ {PickOf(s)}]]
      BY <2>1
    <2>3. QED
      BY <2>2 DEF Sums
  <1> PICK I : I = CHOOSE J : Obeys(J)
    OBVIOUS
  <1>4. \E J : Obeys(J)
    BY <1>2, <1>3, SumsExist
  <1> HIDE DEF Obeys
  <1>5. Sums(BucketSizes, R, I)
    BY <1>3, <1>4
  <1>6. PICK J : Sums(BucketSizes, R, J) /\ Total(BucketSizes, R) = J[R]
    BY <1>2, SumsExist DEF Total
  <1>7. I[R] = J[R]
    BY <1>2, <1>5, <1>6, SumsAgree
  <1>8. QED
    BY <1>1, <1>2, <1>6, <1>7

(* The buckets lie behind each other. *)
LEMMA BeforeIs ==
    /\ Before(1) = 0
    /\ region_size = Before(BucketCount + 1) + k_region_slack
    /\ \A b \in Buckets : /\ Before(b + 1) = Before(b) + BucketBytes(b)
                          /\ Before(b) \in Int /\ BucketBytes(b) \in Nat
  <1>1. BucketCount \in Nat \ {0} /\ Buckets = 1..BucketCount
    BY BucketsAre
  <1>2. Before(1) = 0
    <2>1. {} \in SUBSET Buckets /\ 1..(1 - 1) = {}
      OBVIOUS
    <2>2. Total(BucketSizes, {}) = 0
      BY BytesTotal, TotalIs
    <2>3. QED
      BY <2>1, <2>2, BytesTotal DEF Before
  <1>3. region_size = Before(BucketCount + 1) + k_region_slack
    <2>1. (BucketCount + 1) - 1 = BucketCount
      BY <1>1
    <2>2. QED
      BY <1>1, <2>1 DEF region_size, Before
  <1>4. ASSUME NEW b \in Buckets
        PROVE  /\ Before(b + 1) = Before(b) + BucketBytes(b)
               /\ Before(b) \in Int /\ BucketBytes(b) \in Nat
    <2> DEFINE R == 1..b
    <2>1. b \in Nat \ {0} /\ b <= BucketCount /\ (b + 1) - 1 = b
      BY <1>1
    <2>2. R \in SUBSET Buckets /\ b \in R /\ R \ {b} = 1..(b - 1)
      BY <1>1, <2>1
    <2>3. 1..(b - 1) \in SUBSET Buckets
      BY <2>2
    <2>4. /\ Before(b + 1) = Total(BucketSizes, R)
          /\ Before(b) = Total(BucketSizes, 1..(b - 1))
      BY <2>1, <2>2, <2>3, BytesTotal DEF Before
    <2>5. Numbered(BucketSizes, R) /\ Numbered(BucketSizes, 1..(b - 1))
      BY <2>2, <2>3, BytesTotal
    <2> HIDE DEF R
    <2>6. Total(BucketSizes, R) = BucketSizes[b] + Total(BucketSizes, R \ {b})
      BY <2>2, <2>5, TotalIs
    <2>7. Total(BucketSizes, 1..(b - 1)) \in Int
      BY <2>5, TotalIs
    <2>8. BucketSizes[b] = BucketBytes(b) /\ BucketBytes(b) \in Nat
      BY BucketHolds DEF BucketSizes
    <2>9. Total(BucketSizes, R \ {b}) = Total(BucketSizes, 1..(b - 1))
      BY <2>2
    <2>10. QED
      BY ONLY <2>4, <2>6, <2>7, <2>8, <2>9
  <1>5. QED
    BY <1>2, <1>3, <1>4

LEMMA BucketsInOrder ==
    \A c \in 1..(BucketCount + 1) :
       Before(c) \in Nat
       /\ \A b \in 1..(c - 1) : b \in Buckets /\ Before(b) + BucketBytes(b) <= Before(c)
  <1> DEFINE Ordered(c) ==
                Before(c) \in Nat
                /\ \A b \in 1..(c - 1) : b \in Buckets /\ Before(b) + BucketBytes(b) <= Before(c)
             T == {n \in Nat : n + 1 \in 1..(BucketCount + 1) => Ordered(n + 1)}
  <1>1. BucketCount \in Nat \ {0} /\ Buckets = 1..BucketCount
    BY BucketsAre
  <1>2. 0 \in T
    BY BeforeIs
  <1>3. ASSUME NEW n \in T \cap Nat PROVE n + 1 \in T
    <2>1. SUFFICES ASSUME n + 2 \in 1..(BucketCount + 1) PROVE Ordered(n + 2)
      <3>1. n + 1 \in Nat /\ (n + 1) + 1 = n + 2
        BY <1>3
      <3>2. QED
        BY <2>1, <3>1
    <2>2. n \in Nat /\ n + 1 \in Buckets /\ n + 1 \in 1..(BucketCount + 1) /\ (n + 1) + 1 = n + 2
      BY <1>1, <1>3, <2>1
    <2>3. Ordered(n + 1)
      BY <1>3, <2>2
    <2>4. /\ Before(n + 2) = Before(n + 1) + BucketBytes(n + 1)
          /\ BucketBytes(n + 1) \in Nat
      BY <2>2, BeforeIs
    <2>5. ASSUME NEW b \in 1..((n + 2) - 1)
          PROVE  b \in Buckets /\ Before(b) + BucketBytes(b) <= Before(n + 2)
      <3>1. b = n + 1 \/ b \in 1..((n + 1) - 1)
        BY <2>2
      <3>2. CASE b = n + 1
        BY <2>2, <2>3, <2>4, <3>2
      <3>3. CASE b \in 1..((n + 1) - 1)
        <4>1. b \in Buckets /\ Before(b) + BucketBytes(b) <= Before(n + 1)
          BY <2>3, <3>3
        <4>2. Before(b) \in Int /\ BucketBytes(b) \in Nat
          BY <4>1, BeforeIs
        <4>3. QED
          BY <2>3, <2>4, <4>1, <4>2
      <3>4. QED
        BY <3>1, <3>2, <3>3
    <2>6. QED
      BY <2>3, <2>4, <2>5
  <1>4. Nat \subseteq T
    <2> HIDE DEF T
    <2>1. QED
      BY <1>2, <1>3, SetInduction
  <1>5. ASSUME NEW c \in 1..(BucketCount + 1) PROVE Ordered(c)
    <2>1. c - 1 \in Nat /\ (c - 1) + 1 = c
      BY <1>1
    <2>2. c - 1 \in T
      BY <1>4, <2>1
    <2>3. QED
      BY <2>1, <2>2
  <1>6. QED
    BY <1>5

(* The cells of a block. *)
BlockCells(t, b, i) == Block(t, b, i)..(Block(t, b, i) + block_size[b] - 1)

LEMMA ThreadsAre ==
    /\ region_size \in Nat
    /\ \A t \in Threads : t \in Nat /\ t * region_size \in Nat
    /\ \A t \in Threads : (t + 1) * region_size = t * region_size + region_size
    /\ \A t, u \in Threads : t < u => t * region_size + region_size <= u * region_size
  <1>1. region_size \in Nat
    <2>1. BucketCount \in Nat /\ BucketCount + 1 \in 1..(BucketCount + 1)
      BY BucketsAre
    <2>2. Before(BucketCount + 1) \in Nat /\ k_region_slack \in Nat
      BY <2>1, BucketsInOrder, PoolAssumption
    <2>3. QED
      BY <2>2, BeforeIs
  <1> PICK R : R = region_size
    OBVIOUS
  <1>2. ASSUME NEW t \in Threads
        PROVE  t \in Nat /\ t * R \in Nat /\ (t + 1) * R = t * R + R
    BY <1>1, PoolAssumption DEF Threads
  <1>3. ASSUME NEW t \in Threads, NEW u \in Threads, t < u
        PROVE  t * R + R <= u * R
    <2>1. t + 1 \in Nat /\ u \in Nat /\ t + 1 <= u
      BY <1>2, <1>3
    <2>2. (t + 1) * R <= u * R
      BY ONLY <1>1, <2>1, R = region_size, MulMono
    <2>3. QED
      BY <1>2, <2>2
  <1>4. QED
    BY <1>1, <1>2, <1>3

(* A block lies in its bucket, and shares no cell with another of it. *)
LEMMA CellsInBucket ==
    ASSUME NEW t \in Threads, NEW b \in Buckets, NEW i \in 1..capacity[b]
    PROVE  /\ region_begin(t, b) \in Nat \ {0} /\ region_end(t, b) \in Nat
           /\ Block(t, b, i) \in Nat \ {0} /\ Block(t, b, i) \in BlockCells(t, b, i)
           /\ \A a \in BlockCells(t, b, i) : a \in Nat \ {0} /\ InBucket(t, a, b)
           /\ \A j \in 1..capacity[b] :
                BlockCells(t, b, i) \cap BlockCells(t, b, j) # {} => i = j
  <1> PICK z, cap, w, s :
        /\ z = block_size[b] /\ cap = capacity[b]
        /\ w = region_begin(t, b) /\ s = BucketBytes(b)
    OBVIOUS
  <1>1. z \in Nat \ {0} /\ cap \in Nat \ {0} /\ s \in Nat /\ s >= cap * z
    BY BucketsAre, BucketHolds
  <1>2. w \in Nat \ {0}
    <2>1. b \in 1..(BucketCount + 1)
      BY BucketsAre
    <2>2. Before(b) \in Nat
      BY <2>1, BucketsInOrder
    <2>3. QED
      BY <2>2, ThreadsAre DEF region_begin
  <1>3. region_end(t, b) = w + s
    BY DEF region_end
  <1>4. ASSUME NEW j \in 1..cap
        PROVE  /\ Block(t, b, j) = w + (j - 1) * z
               /\ (j - 1) * z \in Nat /\ j * z \in Nat /\ j * z = (j - 1) * z + z /\ j * z <= s
    <2>1. j - 1 \in Nat /\ j \in Nat /\ cap \in Nat /\ j <= cap
      BY <1>1
    <2>2. j * z <= cap * z /\ j * z \in Nat /\ cap * z \in Nat
      BY <1>1, <2>1, MulMono
    <2>3. (j - 1) * z \in Nat /\ j * z = (j - 1) * z + z
      <3>1. ((j - 1) + 1) * z = (j - 1) * z + z
        BY <1>1, <2>1
      <3>2. (j - 1) + 1 = j
        BY <2>1
      <3>3. QED
        BY <1>1, <2>1, <3>1, <3>2
    <2>4. QED
      BY <1>1, <2>2, <2>3 DEF Block
  <1>5. ASSUME NEW j \in 1..cap, NEW k \in 1..cap, j < k
        PROVE  j * z <= (k - 1) * z
    <2>1. j \in Nat /\ k - 1 \in Nat /\ j <= k - 1
      BY <1>1, <1>5
    <2>2. QED
      BY <1>1, <2>1, MulMono
  <1>6. ASSUME NEW j \in 1..cap, NEW a \in BlockCells(t, b, j)
        PROVE  a \in Nat /\ w + (j - 1) * z <= a /\ a < w + j * z
    <2>1. a \in Block(t, b, j)..(Block(t, b, j) + z - 1)
      BY DEF BlockCells
    <2>2. QED
      BY <1>1, <1>2, <1>4, <2>1
  <1>7. ASSUME NEW j \in 1..cap, NEW a \in BlockCells(t, b, i), a \in BlockCells(t, b, j), i # j
        PROVE  FALSE
    <2>1. w + (i - 1) * z <= a /\ a < w + i * z /\ w + (j - 1) * z <= a /\ a < w + j * z /\ a \in Nat
      BY <1>6, <1>7
    <2>2. (i - 1) * z \in Nat /\ i * z \in Nat /\ (j - 1) * z \in Nat /\ j * z \in Nat
      BY <1>4
    <2>3. CASE i < j
      <3>1. i * z <= (j - 1) * z
        BY <1>5, <2>3
      <3>2. QED
        BY ONLY <1>2, <2>1, <2>2, <3>1
    <2>4. CASE j < i
      <3>1. j * z <= (i - 1) * z
        BY <1>5, <2>4
      <3>2. QED
        BY ONLY <1>2, <2>1, <2>2, <3>1
    <2>5. QED
      BY <1>1, <1>7, <2>3, <2>4
  <1>8. ASSUME NEW a \in BlockCells(t, b, i) PROVE a \in Nat \ {0} /\ InBucket(t, a, b)
    <2>1. a \in Nat /\ w + (i - 1) * z <= a /\ a < w + i * z
      BY <1>6
    <2>2. (i - 1) * z \in Nat /\ i * z \in Nat /\ i * z <= s
      BY <1>4
    <2>3. w <= a /\ a < w + s /\ a # 0
      BY ONLY <1>1, <1>2, <2>1, <2>2
    <2>4. QED
      BY <1>3, <2>1, <2>3 DEF InBucket
  <1>9. Block(t, b, i) \in Nat \ {0} /\ Block(t, b, i) \in BlockCells(t, b, i)
    <2>1. Block(t, b, i) \in Nat \ {0}
      BY <1>2, <1>4
    <2>2. QED
      BY <1>1, <2>1 DEF BlockCells
  <1>10. w + s \in Nat
    BY <1>1, <1>2
  <1>11. QED
    BY <1>2, <1>3, <1>7, <1>8, <1>9, <1>10

(* A bucket lies in the region of its thread. *)
LEMMA BucketInRegion ==
    ASSUME NEW t \in Threads, NEW b \in Buckets, NEW a \in Nat, InBucket(t, a, b)
    PROVE  a \in RegionOf(t) /\ a \in Addr
  <1>1. /\ BucketCount + 1 \in 1..(BucketCount + 1) /\ b \in 1..((BucketCount + 1) - 1) /\ b \in 1..(BucketCount + 1)
    BY BucketsAre
  <1>2. Before(b) + BucketBytes(b) <= Before(BucketCount + 1) /\ Before(BucketCount + 1) \in Nat
        /\ Before(b) \in Nat /\ BucketBytes(b) \in Nat
    BY <1>1, BucketsInOrder, BeforeIs
  <1> PICK x, R : x = t * region_size /\ R = region_size
    OBVIOUS
  <1>3. x \in Nat /\ R \in Nat /\ (t + 1) * region_size = x + R
    BY ThreadsAre
  <1>4. R = Before(BucketCount + 1) + k_region_slack /\ k_region_slack \in Nat
    BY BeforeIs, PoolAssumption
  <1>5. 1 + x + Before(b) <= a /\ a < 1 + x + Before(b) + BucketBytes(b)
    BY DEF InBucket, region_begin, region_end
  <1>6. a \in (1 + x)..(x + R)
    BY ONLY <1>2, <1>3, <1>4, <1>5, a \in Nat
  <1>7. a \in RegionOf(t)
    BY <1>3, <1>6 DEF RegionOf
  <1>8. QED
    BY <1>7 DEF Addr

(* No two buckets share an address. *)
LEMMA BucketsApart ==
    ASSUME NEW t \in Threads, NEW b \in Buckets, NEW u \in Threads, NEW c \in Buckets,
           NEW a \in Nat, InBucket(t, a, b), InBucket(u, a, c)
    PROVE  t = u /\ b = c
  <1>1. t = u
    <2>1. /\ 1 + t * region_size <= a /\ a <= t * region_size + region_size
          /\ 1 + u * region_size <= a /\ a <= u * region_size + region_size
      <3>1. a \in RegionOf(t) /\ a \in RegionOf(u)
        BY BucketInRegion
      <3>2. QED
        BY <3>1, ThreadsAre DEF RegionOf
    <2>2. t \in Nat /\ u \in Nat /\ t * region_size \in Nat /\ u * region_size \in Nat
          /\ region_size \in Nat
      BY ThreadsAre
    <2>3. /\ t < u => t * region_size + region_size <= u * region_size
          /\ u < t => u * region_size + region_size <= t * region_size
      BY ThreadsAre
    <2> PICK x, y, R : x = t * region_size /\ y = u * region_size /\ R = region_size
      OBVIOUS
    <2>4. ~(t < u) /\ ~(u < t)
      BY ONLY <2>1, <2>2, <2>3, a \in Nat, x = t * region_size, y = u * region_size,
         R = region_size
    <2>5. QED
      BY <2>2, <2>4
  <1>2. b = c
    <2>1. b \in 1..(BucketCount + 1) /\ c \in 1..(BucketCount + 1) /\ b \in Nat /\ c \in Nat
          /\ b \in 1..BucketCount /\ c \in 1..BucketCount /\ BucketCount \in Nat
      BY BucketsAre
    <2>2. /\ Before(b) \in Nat /\ Before(c) \in Nat
          /\ BucketBytes(b) \in Nat /\ BucketBytes(c) \in Nat
      BY <2>1, BucketsInOrder, BeforeIs
    <2>3. /\ b < c => Before(b) + BucketBytes(b) <= Before(c)
          /\ c < b => Before(c) + BucketBytes(c) <= Before(b)
      <3>1. (b < c => b \in 1..(c - 1)) /\ (c < b => c \in 1..(b - 1))
        BY <2>1
      <3>2. QED
        BY <2>1, <3>1, BucketsInOrder
    <2> PICK x : x = t * region_size
      OBVIOUS
    <2>4. x \in Nat
      BY ThreadsAre
    <2>5. /\ 1 + x + Before(b) <= a /\ a < 1 + x + Before(b) + BucketBytes(b)
          /\ 1 + x + Before(c) <= a /\ a < 1 + x + Before(c) + BucketBytes(c)
      BY <1>1 DEF InBucket, region_begin, region_end
    <2>6. ~(b < c) /\ ~(c < b)
      BY ONLY <2>2, <2>3, <2>4, <2>5, a \in Nat
    <2>7. QED
      BY <2>1, <2>6
  <1>3. QED
    BY <1>1, <1>2

(***************************************************************************)
(* Blocks and their owners                                                 *)
(***************************************************************************)
(* What a size is routed to holds it. *)
LEMMA BucketFor ==
    ASSUME NEW size, HasBucket(size)
    PROVE  bucket_for(size) \in Buckets /\ size <= block_size[bucket_for(size)]
  <1> DEFINE T == {b \in Buckets : Fits(b, size)}
  <1>1. T \subseteq Nat /\ T # {}
    BY BucketsAre DEF HasBucket
  <1>2. PICK b \in T : \A c \in T : b <= c
    BY <1>1, LeastNat
  <1>3. \A c \in 1..(b - 1) : ~Fits(c, size)
    <2>1. ASSUME NEW c \in 1..(b - 1), Fits(c, size) PROVE FALSE
      <3>1. c \in Buckets /\ c \in Int /\ b \in Int /\ c < b
        BY BucketsAre
      <3>2. c \in T
        BY <2>1, <3>1
      <3>3. QED
        BY <1>2, <3>1, <3>2
    <2>2. QED
      BY <2>1
  <1>4. b \in Buckets /\ Fits(b, size)
    BY <1>2
  <1>5. \E x \in Buckets : Fits(x, size) /\ \A c \in 1..(x - 1) : ~Fits(c, size)
    BY <1>3, <1>4
  <1>6. bucket_for(size) \in Buckets /\ Fits(bucket_for(size), size)
    BY <1>5 DEF bucket_for
  <1>7. QED
    BY <1>6 DEF Fits

CellsOf(b, p) == p..(p + block_size[b] - 1)

LEMMA BlockFacts ==
    ASSUME NEW t \in Threads, NEW b \in Buckets, NEW p \in Blocks(t, b)
    PROVE  /\ p \in Nat \ {0} /\ p \in Addr /\ InBucket(t, p, b) /\ p \in CellsOf(b, p)
           /\ \A a \in CellsOf(b, p) : a \in Nat /\ a \in RegionOf(t) /\ a \in Addr /\ InBucket(t, a, b)
  <1>1. PICK i \in 1..capacity[b] : p = Block(t, b, i)
    BY DEF Blocks
  <1>2. CellsOf(b, p) = BlockCells(t, b, i)
    BY <1>1 DEF CellsOf, BlockCells
  <1>3. \A a \in BlockCells(t, b, i) : a \in Nat \ {0} /\ InBucket(t, a, b)
    BY CellsInBucket
  <1>4. p \in Nat \ {0} /\ p \in BlockCells(t, b, i)
    BY <1>1, CellsInBucket
  <1>5. \A a \in BlockCells(t, b, i) : a \in RegionOf(t) /\ a \in Addr
    BY <1>3, BucketInRegion
  <1>6. QED
    BY <1>2, <1>3, <1>4, <1>5

LEMMA BlocksApart ==
    ASSUME NEW t \in Threads, NEW b \in Buckets, NEW p \in Blocks(t, b),
           NEW u \in Threads, NEW c \in Buckets, NEW q \in Blocks(u, c),
           NEW a \in CellsOf(b, p), a \in CellsOf(c, q)
    PROVE  t = u /\ b = c /\ p = q
  <1>1. a \in Nat /\ InBucket(t, a, b) /\ InBucket(u, a, c)
    BY BlockFacts
  <1>2. t = u /\ b = c
    BY <1>1, BucketsApart
  <1>3. PICK i \in 1..capacity[b] : p = Block(t, b, i)
    BY DEF Blocks
  <1>4. PICK j \in 1..capacity[b] : q = Block(t, b, j)
    BY <1>2 DEF Blocks
  <1>5. a \in BlockCells(t, b, i) \cap BlockCells(t, b, j)
    BY <1>2, <1>3, <1>4 DEF CellsOf, BlockCells
  <1>6. i = j
    BY <1>5, CellsInBucket
  <1>7. QED
    BY <1>2, <1>3, <1>4, <1>6

LEMMA Interval ==
    ASSUME NEW n \in Nat
    PROVE  IsFiniteSet(1..n) /\ Cardinality(1..n) = n
  <1>1. 1 \in Int /\ n \in Int
    OBVIOUS
  <1>2. IsFiniteSet(1..n) /\ Cardinality(1..n) = IF 1 > n THEN 0 ELSE n - 1 + 1
    BY ONLY <1>1, FS_Interval
  <1>3. QED
    BY <1>2

(* A bucket has no more blocks than its capacity. *)
LEMMA BlocksAreFew ==
    ASSUME NEW t \in Threads, NEW b \in Buckets, NEW m \in Nat, NEW d \in [1..m -> Blocks(t, b)],
           \A i, j \in 1..m : d[i] = d[j] => i = j
    PROVE  m <= capacity[b]
  <1> DEFINE f == [i \in 1..capacity[b] |-> Block(t, b, i)]
  <1>1. capacity[b] \in Nat
    BY BucketsAre
  <1>2. f \in Surjection(1..capacity[b], Blocks(t, b))
    BY DEF Surjection, Blocks
  <1>3. IsFiniteSet(1..capacity[b]) /\ Cardinality(1..capacity[b]) = capacity[b]
        /\ IsFiniteSet(1..m) /\ Cardinality(1..m) = m
    BY <1>1, Interval
  <1> HIDE DEF f
  <1>4. IsFiniteSet(Blocks(t, b)) /\ Cardinality(Blocks(t, b)) <= capacity[b]
    BY <1>2, <1>3, FS_Surjection
  <1>5. d \in Injection(1..m, Blocks(t, b))
    BY DEF Injection, IsInjective
  <1>6. m <= Cardinality(Blocks(t, b)) /\ Cardinality(Blocks(t, b)) \in Nat
    BY <1>3, <1>4, <1>5, FS_Injection, FS_CardinalityType
  <1>7. QED
    BY <1>1, <1>4, <1>6

(* What an owner may write is in its block. *)
LEMMA OwnerFacts ==
    ASSUME PoolInv, NEW o \in owned
    PROVE  /\ o \in Block_owned /\ o.thread \in Threads /\ o.size \in Nat /\ o.addr \in Nat
           /\ bucket_for(o.size) \in Buckets
           /\ o.addr \in Blocks(o.thread, bucket_for(o.size))
           /\ o.addr \in CellsOf(bucket_for(o.size), o.addr)
           /\ \A a \in o.addr..(o.addr + o.size - 1) :
                a \in CellsOf(bucket_for(o.size), o.addr) /\ a \in RegionOf(o.thread) /\ a \in Addr
  <1> PICK b : b = bucket_for(o.size)
    OBVIOUS
  <1>1. o \in Block_owned /\ HasBucket(o.size) /\ o.addr \in Blocks(o.thread, b)
    BY DEF PoolInv, PoolTypeOK
  <1>2. o.thread \in Threads /\ o.size \in Nat
    BY <1>1, PoolAssumption DEF Block_owned
  <1>3. b \in Buckets /\ o.size <= block_size[b] /\ block_size[b] \in Nat
    BY <1>1, BucketFor, BucketsAre
  <1>4. /\ o.addr \in Nat /\ o.addr \in CellsOf(b, o.addr)
        /\ \A a \in CellsOf(b, o.addr) : a \in RegionOf(o.thread) /\ a \in Addr
    BY <1>1, <1>2, <1>3, BlockFacts
  <1>5. ASSUME NEW a \in o.addr..(o.addr + o.size - 1) PROVE a \in CellsOf(b, o.addr)
    BY <1>2, <1>3, <1>4 DEF CellsOf
  <1>6. QED
    BY <1>1, <1>2, <1>3, <1>4, <1>5

(* An address tells its owner. *)
LEMMA OwnersApart ==
    ASSUME PoolInv, NEW o \in owned, NEW t \in Threads, NEW b \in Buckets, NEW p \in Blocks(t, b),
           NEW a \in CellsOf(b, p), a \in CellsOf(bucket_for(o.size), o.addr)
    PROVE  o \in Held(t, b) /\ o.addr = p
  <1>1. t = o.thread /\ b = bucket_for(o.size) /\ p = o.addr
    BY OwnerFacts, BlocksApart
  <1>2. QED
    BY <1>1 DEF Held

(* A list whose blocks and links are left alone. *)
LEMMA ChainKept ==
    ASSUME NEW t \in Threads, NEW b \in Buckets, HasChain(t, b),
           free_list'[t][b] = free_list[t][b], Free(t, b)' = Free(t, b),
           \A p \in Free(t, b) : mem'[p] = mem[p]
    PROVE  HasChain(t, b)'
  <1>1. PICK m \in 0..capacity[b] : \E d \in [1..m -> Free(t, b)] : IsChain(t, b, m, d)
    BY DEF HasChain
  <1>2. PICK d \in [1..m -> Free(t, b)] : IsChain(t, b, m, d)
    BY <1>1
  <1>3. \A i \in 1..m : mem'[d[i]] = mem[d[i]]
    BY <1>2
  <1>4. IsChain(t, b, m, d)'
    BY <1>2, <1>3 DEF IsChain
  <1>5. QED
    BY <1>4 DEF HasChain

(* What the state says of one list. *)
ListInv(t, b) ==
    /\ pool_phase[t] \in {"none", "mapped"} => free_list[t][b] = null /\ in_use[t][b] = 0
    /\ pool_phase[t] = "warm" => HasChain(t, b) /\ in_use[t][b] = Cardinality(Held(t, b))
OwnerInv(o) ==
    /\ HasBucket(o.size) /\ o.addr \in Blocks(o.thread, bucket_for(o.size))
    /\ pool_phase[o.thread] = "warm"
    /\ o.written => DataIntact(o)

LEMMA PoolInvIs ==
    /\ PoolInv <=> /\ PoolTypeOK
                   /\ \A o \in owned : OwnerInv(o)
                   /\ \A o, p \in owned : o.addr = p.addr => o = p
                   /\ \A t \in Threads, b \in Buckets : ListInv(t, b)
    /\ PoolInv' <=> /\ PoolTypeOK'
                    /\ \A o \in owned' : OwnerInv(o)'
                    /\ \A o, p \in owned' : o.addr = p.addr => o = p
                    /\ \A t \in Threads, b \in Buckets : ListInv(t, b)'
  BY DEF PoolInv, OwnerInv, ListInv

LEMMA ListKept ==
    ASSUME NEW t \in Threads, NEW b \in Buckets, ListInv(t, b),
           pool_phase'[t] = pool_phase[t],
           free_list'[t][b] = free_list[t][b], in_use'[t][b] = in_use[t][b],
           Held(t, b)' = Held(t, b), \A p \in Free(t, b) : mem'[p] = mem[p]
    PROVE  ListInv(t, b)'
  <1>1. Free(t, b)' = Free(t, b)
    BY DEF Free
  <1>2. QED
    BY <1>1, ChainKept DEF ListInv

(* A block on a list is nobody's. *)
LEMMA FreeIsFree ==
    ASSUME PoolInv, NEW t \in Threads, NEW b \in Buckets, NEW p \in Free(t, b), NEW o \in owned
    PROVE  /\ p \in Blocks(t, b) /\ p # o.addr
           /\ \A a \in CellsOf(bucket_for(o.size), o.addr) : a # p
  <1>1. p \in Blocks(t, b) /\ ~(o \in Held(t, b) /\ o.addr = p)
    BY DEF Free
  <1>2. p \in CellsOf(b, p)
    BY <1>1, BlockFacts
  <1>3. \A a \in CellsOf(bucket_for(o.size), o.addr) : a # p
    BY <1>1, <1>2, OwnersApart
  <1>4. o.addr \in CellsOf(bucket_for(o.size), o.addr)
    BY OwnerFacts
  <1>5. QED
    BY <1>1, <1>3, <1>4

LEMMA InitPoolInv == PoolInit => PoolInv
  <1> SUFFICES ASSUME PoolInit PROVE PoolInv
    OBVIOUS
  <1>1. owned = {} /\ IsFiniteSet({})
    BY FS_EmptySet DEF PoolInit
  <1>2. PoolTypeOK
    BY <1>1 DEF PoolInit, PoolTypeOK, null
  <1>3. \A t \in Threads, b \in Buckets : ListInv(t, b)
    BY DEF PoolInit, ListInv
  <1>4. QED
    BY <1>1, <1>2, <1>3, PoolInvIs

(* An owner whose cells and phase are left alone. *)
LEMMA OwnerKept ==
    ASSUME NEW o, OwnerInv(o), pool_phase'[o.thread] = pool_phase[o.thread],
           \A a \in o.addr..(o.addr + o.size - 1) : mem'[a] = mem[a]
    PROVE  OwnerInv(o)'
  BY DEF OwnerInv, DataIntact

LEMMA InstanceKeepsPool ==
    ASSUME PoolInv, NEW t \in Threads, instance(t)
    PROVE  PoolInv'
  <1>1. /\ pool_phase[t] = "none" /\ pool_phase' = [pool_phase EXCEPT ![t] = "mapped"]
        /\ UNCHANGED <<mem, free_list, in_use, owned, trap>>
    BY DEF instance
  <1>2. PoolTypeOK'
    BY <1>1 DEF PoolInv, PoolTypeOK
  <1>3. pool_phase \in [Threads -> {"none", "mapped", "warm", "gone"}]
    BY DEF PoolInv, PoolTypeOK
  <1>4. ASSUME NEW o \in owned' PROVE OwnerInv(o)'
    <2>1. o \in owned /\ OwnerInv(o) /\ pool_phase[o.thread] = "warm" /\ o.thread # t
      BY <1>1, <1>4, PoolInvIs DEF OwnerInv
    <2>2. pool_phase'[o.thread] = pool_phase[o.thread]
      BY <1>1, <1>3, <2>1
    <2>3. QED
      BY <1>1, <2>1, <2>2, OwnerKept
  <1>5. ASSUME NEW u \in Threads, NEW b \in Buckets PROVE ListInv(u, b)'
    <2>1. CASE u = t
      <3>1. pool_phase'[t] = "mapped"
        BY <1>1, <1>3
      <3>2. free_list[t][b] = null /\ in_use[t][b] = 0
        BY <1>1, PoolInvIs DEF ListInv
      <3>3. QED
        BY <1>1, <2>1, <3>1, <3>2 DEF ListInv
    <2>2. CASE u # t
      <3>1. pool_phase'[u] = pool_phase[u]
        BY <1>1, <1>3, <2>2
      <3>2. Held(u, b)' = Held(u, b)
        BY <1>1 DEF Held
      <3>3. QED
        BY <1>1, <3>1, <3>2, ListKept, PoolInvIs
    <2>3. QED
      BY <2>1, <2>2
  <1>6. QED
    BY <1>1, <1>2, <1>4, <1>5, PoolInvIs

LEMMA ExitKeepsPool ==
    ASSUME PoolInv, NEW t \in Threads, thread_exit(t)
    PROVE  PoolInv'
  <1>1. /\ pool_phase' = [pool_phase EXCEPT ![t] = "gone"]
        /\ owned' = {o \in owned : o.thread # t}
        /\ UNCHANGED <<mem, free_list, in_use, trap>>
    BY DEF thread_exit
  <1>2. PoolTypeOK'
    <2>1. IsFiniteSet(owned')
      BY <1>1, FS_Subset DEF PoolInv, PoolTypeOK
    <2>2. QED
      BY <1>1, <2>1 DEF PoolInv, PoolTypeOK
  <1>3. pool_phase \in [Threads -> {"none", "mapped", "warm", "gone"}]
    BY DEF PoolInv, PoolTypeOK
  <1>4. ASSUME NEW o \in owned' PROVE OwnerInv(o)'
    <2>1. o \in owned /\ OwnerInv(o) /\ o.thread # t
      BY <1>1, <1>4, PoolInvIs
    <2>2. o.thread \in Threads
      BY <2>1, OwnerFacts
    <2>3. pool_phase'[o.thread] = pool_phase[o.thread]
      BY <1>1, <1>3, <2>1, <2>2
    <2>4. QED
      BY <1>1, <2>1, <2>3, OwnerKept
  <1>5. ASSUME NEW u \in Threads, NEW b \in Buckets PROVE ListInv(u, b)'
    <2>1. CASE u = t
      <3>1. pool_phase'[t] = "gone"
        BY <1>1, <1>3
      <3>2. QED
        BY <2>1, <3>1 DEF ListInv
    <2>2. CASE u # t
      <3>1. pool_phase'[u] = pool_phase[u]
        BY <1>1, <1>3, <2>2
      <3>2. Held(u, b)' = Held(u, b)
        BY <1>1, <2>2 DEF Held
      <3>3. QED
        BY <1>1, <3>1, <3>2, ListKept, PoolInvIs
    <2>3. QED
      BY <2>1, <2>2
  <1>6. QED
    BY <1>1, <1>2, <1>4, <1>5, PoolInvIs

(* Warming up: every block of the thread is on its list. *)
LEMMA PrewarmKeepsPool ==
    ASSUME PoolInv, NEW t \in Threads, prewarm(t)
    PROVE  PoolInv'
  <1>1. /\ pool_phase[t] = "mapped" /\ pool_phase' = [pool_phase EXCEPT ![t] = "warm"]
        /\ free_list' = [free_list EXCEPT ![t] = [b \in Buckets |-> Block(t, b, 1)]]
        /\ UNCHANGED <<in_use, owned, trap>>
    BY DEF prewarm, PushBlocks
  <1>2. /\ pool_phase \in [Threads -> {"none", "mapped", "warm", "gone"}]
        /\ free_list \in [Threads -> [Buckets -> Addr \cup {null}]]
        /\ mem \in [Addr -> Int] /\ owned \subseteq Block_owned
    BY DEF PoolInv, PoolTypeOK
  <1>3. \A b \in Buckets : \A i \in 1..capacity[b] :
          /\ Block(t, b, i) \in Blocks(t, b) /\ Block(t, b, i) \in Nat /\ Block(t, b, i) \in Addr
    BY BlockFacts DEF Blocks
  <1>4. ASSUME NEW b \in Buckets, NEW c \in Buckets, NEW i \in 1..capacity[b], NEW j \in 1..capacity[c],
               Block(t, b, i) = Block(t, c, j)
        PROVE  b = c /\ i = j
    <2>1. /\ Block(t, b, i) \in CellsOf(b, Block(t, b, i))
          /\ Block(t, b, i) \in CellsOf(c, Block(t, c, j))
      BY <1>3, <1>4, BlockFacts
    <2>2. b = c
      BY <1>3, <2>1, BlocksApart
    <2>3. Block(t, b, i) \in BlockCells(t, b, i) \cap BlockCells(t, b, j)
      BY <1>4, <2>1, <2>2 DEF BlockCells, CellsOf
    <2>4. QED
      BY <2>2, <2>3, CellsInBucket
  <1> DEFINE Pushed(a) ==
                LET b == CHOOSE b \in Buckets : a \in Blocks(t, b)
                    idx == CHOOSE i \in 1..capacity[b] : Block(t, b, i) = a
                IN  LinkOf(t, b, idx)
  <1>5. mem' = [a \in Addr |-> IF \E b \in Buckets : a \in Blocks(t, b) THEN Pushed(a) ELSE mem[a]]
    BY DEF prewarm, PushBlocks
  <1>6. ASSUME NEW b \in Buckets, NEW i \in 1..capacity[b]
        PROVE  mem'[Block(t, b, i)] = LinkOf(t, b, i)
    <2> DEFINE a == Block(t, b, i)
    <2>1. a \in Addr /\ a \in Blocks(t, b)
      BY <1>3
    <2>2. \A c \in Buckets : a \in Blocks(t, c) => c = b
      BY <1>4 DEF Blocks
    <2>3. (CHOOSE c \in Buckets : a \in Blocks(t, c)) = b
      BY <2>1, <2>2
    <2>4. \A j \in 1..capacity[b] : Block(t, b, j) = a => j = i
      BY <1>4
    <2>5. (CHOOSE j \in 1..capacity[b] : Block(t, b, j) = a) = i
      BY <2>4
    <2>6. Pushed(a) = LinkOf(t, b, i)
      BY <2>3, <2>5
    <2> HIDE DEF a, Pushed
    <2>7. mem'[a] = Pushed(a)
      BY <1>5, <2>1
    <2>8. QED
      BY <2>6, <2>7 DEF a
  <1>7. \A a \in Addr : (\A b \in Buckets : a \notin Blocks(t, b)) => mem'[a] = mem[a]
    <2> HIDE DEF Pushed
    <2>1. QED
      BY <1>5
  <1>8. \A b \in Buckets : \A i \in 1..capacity[b] :
          LinkOf(t, b, i) = IF i = capacity[b] THEN null ELSE Block(t, b, i + 1)
    <2>1. \A b \in Buckets : free_list[t][b] = null
      BY <1>1, PoolInvIs DEF ListInv
    <2>2. QED
      BY <2>1, BucketsAre DEF LinkOf
  <1>9. \A o \in owned : o.thread # t
    BY <1>1, PoolInvIs DEF OwnerInv
  <1>10. PoolTypeOK'
    <2>1. free_list' \in [Threads -> [Buckets -> Addr \cup {null}]]
      <3>1. \A b \in Buckets : Block(t, b, 1) \in Addr
        BY <1>3, BucketsAre
      <3>2. QED
        BY <1>1, <1>2, <3>1
    <2>2. mem' \in [Addr -> Int]
      <3>1. ASSUME NEW a \in Addr PROVE mem'[a] \in Int
        <4>1. CASE \A b \in Buckets : a \notin Blocks(t, b)
          BY <1>2, <1>7, <4>1
        <4>2. CASE ~(\A b \in Buckets : a \notin Blocks(t, b))
          <5> PICK b \in Buckets : a \in Blocks(t, b)
            BY <4>2
          <5>1. PICK i \in 1..capacity[b] : a = Block(t, b, i)
            BY DEF Blocks
          <5>2. mem'[a] = IF i = capacity[b] THEN null ELSE Block(t, b, i + 1)
            BY <1>6, <1>8, <5>1
          <5>3. i = capacity[b] \/ i + 1 \in 1..capacity[b]
            BY BucketsAre
          <5>4. null \in Int
            BY DEF null
          <5>5. QED
            BY <1>3, <5>2, <5>3, <5>4
        <4>3. QED
          BY <4>1, <4>2
      <3>2. \E g : mem' = [a \in Addr |-> g[a]]
        <4> HIDE DEF Pushed
        <4> DEFINE g == [a \in Addr |-> IF \E b \in Buckets : a \in Blocks(t, b) THEN Pushed(a) ELSE mem[a]]
        <4>1. mem' = [a \in Addr |-> g[a]]
          BY <1>5
        <4>2. QED
          BY <4>1
      <3>3. QED
        BY <3>1, <3>2
    <2>3. QED
      BY <1>1, <2>1, <2>2 DEF PoolInv, PoolTypeOK
  <1>11. ASSUME NEW u \in Threads, u # t, NEW b \in Buckets, NEW p \in Blocks(u, b), NEW a \in CellsOf(b, p)
         PROVE  mem'[a] = mem[a]
    <2>1. a \in Addr /\ a \in Nat /\ InBucket(u, a, b)
      BY BlockFacts
    <2>2. \A c \in Buckets : a \notin Blocks(t, c)
      <3>1. ASSUME NEW c \in Buckets, a \in Blocks(t, c) PROVE FALSE
        <4>1. InBucket(t, a, c)
          BY <3>1, BlockFacts
        <4>2. QED
          BY <1>11, <2>1, <4>1, BucketsApart
      <3>2. QED
        BY <3>1
    <2>3. QED
      BY <1>7, <2>1, <2>2
  <1>12. ASSUME NEW o \in owned' PROVE OwnerInv(o)'
    <2>1. o \in owned /\ OwnerInv(o) /\ o.thread # t
      BY <1>1, <1>9, <1>12, PoolInvIs
    <2>2. /\ o.thread \in Threads /\ bucket_for(o.size) \in Buckets
          /\ o.addr \in Blocks(o.thread, bucket_for(o.size))
          /\ \A a \in o.addr..(o.addr + o.size - 1) : a \in CellsOf(bucket_for(o.size), o.addr)
      BY <2>1, OwnerFacts
    <2>3. pool_phase'[o.thread] = pool_phase[o.thread]
      BY <1>1, <1>2, <2>1, <2>2
    <2>4. \A a \in o.addr..(o.addr + o.size - 1) : mem'[a] = mem[a]
      BY <1>11, <2>1, <2>2
    <2>5. QED
      BY <2>1, <2>3, <2>4, OwnerKept
  <1>13. ASSUME NEW u \in Threads, NEW b \in Buckets PROVE ListInv(u, b)'
    <2>1. CASE u = t
      <3>1. Held(t, b)' = {} /\ Held(t, b) = {}
        BY <1>1, <1>9 DEF Held
      <3>2. Free(t, b)' = Blocks(t, b)
        BY <3>1 DEF Free
      <3>3. in_use'[t][b] = 0 /\ Cardinality({}) = 0
        BY <1>1, FS_EmptySet, PoolInvIs DEF ListInv
      <3> DEFINE m == capacity[b]
                 d == [i \in 1..m |-> Block(t, b, i)]
      <3>4. m \in Nat \ {0} /\ m \in 0..capacity[b]
        BY BucketsAre
      <3>5. d \in [1..m -> Blocks(t, b)]
        BY <1>3
      <3>6. \A a \in Blocks(t, b) : \E i \in 1..m : d[i] = a
        BY DEF Blocks
      <3>7. \A i, j \in 1..m : d[i] = d[j] => i = j
        BY <1>4
      <3>8. free_list'[t][b] = d[1]
        <4>1. free_list'[t][b] = Block(t, b, 1)
          BY <1>1, <1>2
        <4>2. 1 \in 1..m
          BY <3>4
        <4>3. QED
          BY <4>1, <4>2
      <3>9. \A i \in 1..m : mem'[d[i]] = IF i = m THEN null ELSE d[i + 1]
        <4>1. \A i \in 1..m : mem'[d[i]] = IF i = m THEN null ELSE Block(t, b, i + 1)
          BY <1>6, <1>8
        <4>2. \A i \in 1..m : i # m => i + 1 \in 1..m
          BY <3>4
        <4>3. QED
          BY <4>1, <4>2
      <3> HIDE DEF d
      <3>10. IsChain(t, b, m, d)'
        BY <3>2, <3>4, <3>6, <3>7, <3>8, <3>9 DEF IsChain
      <3>11. HasChain(t, b)'
        BY <3>2, <3>4, <3>5, <3>10 DEF HasChain
      <3>12. pool_phase'[t] = "warm"
        BY <1>1, <1>2
      <3>13. QED
        BY <2>1, <3>1, <3>3, <3>11, <3>12 DEF ListInv
    <2>2. CASE u # t
      <3>1. pool_phase'[u] = pool_phase[u] /\ free_list'[u][b] = free_list[u][b]
        BY <1>1, <1>2, <2>2
      <3>2. Held(u, b)' = Held(u, b)
        BY <1>1 DEF Held
      <3>3. \A p \in Free(u, b) : mem'[p] = mem[p]
        <4>1. \A p \in Free(u, b) : p \in Blocks(u, b) /\ p \in CellsOf(b, p)
          BY BlockFacts DEF Free
        <4>2. QED
          BY <1>11, <2>2, <4>1
      <3>4. ListInv(u, b) /\ in_use'[u][b] = in_use[u][b]
        BY <1>1, PoolInvIs
      <3>5. QED
        BY <3>1, <3>2, <3>3, <3>4, ListKept
    <2>3. QED
      BY <2>1, <2>2
  <1>14. QED
    BY <1>1, <1>10, <1>12, <1>13, PoolInvIs

(* An owner writes its own cells only, which hold no link. *)
LEMMA WriteKeepsPool ==
    ASSUME PoolInv, NEW o \in owned, owner_writes(o)
    PROVE  PoolInv'
  <1> DEFINE mine == o.addr..(o.addr + o.size - 1)
             w == [o EXCEPT !.written = TRUE]
  <1>1. /\ mem' = [a \in Addr |-> IF a \in mine THEN Data(o.addr) ELSE mem[a]]
        /\ owned' = (owned \ {o}) \cup {w} /\ ~o.written
        /\ UNCHANGED <<pool_phase, free_list, in_use, trap>>
    BY DEF owner_writes
  <1>2. /\ mem \in [Addr -> Int] /\ owned \subseteq Block_owned /\ IsFiniteSet(owned)
    BY DEF PoolInv, PoolTypeOK
  <1>3. /\ w \in Block_owned /\ w.thread = o.thread /\ w.addr = o.addr /\ w.size = o.size /\ w.written
    BY <1>2 DEF Block_owned
  <1> HIDE DEF w
  <1>4. w \notin owned
    BY <1>1, <1>3, PoolInvIs
  <1>5. \A a \in mine : a \in CellsOf(bucket_for(o.size), o.addr) /\ a \in RegionOf(o.thread) /\ a \in Addr
    BY OwnerFacts
  <1>6. PoolTypeOK'
    <2>1. IsFiniteSet(owned')
      BY <1>1, <1>2, FS_RemoveElement, FS_AddElement
    <2>2. Data(o.addr) \in Int
      BY OwnerFacts DEF Data
    <2>3. mem' \in [Addr -> Int]
      BY <1>1, <1>2, <2>2
    <2>4. owned' \subseteq Block_owned
      BY <1>1, <1>2, <1>3
    <2>5. QED
      BY <1>1, <2>1, <2>3, <2>4 DEF PoolInv, PoolTypeOK
  <1>7. ASSUME NEW p \in owned, p # o PROVE OwnerInv(p)'
    <2>1. \A a \in p.addr..(p.addr + p.size - 1) : a \in Addr /\ a \notin mine
      <3>1. ASSUME NEW a \in p.addr..(p.addr + p.size - 1), a \in mine PROVE FALSE
        <4>1. a \in CellsOf(bucket_for(p.size), p.addr) /\ a \in CellsOf(bucket_for(o.size), o.addr)
          BY <1>5, <3>1, OwnerFacts
        <4>2. o.addr = p.addr
          BY <4>1, OwnerFacts, OwnersApart
        <4>3. QED
          BY <1>7, <4>2, PoolInvIs
      <3>2. QED
        BY <3>1, OwnerFacts
    <2>2. \A a \in p.addr..(p.addr + p.size - 1) : mem'[a] = mem[a]
      BY <1>1, <2>1
    <2>3. QED
      BY <1>1, <2>2, OwnerKept, PoolInvIs
  <1>8. OwnerInv(w)'
    <2>1. OwnerInv(o)
      BY PoolInvIs
    <2>2. \A a \in mine : mem'[a] = Data(o.addr)
      BY <1>1, <1>5
    <2>3. DataIntact(w)'
      BY <1>3, <1>5, <2>2 DEF DataIntact
    <2>4. QED
      BY <1>1, <1>3, <2>1, <2>3 DEF OwnerInv
  <1>9. \A p, q \in owned' : p.addr = q.addr => p = q
    <2>1. \A p \in owned : p # o => p.addr # o.addr
      BY PoolInvIs
    <2>2. \A p, q \in owned : p.addr = q.addr => p = q
      BY PoolInvIs
    <2>3. QED
      BY <1>1, <1>3, <2>1, <2>2
  <1>10. ASSUME NEW t \in Threads, NEW b \in Buckets PROVE ListInv(t, b)'
    <2>1. /\ {p.addr : p \in Held(t, b)'} = {p.addr : p \in Held(t, b)}
          /\ Cardinality(Held(t, b)') = Cardinality(Held(t, b))
      <3>1. CASE o \notin Held(t, b)
        <4>1. Held(t, b)' = Held(t, b)
          BY <1>1, <1>3, <3>1 DEF Held
        <4>2. QED
          BY <4>1
      <3>2. CASE o \in Held(t, b)
        <4>1. Held(t, b)' = (Held(t, b) \ {o}) \cup {w} /\ w \notin Held(t, b) \ {o}
          BY <1>1, <1>3, <1>4, <3>2 DEF Held
        <4>2. IsFiniteSet(Held(t, b)) /\ Cardinality(Held(t, b)) \in Nat
          BY <1>2, FS_Subset, FS_CardinalityType DEF Held
        <4>3. /\ IsFiniteSet(Held(t, b) \ {o})
              /\ Cardinality(Held(t, b) \ {o}) = Cardinality(Held(t, b)) - 1
          BY <3>2, <4>2, FS_RemoveElement
        <4>4. Cardinality((Held(t, b) \ {o}) \cup {w}) = Cardinality(Held(t, b) \ {o}) + 1
          BY <4>1, <4>3, FS_AddElement
        <4>5. Cardinality(Held(t, b)') = Cardinality(Held(t, b))
          BY <4>1, <4>2, <4>3, <4>4
        <4>6. {p.addr : p \in Held(t, b)'} = {p.addr : p \in Held(t, b)}
          BY <1>3, <3>2, <4>1
        <4>7. QED
          BY <4>5, <4>6
      <3>3. QED
        BY <3>1, <3>2
    <2>2. Free(t, b)' = Free(t, b)
      BY <2>1 DEF Free
    <2>3. \A p \in Free(t, b) : mem'[p] = mem[p]
      <3>1. ASSUME NEW p \in Free(t, b) PROVE p \in Addr /\ p \notin mine
        BY <1>5, FreeIsFree, BlockFacts
      <3>2. QED
        BY <1>1, <3>1
    <2>4. ListInv(t, b)
      BY PoolInvIs
    <2>5. QED
      BY <1>1, <2>1, <2>2, <2>3, <2>4, ChainKept DEF ListInv
  <1>11. \A p \in owned' : OwnerInv(p)'
    BY <1>1, <1>7, <1>8
  <1>12. QED
    BY <1>6, <1>9, <1>10, <1>11, PoolInvIs

(* acquire takes the block at the front. *)
LEMMA PopKeepsPool ==
    ASSUME PoolInv, NEW t \in Threads, NEW size \in 1..MaxSize,
           Refusal(t, size) = "none", Pop(t, size)
    PROVE  PoolInv'
  <1>1. HasBucket(size) /\ pool_phase[t] = "warm" /\ free_list[t][bucket_for(size)] # null
    BY DEF Refusal
  <1> PICK c, link : c = bucket_for(size) /\ link = free_list[t][c]
    OBVIOUS
  <1> PICK o : o = [thread |-> t, addr |-> link, size |-> size, written |-> FALSE]
    OBVIOUS
  <1>2. /\ free_list' = [free_list EXCEPT ![t][c] = mem[link]]
        /\ in_use' = [in_use EXCEPT ![t][c] = in_use[t][c] + 1]
        /\ owned' = owned \cup {o}
        /\ UNCHANGED <<mem, pool_phase, trap>>
    BY DEF Pop
  <1>3. c \in Buckets
    BY <1>1, BucketFor
  <1>4. /\ mem \in [Addr -> Int] /\ owned \subseteq Block_owned /\ IsFiniteSet(owned)
        /\ free_list \in [Threads -> [Buckets -> Addr \cup {null}]]
        /\ in_use \in [Threads -> [Buckets -> Nat]]
    BY DEF PoolInv, PoolTypeOK
  <1>5. HasChain(t, c) /\ in_use[t][c] = Cardinality(Held(t, c))
    BY <1>1, <1>3, PoolInvIs DEF ListInv
  <1>6. PICK m \in 0..capacity[c] : \E d \in [1..m -> Free(t, c)] : IsChain(t, c, m, d)
    BY <1>5 DEF HasChain
  <1>7. PICK d \in [1..m -> Free(t, c)] : IsChain(t, c, m, d)
    BY <1>6
  <1>8. m # 0 /\ m \in Nat /\ 1 \in 1..m /\ link = d[1]
    <2>1. m # 0 /\ link = d[1]
      BY <1>1, <1>7 DEF IsChain
    <2>2. QED
      BY <2>1, BucketsAre, <1>3
  <1>9. link \in Free(t, c) /\ link \in Blocks(t, c) /\ link \in Addr
    BY <1>3, <1>8, BlockFacts DEF Free
  <1>10. mem[link] = IF m = 1 THEN null ELSE d[2]
    BY <1>7, <1>8 DEF IsChain
  <1>11. mem[link] \in Addr \cup {null}
    <2>1. CASE m = 1
      BY <1>10, <2>1
    <2>2. CASE m # 1
      <3>1. 2 \in 1..m
        BY <1>8, <2>2
      <3>2. d[2] \in Free(t, c)
        BY <3>1
      <3>3. QED
        BY <1>3, <1>10, <2>2, <3>2, BlockFacts DEF Free
    <2>3. QED
      BY <2>1, <2>2
  <1>12. o \in Block_owned /\ o.thread = t /\ o.addr = link /\ o.size = size /\ ~o.written
    BY <1>9 DEF Block_owned
  <1>13. \A p \in owned : p.addr # link
    BY <1>3, <1>9, FreeIsFree
  <1>14. PoolTypeOK'
    <2>1. IsFiniteSet(owned') /\ owned' \subseteq Block_owned
      BY <1>2, <1>4, <1>12, FS_AddElement
    <2>2. free_list' \in [Threads -> [Buckets -> Addr \cup {null}]]
      BY <1>2, <1>3, <1>4, <1>11
    <2>3. in_use' \in [Threads -> [Buckets -> Nat]]
      BY <1>2, <1>3, <1>4
    <2>4. QED
      BY <1>2, <2>1, <2>2, <2>3 DEF PoolInv, PoolTypeOK
  <1>15. ASSUME NEW p \in owned' PROVE OwnerInv(p)'
    <2>1. CASE p = o
      BY <1>1, <1>2, <1>9, <1>12, <2>1 DEF OwnerInv
    <2>2. CASE p # o
      BY <1>2, <1>15, <2>2, OwnerKept, PoolInvIs
    <2>3. QED
      BY <2>1, <2>2
  <1>16. \A p, q \in owned' : p.addr = q.addr => p = q
    <2>1. \A p, q \in owned : p.addr = q.addr => p = q
      BY PoolInvIs
    <2>2. ASSUME NEW p \in owned', NEW q \in owned', p.addr = q.addr PROVE p = q
      <3>1. (p \in owned \/ p = o) /\ (q \in owned \/ q = o)
        BY <1>2, <2>2
      <3>2. CASE p \in owned /\ q \in owned
        BY <2>1, <2>2, <3>2
      <3>3. CASE p = o /\ q \in owned
        BY <1>12, <1>13, <2>2, <3>3
      <3>4. CASE p \in owned /\ q = o
        BY <1>12, <1>13, <2>2, <3>4
      <3>5. QED
        BY <3>1, <3>2, <3>3, <3>4
    <2>3. QED
      BY <2>2
  <1>17. ASSUME NEW u \in Threads, NEW b \in Buckets PROVE ListInv(u, b)'
    <2>1. CASE ~(u = t /\ b = c)
      <3>1. free_list'[u][b] = free_list[u][b] /\ in_use'[u][b] = in_use[u][b]
        BY <1>2, <1>3, <1>4, <2>1
      <3>2. Held(u, b)' = Held(u, b)
        BY <1>2, <1>12, <2>1 DEF Held
      <3>3. QED
        BY <1>2, <3>1, <3>2, ListKept, PoolInvIs
    <2>2. CASE u = t /\ b = c
      <3>1. Held(t, c)' = Held(t, c) \cup {o} /\ o \notin Held(t, c)
        BY <1>2, <1>12, <1>13 DEF Held
      <3>2. IsFiniteSet(Held(t, c)) /\ Cardinality(Held(t, c)) \in Nat
        BY <1>4, FS_Subset, FS_CardinalityType DEF Held
      <3>3. Cardinality(Held(t, c)') = Cardinality(Held(t, c)) + 1
        BY <3>1, <3>2, FS_AddElement
      <3>4. in_use'[t][c] = in_use[t][c] + 1 /\ free_list'[t][c] = mem[link]
        BY <1>2, <1>3, <1>4
      <3>5. in_use'[t][c] = Cardinality(Held(t, c)')
        BY <1>5, <3>3, <3>4
      <3>6. Free(t, c)' = Free(t, c) \ {link}
        <4>1. {p.addr : p \in Held(t, c) \cup {o}} = {p.addr : p \in Held(t, c)} \cup {link}
          BY <1>12
        <4>2. QED
          BY <3>1, <4>1 DEF Free
      <3> DEFINE n == m - 1
                 e == [i \in 1..n |-> d[i + 1]]
      <3>7. n \in 0..capacity[c] /\ n \in Nat
        BY <1>3, <1>8, BucketsAre
      <3>8. \A i \in 1..n : i + 1 \in 1..m /\ i + 1 # 1
        BY <1>8
      <3>9. \A i, j \in 1..m : d[i] = d[j] => i = j
        BY <1>7 DEF IsChain
      <3>10. e \in [1..n -> Free(t, c) \ {link}]
        <4>1. \A i \in 1..n : d[i + 1] # d[1]
          BY <1>8, <3>8, <3>9
        <4>2. QED
          BY <1>8, <3>8, <4>1
      <3>11. \A a \in Free(t, c) \ {link} : \E i \in 1..n : e[i] = a
        <4>1. ASSUME NEW a \in Free(t, c) \ {link} PROVE \E i \in 1..n : e[i] = a
          <5>1. PICK i \in 1..m : d[i] = a
            BY <1>7 DEF IsChain
          <5>2. i - 1 \in 1..n /\ (i - 1) + 1 = i
            BY <1>8, <5>1
          <5>3. QED
            BY <5>1, <5>2
        <4>2. QED
          BY <4>1
      <3>12. \A i, j \in 1..n : e[i] = e[j] => i = j
        BY <3>8, <3>9
      <3>13. mem[link] = IF n = 0 THEN null ELSE e[1]
        BY <1>8, <1>10
      <3>14. \A i \in 1..n : mem[e[i]] = IF i = n THEN null ELSE e[i + 1]
        <4>1. \A i \in 1..n : mem[d[i + 1]] = IF i + 1 = m THEN null ELSE d[(i + 1) + 1]
          BY <1>7, <3>8 DEF IsChain
        <4>2. \A i \in 1..n : (i + 1 = m <=> i = n) /\ (i # n => i + 1 \in 1..n)
          BY <1>8
        <4>3. QED
          BY <4>1, <4>2
      <3> HIDE DEF n, e
      <3>15. IsChain(t, c, n, e)'
        BY <1>2, <3>4, <3>6, <3>11, <3>12, <3>13, <3>14 DEF IsChain
      <3>16. HasChain(t, c)'
        BY <3>6, <3>7, <3>10, <3>15 DEF HasChain
      <3>17. QED
        BY <1>1, <1>2, <2>2, <3>5, <3>16 DEF ListInv
    <2>3. QED
      BY <2>1, <2>2
  <1>18. QED
    BY <1>14, <1>15, <1>16, <1>17, PoolInvIs

(* release: the checks let a block back into the list it came from only.   *)
LEMMA ReturnKeepsPool ==
    ASSUME PoolInv, NEW t \in Threads, NEW o \in owned, NEW c \in Buckets,
           pool_phase[t] \in {"mapped", "warm"},
           InBucket(t, o.addr, c), ReturnBlock(t, o, c)
    PROVE  PoolInv'
  <1> PICK p, head : p = o.addr /\ head = free_list[t][c]
    OBVIOUS
  <1>1. /\ mem' = [mem EXCEPT ![p] = head]
        /\ free_list' = [free_list EXCEPT ![t][c] = p]
        /\ in_use' = [in_use EXCEPT ![t][c] = in_use[t][c] - 1]
        /\ owned' = owned \ {o}
        /\ UNCHANGED <<pool_phase, trap>>
    BY DEF ReturnBlock
  <1>2. /\ mem \in [Addr -> Int] /\ owned \subseteq Block_owned /\ IsFiniteSet(owned)
        /\ free_list \in [Threads -> [Buckets -> Addr \cup {null}]]
        /\ in_use \in [Threads -> [Buckets -> Nat]]
    BY DEF PoolInv, PoolTypeOK
  <1>3. t = o.thread /\ c = bucket_for(o.size) /\ p \in Blocks(t, c) /\ o \in Held(t, c)
    <2>1. /\ o.thread \in Threads /\ bucket_for(o.size) \in Buckets /\ o.addr \in Nat
          /\ o.addr \in Blocks(o.thread, bucket_for(o.size))
      BY OwnerFacts
    <2>2. InBucket(o.thread, o.addr, bucket_for(o.size))
      BY <2>1, BlockFacts
    <2>3. t = o.thread /\ c = bucket_for(o.size)
      BY <2>1, <2>2, BucketsApart
    <2>4. QED
      BY <2>1, <2>3 DEF Held
  <1>4. pool_phase[t] = "warm"
    BY <1>3, PoolInvIs DEF OwnerInv
  <1>5. HasChain(t, c) /\ in_use[t][c] = Cardinality(Held(t, c))
    BY <1>4, PoolInvIs DEF ListInv
  <1>6. p \in Addr /\ p \in Nat /\ p \in CellsOf(c, p)
    BY <1>3, BlockFacts
  <1>7. head \in Addr \cup {null} /\ head \in Int
    <2>1. head \in Addr \cup {null}
      BY <1>2
    <2>2. Addr \subseteq Int /\ null \in Int
      BY ThreadsAre DEF Addr, RegionOf, null
    <2>3. QED
      BY <2>1, <2>2
  <1>8. /\ IsFiniteSet(Held(t, c)) /\ Cardinality(Held(t, c)) \in Nat
        /\ Cardinality(Held(t, c) \ {o}) = Cardinality(Held(t, c)) - 1
        /\ Cardinality(Held(t, c) \ {o}) \in Nat
    <2>1. IsFiniteSet(Held(t, c))
      BY <1>2, FS_Subset DEF Held
    <2>2. QED
      BY <1>3, <2>1, Smaller
  <1>9. PoolTypeOK'
    <2>1. IsFiniteSet(owned') /\ owned' \subseteq Block_owned
      BY <1>1, <1>2, FS_RemoveElement
    <2>2. free_list' \in [Threads -> [Buckets -> Addr \cup {null}]]
      BY <1>1, <1>2, <1>6
    <2>3. in_use' \in [Threads -> [Buckets -> Nat]]
      BY <1>1, <1>2, <1>5, <1>8
    <2>4. mem' \in [Addr -> Int]
      BY <1>1, <1>2, <1>6, <1>7
    <2>5. QED
      BY <1>1, <2>1, <2>2, <2>3, <2>4 DEF PoolInv, PoolTypeOK
  <1>10. ASSUME NEW q \in owned' PROVE OwnerInv(q)'
    <2>1. q \in owned /\ q # o /\ q.addr # p
      BY <1>1, <1>10, PoolInvIs
    <2>2. \A a \in q.addr..(q.addr + q.size - 1) : a \in Addr /\ a # p
      <3>1. ASSUME NEW a \in q.addr..(q.addr + q.size - 1), a = p PROVE FALSE
        <4>1. p \in CellsOf(bucket_for(q.size), q.addr)
          BY <2>1, <3>1, OwnerFacts
        <4>2. q.addr = p
          BY <1>3, <1>6, <2>1, <4>1, OwnersApart
        <4>3. QED
          BY <2>1, <4>2
      <3>2. QED
        BY <2>1, <3>1, OwnerFacts
    <2>3. \A a \in q.addr..(q.addr + q.size - 1) : mem'[a] = mem[a]
      BY <1>1, <1>2, <2>2
    <2>4. QED
      BY <1>1, <2>1, <2>3, OwnerKept, PoolInvIs
  <1>11. \A q, r \in owned' : q.addr = r.addr => q = r
    BY <1>1, PoolInvIs
  <1>12. \A u \in Threads : \A b \in Buckets : \A q \in Free(u, b) : q # p /\ mem'[q] = mem[q]
    <2>1. ASSUME NEW u \in Threads, NEW b \in Buckets, NEW q \in Free(u, b)
          PROVE  q # p /\ mem'[q] = mem[q]
      <3>1. q # p /\ q \in Addr
        BY FreeIsFree, BlockFacts
      <3>2. QED
        BY <1>1, <1>2, <3>1
    <2>2. QED
      BY <2>1
  <1>13. ASSUME NEW u \in Threads, NEW b \in Buckets PROVE ListInv(u, b)'
    <2>1. CASE ~(u = t /\ b = c)
      <3>1. free_list'[u][b] = free_list[u][b] /\ in_use'[u][b] = in_use[u][b]
        BY <1>1, <1>2, <2>1
      <3>2. Held(u, b)' = Held(u, b)
        BY <1>1, <1>3, <2>1 DEF Held
      <3>3. QED
        BY <1>1, <1>12, <3>1, <3>2, ListKept, PoolInvIs
    <2>2. CASE u = t /\ b = c
      <3>1. Held(t, c)' = Held(t, c) \ {o}
        BY <1>1 DEF Held
      <3>2. in_use'[t][c] = in_use[t][c] - 1 /\ free_list'[t][c] = p /\ mem'[p] = head
        BY <1>1, <1>2, <1>6
      <3>3. in_use'[t][c] = Cardinality(Held(t, c)')
        BY <1>5, <1>8, <3>1, <3>2
      <3>4. Free(t, c)' = Free(t, c) \cup {p} /\ p \notin Free(t, c)
        <4>1. \A q \in Held(t, c) : q # o => q.addr # p
          BY PoolInvIs DEF Held
        <4>2. {q.addr : q \in Held(t, c) \ {o}} = {q.addr : q \in Held(t, c)} \ {p}
          BY <4>1
        <4>3. p \in {q.addr : q \in Held(t, c)}
          BY <1>3
        <4>4. QED
          BY <1>3, <3>1, <4>2, <4>3 DEF Free
      <3>5. PICK m \in 0..capacity[c] : \E d \in [1..m -> Free(t, c)] : IsChain(t, c, m, d)
        BY <1>5 DEF HasChain
      <3>6. PICK d \in [1..m -> Free(t, c)] : IsChain(t, c, m, d)
        BY <3>5
      <3>7. /\ \A a \in Free(t, c) : \E i \in 1..m : d[i] = a
            /\ \A i, j \in 1..m : d[i] = d[j] => i = j
            /\ head = IF m = 0 THEN null ELSE d[1]
            /\ \A i \in 1..m : mem[d[i]] = IF i = m THEN null ELSE d[i + 1]
        BY <3>6 DEF IsChain
      <3>8. m \in Nat /\ \A i \in 1..m : d[i] \in Free(t, c)
        BY <2>2, BucketsAre
      <3> DEFINE n == m + 1
                 e == [i \in 1..n |-> IF i = 1 THEN p ELSE d[i - 1]]
      <3>9. \A i \in 1..n : i # 1 => i - 1 \in 1..m /\ e[i] = d[i - 1] /\ (i - 1) + 1 = i
        BY <3>8
      <3>10. n \in Nat /\ 1 \in 1..n /\ e[1] = p
        BY <3>8
      <3>11. e \in [1..n -> Free(t, c) \cup {p}]
        BY <3>8, <3>9, <3>10
      <3>12. \A i, j \in 1..n : e[i] = e[j] => i = j
        <4>1. ASSUME NEW i \in 1..n, NEW j \in 1..n, e[i] = e[j] PROVE i = j
          <5>1. CASE i = 1 /\ j # 1
            BY <3>4, <3>8, <3>9, <3>10, <4>1, <5>1
          <5>2. CASE i # 1 /\ j = 1
            BY <3>4, <3>8, <3>9, <3>10, <4>1, <5>2
          <5>3. CASE i # 1 /\ j # 1
            <6>1. i - 1 = j - 1
              BY <3>7, <3>9, <4>1, <5>3
            <6>2. QED
              BY <3>8, <6>1
          <5>4. QED
            BY <5>1, <5>2, <5>3
        <4>2. QED
          BY <4>1
      <3>13. \A a \in Free(t, c) \cup {p} : \E i \in 1..n : e[i] = a
        <4>1. ASSUME NEW a \in Free(t, c) PROVE \E i \in 1..n : e[i] = a
          <5>1. PICK i \in 1..m : d[i] = a
            BY <3>7
          <5>2. i + 1 \in 1..n /\ i + 1 # 1 /\ (i + 1) - 1 = i
            BY <3>8
          <5>3. QED
            BY <5>1, <5>2
        <4>2. QED
          BY <3>10, <4>1
      <3>14. \A i \in 1..n : mem'[e[i]] = IF i = n THEN null ELSE e[i + 1]
        <4>1. ASSUME NEW i \in 1..n PROVE mem'[e[i]] = IF i = n THEN null ELSE e[i + 1]
          <5>1. CASE i = 1
            <6>1. mem'[e[1]] = head
              BY <3>2, <3>10
            <6>2. m # 0 => 2 \in 1..n /\ e[2] = d[1]
              BY <3>8
            <6>3. n = 1 <=> m = 0
              BY <3>8
            <6>4. QED
              BY <3>7, <5>1, <6>1, <6>2, <6>3
          <5>2. CASE i # 1
            <6>1. e[i] = d[i - 1] /\ i - 1 \in 1..m /\ d[i - 1] \in Free(t, c)
              BY <3>8, <3>9, <5>2
            <6>2. mem'[e[i]] = mem[d[i - 1]]
              BY <1>12, <2>2, <6>1
            <6>3. mem[d[i - 1]] = IF i - 1 = m THEN null ELSE d[(i - 1) + 1]
              BY <3>7, <6>1
            <6>4. (i - 1 = m <=> i = n) /\ (i - 1) + 1 = i
              BY <3>8
            <6>5. i # n => i + 1 \in 1..n /\ i + 1 # 1 /\ (i + 1) - 1 = i
              BY <3>8
            <6>6. i # n => e[i + 1] = d[i]
              BY <6>5
            <6> HIDE DEF n, e
            <6>7. QED
              BY <6>2, <6>3, <6>4, <6>6
          <5>3. QED
            BY <5>1, <5>2
        <4>2. QED
          BY <4>1
      <3> HIDE DEF n, e
      <3>15. n <= capacity[c] /\ n \in 0..capacity[c]
        <4>1. e \in [1..n -> Blocks(t, c)]
          BY <1>3, <3>11 DEF Free
        <4>2. n <= capacity[c] /\ capacity[c] \in Nat
          BY <3>10, <3>12, <4>1, BlocksAreFew, BucketsAre
        <4>3. QED
          BY <3>10, <4>2
      <3>16. IsChain(t, c, n, e)'
        <4>1. n # 0
          BY <3>10
        <4>2. QED
          BY <3>2, <3>4, <3>10, <3>12, <3>13, <3>14, <4>1 DEF IsChain
      <3>17. HasChain(t, c)'
        BY <3>4, <3>11, <3>15, <3>16 DEF HasChain
      <3>18. QED
        BY <1>1, <1>4, <2>2, <3>3, <3>17 DEF ListInv
    <2>3. QED
      BY <2>1, <2>2
  <1>14. QED
    BY <1>9, <1>10, <1>11, <1>13, PoolInvIs

(* A refusal ends the process and changes nothing else. *)
LEMMA TrapKeepsPool ==
    ASSUME PoolInv, NEW check \in {"size", "cold", "exhausted", "range", "unused"}, Trap(check)
    PROVE  PoolInv'
  <1>1. trap' = check /\ UNCHANGED <<mem, pool_phase, free_list, in_use, owned>>
    BY DEF Trap, pool
  <1>2. PoolTypeOK'
    BY <1>1 DEF PoolInv, PoolTypeOK
  <1>3. \A o \in owned' : OwnerInv(o)'
    BY <1>1, PoolInvIs DEF OwnerInv, DataIntact
  <1>4. ASSUME NEW t \in Threads, NEW b \in Buckets PROVE ListInv(t, b)'
    <2>1. Held(t, b)' = Held(t, b)
      BY <1>1 DEF Held
    <2>2. QED
      BY <1>1, <2>1, ListKept, PoolInvIs
  <1>5. QED
    BY <1>1, <1>2, <1>3, <1>4, PoolInvIs

LEMMA StutterKeepsPool == ASSUME PoolInv, UNCHANGED pool_vars PROVE PoolInv'
  <1>1. UNCHANGED <<mem, pool_phase, free_list, in_use, owned, trap>>
    BY DEF pool_vars
  <1>2. PoolTypeOK'
    BY <1>1 DEF PoolInv, PoolTypeOK
  <1>3. \A o \in owned' : OwnerInv(o)'
    BY <1>1, PoolInvIs DEF OwnerInv, DataIntact
  <1>4. ASSUME NEW t \in Threads, NEW b \in Buckets PROVE ListInv(t, b)'
    <2>1. Held(t, b)' = Held(t, b)
      BY <1>1 DEF Held
    <2>2. QED
      BY <1>1, <2>1, ListKept, PoolInvIs
  <1>5. QED
    BY <1>1, <1>2, <1>3, <1>4, PoolInvIs

LEMMA StepKeepsPool == ASSUME PoolInv, PoolNext PROVE PoolInv'
  <1>1. CASE \E t \in Threads : instance(t) \/ prewarm(t) \/ thread_exit(t)
    BY <1>1, InstanceKeepsPool, PrewarmKeepsPool, ExitKeepsPool
  <1>2. ASSUME NEW t \in Threads, NEW size \in 1..MaxSize, acquire(t, size) PROVE PoolInv'
    <2>1. CASE Refusal(t, size) = "none"
      BY <1>2, <2>1, PopKeepsPool DEF acquire
    <2>2. CASE Refusal(t, size) # "none"
      <3>1. Refusal(t, size) \in {"size", "cold", "exhausted"}
        BY <2>2 DEF Refusal
      <3>2. Trap(Refusal(t, size))
        BY <1>2, <2>2 DEF acquire
      <3>3. QED
        BY <3>1, <3>2, TrapKeepsPool
    <2>3. QED
      BY <2>1, <2>2
  <1>3. ASSUME NEW t \in Threads, NEW size \in 1..MaxSize, NEW o \in owned, release(t, o, size)
        PROVE  PoolInv'
    <2>1. CASE Trap("size") \/ Trap("range") \/ Trap("unused")
      BY <2>1, TrapKeepsPool
    <2>2. CASE /\ HasBucket(size) /\ InBucket(t, o.addr, bucket_for(size))
               /\ ReturnBlock(t, o, bucket_for(size))
      <3>1. bucket_for(size) \in Buckets
        BY <2>2, BucketFor
      <3>2. pool_phase[t] \in {"mapped", "warm"}
        BY <1>3 DEF release, Calls
      <3>3. QED
        BY <2>2, <3>1, <3>2, ReturnKeepsPool
    <2>3. QED
      BY <1>3, <2>1, <2>2 DEF release
  <1>4. CASE \E o \in owned : owner_writes(o)
    BY <1>4, WriteKeepsPool
  <1>5. QED
    BY <1>1, <1>2, <1>3, <1>4 DEF PoolNext

(* The pool keeps its invariant, for any number of threads and any layout. *)
THEOREM PoolInvariant == PoolSpec => []PoolInv
  <1>1. PoolInv /\ [PoolNext]_pool_vars => PoolInv'
    BY StepKeepsPool, StutterKeepsPool
  <1>2. QED
    BY <1>1, InitPoolInv, PTL DEF PoolSpec

(* The walk along the links of a bucket. *)
WalkIs(t, b, w) ==
    w = [i \in 0..capacity[b] |->
            IF i = 0 THEN free_list[t][b]
            ELSE IF w[i - 1] \in Addr THEN mem[w[i - 1]] ELSE null]

(* The links of a chain, followed from the head. *)
LEMMA ChainWalk ==
    ASSUME NEW t \in Threads, NEW b \in Buckets,
           NEW m \in 0..capacity[b], NEW d \in [1..m -> Free(t, b)], IsChain(t, b, m, d)
    PROVE  /\ \A i \in 0..capacity[b] :
                Chain(t, b)[i] = IF i < m THEN d[i + 1] ELSE null
  <1> PICK cap : cap = capacity[b]
    OBVIOUS
  <1>1. cap \in Nat /\ m \in Nat /\ m <= cap
    BY BucketsAre
  <1> DEFINE w == [i \in 0..cap |-> IF i < m THEN d[i + 1] ELSE null]
  <1>2. null \notin Addr
    <2>1. \A t1 \in Threads : 0 \notin RegionOf(t1)
      BY ThreadsAre DEF RegionOf
    <2>2. QED
      BY <2>1 DEF Addr, null
  <1>3. \A i \in 1..m : d[i] \in Addr
    BY BlockFacts DEF Free
  <1>4. \A i \in 0..cap :
           w[i] = IF i = 0 THEN free_list[t][b]
                  ELSE IF w[i - 1] \in Addr THEN mem[w[i - 1]] ELSE null
    <2>1. ASSUME NEW i \in 0..cap, i # 0 PROVE w[i] = IF w[i - 1] \in Addr THEN mem[w[i - 1]] ELSE null
      <3>1. i - 1 \in 0..cap /\ i \in Nat
        BY <1>1, <2>1
      <3>2. CASE i <= m
        <4>1. w[i - 1] = d[i] /\ i \in 1..m
          BY <1>1, <2>1, <3>1, <3>2
        <4>2. mem[d[i]] = IF i = m THEN null ELSE d[i + 1]
          BY <4>1 DEF IsChain
        <4>3. QED
          BY <1>1, <1>3, <3>1, <3>2, <4>1, <4>2
      <3>3. CASE ~(i <= m)
        <4>1. w[i - 1] = null /\ w[i] = null
          BY <1>1, <3>1, <3>3
        <4>2. QED
          BY <1>2, <4>1
      <3>4. QED
        BY <3>2, <3>3
    <2>2. w[0] = free_list[t][b]
      BY <1>1 DEF IsChain
    <2>3. QED
      BY <2>1, <2>2
  <1>5. WalkIs(t, b, w)
    BY <1>4 DEF WalkIs
  <1> HIDE DEF w
  <1>6. ASSUME NEW v, WalkIs(t, b, v) PROVE v = w
    <2>1. DOMAIN v = 0..cap /\ DOMAIN w = 0..cap
      BY <1>5, <1>6 DEF WalkIs
    <2> DEFINE Bad == {i \in 0..cap : v[i] # w[i]}
    <2>2. CASE Bad # {}
      <3>1. Bad \subseteq Nat
        OBVIOUS
      <3>2. PICK i \in Bad : \A j \in Bad : i <= j
        BY <2>2, <3>1, LeastNat
      <3>3. CASE i = 0
        <4>1. v[0] = free_list[t][b] /\ w[0] = free_list[t][b]
          BY <1>1, <1>5, <1>6 DEF WalkIs
        <4>2. QED
          BY <3>2, <3>3, <4>1
      <3>4. CASE i # 0
        <4>1. i - 1 \in 0..cap /\ i \in 0..cap /\ ~(i <= i - 1)
          BY <1>1, <3>2, <3>4
        <4>2. v[i - 1] = w[i - 1]
          BY <3>2, <4>1
        <4>3. v[i] = IF v[i - 1] \in Addr THEN mem[v[i - 1]] ELSE null
          BY <1>6, <3>4, <4>1 DEF WalkIs
        <4>4. w[i] = IF w[i - 1] \in Addr THEN mem[w[i - 1]] ELSE null
          BY <1>5, <3>4, <4>1 DEF WalkIs
        <4>5. QED
          BY <3>2, <4>2, <4>3, <4>4
      <3>5. QED
        BY <3>3, <3>4
    <2>3. CASE Bad = {}
      <3>1. \A i \in 0..cap : v[i] = w[i]
        BY <2>3
      <3>2. v = [i \in 0..cap |-> v[i]] /\ w = [i \in 0..cap |-> w[i]]
        BY <1>5, <1>6, <2>1 DEF WalkIs
      <3>3. [i \in 0..cap |-> v[i]] = [i \in 0..cap |-> w[i]]
        BY <3>1
      <3>4. QED
        BY <3>2, <3>3
    <2>4. QED
      BY <2>2, <2>3
  <1>7. Chain(t, b) = CHOOSE v : WalkIs(t, b, v)
    BY DEF Chain, WalkIs
  <1>8. WalkIs(t, b, CHOOSE v : WalkIs(t, b, v))
    BY <1>5
  <1>9. Chain(t, b) = w
    BY <1>6, <1>7, <1>8
  <1>10. QED
    BY <1>9 DEF w

(* Every block nobody owns is met once, and then the list ends. *)
LEMMA ChainIsFree ==
    ASSUME NEW t \in Threads, NEW b \in Buckets, HasChain(t, b)
    PROVE  ListIsFree(t, b)
  <1>1. PICK m \in 0..capacity[b] : \E d \in [1..m -> Free(t, b)] : IsChain(t, b, m, d)
    BY DEF HasChain
  <1>2. PICK d \in [1..m -> Free(t, b)] : IsChain(t, b, m, d)
    BY <1>1
  <1>3. m \in Nat /\ capacity[b] \in Nat /\ m <= capacity[b]
    BY BucketsAre
  <1>4. \A i \in 0..capacity[b] : Chain(t, b)[i] = IF i < m THEN d[i + 1] ELSE null
    BY <1>2, ChainWalk
  <1>5. Cardinality(Free(t, b)) = m
    <2>1. d \in Bijection(1..m, Free(t, b))
      BY <1>2 DEF IsChain, Bijection, Injection, IsInjective, Surjection
    <2>2. IsFiniteSet(1..m) /\ Cardinality(1..m) = m
      BY <1>3, Interval
    <2>3. Cardinality(1..m) = Cardinality(Free(t, b))
      <3>1. ExistsBijection(1..m, Free(t, b))
        BY <2>1 DEF ExistsBijection
      <3>2. QED
        BY <2>2, <3>1, FS_Bijection
    <2>4. QED
      BY <2>2, <2>3
  <1>6. {Chain(t, b)[i] : i \in 0..(m - 1)} = Free(t, b)
    <2>1. ASSUME NEW i \in 0..(m - 1) PROVE Chain(t, b)[i] \in Free(t, b)
      <3>1. i \in 0..capacity[b] /\ i < m /\ i + 1 \in 1..m
        BY <1>3
      <3>2. QED
        BY <1>4, <3>1
    <2>2. ASSUME NEW a \in Free(t, b) PROVE \E i \in 0..(m - 1) : Chain(t, b)[i] = a
      <3>1. PICK j \in 1..m : d[j] = a
        BY <1>2 DEF IsChain
      <3>2. /\ j - 1 \in 0..(m - 1) /\ j - 1 \in 0..capacity[b] /\ j - 1 < m
            /\ (j - 1) + 1 = j
        BY <1>3
      <3>3. Chain(t, b)[j - 1] = d[(j - 1) + 1]
        BY <1>4, <3>2
      <3>4. QED
        BY <3>1, <3>2, <3>3
    <2>3. QED
      BY <2>1, <2>2
  <1>7. Chain(t, b)[m] = null
    <2>1. m \in 0..capacity[b] /\ ~(m < m)
      BY <1>3
    <2>2. QED
      BY <1>4, <2>1
  <1>8. QED
    BY <1>5, <1>6, <1>7 DEF ListIsFree, Free

(* Every block has one holder: a free list, once, or an owner whose data   *)
(* it keeps.                                                               *)
THEOREM BlocksHaveOneHolder == PoolSpec => []OneHolder
  <1>1. PoolInv => OneHolder
    <2> SUFFICES ASSUME PoolInv PROVE OneHolder
      OBVIOUS
    <2>1. ASSUME NEW t \in Threads, NEW b \in Buckets, pool_phase[t] = "warm"
          PROVE  ListIsFree(t, b) /\ in_use[t][b] = Cardinality(Held(t, b))
      <3>1. HasChain(t, b) /\ in_use[t][b] = Cardinality(Held(t, b))
        BY <2>1, PoolInvIs DEF ListInv
      <3>2. QED
        BY <3>1, ChainIsFree
    <2>2. \A o \in owned : o.written => DataIntact(o)
      BY PoolInvIs DEF OwnerInv
    <2>3. QED
      BY <2>1, <2>2 DEF OneHolder
  <1>2. QED
    BY <1>1, PoolInvariant, PTL

(* The check of release that a bucket has blocks in use never ends the     *)
(* process: what callers own and release is counted where it came from.    *)
THEOREM InUseNeverUnderflows == PoolSpec => [](trap # "unused")
  <1> DEFINE Counted == trap # "unused"
  <1>1. PoolInit => Counted
    BY DEF PoolInit
  <1>2. PoolInv /\ Counted /\ [PoolNext]_pool_vars => Counted'
    <2> SUFFICES ASSUME PoolInv, trap # "unused", [PoolNext]_pool_vars PROVE trap' # "unused"
      OBVIOUS
    <2>1. CASE UNCHANGED pool_vars
      BY <2>1 DEF pool_vars
    <2>2. CASE \E t \in Threads : instance(t) \/ prewarm(t) \/ thread_exit(t)
      BY <2>2 DEF instance, prewarm, PushBlocks, thread_exit
    <2>3. ASSUME NEW t \in Threads, NEW size \in 1..MaxSize, acquire(t, size)
          PROVE  trap' # "unused"
      BY <2>3 DEF acquire, Pop, Trap, Refusal
    <2>4. ASSUME NEW t \in Threads, NEW size \in 1..MaxSize, NEW o \in owned, release(t, o, size)
          PROVE  trap' # "unused"
      <3>1. CASE Trap("size") \/ Trap("range") \/ ReturnBlock(t, o, bucket_for(size))
        BY <3>1 DEF Trap, ReturnBlock
      <3>2. CASE /\ HasBucket(size) /\ InBucket(t, o.addr, bucket_for(size))
                 /\ in_use[t][bucket_for(size)] = 0
        <4> PICK c : c = bucket_for(size)
          OBVIOUS
        <4>1. c \in Buckets
          BY <3>2, BucketFor
        <4>2. /\ o.thread \in Threads /\ bucket_for(o.size) \in Buckets /\ o.addr \in Nat
              /\ o.addr \in Blocks(o.thread, bucket_for(o.size))
          BY OwnerFacts
        <4>3. InBucket(o.thread, o.addr, bucket_for(o.size))
          BY <4>2, BlockFacts
        <4>4. t = o.thread /\ c = bucket_for(o.size)
          BY <3>2, <4>1, <4>2, <4>3, BucketsApart
        <4>5. o \in Held(t, c) /\ pool_phase[t] = "warm"
          BY <4>4, PoolInvIs DEF Held, OwnerInv
        <4>6. in_use[t][c] = Cardinality(Held(t, c))
          BY <4>1, <4>5, PoolInvIs DEF ListInv
        <4>7. IsFiniteSet(Held(t, c))
          BY FS_Subset DEF Held, PoolInv, PoolTypeOK
        <4>8. Cardinality(Held(t, c)) # 0
          BY <4>5, <4>7, FS_EmptySet
        <4>9. QED
          BY <3>2, <4>6, <4>8
      <3>3. QED
        BY <2>4, <3>1, <3>2 DEF release
    <2>5. CASE \E o \in owned : owner_writes(o)
      BY <2>5 DEF owner_writes
    <2>6. QED
      BY <2>1, <2>2, <2>3, <2>4, <2>5 DEF PoolNext
  <1>3. QED
    BY <1>1, <1>2, PoolInvariant, PTL DEF PoolSpec

-----------------------------------------------------------------------------

(***************************************************************************)
(* Percentiles of the load generator                                       *)
(***************************************************************************)
LEMMA GreatestOfTwo ==
    ASSUME NEW a \in Int, NEW b \in Int
    PROVE  /\ Max({a, b}) = IF a >= b THEN a ELSE b
           /\ Min({a, b}) = IF a <= b THEN a ELSE b
           /\ Max({a, b}) \in Int /\ Min({a, b}) \in Int
  <1> PICK x, y : x = (IF a >= b THEN a ELSE b) /\ y = (IF a <= b THEN a ELSE b)
    OBVIOUS
  <1>1. /\ x \in {a, b} /\ \A z \in {a, b} : x >= z
        /\ y \in {a, b} /\ \A z \in {a, b} : y <= z
    OBVIOUS
  <1>2. Max({a, b}) \in {a, b} /\ \A z \in {a, b} : Max({a, b}) >= z
    BY <1>1 DEF Max
  <1>3. Min({a, b}) \in {a, b} /\ \A z \in {a, b} : Min({a, b}) <= z
    BY <1>1 DEF Min
  <1> PICK u, v : u = Max({a, b}) /\ v = Min({a, b})
    OBVIOUS
  <1>4. u = x /\ v = y
    BY <1>1, <1>2, <1>3
  <1>5. QED
    BY <1>4

(* A finite set of integers has a greatest and a least one. *)
LEMMA Extremes ==
    ASSUME NEW S, IsFiniteSet(S), S \subseteq Int, S # {}
    PROVE  /\ Max(S) \in S /\ \A y \in S : y <= Max(S)
           /\ Min(S) \in S /\ \A y \in S : Min(S) <= y
  <1> DEFINE Ends(s) == /\ \E x \in s : \A y \in s : x >= y
                        /\ \E x \in s : \A y \in s : x =< y
             T == {s \in SUBSET S : s # {} => Ends(s)}
  <1>1. {} \in T
    OBVIOUS
  <1>2. ASSUME NEW s \in SUBSET S, NEW x \in s, s \ {x} \in T PROVE s \in T
    <2>1. CASE s \ {x} = {}
      <3>1. s = {x} /\ x \in Int
        BY <2>1
      <3>2. QED
        BY <3>1
    <2>2. CASE s \ {x} # {}
      <3>1. Ends(s \ {x})
        BY <1>2, <2>2
      <3>2. PICK u \in s \ {x} : \A y \in s \ {x} : u >= y
        BY <3>1
      <3>3. PICK v \in s \ {x} : \A y \in s \ {x} : v =< y
        BY <3>1
      <3>4. u \in Int /\ v \in Int /\ x \in Int /\ s \subseteq Int
        OBVIOUS
      <3>5. \E w \in s : \A y \in s : w >= y
        <4>1. CASE x >= u
          BY <3>2, <3>4, <4>1
        <4>2. CASE ~(x >= u)
          BY <3>2, <3>4, <4>2
        <4>3. QED
          BY <4>1, <4>2
      <3>6. \E w \in s : \A y \in s : w =< y
        <4>1. CASE x =< v
          BY <3>3, <3>4, <4>1
        <4>2. CASE ~(x =< v)
          BY <3>3, <3>4, <4>2
        <4>3. QED
          BY <4>1, <4>2
      <3>7. QED
        BY <3>5, <3>6
    <2>3. QED
      BY <2>1, <2>2
  <1> HIDE DEF T
  <1>3. S \in T
    BY <1>1, <1>2, FiniteInduction
  <1>4. Ends(S)
    BY <1>3 DEF T
  <1>5. Max(S) \in S /\ \A y \in S : Max(S) >= y
    BY <1>4 DEF Max
  <1>6. Min(S) \in S /\ \A y \in S : Min(S) =< y
    BY <1>4 DEF Min
  <1>7. QED
    BY <1>5, <1>6

LEMMA DivFacts ==
    ASSUME NEW n \in Nat \ {0}
    PROVE  /\ \A a \in Nat : a \div n \in Nat /\ n * (a \div n) <= a /\ a < n * (a \div n) + n
           /\ \A a, c \in Nat : a <= c => a \div n <= c \div n
  <1>1. \A a \in Nat : a \div n \in Nat /\ n * (a \div n) <= a /\ a < n * (a \div n) + n
    OBVIOUS
  <1>2. ASSUME NEW a \in Nat, NEW c \in Nat, a <= c, ~(a \div n <= c \div n) PROVE FALSE
    <2> PICK u, v : u = a \div n /\ v = c \div n
      OBVIOUS
    <2>1. u \in Nat /\ v \in Nat /\ v + 1 <= u
      BY <1>1, <1>2
    <2>2. n * u <= a /\ c < n * v + n
      BY <1>1
    <2>3. n * (v + 1) <= n * u
      BY <2>1, MulMono
    <2>4. n * (v + 1) = n * v + n
      BY <2>1
    <2> PICK x, y, z : x = n * u /\ y = n * v /\ z = n * (v + 1)
      OBVIOUS
    <2>5. x \in Int /\ y \in Int /\ z \in Int
      BY <2>1
    <2>6. QED
      BY <1>2, <2>2, <2>3, <2>4, <2>5
  <1>3. QED
    BY <1>1, <1>2

(* The sums of module Verdict. *)
Samples == [Ns -> Nat]
AtMost(v) == {w \in Ns : w <= v}
Shown(v) == IF v >= 0 THEN v ELSE 0
LastBucket == buckets - 1
Bins == 0..LastBucket

LEMMA VerdictConstants ==
    /\ bucket_ns \in Nat \ {0} /\ buckets \in Nat \ {0} /\ LastBucket \in Nat
    /\ PDen \in Nat \ {0} /\ P99 \in Printed /\ Printed \subseteq 1..PDen
    /\ Ns \subseteq Int /\ IsFiniteSet(Ns)
    /\ bucket_ns * buckets \in Nat \ {0}
  BY VerdictAssumption DEF LastBucket

LEMMA SampleSums ==
    ASSUME NEW s
    PROVE  /\ Count(s) = Total(s, Ns)
           /\ \A R : MapThenSumSet(LAMBDA v : s[v], R) = Total(s, R)
           /\ \A b : UpTo(s, b) = Total(s, 0..b)
  BY DEF Count, UpTo, MapThenSumSet, MapThenFoldSet, Total, Sums, PickOf

LEMMA ShownIs == ASSUME NEW v \in Ns PROVE v \in Int /\ Max({v, 0}) = Shown(v) /\ Shown(v) \in Nat
  BY VerdictConstants, GreatestOfTwo DEF Shown

LEMMA LowIs ==
    /\ \A b : Low(b) = {v \in Ns : Shown(v) \div bucket_ns <= b}
    /\ \A b : Low(b) \subseteq Ns
  BY ShownIs DEF Low

LEMMA SampleSizes ==
    ASSUME NEW s \in Samples
    PROVE  /\ Count(s) \in Nat
           /\ \A R \in SUBSET Ns : Numbered(s, R) /\ Total(s, R) \in Nat /\ Total(s, R) <= Count(s)
           /\ \A R \in SUBSET Ns, Q \in SUBSET Ns : R \subseteq Q => Total(s, R) <= Total(s, Q)
  <1>1. \A x \in Ns : s[x] \in Nat
    BY DEF Samples
  <1>2. \A Q \in SUBSET Ns : IsFiniteSet(Q)
    BY VerdictConstants, FS_Subset
  <1>3. \A R \in SUBSET Ns, Q \in SUBSET Ns :
          R \subseteq Q => Total(s, R) \in Nat /\ Total(s, Q) \in Nat /\ Total(s, R) <= Total(s, Q)
    BY <1>1, <1>2, TotalGrows
  <1>4. \A R \in SUBSET Ns : Numbered(s, R)
    BY <1>1, <1>2 DEF Numbered
  <1>5. Ns \in SUBSET Ns
    OBVIOUS
  <1>6. QED
    BY <1>3, <1>4, <1>5, SampleSums

(* What Tells says, in these sums. *)
LEMMA TellsIs ==
    ASSUME NEW h, NEW s
    PROVE  Tells(h, s) <=> /\ h.total = Count(s)
                           /\ \A b \in Bins : Total(h.counts, 0..b) = Total(s, Low(b))
  <1>1. \A b : UpTo(h.counts, b) = Total(h.counts, 0..b)
    BY SampleSums
  <1>2. \A b : MapThenSumSet(LAMBDA v : s[v], Low(b)) = Total(s, Low(b))
    BY DEF MapThenSumSet, MapThenFoldSet, Total, Sums, PickOf
  <1>3. Tells(h, s) <=> /\ h.total = Count(s)
                        /\ \A b \in Bins : UpTo(h.counts, b) = Total(s, Low(b))
    BY <1>2 DEF Tells, Bins, LastBucket
  <1>4. QED
    BY <1>1, <1>3

(* A sample is counted once, where it belongs. *)
LEMMA AddTells ==
    ASSUME NEW h \in Histogram, NEW s \in Samples, Tells(h, s), NEW ns \in Ns
    PROVE  /\ histogram_add(h, ns) \in Histogram
           /\ [s EXCEPT ![ns] = @ + 1] \in Samples
           /\ Tells(histogram_add(h, ns), [s EXCEPT ![ns] = @ + 1])
  <1> PICK c, v, b, g, r :
        /\ c = h.counts /\ v = Shown(ns) /\ b = v \div bucket_ns
        /\ g = histogram_add(h, ns) /\ r = [s EXCEPT ![ns] = s[ns] + 1]
    OBVIOUS
  <1> DEFINE d == IF b >= buckets THEN c ELSE [c EXCEPT ![b] = c[b] + 1]
  <1>1. /\ h \in [counts : [Bins -> Nat], total : Nat, overflow : Nat, max_ns : Int, min_ns : Int]
        /\ c \in [Bins -> Nat] /\ Bins \subseteq Nat /\ IsFiniteSet(Bins)
    <2>1. h \in [counts : [Bins -> Nat], total : Nat, overflow : Nat, max_ns : Int, min_ns : Int]
      BY DEF Histogram, Bins, LastBucket
    <2>2. IsFiniteSet(Bins)
      BY VerdictConstants, FS_Interval DEF Bins
    <2>3. QED
      BY <2>1, <2>2 DEF Bins
  <1>2. v \in Nat /\ b \in Nat /\ ns \in Int
    BY ShownIs, VerdictConstants, DivFacts
  <1>3. b < buckets => b \in Bins
    BY <1>2, VerdictConstants DEF Bins, LastBucket
  <1>4. /\ g.total = h.total + 1 /\ g.counts = d
        /\ g.max_ns = Max({h.max_ns, v}) /\ g.min_ns = Min({h.min_ns, v})
        /\ g = [counts |-> g.counts, total |-> g.total, overflow |-> g.overflow,
                max_ns |-> g.max_ns, min_ns |-> g.min_ns]
        /\ g.overflow \in Nat
    <2>1. Max({ns, 0}) = v
      BY ShownIs
    <2>2. Tallied(h, v) = [h EXCEPT !.total = h.total + 1, !.max_ns = Max({h.max_ns, v}),
                                    !.min_ns = Min({h.min_ns, v})]
      BY DEF Tallied
    <2>3. Tallied(h, v) = [counts |-> c, total |-> h.total + 1, overflow |-> h.overflow,
                           max_ns |-> Max({h.max_ns, v}), min_ns |-> Min({h.min_ns, v})]
      BY <1>1, <2>2
    <2>4. g = IF b >= buckets THEN [Tallied(h, v) EXCEPT !.overflow = @ + 1]
                              ELSE [Tallied(h, v) EXCEPT !.counts[b] = @ + 1]
      BY <2>1 DEF histogram_add
    <2> PICK t, mx, mn : t = Tallied(h, v) /\ mx = Max({h.max_ns, v}) /\ mn = Min({h.min_ns, v})
      OBVIOUS
    <2>8. /\ t = [counts |-> c, total |-> h.total + 1, overflow |-> h.overflow,
                  max_ns |-> mx, min_ns |-> mn]
          /\ g = IF b >= buckets THEN [t EXCEPT !.overflow = t.overflow + 1]
                                ELSE [t EXCEPT !.counts[b] = t.counts[b] + 1]
      BY <2>3, <2>4
    <2>5. CASE b >= buckets
      <3>1. g = [counts |-> c, total |-> h.total + 1, overflow |-> h.overflow + 1,
                 max_ns |-> mx, min_ns |-> mn]
        BY ONLY <2>8, <2>5
      <3>2. h.overflow + 1 \in Nat
        BY <1>1
      <3>3. QED
        BY <2>5, <3>1, <3>2
    <2>6. CASE ~(b >= buckets)
      <3>1. g = [counts |-> [c EXCEPT ![b] = c[b] + 1], total |-> h.total + 1, overflow |-> h.overflow,
                 max_ns |-> mx, min_ns |-> mn]
        BY ONLY <2>8, <2>6
      <3>2. h.overflow \in Nat
        BY <1>1
      <3>3. QED
        BY <2>6, <3>1, <3>2
    <2>7. QED
      BY <2>5, <2>6
  <1>5. d \in [Bins -> Nat]
    BY <1>1, <1>2, <1>3, VerdictConstants
  <1>6. g \in Histogram
    <2>1. g.max_ns \in Int /\ g.min_ns \in Int /\ g.total \in Nat
      <3>1. h.max_ns \in Int /\ h.min_ns \in Int /\ h.total \in Nat /\ v \in Int
        BY <1>1, <1>2
      <3>2. Max({h.max_ns, v}) \in Int /\ Min({h.min_ns, v}) \in Int
        BY <3>1, GreatestOfTwo
      <3>3. QED
        BY <1>4, <3>1, <3>2
    <2>2. g.counts \in [0..(buckets - 1) -> Nat]
      BY <1>4, <1>5 DEF Bins, LastBucket
    <2>3. QED
      BY <1>4, <2>1, <2>2 DEF Histogram
  <1>7. r \in Samples /\ r[ns] = s[ns] + 1 /\ s[ns] \in Nat /\ \A w \in Ns : w # ns => r[w] = s[w]
    BY DEF Samples
  <1>8. ASSUME NEW R \in SUBSET Ns
        PROVE  Total(r, R) = IF ns \in R THEN Total(s, R) + 1 ELSE Total(s, R)
    <2>1. Numbered(s, R) /\ Total(s, R) \in Nat
      BY SampleSizes
    <2>2. CASE ns \in R
      <3>1. Total(r, R) = Total(s, R) - s[ns] + r[ns]
        <4>1. r[ns] \in Int /\ \A y \in R : y # ns => s[y] = r[y]
          BY <1>7
        <4>2. QED
          BY ONLY <2>1, <2>2, <4>1, TotalChanged
      <3>2. QED
        BY <1>7, <2>1, <2>2, <3>1
    <2>3. CASE ns \notin R
      <3>1. \A x \in R : s[x] = r[x]
        BY <1>7, <2>3
      <3>2. Total(s, R) = Total(r, R)
        BY ONLY <2>1, <3>1, TotalSame
      <3>3. QED
        BY <2>3, <3>2
    <2>4. QED
      BY <2>2, <2>3
  <1>9. ASSUME NEW a \in Bins
        PROVE  Total(d, 0..a) = IF b <= a THEN Total(c, 0..a) + 1 ELSE Total(c, 0..a)
    <2>1. 0..a \subseteq Bins /\ a \in Nat /\ a < buckets
      BY VerdictConstants DEF Bins, LastBucket
    <2>2. Numbered(c, 0..a) /\ Total(c, 0..a) \in Int
      <3>1. Numbered(c, 0..a)
        BY <1>1, <2>1, FS_Subset DEF Numbered
      <3>2. QED
        BY <3>1, TotalIs
    <2>3. CASE b <= a
      <3>1. b \in 0..a /\ b < buckets
        BY <1>2, <2>1, <2>3, VerdictConstants
      <3>2. d[b] = c[b] + 1 /\ c[b] \in Nat /\ \A y \in 0..a : y # b => c[y] = d[y]
        BY <1>1, <1>2, <1>3, <2>1, <3>1, VerdictConstants
      <3>3. Total(d, 0..a) = Total(c, 0..a) - c[b] + d[b]
        <4> HIDE DEF d
        <4>1. d[b] \in Int
          BY <3>2
        <4>2. \A y \in 0..a : y # b => c[y] = d[y]
          BY <3>2
        <4>3. QED
          BY ONLY <2>2, <3>1, <4>1, <4>2, TotalChanged
      <3> HIDE DEF d
      <3>4. QED
        BY <2>2, <2>3, <3>2, <3>3
    <2>4. CASE ~(b <= a)
      <3>1. \A y \in 0..a : c[y] = d[y]
        BY <1>1, <1>2, <2>1, <2>4
      <3> HIDE DEF d
      <3>2. QED
        BY <2>2, <2>4, <3>1, TotalSame
    <2>5. QED
      BY <2>3, <2>4
  <1> HIDE DEF d
  <1>10. h.total = Count(s) /\ \A a \in Bins : Total(c, 0..a) = Total(s, Low(a))
    BY TellsIs
  <1>11. g.total = Count(r)
    <2>1. Count(r) = Total(r, Ns) /\ Count(s) = Total(s, Ns)
      BY SampleSums
    <2>2. Total(r, Ns) = Total(s, Ns) + 1
      BY <1>8
    <2>3. QED
      BY <1>4, <1>10, <2>1, <2>2
  <1>12. ASSUME NEW a \in Bins PROVE Total(g.counts, 0..a) = Total(r, Low(a))
    <2>1. Low(a) \in SUBSET Ns /\ (ns \in Low(a) <=> b <= a)
      BY LowIs
    <2>2. Total(r, Low(a)) = IF b <= a THEN Total(s, Low(a)) + 1 ELSE Total(s, Low(a))
      BY <1>8, <2>1
    <2>3. QED
      BY <1>4, <1>9, <1>10, <2>2
  <1>13. Tells(g, r)
    BY <1>11, <1>12, TellsIs
  <1>14. r = [s EXCEPT ![ns] = @ + 1]
    OBVIOUS
  <1>15. QED
    BY <1>6, <1>7, <1>13, <1>14

(* The samples that are enough for a percentile, and the least of them.    *)
Enough(s, want) == {v \in Ns : Total(s, AtMost(v)) >= want}

LEMMA WantIs ==
    ASSUME NEW p \in 0..PDen, NEW c \in Nat
    PROVE  (p * c) \div PDen \in Nat /\ (p * c) \div PDen <= c
  <1> PICK n, q : n = PDen /\ q = (p * c) \div PDen
    OBVIOUS
  <1>1. n \in Nat \ {0} /\ p \in Nat /\ p <= n
    BY VerdictConstants
  <1>2. p * c \in Nat /\ n * c \in Nat /\ p * c <= n * c
    BY <1>1, MulMono
  <1>3. q \in Nat /\ n * q <= p * c
    BY <1>1, <1>2, DivFacts
  <1>4. ASSUME ~(q <= c) PROVE FALSE
    <2>1. (c + 1) * n <= q * n /\ (c + 1) * n = n * c + n /\ q * n = n * q
      <3>1. c + 1 \in Nat /\ c + 1 <= q
        BY <1>3, <1>4
      <3>2. (c + 1) * n <= q * n
        BY <1>1, <1>3, <3>1, MulMono
      <3>3. QED
        BY <1>1, <1>3, <3>2
    <2> PICK x, y, z : x = n * c /\ y = n * q /\ z = p * c
      OBVIOUS
    <2>2. x \in Nat /\ y \in Nat /\ z \in Nat /\ z <= x /\ y <= z /\ x + n <= y
      <3>1. y \in Nat
        BY <1>1, <1>3
      <3>2. QED
        BY <1>2, <1>3, <2>1, <3>1
    <2>3. QED
      BY ONLY <1>1, <2>2
  <1>5. QED
    BY <1>3, <1>4

(* The buckets a percentile may be read from start where the least sample  *)
(* that is enough lies.                                                    *)
LEMMA BucketOfRank ==
    ASSUME NEW s \in Samples, NEW want \in Nat \ {0}, want <= Count(s)
    PROVE  LET low == Max({0, Min(Enough(s, want))})
           IN  /\ low \in Nat
               /\ \A b \in Nat : Total(s, Low(b)) >= want <=> low \div bucket_ns <= b
  <1> PICK E, v : E = Enough(s, want) /\ v = Min(E)
    OBVIOUS
  <1>1. E \subseteq Ns /\ E \subseteq Int /\ IsFiniteSet(E)
    <2>1. E \subseteq Ns
      BY DEF Enough
    <2>2. QED
      BY <2>1, VerdictConstants, FS_Subset
  <1>2. Ns # {}
    <2>1. CASE Ns = {}
      <3>1. Total(s, Ns) = 0
        BY <2>1, SampleSizes, TotalIs
      <3>2. Count(s) = 0
        BY <3>1, SampleSums
      <3>3. QED
        BY <3>2
    <2>2. QED
      BY <2>1
  <1>3. E # {}
    <2>1. Max(Ns) \in Ns /\ \A y \in Ns : y <= Max(Ns)
      BY <1>2, VerdictConstants, Extremes
    <2>2. AtMost(Max(Ns)) = Ns
      BY <2>1 DEF AtMost
    <2>3. Total(s, AtMost(Max(Ns))) >= want
      BY <2>2, SampleSums, SampleSizes
    <2>4. QED
      BY <2>1, <2>3 DEF Enough
  <1>4. v \in E /\ v \in Ns /\ v \in Int /\ \A y \in E : v <= y
    BY <1>1, <1>3, Extremes
  <1>5. Max({0, v}) = Shown(v) /\ Shown(v) \in Nat
    BY <1>4, GreatestOfTwo DEF Shown
  <1>6. \A w, u \in Ns : w <= u => Shown(w) <= Shown(u)
    BY VerdictConstants DEF Shown
  <1>7. \A w, u \in Ns : w <= u => Shown(w) \div bucket_ns <= Shown(u) \div bucket_ns
    BY <1>6, ShownIs, DivFacts, VerdictConstants
  <1>8. \A w \in Ns : Shown(w) \div bucket_ns \in Nat
    BY ShownIs, DivFacts, VerdictConstants
  <1>9. ASSUME NEW b \in Nat, Shown(v) \div bucket_ns <= b PROVE Total(s, Low(b)) >= want
    <2>1. AtMost(v) \subseteq Low(b) /\ Low(b) \subseteq Ns
      <3>1. ASSUME NEW w \in AtMost(v) PROVE w \in Low(b)
        <4>1. w \in Ns /\ w <= v
          BY DEF AtMost
        <4>2. Shown(w) \div bucket_ns <= b
          BY <1>4, <1>7, <1>8, <1>9, <4>1
        <4>3. QED
          BY <4>1, <4>2, LowIs
      <3>2. QED
        BY <3>1, LowIs
    <2>2. Total(s, AtMost(v)) \in Nat /\ Total(s, Low(b)) \in Nat
          /\ Total(s, AtMost(v)) <= Total(s, Low(b))
      BY <2>1, SampleSizes
    <2>3. Total(s, AtMost(v)) >= want
      BY <1>4 DEF Enough
    <2>4. QED
      BY <2>2, <2>3
  <1>10. ASSUME NEW b \in Nat, Total(s, Low(b)) >= want PROVE Shown(v) \div bucket_ns <= b
    <2>1. Low(b) \subseteq Ns /\ IsFiniteSet(Low(b)) /\ Low(b) \subseteq Int
      BY LowIs, VerdictConstants, FS_Subset
    <2>2. CASE Low(b) = {}
      <3>1. Total(s, Low(b)) = 0
        BY <2>1, <2>2, SampleSizes, TotalIs
      <3>2. QED
        BY <1>10, <3>1
    <2>3. CASE Low(b) # {}
      <3> PICK m : m = Max(Low(b))
        OBVIOUS
      <3>1. m \in Low(b) /\ \A y \in Low(b) : y <= m
        BY <2>1, <2>3, Extremes
      <3>2. Low(b) \subseteq AtMost(m) /\ AtMost(m) \subseteq Ns
        BY <2>1, <3>1 DEF AtMost
      <3>3. Total(s, Low(b)) \in Nat /\ Total(s, AtMost(m)) \in Nat
            /\ Total(s, Low(b)) <= Total(s, AtMost(m))
        BY <2>1, <3>2, SampleSizes
      <3>4. Total(s, AtMost(m)) >= want
        BY <1>10, <3>3
      <3>5. m \in E
        BY <2>1, <3>1, <3>4 DEF Enough
      <3>6. v <= m /\ m \in Ns /\ Shown(m) \div bucket_ns <= b
        BY <1>4, <2>1, <3>1, <3>5, LowIs
      <3>7. QED
        BY <1>4, <1>7, <1>8, <3>6
    <2>4. QED
      BY <2>2, <2>3
  <1>11. QED
    BY <1>5, <1>9, <1>10

(* The bucket at which k of the samples have been counted, and where it    *)
(* starts.                                                                 *)
ReachedAt(s, k, B) ==
    /\ B \in Nat
    /\ \A b \in Nat : Total(s, Low(b)) >= k <=> B <= b
    /\ Ranked(s, k) = IF B < buckets THEN B * bucket_ns ELSE EndOfScale
    /\ B < buckets => B * bucket_ns \in Nat /\ B * bucket_ns < EndOfScale

LEMMA RankedIs ==
    ASSUME NEW s \in Samples, NEW k \in Nat \ {0}, k <= Count(s)
    PROVE  \E B : ReachedAt(s, k, B)
  <1> PICK low, n, e, B : low = Max({0, Min(Enough(s, k))}) /\ n = bucket_ns /\ e = EndOfScale
                          /\ B = low \div n
    OBVIOUS
  <1>1. low \in Nat /\ \A b \in Nat : Total(s, Low(b)) >= k <=> B <= b
    BY BucketOfRank
  <1>2. n \in Nat \ {0} /\ e \in Nat \ {0} /\ e = n * buckets /\ buckets \in Nat \ {0}
    BY VerdictConstants DEF EndOfScale
  <1>3. B \in Nat /\ B * n \in Nat
    BY <1>1, <1>2, DivFacts
  <1>4. {v \in Ns : MapThenSumSet(LAMBDA w : s[w], {w \in Ns : w <= v}) >= k} = Enough(s, k)
    BY DEF Enough, MapThenSumSet, MapThenFoldSet, Total, Sums, PickOf, AtMost
  <1>5. Ranked(s, k) = Min({B * n, e})
    BY <1>4 DEF Ranked
  <1>6. Ranked(s, k) = IF B * n <= e THEN B * n ELSE e
    <2> PICK x : x = B * n
      OBVIOUS
    <2>1. x \in Int /\ e \in Int
      BY <1>2, <1>3
    <2>2. Min({x, e}) = IF x <= e THEN x ELSE e
      BY <2>1, GreatestOfTwo
    <2>3. QED
      BY <1>5, <2>2
  <1>7. ASSUME B < buckets PROVE B * n < e
    <2>1. (B + 1) * n <= buckets * n
      BY <1>2, <1>3, <1>7, MulMono
    <2>2. (B + 1) * n = B * n + n /\ buckets * n = n * buckets
      BY <1>2, <1>3
    <2> PICK x, y : x = B * n /\ y = (B + 1) * n
      OBVIOUS
    <2>3. x \in Nat /\ y = x + n /\ y <= e
      BY <1>2, <1>3, <2>1, <2>2
    <2>4. x < e
      BY ONLY <1>2, <2>3
    <2>5. QED
      BY <2>4
  <1>8. ASSUME ~(B < buckets) PROVE e <= B * n
    <2>1. buckets * n <= B * n /\ buckets * n = n * buckets
      BY <1>2, <1>3, <1>8, MulMono
    <2>2. QED
      BY <1>2, <2>1
  <1> PICK x : x = B * n
    OBVIOUS
  <1>9. x \in Nat /\ Ranked(s, k) = IF B < buckets THEN x ELSE e
    <2>1. x \in Nat /\ Ranked(s, k) = IF x <= e THEN x ELSE e
      BY <1>3, <1>6
    <2>2. B < buckets => x < e
      BY <1>7
    <2>3. ~(B < buckets) => e <= x
      BY <1>8
    <2>4. QED
      BY ONLY <1>2, <1>3, <2>1, <2>2, <2>3
  <1>10. B < buckets => B * n \in Nat /\ B * n < e
    BY <1>3, <1>7
  <1>11. ReachedAt(s, k, B)
    BY <1>1, <1>3, <1>9, <1>10 DEF ReachedAt
  <1>12. QED
    BY <1>11

(* Samples further up rank no lower, and none beyond the end of the range. *)
LEMMA RankedGrows ==
    ASSUME NEW s \in Samples, NEW k \in Nat \ {0}, NEW m \in Nat, k <= m, m <= Count(s)
    PROVE  /\ Ranked(s, k) \in Nat /\ Ranked(s, m) \in Nat
           /\ Ranked(s, k) <= Ranked(s, m) /\ Ranked(s, m) <= EndOfScale
  <1>1. k \in Int /\ m \in Nat \ {0} /\ Count(s) \in Nat /\ k <= Count(s)
    BY SampleSizes
  <1>2. PICK B : ReachedAt(s, k, B)
    BY <1>1, RankedIs
  <1>3. PICK C : ReachedAt(s, m, C)
    BY <1>1, RankedIs
  <1> PICK n, e, x, y, r, q : /\ n = bucket_ns /\ e = EndOfScale /\ x = B * bucket_ns
                              /\ y = C * bucket_ns /\ r = Ranked(s, k) /\ q = Ranked(s, m)
    OBVIOUS
  <1>4. e \in Nat /\ n \in Nat /\ buckets \in Nat
    BY VerdictConstants DEF EndOfScale
  <1>5. B \in Nat /\ C \in Nat /\ B <= C
    <2>1. B \in Nat /\ C \in Nat /\ Total(s, Low(C)) >= m
      BY <1>2, <1>3 DEF ReachedAt
    <2>2. Total(s, Low(C)) \in Nat
      BY LowIs, SampleSizes
    <2>3. Total(s, Low(C)) >= k
      BY <1>1, <2>1, <2>2
    <2>4. QED
      BY <1>2, <2>1, <2>3 DEF ReachedAt
  <1>6. x \in Nat /\ y \in Nat /\ x <= y
    BY <1>4, <1>5, MulMono
  <1>7. /\ r = (IF B < buckets THEN x ELSE e) /\ q = (IF C < buckets THEN y ELSE e)
        /\ B < buckets => x < e
        /\ C < buckets => y < e
    BY <1>2, <1>3 DEF ReachedAt
  <1>8. r \in Nat /\ q \in Nat /\ r <= q /\ q <= e
    BY ONLY <1>4, <1>5, <1>6, <1>7
  <1>9. QED
    BY <1>8

(* The number of samples a share of them asks for. *)
LEMMA ShareOf ==
    ASSUME NEW n \in Nat \ {0}, NEW x \in Nat
    PROVE  LET q == x \div n
               a == q + (IF x % n = 0 THEN 0 ELSE 1)
           IN  \A t \in Nat : n * t >= x <=> t >= a
  <1> PICK q, a, y : q = x \div n /\ a = q + (IF x % n = 0 THEN 0 ELSE 1) /\ y = n * q
    OBVIOUS
  <1>1. q \in Nat /\ y \in Nat /\ y <= x /\ x < y + n
    BY DivFacts
  <1>2. x % n = 0 <=> x = y
    <2>1. x = n * q + (x % n)
      OBVIOUS
    <2> PICK r : r = x % n
      OBVIOUS
    <2>2. r \in Int /\ x = y + r
      BY <2>1
    <2>3. r = 0 <=> x = y
      BY ONLY <1>1, <2>2
    <2>4. QED
      BY <2>3
  <1>3. a \in Nat /\ a = IF x = y THEN q ELSE q + 1
    BY <1>1, <1>2
  <1>4. ASSUME NEW t \in Nat PROVE n * t >= x <=> t >= a
    <2> PICK z : z = n * t
      OBVIOUS
    <2>1. z \in Nat
      OBVIOUS
    <2>2. t <= q => z <= y
      <3>1. t <= q => t * n <= q * n
        BY <1>1, MulMono
      <3>2. t * n = z /\ q * n = y
        BY <1>1
      <3>3. QED
        BY <3>1, <3>2
    <2>3. q <= t => y <= z
      <3>1. q <= t => q * n <= t * n
        BY <1>1, MulMono
      <3>2. t * n = z /\ q * n = y
        BY <1>1
      <3>3. QED
        BY <3>1, <3>2
    <2>4. q + 1 <= t => y + n <= z
      <3>1. q + 1 <= t => (q + 1) * n <= t * n
        BY <1>1, MulMono
      <3>2. t * n = z /\ (q + 1) * n = y + n
        BY <1>1
      <3>3. QED
        BY <3>1, <3>2
    <2>5. t + 1 <= q => z + n <= y
      <3>1. t + 1 <= q => (t + 1) * n <= q * n
        BY <1>1, MulMono
      <3>2. (t + 1) * n = z + n /\ q * n = y
        BY <1>1
      <3>3. QED
        BY <3>1, <3>2
    <2>6. z >= x <=> t >= a
      BY ONLY <1>1, <1>3, <2>1, <2>2, <2>3, <2>4, <2>5, n \in Nat \ {0}, x \in Nat, t \in Nat
    <2>7. QED
      BY <2>6
  <1>5. QED
    BY <1>4

LEMMA AskedIs ==
    ASSUME NEW p \in 1..PDen, NEW s \in Samples, NEW c, c = Count(s)
    PROVE  LET want == (p * c) \div PDen
           IN  /\ c \in Nat /\ want \in Nat /\ want <= c
               /\ Asked(s, p) = (IF WholeShare(s, p) THEN want ELSE want + 1)
               /\ Asked(s, p) \in Nat /\ Asked(s, p) <= c
               /\ c > 0 => Asked(s, p) > 0
               /\ \A t \in Nat : PDen * t >= p * c <=> t >= Asked(s, p)
  <1> PICK n, x, q, a : n = PDen /\ x = p * c /\ q = x \div n /\ a = Asked(s, p)
    OBVIOUS
  <1>1. n \in Nat \ {0} /\ p \in Nat \ {0} /\ p <= n /\ c \in Nat
    BY VerdictConstants, SampleSizes
  <1>2. x \in Nat /\ p \in 0..PDen
    BY <1>1
  <1>3. q \in Nat /\ q <= c
    BY <1>1, <1>2, WantIs
  <1>4. WholeShare(s, p) <=> x % n = 0
    BY DEF WholeShare
  <1>5. a = q + (IF x % n = 0 THEN 0 ELSE 1)
    BY <1>4 DEF Asked
  <1>6. a = (IF WholeShare(s, p) THEN q ELSE q + 1) /\ a \in Nat
    BY <1>3, <1>4, <1>5
  <1>7. \A t \in Nat : n * t >= x <=> t >= a
    BY <1>1, <1>2, <1>5, ShareOf
  <1>8. a <= c
    <2>1. p * c <= n * c
      BY <1>1, MulMono
    <2>2. n * c >= x
      <3> PICK y : y = n * c
        OBVIOUS
      <3>1. y \in Int /\ x <= y
        BY <1>1, <2>1
      <3>2. QED
        BY <1>2, <3>1
    <2>3. c >= a
      BY <1>1, <1>7, <2>2
    <2>4. QED
      BY <1>1, <1>6, <2>3
  <1>9. ASSUME c > 0 PROVE a > 0
    <2>1. x > 0
      BY <1>1, <1>9
    <2>2. n * 0 = 0
      BY <1>1
    <2>3. ~(n * 0 >= x)
      BY <1>2, <2>1, <2>2
    <2>4. ~(0 >= a)
      BY <1>7, <2>3
    <2>5. QED
      BY <1>6, <2>4
  <1>10. QED
    BY <1>1, <1>3, <1>6, <1>7, <1>8, <1>9

(* A result that says ns, and says it is beyond the range when it is.      *)
Says(r, ns) == r.ns = ns /\ (r.beyond <=> ns = EndOfScale)

LEMMA Saying ==
    ASSUME NEW r, NEW ns, \/ r = [ns |-> ns, beyond |-> FALSE] /\ ns # EndOfScale
                          \/ r = [ns |-> ns, beyond |-> TRUE] /\ ns = EndOfScale
    PROVE  Says(r, ns)
  BY DEF Says

(* What pct returns for the histogram of some samples: the sample whose    *)
(* rank is the wanted count, which is cut to a whole number.               *)
LEMMA PctIs ==
    ASSUME NEW h \in Histogram, NEW s \in Samples, Tells(h, s), NEW p \in 1..PDen,
           NEW want, want = (p * Count(s)) \div PDen
    PROVE  Says(pct(h, p), IF want = 0 THEN 0 ELSE Ranked(s, want))
  <1> PICK c, n, k, e, r : c = Count(s) /\ n = bucket_ns /\ k = buckets /\ e = EndOfScale /\ r = pct(h, p)
    OBVIOUS
  <1> DEFINE at == {b \in Bins : Total(h.counts, 0..b) >= want}
  <1>1. /\ c \in Nat /\ h.total = c /\ want \in Nat /\ want <= c
        /\ n \in Nat \ {0} /\ k \in Nat \ {0} /\ e \in Nat \ {0} /\ e = n * k
    BY SampleSizes, AskedIs, TellsIs, VerdictConstants DEF EndOfScale
  <1>2. {b \in 0..(buckets - 1) : UpTo(h.counts, b) >= want} = at
    <2>1. \A b : UpTo(h.counts, b) = Total(h.counts, 0..b)
      BY SampleSums
    <2>2. QED
      BY <2>1 DEF Bins, LastBucket
  <1>3. r = CASE c = 0 -> [ns |-> 0, beyond |-> FALSE]
              [] c > 0 /\ at # {} -> [ns |-> Min(at) * n, beyond |-> FALSE]
              [] OTHER -> [ns |-> k * n, beyond |-> TRUE]
    BY <1>1, <1>2 DEF pct
  <1>4. at = {b \in Bins : Total(s, Low(b)) >= want}
    BY TellsIs
  <1>5. \A b \in Bins : b \in Nat /\ b < k
    BY VerdictConstants DEF Bins, LastBucket
  <1> HIDE DEF at
  <1>6. CASE want = 0
    <2>1. r = [ns |-> 0, beyond |-> FALSE]
      <3>1. CASE c = 0
        BY <1>3, <3>1
      <3>2. CASE c # 0
        <4>1. 0 \in Bins
          BY VerdictConstants DEF Bins
        <4>2. Total(s, Low(0)) \in Nat
          BY LowIs, SampleSizes
        <4>3. 0 \in at
          BY <1>4, <1>6, <4>1, <4>2
        <4>4. Min(at) \in at /\ \A y \in at : Min(at) <= y
          <5>1. 0 \in at /\ \A y \in at : 0 =< y
            BY <1>4, <1>5, <4>3
          <5>2. QED
            BY <5>1 DEF Min
        <4>5. Min(at) = 0
          <5> PICK y : y = Min(at)
            OBVIOUS
          <5>1. y \in Nat /\ y <= 0
            BY <1>4, <1>5, <4>3, <4>4
          <5>2. QED
            BY <5>1
        <4>6. Min(at) * n = 0 /\ c > 0
          BY <1>1, <3>2, <4>5
        <4>7. QED
          BY <1>3, <4>3, <4>6
      <3>3. QED
        BY <3>1, <3>2
    <2>2. Says(r, 0)
      BY <1>1, <2>1, Saying
    <2>3. QED
      BY <1>6, <2>2
  <1>7. CASE want # 0
    <2>1. PICK B : ReachedAt(s, want, B)
      BY <1>1, <1>7, RankedIs
    <2>2. /\ B \in Nat /\ \A b \in Nat : Total(s, Low(b)) >= want <=> B <= b
          /\ Ranked(s, want) = IF B < k THEN B * n ELSE e
          /\ B < k => B * n \in Nat /\ B * n < e
      BY <2>1 DEF ReachedAt
    <2>3. at = {b \in Bins : B <= b}
      BY <1>4, <1>5, <2>2
    <2>4. CASE B < k
      <3>1. B \in Bins
        BY <1>1, <2>2, <2>4, VerdictConstants DEF Bins, LastBucket
      <3>2. Min(at) = B
        <4>1. B \in at /\ \A y \in at : B =< y
          BY <1>5, <2>2, <2>3, <3>1
        <4>2. Min(at) \in at /\ \A y \in at : Min(at) =< y
          BY <4>1 DEF Min
        <4>3. Min(at) \in Nat
          BY <1>5, <2>3, <4>2
        <4>4. QED
          BY <2>2, <4>1, <4>2, <4>3
      <3>3. at # {} /\ c > 0
        BY <1>1, <1>7, <2>2, <2>3, <3>1
      <3>4. r = [ns |-> B * n, beyond |-> FALSE]
        BY <1>1, <1>3, <3>2, <3>3
      <3>5. B * n # e
        BY <1>1, <2>2, <2>4
      <3>6. Says(r, B * n)
        BY <3>4, <3>5, Saying
      <3>7. Ranked(s, want) = B * n
        BY <2>2, <2>4
      <3>8. QED
        BY <1>7, <3>6, <3>7
    <2>5. CASE ~(B < k)
      <3>1. at = {}
        BY <1>1, <1>5, <2>2, <2>3, <2>5
      <3>2. r = [ns |-> k * n, beyond |-> TRUE]
        BY <1>1, <1>3, <1>7, <3>1
      <3>3. k * n = e
        BY <1>1
      <3>4. Says(r, e)
        BY <3>2, <3>3, Saying
      <3>5. Ranked(s, want) = e
        BY <2>2, <2>5
      <3>6. QED
        BY <1>7, <3>4, <3>5
    <2>6. QED
      BY <2>4, <2>5
  <1>8. QED
    BY <1>6, <1>7

(* It is the percentile, or one sample low where the share is not whole.   *)
LEMMA PctHolds ==
    ASSUME NEW h \in Histogram, NEW s \in Samples, Tells(h, s), NEW p \in 1..PDen
    PROVE  /\ NearlyExact(pct(h, p), s, p)
           /\ pct(h, p).ns \in Nat /\ pct(h, p).ns <= EndOfScale
  <1> PICK c, want, a, e, r, m, w :
        /\ c = Count(s) /\ want = (p * c) \div PDen /\ a = Asked(s, p) /\ e = EndOfScale
        /\ r = pct(h, p) /\ m = (IF want = 0 THEN 0 ELSE Ranked(s, want)) /\ w = WholeShare(s, p)
    OBVIOUS
  <1>1. /\ c \in Nat /\ want \in Nat /\ want <= c /\ a \in Nat /\ a <= c /\ (c > 0 => a > 0)
        /\ a = (IF w THEN want ELSE want + 1) /\ e \in Nat \ {0}
    BY AskedIs, VerdictConstants DEF EndOfScale
  <1>2. Says(r, m)
    BY PctIs
  <1>3. r.ns = m /\ (r.beyond <=> m = e)
    BY <1>2 DEF Says
  <1> PICK q : q = Percentile(s, p)
    OBVIOUS
  <1>4. q = IF c = 0 THEN 0 ELSE Ranked(s, a)
    BY DEF Percentile
  <1>5. CASE c = 0
    <2>1. want = 0 /\ m = 0 /\ q = 0
      BY <1>1, <1>4, <1>5
    <2>2. NearlyExact(r, s, p)
      BY <1>1, <1>3, <2>1 DEF NearlyExact
    <2>3. QED
      BY <1>1, <1>3, <2>1, <2>2
  <1>6. CASE c # 0
    <2>1. a \in Nat \ {0} /\ q = Ranked(s, a) /\ q \in Nat /\ q <= e
      <3>1. a \in Nat \ {0}
        BY <1>1, <1>6
      <3>2. Ranked(s, a) \in Nat /\ Ranked(s, a) <= e
        BY <1>1, <3>1, RankedGrows
      <3>3. QED
        BY <1>4, <1>6, <3>1, <3>2
    <2>2. m \in Nat /\ m <= q /\ (w => m = q) /\ (a > 1 /\ ~w => m = Ranked(s, a - 1))
      <3>1. CASE want = 0
        BY <1>1, <2>1, <3>1
      <3>2. CASE want # 0
        <4>1. m = Ranked(s, want) /\ want \in Nat \ {0} /\ want <= a
          BY <1>1, <3>2
        <4>2. m \in Nat /\ m <= q
          BY <1>1, <2>1, <4>1, RankedGrows
        <4>3. w => m = q
          BY <1>1, <2>1, <4>1
        <4>4. ~w => a - 1 = want
          BY <1>1
        <4>5. QED
          BY <4>1, <4>2, <4>3, <4>4
      <3>3. QED
        BY <3>1, <3>2
    <2>3. m <= e
      BY <1>1, <2>1, <2>2
    <2>4. NearlyExact(r, s, p)
      BY <1>3, <2>2 DEF NearlyExact
    <2>5. QED
      BY <1>3, <2>2, <2>3, <2>4
  <1>7. QED
    BY <1>5, <1>6

(* The sum of the second components of some pairs. *)
LEMMA SecondsSum ==
    ASSUME NEW R, IsFiniteSet(R), \A row \in R : row[2] \in Int
    PROVE  LET f == [row \in R |-> row[2]]
           IN  Numbered(f, R) /\ MapThenSumSet(LAMBDA row : row[2], R) = Total(f, R)
  <1> DEFINE Obeys(I) == I = [s \in SUBSET R |->
                IF s = {} THEN 0 ELSE PickOf(s)[2] + I[s \ {PickOf(s)}]]
  <1>1. MapThenSumSet(LAMBDA row : row[2], R) = (CHOOSE I : Obeys(I))[R]
    BY DEF MapThenSumSet, MapThenFoldSet, PickOf
  <1> PICK f : f = [row \in R |-> row[2]]
    OBVIOUS
  <1>2. Numbered(f, R)
    BY DEF Numbered
  <1>3. ASSUME NEW I PROVE Obeys(I) <=> Sums(f, R, I)
    <2>1. \A s \in SUBSET R : s # {} => f[PickOf(s)] = PickOf(s)[2]
      BY PickIs
    <2>2. [s \in SUBSET R |-> IF s = {} THEN 0 ELSE PickOf(s)[2] + I[s \ {PickOf(s)}]]
            = [s \in SUBSET R |-> IF s = {} THEN 0 ELSE f[PickOf(s)] + I[s \ {PickOf(s)}]]
      BY <2>1
    <2>3. QED
      BY <2>2 DEF Sums
  <1> PICK I : I = CHOOSE J : Obeys(J)
    OBVIOUS
  <1>4. \E J : Obeys(J)
    BY <1>2, <1>3, SumsExist
  <1> HIDE DEF Obeys
  <1>5. Sums(f, R, I)
    BY <1>3, <1>4
  <1>6. PICK J : Sums(f, R, J) /\ Total(f, R) = J[R]
    BY <1>2, SumsExist DEF Total
  <1>7. I[R] = J[R]
    BY <1>2, <1>5, <1>6, SumsAgree
  <1>8. MapThenSumSet(LAMBDA row : row[2], R) = Total(f, R)
    BY <1>1, <1>6, <1>7
  <1>9. QED
    BY <1>2, <1>8

(* The buckets a dump has a row for. *)
Occupied(h) == {b \in Bins : h.counts[b] > 0}

(* The rows of a dump give their counts back. *)
LEMMA DumpTells ==
    ASSUME NEW h \in Histogram, NEW d, d = parsed(dump_histogram(h))
    PROVE  d.total = h.total /\ d.counts = [b \in Occupied(h) |-> h.counts[b]]
  <1> PICK rows, c : rows = dump_histogram(h).rows /\ c = h.counts
    OBVIOUS
  <1>1. c \in [Bins -> Nat] /\ h.total \in Nat
    BY DEF Histogram, Bins, LastBucket
  <1>2. rows = {<<b, c[b]>> : b \in {x \in Bins : c[x] > 0}}
    BY <1>1 DEF dump_histogram
  <1>3. d.total = h.total
    BY DEF parsed, dump_histogram
  <1>4. d.counts = [b \in {row[1] : row \in rows} |->
                      MapThenSumSet(LAMBDA row : row[2], {row \in rows : row[1] = b})]
    BY DEF parsed
  <1>5. {row[1] : row \in rows} = Occupied(h)
    <2>1. ASSUME NEW row \in rows PROVE row[1] \in Occupied(h)
      <3>1. PICK b \in Bins : c[b] > 0 /\ row = <<b, c[b]>>
        BY <1>2
      <3>2. QED
        BY <3>1 DEF Occupied
    <2>2. ASSUME NEW b \in Occupied(h) PROVE \E row \in rows : row[1] = b
      <3>1. <<b, c[b]>> \in rows /\ <<b, c[b]>>[1] = b
        BY <1>2 DEF Occupied
      <3>2. QED
        BY <3>1
    <2>3. QED
      BY <2>1, <2>2
  <1>6. ASSUME NEW b \in Occupied(h)
        PROVE  MapThenSumSet(LAMBDA row : row[2], {row \in rows : row[1] = b}) = c[b]
    <2> PICK R, x : R = {row \in rows : row[1] = b} /\ x = <<b, c[b]>>
      OBVIOUS
    <2>1. c[b] \in Nat /\ R = {x} /\ x[2] = c[b]
      <3>1. b \in Bins /\ c[b] > 0
        BY DEF Occupied
      <3>2. ASSUME NEW row PROVE row \in R <=> row = x
        BY <1>2, <3>1
      <3>3. QED
        BY <1>1, <3>1, <3>2
    <2>2. IsFiniteSet(R) /\ \A row \in R : row[2] \in Int
      <3>1. IsFiniteSet({x}) /\ \A row \in R : row = x
        BY <2>1, FS_Singleton
      <3>2. x[2] \in Int
        BY <2>1
      <3>3. IsFiniteSet(R)
        BY ONLY <2>1, <3>1
      <3>4. QED
        BY ONLY <3>1, <3>2, <3>3
    <2> PICK f : f = [row \in R |-> row[2]]
      OBVIOUS
    <2>3. Numbered(f, R) /\ MapThenSumSet(LAMBDA row : row[2], R) = Total(f, R)
      BY <2>2, SecondsSum
    <2>4. R \ {x} = {} /\ x \in R /\ Numbered(f, {})
      BY <2>1, FS_EmptySet DEF Numbered
    <2>5. Total(f, R) = f[x] + Total(f, R \ {x})
      BY <2>3, <2>4, TotalIs
    <2>6. Total(f, R \ {x}) = 0
      BY <2>4, TotalIs
    <2>7. f[x] = c[b]
      BY <2>1, <2>4
    <2>8. QED
      BY <2>1, <2>3, <2>5, <2>6, <2>7
  <1>7. d.counts = [b \in Occupied(h) |-> c[b]]
    BY <1>4, <1>5, <1>6
  <1>8. QED
    BY <1>3, <1>7

(* Zeros left out of a sum. *)
LEMMA ZerosAddNothing ==
    ASSUME NEW f, NEW S, Numbered(f, S), NEW R \in SUBSET S, \A x \in S \ R : f[x] = 0
    PROVE  Total(f, R) = Total(f, S)
  <1> DEFINE T == {s \in SUBSET S : Total(f, s \cap R) = Total(f, s)}
  <1>1. \A s \in SUBSET S : Numbered(f, s)
    BY FS_Subset DEF Numbered
  <1>2. {} \in T
    <2>1. {} \cap R = {}
      OBVIOUS
    <2>2. QED
      BY <2>1
  <1>3. ASSUME NEW s \in SUBSET S, NEW x \in s, s \ {x} \in T PROVE s \in T
    <2>1. Total(f, (s \ {x}) \cap R) = Total(f, s \ {x})
      BY <1>3
    <2>2. Total(f, s) = f[x] + Total(f, s \ {x}) /\ Total(f, s \ {x}) \in Int
      BY <1>1, TotalIs
    <2>3. CASE x \in R
      <3>1. x \in s \cap R /\ (s \cap R) \ {x} = (s \ {x}) \cap R
        BY <2>3
      <3>2. Numbered(f, s \cap R)
        BY <1>1
      <3>3. Total(f, s \cap R) = f[x] + Total(f, (s \cap R) \ {x})
        BY <3>1, <3>2, TotalIs
      <3>4. QED
        BY <2>1, <2>2, <3>1, <3>3
    <2>4. CASE x \notin R
      <3>1. s \cap R = (s \ {x}) \cap R /\ f[x] = 0
        BY <2>4
      <3>2. Total(f, s \cap R) = Total(f, s \ {x})
        BY ONLY <2>1, <3>1
      <3>3. Total(f, s) = Total(f, s \ {x})
        BY <2>2, <3>1
      <3>4. QED
        BY <3>2, <3>3
    <2>5. QED
      BY <2>3, <2>4
  <1> HIDE DEF T
  <1>4. S \in T
    BY <1>2, <1>3, FiniteInduction DEF Numbered
  <1>5. S \cap R = R
    OBVIOUS
  <1>6. QED
    BY <1>4, <1>5 DEF T

(* What merge.py has seen up to a row of the dump. *)
LEMMA SeenIs ==
    ASSUME NEW h \in Histogram, NEW s \in Samples, Tells(h, s), NEW b \in Bins,
           NEW counts, counts = [x \in Occupied(h) |-> h.counts[x]]
    PROVE  SeenUpTo(counts, b) = Total(s, Low(b))
  <1> PICK c, R : c = h.counts /\ R = {x \in Occupied(h) : x <= b}
    OBVIOUS
  <1>1. c \in [Bins -> Nat] /\ Bins \subseteq Nat
    BY VerdictConstants DEF Histogram, Bins, LastBucket
  <1>2. SeenUpTo(counts, b) = Total(counts, R)
    <2>1. {x \in DOMAIN counts : x <= b} = R
      OBVIOUS
    <2>2. SeenUpTo(counts, b) = Total(counts, {x \in DOMAIN counts : x <= b})
      BY DEF SeenUpTo, MapThenSumSet, MapThenFoldSet, Total, Sums, PickOf
    <2>3. QED
      BY <2>1, <2>2
  <1>3. R \in SUBSET (0..b) /\ 0..b \subseteq Bins /\ IsFiniteSet(0..b)
    <2>1. b \in Nat /\ b <= LastBucket /\ LastBucket \in Nat
      BY VerdictConstants DEF Bins
    <2>2. IsFiniteSet(0..b)
      BY <2>1, FS_Interval
    <2>3. R \subseteq 0..b
      <3>1. ASSUME NEW x \in R PROVE x \in 0..b
        <4>1. x \in Bins /\ x <= b
          BY DEF Occupied
        <4>2. QED
          BY <1>1, <2>1, <4>1
      <3>2. QED
        BY <3>1
    <2>4. 0..b \subseteq Bins
      BY <2>1 DEF Bins
    <2>5. QED
      BY <2>2, <2>3, <2>4
  <1>4. Numbered(c, 0..b) /\ Numbered(c, R)
    BY <1>1, <1>3, FS_Subset DEF Numbered
  <1>5. Total(c, R) = Total(counts, R)
    <2>1. \A x \in R : c[x] = counts[x]
      OBVIOUS
    <2>2. QED
      BY ONLY <1>4, <2>1, TotalSame
  <1>6. \A x \in (0..b) \ R : c[x] = 0
    BY <1>1, <1>3 DEF Occupied
  <1>7. Total(c, R) = Total(c, 0..b)
    BY ONLY <1>3, <1>4, <1>6, ZerosAddNothing
  <1>8. QED
    BY <1>2, <1>5, <1>7, TellsIs

(* merge.py finds the percentile in the dump. *)
LEMMA MergeIsExact ==
    ASSUME NEW h \in Histogram, NEW s \in Samples, Tells(h, s), NEW p \in 1..PDen,
           NEW d, d = parsed(dump_histogram(h))
    PROVE  IsExact(merge_pct(d, p), s, p)
  <1> PICK c, a, n, k, e, r, q :
        /\ c = Count(s) /\ a = Asked(s, p) /\ n = bucket_ns /\ k = buckets /\ e = EndOfScale
        /\ r = merge_pct(d, p) /\ q = Percentile(s, p)
    OBVIOUS
  <1> DEFINE at == {b \in Occupied(h) : a <= Total(s, Low(b))}
  <1>1. /\ c \in Nat /\ a \in Nat /\ a <= c /\ (c > 0 => a > 0)
        /\ n \in Nat \ {0} /\ k \in Nat \ {0} /\ e \in Nat \ {0}
        /\ \A t \in Nat : PDen * t >= p * c <=> t >= a
    BY AskedIs, VerdictConstants DEF EndOfScale
  <1>2. d.total = c /\ d.counts = [b \in Occupied(h) |-> h.counts[b]] /\ DOMAIN d.counts = Occupied(h)
    BY DumpTells, TellsIs
  <1>3. Occupied(h) \subseteq Bins /\ \A b \in Bins : b \in Nat /\ b < k
    BY VerdictConstants DEF Occupied, Bins, LastBucket
  <1>4. {b \in DOMAIN d.counts : PDen * SeenUpTo(d.counts, b) >= p * d.total} = at
    <2>1. ASSUME NEW b \in Occupied(h)
          PROVE  PDen * SeenUpTo(d.counts, b) >= p * d.total <=> a <= Total(s, Low(b))
      <3>1. SeenUpTo(d.counts, b) = Total(s, Low(b))
        BY <1>2, <1>3, SeenIs
      <3>2. Total(s, Low(b)) \in Nat
        BY LowIs, SampleSizes
      <3>3. PDen * Total(s, Low(b)) >= p * c <=> Total(s, Low(b)) >= a
        BY <1>1, <3>2
      <3> PICK t : t = Total(s, Low(b))
        OBVIOUS
      <3>4. t >= a <=> a <= t
        BY <1>1, <3>2
      <3>5. QED
        BY <1>2, <3>1, <3>3, <3>4
    <2>2. QED
      BY <1>2, <2>1
  <1>5. r = CASE c = 0 -> [ns |-> 0, beyond |-> FALSE]
              [] c > 0 /\ at # {} -> [ns |-> Min(at) * n, beyond |-> FALSE]
              [] OTHER -> [ns |-> IF DOMAIN d.counts = {} THEN 0
                                  ELSE Max(DOMAIN d.counts) * n, beyond |-> TRUE]
    BY <1>2, <1>4 DEF merge_pct
  <1>6. q = IF c = 0 THEN 0 ELSE Ranked(s, a)
    BY DEF Percentile
  <1>7. ASSUME r.ns = q, r.beyond = FALSE, q # e PROVE IsExact(r, s, p)
    BY <1>7 DEF IsExact
  <1>8. ASSUME r.beyond = TRUE, q = e PROVE IsExact(r, s, p)
    BY <1>8 DEF IsExact
  <1> HIDE DEF at
  <1>9. CASE c = 0
    <2>1. r = [ns |-> 0, beyond |-> FALSE] /\ q = 0
      BY <1>5, <1>6, <1>9
    <2>2. QED
      BY <1>1, <1>7, <2>1
  <1>10. CASE c # 0
    <2>1. a \in Nat \ {0} /\ c > 0 /\ q = Ranked(s, a)
      BY <1>1, <1>6, <1>10
    <2>2. PICK B : ReachedAt(s, a, B)
      BY <1>1, <2>1, RankedIs
    <2>3. /\ B \in Nat /\ \A b \in Nat : a <= Total(s, Low(b)) <=> B <= b
          /\ q = IF B < k THEN B * n ELSE e
          /\ B < k => B * n \in Nat /\ B * n < e
      <3>1. \A b \in Nat : Total(s, Low(b)) \in Nat
        BY LowIs, SampleSizes
      <3>2. \A b \in Nat : a <= Total(s, Low(b)) <=> Total(s, Low(b)) >= a
        BY <1>1, <3>1
      <3>3. QED
        BY <2>1, <2>2, <3>2 DEF ReachedAt
    <2>4. at = {b \in Occupied(h) : B <= b}
      BY <1>3, <2>3 DEF at
    <2>5. CASE B < k
      <3>1. B \in Bins
        BY <1>1, <2>3, <2>5, VerdictConstants DEF Bins, LastBucket
      <3>2. h.counts[B] > 0
        <4> PICK f, now_at, before : /\ f = h.counts /\ now_at = Total(h.counts, 0..B)
                                     /\ before = Total(h.counts, (0..B) \ {B})
          OBVIOUS
        <4>1. f \in [Bins -> Nat] /\ 0..B \subseteq Bins /\ IsFiniteSet(0..B) /\ B \in 0..B
          <5>1. B <= LastBucket /\ LastBucket \in Nat
            BY <3>1, VerdictConstants DEF Bins
          <5>2. IsFiniteSet(0..B)
            BY <2>3, FS_Interval
          <5>3. QED
            BY <2>3, <5>1, <5>2 DEF Histogram, Bins, LastBucket
        <4>2. Numbered(f, 0..B) /\ Numbered(f, (0..B) \ {B})
          BY <4>1, FS_Subset DEF Numbered
        <4>3. now_at = f[B] + before /\ before \in Int /\ f[B] \in Nat
          BY <4>1, <4>2, TotalIs
        <4>4. a <= now_at
          <5>1. now_at = Total(s, Low(B))
            BY <3>1, TellsIs
          <5>2. B <= B
            BY <2>3
          <5>3. QED
            BY <2>3, <5>1, <5>2
        <4>5. ~(a <= before)
          <5>1. CASE B = 0
            <6>1. (0..B) \ {B} = {}
              BY <5>1
            <6>2. before = 0
              BY <4>2, <6>1, TotalIs
            <6>3. QED
              BY <2>1, <6>2
          <5>2. CASE B # 0
            <6> PICK y : y = B - 1
              OBVIOUS
            <6>1. y \in Bins /\ y \in Nat /\ ~(B <= y) /\ (0..B) \ {B} = 0..y
              BY <2>3, <3>1, <5>2, VerdictConstants DEF Bins
            <6>2. before = Total(s, Low(y))
              BY <6>1, TellsIs
            <6>3. QED
              BY <2>3, <6>1, <6>2
          <5>3. QED
            BY <5>1, <5>2
        <4>6. f[B] > 0
          BY <2>1, <4>3, <4>4, <4>5
        <4>7. QED
          BY <4>6
      <3>3. B \in at /\ \A y \in at : B =< y
        BY <2>3, <2>4, <3>1, <3>2 DEF Occupied
      <3>4. Min(at) = B
        <4>1. Min(at) \in at /\ \A y \in at : Min(at) =< y
          BY <3>3 DEF Min
        <4>2. Min(at) \in Nat
          BY <1>3, <2>4, <4>1
        <4>3. QED
          BY <2>3, <3>3, <4>1, <4>2
      <3>5. r = [ns |-> B * n, beyond |-> FALSE]
        BY <1>5, <2>1, <3>3, <3>4
      <3>6. q = B * n /\ q # e
        BY <1>1, <2>3, <2>5
      <3>7. QED
        BY <1>7, <3>5, <3>6
    <2>6. CASE ~(B < k)
      <3>1. at = {}
        BY <1>1, <1>3, <2>3, <2>4, <2>6
      <3>2. r = [ns |-> IF DOMAIN d.counts = {} THEN 0
                        ELSE Max(DOMAIN d.counts) * n, beyond |-> TRUE]
        BY <1>5, <2>1, <3>1
      <3>3. r.beyond = TRUE /\ q = e
        BY <2>3, <2>6, <3>2
      <3>4. QED
        BY <1>8, <3>3
    <2>7. QED
      BY <2>5, <2>6
  <1>11. QED
    BY <1>9, <1>10

-----------------------------------------------------------------------------
LEMMA VerdictInitInv == VerdictInit => VerdictInv
  <1> SUFFICES ASSUME VerdictInit PROVE VerdictInv
    OBVIOUS
  <1> DEFINE c == [b \in 0..(buckets - 1) |-> 0]
             s == [v \in Ns |-> 0]
  <1>1. /\ phase = "traffic" /\ st.latency = histogram /\ st.self_lag = histogram
        /\ st.cpu = Unread /\ seen.latency = s /\ seen.self_lag = s
    BY DEF VerdictInit
  <1>2. histogram \in Histogram /\ histogram.counts = c /\ histogram.total = 0
    BY DEF histogram, Histogram, INT64_MAX
  <1>3. VerdictTypeOK
    BY <1>2 DEF VerdictInit, VerdictTypeOK, Unread
  <1>4. ASSUME NEW f, NEW R, IsFiniteSet(R), \A x \in R : f[x] = 0 PROVE Total(f, R) = 0
    <2>1. Numbered(f, R) /\ \A x \in R : 0 <= f[x] /\ f[x] <= 0
      BY <1>4 DEF Numbered
    <2>2. 0 * Cardinality(R) <= Total(f, R) /\ Total(f, R) <= 0 * Cardinality(R)
      BY <2>1, TotalBetween
    <2>3. Total(f, R) \in Int /\ Cardinality(R) \in Nat
      BY <1>4, <2>1, TotalIs, FS_CardinalityType
    <2>4. QED
      BY <2>2, <2>3
  <1>5. Tells(histogram, s)
    <2>1. Count(s) = 0
      <3>1. Total(s, Ns) = 0
        BY <1>4, VerdictConstants
      <3>2. QED
        BY <3>1, SampleSums
    <2>2. ASSUME NEW b \in Bins PROVE Total(c, 0..b) = Total(s, Low(b))
      <3>1. IsFiniteSet(0..b) /\ \A x \in 0..b : c[x] = 0
        <4>1. b \in Nat /\ b <= buckets - 1 /\ buckets \in Nat
          BY VerdictConstants DEF Bins, LastBucket
        <4>2. IsFiniteSet(0..b)
          BY <4>1, FS_Interval
        <4>3. QED
          BY <4>1, <4>2
      <3>2. IsFiniteSet(Low(b)) /\ \A x \in Low(b) : s[x] = 0
        BY LowIs, VerdictConstants, FS_Subset
      <3>3. Total(c, 0..b) = 0 /\ Total(s, Low(b)) = 0
        <4> HIDE DEF c, s
        <4>1. QED
          BY <1>4, <3>1, <3>2
      <3>4. QED
        BY <3>3
    <2> HIDE DEF c, s
    <2>3. QED
      BY <1>2, <2>1, <2>2, TellsIs
  <1>6. QED
    BY <1>1, <1>3, <1>5 DEF VerdictInv

-----------------------------------------------------------------------------
(* The parts of the invariant. *)
Stats == [latency : Histogram, self_lag : Histogram, sent : Nat, frames_in : Nat,
          lost_conns : Nat, cpu : Int, wall : Nat]
Seen == [latency : Samples, self_lag : Samples, cpu : Nat, wall : Nat]
StateIs ==
    /\ phase \in {"traffic", "drain", "reported"} /\ cpu0 \in {Unread, 0}
    /\ now \in [cpu : Nat, wall : Nat] /\ st \in Stats /\ seen \in Seen
WindowIs ==
    /\ phase = "traffic" => st.cpu = Unread
    /\ phase # "traffic" /\ st.cpu # Unread => st.cpu = seen.cpu /\ st.wall = seen.wall
OutIs ==
    phase = "reported" =>
       out = [verdict |-> verdict(st), note |-> cpu_note(st),
              latency |-> print_histogram(st.latency),
              self_lag |-> print_histogram(st.self_lag), dump |-> dump_stats(st)]
TellIs == Tells(st.latency, seen.latency) /\ Tells(st.self_lag, seen.self_lag)

LEMMA VerdictInvIs ==
    /\ VerdictInv <=> StateIs /\ WindowIs /\ OutIs /\ TellIs
    /\ VerdictInv' <=> StateIs' /\ WindowIs' /\ OutIs' /\ TellIs'
  BY DEF VerdictInv, VerdictTypeOK, StateIs, WindowIs, OutIs, TellIs, Stats, Seen, Samples

(* A sample is added to the histogram called h. *)
LEMMA SampleKeeps ==
    ASSUME StateIs, TellIs, NEW h \in {"latency", "self_lag"}, NEW ns \in Ns, NEW n \in Nat, NEW m \in Nat,
           st' = [st EXCEPT ![h] = histogram_add(st[h], ns), !.sent = n, !.frames_in = m],
           seen' = [seen EXCEPT ![h] = [seen[h] EXCEPT ![ns] = @ + 1]]
    PROVE  /\ st' \in Stats /\ seen' \in Seen /\ TellIs'
           /\ st'.cpu = st.cpu /\ st'.wall = st.wall /\ seen'.cpu = seen.cpu /\ seen'.wall = seen.wall
  <1> PICK g, r : g = histogram_add(st[h], ns) /\ r = [seen[h] EXCEPT ![ns] = @ + 1]
    OBVIOUS
  <1>1. st \in Stats /\ seen \in Seen
    BY DEF StateIs
  <1>2. st[h] \in Histogram /\ seen[h] \in Samples /\ Tells(st[h], seen[h])
    BY <1>1 DEF Stats, Seen, TellIs
  <1>3. g \in Histogram /\ r \in Samples /\ Tells(g, r)
    BY <1>2, AddTells
  <1>4. /\ st' = [st EXCEPT ![h] = g, !.sent = n, !.frames_in = m]
        /\ seen' = [seen EXCEPT ![h] = r]
    OBVIOUS
  <1>5. /\ st' \in Stats /\ st'.cpu = st.cpu /\ st'.wall = st.wall
        /\ seen' \in Seen /\ seen'.cpu = seen.cpu /\ seen'.wall = seen.wall
    BY ONLY <1>1, <1>3, <1>4, h \in {"latency", "self_lag"}, n \in Nat, m \in Nat DEF Stats, Seen
  <1>6. TellIs'
    <2>1. /\ st'[h] = g /\ seen'[h] = r
          /\ \A k \in {"latency", "self_lag"} : k # h => st'[k] = st[k] /\ seen'[k] = seen[k]
      BY ONLY <1>1, <1>4, h \in {"latency", "self_lag"} DEF Stats, Seen
    <2>2. \A k \in {"latency", "self_lag"} : Tells(st'[k], seen'[k])
      BY <1>3, <2>1 DEF TellIs
    <2>3. QED
      BY <2>2 DEF TellIs
  <1>7. QED
    BY <1>5, <1>6

LEMMA IssueKeeps == ASSUME VerdictInv, issue PROVE VerdictInv'
  <1>1. PICK lag \in Ns, sends \in BOOLEAN :
          /\ st' = [st EXCEPT !.self_lag = histogram_add(@, lag), !.sent = IF sends THEN @ + 1 ELSE @]
          /\ seen' = Sampled("self_lag", lag)
    BY DEF issue
  <1>2. phase = "traffic" /\ UNCHANGED <<phase, cpu0, now, out>>
    BY DEF issue
  <1>3. StateIs /\ WindowIs /\ TellIs /\ st \in Stats /\ seen \in Seen
    BY VerdictInvIs DEF StateIs
  <1> PICK n, m, h : n = (IF sends THEN st.sent + 1 ELSE st.sent) /\ m = st.frames_in /\ h = "self_lag"
    OBVIOUS
  <1>4. n \in Nat /\ m \in Nat
    BY <1>3 DEF Stats
  <1>5. st' = [st EXCEPT ![h] = histogram_add(st[h], lag), !.sent = n, !.frames_in = m]
    <2> PICK g : g = histogram_add(st.self_lag, lag)
      OBVIOUS
    <2>1. st' = [st EXCEPT !.self_lag = g, !.sent = n]
      BY <1>1
    <2>2. [st EXCEPT !.self_lag = g, !.sent = n] = [st EXCEPT !.self_lag = g, !.sent = n, !.frames_in = st.frames_in]
      BY ONLY <1>3 DEF Stats
    <2>3. QED
      BY <2>1, <2>2
  <1>6. seen' = [seen EXCEPT ![h] = [seen[h] EXCEPT ![lag] = @ + 1]]
    BY <1>1 DEF Sampled
  <1>7. /\ st' \in Stats /\ seen' \in Seen /\ TellIs' /\ st'.cpu = st.cpu
    BY <1>3, <1>4, <1>5, <1>6, SampleKeeps
  <1>8. StateIs' /\ WindowIs' /\ OutIs'
    BY <1>2, <1>3, <1>7 DEF StateIs, WindowIs, OutIs
  <1>9. QED
    BY <1>7, <1>8, VerdictInvIs

LEMMA DeliverKeeps == ASSUME VerdictInv, deliver PROVE VerdictInv'
  <1>1. phase \in {"traffic", "drain"} /\ UNCHANGED <<phase, cpu0, now, out>>
    BY DEF deliver
  <1>2. StateIs /\ WindowIs /\ TellIs /\ st \in Stats /\ seen \in Seen
    BY VerdictInvIs DEF StateIs
  <1>3. CASE st' = [st EXCEPT !.frames_in = @ + 1] /\ UNCHANGED seen
    <2>1. st' \in Stats /\ st'.latency = st.latency /\ st'.self_lag = st.self_lag
          /\ st'.cpu = st.cpu /\ st'.wall = st.wall
      BY <1>2, <1>3 DEF Stats
    <2>2. TellIs'
      BY <1>2, <1>3, <2>1 DEF TellIs
    <2>3. StateIs' /\ WindowIs' /\ OutIs'
      BY <1>1, <1>2, <1>3, <2>1 DEF StateIs, WindowIs, OutIs
    <2>4. QED
      BY <2>2, <2>3, VerdictInvIs
  <1>4. CASE \E ns \in Ns :
               /\ st' = [st EXCEPT !.frames_in = @ + 1, !.latency = histogram_add(@, ns)]
               /\ seen' = Sampled("latency", ns)
    <2>1. PICK ns \in Ns : /\ st' = [st EXCEPT !.frames_in = @ + 1, !.latency = histogram_add(@, ns)]
                           /\ seen' = Sampled("latency", ns)
      BY <1>4
    <2> PICK n, m, h : n = st.sent /\ m = st.frames_in + 1 /\ h = "latency"
      OBVIOUS
    <2>2. n \in Nat /\ m \in Nat
      BY <1>2 DEF Stats
    <2>3. st' = [st EXCEPT ![h] = histogram_add(st[h], ns), !.sent = n, !.frames_in = m]
      <3> PICK g : g = histogram_add(st.latency, ns)
        OBVIOUS
      <3>1. st' = [st EXCEPT !.frames_in = m, !.latency = g]
        BY <2>1
      <3>2. [st EXCEPT !.frames_in = m, !.latency = g] = [st EXCEPT !.latency = g, !.sent = st.sent, !.frames_in = m]
        BY ONLY <1>2 DEF Stats
      <3>3. QED
        BY <3>1, <3>2
    <2>4. seen' = [seen EXCEPT ![h] = [seen[h] EXCEPT ![ns] = @ + 1]]
      BY <2>1 DEF Sampled
    <2>5. /\ st' \in Stats /\ seen' \in Seen /\ TellIs'
          /\ st'.cpu = st.cpu /\ st'.wall = st.wall /\ seen'.cpu = seen.cpu /\ seen'.wall = seen.wall
      BY <1>2, <2>2, <2>3, <2>4, SampleKeeps
    <2>6. StateIs' /\ WindowIs' /\ OutIs'
      BY <1>1, <1>2, <2>5 DEF StateIs, WindowIs, OutIs
    <2>7. QED
      BY <2>5, <2>6, VerdictInvIs
  <1>5. QED
    BY <1>3, <1>4 DEF deliver

LEMMA OthersKeep ==
    ASSUME VerdictInv, lose \/ second_passes \/ window_closes \/ report PROVE VerdictInv'
  <1>1. StateIs /\ WindowIs /\ OutIs /\ TellIs /\ st \in Stats /\ seen \in Seen /\ now \in [cpu : Nat, wall : Nat]
    BY VerdictInvIs DEF StateIs
  <1>2. CASE lose
    <2>1. /\ st' \in Stats /\ st'.latency = st.latency /\ st'.self_lag = st.self_lag
          /\ st'.cpu = st.cpu /\ st'.wall = st.wall /\ phase \in {"traffic", "drain"}
          /\ UNCHANGED <<phase, cpu0, now, seen, out>>
      BY <1>1, <1>2 DEF Stats, lose
    <2>2. StateIs' /\ WindowIs' /\ OutIs' /\ TellIs'
      BY <1>1, <2>1 DEF StateIs, WindowIs, OutIs, TellIs
    <2>3. QED
      BY <2>2, VerdictInvIs
  <1>3. CASE second_passes
    <2>1. phase \in {"traffic", "drain"} /\ UNCHANGED <<phase, st, cpu0, seen, out>>
      BY <1>3 DEF second_passes
    <2>2. now' \in [cpu : Nat, wall : Nat]
      BY <1>1, <1>3 DEF second_passes
    <2>3. StateIs' /\ WindowIs' /\ OutIs' /\ TellIs'
      BY <1>1, <2>1, <2>2 DEF StateIs, WindowIs, OutIs, TellIs
    <2>4. QED
      BY <2>3, VerdictInvIs
  <1>4. CASE window_closes
    <2>1. /\ phase = "traffic" /\ phase' = "drain" /\ UNCHANGED <<cpu0, now, out>>
          /\ seen' = [seen EXCEPT !.cpu = now.cpu, !.wall = now.wall]
      BY <1>4 DEF window_closes
    <2>2. seen' \in Seen /\ seen'.cpu = now.cpu /\ seen'.wall = now.wall
          /\ seen'.latency = seen.latency /\ seen'.self_lag = seen.self_lag
      BY <1>1, <2>1 DEF Seen
    <2>3. PICK alive \in BOOLEAN : st' = read_cpu(alive)
      BY <1>4 DEF window_closes
    <2>4. /\ st' \in Stats /\ st'.latency = st.latency /\ st'.self_lag = st.self_lag
          /\ st'.cpu # Unread => st'.cpu = now.cpu /\ st'.wall = now.wall
      <3>1. CASE st' = st
        BY <1>1, <2>1, <3>1 DEF WindowIs
      <3>2. CASE st' = [st EXCEPT !.cpu = now.cpu - cpu0, !.wall = now.wall] /\ cpu0 # Unread
        <4>1. cpu0 = 0 /\ now.cpu - cpu0 = now.cpu /\ now.cpu \in Int /\ now.wall \in Nat
          BY <1>1, <3>2 DEF StateIs
        <4>2. st' = [st EXCEPT !.cpu = now.cpu, !.wall = now.wall]
          BY <3>2, <4>1
        <4>3. QED
          BY <1>1, <4>1, <4>2 DEF Stats
      <3>3. QED
        BY <2>3, <3>1, <3>2 DEF read_cpu
    <2>5. StateIs' /\ WindowIs' /\ OutIs' /\ TellIs'
      BY <1>1, <2>1, <2>2, <2>4 DEF StateIs, WindowIs, OutIs, TellIs
    <2>6. QED
      BY <2>5, VerdictInvIs
  <1>5. CASE report
    <2>1. /\ phase = "drain" /\ phase' = "reported" /\ UNCHANGED <<st, cpu0, now, seen>>
          /\ out' = [verdict |-> verdict(st), note |-> cpu_note(st),
                     latency |-> print_histogram(st.latency),
                     self_lag |-> print_histogram(st.self_lag), dump |-> dump_stats(st)]
      BY <1>5 DEF report
    <2>2. StateIs' /\ WindowIs' /\ TellIs'
      BY <1>1, <2>1 DEF StateIs, WindowIs, TellIs
    <2>3. OutIs'
      BY <2>1 DEF OutIs
    <2>4. QED
      BY <2>2, <2>3, VerdictInvIs
  <1>6. QED
    BY <1>2, <1>3, <1>4, <1>5

LEMMA VerdictStep == ASSUME VerdictInv, [VerdictNext]_verdict_vars PROVE VerdictInv'
  <1>1. CASE UNCHANGED verdict_vars
    <2>1. UNCHANGED <<phase, st, cpu0, now, seen, out>>
      BY <1>1 DEF verdict_vars
    <2>2. StateIs' /\ WindowIs' /\ OutIs' /\ TellIs'
      BY <2>1, VerdictInvIs DEF StateIs, WindowIs, OutIs, TellIs
    <2>3. QED
      BY <2>2, VerdictInvIs
  <1>2. QED
    BY <1>1, IssueKeeps, DeliverKeeps, OthersKeep DEF VerdictNext

(* Histograms tell the samples, and the report is about them. *)
THEOREM VerdictInvariant == VerdictSpec => []VerdictInv
  <1>1. VerdictInv /\ [VerdictNext]_verdict_vars => VerdictInv'
    BY VerdictStep
  <1>2. QED
    BY <1>1, VerdictInitInv, PTL DEF VerdictSpec

(* The fan-out and the losses that may be quoted.                          *)
AsAsked ==
    st.sent > 0 => /\ st.frames_in * 100 <= st.sent * per_room * (100 + Tol)
                   /\ st.frames_in * 100 >= st.sent * per_room * (100 - Tol)
FewLost == st.lost_conns * 1000 <= LossPm * cfg_conns

LEMMA CountsAre ==
    ASSUME VerdictInv, NEW u, u.sent = st.sent, u.frames_in = st.frames_in,
           u.lost_conns = st.lost_conns
    PROVE  /\ ~fanout_bad(u) <=> AsAsked
           /\ ~too_many_lost(u) <=> FewLost
           /\ ~(1000 * u.lost_conns > LossPm * cfg_conns) <=> FewLost
  <1> PICK sent, frames, lost : sent = st.sent /\ frames = st.frames_in /\ lost = st.lost_conns
    OBVIOUS
  <1>1. sent \in Nat /\ frames \in Nat /\ lost \in Nat
    BY VerdictInvIs DEF StateIs, Stats
  <1>2. per_room \in Nat /\ Tol \in Nat /\ cfg_conns \in Nat /\ LossPm \in Nat
    BY VerdictAssumption
  <1>3. ~fanout_bad(u) <=> AsAsked
    <2> PICK x, y : x = 100 + Tol /\ y = 100 - Tol
      OBVIOUS
    <2>1. x \in Int /\ y \in Int
      BY <1>2
    <2>2. /\ per_room * x * sent = sent * per_room * x /\ per_room * x * sent \in Int
          /\ per_room * y * sent = sent * per_room * y /\ per_room * y * sent \in Int
      BY ONLY <1>1, <1>2, <2>1
    <2>3. 100 * frames = frames * 100 /\ 100 * frames \in Int
      BY <1>1
    <2> PICK z, v, w : z = per_room * x * sent /\ v = per_room * y * sent /\ w = 100 * frames
      OBVIOUS
    <2>4. fanout_bad(u) <=> sent > 0 /\ (w > z \/ w < v)
      BY DEF fanout_bad
    <2>5. z \in Int /\ v \in Int /\ w \in Int /\ z = sent * per_room * x /\ v = sent * per_room * y
          /\ w = frames * 100
      BY <2>2, <2>3
    <2>6. ~fanout_bad(u) <=> (sent > 0 => w <= z /\ w >= v)
      BY ONLY <2>4, <2>5
    <2>7. QED
      BY <2>5, <2>6 DEF AsAsked
  <1> PICK x, q, y : x = LossPm * cfg_conns /\ q = x \div 1000 /\ y = lost * 1000
    OBVIOUS
  <1>4. x \in Nat /\ y \in Nat /\ y = 1000 * lost
    BY <1>1, <1>2
  <1>5. FewLost <=> y <= x
    BY DEF FewLost
  <1>6. ~too_many_lost(u) <=> FewLost
    <2>1. 1000 \in Nat \ {0}
      OBVIOUS
    <2>2. q \in Nat /\ 1000 * q <= x /\ x < 1000 * q + 1000
      BY <1>4, <2>1, DivFacts
    <2>3. too_many_lost(u) <=> lost > q
      BY DEF too_many_lost
    <2>4. ~(lost > q) <=> y <= x
      BY ONLY <1>1, <1>4, <2>2
    <2>5. QED
      BY <1>5, <2>3, <2>4
  <1>7. ~(1000 * u.lost_conns > LossPm * cfg_conns) <=> FewLost
    <2>1. ~(y > x) <=> y <= x
      BY ONLY <1>4
    <2>2. 1000 * u.lost_conns = y
      BY <1>4
    <2>3. QED
      BY <1>5, <2>1, <2>2
  <1>8. QED
    BY <1>3, <1>6, <1>7

(* The latency and the lag that may be.                                    *)
TooSlow(lat, lag) == lag * k_lag_ratio > lat /\ lag >= k_lag_floor_ns

LEMMA QuotableIs ==
    ASSUME VerdictInv, NEW lat \in Nat, NEW lag \in Nat, lat <= EndOfScale
    PROVE  Quotable(lat, lag) <=> /\ AsAsked /\ FewLost /\ st.latency.total # 0
                                  /\ lat # EndOfScale /\ ~TooSlow(lat, lag)
  <1> PICK e, x : e = EndOfScale /\ x = lag * k_lag_ratio
    OBVIOUS
  <1>1. e \in Nat /\ k_lag_floor_ns \in Nat /\ k_lag_ratio \in Nat /\ x \in Nat
    BY VerdictConstants, VerdictAssumption DEF EndOfScale
  <1>2. st.latency.total = Count(seen.latency) /\ Count(seen.latency) \in Nat
    <2>1. seen.latency \in Samples /\ Tells(st.latency, seen.latency)
      BY VerdictInvIs DEF StateIs, Seen, TellIs
    <2>2. QED
      BY <2>1, TellsIs, SampleSizes
  <1>3. Count(seen.latency) > 0 <=> st.latency.total # 0
    BY <1>2
  <1>4. lat < e <=> lat # e
    BY <1>1
  <1>5. (x <= lat \/ lag < k_lag_floor_ns) <=> ~(x > lat /\ lag >= k_lag_floor_ns)
    BY ONLY <1>1, lat \in Nat, lag \in Nat
  <1>6. ~TooSlow(lat, lag) <=> ~(x > lat /\ lag >= k_lag_floor_ns)
    BY DEF TooSlow
  <1>7. Quotable(lat, lag) <=> /\ AsAsked /\ FewLost /\ Count(seen.latency) > 0 /\ lat < e
                               /\ x <= lat \/ lag < k_lag_floor_ns
    BY DEF Quotable, AsAsked, FewLost
  <1>8. QED
    BY ONLY <1>3, <1>4, <1>5, <1>6, <1>7, e = EndOfScale

(* When the verdict of the run is not void. *)
LEMMA VoidWhen ==
    ASSUME VerdictInv, NEW lat \in Nat, NEW lag \in Nat, lat <= EndOfScale,
           Says(pct(st.latency, P99), lat), Says(pct(st.self_lag, P99), lag)
    PROVE  verdict(st) # "VOID" <=> Quotable(lat, lag)
  <1> PICK a, g, total, slow, far :
        /\ a = pct(st.latency, P99) /\ g = pct(st.self_lag, P99) /\ total = st.latency.total
        /\ slow = TooSlow(lat, lag) /\ far = (lat = EndOfScale)
    OBVIOUS
  <1>1. a.ns = lat /\ g.ns = lag /\ (a.beyond <=> far)
    BY DEF Says
  <1>2. g.ns * k_lag_ratio > a.ns /\ g.ns >= k_lag_floor_ns <=> slow
    BY <1>1 DEF TooSlow
  <1>3. verdict(st) = CASE fanout_bad(st) \/ too_many_lost(st) \/ total = 0 -> "VOID"
                        [] OTHER -> IF a.beyond \/ (g.ns * k_lag_ratio > a.ns /\ g.ns >= k_lag_floor_ns)
                                    THEN "VOID"
                                    ELSE IF g.ns * k_lag_ratio > a.ns THEN "WARN" ELSE "OK"
    BY DEF verdict
  <1>4. verdict(st) # "VOID" <=> /\ ~fanout_bad(st) /\ ~too_many_lost(st) /\ total # 0
                                 /\ ~far /\ ~slow
    <2>1. CASE fanout_bad(st) \/ too_many_lost(st) \/ total = 0
      <3>1. verdict(st) = "VOID"
        BY ONLY <1>3, <2>1
      <3>2. QED
        BY ONLY <2>1, <3>1
    <2>2. CASE ~(fanout_bad(st) \/ too_many_lost(st) \/ total = 0)
      <3>1. verdict(st) = IF a.beyond \/ (g.ns * k_lag_ratio > a.ns /\ g.ns >= k_lag_floor_ns)
                          THEN "VOID" ELSE IF g.ns * k_lag_ratio > a.ns THEN "WARN" ELSE "OK"
        BY ONLY <1>3, <2>2
      <3>2. verdict(st) # "VOID"
              <=> ~(a.beyond \/ (g.ns * k_lag_ratio > a.ns /\ g.ns >= k_lag_floor_ns))
        BY ONLY <3>1
      <3>3. QED
        BY ONLY <1>1, <1>2, <2>2, <3>2
    <2>3. QED
      BY <2>1, <2>2
  <1>5. (~fanout_bad(st) <=> AsAsked) /\ (~too_many_lost(st) <=> FewLost)
    BY CountsAre
  <1>6. Quotable(lat, lag) <=> AsAsked /\ FewLost /\ total # 0 /\ ~far /\ ~slow
    BY QuotableIs
  <1>7. QED
    BY ONLY <1>4, <1>5, <1>6

(* When the verdict on the dump is not void. *)
LEMMA MergedVoidWhen ==
    ASSUME VerdictInv, NEW d, d.sent = st.sent, d.frames_in = st.frames_in,
           d.lost_conns = st.lost_conns, d.latency.total = st.latency.total,
           NEW lat \in Nat, NEW lag \in Nat, lat <= EndOfScale,
           NEW a, a = merge_pct(d.latency, P99), a.beyond <=> lat = EndOfScale,
           ~a.beyond => a.ns = lat,
           NEW g, g = merge_pct(d.self_lag, P99), ~g.beyond, g.ns = lag
    PROVE  merge_verdict(d) # "VOID" <=> Quotable(lat, lag)
  <1> PICK total, slow, far :
        total = d.latency.total /\ slow = TooSlow(lat, lag) /\ far = (lat = EndOfScale)
    OBVIOUS
  <1> DEFINE lost == 1000 * d.lost_conns > LossPm * cfg_conns
  <1>1. g.ns * k_lag_ratio > lat /\ g.ns >= k_lag_floor_ns <=> slow
    BY DEF TooSlow
  <1>2. merge_verdict(d) = CASE fanout_bad(d) \/ lost \/ total = 0 \/ a.beyond -> "VOID"
                             [] OTHER -> IF g.ns * k_lag_ratio > a.ns
                                              /\ (g.ns >= k_lag_floor_ns \/ g.beyond)
                                         THEN "VOID"
                                         ELSE IF g.ns * k_lag_ratio > a.ns THEN "WARN" ELSE "OK"
    BY DEF merge_verdict
  <1>3. (~fanout_bad(d) <=> AsAsked) /\ (~lost <=> FewLost)
    BY CountsAre
  <1> HIDE DEF lost
  <1>4. merge_verdict(d) # "VOID" <=> /\ ~fanout_bad(d) /\ ~lost /\ total # 0
                                      /\ ~far /\ ~slow
    <2>1. CASE fanout_bad(d) \/ lost \/ total = 0 \/ a.beyond
      <3>1. merge_verdict(d) = "VOID"
        BY ONLY <1>2, <2>1
      <3>2. a.beyond <=> far
        OBVIOUS
      <3>3. QED
        BY ONLY <2>1, <3>1, <3>2
    <2>2. CASE ~(fanout_bad(d) \/ lost \/ total = 0 \/ a.beyond)
      <3>1. merge_verdict(d) = IF g.ns * k_lag_ratio > a.ns
                                    /\ (g.ns >= k_lag_floor_ns \/ g.beyond)
                               THEN "VOID"
                               ELSE IF g.ns * k_lag_ratio > a.ns THEN "WARN" ELSE "OK"
        BY ONLY <1>2, <2>2
      <3>2. merge_verdict(d) # "VOID"
              <=> ~(g.ns * k_lag_ratio > a.ns /\ (g.ns >= k_lag_floor_ns \/ g.beyond))
        BY ONLY <3>1
      <3>3. a.ns = lat /\ ~g.beyond /\ ~far
        BY <2>2
      <3>4. merge_verdict(d) # "VOID" <=> ~slow
        BY ONLY <1>1, <3>2, <3>3
      <3>5. QED
        BY ONLY <2>2, <3>3, <3>4
    <2>3. QED
      BY <2>1, <2>2
  <1>5. Quotable(lat, lag) <=> AsAsked /\ FewLost /\ total # 0 /\ ~far /\ ~slow
    BY QuotableIs
  <1>6. QED
    BY ONLY <1>3, <1>4, <1>5

(* What a percentile is, and is not. *)
LEMMA PercentileType ==
    ASSUME NEW s \in Samples, NEW p \in 1..PDen
    PROVE  Percentile(s, p) \in Nat /\ Percentile(s, p) <= EndOfScale
  <1> PICK c, a : c = Count(s) /\ a = Asked(s, p)
    OBVIOUS
  <1>1. /\ c \in Nat /\ a \in Nat /\ a <= c /\ (c > 0 => a > 0) /\ EndOfScale \in Nat
    BY AskedIs, VerdictConstants DEF EndOfScale
  <1>2. CASE c = 0
    BY <1>1, <1>2 DEF Percentile
  <1>3. CASE c # 0
    <2>1. a \in Nat \ {0}
      BY <1>1, <1>3
    <2>2. Ranked(s, a) \in Nat /\ Ranked(s, a) <= EndOfScale
      BY <1>1, <2>1, RankedGrows
    <2>3. QED
      BY <1>3, <2>2 DEF Percentile
  <1>4. QED
    BY <1>2, <1>3

(* The percentiles a run prints are those of its samples, or one sample    *)
(* low where the share is not whole (histogram.h:53 cuts the rank); its    *)
(* exit status follows from them, its fan-out and its losses; merge.py     *)
(* finds the exact percentiles in the dump and judges by them; and the     *)
(* note on the server's CPU is about the traffic window.  This holds for   *)
(* any histogram, thresholds and samples.                                  *)
THEOREM VerdictsAreJustified == VerdictSpec => []VerdictIsJustified
  <1>1. ASSUME VerdictInv PROVE VerdictIsJustified
    <2>1. SUFFICES ASSUME phase = "reported"
                   PROVE  /\ PercentilesHold
                          /\ exit_status = 0 <=> Quotable(Shown99("latency"), Shown99("self_lag"))
                          /\ FleetHolds
                          /\ out.note = "below" => 100 * seen.cpu < 95 * seen.wall
      BY DEF VerdictIsJustified
    <2>2. st \in Stats /\ seen \in Seen /\ TellIs /\ WindowIs /\ OutIs
      BY <1>1, VerdictInvIs DEF StateIs
    <2>3. /\ out.verdict = verdict(st) /\ out.note = cpu_note(st) /\ out.dump = dump_stats(st)
          /\ out.latency = print_histogram(st.latency) /\ out.self_lag = print_histogram(st.self_lag)
      BY <2>1, <2>2 DEF OutIs
    <2>4. ASSUME NEW h \in {"latency", "self_lag"}
          PROVE  /\ out[h] = print_histogram(st[h]) /\ st[h] \in Histogram /\ seen[h] \in Samples
                 /\ Tells(st[h], seen[h]) /\ st[h].total = Count(seen[h])
      <3>1. /\ out[h] = print_histogram(st[h]) /\ st[h] \in Histogram /\ seen[h] \in Samples
            /\ Tells(st[h], seen[h])
        BY <2>2, <2>3 DEF Stats, Seen, TellIs
      <3>2. QED
        BY <3>1, TellsIs
    <2>5. P99 \in 1..PDen /\ P99 \in Printed
      BY VerdictConstants
    <2>6. PercentilesHold
      <3>1. ASSUME NEW h \in {"latency", "self_lag"}, NEW p \in DOMAIN out[h]
            PROVE  NearlyExact(out[h][p], seen[h], p)
        <4>1. p \in Printed /\ out[h][p] = pct(st[h], p)
          BY <2>4, <3>1 DEF print_histogram
        <4>2. p \in 1..PDen
          BY <4>1, VerdictConstants
        <4>3. NearlyExact(pct(st[h], p), seen[h], p)
          BY <2>4, <4>2, PctHolds
        <4>4. QED
          BY <4>1, <4>3
      <3>2. QED
        BY <3>1 DEF PercentilesHold
    <2>7. ASSUME NEW h \in {"latency", "self_lag"}
          PROVE  /\ Says(pct(st[h], P99), Shown99(h))
                 /\ Shown99(h) \in Nat /\ Shown99(h) <= EndOfScale
      <3> PICK r : r = pct(st[h], P99)
        OBVIOUS
      <3>1. NearlyExact(r, seen[h], P99) /\ r.ns \in Nat /\ r.ns <= EndOfScale
        BY <2>4, <2>5, PctHolds
      <3>2. Says(r, r.ns)
        BY <3>1 DEF NearlyExact, Says
      <3>3. Shown99(h) = r.ns
        <4>1. CASE Count(seen[h]) = 0
          <5>1. r = [ns |-> 0, beyond |-> FALSE]
            BY <2>4, <4>1 DEF pct
          <5>2. QED
            BY <4>1, <5>1 DEF Shown99
        <4>2. CASE Count(seen[h]) # 0
          <5>1. out[h][P99] = r
            BY <2>4, <2>5, <4>2 DEF print_histogram
          <5>2. QED
            BY <4>2, <5>1 DEF Shown99
        <4>3. QED
          BY <4>1, <4>2
      <3>4. QED
        BY <3>1, <3>2, <3>3
    <2>8. exit_status = 0 <=> Quotable(Shown99("latency"), Shown99("self_lag"))
      <3>1. verdict(st) # "VOID" <=> Quotable(Shown99("latency"), Shown99("self_lag"))
        BY <1>1, <2>7, VoidWhen
      <3>2. QED
        BY <2>3, <3>1 DEF exit_status
    <2>9. FleetHolds
      <3> PICK d, x, y, u :
            /\ d = parse(out.dump) /\ x = dump_histogram(st.latency)
            /\ y = dump_histogram(st.self_lag) /\ u = out.dump
        OBVIOUS
      <3>1. d = [latency |-> parsed(x), self_lag |-> parsed(y), sent |-> st.sent,
                 frames_in |-> st.frames_in, lost_conns |-> st.lost_conns]
        <4>1. u = [latency |-> x, self_lag |-> y, sent |-> st.sent,
                   frames_in |-> st.frames_in, lost_conns |-> st.lost_conns]
          BY <2>3 DEF dump_stats
        <4>2. u.latency = x /\ u.self_lag = y
          BY <4>1
        <4> PICK v, w : v = parsed(x) /\ w = parsed(y)
          OBVIOUS
        <4>3. d = [u EXCEPT !.latency = v, !.self_lag = w]
          BY <4>2 DEF parse
        <4>4. d = [latency |-> v, self_lag |-> w, sent |-> st.sent,
                   frames_in |-> st.frames_in, lost_conns |-> st.lost_conns]
          BY ONLY <4>1, <4>3
        <4>5. QED
          BY <4>4
      <3>2. \A h \in {"latency", "self_lag"} : d[h] = parsed(dump_histogram(st[h]))
        BY <3>1
      <3>3. ASSUME NEW h \in {"latency", "self_lag"}, NEW p \in 1..PDen
            PROVE  IsExact(merge_pct(d[h], p), seen[h], p)
        BY <2>4, <3>2, MergeIsExact
      <3> PICK lat, lag, a, g :
            /\ lat = Percentile(seen.latency, P99) /\ lag = Percentile(seen.self_lag, P99)
            /\ a = merge_pct(d.latency, P99) /\ g = merge_pct(d.self_lag, P99)
        OBVIOUS
      <3>4. ASSUME ~g.beyond PROVE merge_verdict(d) # "VOID" <=> Quotable(lat, lag)
        <4>1. lat \in Nat /\ lag \in Nat /\ lat <= EndOfScale
          BY <2>4, <2>5, PercentileType
        <4>2. IsExact(a, seen.latency, P99) /\ IsExact(g, seen.self_lag, P99)
          BY <2>5, <3>3
        <4>3. (a.beyond <=> lat = EndOfScale) /\ (~a.beyond => a.ns = lat) /\ g.ns = lag
          BY <3>4, <4>2 DEF IsExact
        <4>4. d.latency.total = st.latency.total
          BY <2>4, <3>2, DumpTells
        <4>5. d.sent = st.sent /\ d.frames_in = st.frames_in /\ d.lost_conns = st.lost_conns
          BY <3>1
        <4>6. QED
          BY <1>1, <3>4, <4>1, <4>3, <4>4, <4>5, MergedVoidWhen
      <3>5. \A p \in Printed : p \in 1..PDen
        BY VerdictConstants
      <3>6. QED
        BY <3>3, <3>4, <3>5 DEF FleetHolds
    <2>10. ASSUME out.note = "below" PROVE 100 * seen.cpu < 95 * seen.wall
      <3>1. st.cpu # Unread /\ 100 * st.cpu < 95 * st.wall
        BY <2>3, <2>10 DEF cpu_note
      <3>2. QED
        BY <2>1, <2>2, <3>1 DEF WindowIs
    <2>11. QED
      BY <2>6, <2>8, <2>9, <2>10
  <1>2. VerdictInv => VerdictIsJustified
    BY <1>1
  <1>3. QED
    BY <1>2, VerdictInvariant, PTL


(***************************************************************************)
(* Reports of the profiler                                                 *)
(***************************************************************************)
OneRecord == [enter_ns : Nat, leave_ns : Nat]
OneEnd == [id : Nat, name : Name, ns : Nat]
Elapsed(records) == [i \in DOMAIN records |-> records[i].leave_ns - records[i].enter_ns]
Times(R) == [c \in R |-> c.ns]

(* Some records are those of some ended scopes. *)
AreRecords(records, R) ==
    /\ Len(records) = Cardinality(R)
    /\ Total(Elapsed(records), DOMAIN records) = Total(Times(R), R)
    /\ {Elapsed(records)[i] : i \in DOMAIN records} = {c.ns : c \in R}

LEMMA TimesSum ==
    ASSUME NEW R, IsFiniteSet(R), R \subseteq OneEnd
    PROVE  Numbered(Times(R), R) /\ MapThenSumSet(LAMBDA c : c.ns, R) = Total(Times(R), R)
  <1> DEFINE Obeys(I) == I = [s \in SUBSET R |->
                IF s = {} THEN 0 ELSE PickOf(s).ns + I[s \ {PickOf(s)}]]
  <1>1. MapThenSumSet(LAMBDA c : c.ns, R) = (CHOOSE I : Obeys(I))[R]
    BY DEF MapThenSumSet, MapThenFoldSet, PickOf
  <1> PICK f : f = Times(R)
    OBVIOUS
  <1>2. Numbered(f, R)
    BY DEF Numbered, Times, OneEnd
  <1>3. ASSUME NEW I PROVE Obeys(I) <=> Sums(f, R, I)
    <2>1. \A s \in SUBSET R : s # {} => f[PickOf(s)] = PickOf(s).ns
      BY PickIs DEF Times
    <2>2. [s \in SUBSET R |-> IF s = {} THEN 0 ELSE PickOf(s).ns + I[s \ {PickOf(s)}]]
            = [s \in SUBSET R |-> IF s = {} THEN 0 ELSE f[PickOf(s)] + I[s \ {PickOf(s)}]]
      BY <2>1
    <2>3. QED
      BY <2>2 DEF Sums
  <1> PICK I : I = CHOOSE J : Obeys(J)
    OBVIOUS
  <1>4. \E J : Obeys(J)
    BY <1>2, <1>3, SumsExist
  <1> HIDE DEF Obeys
  <1>5. Sums(f, R, I)
    BY <1>3, <1>4
  <1>6. PICK J : Sums(f, R, J) /\ Total(f, R) = J[R]
    BY <1>2, SumsExist DEF Total
  <1>7. I[R] = J[R]
    BY <1>2, <1>5, <1>6, SumsAgree
  <1>8. MapThenSumSet(LAMBDA c : c.ns, R) = Total(f, R)
    BY <1>1, <1>6, <1>7
  <1>9. QED
    BY <1>2, <1>8

LEMMA ElapsedSum ==
    ASSUME NEW records \in Seq(OneRecord)
    PROVE  /\ DOMAIN records = 1..Len(records) /\ Len(records) \in Nat
           /\ Numbered(Elapsed(records), DOMAIN records)
           /\ FoldSeq(LAMBDA a, b : a + b, 0, Elapsed(records)) = Total(Elapsed(records), DOMAIN records)
  <1>1. DOMAIN records = 1..Len(records) /\ Len(records) \in Nat
    OBVIOUS
  <1>2. IsFiniteSet(DOMAIN records)
    BY <1>1, FS_Interval
  <1>3. \A i \in DOMAIN records : records[i] \in OneRecord
    OBVIOUS
  <1>4. Numbered(Elapsed(records), DOMAIN records)
    BY <1>2, <1>3 DEF Numbered, Elapsed, OneRecord
  <1> PICK f : f = Elapsed(records)
    OBVIOUS
  <1>5. DOMAIN f = DOMAIN records
    BY DEF Elapsed
  <1>6. FoldSeq(LAMBDA a, b : a + b, 0, f) = Total(f, DOMAIN f)
    BY DEF FoldSeq, FoldFunction, FoldFunctionOnSet, MapThenFoldSet, Total, Sums, PickOf
  <1>7. QED
    BY <1>1, <1>4, <1>5, <1>6

LEMMA NoRecords == << >> \in Seq(OneRecord) /\ AreRecords(<< >>, {})
  <1>1. << >> \in Seq(OneRecord) /\ DOMAIN << >> = {} /\ Len(<< >>) = 0
    OBVIOUS
  <1>2. Numbered(Elapsed(<< >>), {}) /\ Numbered(Times({}), {})
    BY <1>1, FS_EmptySet DEF Numbered
  <1>3. Total(Elapsed(<< >>), {}) = 0 /\ Total(Times({}), {}) = 0
    BY <1>2, TotalIs
  <1>4. QED
    BY <1>1, <1>3, FS_EmptySet DEF AreRecords

(* One more scope ends. *)
LEMMA RecordAdded ==
    ASSUME NEW records \in Seq(OneRecord), NEW R, IsFiniteSet(R), R \subseteq OneEnd,
           AreRecords(records, R), NEW c \in OneEnd, c \notin R,
           NEW r \in OneRecord, c.ns = r.leave_ns - r.enter_ns
    PROVE  Append(records, r) \in Seq(OneRecord) /\ AreRecords(Append(records, r), R \cup {c})
  <1> PICK more, n, f, g, Q :
        /\ more = Append(records, r) /\ n = Len(records) /\ Q = R \cup {c}
        /\ f = Elapsed(records) /\ g = Elapsed(more)
    OBVIOUS
  <1>1. /\ more \in Seq(OneRecord) /\ n \in Nat /\ Len(more) = n + 1
        /\ DOMAIN records = 1..n /\ DOMAIN more = 1..(n + 1)
        /\ more[n + 1] = r /\ \A i \in 1..n : more[i] = records[i]
    OBVIOUS
  <1>2. /\ \A i \in 1..n : g[i] = f[i]
        /\ g[n + 1] = c.ns /\ c.ns \in Nat
    BY <1>1 DEF Elapsed, OneEnd
  <1>3. (1..(n + 1)) \ {n + 1} = 1..n /\ n + 1 \in 1..(n + 1) /\ 1..(n + 1) = 1..n \cup {n + 1}
    BY <1>1
  <1>4. Total(g, 1..(n + 1)) = c.ns + Total(f, 1..n)
    <2>1. Numbered(g, 1..(n + 1)) /\ Numbered(f, 1..n)
      BY <1>1, ElapsedSum
    <2>2. Total(g, 1..(n + 1)) = g[n + 1] + Total(g, 1..n)
      BY <1>3, <2>1, TotalIs
    <2>3. Total(f, 1..n) = Total(g, 1..n)
      BY ONLY <1>2, <2>1, TotalSame
    <2>4. QED
      BY <1>2, <2>2, <2>3
  <1>5. /\ IsFiniteSet(Q) /\ Cardinality(Q) = Cardinality(R) + 1
        /\ Q \ {c} = R /\ c \in Q /\ Q \subseteq OneEnd
    BY FS_AddElement
  <1>6. Total(Times(Q), Q) = c.ns + Total(Times(R), R)
    <2> PICK h, k : h = Times(Q) /\ k = Times(R)
      OBVIOUS
    <2>1. Numbered(h, Q) /\ Numbered(k, R)
      BY <1>5, TimesSum
    <2>2. Total(h, Q) = h[c] + Total(h, R)
      BY <1>5, <2>1, TotalIs
    <2>3. \A x \in R : k[x] = h[x]
      BY <1>5 DEF Times
    <2>4. Total(k, R) = Total(h, R)
      BY ONLY <2>1, <2>3, TotalSame
    <2>5. h[c] = c.ns
      BY <1>5 DEF Times
    <2>6. QED
      BY <2>2, <2>4, <2>5
  <1>7. {g[i] : i \in 1..(n + 1)} = {x.ns : x \in Q}
    <2>1. {f[i] : i \in 1..n} = {x.ns : x \in R}
      BY <1>1 DEF AreRecords
    <2>2. {g[i] : i \in 1..(n + 1)} = {f[i] : i \in 1..n} \cup {c.ns}
      BY <1>2, <1>3
    <2>3. {x.ns : x \in Q} = {x.ns : x \in R} \cup {c.ns}
      OBVIOUS
    <2>4. QED
      BY <2>1, <2>2, <2>3
  <1>8. AreRecords(more, Q)
    <2>1. n = Cardinality(R) /\ Total(f, 1..n) = Total(Times(R), R)
      BY <1>1 DEF AreRecords
    <2>2. QED
      BY <1>1, <1>4, <1>5, <1>6, <1>7, <2>1 DEF AreRecords
  <1>9. QED
    BY <1>1, <1>8

Recorded ==
    /\ DOMAIN _records = {c.name : c \in calls.ended}
    /\ \A name \in Name : /\ records_for(name) \in Seq(OneRecord)
                          /\ AreRecords(records_for(name), Of(name))
Clocked ==
    /\ now_ns \in Nat /\ scope \in [Scope -> ScopeObject \cup {Outside}]
    /\ calls \in [all : Nat, ended : SUBSET OneEnd] /\ IsFiniteSet(calls.ended)

Typed(o) == /\ o._scope_name \in Name /\ o._enter_ns \in Nat /\ o._stopped \in BOOLEAN
            /\ o.id \in Nat /\ o.live

LEMMA ScopeFields == /\ \A o \in ScopeObject : Typed(o)
                     /\ ~Outside.live
  <1>1. ASSUME NEW o \in ScopeObject PROVE Typed(o)
    BY DEF ScopeObject, Typed
  <1>2. QED
    BY <1>1 DEF Outside

LEMMA LiveIs == ASSUME scope \in [Scope -> ScopeObject \cup {Outside}], NEW s \in Scope, scope[s].live
                PROVE  scope[s] \in ScopeObject /\ Typed(scope[s])
  BY ScopeFields

LEMMA StoppedIs ==
    ASSUME NEW p \in ScopeObject, NEW o, o = [p EXCEPT !._stopped = TRUE]
    PROVE  o \in ScopeObject /\ o._stopped /\ o.id = p.id /\ o._enter_ns = p._enter_ns
  BY DEF ScopeObject

LEMMA TellsAreRecords ==
    ASSUME NEW name, _records[name] \in Seq(OneRecord), IsFiniteSet(Of(name)), Of(name) \subseteq OneEnd
    PROVE  RecordsTell(name) <=> AreRecords(_records[name], Of(name))
  <1> PICK r, R, f : r = _records[name] /\ R = Of(name) /\ f = Elapsed(r)
    OBVIOUS
  <1>1. /\ FoldSeq(LAMBDA a, b : a + b, 0, f) = Total(f, DOMAIN r)
        /\ MapThenSumSet(LAMBDA c : c.ns, R) = Total(Times(R), R)
    BY ElapsedSum, TimesSum
  <1>2. DOMAIN f = DOMAIN r
    BY DEF Elapsed
  <1>3. RecordsTell(name) <=> /\ Len(r) = Cardinality(R)
                              /\ FoldSeq(LAMBDA a, b : a + b, 0, f) = MapThenSumSet(LAMBDA c : c.ns, R)
                              /\ {f[i] : i \in DOMAIN f} = {c.ns : c \in R}
    BY DEF RecordsTell, Elapsed
  <1>4. QED
    BY <1>1, <1>2, <1>3 DEF AreRecords

LEMMA ProfilerInvIs == ProfilerInv <=> Clocked /\ EndsOnce /\ Recorded
  <1>1. ASSUME Clocked PROVE \A name : IsFiniteSet(Of(name)) /\ Of(name) \subseteq OneEnd
    BY <1>1, FS_Subset DEF Clocked, Of
  <1>2. ASSUME ProfilerInv PROVE Clocked /\ EndsOnce /\ Recorded
    <2>1. Clocked
      BY <1>2 DEF ProfilerInv, ProfilerTypeOK, Clocked, OneEnd
    <2>2. DOMAIN _records = {c.name : c \in calls.ended} /\ EndsOnce
      BY <1>2 DEF ProfilerInv
    <2>3. ASSUME NEW name \in Name
          PROVE  records_for(name) \in Seq(OneRecord) /\ AreRecords(records_for(name), Of(name))
      <3>1. CASE name \in DOMAIN _records
        <4>1. _records[name] \in Seq(OneRecord) /\ RecordsTell(name) /\ records_for(name) = _records[name]
          BY <1>2, <3>1 DEF ProfilerInv, ProfilerTypeOK, OneRecord, records_for
        <4>2. AreRecords(_records[name], Of(name))
          BY <1>1, <2>1, <4>1, TellsAreRecords
        <4>3. QED
          BY <4>1, <4>2
      <3>2. CASE name \notin DOMAIN _records
        <4>1. records_for(name) = << >> /\ Of(name) = {}
          BY <2>2, <3>2 DEF records_for, Of
        <4>2. QED
          BY <4>1, NoRecords
      <3>3. QED
        BY <3>1, <3>2
    <2>4. QED
      BY <2>1, <2>2, <2>3 DEF Recorded
  <1>3. ASSUME Clocked, EndsOnce, Recorded PROVE ProfilerInv
    <2>1. DOMAIN _records \subseteq Name
      BY <1>3 DEF Recorded, Clocked, OneEnd
    <2>2. ASSUME NEW name \in DOMAIN _records
          PROVE  _records[name] \in Seq(OneRecord) /\ RecordsTell(name)
      <3>1. _records[name] \in Seq(OneRecord) /\ AreRecords(_records[name], Of(name))
        BY <1>3, <2>1 DEF Recorded, records_for
      <3>2. QED
        BY <1>1, <1>3, <3>1, TellsAreRecords
    <2>3. ProfilerTypeOK
      BY <1>3, <2>1, <2>2 DEF Clocked, ProfilerTypeOK, OneEnd, OneRecord
    <2>4. QED
      BY <1>3, <2>2, <2>3 DEF ProfilerInv, Recorded
  <1>4. QED
    BY <1>2, <1>3

LEMMA ProfilerInvPrimed == ProfilerInv' <=> Clocked' /\ EndsOnce' /\ Recorded'
  BY ProfilerInvIs, PTL

LEMMA ProfilerInitInv == ProfilerInit => ProfilerInv
  <1> SUFFICES ASSUME ProfilerInit PROVE ProfilerInv
    OBVIOUS
  <1>1. calls.ended = {} /\ calls.all = 0 /\ _records = << >> /\ scope = [s \in Scope |-> Outside]
        /\ calls \in [all : Nat, ended : SUBSET OneEnd] /\ now_ns \in Nat
    BY DEF ProfilerInit
  <1>2. Clocked
    BY <1>1, FS_EmptySet DEF Clocked
  <1>3. EndsOnce
    BY <1>1 DEF EndsOnce, Outside
  <1>4. Recorded
    <2>1. DOMAIN _records = {}
      BY <1>1
    <2>2. \A name \in Name : records_for(name) = << >> /\ Of(name) = {}
      BY <1>1, <2>1 DEF records_for, Of
    <2>3. QED
      BY <1>1, <2>1, <2>2, NoRecords DEF Recorded
  <1>5. QED
    BY <1>2, <1>3, <1>4, ProfilerInvIs

(* A scope that was not stopped ends: one record more, and one end. *)
LEMMA EndRecorded ==
    ASSUME Clocked, EndsOnce, Recorded, NEW s \in Scope, scope[s].live, ~scope[s]._stopped,
           _records' = manager_add(scope[s]._scope_name, scope[s]._enter_ns, now_ns),
           NEW new, new = [id |-> scope[s].id, name |-> scope[s]._scope_name,
                           ns |-> now_ns - scope[s]._enter_ns],
           calls' = [calls EXCEPT !.ended = calls.ended \cup {new}]
    PROVE  /\ calls' \in [all : Nat, ended : SUBSET OneEnd] /\ IsFiniteSet(calls'.ended)
           /\ calls'.all = calls.all /\ calls'.ended = calls.ended \cup {new}
           /\ new.id = scope[s].id
           /\ Recorded'
  <1> PICK o, E, r : /\ o = scope[s] /\ E = calls.ended
                     /\ r = [enter_ns |-> scope[s]._enter_ns, leave_ns |-> now_ns]
    OBVIOUS
  <1>1. /\ o \in ScopeObject /\ o._enter_ns <= now_ns /\ now_ns \in Nat
        /\ \A c \in E : c.id # o.id
    <2>1. o \in ScopeObject \cup {Outside} /\ o.live
      BY DEF Clocked
    <2>2. QED
      BY <2>1 DEF Clocked, EndsOnce, Outside
  <1>2. /\ new \in OneEnd /\ new \notin E /\ new.name = o._scope_name /\ new.id = o.id
        /\ r \in OneRecord /\ new.ns = r.leave_ns - r.enter_ns /\ new.name \in Name
    <2>1. o._scope_name \in Name /\ o._enter_ns \in Nat /\ o.id \in Nat
      BY <1>1, ScopeFields DEF Typed
    <2>2. now_ns - o._enter_ns \in Nat
      BY <1>1, <2>1
    <2>3. new.id = o.id /\ new.name = o._scope_name /\ new.ns = now_ns - o._enter_ns
      OBVIOUS
    <2>4. new \in OneEnd
      BY <2>1, <2>2 DEF OneEnd
    <2>5. new \notin E
      BY <1>1, <2>3
    <2>6. r \in OneRecord /\ r.leave_ns = now_ns /\ r.enter_ns = o._enter_ns
      BY <1>1, <2>1 DEF OneRecord
    <2>7. QED
      BY <2>1, <2>3, <2>4, <2>5, <2>6
  <1>3. calls \in [all : Nat, ended : SUBSET OneEnd] /\ IsFiniteSet(E) /\ E \subseteq OneEnd
    BY DEF Clocked
  <1>4. /\ calls' \in [all : Nat, ended : SUBSET OneEnd] /\ IsFiniteSet(calls'.ended)
        /\ calls'.all = calls.all /\ calls'.ended = E \cup {new}
    <2>1. calls' = [calls EXCEPT !.ended = E \cup {new}] /\ E \cup {new} \in SUBSET OneEnd
      BY <1>2, <1>3
    <2>2. calls' \in [all : Nat, ended : SUBSET OneEnd] /\ calls'.all = calls.all /\ calls'.ended = E \cup {new}
      BY ONLY <1>3, <2>1
    <2>3. IsFiniteSet(E \cup {new})
      BY <1>3, FS_AddElement
    <2>4. QED
      BY <2>2, <2>3
  <1>5. /\ DOMAIN _records' = DOMAIN _records \cup {new.name}
        /\ _records'[new.name] = Append(records_for(new.name), r)
        /\ \A n \in DOMAIN _records : n # new.name => _records'[n] = _records[n]
    BY <1>2 DEF manager_add, records_for
  <1>6. ASSUME NEW name \in Name
        PROVE  records_for(name)' \in Seq(OneRecord) /\ AreRecords(records_for(name)', Of(name)')
    <2>1. CASE name = new.name
      <3>1. records_for(name)' = Append(records_for(name), r)
        BY <1>5, <2>1 DEF records_for
      <3>2. Of(name)' = Of(name) \cup {new} /\ new \notin Of(name)
        BY <1>2, <1>4, <2>1 DEF Of
      <3>3. /\ records_for(name) \in Seq(OneRecord) /\ AreRecords(records_for(name), Of(name))
            /\ IsFiniteSet(Of(name)) /\ Of(name) \subseteq OneEnd
        BY <1>3, FS_Subset DEF Recorded, Of
      <3>4. /\ Append(records_for(name), r) \in Seq(OneRecord)
            /\ AreRecords(Append(records_for(name), r), Of(name) \cup {new})
        BY ONLY <1>2, <3>2, <3>3, RecordAdded
      <3>5. QED
        BY <3>1, <3>2, <3>4
    <2>2. CASE name # new.name
      <3>1. records_for(name)' = records_for(name)
        BY <1>5, <2>2 DEF records_for
      <3>2. Of(name)' = Of(name)
        BY <1>4, <2>2 DEF Of
      <3>3. QED
        BY <3>1, <3>2 DEF Recorded
    <2>3. QED
      BY <2>1, <2>2
  <1>7. DOMAIN _records' = {c.name : c \in calls'.ended}
    BY <1>4, <1>5 DEF Recorded
  <1>8. Recorded'
    BY <1>6, <1>7 DEF Recorded
  <1>9. QED
    BY <1>2, <1>4, <1>8

(* stop(), and the destructor. *)
LEMMA EndKeeps ==
    ASSUME ProfilerInv, NEW s \in Scope, scope[s].live,
           _records' = stop_records(scope[s]), calls' = End(scope[s]),
           NEW o, o = [scope[s] EXCEPT !._stopped = TRUE] \/ o = Outside,
           scope' = [scope EXCEPT ![s] = o], UNCHANGED now_ns
    PROVE  ProfilerInv'
  <1>1. Clocked /\ EndsOnce /\ Recorded
    BY ProfilerInvIs
  <1>2. /\ scope \in [Scope -> ScopeObject \cup {Outside}] /\ scope[s] \in ScopeObject
        /\ now_ns \in Nat /\ \A t \in Scope : scope[t] \in ScopeObject \cup {Outside}
    <2>1. scope \in [Scope -> ScopeObject \cup {Outside}] /\ now_ns \in Nat
      BY <1>1 DEF Clocked
    <2>2. QED
      BY <2>1, LiveIs
  <1>3. /\ o \in ScopeObject \cup {Outside}
        /\ o.live => o._stopped /\ o.id = scope[s].id /\ o._enter_ns = scope[s]._enter_ns
    <2>1. CASE o = Outside
      BY <2>1, ScopeFields
    <2>2. CASE o = [scope[s] EXCEPT !._stopped = TRUE]
      BY <1>2, <2>2, StoppedIs
    <2>3. QED
      BY <2>1, <2>2
  <1>4. scope' \in [Scope -> ScopeObject \cup {Outside}] /\ scope'[s] = o
        /\ \A t \in Scope : t # s => scope'[t] = scope[t]
    BY <1>2, <1>3
  <1>5. CASE scope[s]._stopped
    <2>1. _records' = _records /\ calls' = calls
      BY <1>5 DEF stop_records, End
    <2>2. Clocked'
      BY <1>1, <1>4, <2>1 DEF Clocked
    <2>3. Recorded'
      BY <1>1, <2>1 DEF Recorded, records_for, Of
    <2>4. EndsOnce'
      BY <1>1, <1>3, <1>4, <2>1 DEF EndsOnce
    <2>5. QED
      BY <2>2, <2>3, <2>4, ProfilerInvPrimed
  <1>6. CASE ~scope[s]._stopped
    <2> PICK new : new = [id |-> scope[s].id, name |-> scope[s]._scope_name,
                          ns |-> now_ns - scope[s]._enter_ns]
      OBVIOUS
    <2>1. /\ _records' = manager_add(scope[s]._scope_name, scope[s]._enter_ns, now_ns)
          /\ calls' = [calls EXCEPT !.ended = calls.ended \cup {new}]
      BY <1>6 DEF stop_records, End
    <2>2. /\ calls' \in [all : Nat, ended : SUBSET OneEnd] /\ IsFiniteSet(calls'.ended)
          /\ calls'.all = calls.all /\ calls'.ended = calls.ended \cup {new}
          /\ new.id = scope[s].id
          /\ Recorded'
      BY <1>1, <1>6, <2>1, EndRecorded
    <2>3. Clocked'
      BY <1>2, <1>4, <2>2 DEF Clocked
    <2>4. EndsOnce'
      <3>1. \A c \in calls'.ended : c.id < calls'.all
        BY <1>1, <2>2 DEF EndsOnce
      <3>2. ASSUME NEW t \in Scope, scope'[t].live
            PROVE  /\ scope'[t].id < calls'.all /\ scope'[t]._enter_ns <= now_ns'
                   /\ ~scope'[t]._stopped => \A c \in calls'.ended : c.id # scope'[t].id
                   /\ \A u \in Scope : scope'[u].live /\ scope'[u].id = scope'[t].id => u = t
        <4>1. CASE t = s
          BY <1>1, <1>3, <1>4, <2>2, <3>2, <4>1 DEF EndsOnce
        <4>2. CASE t # s
          <5>1. scope'[t] = scope[t] /\ scope[t].live /\ scope[t].id # scope[s].id
            BY <1>1, <1>4, <3>2, <4>2 DEF EndsOnce
          <5>2. \A u \in Scope : scope'[u].live => scope[u].live /\ scope'[u].id = scope[u].id
            BY <1>3, <1>4
          <5>3. QED
            BY <1>1, <2>2, <5>1, <5>2 DEF EndsOnce
        <4>3. QED
          BY <4>1, <4>2
      <3>3. QED
        BY <3>1, <3>2 DEF EndsOnce
    <2>5. QED
      BY <2>2, <2>3, <2>4, ProfilerInvPrimed
  <1>7. QED
    BY <1>5, <1>6

LEMMA EnterKeeps == ASSUME ProfilerInv, NEW s \in Scope, enter(s) PROVE ProfilerInv'
  <1>1. Clocked /\ EndsOnce /\ Recorded
    BY ProfilerInvIs
  <1>2. PICK name \in Name :
          /\ ~scope[s].live
          /\ scope' = [scope EXCEPT ![s] =
               [live |-> TRUE, _scope_name |-> name, _enter_ns |-> now_ns,
                _stopped |-> FALSE, id |-> calls.all]]
          /\ calls' = [calls EXCEPT !.all = @ + 1]
          /\ UNCHANGED <<now_ns, _records>>
    BY DEF enter
  <1> PICK o : o = [live |-> TRUE, _scope_name |-> name, _enter_ns |-> now_ns,
                    _stopped |-> FALSE, id |-> calls.all]
    OBVIOUS
  <1>3. /\ scope \in [Scope -> ScopeObject \cup {Outside}] /\ now_ns \in Nat
        /\ calls \in [all : Nat, ended : SUBSET OneEnd]
    BY <1>1 DEF Clocked
  <1>4. /\ calls' \in [all : Nat, ended : SUBSET OneEnd] /\ calls'.ended = calls.ended
        /\ calls'.all = calls.all + 1 /\ calls.all \in Nat
    BY <1>2, <1>3
  <1>5. o \in ScopeObject /\ o.live /\ o.id = calls.all /\ o._enter_ns = now_ns
    BY <1>3, <1>4 DEF ScopeObject
  <1>6. /\ scope' \in [Scope -> ScopeObject \cup {Outside}] /\ scope'[s] = o
        /\ \A t \in Scope : t # s => scope'[t] = scope[t]
    BY <1>2, <1>3, <1>5
  <1>7. Clocked' /\ Recorded'
    BY <1>1, <1>2, <1>4, <1>6 DEF Clocked, Recorded, records_for, Of
  <1>8. EndsOnce'
    <2>1. \A c \in calls.ended : c.id < calls.all /\ c.id \in Nat
      BY <1>1, <1>3 DEF EndsOnce, OneEnd
    <2>2. \A t \in Scope : scope[t].live => scope[t] \in ScopeObject /\ scope[t].id \in Nat
      BY <1>3, LiveIs DEF Typed
    <2>3. \A c \in calls'.ended : c.id < calls'.all
      BY <1>4, <2>1
    <2>4. ASSUME NEW t \in Scope, scope'[t].live
          PROVE  /\ scope'[t].id < calls'.all /\ scope'[t]._enter_ns <= now_ns'
                 /\ ~scope'[t]._stopped => \A c \in calls'.ended : c.id # scope'[t].id
                 /\ \A u \in Scope : scope'[u].live /\ scope'[u].id = scope'[t].id => u = t
      <3>1. \A u \in Scope : u # s /\ scope'[u].live => scope[u].live /\ scope'[u].id < calls.all /\ scope'[u].id \in Nat
        BY <1>1, <1>6, <2>2 DEF EndsOnce
      <3>2. CASE t = s
        BY <1>2, <1>3, <1>4, <1>5, <1>6, <2>1, <3>1, <3>2
      <3>3. CASE t # s
        <4>1. scope'[t] = scope[t] /\ scope[t].live /\ scope[t].id < calls.all /\ scope[t].id \in Nat
          BY <1>6, <2>4, <3>1, <3>3
        <4>2. \A u \in Scope : scope'[u].live /\ scope'[u].id = scope'[t].id => u # s
          BY <1>4, <1>5, <1>6, <4>1
        <4>3. QED
          BY <1>1, <1>2, <1>4, <1>6, <4>1, <4>2 DEF EndsOnce
      <3>4. QED
        BY <3>2, <3>3
    <2>5. QED
      BY <2>3, <2>4 DEF EndsOnce
  <1>9. QED
    BY <1>7, <1>8, ProfilerInvPrimed

LEMMA ProfilerStep == ASSUME ProfilerInv, [ProfilerNext]_profiler_vars PROVE ProfilerInv'
  <1>1. Clocked /\ EndsOnce /\ Recorded
    BY ProfilerInvIs
  <1>2. CASE UNCHANGED profiler_vars
    <2>1. UNCHANGED <<now_ns, scope, _records, calls>>
      BY <1>2 DEF profiler_vars
    <2>2. Clocked' /\ EndsOnce' /\ Recorded'
      BY <1>1, <2>1 DEF Clocked, EndsOnce, Recorded, records_for, Of
    <2>3. QED
      BY <2>2, ProfilerInvPrimed
  <1>3. CASE clock_ticks
    <2>1. now_ns' = now_ns + 1 /\ now_ns \in Nat /\ UNCHANGED <<scope, _records, calls>>
      BY <1>1, <1>3 DEF clock_ticks, Clocked
    <2>2. Clocked' /\ Recorded'
      <3>1. Clocked'
        BY <1>1, <2>1 DEF Clocked
      <3>2. Recorded'
        BY <1>1, <2>1 DEF Recorded, records_for, Of
      <3>3. QED
        BY <3>1, <3>2
    <2>3. EndsOnce'
      <3>1. \A s \in Scope : scope[s].live => scope[s]._enter_ns \in Nat
        BY <1>1, LiveIs DEF Clocked, Typed
      <3>2. \A s \in Scope : scope[s].live => scope[s]._enter_ns <= now_ns'
        BY <1>1, <2>1, <3>1 DEF EndsOnce
      <3>3. QED
        BY <1>1, <2>1, <3>2 DEF EndsOnce
    <2>4. QED
      BY <2>2, <2>3, ProfilerInvPrimed
  <1>4. CASE \E s \in Scope : enter(s)
    BY <1>4, EnterKeeps
  <1>5. ASSUME NEW s \in Scope, stop(s) PROVE ProfilerInv'
    <2> PICK o : o = [scope[s] EXCEPT !._stopped = TRUE]
      OBVIOUS
    <2>1. /\ scope[s].live /\ _records' = stop_records(scope[s]) /\ calls' = End(scope[s])
          /\ scope' = [scope EXCEPT ![s] = o] /\ UNCHANGED now_ns
      BY <1>5 DEF stop
    <2>2. QED
      BY <2>1, EndKeeps
  <1>6. ASSUME NEW s \in Scope, leave(s) PROVE ProfilerInv'
    <2>1. /\ scope[s].live /\ _records' = stop_records(scope[s]) /\ calls' = End(scope[s])
          /\ scope' = [scope EXCEPT ![s] = Outside] /\ UNCHANGED now_ns
      BY <1>6 DEF leave
    <2>2. QED
      BY <2>1, EndKeeps
  <1>7. CASE manager_clear
    <2>1. /\ _records' = << >> /\ calls' = [calls EXCEPT !.ended = {}] /\ UNCHANGED <<now_ns, scope>>
      BY <1>7 DEF manager_clear
    <2>2. calls' \in [all : Nat, ended : SUBSET OneEnd] /\ calls'.ended = {} /\ calls'.all = calls.all
      BY <1>1, <2>1 DEF Clocked
    <2>3. Clocked'
      BY <1>1, <2>1, <2>2, FS_EmptySet DEF Clocked
    <2>4. EndsOnce'
      BY <1>1, <2>1, <2>2 DEF EndsOnce
    <2>5. Recorded'
      <3>1. DOMAIN _records' = {}
        BY <2>1
      <3>2. \A name \in Name : records_for(name)' = << >> /\ Of(name)' = {}
        BY <2>2, <3>1 DEF records_for, Of
      <3>3. QED
        BY <2>2, <3>1, <3>2, NoRecords DEF Recorded
    <2>6. QED
      BY <2>3, <2>4, <2>5, ProfilerInvPrimed
  <1>8. QED
    BY <1>2, <1>3, <1>4, <1>5, <1>6, <1>7 DEF ProfilerNext

(* The records are those of the scopes that ended since the last clear().  *)
THEOREM ProfilerInvariant == ProfilerSpec => []ProfilerInv
  <1>1. ProfilerInv /\ [ProfilerNext]_profiler_vars => ProfilerInv'
    BY ProfilerStep
  <1>2. QED
    BY <1>1, ProfilerInitInv, PTL DEF ProfilerSpec

(* Scaling an average by the divisor of its unit keeps its bounds.         *)
LEMMA Scaled ==
    ASSUME NEW low \in Nat, NEW high \in Nat, NEW count \in Nat, NEW total \in Nat, NEW per \in Nat,
           low * count <= total, total <= high * count
    PROVE  low * (per * count) <= total * per /\ total * per <= high * (per * count)
  <1>1. low * count \in Nat /\ high * count \in Nat
    OBVIOUS
  <1>2. (low * count) * per <= total * per /\ total * per <= (high * count) * per
    BY <1>1, MulMono
  <1>3. (low * count) * per = low * (per * count) /\ (high * count) * per = high * (per * count)
    OBVIOUS
  <1>4. QED
    BY <1>2, <1>3

(* What a summary of the records of some scopes says of the scopes.        *)
LEMMA SummaryTells ==
    ASSUME NEW records \in Seq(OneRecord), NEW R, IsFiniteSet(R), R \subseteq OneEnd, R # {},
           AreRecords(records, R), NEW per \in Nat, NEW s, s = summarize(records)
    PROVE  /\ s.call_count = Cardinality(R)
           /\ s.total_ns = MapThenSumSet(LAMBDA c : c.ns, R)
           /\ s.min_ns = Min({c.ns : c \in R}) /\ s.max_ns = Max({c.ns : c \in R})
           /\ s.min_ns * (per * s.call_count) <= s.total_ns * per
           /\ s.total_ns * per <= s.max_ns * (per * s.call_count)
  <1> PICK f, N, M : f = Elapsed(records) /\ N = {c.ns : c \in R} /\ M = MapThenSumSet(LAMBDA c : c.ns, R)
    OBVIOUS
  <1>1. /\ IsFiniteSet(N) /\ N # {} /\ N \subseteq Nat
        /\ Cardinality(R) \in Nat /\ Cardinality(R) # 0
    <2>1. IsFiniteSet(N)
      <3> PICK h : h = Times(R)
        OBVIOUS
      <3>1. Range(h) = N /\ h \in [R -> N]
        BY DEF Range, Times
      <3>2. h \in Surjection(R, N)
        BY <3>1 DEF Surjection, Range
      <3>3. QED
        BY <3>2, FS_Surjection
    <2>2. N # {} /\ N \subseteq Nat
      BY DEF OneEnd
    <2>3. QED
      BY <2>1, <2>2, FS_CardinalityType, FS_EmptySet
  <1>2. /\ Max(N) \in N /\ \A y \in N : y <= Max(N)
        /\ Min(N) \in N /\ \A y \in N : Min(N) <= y
    <2>1. N \subseteq Int
      BY <1>1
    <2>2. QED
      BY ONLY <1>1, <2>1, Extremes
  <1>3. Max(N \cup {0}) = Max(N)
    <2>1. N \cup {0} \subseteq Int /\ IsFiniteSet(N \cup {0}) /\ N \cup {0} # {}
      BY ONLY <1>1, FS_AddElement
    <2>2. Max(N \cup {0}) \in N \cup {0} /\ \A y \in N \cup {0} : y <= Max(N \cup {0})
      BY ONLY <2>1, Extremes
    <2>3. QED
      <3> PICK m, k : m = Max(N) /\ k = Max(N \cup {0})
        OBVIOUS
      <3>1. m \in Nat /\ m \in N /\ \A y \in N : y <= m
        BY ONLY <1>1, <1>2, m = Max(N)
      <3>2. k \in N \cup {0} /\ \A y \in N \cup {0} : y <= k
        BY ONLY <2>2, k = Max(N \cup {0})
      <3>3. m = k
        BY ONLY <1>1, <3>1, <3>2
      <3>4. QED
        BY <3>3
  <1>4. /\ {f[i] : i \in DOMAIN f} = N /\ records # << >>
        /\ FoldSeq(LAMBDA a, b : a + b, 0, f) = M /\ Len(records) = Cardinality(R)
    <2>1. DOMAIN f = DOMAIN records
      BY DEF Elapsed
    <2>2. FoldSeq(LAMBDA a, b : a + b, 0, f) = Total(f, DOMAIN records)
      BY ElapsedSum
    <2>3. M = Total(Times(R), R)
      BY TimesSum
    <2>4. Len(records) = Cardinality(R)
      BY DEF AreRecords
    <2>5. records # << >>
      BY <1>1, <2>4
    <2>6. QED
      BY <2>1, <2>2, <2>3, <2>4, <2>5 DEF AreRecords
  <1>5. s = [call_count |-> Len(records), total_ns |-> FoldSeq(LAMBDA a, b : a + b, 0, f),
             min_ns |-> IF records = << >> THEN 0 ELSE Min({f[i] : i \in DOMAIN f}),
             max_ns |-> Max({f[i] : i \in DOMAIN f} \cup {0})]
    BY DEF summarize, Elapsed
  <1>6. /\ s.call_count = Cardinality(R) /\ s.total_ns = M
        /\ s.min_ns = Min(N) /\ s.max_ns = Max(N)
    <2>1. s = [call_count |-> Cardinality(R), total_ns |-> M, min_ns |-> Min(N), max_ns |-> Max(N)]
      BY ONLY <1>3, <1>4, <1>5
    <2>2. QED
      BY <2>1
  <1>7. Min(N) * Cardinality(R) <= M /\ M <= Max(N) * Cardinality(R) /\ M \in Int
    <2> PICK h : h = Times(R)
      OBVIOUS
    <2>1. Numbered(h, R) /\ M = Total(h, R)
      BY TimesSum
    <2>2. \A c \in R : h[c] \in N
      BY DEF Times
    <2>3. Min(N) \in Int /\ Max(N) \in Int /\ \A c \in R : Min(N) <= h[c] /\ h[c] <= Max(N)
      BY <1>1, <1>2, <2>2
    <2> PICK low, high : low = Min(N) /\ high = Max(N)
      OBVIOUS
    <2>4. low * Cardinality(R) <= Total(h, R) /\ Total(h, R) <= high * Cardinality(R)
      BY ONLY <2>1, <2>3, low = Min(N), high = Max(N), TotalBetween
    <2>5. QED
      BY <2>1, <2>4, TotalIs
  <1> PICK low, high, count : low = Min(N) /\ high = Max(N) /\ count = Cardinality(R)
    OBVIOUS
  <1>8. low \in Nat /\ high \in Nat /\ count \in Nat /\ low * count <= M /\ M <= high * count
    BY <1>1, <1>2, <1>7
  <1>9. M \in Nat
    <2>1. low * count \in Nat /\ M \in Int
      BY <1>7, <1>8
    <2>2. QED
      BY <1>8, <2>1
  <1>10. low * (per * count) <= M * per /\ M * per <= high * (per * count)
    BY ONLY <1>8, <1>9, per \in Nat, Scaled
  <1>11. QED
    BY <1>6, <1>10

LEMMA ReportsTell == ASSUME ProfilerInv, ProfilerAssumption PROVE ReportsAreExact
  <1>1. Clocked /\ Recorded
    BY ProfilerInvIs
  <1>2. \A name : IsFiniteSet(Of(name)) /\ Of(name) \subseteq OneEnd
    BY <1>1, FS_Subset DEF Clocked, Of
  <1>3. DOMAIN _records = {c.name : c \in calls.ended} /\ DOMAIN _records \subseteq Name
    BY <1>1 DEF Recorded, Clocked, OneEnd
  <1>4. ASSUME NEW name \in DOMAIN _records
        PROVE  /\ _records[name] = records_for(name) /\ records_for(name) \in Seq(OneRecord)
               /\ AreRecords(records_for(name), Of(name))
               /\ Of(name) # {} /\ _records[name] # << >>
    <2>1. /\ _records[name] = records_for(name) /\ records_for(name) \in Seq(OneRecord)
          /\ AreRecords(records_for(name), Of(name)) /\ Of(name) # {}
      BY <1>1, <1>3 DEF Recorded, records_for, Of
    <2>2. Cardinality(Of(name)) # 0
      BY <1>2, <2>1, FS_EmptySet
    <2>3. _records[name] # << >>
      BY <2>1, <2>2 DEF AreRecords
    <2>4. QED
      BY <2>1, <2>3
  <1>5. report_names = DOMAIN _records
    BY <1>4 DEF report_names
  <1>6. ASSUME NEW name \in report_names, NEW unit \in DOMAIN Divisor
        PROVE  LET told == report_line(name, unit)
                   per  == Divisor[unit]
               IN  /\ told.calls = Cardinality(Of(name))
                   /\ told.total = <<MapThenSumSet(LAMBDA c : c.ns, Of(name)), per>>
                   /\ told.min = <<Min({c.ns : c \in Of(name)}), per>>
                   /\ told.max = <<Max({c.ns : c \in Of(name)}), per>>
                   /\ told.min[1] * told.avg[2] <= told.avg[1] * told.min[2]
                   /\ told.avg[1] * told.max[2] <= told.max[1] * told.avg[2]
    <2> PICK told, per, s : /\ told = report_line(name, unit) /\ per = Divisor[unit]
                            /\ s = summarize(records_for(name))
      OBVIOUS
    <2>1. per \in Nat
      BY DEF ProfilerAssumption
    <2>2. /\ s.call_count = Cardinality(Of(name))
          /\ s.total_ns = MapThenSumSet(LAMBDA c : c.ns, Of(name))
          /\ s.min_ns = Min({c.ns : c \in Of(name)}) /\ s.max_ns = Max({c.ns : c \in Of(name)})
          /\ s.min_ns * (per * s.call_count) <= s.total_ns * per
          /\ s.total_ns * per <= s.max_ns * (per * s.call_count)
      BY <1>2, <1>4, <1>5, <2>1, SummaryTells
    <2>3. told = [calls |-> s.call_count, total |-> <<s.total_ns, per>>,
                  avg |-> <<s.total_ns, per * s.call_count>>,
                  min |-> <<s.min_ns, per>>, max |-> <<s.max_ns, per>>]
      BY DEF report_line
    <2> PICK mn, tt, pc, mx, cc : /\ mn = s.min_ns /\ tt = s.total_ns /\ pc = per * s.call_count
                                  /\ mx = s.max_ns /\ cc = s.call_count
      OBVIOUS
    <2>4. /\ told.calls = cc /\ told.total = <<tt, per>> /\ told.min = <<mn, per>> /\ told.max = <<mx, per>>
          /\ told.avg = <<tt, pc>>
      BY <2>3
    <2>5. mn * pc <= tt * per /\ tt * per <= mx * pc
      BY <2>2
    <2>6. /\ told.min[1] = mn /\ told.min[2] = per /\ told.avg[1] = tt /\ told.avg[2] = pc
          /\ told.max[1] = mx /\ told.max[2] = per
      BY ONLY <2>4
    <2>7. /\ told.min[1] * told.avg[2] <= told.avg[1] * told.min[2]
          /\ told.avg[1] * told.max[2] <= told.max[1] * told.avg[2]
      BY ONLY <2>5, <2>6
    <2>8. QED
      BY <2>2, <2>4, <2>7
  <1>7. QED
    BY <1>3, <1>5, <1>6 DEF ReportsAreExact

(* ReportsAreExact: a report counts each scope that ended since the last   *)
(* clear() once, under its name, with its whole time, and its least, its   *)
(* greatest and its average time are those of these scopes.                *)
THEOREM ReportsTellTheScopes == ProfilerSpec => []ReportsAreExact
  <1>1. ProfilerInv => ReportsAreExact
    BY ReportsTell, ProfilerAssumption
  <1>2. QED
    BY <1>1, ProfilerInvariant, PTL


(***************************************************************************)
(* The set-up of a run                                                     *)
(***************************************************************************)
LEMMA TextEnds == ASSUME NEW s \in Seq(TextByte), s # << >>
                  PROVE  Last(s) = s[Len(s)] /\ Len(s) \in Nat \ {0}
  BY DEF Last

LEMMA TextsJoin == ASSUME NEW a, NEW b, IsText(a), IsText(b) PROVE IsText(a \o b)
  <1> DEFINE s == a \o b
  <1>1. a \in Seq(TextByte) /\ b \in Seq(TextByte)
    BY DEF IsText
  <1>2. CASE a = << >> \/ b = << >>
    <2>1. s = a \/ s = b
      BY <1>1, <1>2
    <2>2. QED
      BY <2>1
  <1>3. CASE a # << >> /\ b # << >>
    <2> PICK m, n : m = Len(a) /\ n = Len(b)
      OBVIOUS
    <2>1. m \in Nat \ {0} /\ n \in Nat \ {0}
      BY <1>1, <1>3
    <2>2. /\ s \in Seq(TextByte) /\ Len(s) = m + n /\ s # << >>
          /\ \A i \in 1..m : s[i] = a[i]
          /\ \A i \in (m + 1)..(m + n) : s[i] = b[i - m]
      BY <1>1, <2>1
    <2>3. a[m][1] = a[m][2] /\ b[n][1] = b[n][2]
      BY <1>1, <1>3, TextEnds DEF IsText, Whole
    <2>4. /\ \A i \in 1..(m - 1) : Continues(a[i + 1]) \/ a[i][1] = a[i][2]
          /\ \A i \in 1..(n - 1) : Continues(b[i + 1]) \/ b[i][1] = b[i][2]
      BY DEF IsText
    <2> HIDE DEF s
    <2>5. Whole(s)
      <3>1. m + n \in (m + 1)..(m + n) /\ m + n - m = n
        BY <2>1
      <3>2. s[m + n] = b[n]
        BY <2>2, <3>1
      <3>3. Last(s) = s[m + n]
        BY <2>2, TextEnds
      <3>4. QED
        BY <2>3, <3>2, <3>3 DEF Whole
    <2>6. ASSUME NEW i \in 1..(Len(s) - 1) PROVE Continues(s[i + 1]) \/ s[i][1] = s[i][2]
      <3>1. CASE i < m
        <4>1. i \in 1..(m - 1) /\ i \in 1..m /\ i + 1 \in 1..m
          BY <2>1, <2>2, <3>1
        <4>2. QED
          BY <2>2, <2>4, <4>1
      <3>2. CASE i = m
        BY <2>1, <2>2, <2>3, <3>2
      <3>3. CASE i > m
        <4>1. /\ i - m \in 1..(n - 1) /\ i \in (m + 1)..(m + n) /\ i + 1 \in (m + 1)..(m + n)
              /\ i + 1 - m = (i - m) + 1
          BY <2>1, <2>2, <3>3
        <4>2. s[i] = b[i - m] /\ s[i + 1] = b[(i - m) + 1]
          BY <2>2, <4>1
        <4>3. QED
          BY <2>4, <4>1, <4>2
      <3>4. QED
        BY <2>1, <2>2, <3>1, <3>2, <3>3
    <2>7. QED
      BY <2>2, <2>5, <2>6 DEF IsText, s
  <1>4. QED
    BY <1>2, <1>3

LEMMA CharIsText == ASSUME NEW w \in Nat \ {0} PROVE IsText([k \in 1..w |-> <<w, k>>])
  <1> PICK s : s = [k \in 1..w |-> <<w, k>>]
    OBVIOUS
  <1>1. s \in [1..w -> TextByte]
    BY DEF TextByte
  <1>2. s \in Seq(TextByte) /\ Len(s) = w /\ s # << >>
    <2>1. s \in Seq(TextByte)
      BY <1>1
    <2>2. Len(s) = w
      BY <1>1, <2>1
    <2>3. QED
      BY <2>1, <2>2
  <1>3. Whole(s)
    <2>1. Last(s) = s[w] /\ w \in 1..w
      BY ONLY <1>2, w \in Nat \ {0}, TextEnds
    <2>2. s[w] = <<w, w>>
      BY <2>1
    <2>3. QED
      BY <2>1, <2>2 DEF Whole
  <1>4. \A i \in 1..(Len(s) - 1) : Continues(s[i + 1])
    BY <1>2 DEF Continues
  <1>5. QED
    BY <1>2, <1>3, <1>4 DEF IsText

(* Texts that are joined are a text. *)
LEMMA FlattenedTexts ==
    ASSUME NEW seqs, NEW n \in Nat, Len(seqs) = n, n = 0 => seqs = << >>,
           \A i \in 1..n : IsText(seqs[i])
    PROVE  IsText(FlattenSeq(seqs))
  <1>1. CASE n = 0
    <2>1. FlattenSeq(seqs) = << >>
      BY <1>1 DEF FlattenSeq
    <2>2. QED
      BY <2>1 DEF IsText, Whole
  <1>2. CASE n # 0
    <2> DEFINE Obeys(f, m) == f = [i \in 1..m |-> IF i = 1 THEN seqs[i] ELSE f[i - 1] \o seqs[i]]
    <2>1. FlattenSeq(seqs) = (CHOOSE f : Obeys(f, n))[n]
      BY <1>2 DEF FlattenSeq
    <2>2. \A m \in Nat : \E f : Obeys(f, m)
      <3> DEFINE T == {m \in Nat : \E f : Obeys(f, m)}
      <3>1. 0 \in T
        <4> PICK f : f = [i \in 1..0 |-> 0]
          OBVIOUS
        <4>1. Obeys(f, 0)
          OBVIOUS
        <4>2. QED
          BY <4>1
      <3>2. ASSUME NEW m \in T \cap Nat PROVE m + 1 \in T
        <4>1. PICK f : Obeys(f, m)
          OBVIOUS
        <4>2. \A i \in 1..m : f[i] = IF i = 1 THEN seqs[i] ELSE f[i - 1] \o seqs[i]
          BY <4>1
        <4> PICK g : g = [i \in 1..(m + 1) |-> IF i = 1 THEN seqs[i] ELSE f[i - 1] \o seqs[i]]
          OBVIOUS
        <4>3. \A i \in 1..(m + 1) : i # 1 => g[i - 1] = f[i - 1]
          <5>1. m \in Nat
            OBVIOUS
          <5>2. \A i \in 1..(m + 1) : i # 1 => i - 1 \in 1..m /\ i - 1 \in 1..(m + 1)
            BY ONLY <5>1
          <5>3. \A j \in 1..m : j \in 1..(m + 1)
            BY ONLY <5>1
          <5>4. \A j \in 1..(m + 1) : g[j] = IF j = 1 THEN seqs[j] ELSE f[j - 1] \o seqs[j]
            OBVIOUS
          <5>5. \A j \in 1..m : g[j] = f[j]
            BY ONLY <4>2, <5>3, <5>4
          <5>6. QED
            BY ONLY <5>2, <5>5
        <4>4. Obeys(g, m + 1)
          <5>1. g = [i \in 1..(m + 1) |-> IF i = 1 THEN seqs[i] ELSE g[i - 1] \o seqs[i]]
            BY ONLY <4>3, g = [i \in 1..(m + 1) |-> IF i = 1 THEN seqs[i] ELSE f[i - 1] \o seqs[i]]
          <5>2. QED
            BY ONLY <5>1
        <4>5. m + 1 \in Nat
          OBVIOUS
        <4>6. \E h : Obeys(h, m + 1)
          <5> HIDE DEF Obeys
          <5>1. QED
            BY <4>4
        <4>7. QED
          <5> HIDE DEF Obeys
          <5>1. QED
            BY <4>5, <4>6
      <3>3. QED
        <4> HIDE DEF T
        <4>1. Nat \subseteq T
          BY <3>1, <3>2, SetInduction
        <4>2. QED
          BY <4>1 DEF T
    <2> PICK f : f = CHOOSE g : Obeys(g, n)
      OBVIOUS
    <2>3. Obeys(f, n)
      BY <2>2
    <2>4. \A i \in 1..n : f[i] = IF i = 1 THEN seqs[i] ELSE f[i - 1] \o seqs[i]
      BY <2>3
    <2> HIDE DEF Obeys
    <2>5. \A m \in Nat : m + 1 \in 1..n => IsText(f[m + 1])
      <3> DEFINE T == {m \in Nat : m + 1 \in 1..n => IsText(f[m + 1])}
      <3>1. 0 \in T
        BY <2>4
      <3>2. ASSUME NEW m \in T \cap Nat PROVE m + 1 \in T
        <4>1. SUFFICES ASSUME (m + 1) + 1 \in 1..n PROVE IsText(f[(m + 1) + 1])
          OBVIOUS
        <4>2. f[(m + 1) + 1] = f[m + 1] \o seqs[(m + 1) + 1]
          <5>1. (m + 1) + 1 # 1 /\ ((m + 1) + 1) - 1 = m + 1
            OBVIOUS
          <5>2. QED
            BY <2>4, <4>1, <5>1
        <4>3. IsText(f[m + 1]) /\ IsText(seqs[(m + 1) + 1])
          BY <4>1
        <4>4. QED
          BY ONLY <4>2, <4>3, TextsJoin
      <3>3. QED
        <4> HIDE DEF T
        <4>1. Nat \subseteq T
          BY <3>1, <3>2, SetInduction
        <4>2. QED
          BY <4>1 DEF T
    <2>6. n - 1 \in Nat /\ (n - 1) + 1 = n /\ n \in 1..n
      BY <1>2
    <2>7. IsText(f[n])
      BY <2>5, <2>6
    <2>8. QED
      BY <2>1, <2>7
  <1>3. QED
    BY <1>1, <1>2

LEMMA BytesAreText == ASSUME NEW widths \in Seq(Nat \ {0}) PROVE IsText(Bytes(widths))
  <1> PICK seqs, n : /\ seqs = [i \in DOMAIN widths |-> [k \in 1..widths[i] |-> <<widths[i], k>>]]
                     /\ n = Len(widths)
    OBVIOUS
  <1>1. n \in Nat /\ DOMAIN widths = 1..n /\ \A i \in 1..n : widths[i] \in Nat \ {0}
    OBVIOUS
  <1>2. \A i \in 1..n : IsText(seqs[i])
    BY <1>1, CharIsText
  <1>3. Len(seqs) = n /\ (n = 0 => seqs = << >>)
    <2>1. seqs \in [1..n -> Seq(TextByte)]
      BY <1>1, <1>2 DEF IsText
    <2>2. seqs \in Seq(Seq(TextByte))
      BY <1>1, <2>1
    <2>3. QED
      BY <1>1, <2>1, <2>2
  <1>4. IsText(FlattenSeq(seqs))
    BY ONLY <1>1, <1>2, <1>3, FlattenedTexts
  <1>5. QED
    BY <1>4 DEF Bytes

(* cut keeps whole characters, and at most so many bytes.                  *)
LEMMA CutIsText ==
    ASSUME NEW s, IsText(s), NEW m \in Nat
    PROVE  IsText(cut(s, m)) /\ Len(cut(s, m)) <= m
  <1>1. s \in Seq(TextByte) /\ Len(s) \in Nat
    BY DEF IsText
  <1>2. CASE Len(s) <= m
    BY <1>2 DEF cut
  <1>3. CASE ~(Len(s) <= m)
    <2> DEFINE C == {c \in 0..m : c = 0 \/ ~Continues(s[c + 1])}
    <2> PICK k : k = Max(C)
      OBVIOUS
    <2>1. cut(s, m) = SubSeq(s, 1, k)
      BY <1>3 DEF cut
    <2>2. C \subseteq 0..m /\ 0 \in C
      OBVIOUS
    <2>3. IsFiniteSet(C)
      <3> HIDE DEF C
      <3>1. IsFiniteSet(0..m)
        BY FS_Interval
      <3>2. QED
        BY ONLY <2>2, <3>1, FS_Subset
    <2>4. k \in C
      <3> HIDE DEF C
      <3>1. C \subseteq Int /\ C # {}
        BY <2>2
      <3>2. QED
        BY <2>3, <3>1, Extremes
    <2>5. k \in 0..m /\ (k = 0 \/ ~Continues(s[k + 1]))
      BY <2>4
    <2> HIDE DEF C
    <2> PICK r : r = SubSeq(s, 1, k)
      OBVIOUS
    <2>6. /\ r \in Seq(TextByte) /\ Len(r) = k /\ k < Len(s)
          /\ \A i \in 1..k : r[i] = s[i]
      BY <1>1, <1>3, <2>5
    <2>7. Whole(r)
      <3>1. CASE k = 0
        BY <2>6, <3>1 DEF Whole
      <3>2. CASE k # 0
        <4>1. k \in 1..(Len(s) - 1)
          BY <1>1, <2>5, <2>6, <3>2
        <4>2. s[k][1] = s[k][2]
          BY <2>5, <3>2, <4>1 DEF IsText
        <4>3. Last(r) = s[k]
          <5>1. k \in Nat /\ k # 0 /\ r # << >>
            BY <2>5, <2>6, <3>2
          <5>2. Last(r) = r[k] /\ k \in 1..k
            BY ONLY <2>6, <5>1, TextEnds
          <5>3. QED
            BY <2>6, <5>2
        <4>4. QED
          BY <4>2, <4>3 DEF Whole
      <3>3. QED
        BY <3>1, <3>2
    <2>8. ASSUME NEW i \in 1..(Len(r) - 1) PROVE Continues(r[i + 1]) \/ r[i][1] = r[i][2]
      <3>1. i \in 1..(Len(s) - 1) /\ r[i] = s[i] /\ r[i + 1] = s[i + 1]
        BY <1>1, <2>5, <2>6
      <3>2. QED
        BY <3>1 DEF IsText
    <2>9. QED
      BY <2>1, <2>5, <2>6, <2>7, <2>8 DEF IsText
  <1>4. QED
    BY <1>2, <1>3

LEMMA DrawnAreTexts == ASSUME SetupAssumption, NEW s \in Drawn PROVE IsText(s)
  <1>1. \A w \in Pool : w \in Seq(Nat \ {0})
    BY DEF SetupAssumption
  <1>2. \A a, b \in Pool : a \o << 1 >> \o b \in Seq(Nat \ {0})
    BY <1>1
  <1>3. CASE \E w \in Pool : s = Bytes(w)
    BY <1>1, <1>3, BytesAreText
  <1>4. CASE \E a, b \in Pool : s = Bytes(a \o << 1 >> \o b)
    BY <1>2, <1>4, BytesAreText
  <1>5. QED
    BY <1>3, <1>4 DEF Drawn

Lens(lines) == [i \in DOMAIN lines |-> Len(lines[i])]
SumOfLens(lines) == FoldSeq(LAMBDA s, n : Len(s) + n, 0, lines)
Sizes(lines) == {Len(lines[i]) : i \in DOMAIN lines}

LEMMA LensSum ==
    ASSUME NEW lines \in Seq(Seq(TextByte))
    PROVE  /\ DOMAIN lines = 1..Len(lines) /\ Len(lines) \in Nat
           /\ Numbered(Lens(lines), DOMAIN lines)
           /\ SumOfLens(lines) = Total(Lens(lines), DOMAIN lines)
  <1> PICK D : D = DOMAIN lines
    OBVIOUS
  <1>1. D = 1..Len(lines) /\ Len(lines) \in Nat /\ \A i \in D : Len(lines[i]) \in Nat
    OBVIOUS
  <1>2. IsFiniteSet(D)
    BY ONLY <1>1, FS_Interval
  <1> DEFINE Obeys(I) == I = [s \in SUBSET D |->
                IF s = {} THEN 0 ELSE Len(lines[PickOf(s)]) + I[s \ {PickOf(s)}]]
  <1>3. SumOfLens(lines) = (CHOOSE I : Obeys(I))[D]
    BY DEF SumOfLens, FoldSeq, FoldFunction, FoldFunctionOnSet, MapThenFoldSet, PickOf
  <1> PICK f : f = Lens(lines)
    OBVIOUS
  <1>4. Numbered(f, D)
    BY <1>1, <1>2 DEF Numbered, Lens
  <1>5. ASSUME NEW I PROVE Obeys(I) <=> Sums(f, D, I)
    <2>1. \A s \in SUBSET D : s # {} => f[PickOf(s)] = Len(lines[PickOf(s)])
      BY PickIs DEF Lens
    <2>2. [s \in SUBSET D |-> IF s = {} THEN 0 ELSE Len(lines[PickOf(s)]) + I[s \ {PickOf(s)}]]
            = [s \in SUBSET D |-> IF s = {} THEN 0 ELSE f[PickOf(s)] + I[s \ {PickOf(s)}]]
      BY <2>1
    <2>3. QED
      BY <2>2 DEF Sums
  <1> PICK I : I = CHOOSE J : Obeys(J)
    OBVIOUS
  <1>6. \E J : Obeys(J)
    BY <1>4, <1>5, SumsExist
  <1> HIDE DEF Obeys
  <1>7. Sums(f, D, I)
    BY <1>5, <1>6
  <1>8. PICK J : Sums(f, D, J) /\ Total(f, D) = J[D]
    BY <1>4, SumsExist DEF Total
  <1>9. I[D] = J[D]
    BY <1>4, <1>7, <1>8, SumsAgree
  <1>10. SumOfLens(lines) = Total(f, D)
    BY <1>3, <1>8, <1>9
  <1>11. QED
    BY <1>1, <1>4, <1>10

LEMMA LensAdded ==
    ASSUME NEW lines \in Seq(Seq(TextByte)), NEW s \in Seq(TextByte)
    PROVE  /\ SumOfLens(Append(lines, s)) = SumOfLens(lines) + Len(s)
           /\ Sizes(Append(lines, s)) = Sizes(lines) \cup {Len(s)}
           /\ SumOfLens(lines) \in Int
  <1> PICK more, n, f, g :
        /\ more = Append(lines, s) /\ n = Len(lines)
        /\ f = Lens(lines) /\ g = Lens(more)
    OBVIOUS
  <1>1. /\ more \in Seq(Seq(TextByte)) /\ n \in Nat /\ Len(more) = n + 1
        /\ DOMAIN lines = 1..n /\ DOMAIN more = 1..(n + 1)
        /\ more[n + 1] = s /\ (\A i \in 1..n : more[i] = lines[i]) /\ Len(s) \in Nat
    OBVIOUS
  <1>2. (\A i \in 1..n : g[i] = f[i]) /\ g[n + 1] = Len(s)
    BY <1>1 DEF Lens
  <1>3. (1..(n + 1)) \ {n + 1} = 1..n /\ n + 1 \in 1..(n + 1) /\ 1..(n + 1) = 1..n \cup {n + 1}
    BY <1>1
  <1>4. Numbered(g, 1..(n + 1)) /\ Numbered(f, 1..n)
    BY <1>1, LensSum
  <1>5. Total(g, 1..(n + 1)) = g[n + 1] + Total(g, 1..n)
    BY <1>3, <1>4, TotalIs
  <1>6. Total(f, 1..n) = Total(g, 1..n)
    BY ONLY <1>2, <1>4, TotalSame
  <1>7. Total(f, 1..n) \in Int
    BY ONLY <1>4, TotalIs
  <1>8. SumOfLens(more) = Total(g, 1..(n + 1)) /\ SumOfLens(lines) = Total(f, 1..n)
    BY <1>1, LensSum
  <1>9. Sizes(more) = Sizes(lines) \cup {Len(s)}
    <2>1. Sizes(more) = {g[i] : i \in 1..(n + 1)} /\ Sizes(lines) = {f[i] : i \in 1..n}
      BY <1>1 DEF Sizes, Lens
    <2>2. QED
      BY ONLY <1>2, <1>3, <2>1
  <1>10. SumOfLens(more) = SumOfLens(lines) + Len(s)
    BY <1>1, <1>2, <1>5, <1>6, <1>7, <1>8
  <1>11. QED
    BY <1>7, <1>8, <1>9, <1>10

(* The least and the greatest of one more number. *)
LEMMA ExtremesGrow ==
    ASSUME NEW S, IsFiniteSet(S), S \subseteq Int, S # {}, NEW x \in Int
    PROVE  Min(S \cup {x}) = Min({Min(S), x}) /\ Max(S \cup {x}) = Max({Max(S), x})
  <1> PICK R, low, high, lower, higher :
        /\ R = S \cup {x} /\ low = Min(S) /\ high = Max(S) /\ lower = Min(R) /\ higher = Max(R)
    OBVIOUS
  <1>1. /\ high \in S /\ (\A y \in S : y <= high) /\ low \in S /\ \A y \in S : low <= y
    BY ONLY IsFiniteSet(S), S \subseteq Int, S # {}, low = Min(S), high = Max(S), Extremes
  <1>2. IsFiniteSet(R) /\ R \subseteq Int /\ R # {}
    BY FS_AddElement
  <1>3. /\ higher \in R /\ (\A y \in R : y <= higher) /\ lower \in R /\ \A y \in R : lower <= y
    BY ONLY <1>2, lower = Min(R), higher = Max(R), Extremes
  <1>4. high \in Int /\ low \in Int
    BY <1>1
  <1>5. lower = (IF low <= x THEN low ELSE x) /\ higher = (IF high >= x THEN high ELSE x)
    BY <1>1, <1>3, <1>4
  <1>6. Min({low, x}) = (IF low <= x THEN low ELSE x) /\ Max({high, x}) = (IF high >= x THEN high ELSE x)
    BY ONLY <1>4, x \in Int, GreatestOfTwo
  <1>7. QED
    BY <1>5, <1>6

(* What build_line keeps of the corpus.                                    *)
Measured(c) ==
    /\ Sizes(c.lines_) # {} => c.min_ = Min(Sizes(c.lines_)) /\ c.max_ = Max(Sizes(c.lines_))
    /\ c.total_ = SumOfLens(c.lines_)

LEMMA MeasuredIs == CorpusMeasured <=> Measured(corpus)
  BY DEF CorpusMeasured, Measured, Sizes, SumOfLens

LEMMA NoLines == Sizes(<< >>) = {} /\ SumOfLens(<< >>) = 0
  <1>1. << >> \in Seq(Seq(TextByte)) /\ DOMAIN << >> = {}
    OBVIOUS
  <1>2. Sizes(<< >>) = {}
    BY <1>1 DEF Sizes
  <1>3. SumOfLens(<< >>) = 0
    BY <1>1, LensSum, TotalIs
  <1>4. QED
    BY <1>2, <1>3

LEMMA LineMeasured ==
    ASSUME NEW lines \in Seq(Seq(TextByte)), NEW s \in Seq(TextByte), Len(s) <= SIZE_MAX,
           NEW low \in Nat, NEW high \in Nat, NEW total \in Nat, NEW c, NEW d,
           c.lines_ = lines, c.min_ = low, c.max_ = high, c.total_ = total, Measured(c),
           lines = << >> => low = SIZE_MAX /\ high = 0,
           d.lines_ = Append(lines, s), d.min_ = Min({low, Len(s)}), d.max_ = Max({high, Len(s)}),
           d.total_ = total + Len(s)
    PROVE  Measured(d) /\ d.min_ \in Nat /\ d.max_ \in Nat /\ d.total_ \in Nat
  <1> PICK n : n = Len(s)
    OBVIOUS
  <1>1. n \in Nat
    OBVIOUS
  <1>2. /\ Min({low, n}) = (IF low <= n THEN low ELSE n)
        /\ Max({high, n}) = (IF high >= n THEN high ELSE n)
    <2>1. low \in Int /\ high \in Int /\ n \in Int
      BY <1>1
    <2>2. \A a, b \in Int : /\ Max({a, b}) = IF a >= b THEN a ELSE b
                           /\ Min({a, b}) = IF a <= b THEN a ELSE b
      BY ONLY GreatestOfTwo
    <2>3. QED
      BY ONLY <2>1, <2>2
  <1>3. d.min_ \in Nat /\ d.max_ \in Nat /\ d.total_ \in Nat
    BY <1>1, <1>2
  <1>4. d.total_ = SumOfLens(d.lines_)
    BY LensAdded DEF Measured
  <1>5. Sizes(d.lines_) = Sizes(lines) \cup {n}
    BY LensAdded
  <1>6. CASE lines = << >>
    <2>1. Sizes(d.lines_) = {n} /\ low = SIZE_MAX /\ high = 0
      BY <1>5, <1>6, NoLines
    <2>2. Min({n}) = n /\ Max({n}) = n
      <3>1. {n} = {n, n}
        OBVIOUS
      <3>2. QED
        <4>1. n \in Int
          BY <1>1
        <4>2. Max({n, n}) = n /\ Min({n, n}) = n
          BY ONLY <4>1, GreatestOfTwo
        <4>3. QED
          BY <3>1, <4>2
    <2>3. d.min_ = n /\ d.max_ = n
      BY <1>1, <1>2, <2>1
    <2>4. QED
      BY <1>3, <1>4, <2>1, <2>2, <2>3 DEF Measured
  <1>7. CASE lines # << >>
    <2> PICK S : S = Sizes(lines)
      OBVIOUS
    <2>1. S # {} /\ S \subseteq Int /\ IsFiniteSet(S)
      <3>1. DOMAIN lines = 1..Len(lines) /\ Len(lines) \in Nat \ {0} /\ \A i \in DOMAIN lines : Len(lines[i]) \in Nat
        BY <1>7
      <3> PICK f : f = Lens(lines)
        OBVIOUS
      <3>2. f \in Surjection(DOMAIN lines, S)
        BY DEF Surjection, Sizes, Lens, Range
      <3>3. IsFiniteSet(DOMAIN lines)
        BY ONLY <3>1, FS_Interval
      <3>4. IsFiniteSet(S)
        BY <3>2, <3>3, FS_Surjection
      <3>5. S # {} /\ S \subseteq Int
        <4>1. 1 \in DOMAIN lines
          BY <3>1
        <4>2. Sizes(lines) # {}
          BY <4>1 DEF Sizes
        <4>3. Sizes(lines) \subseteq Int
          BY <3>1 DEF Sizes
        <4>4. QED
          BY <4>2, <4>3
      <3>6. QED
        BY <3>4, <3>5
    <2>2. low = Min(S) /\ high = Max(S)
      BY <2>1 DEF Measured
    <2>3. Min(S \cup {n}) = Min({Min(S), n}) /\ Max(S \cup {n}) = Max({Max(S), n})
      <3>1. n \in Int
        BY <1>1
      <3>2. QED
        BY ONLY <2>1, <3>1, ExtremesGrow
    <2>4. d.min_ = Min(S \cup {n}) /\ d.max_ = Max(S \cup {n})
      BY <2>2, <2>3
    <2>5. QED
      BY <1>3, <1>4, <1>5, <2>4 DEF Measured
  <1>8. QED
    BY <1>6, <1>7

LEMMA MeasuredPrimed == CorpusMeasured' <=> Measured(corpus')
  <1>1. CorpusMeasured' <=> Measured(corpus)'
    BY MeasuredIs, PTL
  <1>2. Measured(corpus)' <=> Measured(corpus')
    BY DEF Measured
  <1>3. QED
    BY <1>1, <1>2

(* While no line is added, what the corpus holds is what it held.          *)
LEMMA CorpusKept ==
    ASSUME CorpusHolds, corpus'.lines_ = corpus.lines_,
           \/ corpus.lines_ = << >>
           \/ corpus'.min_ = corpus.min_ /\ corpus'.max_ = corpus.max_,
           corpus'.total_ = corpus.total_, corpus'.max_ = corpus.max_,
           corpus.lines_ = << >> /\ stage' = "corpus" => corpus'.min_ = SIZE_MAX
    PROVE  CorpusHolds'
  <1>1. Measured(corpus)
    BY MeasuredIs DEF CorpusHolds
  <1>2. Sizes(corpus'.lines_) # {} => corpus'.min_ = corpus.min_
    BY NoLines
  <1>3. Measured(corpus')
    BY <1>1, <1>2 DEF Measured
  <1>4. CorpusMeasured'
    BY <1>3, MeasuredPrimed
  <1>5. QED
    BY <1>4 DEF CorpusHolds

LEMMA FrameKept == ASSUME FrameFits, UNCHANGED frame PROVE FrameFits'
  BY DEF FrameFits, Whole

LEMMA TableKept == ASSUME TableHolds, cfg'.conns = cfg.conns, UNCHANGED <<rlim, limit>> PROVE TableHolds'
  BY DEF TableHolds

LEMMA SetupInitInv == ASSUME SetupInit, SetupAssumption PROVE SetupInv
  <1>1. /\ stage = "args" /\ rlim \in FdLimits /\ limit = 0 /\ class_cursor = 0
        /\ cfg = [o \in Options \cup Flags |-> IF o \in Options THEN Defaults[o] ELSE FALSE]
        /\ corpus = [lines_ |-> << >>, cursor_ |-> 0, total_ |-> 0, min_ |-> 0, max_ |-> 0]
        /\ frame = [sent |-> 0, text |-> << >>, source |-> 0]
    BY DEF SetupInit
  <1>2. SetupTypeOK
    <2>1. DOMAIN cfg = Options \cup Flags /\ \A o \in Options : cfg[o] \in Int
      BY <1>1 DEF SetupAssumption
    <2>2. rlim \in [cur : Nat, max : Nat] /\ rlim.cur <= rlim.max
      BY <1>1 DEF SetupAssumption
    <2>3. << >> \in Seq(Seq(TextByte)) /\ << >> \in Seq(TextByte) /\ 0 \in 0..(Entries - 1)
      BY DEF SetupAssumption
    <2>4. /\ corpus \in [lines_ : Seq(Seq(TextByte)), cursor_ : 0..(Entries - 1),
                         total_ : Nat, min_ : Nat, max_ : Nat]
          /\ frame \in [sent : Nat, text : Seq(TextByte), source : Nat]
      BY <1>1, <2>3
    <2>5. QED
      BY <1>1, <2>1, <2>2, <2>4 DEF SetupTypeOK
  <1>3. StageHolds
    BY <1>1 DEF StageHolds
  <1>4. CorpusHolds
    <2>1. corpus.lines_ = << >> /\ corpus.max_ = 0 /\ corpus.total_ = 0 /\ DOMAIN << >> = {}
      BY <1>1
    <2>2. Measured(corpus)
      BY <2>1, NoLines DEF Measured
    <2>3. QED
      BY <1>1, <2>1, <2>2, MeasuredIs DEF CorpusHolds
  <1>5. FrameFits
    <2>1. frame.text = << >> /\ frame.source = 0 /\ Len(<< >>) = 0
      BY <1>1
    <2>2. k_blob_header + 0 <= k_max_blob
      BY DEF SetupAssumption, k_max_blob
    <2>3. QED
      BY <2>1, <2>2 DEF FrameFits, Whole
  <1>6. QED
    BY <1>2, <1>3, <1>4, <1>5 DEF SetupInv

LEMMA OptionKeeps == ASSUME SetupInv, SetupAssumption, parse_option PROVE SetupInv'
  <1>1. SetupTypeOK /\ StageHolds /\ CorpusHolds /\ FrameFits
    BY DEF SetupInv
  <1>2. /\ stage = "args" /\ stage' \in {"args", "rejected"}
        /\ UNCHANGED <<rlim, limit, corpus, class_cursor, frame>>
        /\ DOMAIN cfg' = Options \cup Flags /\ \A o \in Options : cfg'[o] \in Int
    <2>1. stage = "args" /\ UNCHANGED <<rlim, limit, corpus, class_cursor, frame>>
      BY DEF parse_option
    <2>2. DOMAIN cfg = Options \cup Flags /\ \A o \in Options : cfg[o] \in Int
      BY <1>1 DEF SetupTypeOK
    <2>3. CASE \E o \in DOMAIN Values : \E n \in Values[o] :
                 /\ stage' = IF o \in {"node", "corpus_seed"} /\ n < 0 THEN "rejected" ELSE "args"
                 /\ cfg' = [cfg EXCEPT ![o] = n]
      <3>1. PICK o \in DOMAIN Values : \E n \in Values[o] :
                 /\ stage' = IF o \in {"node", "corpus_seed"} /\ n < 0 THEN "rejected" ELSE "args"
                 /\ cfg' = [cfg EXCEPT ![o] = n]
        BY <2>3
      <3>2. PICK n \in Values[o] :
                 /\ stage' = IF o \in {"node", "corpus_seed"} /\ n < 0 THEN "rejected" ELSE "args"
                 /\ cfg' = [cfg EXCEPT ![o] = n]
        BY <3>1
      <3>3. o \in Options /\ n \in Int
        BY DEF SetupAssumption
      <3>4. DOMAIN cfg' = Options \cup Flags /\ \A p \in Options : cfg'[p] \in Int
        BY <2>2, <3>2, <3>3
      <3>5. QED
        BY <2>1, <3>2, <3>4
    <2>4. CASE \E flag \in Flags : cfg' = [cfg EXCEPT ![flag] = TRUE] /\ UNCHANGED stage
      <3>1. PICK flag \in Flags : cfg' = [cfg EXCEPT ![flag] = TRUE] /\ UNCHANGED stage
        BY <2>4
      <3>2. flag \notin Options
        BY DEF Flags, Options
      <3>3. QED
        BY <2>1, <2>2, <3>1, <3>2
    <2>5. QED
      BY <2>3, <2>4 DEF parse_option
  <1>3. SetupTypeOK'
    BY <1>1, <1>2 DEF SetupTypeOK
  <1>4. StageHolds'
    BY <1>1, <1>2 DEF StageHolds
  <1>5. CorpusHolds' /\ FrameFits'
    BY <1>1, <1>2, CorpusKept, FrameKept
  <1>6. QED
    BY <1>3, <1>4, <1>5 DEF SetupInv

LEMMA UnknownKeeps == ASSUME SetupInv, parse_unknown PROVE SetupInv'
  <1>1. SetupTypeOK /\ StageHolds /\ CorpusHolds /\ FrameFits
    BY DEF SetupInv
  <1>2. /\ stage = "args" /\ stage' = "rejected"
        /\ UNCHANGED <<cfg, argc, rlim, limit, corpus, class_cursor, frame>>
    BY DEF parse_unknown
  <1>3. SetupTypeOK'
    BY <1>1, <1>2 DEF SetupTypeOK
  <1>4. StageHolds'
    BY <1>1, <1>2 DEF StageHolds
  <1>5. CorpusHolds' /\ FrameFits'
    BY <1>1, <1>2, CorpusKept, FrameKept
  <1>6. QED
    BY <1>3, <1>4, <1>5 DEF SetupInv

LEMMA Clamped == ASSUME SetupAssumption, NEW n \in Int PROVE clamp_size(n) \in 0..(k_max_blob - k_blob_header)
  <1> PICK room : room = k_max_blob - k_blob_header
    OBVIOUS
  <1>1. room \in Nat /\ k_blob_header \in Nat /\ k_max_blob - k_blob_header \in Int
    BY DEF SetupAssumption, k_max_blob
  <1>2. \A m \in Nat : m + k_blob_header > k_max_blob \/ m \in 0..room
    BY <1>1 DEF SetupAssumption, k_max_blob
  <1>3. QED
    BY <1>1, <1>2 DEF clamp_size

LEMMA EndOfArgsKeeps == ASSUME SetupInv, SetupAssumption, parse_end PROVE SetupInv'
  <1>1. SetupTypeOK /\ StageHolds /\ CorpusHolds /\ FrameFits
    BY DEF SetupInv
  <1>2. /\ stage = "args" /\ UNCHANGED <<rlim, limit, corpus, class_cursor, frame>>
        /\ stage' = IF Refused(cfg) THEN "rejected" ELSE "limits"
        /\ cfg' = IF Refused(cfg) THEN cfg ELSE [cfg EXCEPT !.size = clamp_size(@)]
    BY DEF parse_end
  <1>3. DOMAIN cfg = Options \cup Flags /\ (\A o \in Options : cfg[o] \in Int) /\ cfg.size \in Int
    <2>1. DOMAIN cfg = Options \cup Flags /\ \A o \in Options : cfg[o] \in Int
      BY <1>1 DEF SetupTypeOK
    <2>2. cfg.size \in Int
      BY <2>1 DEF Options
    <2>3. QED
      BY <2>1, <2>2
  <1>4. CASE Refused(cfg)
    <2>1. SetupTypeOK'
      BY <1>1, <1>2, <1>4 DEF SetupTypeOK
    <2>2. StageHolds'
      BY <1>1, <1>2, <1>4 DEF StageHolds
    <2>3. CorpusHolds' /\ FrameFits'
      BY <1>1, <1>2, <1>4, CorpusKept, FrameKept
    <2>4. QED
      BY <2>1, <2>2, <2>3 DEF SetupInv
  <1>5. CASE ~Refused(cfg)
    <2> PICK n : n = clamp_size(cfg.size)
      OBVIOUS
    <2>1. n \in 0..(k_max_blob - k_blob_header) /\ n \in Int
      <3>1. n \in 0..(k_max_blob - k_blob_header)
        BY <1>3, Clamped
      <3>2. QED
        BY <3>1
    <2>2. stage' = "limits" /\ cfg' = [cfg EXCEPT !.size = n]
      BY <1>2, <1>5
    <2>3. /\ DOMAIN cfg' = Options \cup Flags /\ \A o \in Options : cfg'[o] \in Int
          /\ cfg'.size = n
          /\ cfg'.conns = cfg.conns /\ cfg'.per_room = cfg.per_room /\ cfg'.src_ips = cfg.src_ips
          /\ cfg'.inflight = cfg.inflight /\ cfg'.src_ip_base = cfg.src_ip_base
          /\ cfg'.server_pid = cfg.server_pid /\ cfg'.rate = cfg.rate /\ cfg'.duration = cfg.duration
      BY <1>3, <2>1, <2>2 DEF Options
    <2>4. ~Refused(cfg')
      BY <1>5, <2>3 DEF Refused
    <2>5. SetupTypeOK'
      BY <1>1, <1>2, <2>2, <2>3 DEF SetupTypeOK
    <2>6. StageHolds'
      BY <1>1, <1>2, <2>1, <2>2, <2>3, <2>4 DEF StageHolds
    <2>7. CorpusHolds' /\ FrameFits'
      BY <1>1, <1>2, <2>2, CorpusKept, FrameKept
    <2>8. QED
      BY <2>5, <2>6, <2>7 DEF SetupInv
  <1>6. QED
    BY <1>4, <1>5

LEMMA NatSizeMax == SIZE_MAX \in Nat
  BY SMT DEF SIZE_MAX

LEMMA TwoNumbers ==
    \A a, b \in Int : /\ Max({a, b}) = IF a >= b THEN a ELSE b
                      /\ Min({a, b}) = IF a <= b THEN a ELSE b
  BY GreatestOfTwo

(* What main() believes of the limit covers every descriptor below it.     *)
LEMMA RaisedEnough ==
    ASSUME rlim \in [cur : Nat, max : Nat], rlim.cur <= rlim.max,
           NEW want \in Nat, NEW ok \in BOOLEAN, NEW r, r = raise_fd_limit(want, ok)
    PROVE  /\ r.rlim \in [cur : Nat, max : Nat] /\ r.rlim.cur <= r.rlim.max /\ r.got \in Nat
           /\ \A fd \in Int : fd < want /\ fd < r.rlim.cur => fd < r.got
  <1> PICK cur, max, target : cur = rlim.cur /\ max = rlim.max /\ target = Min({want, max})
    OBVIOUS
  <1>1. cur \in Nat /\ max \in Nat /\ cur <= max /\ rlim = [cur |-> cur, max |-> max]
    OBVIOUS
  <1>2. target = IF want <= max THEN want ELSE max
    <2>1. want \in Int /\ max \in Int
      BY <1>1
    <2>2. QED
      BY ONLY <2>1, TwoNumbers, target = Min({want, max})
  <1>3. target \in Nat
    BY <1>1, <1>2
  <1>4. CASE cur < target /\ ~ok
    <2>1. r = [rlim |-> rlim, got |-> cur]
      BY <1>4 DEF raise_fd_limit
    <2>2. QED
      BY <1>1, <2>1
  <1>5. CASE ~(cur < target /\ ~ok)
    <2> PICK m : m = Max({cur, target})
      OBVIOUS
    <2>1. r = [rlim |-> [rlim EXCEPT !.cur = m], got |-> target]
      BY <1>5 DEF raise_fd_limit
    <2>2. m = IF cur >= target THEN cur ELSE target
      <3>1. cur \in Int /\ target \in Int
        BY <1>1, <1>3
      <3>2. QED
        BY ONLY <3>1, TwoNumbers, m = Max({cur, target})
    <2>3. r.rlim = [cur |-> m, max |-> max] /\ r.got = target
      BY <1>1, <2>1
    <2>4. m \in Nat /\ m <= max
      BY <1>1, <1>2, <1>3, <2>2
    <2>5. \A fd \in Int : fd < want /\ fd < m => fd < target
      BY <1>1, <1>2, <2>2
    <2>6. QED
      BY <1>1, <1>3, <2>3, <2>4, <2>5
  <1>6. QED
    BY <1>4, <1>5

LEMMA LimitsKeep == ASSUME SetupInv, SetupAssumption, set_limits PROVE SetupInv'
  <1>1. SetupTypeOK /\ StageHolds /\ CorpusHolds /\ FrameFits
    BY DEF SetupInv
  <1> PICK want, least : want = Max({k_least_fds, cfg.conns + k_spare_fds}) /\ least = IF cfg.use_corpus THEN SIZE_MAX ELSE 0
    OBVIOUS
  <1>2. PICK ok \in BOOLEAN :
          /\ stage = "limits" /\ UNCHANGED <<cfg, argc, class_cursor, frame>>
          /\ rlim' = raise_fd_limit(want, ok).rlim /\ limit' = raise_fd_limit(want, ok).got
          /\ stage' = IF cfg.rate = 0 \/ cfg.duration = 0 THEN "idle"
                      ELSE IF cfg.use_corpus THEN "corpus" ELSE "traffic"
          /\ corpus' = [corpus EXCEPT !.min_ = least]
    BY DEF set_limits
  <1> PICK r, n : r = raise_fd_limit(want, ok) /\ n = cfg.conns + k_spare_fds
    OBVIOUS
  <1>3. /\ rlim \in [cur : Nat, max : Nat] /\ rlim.cur <= rlim.max
        /\ k_least_fds \in Nat /\ k_spare_conns \in Nat /\ k_spare_fds \in Nat
        /\ cfg.conns \in Int /\ n \in Int
    <2>1. cfg.conns \in Int
      BY <1>1 DEF SetupTypeOK, Options
    <2>2. QED
      BY <1>1, <2>1 DEF SetupTypeOK, SetupAssumption
  <1>4. want = (IF k_least_fds >= n THEN k_least_fds ELSE n) /\ want \in Nat /\ n <= want
    <2>1. k_least_fds \in Int
      BY <1>3
    <2>2. want = (IF k_least_fds >= n THEN k_least_fds ELSE n)
      <3>1. want = Max({k_least_fds, n})
        OBVIOUS
      <3>2. n \in Int
        BY <1>3
      <3> PICK k : k = k_least_fds
        OBVIOUS
      <3>3. k \in Int /\ want = Max({k, n})
        BY ONLY <2>1, <3>1, k = k_least_fds
      <3>4. want = IF k >= n THEN k ELSE n
        BY ONLY <3>2, <3>3, TwoNumbers
      <3>5. QED
        BY ONLY <3>4, k = k_least_fds
    <2>3. k_least_fds \in Nat /\ n \in Int
      BY <1>3
    <2>4. QED
      BY ONLY <2>2, <2>3
  <1>5. /\ rlim' \in [cur : Nat, max : Nat] /\ rlim'.cur <= rlim'.max /\ limit' \in Nat
        /\ \A fd \in Int : fd < want /\ fd < rlim'.cur => fd < limit'
    <2>1. /\ r.rlim \in [cur : Nat, max : Nat] /\ r.rlim.cur <= r.rlim.max /\ r.got \in Nat
          /\ \A fd \in Int : fd < want /\ fd < r.rlim.cur => fd < r.got
      BY ONLY <1>3, <1>4, ok \in BOOLEAN, r = raise_fd_limit(want, ok), RaisedEnough
    <2>2. rlim' = r.rlim /\ limit' = r.got
      BY <1>2
    <2>3. QED
      BY ONLY <2>1, <2>2
  <1>6. TableHolds'
    <2> PICK soft, m, got : soft = rlim'.cur /\ m = Min({soft, n}) /\ got = limit'
      OBVIOUS
    <2>1. soft \in Int /\ got \in Nat /\ \A fd \in Int : fd < want /\ fd < soft => fd < got
      <3>1. rlim'.cur \in Nat /\ limit' \in Nat
        BY ONLY <1>5
      <3>2. QED
        BY ONLY <1>5, <3>1, soft = rlim'.cur, got = limit'
    <2>2. m = IF soft <= n THEN soft ELSE n
      BY ONLY <1>3, <2>1, TwoNumbers, m = Min({soft, n})
    <2>3. \A fd \in 0..(m - 1) : fd < want /\ fd < soft
      BY ONLY <1>3, <1>4, <2>1, <2>2
    <2>4. \A fd \in 0..(m - 1) : fd < got + k_spare_conns
      BY ONLY <1>3, <2>1, <2>2, <2>3
    <2>5. cfg'.conns + k_spare_fds = n
      BY <1>2
    <2>6. QED
      BY <2>4, <2>5 DEF TableHolds
  <1>7. corpus.lines_ = << >> /\ ~Refused(cfg) /\ cfg.size \in 0..(k_max_blob - k_blob_header)
    <2>1. stage = "limits"
      BY <1>2
    <2>2. QED
      BY <1>1, <2>1 DEF StageHolds
  <1>8. /\ corpus' \in [lines_ : Seq(Seq(TextByte)), cursor_ : 0..(Entries - 1),
                        total_ : Nat, min_ : Nat, max_ : Nat]
        /\ corpus'.lines_ = << >> /\ corpus'.min_ = least
        /\ corpus'.max_ = corpus.max_ /\ corpus'.total_ = corpus.total_
    <2>1. least \in Nat
      BY ONLY NatSizeMax, least = IF cfg.use_corpus THEN SIZE_MAX ELSE 0
    <2>2. corpus \in [lines_ : Seq(Seq(TextByte)), cursor_ : 0..(Entries - 1),
                        total_ : Nat, min_ : Nat, max_ : Nat]
      BY <1>1 DEF SetupTypeOK
    <2>3. QED
      <3>1. corpus' = [corpus EXCEPT !.min_ = least] /\ corpus.lines_ = << >>
        BY <1>2, <1>7
      <3>2. QED
        BY ONLY <2>1, <2>2, <3>1
  <1>9. SetupTypeOK'
    <2>1. stage' \in {"idle", "corpus", "traffic"}
      BY <1>2
    <2>2. QED
      BY <1>1, <1>2, <1>5, <1>8, <2>1 DEF SetupTypeOK
  <1>10. StageHolds'
    <2>1. UNCHANGED cfg /\ stage' \in {"idle", "corpus", "traffic"}
      BY <1>2
    <2>2. Len(corpus'.lines_) = 0 /\ 0 < Entries
      BY <1>8 DEF SetupAssumption
    <2>3. ~(stage' = "traffic" /\ cfg'.use_corpus)
      BY <1>2
    <2>4. ~Refused(cfg') /\ cfg'.size \in 0..(k_max_blob - k_blob_header)
      BY <1>7, <2>1
    <2>5. QED
      BY <1>6, <1>8, <2>1, <2>2, <2>3, <2>4 DEF StageHolds
  <1>11. CorpusHolds'
    <2>1. stage' = "corpus" => least = SIZE_MAX
      BY <1>2
    <2>2. QED
      BY <1>1, <1>7, <1>8, <2>1, CorpusKept
  <1>12. FrameFits'
    BY <1>1, <1>2, FrameKept
  <1>13. QED
    BY <1>9, <1>10, <1>11, <1>12 DEF SetupInv

LEMMA OneMore ==
    ASSUME NEW S, NEW q \in Seq(S), NEW e \in S
    PROVE  /\ Append(q, e) \in Seq(S) /\ Len(Append(q, e)) = Len(q) + 1
           /\ Len(q) \in Nat /\ Append(q, e) # << >>
           /\ DOMAIN Append(q, e) = 1..(Len(q) + 1) /\ DOMAIN q = 1..Len(q)
           /\ Append(q, e)[Len(q) + 1] = e
           /\ \A i \in 1..Len(q) : Append(q, e)[i] = q[i]
  OBVIOUS

(* build_line: one more line, cut to the budget.                           *)
LEMMA LineKeeps == ASSUME SetupInv, SetupAssumption, build_line PROVE SetupInv'
  <1>1. SetupTypeOK /\ StageHolds /\ CorpusHolds /\ FrameFits
    BY DEF SetupInv
  <1> PICK room, lines, c : room = k_max_blob - k_blob_header /\ lines = corpus.lines_ /\ c = corpus
    OBVIOUS
  <1>2. PICK drawn \in Drawn :
          /\ stage = "corpus" /\ UNCHANGED <<cfg, argc, rlim, limit, class_cursor, frame>>
          /\ corpus' = [corpus EXCEPT !.lines_ = Append(@, cut(drawn, room)),
                          !.total_ = @ + Len(cut(drawn, room)),
                          !.min_ = Min({@, Len(cut(drawn, room))}),
                          !.max_ = Max({@, Len(cut(drawn, room))})]
          /\ stage' = IF Len(corpus.lines_) + 1 = Entries THEN "traffic" ELSE "corpus"
    BY DEF build_line
  <1> PICK s, d : s = cut(drawn, room) /\ d = corpus'
    OBVIOUS
  <1>3. room \in Nat /\ room <= SIZE_MAX /\ SIZE_MAX \in Nat
        /\ Entries \in Nat \ {0} /\ k_blob_header \in Nat /\ k_max_blob \in Int
    BY NatSizeMax DEF SetupAssumption, k_max_blob
  <1>4. IsText(s) /\ s \in Seq(TextByte) /\ Len(s) \in Nat /\ Len(s) <= room
    <2>1. IsText(s) /\ Len(s) <= room
      BY ONLY SetupAssumption, drawn \in Drawn, s = cut(drawn, room), <1>3, DrawnAreTexts, CutIsText
    <2>2. QED
      BY <2>1 DEF IsText
  <1>5. IsCarried(s)
    BY <1>3, <1>4 DEF IsCarried
  <1>6. c \in [lines_ : Seq(Seq(TextByte)), cursor_ : 0..(Entries - 1),
               total_ : Nat, min_ : Nat, max_ : Nat]
    BY <1>1 DEF SetupTypeOK
  <1>7. lines \in Seq(Seq(TextByte)) /\ c.min_ \in Nat /\ c.max_ \in Nat /\ c.total_ \in Nat
        /\ c.cursor_ \in 0..(Entries - 1) /\ c.lines_ = lines
    BY <1>6
  <1>8. d = [c EXCEPT !.lines_ = Append(@, s), !.total_ = @ + Len(s),
                      !.min_ = Min({@, Len(s)}), !.max_ = Max({@, Len(s)})]
    BY <1>2
  <1>9. /\ d.lines_ = Append(lines, s) /\ d.min_ = Min({c.min_, Len(s)})
        /\ d.max_ = Max({c.max_, Len(s)}) /\ d.total_ = c.total_ + Len(s)
        /\ d = [lines_ |-> d.lines_, cursor_ |-> c.cursor_, total_ |-> d.total_,
                min_ |-> d.min_, max_ |-> d.max_]
    BY ONLY <1>6, <1>7, <1>8
  <1>10. Measured(d) /\ d.min_ \in Nat /\ d.max_ \in Nat /\ d.total_ \in Nat
    <2>1. Measured(c)
      BY <1>1, MeasuredIs DEF CorpusHolds
    <2>2. lines = << >> => c.min_ = SIZE_MAX /\ c.max_ = 0
      BY <1>1, <1>2 DEF CorpusHolds
    <2>3. Len(s) <= SIZE_MAX
      BY <1>3, <1>4
    <2> PICK low, high, total : low = c.min_ /\ high = c.max_ /\ total = c.total_
      OBVIOUS
    <2>4. low \in Nat /\ high \in Nat /\ total \in Nat /\ (lines = << >> => low = SIZE_MAX /\ high = 0)
      BY <1>7, <2>2
    <2>5. /\ d.lines_ = Append(lines, s) /\ d.min_ = Min({low, Len(s)})
          /\ d.max_ = Max({high, Len(s)}) /\ d.total_ = total + Len(s)
      BY <1>9
    <2>6. lines \in Seq(Seq(TextByte)) /\ s \in Seq(TextByte) /\ c.lines_ = lines
      BY <1>4, <1>7
    <2>7. QED
      BY ONLY <2>1, <2>3, <2>4, <2>5, <2>6, low = c.min_, high = c.max_, total = c.total_, LineMeasured
  <1>11. /\ Append(lines, s) \in Seq(Seq(TextByte)) /\ Len(Append(lines, s)) = Len(lines) + 1
         /\ Len(lines) \in Nat /\ Append(lines, s) # << >>
         /\ DOMAIN Append(lines, s) = 1..(Len(lines) + 1) /\ DOMAIN lines = 1..Len(lines)
         /\ Append(lines, s)[Len(lines) + 1] = s
         /\ \A i \in 1..Len(lines) : Append(lines, s)[i] = lines[i]
    BY ONLY <1>4, <1>7, OneMore
  <1>12. d \in [lines_ : Seq(Seq(TextByte)), cursor_ : 0..(Entries - 1),
                total_ : Nat, min_ : Nat, max_ : Nat]
    <2>1. d.lines_ \in Seq(Seq(TextByte))
      BY ONLY <1>9, <1>11
    <2>2. d = [lines_ |-> d.lines_, cursor_ |-> c.cursor_, total_ |-> d.total_,
                min_ |-> d.min_, max_ |-> d.max_]
      BY ONLY <1>9
    <2>3. QED
      BY ONLY <1>7, <1>10, <2>1, <2>2
  <1>13. stage' \in {"traffic", "corpus"}
    BY <1>2
  <1>14. SetupTypeOK'
    BY <1>1, <1>2, <1>12, <1>13 DEF SetupTypeOK
  <1>15. StageHolds'
    <2>1. Len(lines) < Entries
      BY <1>1, <1>2 DEF StageHolds
    <2>2. /\ stage' = "corpus" => Len(corpus'.lines_) < Entries
          /\ stage' = "traffic" => Len(corpus'.lines_) = Entries
      <3>1. Len(corpus'.lines_) = Len(lines) + 1
        BY <1>9, <1>11
      <3>2. stage' = IF Len(lines) + 1 = Entries THEN "traffic" ELSE "corpus"
        BY <1>2
      <3>3. QED
        BY <1>3, <1>11, <2>1, <3>1, <3>2
    <2>3. ~Refused(cfg') /\ cfg'.size \in 0..(k_max_blob - k_blob_header) /\ TableHolds
      BY <1>1, <1>2 DEF StageHolds
    <2>4. TableHolds'
      BY <1>2, <2>3, TableKept
    <2>5. QED
      BY <1>13, <2>2, <2>3, <2>4 DEF StageHolds
  <1>16. CorpusHolds'
    <2>1. CorpusMeasured'
      BY <1>10, MeasuredPrimed
    <2>2. \A i \in DOMAIN d.lines_ : IsText(d.lines_[i]) /\ IsCarried(d.lines_[i])
      <3>1. \A i \in 1..Len(lines) : IsText(lines[i]) /\ IsCarried(lines[i])
        BY <1>1, <1>11 DEF CorpusHolds
      <3>2. ASSUME NEW i \in 1..(Len(lines) + 1)
            PROVE  IsText(Append(lines, s)[i]) /\ IsCarried(Append(lines, s)[i])
        <4>1. CASE i = Len(lines) + 1
          BY <1>4, <1>5, <1>11, <4>1
        <4>2. CASE i # Len(lines) + 1
          <5>1. i \in 1..Len(lines)
            <6>1. Len(lines) \in Nat
              BY <1>11
            <6>2. QED
              BY ONLY <4>2, <6>1, i \in 1..(Len(lines) + 1)
          <5>2. QED
            BY <1>11, <3>1, <5>1
        <4>3. QED
          BY <4>1, <4>2
      <3>3. QED
        BY <1>9, <1>11, <3>2
    <2>3. d.lines_ # << >>
      BY <1>9, <1>11
    <2>4. QED
      BY <2>1, <2>2, <2>3 DEF CorpusHolds
  <1>17. FrameFits'
    BY <1>1, <1>2, FrameKept
  <1>18. QED
    BY <1>14, <1>15, <1>16, <1>17 DEF SetupInv

(* build_frame, from a line of the corpus.                                 *)
LEMMA CorpusFrameKeeps ==
    ASSUME SetupInv, SetupAssumption, stage = "traffic", frame_of_corpus,
           UNCHANGED <<stage, cfg, argc, rlim, limit>>
    PROVE  SetupInv'
  <1>1. SetupTypeOK /\ StageHolds /\ CorpusHolds /\ FrameFits
    BY DEF SetupInv
  <1> PICK c, lines, n : c = corpus /\ lines = corpus.lines_ /\ n = corpus.cursor_ + 1
    OBVIOUS
  <1> PICK told : told = lines[n]
    OBVIOUS
  <1>2. /\ cfg.use_corpus /\ UNCHANGED class_cursor
        /\ frame' = [sent |-> frame.sent + 1, text |-> told, source |-> Len(told)]
        /\ corpus' = [corpus EXCEPT !.cursor_ = (@ + 1) % Len(lines)]
    BY DEF frame_of_corpus
  <1>3. /\ c \in [lines_ : Seq(Seq(TextByte)), cursor_ : 0..(Entries - 1),
                  total_ : Nat, min_ : Nat, max_ : Nat]
        /\ frame \in [sent : Nat, text : Seq(TextByte), source : Nat]
    BY <1>1 DEF SetupTypeOK
  <1>4. Len(lines) = Entries /\ Entries \in Nat \ {0}
    BY <1>1, <1>2 DEF StageHolds, SetupAssumption
  <1>5. /\ lines \in Seq(Seq(TextByte)) /\ c.cursor_ \in 0..(Entries - 1)
        /\ n \in Nat /\ frame.sent + 1 \in Nat /\ c.lines_ = lines
    <2>1. /\ lines \in Seq(Seq(TextByte)) /\ c.cursor_ \in 0..(Entries - 1) /\ c.lines_ = lines
          /\ n = c.cursor_ + 1 /\ frame.sent \in Nat
      BY <1>3
    <2>2. n \in Nat /\ frame.sent + 1 \in Nat
      BY ONLY <1>4, <2>1
    <2>3. QED
      BY <2>1, <2>2
  <1>6. n \in 1..Len(lines) /\ DOMAIN lines = 1..Len(lines)
    <2>1. n = c.cursor_ + 1
      OBVIOUS
    <2>2. QED
      BY ONLY <1>4, <1>5, <2>1
  <1>7. IsText(told) /\ IsCarried(told) /\ told \in Seq(TextByte) /\ Len(told) \in Nat
    <2>1. IsText(told) /\ IsCarried(told)
      BY <1>1, <1>6 DEF CorpusHolds
    <2>2. QED
      BY <2>1 DEF IsText
  <1>8. FrameFits'
    <2>1. frame'.text = told /\ frame'.source = Len(told) /\ Whole(told)
      BY <1>2, <1>7 DEF IsText
    <2>2. Len(told) <= Len(told) /\ k_blob_header + Len(told) <= k_max_blob
      BY <1>7 DEF IsCarried
    <2>3. QED
      BY <2>1, <2>2 DEF FrameFits, Whole
  <1>9. (c.cursor_ + 1) % Len(lines) \in 0..(Entries - 1)
    <2> PICK m, e : m = c.cursor_ + 1 /\ e = Entries
      OBVIOUS
    <2>1. m \in Nat /\ e \in Nat \ {0} /\ Len(lines) = e
      BY <1>4, <1>5
    <2>2. m % e \in 0..(e - 1)
      BY ONLY <2>1
    <2>3. QED
      BY <2>1, <2>2
  <1>10. /\ corpus' \in [lines_ : Seq(Seq(TextByte)), cursor_ : 0..(Entries - 1),
                         total_ : Nat, min_ : Nat, max_ : Nat]
         /\ corpus'.lines_ = lines /\ corpus'.min_ = corpus.min_
         /\ corpus'.max_ = corpus.max_ /\ corpus'.total_ = corpus.total_
    <2> PICK k, d : k = (c.cursor_ + 1) % Len(lines) /\ d = corpus'
      OBVIOUS
    <2>1. d = [c EXCEPT !.cursor_ = k] /\ k \in 0..(Entries - 1)
      BY <1>2, <1>9
    <2>2. /\ d \in [lines_ : Seq(Seq(TextByte)), cursor_ : 0..(Entries - 1),
                    total_ : Nat, min_ : Nat, max_ : Nat]
          /\ d.lines_ = c.lines_ /\ d.min_ = c.min_ /\ d.max_ = c.max_ /\ d.total_ = c.total_
      BY ONLY <1>3, <2>1
    <2>3. QED
      BY <2>2
  <1>11. frame' \in [sent : Nat, text : Seq(TextByte), source : Nat]
    BY ONLY <1>2, <1>5, <1>7
  <1>12. SetupTypeOK'
    BY <1>1, <1>2, <1>10, <1>11 DEF SetupTypeOK
  <1>13. StageHolds'
    <2>1. TableHolds'
      BY <1>1, TableKept DEF StageHolds
    <2>2. QED
      BY <1>1, <1>4, <1>10, <2>1 DEF StageHolds
  <1>14. CorpusHolds'
    BY <1>1, <1>10, CorpusKept
  <1>15. QED
    BY <1>8, <1>12, <1>13, <1>14 DEF SetupInv

(* build_frame, from the filler.                                           *)
LEMMA FillerFrameKeeps ==
    ASSUME SetupInv, SetupAssumption, stage = "traffic", frame_of_filler,
           UNCHANGED <<stage, cfg, argc, rlim, limit>>
    PROVE  SetupInv'
  <1>1. SetupTypeOK /\ StageHolds /\ CorpusHolds /\ FrameFits
    BY DEF SetupInv
  <1> PICK room, class, great :
        /\ room = k_max_blob - k_blob_header /\ class = (class_cursor % 4) + 1
        /\ great = k_size_classes[4]
    OBVIOUS
  <1> PICK fill : fill = IF cfg.size_mix THEN k_size_classes[class] ELSE cfg.size
    OBVIOUS
  <1> PICK n, most : n = Min({fill, room}) /\ most = Max({cfg.size, great})
    OBVIOUS
  <1> PICK told : told = [i \in 1..n |-> <<1, 1>>]
    OBVIOUS
  <1>2. /\ UNCHANGED corpus
        /\ frame' = [sent |-> frame.sent + 1, text |-> told, source |-> most]
        /\ class_cursor' = IF cfg.size_mix THEN class_cursor + 1 ELSE class_cursor
    BY DEF frame_of_filler, Filler
  <1>3. /\ frame \in [sent : Nat, text : Seq(TextByte), source : Nat] /\ class_cursor \in Nat
        /\ cfg.size \in 0..room
    BY <1>1 DEF SetupTypeOK, StageHolds
  <1>4. room \in Nat /\ k_blob_header \in Nat /\ k_max_blob \in Int
        /\ \A k \in 1..4 : k_size_classes[k] \in 0..great
    BY DEF SetupAssumption, k_max_blob
  <1>5. class \in 1..4 /\ great \in Nat
    <2>1. class_cursor % 4 \in 0..3
      BY <1>3
    <2>2. class \in 1..4
      BY <2>1
    <2>3. 4 \in 1..4 /\ k_size_classes[4] \in 0..great
      BY <1>4
    <2>4. great \in Nat
      BY ONLY <2>3, great = k_size_classes[4]
    <2>5. QED
      BY <2>2, <2>4
  <1> PICK size : size = cfg.size
    OBVIOUS
  <1>6. size \in Nat /\ fill \in Nat /\ (fill <= size \/ fill <= great)
    <2>1. size \in Nat
      BY <1>3, <1>4
    <2>2. k_size_classes[class] \in 0..great
      BY <1>4, <1>5
    <2> PICK k : k = k_size_classes[class]
      OBVIOUS
    <2>3. k \in Nat /\ k <= great /\ (fill = k \/ fill = size)
      BY <1>5, <2>2
    <2>4. QED
      BY ONLY <2>1, <2>3
  <1>7. n = (IF fill <= room THEN fill ELSE room) /\ most = (IF size >= great THEN size ELSE great)
    <2>1. fill \in Int /\ room \in Int /\ size \in Int /\ great \in Int
      BY <1>4, <1>5, <1>6
    <2>2. most = Max({size, great})
      OBVIOUS
    <2>3. QED
      BY ONLY <2>1, <2>2, TwoNumbers, n = Min({fill, room})
  <1>8. n \in Nat /\ n <= most /\ n <= room /\ most \in Nat
    BY ONLY <1>4, <1>5, <1>6, <1>7
  <1>9. told \in Seq(TextByte) /\ Len(told) = n /\ Whole(told)
    <2>1. told \in [1..n -> TextByte]
      BY DEF TextByte
    <2>2. told \in Seq(TextByte)
      BY ONLY <1>8, <2>1
    <2>3. Len(told) = n
      BY ONLY <1>8, <2>1, <2>2
    <2>4. ASSUME told # << >> PROVE Last(told)[1] = Last(told)[2]
      <3>1. Last(told) = told[n] /\ n \in Nat \ {0}
        BY ONLY <2>2, <2>3, <2>4, TextEnds
      <3>2. n \in 1..n
        BY ONLY <3>1
      <3>3. told[n] = <<1, 1>>
        BY <3>2
      <3>4. QED
        BY <3>1, <3>3
    <2>5. QED
      BY <2>2, <2>3, <2>4 DEF Whole
  <1>10. FrameFits'
    <2>1. frame'.text = told /\ frame'.source = most
      BY <1>2
    <2>2. Len(told) <= most /\ k_blob_header + Len(told) <= k_max_blob
      BY ONLY <1>4, <1>8, <1>9, room = k_max_blob - k_blob_header
    <2>3. QED
      BY <1>9, <2>1, <2>2 DEF FrameFits, Whole
  <1>11. frame' \in [sent : Nat, text : Seq(TextByte), source : Nat] /\ class_cursor' \in Nat
    <2>1. frame.sent + 1 \in Nat
      BY <1>3
    <2>2. QED
      BY <1>2, <1>3, <1>8, <1>9, <2>1
  <1>12. SetupTypeOK'
    BY <1>1, <1>2, <1>11 DEF SetupTypeOK
  <1>13. StageHolds'
    <2>1. TableHolds'
      BY <1>1, TableKept DEF StageHolds
    <2>2. QED
      BY <1>1, <1>2, <2>1 DEF StageHolds
  <1>14. CorpusHolds'
    BY <1>1, <1>2, CorpusKept
  <1>15. QED
    BY <1>10, <1>12, <1>13, <1>14 DEF SetupInv

LEMMA SetupStep == ASSUME SetupInv, SetupAssumption, [SetupNext]_setup_vars PROVE SetupInv'
  <1>1. CASE UNCHANGED setup_vars
    <2>1. UNCHANGED <<stage, cfg, argc, rlim, limit, corpus, class_cursor, frame>>
      BY <1>1 DEF setup_vars
    <2>2. SetupTypeOK /\ StageHolds /\ CorpusHolds /\ FrameFits
      BY DEF SetupInv
    <2>3. SetupTypeOK'
      BY <2>1, <2>2 DEF SetupTypeOK
    <2>4. StageHolds'
      BY <2>1, <2>2, TableKept DEF StageHolds
    <2>5. CorpusHolds' /\ FrameFits'
      BY <2>1, <2>2, CorpusKept, FrameKept DEF CorpusHolds
    <2>6. QED
      BY <2>3, <2>4, <2>5 DEF SetupInv
  <1>2. CASE build_frame
    <2>1. stage = "traffic" /\ UNCHANGED <<stage, cfg, argc, rlim, limit>> /\ (frame_of_corpus \/ frame_of_filler)
      BY <1>2 DEF build_frame
    <2>2. QED
      BY <2>1, CorpusFrameKeeps, FillerFrameKeeps
  <1>3. QED
    BY <1>1, <1>2, OptionKeeps, UnknownKeeps, EndOfArgsKeeps, LimitsKeep, LineKeeps DEF SetupNext

(* What the stages of a run have established when the next one starts.     *)
THEOREM SetupInvariant == SetupSpec => []SetupInv
  <1>1. SetupInit => SetupInv
    BY SetupInitInv, SetupAssumption
  <1>2. SetupInv /\ [SetupNext]_setup_vars => SetupInv'
    BY SetupStep, SetupAssumption
  <1>3. QED
    BY <1>1, <1>2, PTL DEF SetupSpec

(* A bound connection has an address of 127.0.0.1 to 127.0.0.255.          *)
LEMMA BoundInRange ==
    ASSUME SetupTypeOK, ~Refused(cfg), NEW index \in Nat
    PROVE  bind_source(index) \subseteq 1..255
  <1> PICK ips, base : ips = cfg.src_ips /\ base = cfg.src_ip_base
    OBVIOUS
  <1>1. ips \in Int /\ base \in Int
    BY DEF SetupTypeOK, Options
  <1>2. ips > 0 /\ base >= 1 /\ base + ips - 1 <= 255
    <2>1. ~(ips <= 0) /\ ~(base < 1) /\ ~(base + ips - 1 > 255)
      BY DEF Refused
    <2>2. QED
      BY <1>1, <2>1
  <1>3. index % ips \in 0..(ips - 1)
    BY <1>1, <1>2
  <1>4. base + (index % ips) \in 1..255
    <2> PICK r : r = index % ips
      OBVIOUS
    <2>1. r \in 0..(ips - 1)
      BY ONLY <1>3, r = index % ips
    <2>2. base + r \in 1..255
      BY ONLY <1>1, <1>2, <2>1
    <2>3. QED
      BY <2>2
  <1>5. QED
    BY <1>4 DEF bind_source

(* AcceptedRunIsSound: a run that parse_args accepted and main() set up    *)
(* sends frames that fit, of whole characters, and reads no text past its  *)
(* end; its descriptors index the table and its addresses are loopback.    *)
THEOREM AcceptedRuns == SetupSpec => []AcceptedRunIsSound
  <1>1. ASSUME SetupInv PROVE AcceptedRunIsSound
    <2>1. SUFFICES ASSUME stage \in {"corpus", "traffic"}
                   PROVE  /\ FrameFits /\ CorpusMeasured /\ TableHolds
                          /\ \A i \in DOMAIN corpus.lines_ : Whole(corpus.lines_[i])
                          /\ \A index \in 0..(cfg.conns - 1) : bind_source(index) \subseteq 1..255
      BY DEF AcceptedRunIsSound
    <2>2. SetupTypeOK /\ StageHolds /\ CorpusHolds /\ FrameFits
      BY <1>1 DEF SetupInv
    <2>3. TableHolds /\ ~Refused(cfg)
      BY <2>1, <2>2 DEF StageHolds
    <2>4. CorpusMeasured /\ \A i \in DOMAIN corpus.lines_ : Whole(corpus.lines_[i])
      BY <2>2 DEF CorpusHolds, IsText
    <2>5. \A index \in 0..(cfg.conns - 1) : index \in Nat
      OBVIOUS
    <2>6. QED
      BY <2>2, <2>3, <2>4, <2>5, BoundInRange
  <1>2. QED
    BY <1>1, SetupInvariant, PTL
=============================================================================

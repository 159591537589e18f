---------------------------- MODULE LoadgenProofs ----------------------------
(***************************************************************************)
(* Proofs about Loadgen, for every number of connections, window,          *)
(* descriptor set, frame sizes and bounds: whatever fails in whichever     *)
(* phase, the counters are the connections, and a tail is armed.           *)
(***************************************************************************)
EXTENDS Loadgen, FiniteSetTheorems, SequenceTheorems, TLAPS

(* What one record of conns may be. *)
Record == [state : {"none", "connecting", "ready", "dead"}, pending : Nat,
           out_armed : BOOLEAN]

-----------------------------------------------------------------------------
(* The list of the connections that are up. *)

(* No value is in s twice. *)
Once(s) == \A i, j \in 1..Len(s) : s[i] = s[j] => i = j

(* The first entry with a value is the only one. *)
LEMMA RemoveFirstIsRemoveAt ==
    ASSUME NEW S, NEW s \in Seq(S), Once(s), NEW k \in 1..Len(s), NEW e, s[k] = e
    PROVE  RemoveFirst(s, e) = RemoveAt(s, k)
  <1> DEFINE I == {i \in 1..Len(s) : s[i] = e}
  <1>1. I = {k}
    BY DEF Once
  <1>2. Min(I) = k
    BY <1>1 DEF Min
  <1>3. SelectInSeq(s, LAMBDA v : v = e) = k
    BY <1>1, <1>2 DEF SelectInSeq
  <1>4. QED
    BY <1>3 DEF RemoveFirst

(* The list without one of its entries. *)
LEMMA RemoveFirstFacts ==
    ASSUME NEW S, NEW s \in Seq(S), Once(s), NEW e \in ToSet(s)
    PROVE  /\ RemoveFirst(s, e) \in Seq(S)
           /\ Len(RemoveFirst(s, e)) = Len(s) - 1
           /\ Once(RemoveFirst(s, e))
           /\ ToSet(RemoveFirst(s, e)) = ToSet(s) \ {e}
  <1> PICK k \in 1..Len(s) : s[k] = e
    BY DEF ToSet
  <1> DEFINE L == Len(s)
             a == SubSeq(s, 1, k - 1)
             b == SubSeq(s, k + 1, L)
             t == RemoveFirst(s, e)
  <1>1. t = a \o b
    BY RemoveFirstIsRemoveAt DEF RemoveAt
  <1>2. L \in Nat /\ k \in Nat /\ 1 <= k /\ k <= L /\ \A i \in 1..L : s[i] \in S
    OBVIOUS
  <1> HIDE DEF L, t
  <1>3. /\ a \in Seq(S) /\ Len(a) = k - 1
        /\ \A i \in 1..(k - 1) : a[i] = s[i]
    <2>1. \A i \in 1..(k - 1) : s[i] \in S
      BY <1>2
    <2>2. 1 \in Int /\ k - 1 \in Int
      BY <1>2
    <2>3. /\ a \in Seq(S) /\ Len(a) = IF 1 <= k - 1 THEN (k - 1) - 1 + 1 ELSE 0
          /\ \A i \in 1..((k - 1) - 1 + 1) : a[i] = s[1 + i - 1]
      BY <2>1, <2>2, SubSeqProperties
    <2> HIDE DEF a
    <2>4. QED
      BY <1>2, <2>3
  <1>4. /\ b \in Seq(S) /\ Len(b) = L - k
        /\ \A i \in 1..(L - k) : b[i] = s[k + i]
    <2>1. \A i \in (k + 1)..L : s[i] \in S
      BY <1>2
    <2>2. k + 1 \in Int /\ L \in Int
      BY <1>2
    <2>3. /\ b \in Seq(S) /\ Len(b) = IF k + 1 <= L THEN L - (k + 1) + 1 ELSE 0
          /\ \A i \in 1..(L - (k + 1) + 1) : b[i] = s[(k + 1) + i - 1]
      BY <2>1, <2>2, SubSeqProperties
    <2> HIDE DEF b
    <2>4. QED
      BY <1>2, <2>3
  <1> HIDE DEF a, b
  <1>5. /\ t \in Seq(S) /\ Len(t) = L - 1
        /\ \A i \in 1..(L - 1) : t[i] = IF i <= k - 1 THEN s[i] ELSE s[i + 1]
    <2>1. /\ a \o b \in Seq(S) /\ Len(a \o b) = Len(a) + Len(b)
          /\ \A i \in 1..(Len(a) + Len(b)) :
               (a \o b)[i] = IF i <= Len(a) THEN a[i] ELSE b[i - Len(a)]
      BY <1>3, <1>4, ConcatProperties
    <2> DEFINE c == a \o b
    <2>2. /\ c \in Seq(S) /\ Len(c) = Len(a) + Len(b) /\ t = c
          /\ \A i \in 1..(Len(a) + Len(b)) :
               c[i] = IF i <= Len(a) THEN a[i] ELSE b[i - Len(a)]
      BY <2>1, <1>1
    <2> HIDE DEF c
    <2>3. t \in Seq(S) /\ Len(t) = L - 1
      BY ONLY <2>2, <1>2, <1>3, <1>4
    <2>4. ASSUME NEW i \in 1..(L - 1)
          PROVE  t[i] = IF i <= k - 1 THEN s[i] ELSE s[i + 1]
      <3>1. t[i] = IF i <= k - 1 THEN a[i] ELSE b[i - (k - 1)]
        BY ONLY <2>2, <1>2, <1>3, <1>4, <2>4
      <3>2. CASE i <= k - 1
        BY <3>1, <3>2, <1>2, <1>3
      <3>3. CASE ~(i <= k - 1)
        <4>1. i - (k - 1) \in 1..(L - k) /\ k + (i - (k - 1)) = i + 1
          BY <3>3, <1>2
        <4>2. QED
          BY <3>1, <3>3, <4>1, <1>4
      <3>4. QED
        BY <3>2, <3>3
    <2>5. QED
      BY <2>3, <2>4
  <1>6. \A i, j \in 1..L : s[i] = s[j] => i = j
    BY DEF Once, L
  <1>7. Once(t)
    <2> SUFFICES ASSUME NEW i \in 1..(L - 1), NEW j \in 1..(L - 1), t[i] = t[j]
                 PROVE  i = j
      BY <1>5 DEF Once
    <2>1. i \in 1..L /\ j \in 1..L /\ i + 1 \in 1..L /\ j + 1 \in 1..L
      BY <1>2
    <2>2. /\ t[i] = IF i <= k - 1 THEN s[i] ELSE s[i + 1]
          /\ t[j] = IF j <= k - 1 THEN s[j] ELSE s[j + 1]
      BY <1>5
    <2>3. CASE i <= k - 1 /\ j <= k - 1
      <3>1. s[i] = s[j]
        BY <2>2, <2>3
      <3>2. i = j
        BY <3>1, <2>1, <1>6
      <3>3. QED
        BY ONLY <3>2, <2>3, <1>2, i \in 1..(L - 1), j \in 1..(L - 1)
    <2>4. CASE i <= k - 1 /\ ~(j <= k - 1)
      <3>1. s[i] = s[j + 1]
        BY <2>2, <2>4
      <3>2. i = j + 1
        BY <3>1, <2>1, <1>6
      <3>3. QED
        BY ONLY <3>2, <2>4, <1>2, i \in 1..(L - 1), j \in 1..(L - 1)
    <2>5. CASE ~(i <= k - 1) /\ j <= k - 1
      <3>1. s[i + 1] = s[j]
        BY <2>2, <2>5
      <3>2. i + 1 = j
        BY <3>1, <2>1, <1>6
      <3>3. QED
        BY ONLY <3>2, <2>5, <1>2, i \in 1..(L - 1), j \in 1..(L - 1)
    <2>6. CASE ~(i <= k - 1) /\ ~(j <= k - 1)
      <3>1. s[i + 1] = s[j + 1]
        BY <2>2, <2>6
      <3>2. i + 1 = j + 1
        BY <3>1, <2>1, <1>6
      <3>3. QED
        BY ONLY <3>2, <2>6, <1>2, i \in 1..(L - 1), j \in 1..(L - 1)
    <2>7. QED
      BY <2>3, <2>4, <2>5, <2>6
  <1>8. ToSet(t) = {t[i] : i \in 1..(L - 1)} /\ ToSet(s) = {s[i] : i \in 1..L}
    <2>1. DOMAIN t = 1..(L - 1)
      BY <1>5
    <2>2. DOMAIN s = 1..L
      BY DEF L
    <2>3. QED
      BY <2>1, <2>2 DEF ToSet
  <1>9. ASSUME NEW i \in 1..(L - 1)
        PROVE  t[i] \in {s[j] : j \in 1..L} \ {e}
    <2>1. i \in 1..L /\ i + 1 \in 1..L /\ k \in 1..L
      BY <1>2
    <2>2. CASE i <= k - 1
      <3>1. t[i] = s[i] /\ i # k
        BY <2>2, <1>2, <1>5
      <3>2. QED
        BY <3>1, <2>1, <1>6
    <2>3. CASE ~(i <= k - 1)
      <3>1. t[i] = s[i + 1] /\ i + 1 # k
        BY <2>3, <1>2, <1>5
      <3>2. QED
        BY <3>1, <2>1, <1>6
    <2>4. QED
      BY <2>2, <2>3
  <1>10. ASSUME NEW j \in 1..L, s[j] # e
         PROVE  s[j] \in {t[i] : i \in 1..(L - 1)}
    <2>1. j # k
      BY <1>10
    <2>2. CASE j < k
      <3>1. j \in 1..(L - 1) /\ t[j] = s[j]
        BY <2>2, <1>2, <1>5
      <3>2. QED
        BY <3>1
    <2>3. CASE j > k
      <3>1. j - 1 \in 1..(L - 1) /\ ~(j - 1 <= k - 1) /\ (j - 1) + 1 = j
        BY <2>3, <1>2
      <3>2. t[j - 1] = s[j]
        BY <3>1, <1>5
      <3>3. QED
        BY <3>1, <3>2
    <2>4. QED
      BY <2>1, <2>2, <2>3, <1>2
  <1>11. ToSet(t) = ToSet(s) \ {e}
    BY <1>8, <1>9, <1>10
  <1>12. QED
    BY <1>5, <1>7, <1>11 DEF t, L

(* The list with one entry more. *)
LEMMA AppendFacts ==
    ASSUME NEW S, NEW s \in Seq(S), Once(s), NEW e \in S, e \notin ToSet(s)
    PROVE  /\ Append(s, e) \in Seq(S)
           /\ Len(Append(s, e)) = Len(s) + 1
           /\ Once(Append(s, e))
           /\ ToSet(Append(s, e)) = ToSet(s) \cup {e}
  <1> DEFINE L == Len(s)
             t == Append(s, e)
  <1>1. /\ t \in Seq(S) /\ Len(t) = L + 1 /\ L \in Nat
        /\ \A i \in 1..L : t[i] = s[i]
        /\ t[L + 1] = e
    OBVIOUS
  <1>2. /\ \A i \in 1..L : s[i] # e
        /\ ToSet(s) = {s[i] : i \in 1..L}
        /\ \A i, j \in 1..L : s[i] = s[j] => i = j
    BY DEF ToSet, Once
  <1> HIDE DEF L, t
  <1>3. \A i \in 1..(L + 1) : i \in 1..L \/ i = L + 1
    BY <1>1
  <1>4. Once(t)
    BY <1>1, <1>2, <1>3 DEF Once
  <1>5. ToSet(t) = {t[i] : i \in 1..(L + 1)}
    BY <1>1 DEF ToSet
  <1>6. ToSet(t) = ToSet(s) \cup {e}
    BY <1>1, <1>2, <1>3, <1>5
  <1>7. QED
    BY <1>1, <1>4, <1>6 DEF t, L

-----------------------------------------------------------------------------
(* The connections by state. *)

(* The records of conns, from its type. *)
LEMMA Records == TypeOK => conns \in [Fd -> Record]
  BY DEF TypeOK, Record

(* There are finitely many of each kind. *)
LEMMA FiniteIn == ASSUME NEW s PROVE IsFiniteSet(In(s)) /\ IsFiniteSet(In(s)')
  <1>1. In(s) \in SUBSET Fd /\ In(s)' \in SUBSET Fd
    BY DEF In
  <1>2. QED
    BY <1>1, LoadgenAssumption, FS_Subset

(* One record changes: its descriptor goes to where it belongs now. *)
LEMMA RecordChanges ==
    ASSUME TypeOK, NEW fd \in Fd, NEW r \in Record, conns' = [conns EXCEPT ![fd] = r]
    PROVE  /\ conns' \in [Fd -> Record]
           /\ \A s \in {"none", "connecting", "ready", "dead"} :
                In(s)' = IF s = r.state THEN In(s) \cup {fd} ELSE In(s) \ {fd}
           /\ \A g \in Fd : conns'[g] = IF g = fd THEN r ELSE conns[g]
  <1>1. conns \in [Fd -> Record]
    BY Records
  <1>2. \A g \in Fd : conns'[g] = IF g = fd THEN r ELSE conns[g]
    BY <1>1
  <1>3. conns' \in [Fd -> Record]
    BY <1>1
  <1>4. \A s : In(s)' = IF s = r.state THEN In(s) \cup {fd} ELSE In(s) \ {fd}
    BY <1>2 DEF In
  <1>5. QED
    BY <1>2, <1>3, <1>4

(* An armed tail, or none, in the record that changes. *)
LEMMA TailChanges ==
    ASSUME TailIsArmed, NEW fd \in Fd, NEW r \in Record,
           \A g \in Fd : conns'[g] = IF g = fd THEN r ELSE conns[g],
           r.state = "ready" /\ r.pending > 0 => r.out_armed
    PROVE  TailIsArmed'
  BY DEF TailIsArmed, In

(* A part is no more than the whole. *)
LEMMA SumBounds ==
    ASSUME NEW a \in Nat, NEW b \in Nat, NEW c \in Nat, NEW n \in Nat, a + b + c <= n
    PROVE  a <= n /\ b <= n
  OBVIOUS

-----------------------------------------------------------------------------
(* The initial state, and the steps that leave the connections alone. *)

(* At the start there are no attempts and no connections. *)
LEMMA InitLoadInv == Init => LoadInv
  <1> SUFFICES ASSUME Init PROVE LoadInv
    OBVIOUS
  <1>1. In("connecting") = {} /\ In("ready") = {} /\ In("dead") = {}
    BY DEF Init, In, conn
  <1>2. Cardinality({}) = 0
    BY FS_EmptySet
  <1>3. TypeOK
    BY LoadgenAssumption DEF Init, TypeOK, conn
  <1>4. ConnsAccounted
    <2>1. ToSet(live) = {}
      BY DEF Init, ToSet
    <2>2. In("ready") \cup In("dead") = {} /\ Len(live) = 0
      BY <1>1 DEF Init
    <2>3. /\ Cardinality(In("connecting")) = 0
          /\ Cardinality(In("ready") \cup In("dead")) = 0
          /\ ToSet(live) = In("ready") \cup In("dead")
      BY <1>1, <1>2, <2>1, <2>2
    <2>4. started = 0 /\ established = 0 /\ failed = 0 /\ inflight = 0
      BY DEF Init
    <2>5. QED
      BY ONLY <2>2, <2>3, <2>4 DEF ConnsAccounted
  <1>5. TailIsArmed /\ NoDuplicates
    BY <1>1 DEF Init, TailIsArmed, NoDuplicates
  <1>6. DeathsInv
    BY <1>1, <1>2 DEF Init, DeathsInv
  <1>7. QED
    BY <1>3, <1>4, <1>5, <1>6 DEF LoadInv

(* Steps that change neither a connection nor a counter. *)
LEMMA QuietInv ==
    ASSUME LoadInv, UNCHANGED <<conns, counters, live, lost_conns>>,
           m' \in 0..MaxMessages, batch' \subseteq Fd,
           phase' \in {"connect", "traffic", "drain", "done"},
           pc' \in {"top", "start", "wait", "batch"},
           phase' = "connect" => phase = "connect"
    PROVE  LoadInv'
  <1>1. TypeOK'
    BY DEF LoadInv, TypeOK, counters
  <1>2. ConnsAccounted'
    BY DEF LoadInv, ConnsAccounted, counters, In
  <1>3. TailIsArmed' /\ NoDuplicates'
    BY DEF LoadInv, TailIsArmed, NoDuplicates, In
  <1>4. DeathsInv'
    BY DEF LoadInv, DeathsInv, In
  <1>5. QED
    BY <1>1, <1>2, <1>3, <1>4 DEF LoadInv

(* The steps of the loops between the events. *)
LEMMA LoopInv ==
    ASSUME LoadInv,
           \/ on_signal \/ connect_top \/ window_full \/ wait_empty \/ batch_over
           \/ next_phase \/ traffic_top \/ issue_over
           \/ \E ready \in SUBSET Fd : epoll_wait(ready)
    PROVE  LoadInv'
  <1>1. TypeOK
    BY DEF LoadInv
  <1>2. CASE on_signal \/ window_full \/ batch_over \/ issue_over
    BY <1>1, <1>2, QuietInv DEF TypeOK, on_signal, window_full, batch_over, issue_over, load
  <1>3. CASE connect_top \/ wait_empty
    BY <1>1, <1>3, QuietInv DEF TypeOK, connect_top, wait_empty, BeginTraffic, load
  <1>4. CASE next_phase \/ traffic_top
    BY <1>1, <1>4, QuietInv DEF TypeOK, next_phase, traffic_top, load
  <1>5. CASE \E ready \in SUBSET Fd : epoll_wait(ready)
    BY <1>1, <1>5, QuietInv DEF TypeOK, epoll_wait, load
  <1>6. QED
    BY <1>2, <1>3, <1>4, <1>5

-----------------------------------------------------------------------------
(* The steps that change a connection. *)

(* What is left to show of such a step: that it counts right. *)
LEMMA ChangeInv ==
    ASSUME LoadInv, NEW fd \in Fd, NEW r \in Record, conns' = [conns EXCEPT ![fd] = r],
           r.state = "ready" /\ r.pending > 0 => r.out_armed,
           m' \in 0..MaxMessages, batch' \subseteq Fd, phase' = phase, pc' = pc,
           started' \in 0..cfg_conns, failed' \in Nat, inflight' <= cfg_inflight,
           lost_conns' \in Nat, live' \in Seq(Fd),
           ConnsAccounted', NoDuplicates', DeathsInv'
    PROVE  LoadInv'
  <1>1. conns' \in [Fd -> Record] /\ TailIsArmed'
    BY RecordChanges, TailChanges DEF LoadInv
  <1>2. /\ established' \in 0..cfg_conns /\ failed' \in 0..cfg_conns
        /\ inflight' \in Nat /\ established' \in Nat
    <2>1. IsFiniteSet(In("connecting")')
      BY FiniteIn
    <2>2. inflight' \in Nat
      BY <2>1, FS_CardinalityType DEF ConnsAccounted
    <2>3. IsFiniteSet(In("ready")' \cup In("dead")')
      BY FiniteIn, FS_Union
    <2>4. established' = Cardinality(In("ready")' \cup In("dead")')
      BY DEF ConnsAccounted
    <2>5. established' \in Nat
      BY <2>3, <2>4, FS_CardinalityType
    <2>6. cfg_conns \in Nat /\ started' = established' + failed' + inflight'
      BY LoadgenAssumption DEF ConnsAccounted
    <2>7. started' \in Nat /\ started' <= cfg_conns /\ failed' \in Nat
      BY <2>6
    <2>8. established' <= cfg_conns /\ failed' <= cfg_conns
      BY <2>2, <2>5, <2>6, <2>7, SumBounds
    <2>9. QED
      BY ONLY <2>2, <2>5, <2>6, <2>7, <2>8
  <1>3. lost_conns' \in 0..cfg_conns
    <2>1. IsFiniteSet(In("ready")' \cup In("dead")')
          /\ In("dead")' \in SUBSET (In("ready")' \cup In("dead")')
      BY FiniteIn, FS_Union
    <2>2. Cardinality(In("dead")') <= Cardinality(In("ready")' \cup In("dead")')
      BY <2>1, FS_Subset
    <2>3. Cardinality(In("dead")') \in Nat
      <3>1. IsFiniteSet(In("dead")')
        BY FiniteIn
      <3>2. QED
        BY <3>1, FS_CardinalityType
    <2>4. lost_conns' <= Cardinality(In("dead")')
      BY DEF DeathsInv
    <2>5. established' = Cardinality(In("ready")' \cup In("dead")')
      BY DEF ConnsAccounted
    <2>6. QED
      BY <1>2, <2>2, <2>3, <2>4, <2>5, LoadgenAssumption
  <1>4. TypeOK'
    BY <1>1, <1>2, <1>3, LoadgenAssumption DEF LoadInv, TypeOK, Record
  <1>5. QED
    BY <1>1, <1>4 DEF LoadInv

(* What the invariant says of the numbers. *)
LEMMA Numbers ==
    ASSUME LoadInv
    PROVE  /\ started \in Nat /\ established \in Nat /\ failed \in Nat /\ inflight \in Nat
           /\ lost_conns \in Nat /\ inflight <= cfg_inflight
           /\ cfg_conns \in Nat /\ cfg_inflight \in Nat
           /\ started = established + failed + inflight
           /\ inflight = Cardinality(In("connecting"))
           /\ established = Cardinality(In("ready") \cup In("dead"))
           /\ Len(live) = established /\ ToSet(live) = In("ready") \cup In("dead")
           /\ live \in Seq(Fd) /\ Once(live)
           /\ IsFiniteSet(In("connecting")) /\ IsFiniteSet(In("ready") \cup In("dead"))
           /\ IsFiniteSet(In("dead")) /\ Cardinality(In("dead")) \in Nat
  <1>1. /\ IsFiniteSet(In("connecting")) /\ IsFiniteSet(In("ready") \cup In("dead"))
        /\ IsFiniteSet(In("dead"))
    BY FiniteIn, FS_Union
  <1>2. Cardinality(In("dead")) \in Nat
    BY <1>1, FS_CardinalityType
  <1>3. Once(live)
    BY DEF LoadInv, NoDuplicates, Once
  <1>4. QED
    BY <1>1, <1>2, <1>3, LoadgenAssumption DEF LoadInv, TypeOK, ConnsAccounted

(* An attempt begins. *)
LEMMA StartInv ==
    ASSUME LoadInv, NEW fd \in Fd, start_connect(fd)
    PROVE  LoadInv'
  <1> DEFINE r == [conns[fd] EXCEPT !.state = "connecting", !.out_armed = TRUE]
  <1>1. TypeOK /\ conns \in [Fd -> Record]
    BY Records DEF LoadInv
  <1>2. r \in Record /\ r.state = "connecting" /\ conns' = [conns EXCEPT ![fd] = r]
    BY <1>1 DEF start_connect, Record
  <1> HIDE DEF r
  <1>3. /\ In("connecting")' = In("connecting") \cup {fd}
        /\ In("ready")' = In("ready") \ {fd} /\ In("dead")' = In("dead") \ {fd}
    BY <1>1, <1>2, RecordChanges
  <1>4. fd \notin In("connecting") /\ fd \notin In("ready") /\ fd \notin In("dead")
    BY DEF start_connect, In
  <1>5. In("ready")' = In("ready") /\ In("dead")' = In("dead")
    BY <1>3, <1>4
  <1>6. Cardinality(In("connecting")') = inflight + 1
    BY <1>3, <1>4, Numbers, FS_AddElement
  <1>7. /\ started' = started + 1 /\ inflight' = inflight + 1
        /\ inflight < cfg_inflight /\ started < cfg_conns
        /\ UNCHANGED <<established, failed, live, m, lost_conns, phase, pc, batch>>
    BY DEF start_connect, WindowOpen, load
  <1>8. ConnsAccounted'
    <2>1. started' = established' + failed' + inflight'
      BY <1>7, Numbers
    <2>2. QED
      BY <1>5, <1>6, <1>7, <2>1, Numbers DEF ConnsAccounted
  <1>9. NoDuplicates' /\ DeathsInv'
    BY <1>5, <1>7 DEF LoadInv, NoDuplicates, DeathsInv
  <1>10. started' \in 0..cfg_conns /\ inflight' <= cfg_inflight
    BY <1>7, Numbers
  <1>11. QED
    BY <1>1, <1>2, <1>7, <1>8, <1>9, <1>10, Numbers, ChangeInv DEF TypeOK

(* An attempt ends at once. *)
LEMMA StartFailsInv == ASSUME LoadInv, start_fails PROVE LoadInv'
  <1>1. /\ started' = started + 1 /\ failed' = failed + 1 /\ started < cfg_conns
        /\ UNCHANGED <<conns, established, inflight, live, m, lost_conns, phase, pc, batch>>
    BY DEF start_fails, WindowOpen, load
  <1>2. ConnsAccounted'
    <2>1. started' = established' + failed' + inflight'
      BY <1>1, Numbers
    <2>2. QED
      BY <1>1, <2>1 DEF LoadInv, ConnsAccounted, In
  <1>3. TailIsArmed' /\ NoDuplicates' /\ DeathsInv'
    BY <1>1 DEF LoadInv, TailIsArmed, NoDuplicates, DeathsInv, In
  <1>4. started' \in 0..cfg_conns /\ failed' \in 0..cfg_conns
    BY <1>1, Numbers
  <1>5. TypeOK'
    BY <1>1, <1>4 DEF LoadInv, TypeOK
  <1>6. QED
    BY <1>2, <1>3, <1>5 DEF LoadInv

(* An attempt fails, or its greeting does. *)
LEMMA ConnectFailsInv ==
    ASSUME LoadInv, NEW fd \in Fd, connect_fails(fd) \/ greeting_fails(fd)
    PROVE  LoadInv'
  <1>1. TypeOK /\ conn \in Record /\ conn.state = "none" /\ conn.pending = 0
    BY DEF LoadInv, conn, Record
  <1>2. conns' = [conns EXCEPT ![fd] = conn] /\ conns[fd].state = "connecting"
    BY DEF connect_fails, greeting_fails, Handle, Reset
  <1>3. /\ In("connecting")' = In("connecting") \ {fd}
        /\ In("ready")' = In("ready") \ {fd} /\ In("dead")' = In("dead") \ {fd}
    BY <1>1, <1>2, RecordChanges
  <1>4. fd \in In("connecting") /\ fd \notin In("ready") /\ fd \notin In("dead")
    BY <1>2 DEF In
  <1>5. In("ready")' = In("ready") /\ In("dead")' = In("dead")
    BY <1>3, <1>4
  <1>6. Cardinality(In("connecting")') = inflight - 1
    BY <1>3, <1>4, Numbers, FS_RemoveElement
  <1>7. /\ failed' = failed + 1 /\ inflight' = inflight - 1 /\ batch' = batch \ {fd}
        /\ UNCHANGED <<started, established, live, m, lost_conns, phase, pc>>
    BY DEF connect_fails, greeting_fails, Handle
  <1>8. ConnsAccounted'
    <2>1. started' = established' + failed' + inflight'
      BY <1>7, Numbers
    <2>2. QED
      BY <1>5, <1>6, <1>7, <2>1, Numbers DEF ConnsAccounted
  <1>9. NoDuplicates' /\ DeathsInv'
    BY <1>5, <1>7 DEF LoadInv, NoDuplicates, DeathsInv
  <1>10. failed' \in Nat /\ inflight' <= cfg_inflight
    BY <1>7, Numbers
  <1>11. conn.state = "ready" /\ conn.pending > 0 => conn.out_armed
    BY <1>1
  <1>12. /\ m' \in 0..MaxMessages /\ batch' \subseteq Fd /\ started' \in 0..cfg_conns
         /\ lost_conns' \in Nat /\ live' \in Seq(Fd) /\ phase' = phase /\ pc' = pc
    BY <1>1, <1>7, Numbers DEF TypeOK
  <1>13. QED
    BY <1>1, <1>2, <1>8, <1>9, <1>10, <1>11, <1>12, ChangeInv

(* A connection comes up and joins the list. *)
LEMMA ConnectReadyInv ==
    ASSUME LoadInv, NEW fd \in Fd, connect_ready(fd)
    PROVE  LoadInv'
  <1>1. TypeOK /\ conns \in [Fd -> Record]
    BY Records DEF LoadInv
  <1>2. PICK tail \in 0..(conns[fd].pending + Hello) :
          conns' = [conns EXCEPT ![fd] = [state |-> "ready", pending |-> tail,
                                          out_armed |-> tail > 0]]
    BY DEF connect_ready
  <1> DEFINE r == [state |-> "ready", pending |-> tail, out_armed |-> tail > 0]
  <1>3. r \in Record /\ r.state = "ready" /\ (r.pending > 0 => r.out_armed)
    <2>1. tail \in Nat
      BY <1>1, LoadgenAssumption DEF Record
    <2>2. (tail > 0) \in BOOLEAN
      OBVIOUS
    <2>3. QED
      BY <2>1, <2>2 DEF Record
  <1>4. conns' = [conns EXCEPT ![fd] = r] /\ conns[fd].state = "connecting"
    BY <1>2 DEF connect_ready, Handle
  <1> HIDE DEF r
  <1>5. /\ In("connecting")' = In("connecting") \ {fd}
        /\ In("ready")' = In("ready") \cup {fd} /\ In("dead")' = In("dead") \ {fd}
    BY <1>1, <1>3, <1>4, RecordChanges
  <1>6. fd \in In("connecting") /\ fd \notin In("ready") /\ fd \notin In("dead")
    BY <1>4 DEF In
  <1>7. /\ In("dead")' = In("dead")
        /\ In("ready")' \cup In("dead")' = (In("ready") \cup In("dead")) \cup {fd}
        /\ fd \notin In("ready") \cup In("dead")
    BY <1>5, <1>6
  <1>8. /\ Cardinality(In("connecting")') = inflight - 1
        /\ Cardinality(In("ready")' \cup In("dead")') = established + 1
    <2> DEFINE up == In("ready") \cup In("dead")
    <2>1. Cardinality(In("connecting") \ {fd}) = Cardinality(In("connecting")) - 1
      BY <1>6, Numbers, FS_RemoveElement
    <2>2. IsFiniteSet(up) /\ fd \notin up
      BY <1>7, Numbers
    <2> HIDE DEF up
    <2>3. Cardinality(up \cup {fd}) = Cardinality(up) + 1
      BY <2>2, FS_AddElement
    <2>4. QED
      BY <1>5, <1>7, <2>1, <2>3, Numbers DEF up
  <1>9. /\ inflight' = inflight - 1 /\ established' = established + 1
        /\ live' = Append(live, fd) /\ batch' = batch \ {fd}
        /\ UNCHANGED <<started, failed, m, lost_conns, phase, pc>>
    BY DEF connect_ready, Handle
  <1>10. /\ live' \in Seq(Fd) /\ Len(live') = established' /\ Once(live')
         /\ ToSet(live') = In("ready")' \cup In("dead")'
    BY <1>7, <1>9, Numbers, AppendFacts
  <1>11. ConnsAccounted'
    <2>1. started' = established' + failed' + inflight'
      BY <1>9, Numbers
    <2>2. QED
      BY <1>8, <1>9, <1>10, <2>1, Numbers DEF ConnsAccounted
  <1>12. NoDuplicates' /\ DeathsInv'
    BY <1>7, <1>9, <1>10 DEF LoadInv, NoDuplicates, Once, DeathsInv
  <1>13. failed' \in Nat /\ inflight' <= cfg_inflight
    BY <1>9, Numbers
  <1>14. /\ m' \in 0..MaxMessages /\ batch' \subseteq Fd /\ started' \in 0..cfg_conns
         /\ lost_conns' \in Nat /\ phase' = phase /\ pc' = pc
    BY <1>1, <1>9, Numbers DEF TypeOK
  <1>15. QED
    BY <1>3, <1>4, <1>10, <1>11, <1>12, <1>13, <1>14, ChangeInv

(* A connection that was up dies while others are opened. *)
LEMMA ReadyDiesInv ==
    ASSUME LoadInv, NEW fd \in Fd, ready_dies(fd)
    PROVE  LoadInv'
  <1>1. TypeOK /\ conn \in Record /\ conn.state = "none" /\ conn.pending = 0
    BY DEF LoadInv, conn, Record
  <1>2. conns' = [conns EXCEPT ![fd] = conn] /\ conns[fd].state = "ready"
    BY DEF ready_dies, Handle, Reset
  <1>3. /\ In("connecting")' = In("connecting") \ {fd}
        /\ In("ready")' = In("ready") \ {fd} /\ In("dead")' = In("dead") \ {fd}
    BY <1>1, <1>2, RecordChanges
  <1>4. fd \notin In("connecting") /\ fd \in In("ready") /\ fd \notin In("dead")
    BY <1>2 DEF In
  <1>5. /\ In("dead")' = In("dead") /\ In("connecting")' = In("connecting")
        /\ In("ready")' \cup In("dead")' = (In("ready") \cup In("dead")) \ {fd}
        /\ fd \in In("ready") \cup In("dead")
    BY <1>3, <1>4
  <1>6. Cardinality(In("ready")' \cup In("dead")') = established - 1
    <2> DEFINE up == In("ready") \cup In("dead")
    <2>1. IsFiniteSet(up) /\ fd \in up
      BY <1>5, Numbers
    <2> HIDE DEF up
    <2>2. Cardinality(up \ {fd}) = Cardinality(up) - 1
      BY <2>1, FS_RemoveElement
    <2>3. QED
      BY <1>5, <2>2, Numbers DEF up
  <1>7. /\ failed' = failed + 1 /\ established' = established - 1 /\ batch' = batch \ {fd}
        /\ live' = RemoveFirst(live, fd)
        /\ UNCHANGED <<started, inflight, m, lost_conns, phase, pc>>
    BY DEF ready_dies, Handle
  <1>8. /\ live' \in Seq(Fd) /\ Len(live') = established' /\ Once(live')
        /\ ToSet(live') = In("ready")' \cup In("dead")'
    BY <1>5, <1>7, Numbers, RemoveFirstFacts
  <1>9. ConnsAccounted'
    <2>1. started' = established' + failed' + inflight'
      BY <1>7, Numbers
    <2>2. QED
      BY <1>5, <1>6, <1>7, <1>8, <2>1, Numbers DEF ConnsAccounted
  <1>10. NoDuplicates' /\ DeathsInv'
    BY <1>5, <1>7, <1>8 DEF LoadInv, NoDuplicates, Once, DeathsInv
  <1>11. failed' \in Nat /\ inflight' <= cfg_inflight
    BY <1>7, Numbers
  <1>12. conn.state = "ready" /\ conn.pending > 0 => conn.out_armed
    BY <1>1
  <1>13. /\ m' \in 0..MaxMessages /\ batch' \subseteq Fd /\ started' \in 0..cfg_conns
         /\ lost_conns' \in Nat /\ phase' = phase /\ pc' = pc
    BY <1>1, <1>7, Numbers DEF TypeOK
  <1>14. QED
    BY <1>1, <1>2, <1>8, <1>9, <1>10, <1>11, <1>12, <1>13, ChangeInv

(* A record changes but stays up: nothing is counted. *)
LEMMA StaysUpInv ==
    ASSUME LoadInv, NEW fd \in Fd, NEW r \in Record, conns' = [conns EXCEPT ![fd] = r],
           conns[fd].state = "ready", r.state = "ready", r.pending > 0 => r.out_armed,
           m' \in 0..MaxMessages, batch' \subseteq Fd,
           UNCHANGED <<counters, live, lost_conns, phase, pc>>
    PROVE  LoadInv'
  <1>1. TypeOK
    BY DEF LoadInv
  <1>2. /\ In("connecting")' = In("connecting") \ {fd}
        /\ In("ready")' = In("ready") \cup {fd} /\ In("dead")' = In("dead") \ {fd}
    BY <1>1, RecordChanges
  <1>3. fd \notin In("connecting") /\ fd \in In("ready") /\ fd \notin In("dead")
    BY DEF In
  <1>4. /\ In("connecting")' = In("connecting") /\ In("ready")' = In("ready")
        /\ In("dead")' = In("dead")
    BY <1>2, <1>3
  <1>5. ConnsAccounted' /\ NoDuplicates' /\ DeathsInv'
    BY <1>4 DEF LoadInv, ConnsAccounted, NoDuplicates, DeathsInv, counters
  <1>6. /\ started' \in 0..cfg_conns /\ failed' \in Nat /\ inflight' <= cfg_inflight
        /\ lost_conns' \in Nat /\ live' \in Seq(Fd) /\ phase' = phase /\ pc' = pc
    BY <1>1, Numbers DEF TypeOK, counters
  <1>7. QED
    BY <1>5, <1>6, ChangeInv

(* A connection that was up is dead: it stays on the list. *)
LEMMA DiesInv ==
    ASSUME LoadInv, NEW fd \in Fd, phase # "connect", conns[fd].state = "ready",
           conns' = [conns EXCEPT ![fd].state = "dead"],
           lost_conns' \in {lost_conns, lost_conns + 1},
           m' \in 0..MaxMessages, batch' \subseteq Fd,
           UNCHANGED <<counters, live, phase, pc>>
    PROVE  LoadInv'
  <1> DEFINE r == [conns[fd] EXCEPT !.state = "dead"]
  <1>1. TypeOK /\ conns \in [Fd -> Record]
    BY Records DEF LoadInv
  <1>2. r \in Record /\ r.state = "dead" /\ conns' = [conns EXCEPT ![fd] = r]
    BY <1>1 DEF Record
  <1> HIDE DEF r
  <1>3. /\ In("connecting")' = In("connecting") \ {fd}
        /\ In("ready")' = In("ready") \ {fd} /\ In("dead")' = In("dead") \cup {fd}
    BY <1>1, <1>2, RecordChanges
  <1>4. fd \notin In("connecting") /\ fd \in In("ready") /\ fd \notin In("dead")
    BY DEF In
  <1>5. /\ In("connecting")' = In("connecting")
        /\ In("ready")' \cup In("dead")' = In("ready") \cup In("dead")
    BY <1>3, <1>4
  <1>6. Cardinality(In("dead")') = Cardinality(In("dead")) + 1
    BY <1>3, <1>4, Numbers, FS_AddElement
  <1>7. UNCHANGED <<started, established, failed, inflight, live, phase, pc>>
    BY DEF counters
  <1>8. ConnsAccounted'
    BY <1>5, <1>7 DEF LoadInv, ConnsAccounted
  <1>9. lost_conns' \in Nat /\ lost_conns' <= Cardinality(In("dead")')
    <2>1. lost_conns <= Cardinality(In("dead"))
      BY DEF LoadInv, DeathsInv
    <2>2. QED
      BY <2>1, <1>6, Numbers
  <1>10. NoDuplicates' /\ DeathsInv'
    BY <1>7, <1>9 DEF LoadInv, NoDuplicates, DeathsInv
  <1>11. /\ started' \in 0..cfg_conns /\ failed' \in Nat /\ inflight' <= cfg_inflight
         /\ live' \in Seq(Fd)
    BY <1>1, <1>7, Numbers DEF TypeOK
  <1>12. QED
    BY <1>2, <1>7, <1>8, <1>9, <1>10, <1>11, ChangeInv

(* The events. *)
LEMMA EventInv == ASSUME LoadInv, NEW fd \in Fd, Event(fd) PROVE LoadInv'
  <1>1. TypeOK /\ conns \in [Fd -> Record]
    BY Records DEF LoadInv
  <1>2. CASE readable(fd)
    BY <1>1, <1>2, QuietInv DEF TypeOK, readable, Handle, counters
  <1>3. CASE writable(fd)
    <2>1. PICK tail \in 0..conns[fd].pending :
            conns' = [conns EXCEPT ![fd].pending = tail, ![fd].out_armed = tail > 0]
      BY <1>3 DEF writable
    <2> DEFINE r == [conns[fd] EXCEPT !.pending = tail, !.out_armed = tail > 0]
    <2>2. /\ r \in Record /\ conns' = [conns EXCEPT ![fd] = r]
          /\ r.state = conns[fd].state /\ (r.pending > 0 => r.out_armed)
      <3>1. tail \in Nat /\ (tail > 0) \in BOOLEAN /\ conns[fd] \in Record
        BY <1>1 DEF Record
      <3>2. /\ r \in Record /\ r.pending = tail /\ r.out_armed = (tail > 0)
            /\ r.state = conns[fd].state
        BY <3>1 DEF Record
      <3>3. conns' = [conns EXCEPT ![fd] = r]
        BY <1>1, <2>1, <3>1
      <3>4. QED
        BY <3>2, <3>3
    <2> HIDE DEF r
    <2>3. /\ conns[fd].state = "ready" /\ m' = m /\ batch' \subseteq Fd
          /\ UNCHANGED <<counters, live, lost_conns, phase, pc>>
      BY <1>1, <1>3 DEF writable, Handle, counters, TypeOK
    <2>4. m' \in 0..MaxMessages
      BY <1>1, <2>3 DEF TypeOK
    <2>5. QED
      BY <2>2, <2>3, <2>4, StaysUpInv
  <1>4. CASE traffic_dies(fd)
    BY <1>1, <1>4, DiesInv DEF traffic_dies, Handle, counters, TypeOK
  <1>5. QED
    BY <1>2, <1>3, <1>4, ConnectFailsInv, ConnectReadyInv, ReadyDiesInv DEF Event

(* The turns of the messages. *)
LEMMA IssueInv == ASSUME LoadInv, NEW fd \in Fd, Issue(fd) PROVE LoadInv'
  <1>1. TypeOK /\ conns \in [Fd -> Record]
    BY Records DEF LoadInv
  <1>2. ASSUME Due(fd)
        PROVE  /\ m' \in 0..MaxMessages /\ batch' \subseteq Fd /\ phase # "connect"
               /\ phase' = phase /\ pc' = pc
               /\ UNCHANGED <<counters, live, phase, pc>>
    BY <1>1, <1>2, LoadgenAssumption DEF Due, TypeOK
  <1>3. ASSUME NEW n \in FrameSize, issue(fd, n)
        PROVE  LoadInv'
    <2>1. PICK tail \in 0..(conns[fd].pending + n) :
            conns' = [conns EXCEPT ![fd].pending = tail, ![fd].out_armed = @ \/ tail > 0]
      BY <1>3 DEF issue, send_frame
    <2> DEFINE r == [conns[fd] EXCEPT !.pending = tail, !.out_armed = @ \/ tail > 0]
    <2>2. tail \in Nat /\ conns[fd] \in Record
      BY <1>1, LoadgenAssumption DEF Record
    <2>3. /\ r.pending = tail /\ r.out_armed = (conns[fd].out_armed \/ tail > 0)
          /\ r.state = conns[fd].state /\ r \in Record
      BY <2>2 DEF Record
    <2>4. conns' = [conns EXCEPT ![fd] = r]
      BY <1>1, <2>1, <2>2
    <2> HIDE DEF r
    <2>5. conns[fd].state = "ready" /\ Due(fd) /\ lost_conns' = lost_conns
      BY <1>3 DEF issue, MaySend
    <2>6. r.state = "ready" /\ (r.pending > 0 => r.out_armed)
      BY <2>3, <2>5
    <2>7. QED
      BY <1>2, <2>3, <2>4, <2>5, <2>6, StaysUpInv
  <1>4. CASE issue_error(fd)
    <2>1. /\ Due(fd) /\ conns[fd].state = "ready" /\ lost_conns' = lost_conns
          /\ conns' = [conns EXCEPT ![fd].state = "dead"]
      BY <1>4 DEF issue_error, MaySend
    <2>2. QED
      BY <1>2, <2>1, DiesInv
  <1>5. CASE issue_skip(fd)
    <2>1. Due(fd) /\ UNCHANGED <<conns, lost_conns>>
      BY <1>5 DEF issue_skip
    <2>2. QED
      BY <1>1, <1>2, <2>1, QuietInv DEF TypeOK
  <1>6. QED
    BY <1>3, <1>4, <1>5 DEF Issue

(* Every step keeps the invariant. *)
LEMMA StepLoadInv == LoadInv /\ [Next]_vars => LoadInv'
  <1> SUFFICES ASSUME LoadInv, [Next]_vars PROVE LoadInv'
    OBVIOUS
  <1>1. CASE UNCHANGED vars
    BY <1>1, QuietInv DEF vars, load, LoadInv, TypeOK
  <1>2. CASE Next
    BY <1>2, LoopInv, StartInv, StartFailsInv, EventInv, IssueInv DEF Next, Loop
  <1>3. QED
    BY <1>1, <1>2

-----------------------------------------------------------------------------
(* The inductive invariant holds in every run. *)
THEOREM LoadInvariance == Spec => []LoadInv
  <1>1. QED
    BY InitLoadInv, StepLoadInv, PTL DEF Spec

(* ConnsAccounted: however attempts, greetings and connections fail, each  *)
(* attempt of run_connect is counted once as what it is now, and the list  *)
(* run_traffic sends on holds each connection that is up exactly once,     *)
(* although the descriptors of closed ones are handed out again.           *)
THEOREM EveryConnectionCounted == Spec => []ConnsAccounted
  <1>1. LoadInv => ConnsAccounted
    BY DEF LoadInv
  <1>2. QED
    BY <1>1, LoadInvariance, PTL

(* TailIsArmed: no connection that is up keeps unsent bytes without the    *)
(* EPOLLOUT registration that gets them sent.                              *)
THEOREM NoTailForgotten == Spec => []TailIsArmed
  <1>1. LoadInv => TailIsArmed
    BY DEF LoadInv
  <1>2. QED
    BY <1>1, LoadInvariance, PTL
=============================================================================

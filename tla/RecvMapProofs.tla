---------------------------- MODULE RecvMapProofs ----------------------------
(***************************************************************************)
(* Proofs about two parts whose data are joined sequences: the receive     *)
(* side of the load generator (LoadgenRecv) and the hash map               *)
(* (CstrHashMap), which rehash_to walks as one sequence of nodes.          *)
(*                                                                         *)
(* LoadgenRecv, for every capacity of the receive slot, every set of       *)
(* messages, both meanings of the length field and every cut of the        *)
(* stream: the counters a run divides by are exact. The inductive          *)
(* invariant ties the slot to the stream by position and the               *)
(* counters to a number of messages: the bytes consume_frames is past are  *)
(* the first k frames, and the counters are those of the deliveries of     *)
(* these k. Every frame is longer than nothing, so k is the only one that  *)
(* ends there, and a header that is read is the header of message k + 1.   *)
(* Where the connect phase dropped a part of a frame this is lost for good *)
(* (clean), and only the types are kept.                                   *)
(*                                                                         *)
(* CstrHashMap, for every hash function, capacity and set of keys: it      *)
(* implements KeyMap. The inductive invariant says that a key is in the    *)
(* chain of its index, once. Then what find shows is a function of the set *)
(* of a table's entries, and rehashing, which changes every chain, leaves  *)
(* that set alone.                                                         *)
(*                                                                         *)
(* What recursive functions compute (FlattenSeq, the walk over a tick      *)
(* payload, the pushes of a rehash) is proved by induction over the        *)
(* numbers, in the form of SetInduction: a set that holds 0 and the        *)
(* successor of each of its members holds every number.                    *)
(***************************************************************************)
EXTENDS LoadgenRecv, CstrHashMap, SequenceTheorems, FiniteSetTheorems,
        WellFoundedInduction, TLAPS

-----------------------------------------------------------------------------
(* Induction over the numbers, and sequences that are joined.              *)
LEMMA LeastNat ==
    ASSUME NEW T, T \subseteq Nat, T # {}
    PROVE  \E i \in T : \A j \in T : i <= j
  <1> PICK R : R = OpToRel(<, Nat)
    OBVIOUS
  <1>1. \E i \in T : \A j \in T : ~ (<<j, i>> \in R)
    BY NatLessThanWellFounded, WFMin
  <1>2. \A i, j \in Nat : j < i => <<j, i>> \in R
    BY DEF OpToRel
  <1>3. PICK i \in T : \A j \in T : ~ (<<j, i>> \in R)
    BY <1>1
  <1>4. \A j \in T : ~(j < i)
    BY <1>2, <1>3
  <1>5. \A j \in T : i <= j
    BY ONLY <1>4, T \subseteq Nat, i \in T
  <1>6. QED
    BY <1>5

(* A set that holds 0 and the successor of each of its members holds every *)
(* number.                                                                 *)
LEMMA SetInduction ==
    ASSUME NEW T, 0 \in T, \A n \in T \cap Nat : n + 1 \in T
    PROVE  Nat \subseteq T
  <1> DEFINE missed == Nat \ T
  <1>1. SUFFICES ASSUME missed # {} PROVE FALSE
    OBVIOUS
  <1>2. PICK i \in missed : \A j \in missed : i <= j
    BY <1>1, LeastNat
  <1>3. i \in Nat /\ i # 0
    BY <1>2
  <1>4. i - 1 \in Nat /\ ~(i <= i - 1)
    BY <1>3
  <1>5. i - 1 \in T
    BY <1>2, <1>4
  <1>6. (i - 1) + 1 = i
    BY <1>3
  <1>7. QED
    BY <1>2, <1>4, <1>5, <1>6

(* The recursion behind FlattenSeq. *)
Joins(f, seqs, n) ==
    f = [i \in 1..n |-> IF i = 1 THEN seqs[i] ELSE f[i - 1] \o seqs[i]]

LEMMA JoinsIs ==
    \A f, seqs, n : Joins(f, seqs, n) =>
        \A i \in 1..n : f[i] = IF i = 1 THEN seqs[i] ELSE f[i - 1] \o seqs[i]
  <1> TAKE f, seqs, n
  <1>1. SUFFICES ASSUME f = [i \in 1..n |-> IF i = 1 THEN seqs[i] ELSE f[i - 1] \o seqs[i]],
                        NEW j \in 1..n
                 PROVE  f[j] = IF j = 1 THEN seqs[j] ELSE f[j - 1] \o seqs[j]
    BY DEF Joins
  <1> PICK g : g = [i \in 1..n |-> IF i = 1 THEN seqs[i] ELSE f[i - 1] \o seqs[i]]
    OBVIOUS
  <1>2. g[j] = IF j = 1 THEN seqs[j] ELSE f[j - 1] \o seqs[j]
    BY ONLY j \in 1..n, g = [i \in 1..n |-> IF i = 1 THEN seqs[i] ELSE f[i - 1] \o seqs[i]]
  <1>3. f = g
    BY <1>1, Zenon
  <1>4. QED
    BY ONLY <1>2, <1>3

LEMMA JoinsExist == ASSUME NEW seqs, NEW n \in Nat PROVE \E f : Joins(f, seqs, n)
  <1> DEFINE T == {m \in Nat : \E f : Joins(f, seqs, m)}
  <1>1. 0 \in T
    <2> PICK f : f = [i \in 1..0 |-> 0]
      OBVIOUS
    <2>1. Joins(f, seqs, 0)
      BY DEF Joins
    <2>2. QED
      BY <2>1
  <1>2. ASSUME NEW m \in T \cap Nat PROVE m + 1 \in T
    <2>1. PICK f : Joins(f, seqs, m)
      OBVIOUS
    <2>2. \A i \in 1..m : f[i] = IF i = 1 THEN seqs[i] ELSE f[i - 1] \o seqs[i]
      BY <2>1, JoinsIs
    <2> PICK g : g = [i \in 1..(m + 1) |-> IF i = 1 THEN seqs[i] ELSE f[i - 1] \o seqs[i]]
      OBVIOUS
    <2>3. \A i \in 1..(m + 1) : i # 1 => g[i - 1] = f[i - 1]
      <3>1. m \in Nat
        OBVIOUS
      <3>2. \A i \in 1..(m + 1) : i # 1 => i - 1 \in 1..m /\ i - 1 \in 1..(m + 1)
        BY ONLY <3>1
      <3>3. \A j \in 1..m : j \in 1..(m + 1)
        BY ONLY <3>1
      <3>4. \A j \in 1..(m + 1) : g[j] = IF j = 1 THEN seqs[j] ELSE f[j - 1] \o seqs[j]
        OBVIOUS
      <3>5. \A j \in 1..m : g[j] = f[j]
        BY ONLY <2>2, <3>3, <3>4
      <3>6. QED
        BY ONLY <3>2, <3>5
    <2>4. g = [i \in 1..(m + 1) |-> IF i = 1 THEN seqs[i] ELSE g[i - 1] \o seqs[i]]
      BY ONLY <2>3, g = [i \in 1..(m + 1) |-> IF i = 1 THEN seqs[i] ELSE f[i - 1] \o seqs[i]]
    <2>5. Joins(g, seqs, m + 1)
      BY ONLY <2>4, Zenon DEF Joins
    <2>6. m + 1 \in Nat
      OBVIOUS
    <2>7. QED
      BY <2>5, <2>6
  <1>3. Nat \subseteq T
    <2> HIDE DEF T
    <2>1. QED
      BY <1>1, <1>2, SetInduction
  <1>4. QED
    BY <1>3

LEMMA FlattenIs ==
    ASSUME NEW seqs, NEW n \in Nat \ {0}, Len(seqs) = n
    PROVE  \E f : Joins(f, seqs, n) /\ FlattenSeq(seqs) = f[n]
  <1>1. FlattenSeq(seqs) = (CHOOSE f : Joins(f, seqs, n))[n]
    BY DEF FlattenSeq, Joins
  <1>2. QED
    BY <1>1, JoinsExist

LEMMA JoinsAgree ==
    ASSUME NEW f, NEW g, NEW p, NEW q, NEW m \in Nat, NEW n \in Nat, m <= n,
           Joins(f, p, n), Joins(g, q, m), \A i \in 1..m : q[i] = p[i]
    PROVE  \A i \in 1..m : f[i] = g[i]
  <1> DEFINE T == {k \in Nat : k + 1 \in 1..m => f[k + 1] = g[k + 1]}
  <1>1. /\ \A i \in 1..n : f[i] = IF i = 1 THEN p[i] ELSE f[i - 1] \o p[i]
        /\ \A i \in 1..m : g[i] = IF i = 1 THEN q[i] ELSE g[i - 1] \o q[i]
    BY JoinsIs
  <1>2. \A i \in 1..m : i \in 1..n
    OBVIOUS
  <1>3. 0 \in T
    BY <1>1, <1>2
  <1>4. ASSUME NEW k \in T \cap Nat PROVE k + 1 \in T
    <2>1. SUFFICES ASSUME (k + 1) + 1 \in 1..m PROVE f[(k + 1) + 1] = g[(k + 1) + 1]
      OBVIOUS
    <2>2. k + 1 \in 1..m /\ (k + 1) + 1 # 1 /\ ((k + 1) + 1) - 1 = k + 1
      BY <2>1
    <2>3. f[k + 1] = g[k + 1]
      BY <2>2
    <2>4. QED
      BY <1>1, <1>2, <2>1, <2>2, <2>3
  <1>5. Nat \subseteq T
    <2> HIDE DEF T
    <2>1. QED
      BY <1>3, <1>4, SetInduction
  <1>6. ASSUME NEW i \in 1..m PROVE f[i] = g[i]
    <2>1. i - 1 \in Nat /\ (i - 1) + 1 = i
      OBVIOUS
    <2>2. QED
      BY <1>5, <2>1
  <1>7. QED
    BY <1>6

(* The first k of some sequences, joined. *)
Upto(seqs, k) == FlattenSeq([i \in 1..k |-> seqs[i]])

LEMMA FirstOnes ==
    ASSUME NEW S, NEW seqs, NEW k \in Nat, \A i \in 1..k : seqs[i] \in S
    PROVE  /\ [i \in 1..k |-> seqs[i]] \in Seq(S)
           /\ Len([i \in 1..k |-> seqs[i]]) = k
  <1> PICK q : q = [i \in 1..k |-> seqs[i]]
    OBVIOUS
  <1>1. q \in [1..k -> S]
    OBVIOUS
  <1>2. q \in Seq(S)
    BY ONLY <1>1, k \in Nat
  <1>3. Len(q) = k
    BY ONLY <1>1, <1>2, k \in Nat
  <1>4. QED
    BY <1>2, <1>3

LEMMA UptoNone == ASSUME NEW seqs PROVE Upto(seqs, 0) = << >>
  <1> PICK q : q = [i \in 1..0 |-> seqs[i]]
    OBVIOUS
  <1>1. q = << >> /\ Len(q) = 0
    OBVIOUS
  <1>2. FlattenSeq(q) = q
    BY <1>1 DEF FlattenSeq
  <1>3. QED
    BY <1>1, <1>2 DEF Upto

LEMMA UptoStep ==
    ASSUME NEW S, NEW seqs, NEW k \in Nat, \A i \in 1..(k + 1) : seqs[i] \in Seq(S)
    PROVE  Upto(seqs, k + 1) = Upto(seqs, k) \o seqs[k + 1]
  <1> PICK p, q : p = [i \in 1..(k + 1) |-> seqs[i]] /\ q = [i \in 1..k |-> seqs[i]]
    OBVIOUS
  <1>1. k + 1 \in Nat \ {0} /\ k + 1 \in 1..(k + 1) /\ \A i \in 1..k : i \in 1..(k + 1)
    OBVIOUS
  <1>2. Len(p) = k + 1 /\ Len(q) = k
    BY <1>1, FirstOnes
  <1>3. PICK f : Joins(f, p, k + 1) /\ FlattenSeq(p) = f[k + 1]
    BY ONLY <1>1, <1>2, FlattenIs
  <1>4. f[k + 1] = IF k + 1 = 1 THEN p[k + 1] ELSE f[(k + 1) - 1] \o p[k + 1]
    BY <1>1, <1>3, JoinsIs
  <1>5. p[k + 1] = seqs[k + 1] /\ (k + 1) - 1 = k
    BY <1>1
  <1>6. CASE k = 0
    <2>1. Upto(seqs, k) = << >>
      BY <1>6, UptoNone
    <2>2. seqs[k + 1] \in Seq(S)
      BY <1>1
    <2>3. << >> \o seqs[k + 1] = seqs[k + 1]
      BY ONLY <2>2
    <2>4. Upto(seqs, k + 1) = seqs[k + 1]
      BY <1>3, <1>4, <1>5, <1>6 DEF Upto
    <2>5. QED
      BY <2>1, <2>3, <2>4
  <1>7. CASE k # 0
    <2>1. PICK g : Joins(g, q, k) /\ FlattenSeq(q) = g[k]
      BY <1>2, <1>7, FlattenIs
    <2>2. \A i \in 1..k : q[i] = p[i]
      BY <1>1
    <2>3. \A i \in 1..k : f[i] = g[i]
      <3>1. k \in Nat /\ k + 1 \in Nat /\ k <= k + 1
        OBVIOUS
      <3>2. QED
        BY ONLY <1>3, <2>1, <2>2, <3>1, JoinsAgree
    <2>4. k \in 1..k /\ k + 1 # 1
      BY <1>7
    <2>5. f[k + 1] = g[k] \o seqs[k + 1]
      BY <1>4, <1>5, <2>3, <2>4
    <2>6. QED
      BY <1>3, <2>1, <2>5 DEF Upto
  <1>8. QED
    BY <1>6, <1>7

LEMMA UptoTyped ==
    ASSUME NEW S, NEW seqs, NEW n \in Nat, \A i \in 1..n : seqs[i] \in Seq(S)
    PROVE  \A k \in 0..n : Upto(seqs, k) \in Seq(S)
  <1> DEFINE T == {k \in Nat : k <= n => Upto(seqs, k) \in Seq(S)}
  <1>1. 0 \in T
    <2>1. << >> \in Seq(S)
      OBVIOUS
    <2>2. QED
      BY <2>1, UptoNone
  <1>2. ASSUME NEW k \in T \cap Nat PROVE k + 1 \in T
    <2>1. SUFFICES ASSUME k + 1 <= n PROVE Upto(seqs, k + 1) \in Seq(S)
      OBVIOUS
    <2>2. k \in Nat /\ k <= n /\ k + 1 \in 1..n /\ \A i \in 1..(k + 1) : i \in 1..n
      BY <2>1
    <2>3. Upto(seqs, k) \in Seq(S) /\ seqs[k + 1] \in Seq(S)
      BY <2>2
    <2>4. Upto(seqs, k + 1) = Upto(seqs, k) \o seqs[k + 1]
      BY <2>2, UptoStep
    <2> PICK a, b : a = Upto(seqs, k) /\ b = seqs[k + 1]
      OBVIOUS
    <2>5. a \in Seq(S) /\ b \in Seq(S)
      BY <2>3
    <2>6. a \o b \in Seq(S)
      BY ONLY <2>5
    <2>7. QED
      BY <2>4, <2>6
  <1>3. Nat \subseteq T
    <2> HIDE DEF T
    <2>1. QED
      BY <1>1, <1>2, SetInduction
  <1>4. QED
    BY <1>3

(* What is joined first is not changed by what follows it.                 *)
Begins(a, b) == Len(a) <= Len(b) /\ \A x \in 1..Len(a) : b[x] = a[x]

LEMMA UptoPrefix ==
    ASSUME NEW S, NEW seqs, NEW n \in Nat, \A i \in 1..n : seqs[i] \in Seq(S)
    PROVE  \A j \in 0..n : \A k \in j..n : Begins(Upto(seqs, j), Upto(seqs, k))
  <1> TAKE j \in 0..n
  <1> DEFINE Before(k) == /\ Len(Upto(seqs, j)) <= Len(Upto(seqs, k))
                          /\ \A x \in 1..Len(Upto(seqs, j)) : Upto(seqs, k)[x] = Upto(seqs, j)[x]
             T == {k \in Nat : j + k <= n => Before(j + k)}
  <1>1. \A k \in 0..n : Upto(seqs, k) \in Seq(S)
    BY UptoTyped
  <1>2. 0 \in T
    <2>1. j + 0 = j /\ Len(Upto(seqs, j)) \in Nat
      BY <1>1
    <2>2. QED
      BY <2>1
  <1>3. ASSUME NEW k \in T \cap Nat PROVE k + 1 \in T
    <2>1. SUFFICES ASSUME j + (k + 1) <= n PROVE Before(j + (k + 1))
      OBVIOUS
    <2>2. /\ j + k \in 0..n /\ j + (k + 1) = (j + k) + 1 /\ (j + k) + 1 \in 1..n
          /\ j + k \in Nat /\ \A i \in 1..((j + k) + 1) : i \in 1..n
      BY <2>1
    <2>3. Before(j + k)
      BY <2>2
    <2> HIDE DEF Before
    <2>4. Upto(seqs, (j + k) + 1) = Upto(seqs, j + k) \o seqs[(j + k) + 1]
      BY <2>2, UptoStep
    <2> PICK a, b, c : a = Upto(seqs, j) /\ b = Upto(seqs, j + k) /\ c = seqs[(j + k) + 1]
      OBVIOUS
    <2>5. a \in Seq(S) /\ b \in Seq(S) /\ c \in Seq(S)
      BY <1>1, <2>2
    <2>6. Len(a) <= Len(b) /\ \A x \in 1..Len(a) : b[x] = a[x]
      BY <2>3 DEF Before
    <2>7. Len(a) <= Len(b \o c) /\ \A x \in 1..Len(a) : (b \o c)[x] = a[x]
      BY ONLY <2>5, <2>6
    <2>8. QED
      BY <2>2, <2>4, <2>7 DEF Before
  <1>4. Nat \subseteq T
    <2> HIDE DEF T
    <2>1. QED
      BY <1>2, <1>3, SetInduction
  <1>5. ASSUME NEW k \in j..n PROVE Before(k)
    <2>1. k - j \in Nat /\ j + (k - j) = k /\ k <= n
      OBVIOUS
    <2>2. j + (k - j) <= n => Before(j + (k - j))
      <3> HIDE DEF Before
      <3>1. QED
        BY <1>4, <2>1
    <2>3. QED
      <3> HIDE DEF Before
      <3>1. QED
        BY <2>1, <2>2
  <1>6. QED
    BY <1>5 DEF Begins

-----------------------------------------------------------------------------
(* Counting in joined sequences.                                           *)
At(s, x) == {i \in 1..Len(s) : s[i] = x}

LEMMA CountIs ==
    ASSUME NEW S, NEW s \in Seq(S), NEW x
    PROVE  /\ Count(s, x) = Cardinality(At(s, x)) /\ IsFiniteSet(At(s, x))
           /\ Count(s, x) \in Nat
  <1>1. DOMAIN s = 1..Len(s) /\ Len(s) \in Nat
    OBVIOUS
  <1>2. Count(s, x) = Cardinality(At(s, x))
    BY <1>1 DEF Count, At
  <1>3. IsFiniteSet(1..Len(s)) /\ At(s, x) \in SUBSET (1..Len(s))
    BY <1>1, FS_Interval DEF At
  <1>4. IsFiniteSet(At(s, x))
    BY <1>3, FS_Subset
  <1>5. QED
    BY <1>2, <1>4, FS_CardinalityType

LEMMA CountOfJoined ==
    ASSUME NEW S, NEW s \in Seq(S), NEW t \in Seq(S), NEW x
    PROVE  Count(s \o t, x) = Count(s, x) + Count(t, x)
  <1> DEFINE n == Len(s)
             B == At(t, x)
             M == {i \in (n + 1)..(n + Len(t)) : t[i - n] = x}
             f == [i \in B |-> n + i]
  <1>1. n \in Nat /\ Len(t) \in Nat /\ s \o t \in Seq(S) /\ Len(s \o t) = n + Len(t)
    OBVIOUS
  <1>2. \A i \in 1..(n + Len(t)) : (s \o t)[i] = IF i <= n THEN s[i] ELSE t[i - n]
    OBVIOUS
  <1>3. At(s \o t, x) = At(s, x) \cup M
    <2>1. \A i \in 1..n : i \in 1..(n + Len(t)) /\ i <= n
      BY <1>1
    <2>2. \A i \in (n + 1)..(n + Len(t)) : i \in 1..(n + Len(t)) /\ ~(i <= n)
      BY <1>1
    <2>3. \A i \in 1..(n + Len(t)) : i \in 1..n \/ i \in (n + 1)..(n + Len(t))
      BY <1>1
    <2>4. \A i : i \in At(s \o t, x) <=> (i \in 1..(n + Len(t)) /\ (s \o t)[i] = x)
      BY <1>1 DEF At
    <2>5. \A i : i \in At(s, x) <=> (i \in 1..n /\ s[i] = x)
      BY DEF At
    <2>6. \A i : i \in M <=> (i \in (n + 1)..(n + Len(t)) /\ t[i - n] = x)
      OBVIOUS
    <2> HIDE DEF M
    <2>7. \A i \in 1..n : i \in At(s \o t, x) <=> i \in At(s, x)
      BY <1>2, <2>1, <2>4, <2>5
    <2>8. \A i \in (n + 1)..(n + Len(t)) : i \in At(s \o t, x) <=> i \in M
      BY <1>2, <2>2, <2>4, <2>6
    <2> HIDE DEF n
    <2>9. \A i : i \in At(s \o t, x) <=> i \in At(s, x) \/ i \in M
      <3> TAKE i
      <3>1. CASE i \in 1..n
        <4>1. ~(i \in M)
          BY <2>1, <2>2, <2>6, <3>1
        <4>2. QED
          BY <2>7, <3>1, <4>1
      <3>2. CASE i \in (n + 1)..(n + Len(t))
        <4>1. ~(i \in At(s, x))
          BY <2>1, <2>2, <2>5, <3>2
        <4>2. QED
          BY <2>8, <3>2, <4>1
      <3>3. CASE ~(i \in 1..n) /\ ~(i \in (n + 1)..(n + Len(t)))
        BY <2>3, <2>4, <2>5, <2>6, <3>3
      <3>4. QED
        BY <3>1, <3>2, <3>3
    <2>10. QED
      BY <2>9
  <1>4. At(s, x) \cap M = {}
    BY <1>1 DEF At
  <1>5. ExistsBijection(B, M)
    <2>1. \A i \in B : n + i \in M
      BY <1>1 DEF At
    <2>2. f \in [B -> M]
      BY <2>1
    <2>3. \A i, j \in B : f[i] = f[j] => i = j
      BY <1>1 DEF At
    <2>4. \A k \in M : k - n \in B /\ f[k - n] = k
      BY <1>1 DEF At
    <2> HIDE DEF f, B, M
    <2>5. f \in Bijection(B, M)
      BY <2>2, <2>3, <2>4 DEF Bijection, Injection, Surjection, IsInjective
    <2>6. QED
      BY <2>5 DEF ExistsBijection
  <1>6. IsFiniteSet(At(s, x)) /\ IsFiniteSet(B)
    BY CountIs
  <1> HIDE DEF B, M, f
  <1>7. IsFiniteSet(M) /\ Cardinality(M) = Cardinality(B)
    BY <1>5, <1>6, FS_Bijection
  <1>8. Cardinality(At(s, x) \cup M) = Cardinality(At(s, x)) + Cardinality(M) - Cardinality({})
    BY <1>4, <1>6, <1>7, FS_Union
  <1>9. Cardinality({}) = 0
    BY FS_EmptySet
  <1>10. Count(s \o t, x) = Cardinality(At(s \o t, x))
    BY <1>1, CountIs
  <1>11. Count(s, x) = Cardinality(At(s, x)) /\ Count(t, x) = Cardinality(B)
    BY CountIs DEF B
  <1>12. Cardinality(At(s, x)) \in Nat /\ Cardinality(B) \in Nat
    BY <1>6, FS_CardinalityType
  <1>13. QED
    BY <1>3, <1>7, <1>8, <1>9, <1>10, <1>11, <1>12

LEMMA CountOfNone == ASSUME NEW x PROVE Count(<< >>, x) = 0
  <1>1. At(<< >>, x) = {} /\ << >> \in Seq({})
    BY DEF At
  <1>2. QED
    BY <1>1, CountIs, FS_EmptySet

-----------------------------------------------------------------------------
(* The bytes of one message.                                               *)
Payload(m) ==
    IF m.type = tick_out THEN FlattenSeq([i \in DOMAIN m.from |-> <<1, m.from[i]>>])
    ELSE m.from

Pairs(ids) == [i \in DOMAIN ids |-> <<1, ids[i]>>]

LEMMA Constants ==
    /\ k_rx_cap \in Nat /\ MaxSent \in Nat /\ len_includes_header \in BOOLEAN /\ node \in Nat
    /\ \A m \in Message : /\ m.type \in {0, 1, 2} /\ m.from \in Seq(Nat)
                          /\ m.type = chat_out => Len(m.from) = 1
    /\ k_header_size = 2 /\ k_blob_header = 1 /\ notice = 0 /\ chat_out = 1 /\ tick_out = 2
  BY RecvAssumption DEF k_header_size, k_blob_header, notice, chat_out, tick_out

(* Each stamp of a tick payload is an entry of length 1. *)
LEMMA PairsTyped ==
    ASSUME NEW ids \in Seq(Nat)
    PROVE  /\ Len(ids) \in Nat /\ DOMAIN ids = 1..Len(ids)
           /\ \A i \in 1..Len(ids) : /\ ids[i] \in Nat /\ Pairs(ids)[i] = <<1, ids[i]>>
                                     /\ Pairs(ids)[i] \in Seq(Nat)
           /\ FlattenSeq(Pairs(ids)) = Upto(Pairs(ids), Len(ids))
  <1>1. Len(ids) \in Nat /\ DOMAIN ids = 1..Len(ids) /\ \A i \in 1..Len(ids) : ids[i] \in Nat
    OBVIOUS
  <1>2. \A i \in 1..Len(ids) : Pairs(ids)[i] = <<1, ids[i]>>
    BY <1>1 DEF Pairs
  <1>3. \A a \in Nat : <<1, a>> \in Seq(Nat)
    OBVIOUS
  <1>4. Pairs(ids) = [i \in 1..Len(ids) |-> Pairs(ids)[i]]
    BY <1>1 DEF Pairs
  <1>5. QED
    BY <1>1, <1>2, <1>3, <1>4 DEF Upto

LEMMA PairsUpto ==
    ASSUME NEW ids \in Seq(Nat)
    PROVE  \A k \in 0..Len(ids) :
              /\ Upto(Pairs(ids), k) \in Seq(Nat) /\ Len(Upto(Pairs(ids), k)) = 2 * k
              /\ \A j \in 1..k : /\ Upto(Pairs(ids), k)[2 * j - 1] = 1
                                 /\ Upto(Pairs(ids), k)[2 * j] = ids[j]
  <1> DEFINE Right(k) == /\ Upto(Pairs(ids), k) \in Seq(Nat) /\ Len(Upto(Pairs(ids), k)) = 2 * k
                         /\ \A j \in 1..k : /\ Upto(Pairs(ids), k)[2 * j - 1] = 1
                                            /\ Upto(Pairs(ids), k)[2 * j] = ids[j]
             T == {k \in Nat : k <= Len(ids) => Right(k)}
  <1>1. 0 \in T
    <2>1. << >> \in Seq(Nat) /\ Len(<< >>) = 2 * 0
      OBVIOUS
    <2>2. Upto(Pairs(ids), 0) = << >>
      BY UptoNone
    <2> PICK z : z = Upto(Pairs(ids), 0)
      OBVIOUS
    <2>5. z \in Seq(Nat) /\ Len(z) = 2 * 0
      BY <2>1, <2>2
    <2>6. \A j \in 1..0 : z[2 * j - 1] = 1 /\ z[2 * j] = ids[j]
      OBVIOUS
    <2>3. Right(0)
      BY <2>5, <2>6, Zenon
    <2>4. QED
      BY ONLY <2>3
  <1>2. ASSUME NEW k \in T \cap Nat PROVE k + 1 \in T
    <2>1. SUFFICES ASSUME k + 1 <= Len(ids) PROVE Right(k + 1)
      OBVIOUS
    <2>2. Len(ids) \in Nat
      OBVIOUS
    <2>3. k \in Nat /\ k <= Len(ids) /\ k + 1 \in 1..Len(ids)
          /\ \A i \in 1..(k + 1) : i \in 1..Len(ids)
      BY <2>1, <2>2
    <2>4. Right(k)
      BY <2>3
    <2>5. Upto(Pairs(ids), k + 1) = Upto(Pairs(ids), k) \o Pairs(ids)[k + 1]
      <3>1. \A i \in 1..(k + 1) : Pairs(ids)[i] \in Seq(Nat)
        BY <2>3, PairsTyped
      <3>2. QED
        BY ONLY <2>3, <3>1, UptoStep
    <2> PICK a, b, c : a = Upto(Pairs(ids), k) /\ b = ids[k + 1] /\ c = Upto(Pairs(ids), k + 1)
      OBVIOUS
    <2>6. c = a \o <<1, b>> /\ b \in Nat
      BY <2>3, <2>5, PairsTyped
    <2>7. a \in Seq(Nat) /\ Len(a) = 2 * k
          /\ \A j \in 1..k : a[2 * j - 1] = 1 /\ a[2 * j] = ids[j]
      BY <2>4
    <2>8. c \in Seq(Nat) /\ Len(c) = 2 * (k + 1)
          /\ (\A i \in 1..(2 * k) : c[i] = a[i]) /\ c[2 * k + 1] = 1 /\ c[2 * k + 2] = b
      <3> PICK d : d = <<1, b>>
        OBVIOUS
      <3>1. d \in Seq(Nat) /\ Len(d) = 2 /\ d[1] = 1 /\ d[2] = b
        BY ONLY <2>6, d = <<1, b>>
      <3>2. c = a \o d
        BY <2>6
      <3>3. c \in Seq(Nat) /\ Len(c) = Len(a) + 2
            /\ \A i \in 1..Len(c) : c[i] = IF i <= Len(a) THEN a[i] ELSE d[i - Len(a)]
        <4>1. a \in Seq(Nat)
          BY <2>7
        <4>2. QED
          <5>1. d \in Seq(Nat) /\ Len(d) = 2
            BY <3>1
          <5>2. /\ a \o d \in Seq(Nat) /\ Len(a \o d) = Len(a) + Len(d)
                /\ \A i \in 1..(Len(a) + Len(d)) :
                      (a \o d)[i] = IF i <= Len(a) THEN a[i] ELSE d[i - Len(a)]
            BY ONLY <4>1, <5>1, ConcatProperties
          <5>3. QED
            BY ONLY <3>2, <5>1, <5>2
      <3>4. /\ \A i \in 1..(2 * k) : i \in 1..(2 * k + 2) /\ i <= 2 * k
            /\ 2 * k + 1 \in 1..(2 * k + 2) /\ ~(2 * k + 1 <= 2 * k) /\ (2 * k + 1) - 2 * k = 1
            /\ 2 * k + 2 \in 1..(2 * k + 2) /\ ~(2 * k + 2 <= 2 * k) /\ (2 * k + 2) - 2 * k = 2
            /\ 2 * k + 2 = 2 * (k + 1)
        BY ONLY k \in Nat
      <3>5. Len(c) = 2 * k + 2
        BY <2>7, <3>3
      <3> PICK z : z = 2 * k
        OBVIOUS
      <3>6. QED
        BY ONLY <2>7, <3>1, <3>3, <3>4, <3>5, z = 2 * k
    <2>9. \A j \in 1..k : c[2 * j - 1] = 1 /\ c[2 * j] = ids[j]
      <3>1. \A j \in 1..k : 2 * j - 1 \in 1..(2 * k) /\ 2 * j \in 1..(2 * k)
        BY ONLY k \in Nat
      <3>2. QED
        BY ONLY <2>7, <2>8, <3>1
    <2>10. 2 * (k + 1) - 1 = 2 * k + 1 /\ 2 * (k + 1) = 2 * k + 2
           /\ \A j \in 1..(k + 1) : j \in 1..k \/ j = k + 1
      BY <2>3
    <2>11. \A j \in 1..(k + 1) : c[2 * j - 1] = 1 /\ c[2 * j] = ids[j]
      BY <2>8, <2>9, <2>10
    <2>12. QED
      BY <2>8, <2>11
  <1>3. Nat \subseteq T
    <2> HIDE DEF T
    <2>1. QED
      BY <1>1, <1>2, SetInduction
  <1>4. QED
    BY <1>3

LEMMA PayloadTyped ==
    ASSUME NEW m \in Message
    PROVE  /\ m.type \in {0, 1, 2} /\ m.from \in Seq(Nat)
           /\ Payload(m) \in Seq(Nat) /\ Len(Payload(m)) \in Nat
           /\ m.type = tick_out => Payload(m) = Upto(Pairs(m.from), Len(m.from))
           /\ m.type # tick_out => Payload(m) = m.from
  <1>1. m.type \in {0, 1, 2} /\ m.from \in Seq(Nat)
    BY Constants
  <1>2. m.type # tick_out => Payload(m) = m.from
    BY DEF Payload
  <1>3. m.type = tick_out => Payload(m) = Upto(Pairs(m.from), Len(m.from))
    BY <1>1, PairsTyped DEF Payload, Pairs
  <1>4. Upto(Pairs(m.from), Len(m.from)) \in Seq(Nat)
    <2>1. Len(m.from) \in 0..Len(m.from)
      BY <1>1
    <2>2. QED
      BY <1>1, <2>1, PairsUpto
  <1>5. Payload(m) \in Seq(Nat)
    BY <1>1, <1>2, <1>3, <1>4
  <1>6. QED
    BY <1>1, <1>2, <1>3, <1>5

LEMMA EncodeIs ==
    ASSUME NEW m \in Message
    PROVE  /\ Encode(m) \in Seq(Nat) /\ Len(Encode(m)) = 2 + Len(Payload(m))
           /\ Encode(m)[1] = LengthField(Len(Payload(m))) /\ Encode(m)[2] = m.type
           /\ \A i \in 1..Len(Payload(m)) : Encode(m)[2 + i] = Payload(m)[i]
           /\ ~Malformed(LengthField(Len(Payload(m))))
           /\ payload_len(LengthField(Len(Payload(m)))) = Len(Payload(m))
  <1> PICK p, n : p = Payload(m) /\ n = LengthField(Len(Payload(m)))
    OBVIOUS
  <1>1. Encode(m) = <<n, m.type>> \o p
    BY DEF Encode, Payload
  <1>2. p \in Seq(Nat) /\ Len(p) \in Nat /\ m.type \in Nat
    BY PayloadTyped
  <1>3. n \in Nat /\ ~Malformed(n) /\ payload_len(n) = Len(p)
    BY <1>2, Constants DEF LengthField, Malformed, payload_len
  <1> PICK y, e : y = m.type /\ e = Encode(m)
    OBVIOUS
  <1>4. /\ e \in Seq(Nat) /\ Len(e) = 2 + Len(p) /\ e[1] = n /\ e[2] = y
        /\ \A i \in 1..Len(p) : e[2 + i] = p[i]
    <2>1. e = <<n, y>> \o p /\ y \in Nat
      BY <1>1, <1>2
    <2>2. QED
      BY ONLY <1>2, <1>3, <2>1
  <1>5. QED
    BY <1>3, <1>4

-----------------------------------------------------------------------------
(* The walk over the entries of a tick payload, from byte lo on.           *)
Walked == [list : Seq(Seq(Nat)), cut : BOOLEAN]

From(p, f, i) ==
    IF i > Len(p) THEN [list |-> << >>, cut |-> FALSE]
    ELSE IF Len(p) - i < p[i] THEN [list |-> << >>, cut |-> TRUE]
    ELSE [list |-> <<SubSeq(p, i + 1, i + p[i])>> \o f[i + 1 + p[i]].list,
          cut  |-> f[i + 1 + p[i]].cut]

Walks(p, f, lo) == f = [i \in lo..(Len(p) + 1) |-> From(p, f, i)]

LEMMA WalkFrom ==
    ASSUME NEW p \in Seq(Nat), NEW f, NEW i \in 1..(Len(p) + 1),
           \A j \in (i + 1)..(Len(p) + 1) : f[j] \in Walked
    PROVE  From(p, f, i) \in Walked
  <1>1. Len(p) \in Nat /\ << >> \in Seq(Seq(Nat))
    OBVIOUS
  <1>2. CASE i > Len(p)
    BY <1>1, <1>2 DEF From, Walked
  <1>3. CASE ~(i > Len(p)) /\ Len(p) - i < p[i]
    BY <1>1, <1>3 DEF From, Walked
  <1>4. CASE ~(i > Len(p)) /\ ~(Len(p) - i < p[i])
    <2>1. i \in 1..Len(p) /\ p[i] \in Nat
      BY <1>1, <1>4
    <2> PICK n, g : n = p[i] /\ g = f[i + 1 + p[i]]
      OBVIOUS
    <2>2. i + 1 + n \in (i + 1)..(Len(p) + 1) /\ i + 1 \in 1..(Len(p) + 1) /\ i + n \in 0..Len(p)
      BY <1>1, <1>4, <2>1
    <2>3. g \in Walked
      BY <2>2
    <2> PICK l, c, s : l = g.list /\ c = g.cut /\ s = SubSeq(p, i + 1, i + n)
      OBVIOUS
    <2>4. l \in Seq(Seq(Nat)) /\ c \in BOOLEAN
      BY <2>3 DEF Walked
    <2>5. s \in Seq(Nat)
      BY ONLY <2>2, p \in Seq(Nat), s = SubSeq(p, i + 1, i + n), SubSeqProperties
    <2>6. <<s>> \o l \in Seq(Seq(Nat))
      <3>1. <<s>> \in Seq(Seq(Nat))
        BY ONLY <2>5
      <3>2. QED
        BY ONLY <2>4, <3>1, ConcatProperties
    <2>7. From(p, f, i) = [list |-> <<s>> \o l, cut |-> c]
      BY <1>4 DEF From
    <2>8. QED
      BY <2>4, <2>6, <2>7 DEF Walked
  <1>5. QED
    BY <1>2, <1>3, <1>4

(* From does not look back. *)
LEMMA FromAgrees ==
    ASSUME NEW p \in Seq(Nat), NEW f, NEW g, NEW i \in 1..(Len(p) + 1),
           \A j \in (i + 1)..(Len(p) + 1) : f[j] = g[j]
    PROVE  From(p, f, i) = From(p, g, i)
  <1>1. CASE i > Len(p) \/ Len(p) - i < p[i]
    BY <1>1 DEF From
  <1>2. CASE ~(i > Len(p)) /\ ~(Len(p) - i < p[i])
    <2>1. i \in 1..Len(p) /\ p[i] \in Nat /\ Len(p) \in Nat
      BY <1>2
    <2>2. i + 1 + p[i] \in (i + 1)..(Len(p) + 1)
      BY <1>2, <2>1
    <2>3. f[i + 1 + p[i]] = g[i + 1 + p[i]]
      BY <2>2
    <2>4. QED
      BY <1>2, <2>3 DEF From
  <1>3. QED
    BY <1>1, <1>2

LEMMA WalksIs ==
    \A p, f, lo : Walks(p, f, lo) => \A i \in lo..(Len(p) + 1) : f[i] = From(p, f, i)
  <1> TAKE p, f, lo
  <1>1. SUFFICES ASSUME f = [i \in lo..(Len(p) + 1) |-> From(p, f, i)], NEW j \in lo..(Len(p) + 1)
                 PROVE  f[j] = From(p, f, j)
    BY DEF Walks
  <1> PICK g : g = [i \in lo..(Len(p) + 1) |-> From(p, f, i)]
    OBVIOUS
  <1>2. g[j] = From(p, f, j)
    BY ONLY j \in lo..(Len(p) + 1), g = [i \in lo..(Len(p) + 1) |-> From(p, f, i)]
  <1>3. f = g
    BY <1>1, Zenon
  <1>4. QED
    BY ONLY <1>2, <1>3

LEMMA WalkExists ==
    ASSUME NEW p \in Seq(Nat)
    PROVE  \E f : Walks(p, f, 1) /\ \A i \in 1..(Len(p) + 1) : f[i] \in Walked
  <1> DEFINE L == Len(p)
             Typed(f, lo) == Walks(p, f, lo) /\ \A i \in lo..(L + 1) : f[i] \in Walked
             T == {n \in Nat : n <= L => \E f : Typed(f, L + 1 - n)}
  <1>1. L \in Nat
    OBVIOUS
  <1>2. ASSUME NEW f, NEW lo \in 2..(L + 2), lo = L + 2 \/ Typed(f, lo)
        PROVE  \E g : Typed(g, lo - 1)
    <2> PICK g : g = [i \in (lo - 1)..(L + 1) |-> From(p, f, i)]
      OBVIOUS
    <2>1. /\ lo \in Int /\ lo - 1 \in 1..(L + 1)
          /\ \A i \in (lo - 1)..(L + 1) : /\ i \in 1..(L + 1)
                                          /\ \A j \in (i + 1)..(L + 1) :
                                               j \in lo..(L + 1) /\ j \in (lo - 1)..(L + 1)
      BY <1>1
    <2>2. \A i \in (lo - 1)..(L + 1) : g[i] = From(p, f, i)
      BY ONLY g = [i \in (lo - 1)..(L + 1) |-> From(p, f, i)]
    <2>3. \A j \in lo..(L + 1) : g[j] = f[j] /\ g[j] \in Walked
      <3>1. CASE lo = L + 2
        BY <1>1, <3>1
      <3>2. CASE Typed(f, lo)
        <4>1. \A j \in lo..(L + 1) : f[j] = From(p, f, j) /\ f[j] \in Walked
          BY <3>2, WalksIs
        <4>2. \A j \in lo..(L + 1) : j \in (lo - 1)..(L + 1)
          BY <1>1
        <4>3. QED
          BY <2>2, <4>1, <4>2
      <3>3. QED
        BY <1>2, <3>1, <3>2
    <2>4. \A i \in (lo - 1)..(L + 1) : From(p, f, i) = From(p, g, i) /\ From(p, g, i) \in Walked
      <3> TAKE i \in (lo - 1)..(L + 1)
      <3>1. i \in 1..(Len(p) + 1)
            /\ \A j \in (i + 1)..(Len(p) + 1) : f[j] = g[j] /\ g[j] \in Walked
        BY <2>1, <2>3
      <3> HIDE DEF L
      <3>2. From(p, f, i) = From(p, g, i)
        BY <3>1, FromAgrees
      <3>3. From(p, g, i) \in Walked
        BY <3>1, WalkFrom
      <3>4. QED
        BY <3>2, <3>3
    <2>5. g = [i \in (lo - 1)..(L + 1) |-> From(p, g, i)]
      BY ONLY <2>4, g = [i \in (lo - 1)..(L + 1) |-> From(p, f, i)]
    <2>6. \A i \in (lo - 1)..(L + 1) : g[i] \in Walked
      BY <2>2, <2>4
    <2>7. Walks(p, g, lo - 1)
      BY <2>5, Zenon DEF Walks
    <2>8. QED
      BY <2>6, <2>7
  <1>3. 0 \in T
    <2>1. L + 2 \in 2..(L + 2) /\ (L + 2) - 1 = L + 1 - 0
      BY <1>1
    <2> HIDE DEF Typed
    <2>2. \E g : Typed(g, (L + 2) - 1)
      BY <1>2, <2>1
    <2>3. QED
      BY <2>1, <2>2
  <1>4. ASSUME NEW n \in T \cap Nat PROVE n + 1 \in T
    <2>1. SUFFICES ASSUME n + 1 <= L PROVE \E f : Typed(f, L + 1 - (n + 1))
      OBVIOUS
    <2>2. /\ n \in Nat /\ n <= L /\ L + 1 - n \in 2..(L + 2)
          /\ (L + 1 - n) - 1 = L + 1 - (n + 1)
      BY <1>1, <2>1
    <2> HIDE DEF Typed
    <2>3. PICK f : Typed(f, L + 1 - n)
      BY <2>2
    <2>4. \E g : Typed(g, (L + 1 - n) - 1)
      BY <1>2, <2>2, <2>3
    <2>5. QED
      BY <2>2, <2>4
  <1>5. Nat \subseteq T
    <2> HIDE DEF T
    <2>1. QED
      BY <1>3, <1>4, SetInduction
  <1>6. L <= L /\ L + 1 - L = 1
    BY <1>1
  <1> HIDE DEF Typed
  <1>7. PICK f : Typed(f, 1)
    BY <1>1, <1>5, <1>6
  <1>8. QED
    BY <1>7 DEF Typed

LEMMA EntriesIs ==
    ASSUME NEW p \in Seq(Nat)
    PROVE  /\ Entries(p) \in Walked
           /\ \E f : Walks(p, f, 1) /\ Entries(p) = f[1]
  <1> DEFINE h == CHOOSE f : Walks(p, f, 1)
  <1>1. Entries(p) = h[1]
    BY DEF Entries, Walks, From
  <1>2. PICK f : Walks(p, f, 1) /\ \A i \in 1..(Len(p) + 1) : f[i] \in Walked
    BY WalkExists
  <1>3. Walks(p, h, 1)
    BY <1>2
  <1> HIDE DEF h
  <1>4. \A i \in 1..(Len(p) + 1) : h[i] = From(p, h, i) /\ f[i] = From(p, f, i)
    BY <1>2, <1>3, WalksIs
  <1>5. h[1] \in Walked
    <2> DEFINE L == Len(p)
               T == {n \in Nat : \A i \in 1..(L + 1) : i >= L + 1 - n => h[i] \in Walked}
    <2>1. L \in Nat
      OBVIOUS
    <2>2. 0 \in T
      <3> SUFFICES ASSUME NEW i \in 1..(L + 1), i >= L + 1 - 0 PROVE h[i] \in Walked
        OBVIOUS
      <3>1. i \in 1..(Len(p) + 1) /\ \A j \in (i + 1)..(Len(p) + 1) : FALSE
        BY <2>1
      <3> HIDE DEF L
      <3>2. From(p, h, i) \in Walked
        BY <3>1, WalkFrom
      <3>3. QED
        BY <1>4, <3>1, <3>2
    <2>3. ASSUME NEW n \in T \cap Nat PROVE n + 1 \in T
      <3> SUFFICES ASSUME NEW i \in 1..(L + 1), i >= L + 1 - (n + 1) PROVE h[i] \in Walked
        OBVIOUS
      <3>1. i \in 1..(Len(p) + 1)
            /\ \A j \in (i + 1)..(Len(p) + 1) : j \in 1..(L + 1) /\ j >= L + 1 - n
        BY <2>1
      <3>2. \A j \in (i + 1)..(Len(p) + 1) : h[j] \in Walked
        BY <3>1
      <3> HIDE DEF L
      <3>3. From(p, h, i) \in Walked
        BY <3>1, <3>2, WalkFrom
      <3>4. QED
        BY <1>4, <3>1, <3>3
    <2>4. Nat \subseteq T
      <3> HIDE DEF T
      <3>1. QED
        BY <2>2, <2>3, SetInduction
    <2>5. 1 \in 1..(L + 1) /\ 1 >= L + 1 - L
      BY <2>1
    <2>6. L \in T
      <3> HIDE DEF T
      <3>1. QED
        BY <2>1, <2>4
    <2>7. QED
      BY <2>5, <2>6
  <1>6. QED
    BY <1>1, <1>3, <1>5

(* A piece of one member. *)
LEMMA OneOf ==
    ASSUME NEW S, NEW s \in Seq(S), NEW i \in 1..Len(s)
    PROVE  SubSeq(s, i, i) = <<s[i]>>
  <1> PICK q, a : q = SubSeq(s, i, i) /\ a = s[i]
    OBVIOUS
  <1>1. i \in Int /\ i - i + 1 = 1 /\ i + 1 - 1 = i /\ a \in S
    OBVIOUS
  <1>2. q = [j \in 1..1 |-> s[i + j - 1]]
    BY <1>1
  <1>3. q \in Seq(S) /\ Len(q) = 1 /\ q[1] = a
    <2>1. q \in [1..1 -> S] /\ q[1] = a
      BY <1>1, <1>2
    <2> PICK z : z = 1
      OBVIOUS
    <2>2. q \in [1..z -> S] /\ z \in Nat
      BY <2>1
    <2>3. q \in Seq(S) /\ Len(q) = z
      BY ONLY <2>2
    <2>4. QED
      BY <2>1, <2>3
  <1>4. <<a>> \in Seq(S) /\ Len(<<a>>) = 1 /\ <<a>>[1] = a
    BY ONLY <1>1
  <1>5. \A j \in 1..1 : j = 1
    OBVIOUS
  <1>6. q = <<a>>
    BY ONLY <1>3, <1>4, <1>5, SeqEqual
  <1>7. QED
    BY <1>6

Ones(ids) == [e \in 1..Len(ids) |-> <<ids[e]>>]

(* The walk over a whole tick payload finds every stamp, and no cut.       *)
LEMMA EntriesOfTick ==
    ASSUME NEW ids \in Seq(Nat)
    PROVE  /\ Entries(Upto(Pairs(ids), Len(ids))).list = Ones(ids)
           /\ Entries(Upto(Pairs(ids), Len(ids))).cut = FALSE
  <1> PICK p, n : p = Upto(Pairs(ids), Len(ids)) /\ n = Len(ids)
    OBVIOUS
  <1>1. n \in Nat /\ \A e \in 1..n : ids[e] \in Nat
    OBVIOUS
  <1>2. /\ p \in Seq(Nat) /\ Len(p) = 2 * n
        /\ \A j \in 1..n : p[2 * j - 1] = 1 /\ p[2 * j] = ids[j]
    <2>1. n \in 0..Len(ids)
      BY <1>1
    <2>2. QED
      BY <2>1, PairsUpto
  <1>3. PICK f : Walks(p, f, 1) /\ Entries(p) = f[1]
    BY <1>2, EntriesIs
  <1>4. \A i \in 1..(2 * n + 1) : f[i] = From(p, f, i)
    BY <1>2, <1>3, WalksIs
  <1> DEFINE Tail2(j) == [e \in 1..(n - j) |-> <<ids[j + e]>>]
             Right(j) == f[2 * j + 1] = [list |-> Tail2(j), cut |-> FALSE]
             T == {k \in Nat : k <= n => Right(n - k)}
  <1>5. 0 \in T
    <2>1. 2 * (n - 0) + 1 \in 1..(2 * n + 1) /\ 2 * (n - 0) + 1 > 2 * n
      BY <1>1
    <2>2. f[2 * (n - 0) + 1] = [list |-> << >>, cut |-> FALSE]
      BY <1>2, <1>4, <2>1 DEF From
    <2>3. Tail2(n - 0) = << >>
      <3> PICK t : t = Tail2(n - 0)
        OBVIOUS
      <3>1. 1..(n - (n - 0)) = {}
        BY <1>1
      <3>2. QED
        BY <3>1
    <2>4. QED
      BY <2>2, <2>3
  <1>6. ASSUME NEW k \in T \cap Nat PROVE k + 1 \in T
    <2>1. SUFFICES ASSUME k + 1 <= n PROVE Right(n - (k + 1))
      <3> HIDE DEF Right
      <3>1. k + 1 \in Nat
        OBVIOUS
      <3>2. QED
        BY <3>1
    <2> PICK j : j = n - k
      OBVIOUS
    <2>2. j \in 1..n /\ n - (k + 1) = j - 1 /\ k \in Nat /\ k <= n
      BY <1>1, <2>1
    <2>3. Right(j)
      BY <2>2
    <2> PICK i : i = 2 * j - 1
      OBVIOUS
    <2>4. /\ i \in 1..(2 * n) /\ i \in 1..(2 * n + 1) /\ i + 1 = 2 * j /\ i + 1 + 1 = 2 * j + 1
          /\ 2 * (j - 1) + 1 = i /\ ~(i > 2 * n) /\ ~(2 * n - i < 1)
      BY <1>1, <2>2
    <2>5. p[i] = 1 /\ p[i + 1] = ids[j] /\ ids[j] \in Nat
      BY <1>1, <1>2, <2>2, <2>4
    <2>6. SubSeq(p, i + 1, i + 1) = <<ids[j]>>
      <3> PICK q, a : q = i + 1 /\ a = ids[j]
        OBVIOUS
      <3>1. q \in 1..Len(p)
        <4>1. q = 2 * j /\ 2 * j \in 1..(2 * n)
          BY <1>1, <2>2, <2>4
        <4>2. QED
          BY <1>2, <4>1
      <3>2. SubSeq(p, q, q) = <<a>>
        <4>1. p \in Seq(Nat) /\ p[q] = a
          BY <1>2, <2>5
        <4>2. QED
          BY ONLY <3>1, <4>1, OneOf
      <3>3. QED
        BY <3>2
    <2>7. f[i] = [list |-> <<<<ids[j]>>>> \o f[2 * j + 1].list, cut |-> f[2 * j + 1].cut]
      <3>1. f[i] = From(p, f, i)
        BY <1>4, <2>4
      <3>2. From(p, f, i) = [list |-> <<SubSeq(p, i + 1, i + 1)>> \o f[2 * j + 1].list,
                             cut |-> f[2 * j + 1].cut]
        BY <1>2, <2>4, <2>5 DEF From
      <3>3. QED
        BY <2>6, <3>1, <3>2
    <2>8. f[2 * j + 1].list = Tail2(j) /\ f[2 * j + 1].cut = FALSE
      BY <2>3
    <2>9. <<<<ids[j]>>>> \o Tail2(j) = Tail2(j - 1)
      <3> PICK a, t, u : a = <<ids[j]>> /\ t = Tail2(j) /\ u = Tail2(j - 1)
        OBVIOUS
      <3>1. t \in [1..(n - j) -> Seq(Nat)] /\ \A e \in 1..(n - j) : t[e] = <<ids[j + e]>>
        <4>1. \A e \in 1..(n - j) : j + e \in 1..n
          BY <1>1, <2>2
        <4>2. \A b \in Nat : <<b>> \in Seq(Nat)
          OBVIOUS
        <4>3. QED
          BY <1>1, <4>1, <4>2
      <3>2. u \in [1..(n - (j - 1)) -> Seq(Nat)]
            /\ \A e \in 1..(n - (j - 1)) : u[e] = <<ids[(j - 1) + e]>>
        <4>1. \A e \in 1..(n - (j - 1)) : (j - 1) + e \in 1..n
          BY <1>1, <2>2
        <4>2. \A b \in Nat : <<b>> \in Seq(Nat)
          OBVIOUS
        <4>3. QED
          BY <1>1, <4>1, <4>2
      <3>3. a \in Seq(Nat)
        BY <2>5
      <3>4. n - j \in Nat /\ n - (j - 1) \in Nat /\ n - (j - 1) = 1 + (n - j)
        BY <1>1, <2>2
      <3>5. t \in Seq(Seq(Nat)) /\ Len(t) = n - j /\ u \in Seq(Seq(Nat)) /\ Len(u) = 1 + (n - j)
        <4> PICK z : z = n - j
          OBVIOUS
        <4>1. t \in [1..z -> Seq(Nat)] /\ u \in [1..(1 + z) -> Seq(Nat)] /\ z \in Nat
          BY <3>1, <3>2, <3>4
        <4>2. t \in Seq(Seq(Nat)) /\ Len(t) = z
          BY ONLY <4>1
        <4>3. u \in Seq(Seq(Nat)) /\ Len(u) = 1 + z
          BY ONLY <4>1
        <4>4. QED
          BY <4>2, <4>3
      <3>6. <<a>> \in Seq(Seq(Nat)) /\ Len(<<a>>) = 1 /\ <<a>>[1] = a
        BY ONLY <3>3
      <3>7. /\ <<a>> \o t \in Seq(Seq(Nat)) /\ Len(<<a>> \o t) = 1 + Len(t)
            /\ \A e \in 1..(1 + Len(t)) :
                  (<<a>> \o t)[e] = IF e <= 1 THEN <<a>>[e] ELSE t[e - 1]
        <4>1. /\ <<a>> \o t \in Seq(Seq(Nat)) /\ Len(<<a>> \o t) = Len(<<a>>) + Len(t)
              /\ \A e \in 1..(Len(<<a>>) + Len(t)) :
                  (<<a>> \o t)[e] = IF e <= Len(<<a>>) THEN <<a>>[e] ELSE t[e - Len(<<a>>)]
          BY ONLY <3>5, <3>6, ConcatProperties
        <4>2. QED
          BY ONLY <3>6, <4>1
      <3>8. \A e \in 1..(1 + (n - j)) : (<<a>> \o t)[e] = u[e]
        <4> TAKE e \in 1..(1 + (n - j))
        <4>1. u[e] = <<ids[(j - 1) + e]>> /\ e \in Int
          BY <3>2, <3>4
        <4>2. CASE e = 1
          <5>1. (j - 1) + e = j /\ e <= 1 /\ e \in 1..(1 + Len(t))
            BY <2>2, <3>5, <4>2
          <5>2. QED
            BY <3>6, <3>7, <4>1, <4>2, <5>1
        <4>3. CASE e # 1
          <5>1. e - 1 \in 1..(n - j) /\ ~(e <= 1) /\ j + (e - 1) = (j - 1) + e
                /\ e \in 1..(1 + (n - j))
            BY <1>1, <2>2, <4>3
          <5>4. e \in 1..(1 + Len(t))
            BY <3>5, <5>1
          <5>2. t[e - 1] = <<ids[j + (e - 1)]>>
            BY <3>1, <5>1
          <5>3. QED
            BY <3>7, <4>1, <5>1, <5>2, <5>4
        <4>4. QED
          BY <4>2, <4>3
      <3> PICK v : v = <<a>> \o t
        OBVIOUS
      <3>9. v = u
        <4>1. v \in Seq(Seq(Nat)) /\ Len(v) = Len(u) /\ \A e \in 1..Len(v) : v[e] = u[e]
          BY <3>5, <3>7, <3>8
        <4>2. QED
          BY ONLY <3>5, <4>1, SeqEqual
      <3>10. QED
        BY <3>9
    <2>10. QED
      BY <2>2, <2>4, <2>7, <2>8, <2>9
  <1>7. Nat \subseteq T
    <2> HIDE DEF T
    <2>1. QED
      BY <1>5, <1>6, SetInduction
  <1>8. Right(0)
    <2>1. n \in T /\ n <= n /\ n - n = 0
      BY <1>1, <1>7
    <2>2. Right(n - n)
      BY <2>1
    <2>3. QED
      <3> HIDE DEF Right
      <3>1. QED
        BY <2>1, <2>2
  <1>9. Tail2(0) = Ones(ids)
    <2>1. n - 0 = n /\ \A e \in 1..n : 0 + e = e
      BY <1>1
    <2>2. QED
      BY <2>1 DEF Ones
  <1>10. f[1] = [list |-> Ones(ids), cut |-> FALSE]
    <2>1. 2 * 0 + 1 = 1
      OBVIOUS
    <2> HIDE DEF Tail2
    <2>2. QED
      BY <1>8, <1>9, <2>1
  <1>11. QED
    BY <1>3, <1>10

-----------------------------------------------------------------------------
(* What one frame adds to the counters, and what it should.                *)
Result(p, type) ==
    IF type = tick_out THEN Outcomes(Entries(p).list)
    ELSE IF type = chat_out /\ Len(p) >= k_blob_header THEN <<Sampled(p)>> ELSE << >>

CutIn(p, type) == IF type = tick_out /\ Entries(p).cut THEN 1 ELSE 0

FramesIn(p, type) == IF type = tick_out THEN Len(Result(p, type)) ELSE 1

Words == {"bad", "foreign", "own", "notice"}

LEMMA CountOfOther ==
    ASSUME NEW S, NEW s \in Seq(S), NEW x, \A i \in 1..Len(s) : s[i] # x
    PROVE  Count(s, x) = 0
  <1>1. At(s, x) = {}
    BY DEF At
  <1>2. QED
    BY <1>1, CountIs, FS_EmptySet

LEMMA SampledTyped == \A p : Sampled(p) \in Words
  BY DEF Sampled, Words

LEMMA OutcomesTyped ==
    ASSUME NEW list \in Seq(Seq(Nat))
    PROVE  /\ Outcomes(list) \in Seq(Words) /\ Len(Outcomes(list)) = Len(list)
           /\ \A i \in 1..Len(list) : Outcomes(list)[i] = Sampled(list[i])
  <1> PICK o, n : o = Outcomes(list) /\ n = Len(list)
    OBVIOUS
  <1>1. n \in Nat /\ DOMAIN list = 1..n
    OBVIOUS
  <1>2. o = [i \in 1..n |-> Sampled(list[i])]
    BY <1>1 DEF Outcomes
  <1>3. o \in [1..n -> Words] /\ \A i \in 1..n : o[i] = Sampled(list[i])
    BY <1>2, SampledTyped
  <1>4. o \in Seq(Words) /\ Len(o) = n
    <2>1. o \in [1..n -> Words] /\ n \in Nat
      BY <1>1, <1>3
    <2>2. QED
      BY ONLY <2>1
  <1>5. QED
    BY <1>3, <1>4

LEMMA ResultTyped ==
    ASSUME NEW p \in Seq(Nat), NEW type
    PROVE  /\ Result(p, type) \in Seq(Words)
           /\ FramesIn(p, type) \in Nat /\ CutIn(p, type) \in Nat
           /\ \A x : Count(Result(p, type), x) \in Nat
  <1>1. Entries(p).list \in Seq(Seq(Nat))
    BY EntriesIs DEF Walked
  <1>2. Outcomes(Entries(p).list) \in Seq(Words)
    BY <1>1, OutcomesTyped
  <1>3. <<Sampled(p)>> \in Seq(Words)
    BY SampledTyped
  <1>4. << >> \in Seq(Words)
    OBVIOUS
  <1>5. Result(p, type) \in Seq(Words)
    BY <1>2, <1>3, <1>4 DEF Result
  <1>6. Len(Result(p, type)) \in Nat
    BY <1>5
  <1>7. \A x : Count(Result(p, type), x) \in Nat
    BY <1>5, CountIs
  <1>8. QED
    BY <1>5, <1>6, <1>7 DEF FramesIn, CutIn

LEMMA DeliveriesTyped ==
    ASSUME NEW m \in Message
    PROVE  /\ Deliveries(m) \in Seq(Words)
           /\ m.type # notice =>
                /\ Len(Deliveries(m)) = Len(m.from)
                /\ \A e \in 1..Len(m.from) :
                      Deliveries(m)[e] = IF m.from[e] = node THEN "own" ELSE "foreign"
  <1>1. CASE m.type = notice
    <2>1. Deliveries(m) = <<"notice">>
      BY <1>1 DEF Deliveries
    <2>2. <<"notice">> \in Seq(Words)
      BY DEF Words
    <2>3. QED
      BY <1>1, <2>1, <2>2
  <1>2. CASE m.type # notice
    <2> PICK d, n : d = Deliveries(m) /\ n = Len(m.from)
      OBVIOUS
    <2>1. m.from \in Seq(Nat)
      BY PayloadTyped
    <2>2. n \in Nat /\ DOMAIN m.from = 1..n
      BY <2>1
    <2>3. d = [e \in 1..n |-> IF m.from[e] = node THEN "own" ELSE "foreign"]
      BY <1>2, <2>2 DEF Deliveries
    <2>4. /\ d \in [1..n -> Words]
          /\ \A e \in 1..n : d[e] = IF m.from[e] = node THEN "own" ELSE "foreign"
      BY <2>3 DEF Words
    <2>5. d \in Seq(Words) /\ Len(d) = n
      <3>1. d \in [1..n -> Words] /\ n \in Nat
        BY <2>2, <2>4
      <3>2. QED
        BY ONLY <3>1
    <2>6. QED
      BY <2>4, <2>5
  <1>3. QED
    BY <1>1, <1>2

(* A stamp is sampled as the delivery it stands for. *)
LEMMA SampledStamp ==
    ASSUME NEW a \in Nat
    PROVE  Sampled(<<a>>) = IF a = node THEN "own" ELSE "foreign"
  <1>1. Len(<<a>>) = 1 /\ Head(<<a>>) = a
    OBVIOUS
  <1>2. QED
    BY <1>1, Constants DEF Sampled

LEMMA ResultOfChat ==
    ASSUME NEW m \in Message, m.type = chat_out
    PROVE  Result(Payload(m), m.type) = Deliveries(m) /\ FramesIn(Payload(m), m.type) = Len(Deliveries(m))
           /\ CutIn(Payload(m), m.type) = 0
  <1>1. m.from \in Seq(Nat) /\ Len(m.from) = 1 /\ chat_out # tick_out /\ chat_out # notice
        /\ k_blob_header = 1
    BY Constants, PayloadTyped DEF chat_out, tick_out, notice
  <1>2. Payload(m) = m.from
    BY <1>1, PayloadTyped
  <1> PICK a, s : a = m.from[1] /\ s = m.from
    OBVIOUS
  <1>3. a \in Nat /\ s = <<a>>
    <2>1. s \in Seq(Nat) /\ Len(s) = 1 /\ s[1] = a
      BY <1>1
    <2>2. a \in Nat
      BY ONLY <2>1
    <2>3. <<a>> \in Seq(Nat) /\ Len(<<a>>) = 1 /\ <<a>>[1] = a
      BY ONLY <2>2
    <2>4. \A i \in 1..1 : i = 1
      OBVIOUS
    <2>5. QED
      BY ONLY <2>1, <2>2, <2>3, <2>4, SeqEqual
  <1>4. Result(Payload(m), m.type) = <<IF a = node THEN "own" ELSE "foreign">>
    BY <1>1, <1>2, <1>3, SampledStamp DEF Result
  <1> PICK w, d : w = (IF a = node THEN "own" ELSE "foreign") /\ d = Deliveries(m)
    OBVIOUS
  <1>5. d \in Seq(Words) /\ Len(d) = 1 /\ d[1] = w /\ w \in Words
    <2>1. 1 \in 1..Len(m.from)
      BY <1>1
    <2>2. QED
      BY <1>1, <2>1, DeliveriesTyped DEF Words
  <1>6. d = <<w>>
    <2>1. <<w>> \in Seq(Words) /\ Len(<<w>>) = 1 /\ <<w>>[1] = w
      BY ONLY <1>5
    <2>2. \A i \in 1..1 : i = 1
      OBVIOUS
    <2>3. QED
      BY ONLY <1>5, <2>1, <2>2, SeqEqual
  <1>7. QED
    BY <1>1, <1>4, <1>5, <1>6 DEF FramesIn, CutIn

LEMMA ResultOfTick ==
    ASSUME NEW m \in Message, m.type = tick_out
    PROVE  Result(Payload(m), m.type) = Deliveries(m) /\ FramesIn(Payload(m), m.type) = Len(Deliveries(m))
           /\ CutIn(Payload(m), m.type) = 0
  <1> PICK ids, n, p : ids = m.from /\ n = Len(m.from) /\ p = Payload(m)
    OBVIOUS
  <1>1. ids \in Seq(Nat) /\ n = Len(ids) /\ tick_out # notice /\ p = Upto(Pairs(ids), Len(ids))
    BY PayloadTyped, Constants DEF tick_out, notice
  <1>2. Entries(p).list = Ones(ids) /\ Entries(p).cut = FALSE
    BY <1>1, EntriesOfTick
  <1>3. n \in Nat /\ \A e \in 1..n : ids[e] \in Nat
    BY <1>1
  <1>4. Ones(ids) \in Seq(Seq(Nat)) /\ Len(Ones(ids)) = n /\ \A e \in 1..n : Ones(ids)[e] = <<ids[e]>>
    <2> PICK o : o = Ones(ids)
      OBVIOUS
    <2>1. \A b \in Nat : <<b>> \in Seq(Nat)
      OBVIOUS
    <2>2. o \in [1..n -> Seq(Nat)] /\ \A e \in 1..n : o[e] = <<ids[e]>>
      BY <1>1, <1>3, <2>1 DEF Ones
    <2>3. o \in Seq(Seq(Nat)) /\ Len(o) = n
      <3>1. o \in [1..n -> Seq(Nat)] /\ n \in Nat
        BY <1>3, <2>2
      <3>2. QED
        BY ONLY <3>1
    <2>4. QED
      BY <2>2, <2>3
  <1> PICK r, d : r = Result(p, m.type) /\ d = Deliveries(m)
    OBVIOUS
  <1>5. r = Outcomes(Ones(ids))
    BY <1>2 DEF Result
  <1>6. r \in Seq(Words) /\ Len(r) = n
    BY <1>4, <1>5, OutcomesTyped
  <1>7. \A e \in 1..n : r[e] = IF ids[e] = node THEN "own" ELSE "foreign"
    <2> TAKE e \in 1..n
    <2>1. r[e] = Sampled(<<ids[e]>>)
      BY <1>4, <1>5, OutcomesTyped
    <2>2. QED
      BY <1>3, <2>1, SampledStamp
  <1>8. d \in Seq(Words) /\ Len(d) = n /\ \A e \in 1..n : d[e] = IF ids[e] = node THEN "own" ELSE "foreign"
    BY <1>1, DeliveriesTyped
  <1>9. r = d
    <2>1. \A e \in 1..Len(r) : r[e] = d[e]
      BY <1>6, <1>7, <1>8
    <2>2. QED
      BY ONLY <1>6, <1>8, <2>1, SeqEqual
  <1>10. QED
    BY <1>2, <1>9 DEF FramesIn, CutIn

(* Each frame counts its deliveries as the server meant them. *)
LEMMA ResultOfMessage ==
    ASSUME NEW m \in Message
    PROVE  /\ FramesIn(Payload(m), m.type) = Len(Deliveries(m))
           /\ Count(Result(Payload(m), m.type), "own") = Count(Deliveries(m), "own")
           /\ Count(Result(Payload(m), m.type), "foreign") = Count(Deliveries(m), "foreign")
           /\ Count(Result(Payload(m), m.type), "bad") = 0
           /\ CutIn(Payload(m), m.type) = 0
  <1>1. CASE m.type = notice
    <2>1. notice # tick_out /\ notice # chat_out
      BY DEF notice, tick_out, chat_out
    <2>2. Result(Payload(m), m.type) = << >> /\ CutIn(Payload(m), m.type) = 0
          /\ FramesIn(Payload(m), m.type) = 1
      BY <1>1, <2>1 DEF Result, CutIn, FramesIn
    <2>3. Deliveries(m) = <<"notice">>
      BY <1>1 DEF Deliveries
    <2>4. /\ <<"notice">> \in Seq(Words) /\ Len(<<"notice">>) = 1
          /\ \A i \in 1..1 : <<"notice">>[i] # "own" /\ <<"notice">>[i] # "foreign"
      BY DEF Words
    <2>5. Count(<<"notice">>, "own") = 0 /\ Count(<<"notice">>, "foreign") = 0
      BY <2>4, CountOfOther
    <2>6. QED
      BY <2>2, <2>3, <2>4, <2>5, CountOfNone
  <1>2. CASE m.type # notice
    <2>1. Result(Payload(m), m.type) = Deliveries(m) /\ FramesIn(Payload(m), m.type) = Len(Deliveries(m))
           /\ CutIn(Payload(m), m.type) = 0
      <3>1. m.type = chat_out \/ m.type = tick_out
        BY <1>2, PayloadTyped DEF notice, chat_out, tick_out
      <3>2. QED
        BY <3>1, ResultOfChat, ResultOfTick
    <2>2. Deliveries(m) \in Seq(Words) /\ \A i \in 1..Len(Deliveries(m)) : Deliveries(m)[i] # "bad"
      BY <1>2, DeliveriesTyped
    <2>3. Count(Deliveries(m), "bad") = 0
      BY <2>2, CountOfOther
    <2>4. QED
      BY <2>1, <2>3
  <1>3. QED
    BY <1>1, <1>2

-----------------------------------------------------------------------------
(* The stream, frame by frame.                                             *)
Frames(s) == [i \in 1..Len(s) |-> Encode(s[i])]

LEMMA FramesTyped ==
    ASSUME NEW s \in Seq(Message)
    PROVE  /\ Len(s) \in Nat
           /\ \A i \in 1..Len(s) : /\ s[i] \in Message /\ Frames(s)[i] = Encode(s[i])
                                   /\ Frames(s)[i] \in Seq(Nat)
  <1>1. Len(s) \in Nat /\ \A i \in 1..Len(s) : s[i] \in Message
    OBVIOUS
  <1>2. \A i \in 1..Len(s) : Frames(s)[i] = Encode(s[i])
    BY DEF Frames
  <1>3. QED
    BY <1>1, <1>2, EncodeIs

LEMMA WrittenIs ==
    ASSUME sent \in Seq(Message)
    PROVE  \A k \in 0..Len(sent) : Written(k) = Upto(Frames(sent), k)
  <1> TAKE k \in 0..Len(sent)
  <1>1. \A i \in 1..k : i \in 1..Len(sent)
    OBVIOUS
  <1>2. \A i \in 1..k : Frames(sent)[i] = Encode(sent[i])
    BY <1>1, FramesTyped
  <1>3. [i \in 1..k |-> Encode(sent[i])] = [i \in 1..k |-> Frames(sent)[i]]
    BY <1>2
  <1>4. QED
    BY <1>3 DEF Written, Upto

LEMMA WrittenTyped ==
    ASSUME sent \in Seq(Message)
    PROVE  /\ \A k \in 0..Len(sent) : Written(k) \in Seq(Nat) /\ Offset(k) \in Nat
           /\ Written(0) = << >> /\ Offset(0) = 0
           /\ Len(sent) \in Nat /\ stream \in Seq(Nat) /\ Len(stream) = Offset(Len(sent))
  <1> PICK n, F : n = Len(sent) /\ F = Frames(sent)
    OBVIOUS
  <1>1. n \in Nat /\ \A i \in 1..n : F[i] \in Seq(Nat)
    BY FramesTyped
  <1>2. \A k \in 0..n : Upto(F, k) \in Seq(Nat)
    BY <1>1, UptoTyped
  <1>3. \A k \in 0..n : Written(k) \in Seq(Nat)
    BY <1>2, WrittenIs
  <1>4. \A k \in 0..n : Offset(k) \in Nat
    BY <1>3 DEF Offset
  <1>5. 0 \in 0..n /\ n \in 0..n
    BY <1>1
  <1>6. Written(0) = << >>
    BY <1>5, UptoNone, WrittenIs
  <1>7. Offset(0) = 0
    BY <1>6 DEF Offset
  <1>8. stream \in Seq(Nat) /\ Len(stream) = Offset(n)
    BY <1>3, <1>5 DEF stream, Offset
  <1>9. QED
    BY <1>1, <1>3, <1>4, <1>6, <1>7, <1>8

(* The next frame follows the ones before it.                              *)
LEMMA WrittenNext ==
    ASSUME sent \in Seq(Message), NEW k \in 0..(Len(sent) - 1)
    PROVE  /\ k \in 0..Len(sent) /\ k + 1 \in 0..Len(sent) /\ sent[k + 1] \in Message
           /\ Written(k + 1) = Written(k) \o Encode(sent[k + 1])
           /\ Offset(k + 1) = Offset(k) + 2 + Len(Payload(sent[k + 1]))
           /\ \A i \in 1..Len(Encode(sent[k + 1])) :
                 Written(k + 1)[Offset(k) + i] = Encode(sent[k + 1])[i]
  <1>1. /\ k \in Nat /\ k \in 0..Len(sent) /\ k + 1 \in 0..Len(sent) /\ k + 1 \in 1..Len(sent)
        /\ \A i \in 1..(k + 1) : i \in 1..Len(sent)
    OBVIOUS
  <1>2. sent[k + 1] \in Message /\ Frames(sent)[k + 1] = Encode(sent[k + 1])
    BY <1>1, FramesTyped
  <1>3. Upto(Frames(sent), k + 1) = Upto(Frames(sent), k) \o Frames(sent)[k + 1]
    <2>1. \A i \in 1..(k + 1) : Frames(sent)[i] \in Seq(Nat)
      BY <1>1, FramesTyped
    <2>2. QED
      BY <1>1, <2>1, UptoStep
  <1>4. Written(k + 1) = Written(k) \o Encode(sent[k + 1])
    BY <1>1, <1>2, <1>3, WrittenIs
  <1> PICK a, b, c, p : /\ a = Written(k) /\ b = Encode(sent[k + 1]) /\ c = Written(k + 1)
                        /\ p = Len(Payload(sent[k + 1]))
    OBVIOUS
  <1>5. a \in Seq(Nat) /\ b \in Seq(Nat) /\ Len(b) = 2 + p /\ c = a \o b /\ p \in Nat
    BY <1>1, <1>2, <1>4, WrittenTyped, EncodeIs, PayloadTyped
  <1>6. Len(c) = Len(a) + Len(b) /\ \A i \in 1..Len(b) : c[Len(a) + i] = b[i]
    <2>1. /\ Len(a \o b) = Len(a) + Len(b)
          /\ \A i \in 1..(Len(a) + Len(b)) :
                (a \o b)[i] = IF i <= Len(a) THEN a[i] ELSE b[i - Len(a)]
      <3>1. a \in Seq(Nat) /\ b \in Seq(Nat)
        BY <1>5
      <3>2. QED
        BY ONLY <3>1, ConcatProperties
    <2>2. Len(a) \in Nat /\ Len(b) \in Nat
      BY <1>5
    <2>3. \A i \in 1..Len(b) : /\ Len(a) + i \in 1..(Len(a) + Len(b)) /\ ~(Len(a) + i <= Len(a))
                              /\ (Len(a) + i) - Len(a) = i
      BY ONLY <2>2
    <2>4. QED
      BY ONLY <1>5, <2>1, <2>3
  <1>7. Len(a) = Offset(k) /\ Len(c) = Offset(k + 1) /\ Len(a) \in Nat
    BY <1>5 DEF Offset
  <1>8. Offset(k + 1) = Offset(k) + 2 + p
    BY ONLY <1>5, <1>6, <1>7
  <1>9. QED
    BY <1>1, <1>2, <1>4, <1>6, <1>7, <1>8

LEMMA WrittenPrefix ==
    ASSUME sent \in Seq(Message), NEW j \in 0..Len(sent), NEW k \in j..Len(sent)
    PROVE  /\ Offset(j) <= Offset(k)
           /\ \A x \in 1..Offset(j) : Written(k)[x] = Written(j)[x]
           /\ \A x \in 1..Offset(j) : stream[x] = Written(j)[x]
  <1> PICK n, F : n = Len(sent) /\ F = Frames(sent)
    OBVIOUS
  <1>1. n \in Nat /\ \A i \in 1..n : F[i] \in Seq(Nat)
    BY FramesTyped
  <1>2. j \in 0..n /\ k \in j..n /\ k \in 0..n /\ n \in 0..n /\ n \in j..n
    BY <1>1
  <1>3. \A q \in j..n : /\ Len(Upto(F, j)) <= Len(Upto(F, q))
                        /\ \A x \in 1..Len(Upto(F, j)) : Upto(F, q)[x] = Upto(F, j)[x]
    <2>1. n \in Nat /\ (\A i \in 1..n : F[i] \in Seq(Nat)) /\ j \in 0..n
      BY <1>1, <1>2
    <2>2. QED
      <3>1. \A a \in 0..n : \A b \in a..n : Begins(Upto(F, a), Upto(F, b))
        BY ONLY <2>1, UptoPrefix
      <3>2. QED
        BY <2>1, <3>1 DEF Begins
  <1>4. \A q \in 0..n : Upto(F, q) = Written(q) /\ Offset(q) = Len(Written(q))
    BY WrittenIs DEF Offset
  <1>5. \A q \in j..n : q \in 0..n
    BY <1>1, <1>2
  <1>6. \A q \in j..n : Offset(j) <= Offset(q) /\ \A x \in 1..Offset(j) : Written(q)[x] = Written(j)[x]
    BY <1>2, <1>3, <1>4, <1>5
  <1>7. stream = Written(n)
    BY DEF stream
  <1>8. QED
    BY <1>2, <1>6, <1>7

(* Two frames do not end at the same byte. *)
LEMMA OffsetsDiffer ==
    ASSUME sent \in Seq(Message), NEW j \in 0..Len(sent), NEW k \in 0..Len(sent),
           Offset(j) = Offset(k)
    PROVE  j = k
  <1>1. ASSUME NEW a \in 0..Len(sent), NEW b \in 0..Len(sent), a < b PROVE Offset(a) < Offset(b)
    <2>1. Len(sent) \in Nat
      BY WrittenTyped
    <2>2. a \in 0..(Len(sent) - 1) /\ a + 1 \in 0..Len(sent) /\ b \in (a + 1)..Len(sent)
      BY <1>1, <2>1
    <2>3. Offset(a + 1) = Offset(a) + 2 + Len(Payload(sent[a + 1])) /\ sent[a + 1] \in Message
      BY <2>2, WrittenNext
    <2>4. Offset(a + 1) <= Offset(b)
      BY <2>2, WrittenPrefix
    <2>5. Offset(a) \in Nat /\ Offset(a + 1) \in Nat /\ Offset(b) \in Nat
          /\ Len(Payload(sent[a + 1])) \in Nat
      BY <2>2, <2>3, WrittenTyped, PayloadTyped
    <2>6. QED
      BY ONLY <2>3, <2>4, <2>5
  <1>2. Len(sent) \in Nat
    BY WrittenTyped
  <1>3. Offset(j) \in Nat
    BY WrittenTyped
  <1>4. ~(j < k) /\ ~(k < j)
    BY <1>1, <1>3
  <1>5. QED
    BY <1>2, <1>4

(* What the server meant, one message more.                                *)
LEMMA MeantNone == \A k \in Nat : Meant(k, k) = << >>
  <1> TAKE k \in Nat
  <1>1. k - k = 0
    OBVIOUS
  <1>2. Meant(k, k) = Upto([j \in 1..0 |-> Deliveries(sent[k + j])], 0)
    <2> PICK q : q = [j \in 1..0 |-> Deliveries(sent[k + j])]
      OBVIOUS
    <2>1. [i \in 1..0 |-> q[i]] = q
      OBVIOUS
    <2>2. QED
      BY <1>1, <2>1 DEF Meant, Upto
  <1>3. QED
    BY <1>2, UptoNone

LEMMA MeantNext ==
    ASSUME sent \in Seq(Message), NEW i \in 0..Len(sent), NEW k \in i..(Len(sent) - 1)
    PROVE  /\ Meant(i, k) \in Seq(Words)
           /\ Meant(i, k + 1) = Meant(i, k) \o Deliveries(sent[k + 1])
           /\ Deliveries(sent[k + 1]) \in Seq(Words)
  <1> PICK n : n = Len(sent)
    OBVIOUS
  <1>1. n \in Nat /\ \A x \in 1..n : sent[x] \in Message
    BY FramesTyped
  <1> DEFINE D == [j \in 1..(n - i) |-> Deliveries(sent[i + j])]
  <1>2. /\ n - i \in Nat /\ k - i \in Nat /\ (k + 1) - i = (k - i) + 1 /\ i + ((k - i) + 1) = k + 1
        /\ k - i \in 0..(n - i) /\ (k - i) + 1 \in 1..(n - i) /\ k + 1 \in 1..n
        /\ \A j \in 1..((k - i) + 1) : j \in 1..(n - i)
        /\ \A j \in 1..(k - i) : j \in 1..(n - i)
        /\ \A j \in 1..(n - i) : i + j \in 1..n
    BY <1>1
  <1>3. \A j \in 1..(n - i) : D[j] = Deliveries(sent[i + j])
    OBVIOUS
  <1> HIDE DEF D
  <1>4. \A j \in 1..(n - i) : D[j] \in Seq(Words)
    BY <1>1, <1>2, <1>3, DeliveriesTyped
  <1>5. Meant(i, k) = Upto(D, k - i)
    <2>1. [j \in 1..(k - i) |-> Deliveries(sent[i + j])] = [j \in 1..(k - i) |-> D[j]]
      BY <1>2, <1>3
    <2>2. QED
      BY <2>1 DEF Meant, Upto
  <1>6. Meant(i, k + 1) = Upto(D, (k - i) + 1)
    <2>1. [j \in 1..((k - i) + 1) |-> Deliveries(sent[i + j])] = [j \in 1..((k - i) + 1) |-> D[j]]
      BY <1>2, <1>3
    <2>2. QED
      BY <1>2, <2>1 DEF Meant, Upto
  <1>7. Upto(D, (k - i) + 1) = Upto(D, k - i) \o D[(k - i) + 1]
    <2>1. \A j \in 1..((k - i) + 1) : D[j] \in Seq(Words)
      BY <1>2, <1>4
    <2>2. QED
      BY <1>2, <2>1, UptoStep
  <1>8. Upto(D, k - i) \in Seq(Words)
    BY <1>2, <1>4, UptoTyped
  <1>9. D[(k - i) + 1] = Deliveries(sent[k + 1])
    BY <1>2, <1>3
  <1>10. Deliveries(sent[k + 1]) \in Seq(Words)
    BY <1>1, <1>2, DeliveriesTyped
  <1>11. QED
    BY <1>5, <1>6, <1>7, <1>8, <1>9, <1>10

-----------------------------------------------------------------------------
LEMMA PieceOf ==
    ASSUME NEW S, NEW s \in Seq(S), NEW a \in 1..(Len(s) + 1), NEW b \in (a - 1)..Len(s)
    PROVE  /\ SubSeq(s, a, b) \in Seq(S) /\ Len(SubSeq(s, a, b)) = b - a + 1
           /\ \A i \in 1..(b - a + 1) : SubSeq(s, a, b)[i] = s[a + i - 1]
  <1> PICK q, n : q = SubSeq(s, a, b) /\ n = b - a + 1
    OBVIOUS
  <1>1. n \in Nat /\ \A i \in 1..n : a + i - 1 \in 1..Len(s)
    OBVIOUS
  <1>2. q = [i \in 1..n |-> s[a + i - 1]]
    OBVIOUS
  <1>3. q \in [1..n -> S] /\ \A i \in 1..n : q[i] = s[a + i - 1]
    BY <1>1, <1>2
  <1>4. q \in Seq(S) /\ Len(q) = n
    <2>1. q \in [1..n -> S] /\ n \in Nat
      BY <1>1, <1>3
    <2>2. QED
      BY ONLY <2>1
  <1>5. QED
    BY <1>3, <1>4

(* The invariant over the values it relates, so that a step is a change of *)
(* these values.                                                           *)
WrittenOf(s, k) == FlattenSeq([i \in 1..k |-> Encode(s[i])])

MeantOf(s, i, k) == FlattenSeq([j \in 1..(k - i) |-> Deliveries(s[i + j])])

Told(s, i, k, at, f, o, g, b) ==
    /\ Len(WrittenOf(s, k)) = at
    /\ f = Len(MeantOf(s, i, k)) /\ b = 0
    /\ o = Count(MeantOf(s, i, k), "own") /\ g = Count(MeantOf(s, i, k), "foreign")

LEMMA ValuesAre ==
    /\ \A k : Written(k) = WrittenOf(sent, k) /\ Offset(k) = Len(WrittenOf(sent, k))
    /\ stream = WrittenOf(sent, Len(sent)) /\ stream' = WrittenOf(sent', Len(sent'))
    /\ \A i, k : Meant(i, k) = MeantOf(sent, i, k)
    /\ \A k : CountsTell(k) <=> Told(sent, from, k, taken - Len(rx) + off,
                                     frames_in, own, foreign, samples_bad)
  BY DEF Written, Offset, WrittenOf, stream, Meant, MeantOf, CountsTell, Parsed, Told

LEMMA ValuesNext ==
    ASSUME NEW k
    PROVE  CountsTell(k)' <=> Told(sent', from', k, taken' - Len(rx') + off',
                                   frames_in', own', foreign', samples_bad')
  BY DEF Written, Offset, WrittenOf, stream, Meant, MeantOf, CountsTell, Parsed, Told

(* Where the counts are exact and more than a header is buffered, it is    *)
(* the header of the next message; and if its frame is whole, its payload. *)
LEMMA NextFrame ==
    ASSUME RecvInv, NEW k \in from..Len(sent), CountsTell(k), Len(rx) - off >= 2
    PROVE  /\ k \in 0..(Len(sent) - 1) /\ k \in from..(Len(sent) - 1) /\ sent[k + 1] \in Message
           /\ ~Malformed(raw) /\ payload_len(raw) = Len(Payload(sent[k + 1]))
           /\ rx[off + 2] = sent[k + 1].type
           /\ Len(rx) - off >= 2 + payload_len(raw) =>
                SubSeq(rx, off + 2 + 1, off + 2 + payload_len(raw)) = Payload(sent[k + 1])
  <1>1. /\ sent \in Seq(Message) /\ arrived \in Nat /\ taken \in 0..arrived /\ arrived <= Len(stream)
        /\ rx \in Seq(Nat) /\ off \in 0..Len(rx) /\ from \in 0..Len(sent)
        /\ Len(rx) <= taken /\ \A i \in 1..Len(rx) : rx[i] = stream[taken - Len(rx) + i]
        /\ Offset(k) = taken - Len(rx) + off
    BY DEF RecvInv, RecvTypeOK, Buffered, CountsTell, Parsed
  <1>2. Len(sent) \in Nat /\ Len(stream) = Offset(Len(sent)) /\ stream \in Seq(Nat) /\ Len(rx) \in Nat
    BY <1>1, WrittenTyped
  <1>3. k \in 0..Len(sent) /\ Len(sent) \in 0..Len(sent) /\ k \in Nat
    BY <1>1, <1>2
  <1>4. Offset(k) \in Nat /\ Offset(k) + 2 <= taken /\ Offset(k) + 2 <= Len(stream)
    <2>1. Offset(k) \in Nat /\ Len(stream) \in Nat
      BY <1>1, <1>2, <1>3, WrittenTyped
    <2> PICK l, y, c : l = Len(rx) /\ y = Offset(k) /\ c = Len(stream)
      OBVIOUS
    <2>2. /\ l \in Nat /\ y \in Nat /\ c \in Nat /\ arrived \in Nat /\ taken \in 0..arrived
          /\ arrived <= c /\ off \in 0..l /\ l - off >= 2 /\ y = taken - l + off
      BY <1>1, <1>2, <2>1
    <2>3. y + 2 <= taken /\ y + 2 <= c
      BY ONLY <2>2
    <2>4. QED
      BY <2>1, <2>3
  <1>5. k # Len(sent)
    <2>1. Len(stream) \in Nat
      BY <1>2
    <2>2. QED
      BY <1>2, <1>4, <2>1
  <1>6. k \in 0..(Len(sent) - 1) /\ k \in from..(Len(sent) - 1)
    BY <1>1, <1>2, <1>3, <1>5
  <1> PICK m, p, e, n, z : /\ m = sent[k + 1] /\ p = Payload(m) /\ e = Encode(m)
                           /\ n = Len(p) /\ z = Offset(k)
    OBVIOUS
  <1>7. /\ m \in Message /\ Offset(k + 1) = z + 2 + n /\ k + 1 \in 0..Len(sent)
        /\ \A i \in 1..Len(e) : Written(k + 1)[z + i] = e[i]
    BY <1>1, <1>6, WrittenNext
  <1>8. /\ p \in Seq(Nat) /\ n \in Nat /\ Len(e) = 2 + n /\ e[1] = LengthField(n) /\ e[2] = m.type
        /\ \A i \in 1..n : e[2 + i] = p[i]
        /\ ~Malformed(LengthField(n)) /\ payload_len(LengthField(n)) = n
    BY <1>7, PayloadTyped, EncodeIs
  <1>9. \A x \in 1..(z + 2 + n) : stream[x] = Written(k + 1)[x]
    <2>1. k + 1 \in (k + 1)..Len(sent)
      BY <1>2, <1>3, <1>7
    <2>2. QED
      BY <1>1, <1>7, <2>1, WrittenPrefix
  <1>10. \A i \in 1..(2 + n) : stream[z + i] = e[i]
    <2>1. \A i \in 1..(2 + n) : z + i \in 1..(z + 2 + n)
      BY <1>4, <1>8
    <2>2. QED
      BY <1>7, <1>8, <1>9, <2>1
  <1> PICK l : l = Len(rx)
    OBVIOUS
  <1>16. /\ l \in Nat /\ off \in 0..l /\ taken \in Nat /\ n \in Nat /\ z \in Nat
         /\ z = taken - l + off /\ l - off >= 2
    BY <1>1, <1>2, <1>4, <1>8
  <1>11. \A i \in 1..(2 + n) : i <= Len(rx) - off => rx[off + i] = e[i]
    <2> TAKE i \in 1..(2 + n)
    <2>1. SUFFICES ASSUME i <= Len(rx) - off PROVE rx[off + i] = e[i]
      OBVIOUS
    <2>2. off + i \in 1..Len(rx) /\ taken - Len(rx) + (off + i) = z + i
      <3>1. i \in 1..(2 + n) /\ i <= l - off
        BY <2>1
      <3>2. off + i \in 1..l /\ taken - l + (off + i) = z + i
        BY ONLY <1>16, <3>1
      <3>3. QED
        BY <3>2
    <2>3. QED
      BY <1>1, <1>10, <2>2
  <1>12. rx[off + 1] = LengthField(n) /\ rx[off + 2] = m.type
    <2>1. 1 \in 1..(2 + n) /\ 2 \in 1..(2 + n) /\ 1 <= Len(rx) - off /\ 2 <= Len(rx) - off
      <3>1. 1 \in 1..(2 + n) /\ 2 \in 1..(2 + n) /\ 1 <= l - off /\ 2 <= l - off
        BY ONLY <1>16
      <3>2. QED
        BY <3>1
    <2>2. QED
      BY <1>8, <1>11, <2>1
  <1>13. raw = LengthField(n)
    BY <1>12 DEF raw
  <1>14. ASSUME Len(rx) - off >= 2 + n PROVE SubSeq(rx, off + 2 + 1, off + 2 + n) = p
    <2> PICK q, a, b : q = SubSeq(rx, off + 2 + 1, off + 2 + n) /\ a = off + 2 + 1 /\ b = off + 2 + n
      OBVIOUS
    <2>1. /\ off \in Nat /\ a \in 1..(l + 1) /\ b \in (a - 1)..l /\ b - a + 1 = n
          /\ \A i \in 1..n : a + i - 1 = off + (2 + i) /\ 2 + i \in 1..(2 + n) /\ 2 + i <= l - off
      <3>1. l - off >= 2 + n
        BY <1>14
      <3>2. QED
        BY ONLY <1>16, <3>1, a = off + 2 + 1, b = off + 2 + n
    <2>2. q \in Seq(Nat) /\ Len(q) = n /\ \A i \in 1..n : q[i] = rx[a + i - 1]
      <3>1. rx \in Seq(Nat) /\ a \in 1..(Len(rx) + 1) /\ b \in (a - 1)..Len(rx)
        BY <1>1, <2>1
      <3>2. /\ SubSeq(rx, a, b) \in Seq(Nat) /\ Len(SubSeq(rx, a, b)) = b - a + 1
            /\ \A i \in 1..(b - a + 1) : SubSeq(rx, a, b)[i] = rx[a + i - 1]
        BY ONLY <3>1, PieceOf
      <3>3. QED
        BY <2>1, <3>2
    <2>3. \A i \in 1..n : q[i] = p[i]
      <3> TAKE i \in 1..n
      <3>1. q[i] = rx[off + (2 + i)]
        BY <2>1, <2>2
      <3>2. rx[off + (2 + i)] = e[2 + i]
        BY <1>11, <2>1
      <3>3. QED
        BY <1>8, <3>1, <3>2
    <2>4. q = p
      BY ONLY <1>8, <2>2, <2>3, n = Len(p), SeqEqual
    <2>5. QED
      BY <2>4
  <1>15. QED
    BY <1>6, <1>7, <1>8, <1>12, <1>13, <1>14

-----------------------------------------------------------------------------
(* Each step of the server, the socket and the load generator.             *)
LEMMA RecvInitHolds == RecvInit => RecvInv
  <1> SUFFICES ASSUME RecvInit PROVE RecvInv
    OBVIOUS
  <1>1. /\ sent = << >> /\ arrived = 0 /\ closed = FALSE /\ taken = 0
        /\ phase = "connect" /\ state = "ready"
        /\ rx = << >> /\ off = 0 /\ recv_pc = "idle" /\ alive = TRUE
        /\ frames_in = 0 /\ own = 0 /\ foreign = 0 /\ samples_bad = 0
        /\ from = 0 /\ clean = TRUE
    BY DEF RecvInit
  <1>2. << >> \in Seq(Message) /\ << >> \in Seq(Nat) /\ Len(<< >>) = 0
    OBVIOUS
  <1>3. Len(sent) = 0 /\ sent \in Seq(Message) /\ Len(stream) = 0 /\ Offset(0) = 0
    BY <1>1, <1>2, WrittenTyped
  <1>4. k_rx_cap \in Nat
    BY Constants
  <1>5. RecvTypeOK /\ Buffered
    <2>1. Len(rx) = 0 /\ 0 <= k_rx_cap /\ 0 \in 0..0 /\ 0 <= 0 /\ 0 \in Nat
      BY <1>1, <1>2, <1>4
    <2>2. sent \in Seq(Message) /\ rx \in Seq(Nat)
      BY <1>1, <1>2
    <2>3. Len(rx) <= k_rx_cap /\ off \in 0..Len(rx) /\ taken \in 0..arrived
          /\ arrived <= Len(stream) /\ from \in 0..Len(sent)
      BY <1>1, <1>3, <2>1
    <2>4. RecvTypeOK
      BY <1>1, <2>1, <2>2, <2>3 DEF RecvTypeOK
    <2>5. \A i \in 1..Len(rx) : FALSE
      BY <2>1
    <2>6. Buffered
      BY <1>1, <2>1, <2>5 DEF Buffered
    <2>7. QED
      BY <2>4, <2>6
  <1>6. CountsTell(0)
    <2>1. Meant(from, 0) = << >>
      BY <1>1, MeantNone
    <2>2. QED
      BY <1>1, <1>2, <1>3, <2>1, CountOfNone DEF CountsTell, Parsed
  <1>7. 0 \in from..Len(sent)
    BY <1>1, <1>3
  <1>8. QED
    BY <1>1, <1>5, <1>6, <1>7 DEF RecvInv

(* What the steps that leave the server's messages alone keep. *)
LEMMA SameSent ==
    ASSUME sent' = sent
    PROVE  /\ stream' = stream
           /\ \A k, at, f, o, g, b, i : Told(sent', i, k, at, f, o, g, b) <=> Told(sent, i, k, at, f, o, g, b)
  BY ValuesAre

LEMMA ServerWrites ==
    ASSUME RecvInv, NEW m \in Message, server_writes(m)
    PROVE  RecvInv'
  <1>1. /\ sent' = Append(sent, m)
        /\ UNCHANGED <<arrived, closed, taken, phase, state, rx, off, recv_pc, alive,
                       frames_in, own, foreign, samples_bad, from, clean>>
    BY DEF server_writes, counts
  <1>2. /\ sent \in Seq(Message) /\ rx \in Seq(Nat) /\ taken \in 0..arrived /\ arrived \in Nat
        /\ arrived <= Len(stream) /\ from \in 0..Len(sent) /\ off \in 0..Len(rx)
        /\ Len(rx) <= taken
    BY DEF RecvInv, RecvTypeOK, Buffered
  <1> PICK n, s : n = Len(sent) /\ s = Append(sent, m)
    OBVIOUS
  <1>3. /\ n \in Nat /\ s \in Seq(Message) /\ Len(s) = n + 1 /\ s[n + 1] = m
        /\ \A i \in 1..n : s[i] = sent[i]
    BY ONLY <1>2, n = Len(sent), s = Append(sent, m), m \in Message
  <1>4. stream = Written(n) /\ stream' = WrittenOf(s, n + 1)
    BY <1>1, <1>3, ValuesAre
  <1>5. stream' = stream \o Encode(m) /\ stream \in Seq(Nat) /\ Encode(m) \in Seq(Nat)
    <2>1. \A i \in 1..(n + 1) : Frames(s)[i] = Encode(s[i]) /\ Frames(s)[i] \in Seq(Nat)
      BY <1>3, FramesTyped
    <2>2. n + 1 \in 1..(n + 1) /\ \A i \in 1..n : i \in 1..(n + 1)
      BY <1>3
    <2>3. Upto(Frames(s), n + 1) = Upto(Frames(s), n) \o Frames(s)[n + 1]
      BY <1>3, <2>1, UptoStep
    <2>4. Upto(Frames(s), n + 1) = WrittenOf(s, n + 1)
      <3>1. [i \in 1..(n + 1) |-> Frames(s)[i]] = [i \in 1..(n + 1) |-> Encode(s[i])]
        BY <2>1
      <3>2. QED
        BY <3>1 DEF Upto, WrittenOf
    <2>5. Upto(Frames(s), n) = Written(n)
      <3>1. [i \in 1..n |-> Frames(s)[i]] = [i \in 1..n |-> Encode(sent[i])]
        BY <1>3, <2>1, <2>2
      <3>2. QED
        BY <3>1 DEF Upto, Written
    <2>6. Frames(s)[n + 1] = Encode(m)
      BY <1>3, <2>1, <2>2
    <2>7. stream \in Seq(Nat) /\ Encode(m) \in Seq(Nat)
      BY <1>2, WrittenTyped, EncodeIs
    <2>8. QED
      BY <1>4, <2>3, <2>4, <2>5, <2>6, <2>7
  <1> PICK a, b : a = stream /\ b = stream'
    OBVIOUS
  <1>6. /\ Len(a) \in Nat /\ Len(b) \in Nat /\ Len(a) <= Len(b)
        /\ \A i \in 1..Len(a) : b[i] = a[i]
    <2> PICK c : c = Encode(m)
      OBVIOUS
    <2>1. b = a \o c /\ a \in Seq(Nat) /\ c \in Seq(Nat)
      BY <1>5
    <2>2. QED
      BY ONLY <2>1
  <1>7. RecvTypeOK'
    <2>1. Len(sent') = n + 1 /\ sent' \in Seq(Message) /\ from \in 0..(n + 1)
      BY <1>1, <1>2, <1>3
    <2>2. arrived <= Len(stream')
      <3>1. arrived \in Nat /\ arrived <= Len(a)
        BY <1>2
      <3>2. arrived <= Len(b)
        BY ONLY <1>6, <3>1
      <3>3. QED
        BY <3>2
    <2>3. RecvTypeOK
      BY DEF RecvInv
    <2>4. QED
      BY <1>1, <2>1, <2>2, <2>3 DEF RecvTypeOK
  <1>8. Buffered'
    <2>1. \A i \in 1..Len(rx) : rx[i] = a[taken - Len(rx) + i]
      BY DEF RecvInv, Buffered
    <2>2. \A i \in 1..Len(rx) : taken - Len(rx) + i \in 1..Len(a)
      <3> PICK l : l = Len(rx)
        OBVIOUS
      <3>1. l \in Nat /\ taken \in 0..arrived /\ arrived \in Nat /\ arrived <= Len(a) /\ l <= taken
        BY <1>2
      <3>2. \A i \in 1..l : taken - l + i \in 1..Len(a)
        BY ONLY <1>6, <3>1
      <3>3. QED
        BY <3>2
    <2>3. \A i \in 1..Len(rx) : rx[i] = b[taken - Len(rx) + i]
      BY <1>6, <2>1, <2>2
    <2>4. QED
      BY <1>1, <1>2, <2>3 DEF Buffered
  <1>9. ASSUME clean' PROVE \E k \in from'..Len(sent') : CountsTell(k)'
    <2>1. PICK k \in from..Len(sent) : CountsTell(k)
      BY <1>1, <1>9 DEF RecvInv
    <2>2. k \in 0..n /\ from \in 0..n /\ k \in from'..Len(sent')
      BY <1>1, <1>2, <1>3
    <2>3. Told(sent, from, k, taken - Len(rx) + off, frames_in, own, foreign, samples_bad)
      BY <2>1, ValuesAre
    <2>4. WrittenOf(s, k) = WrittenOf(sent, k)
      <3>1. \A i \in 1..k : i \in 1..n
        BY <1>3, <2>2
      <3>2. [i \in 1..k |-> Encode(s[i])] = [i \in 1..k |-> Encode(sent[i])]
        BY <1>3, <3>1
      <3>3. QED
        BY <3>2 DEF WrittenOf
    <2>5. MeantOf(s, from, k) = MeantOf(sent, from, k)
      <3>1. \A j \in 1..(k - from) : from + j \in 1..n
        BY <1>3, <2>2
      <3>2. [j \in 1..(k - from) |-> Deliveries(s[from + j])]
              = [j \in 1..(k - from) |-> Deliveries(sent[from + j])]
        BY <1>3, <3>1
      <3>3. QED
        BY <3>2 DEF MeantOf
    <2>6. Told(s, from, k, taken - Len(rx) + off, frames_in, own, foreign, samples_bad)
      BY <2>3, <2>4, <2>5 DEF Told
    <2>7. CountsTell(k)'
      BY <1>1, <2>6, ValuesNext
    <2>8. QED
      BY <2>2, <2>7
  <1>10. QED
    BY <1>1, <1>7, <1>8, <1>9 DEF RecvInv

(* The steps of the network. *)
LEMMA NetworkSteps ==
    ASSUME RecvInv, server_closes \/ \E n \in 1..Len(stream) : arrives(n)
    PROVE  RecvInv'
  <1>1. UNCHANGED <<sent, taken, phase, state, rx, off, recv_pc, alive,
                    frames_in, own, foreign, samples_bad, from, clean>>
    BY DEF server_closes, arrives, counts
  <1>2. stream' = stream
    BY <1>1, SameSent
  <1>3. sent \in Seq(Message) /\ arrived \in Nat /\ taken \in 0..arrived /\ arrived <= Len(stream)
    BY DEF RecvInv, RecvTypeOK
  <1>4. Len(stream) \in Nat
    BY <1>3, WrittenTyped
  <1>5. arrived' \in Nat /\ taken \in 0..arrived' /\ arrived' <= Len(stream) /\ closed' \in BOOLEAN
    <2>1. CASE server_closes
      BY <1>3, <2>1 DEF server_closes
    <2>2. CASE \E n \in 1..Len(stream) : arrives(n)
      <3>1. PICK n \in 1..Len(stream) : arrives(n)
        BY <2>2
      <3>2. arrived' = n /\ closed' = closed /\ n \in (arrived + 1)..Len(stream)
        BY <3>1 DEF arrives
      <3>3. closed \in BOOLEAN
        BY DEF RecvInv, RecvTypeOK
      <3> PICK c : c = Len(stream)
        OBVIOUS
      <3>4. n \in Nat /\ taken \in 0..n /\ n <= c
        <4>1. n \in (arrived + 1)..c /\ arrived \in Nat /\ taken \in 0..arrived /\ c \in Nat
          BY <1>3, <1>4, <3>2
        <4>2. QED
          BY ONLY <4>1
      <3>5. QED
        BY <3>2, <3>3, <3>4
    <2>3. QED
      BY <2>1, <2>2
  <1>6. RecvTypeOK'
    <2>1. RecvTypeOK
      BY DEF RecvInv
    <2>2. QED
      BY <1>1, <1>2, <1>5, <2>1 DEF RecvTypeOK
  <1>7. Buffered'
    <2>1. Buffered
      BY DEF RecvInv
    <2>2. QED
      BY <1>1, <1>2, <2>1 DEF Buffered
  <1>8. \A k : CountsTell(k)' <=> CountsTell(k)
    BY <1>1, ValuesAre, ValuesNext
  <1>9. QED
    BY <1>1, <1>6, <1>7, <1>8 DEF RecvInv

(* The phases begin and end between two calls.                             *)
LEMMA PhaseSteps ==
    ASSUME RecvInv, begin_traffic \/ advance
    PROVE  RecvInv'
  <1>1. UNCHANGED <<sent, arrived, closed, taken, state, off, recv_pc, alive,
                    frames_in, own, foreign, samples_bad, from, clean>>
    BY DEF begin_traffic, advance, counts
  <1>2. phase' \in {"connect", "traffic", "drain", "done"} /\ phase' # "connect"
    BY DEF begin_traffic, advance
  <1>3. rx' = rx
    BY DEF begin_traffic, advance, RecvInv
  <1>4. stream' = stream
    BY <1>1, SameSent
  <1>5. RecvTypeOK'
    <2>1. RecvTypeOK
      BY DEF RecvInv
    <2>2. QED
      BY <1>1, <1>2, <1>3, <1>4, <2>1 DEF RecvTypeOK
  <1>6. Buffered'
    <2>1. Buffered
      BY DEF RecvInv
    <2>2. QED
      BY <1>1, <1>3, <1>4, <2>1 DEF Buffered
  <1>7. \A k : CountsTell(k)' <=> CountsTell(k)
    BY <1>1, <1>3, ValuesAre, ValuesNext
  <1>8. QED
    BY <1>1, <1>2, <1>5, <1>6, <1>7 DEF RecvInv

LEMMA SmallerOfTwo ==
    ASSUME NEW a \in Int, NEW b \in Int
    PROVE  Min({a, b}) \in {a, b} /\ Min({a, b}) <= a /\ Min({a, b}) <= b
  <1>1. \E x \in {a, b} : \A y \in {a, b} : x <= y
    <2>1. a <= b \/ b <= a
      OBVIOUS
    <2>2. a <= a /\ b <= b
      OBVIOUS
    <2>3. QED
      BY <2>1, <2>2
  <1>2. Min({a, b}) = CHOOSE x \in {a, b} : \A y \in {a, b} : x <= y
    BY DEF Min
  <1>3. Min({a, b}) \in {a, b} /\ \A y \in {a, b} : Min({a, b}) <= y
    BY <1>1, <1>2
  <1>4. QED
    BY <1>3

(* One recv hands over the next bytes, as many as there is room for. *)
LEMMA ReceivedIs ==
    ASSUME RecvInv
    PROVE  /\ Received \in Seq(Nat) /\ Len(Received) \in Nat /\ Len(Received) <= room
           /\ taken + Len(Received) \in 0..arrived
           /\ \A i \in 1..Len(Received) : Received[i] = stream[taken + i]
  <1>1. /\ sent \in Seq(Message) /\ arrived \in Nat /\ taken \in 0..arrived /\ arrived <= Len(stream)
        /\ rx \in Seq(Nat) /\ Len(rx) <= k_rx_cap
    BY DEF RecvInv, RecvTypeOK
  <1>2. stream \in Seq(Nat) /\ Len(stream) \in Nat /\ Len(rx) \in Nat /\ k_rx_cap \in Nat
    <2>1. stream \in Seq(Nat)
      BY <1>1, WrittenTyped
    <2>2. QED
      BY <1>1, <2>1, Constants
  <1> PICK l, c, n : l = Len(rx) /\ c = Len(stream) /\ n = Min({room, arrived - taken})
    OBVIOUS
  <1>3. /\ l \in Nat /\ c \in Nat /\ k_rx_cap \in Nat /\ l <= k_rx_cap /\ arrived <= c
        /\ arrived \in Nat /\ taken \in 0..arrived /\ room = k_rx_cap - l
    BY <1>1, <1>2 DEF room
  <1>4. room \in Nat /\ arrived - taken \in Nat
    BY ONLY <1>3
  <1>5. n \in Nat /\ n <= room /\ n <= arrived - taken
    <2> PICK r, t : r = room /\ t = arrived - taken
      OBVIOUS
    <2>1. r \in Nat /\ t \in Nat /\ r \in Int /\ t \in Int
      BY <1>4
    <2>2. Min({r, t}) \in {r, t} /\ Min({r, t}) <= r /\ Min({r, t}) <= t
      BY ONLY <2>1, SmallerOfTwo
    <2>3. n = Min({r, t})
      OBVIOUS
    <2>4. n \in Nat /\ n <= r /\ n <= t
      BY ONLY <2>1, <2>2, <2>3
    <2>5. QED
      BY <2>4
  <1>6. /\ taken + 1 \in 1..(c + 1) /\ taken + n \in ((taken + 1) - 1)..c
        /\ (taken + n) - (taken + 1) + 1 = n /\ taken + n \in 0..arrived
        /\ \A i \in 1..n : (taken + 1) + i - 1 = taken + i
    BY ONLY <1>3, <1>5
  <1>7. Received = SubSeq(stream, taken + 1, taken + n)
    BY DEF Received
  <1> PICK s, a, b : s = stream /\ a = taken + 1 /\ b = taken + n
    OBVIOUS
  <1>8. s \in Seq(Nat) /\ a \in 1..(Len(s) + 1) /\ b \in (a - 1)..Len(s)
    BY <1>2, <1>6
  <1>9. /\ SubSeq(s, a, b) \in Seq(Nat) /\ Len(SubSeq(s, a, b)) = b - a + 1
        /\ \A i \in 1..(b - a + 1) : SubSeq(s, a, b)[i] = s[a + i - 1]
    BY ONLY <1>8, PieceOf
  <1>10. Received \in Seq(Nat) /\ Len(Received) = n /\ \A i \in 1..n : Received[i] = stream[taken + i]
    BY <1>6, <1>7, <1>9
  <1>11. QED
    BY <1>5, <1>6, <1>10

(* The connect phase drops whole frames, or stops being clean. *)
LEMMA Discards ==
    ASSUME RecvInv, discard
    PROVE  RecvInv'
  <1> DEFINE whole == {k \in 0..Len(sent) : Offset(k) = taken'}
  <1>1. /\ phase = "connect" /\ state = "ready"
        /\ taken' = taken + Len(Received) /\ rx' = << >>
        /\ state' \in {"ready", "dead"}
        /\ clean' = (clean /\ whole # {})
        /\ from' = IF whole = {} THEN from ELSE CHOOSE k \in whole : TRUE
        /\ UNCHANGED <<sent, arrived, closed, phase, off, recv_pc, alive,
                       frames_in, own, foreign, samples_bad>>
    BY DEF discard, counts
  <1>2. /\ sent \in Seq(Message) /\ arrived \in Nat /\ clean \in BOOLEAN /\ from \in 0..Len(sent)
        /\ rx = << >> /\ recv_pc = "idle" /\ off = 0
        /\ frames_in = 0 /\ samples_bad = 0 /\ own = 0 /\ foreign = 0
    BY <1>1 DEF RecvInv, RecvTypeOK
  <1>3. taken' \in 0..arrived
    BY <1>1, ReceivedIs
  <1>4. stream' = stream
    BY <1>1, SameSent
  <1>5. whole # {} => from' \in whole
    BY <1>1
  <1>6. from' \in 0..Len(sent) /\ clean' \in BOOLEAN
    BY <1>1, <1>2, <1>5
  <1>7. << >> \in Seq(Nat) /\ Len(<< >>) = 0 /\ k_rx_cap \in Nat
    BY Constants
  <1>8. RecvTypeOK'
    <2>1. Len(rx') <= k_rx_cap /\ off \in 0..Len(rx') /\ rx' \in Seq(Nat)
      BY <1>1, <1>2, <1>7
    <2>2. RecvTypeOK
      BY DEF RecvInv
    <2> HIDE DEF whole
    <2>3. QED
      BY <1>1, <1>3, <1>4, <1>6, <2>1, <2>2 DEF RecvTypeOK
  <1>9. Buffered'
    <2>1. Len(rx') = 0 /\ 0 <= taken' /\ \A i \in 1..0 : FALSE
      BY <1>1, <1>3, <1>7
    <2>2. QED
      BY <2>1 DEF Buffered
  <1>10. ASSUME clean' PROVE \E k \in from'..Len(sent') : CountsTell(k)'
    <2> PICK k : k = from'
      OBVIOUS
    <2>1. k \in 0..Len(sent) /\ Offset(k) = taken'
      BY <1>1, <1>5, <1>10
    <2>2. MeantOf(sent, k, k) = << >>
      BY <2>1, MeantNone, ValuesAre
    <2>3. taken' - Len(rx') + off' = taken'
      BY <1>1, <1>2, <1>3, <1>7
    <2>4. Told(sent, k, k, taken', frames_in, own, foreign, samples_bad)
      BY <1>2, <1>7, <2>1, <2>2, CountOfNone, ValuesAre DEF Told
    <2>5. CountsTell(k)'
      BY <1>1, <2>3, <2>4, ValuesNext
    <2>6. k \in from'..Len(sent')
      BY <1>1, <1>2, <2>1
    <2>7. QED
      BY <2>5, <2>6
  <1> HIDE DEF whole
  <1>11. QED
    BY <1>1, <1>2, <1>8, <1>9, <1>10 DEF RecvInv

(* A read adds to the slot, up to its capacity. *)
LEMMA Reads ==
    ASSUME RecvInv, read
    PROVE  RecvInv'
  <1>1. /\ phase \in {"traffic", "drain"} /\ recv_pc = "idle"
        /\ taken' = taken + Len(Received) /\ rx' = rx \o Received /\ off' = 0
        /\ alive' \in BOOLEAN /\ state' \in {"ready", "dead"} /\ recv_pc' \in {"idle", "consume"}
        /\ UNCHANGED <<sent, arrived, closed, phase, frames_in, own, foreign, samples_bad,
                       from, clean>>
    BY DEF read, counts, read_available, RecvInv, RecvTypeOK
  <1>2. /\ sent \in Seq(Message) /\ arrived \in Nat /\ taken \in 0..arrived /\ off = 0
        /\ rx \in Seq(Nat) /\ Len(rx) <= k_rx_cap /\ Len(rx) <= taken
        /\ \A i \in 1..Len(rx) : rx[i] = stream[taken - Len(rx) + i]
    BY <1>1 DEF RecvInv, RecvTypeOK, Buffered
  <1> PICK a, b, c, l, n : /\ a = rx /\ b = Received /\ c = rx' /\ l = Len(rx) /\ n = Len(Received)
    OBVIOUS
  <1>3. /\ a \in Seq(Nat) /\ b \in Seq(Nat) /\ c = a \o b /\ l = Len(a) /\ n = Len(b)
    BY <1>1, <1>2, ReceivedIs
  <1>4. /\ c \in Seq(Nat) /\ Len(c) = l + n /\ l \in Nat /\ n \in Nat
        /\ \A i \in 1..(l + n) : c[i] = IF i <= l THEN a[i] ELSE b[i - l]
    <2>1. /\ a \o b \in Seq(Nat) /\ Len(a \o b) = Len(a) + Len(b)
          /\ \A i \in 1..(Len(a) + Len(b)) : (a \o b)[i] = IF i <= Len(a) THEN a[i] ELSE b[i - Len(a)]
      <3>1. a \in Seq(Nat) /\ b \in Seq(Nat)
        BY <1>3
      <3>2. QED
        BY ONLY <3>1, ConcatProperties
    <2>2. Len(a) \in Nat /\ Len(b) \in Nat
      BY <1>3
    <2>3. QED
      BY ONLY <1>3, <2>1, <2>2
  <1>5. /\ n <= room /\ taken + n \in 0..arrived /\ room = k_rx_cap - l /\ k_rx_cap \in Nat
        /\ \A i \in 1..n : b[i] = stream[taken + i]
    BY ReceivedIs, Constants DEF room
  <1>6. Len(c) <= k_rx_cap /\ 0 \in 0..Len(c) /\ Len(c) <= taken + n
        /\ (taken + n) - Len(c) = taken - l /\ (taken + n) - Len(c) + 0 = taken - l + off
    <2>1. taken \in Nat /\ l <= taken
      BY <1>2
    <2>2. QED
      <3>1. /\ Len(c) = l + n /\ l \in Nat /\ n \in Nat /\ n <= room /\ room = k_rx_cap - l
            /\ k_rx_cap \in Nat /\ off = 0
        BY <1>2, <1>4, <1>5
      <3>2. QED
        BY ONLY <2>1, <3>1
  <1>7. stream' = stream
    BY <1>1, SameSent
  <1>8. RecvTypeOK'
    <2>1. rx' \in Seq(Nat) /\ Len(rx') <= k_rx_cap /\ off' \in 0..Len(rx') /\ taken' \in 0..arrived
      BY <1>1, <1>4, <1>5, <1>6
    <2>2. RecvTypeOK
      BY DEF RecvInv
    <2>3. QED
      BY <1>1, <1>7, <2>1, <2>2 DEF RecvTypeOK
  <1>9. Buffered'
    <2>1. \A i \in 1..Len(c) : c[i] = stream[(taken + n) - Len(c) + i]
      <3> TAKE i \in 1..Len(c)
      <3>1. i \in 1..(l + n) /\ i \in Int /\ taken \in Nat
        BY <1>2, <1>4
      <3>2. CASE i <= l
        <4>1. i \in 1..l
          BY <1>4, <3>1, <3>2
        <4>2. c[i] = a[i] /\ a[i] = stream[taken - l + i]
          BY <1>2, <1>4, <3>1, <3>2, <4>1
        <4>3. QED
          BY <1>6, <4>2
      <3>3. CASE ~(i <= l)
        <4>1. i - l \in 1..n /\ taken + (i - l) = taken - l + i
          BY ONLY <1>4, <3>1, <3>3
        <4>2. c[i] = b[i - l]
          BY <1>4, <3>1, <3>3
        <4>3. b[i - l] = stream[taken + (i - l)]
          BY <1>5, <4>1
        <4>4. QED
          BY <1>6, <4>1, <4>2, <4>3
      <3>4. QED
        BY <3>2, <3>3
    <2>2. QED
      BY <1>1, <1>6, <1>7, <2>1 DEF Buffered
  <1>10. \A k : CountsTell(k)' <=> CountsTell(k)
    <2>1. taken' - Len(rx') + off' = taken - Len(rx) + off
      BY <1>1, <1>6
    <2>2. QED
      BY <1>1, <2>1, ValuesAre, ValuesNext
  <1>11. QED
    BY <1>1, <1>2, <1>8, <1>9, <1>10 DEF RecvInv

(* A whole frame: its deliveries are counted, and off moves past it.       *)
ConsumeFrame ==
    LET p == SubSeq(rx, off + 2 + 1, off + 2 + payload_len(raw))
        t == rx[off + 2]
    IN  /\ frames_in' = frames_in + FramesIn(p, t)
        /\ own' = own + Count(Result(p, t), "own")
        /\ foreign' = foreign + Count(Result(p, t), "foreign")
        /\ samples_bad' = samples_bad + Count(Result(p, t), "bad") + CutIn(p, t)
        /\ off' = off + 2 + Len(p)

LEMMA ConsumesFrame ==
    ASSUME consume_frame
    PROVE  /\ recv_pc = "consume" /\ ConsumeFrame
           /\ Len(rx) - off >= 2 /\ ~Malformed(raw) /\ Len(rx) - off >= 2 + payload_len(raw)
           /\ UNCHANGED <<sent, arrived, closed, taken, phase, state, rx, recv_pc, alive,
                          from, clean>>
  BY DEF consume_frame, ConsumeFrame, FrameComplete, k_header_size, FramesIn, Result, CutIn

LEMMA FrameSteps ==
    ASSUME RecvInv, consume_frame
    PROVE  RecvInv'
  <1> PICK p, t, n : /\ p = SubSeq(rx, off + 2 + 1, off + 2 + payload_len(raw))
                     /\ t = rx[off + 2] /\ n = payload_len(raw)
    OBVIOUS
  <1>1. /\ recv_pc = "consume" /\ Len(rx) - off >= 2 /\ ~Malformed(raw) /\ Len(rx) - off >= 2 + n
        /\ frames_in' = frames_in + FramesIn(p, t)
        /\ own' = own + Count(Result(p, t), "own")
        /\ foreign' = foreign + Count(Result(p, t), "foreign")
        /\ samples_bad' = samples_bad + Count(Result(p, t), "bad") + CutIn(p, t)
        /\ off' = off + 2 + Len(p)
        /\ UNCHANGED <<sent, arrived, closed, taken, phase, state, rx, recv_pc, alive,
                       from, clean>>
    BY ConsumesFrame DEF ConsumeFrame
  <1>2. /\ sent \in Seq(Message) /\ rx \in Seq(Nat) /\ off \in 0..Len(rx) /\ taken \in 0..arrived
        /\ arrived \in Nat /\ from \in 0..Len(sent) /\ Len(rx) <= taken
        /\ frames_in \in Nat /\ own \in Nat /\ foreign \in Nat /\ samples_bad \in Nat
    BY DEF RecvInv, RecvTypeOK, Buffered
  <1>3. n \in Nat
    <2>1. off + 1 \in 1..Len(rx)
      <3> PICK l : l = Len(rx)
        OBVIOUS
      <3>1. l \in Nat /\ off \in 0..l /\ l - off >= 2
        BY <1>1, <1>2
      <3>2. off + 1 \in 1..l
        BY ONLY <3>1
      <3>3. QED
        BY <3>2
    <2>2. raw \in Nat
      BY <1>2, <2>1 DEF raw
    <2>3. QED
      BY <1>1, <2>2 DEF payload_len, Malformed, k_header_size
  <1>4. p \in Seq(Nat) /\ Len(p) = n /\ off + 2 + n \in 0..Len(rx)
    <2> PICK l, a, b : l = Len(rx) /\ a = off + 2 + 1 /\ b = off + 2 + n
      OBVIOUS
    <2>1. l \in Nat /\ off \in 0..l /\ l - off >= 2 + n
      BY <1>1, <1>2
    <2>2. a \in 1..(l + 1) /\ b \in (a - 1)..l /\ b - a + 1 = n /\ off + 2 + n \in 0..l
      BY ONLY <1>3, <2>1, a = off + 2 + 1, b = off + 2 + n
    <2>3. rx \in Seq(Nat) /\ a \in 1..(Len(rx) + 1) /\ b \in (a - 1)..Len(rx)
      BY <1>2, <2>2
    <2>4. SubSeq(rx, a, b) \in Seq(Nat) /\ Len(SubSeq(rx, a, b)) = b - a + 1
      BY ONLY <2>3, PieceOf
    <2>5. QED
      BY <2>2, <2>4
  <1>5. /\ FramesIn(p, t) \in Nat /\ CutIn(p, t) \in Nat
        /\ Count(Result(p, t), "own") \in Nat /\ Count(Result(p, t), "foreign") \in Nat
        /\ Count(Result(p, t), "bad") \in Nat
    BY <1>4, ResultTyped
  <1>6. stream' = stream
    BY <1>1, SameSent
  <1>7. RecvTypeOK'
    <2>1. frames_in' \in Nat /\ own' \in Nat /\ foreign' \in Nat /\ samples_bad' \in Nat
      <3> PICK a, b, c, d, e : /\ a = FramesIn(p, t) /\ b = Count(Result(p, t), "own")
                               /\ c = Count(Result(p, t), "foreign")
                               /\ d = Count(Result(p, t), "bad") /\ e = CutIn(p, t)
        OBVIOUS
      <3>1. a \in Nat /\ b \in Nat /\ c \in Nat /\ d \in Nat /\ e \in Nat
        BY <1>5
      <3>2. /\ frames_in' = frames_in + a /\ own' = own + b /\ foreign' = foreign + c
            /\ samples_bad' = samples_bad + d + e
        BY <1>1
      <3>3. frames_in \in Nat /\ own \in Nat /\ foreign \in Nat /\ samples_bad \in Nat
        BY <1>2
      <3>4. QED
        BY ONLY <3>1, <3>2, <3>3
    <2>2. off' \in 0..Len(rx)
      BY <1>1, <1>4
    <2>3. RecvTypeOK
      BY DEF RecvInv
    <2>4. QED
      BY <1>1, <1>6, <2>1, <2>2, <2>3 DEF RecvTypeOK
  <1>8. Buffered'
    <2>1. Buffered
      BY DEF RecvInv
    <2>2. QED
      BY <1>1, <1>6, <2>1 DEF Buffered
  <1>9. ASSUME clean' PROVE \E k \in from'..Len(sent') : CountsTell(k)'
    <2>1. PICK k \in from..Len(sent) : CountsTell(k)
      BY <1>1, <1>9 DEF RecvInv
    <2> PICK m : m = sent[k + 1]
      OBVIOUS
    <2>2. /\ k \in 0..(Len(sent) - 1) /\ k \in from..(Len(sent) - 1) /\ m \in Message
          /\ n = Len(Payload(m)) /\ t = m.type /\ p = Payload(m)
      BY <1>1, <2>1, NextFrame
    <2> PICK x, y, d, at : /\ x = MeantOf(sent, from, k) /\ y = MeantOf(sent, from, k + 1)
                           /\ d = Deliveries(m) /\ at = taken - Len(rx) + off
      OBVIOUS
    <2>3. /\ Len(WrittenOf(sent, k)) = at /\ frames_in = Len(x) /\ samples_bad = 0
          /\ own = Count(x, "own") /\ foreign = Count(x, "foreign")
      BY <2>1, ValuesAre DEF Told
    <2>4. x \in Seq(Words) /\ y = x \o d /\ d \in Seq(Words)
      BY <1>2, <2>2, MeantNext, ValuesAre
    <2>5. /\ FramesIn(p, t) = Len(d) /\ Count(Result(p, t), "own") = Count(d, "own")
          /\ Count(Result(p, t), "foreign") = Count(d, "foreign")
          /\ Count(Result(p, t), "bad") = 0 /\ CutIn(p, t) = 0
      BY <2>2, ResultOfMessage
    <2>6. Len(y) = Len(x) + Len(d)
      BY ONLY <2>4
    <2>7. Count(y, "own") = Count(x, "own") + Count(d, "own")
          /\ Count(y, "foreign") = Count(x, "foreign") + Count(d, "foreign")
      <3>1. \A w : Count(x \o d, w) = Count(x, w) + Count(d, w)
        <4>1. x \in Seq(Words) /\ d \in Seq(Words)
          BY <2>4
        <4>2. QED
          BY ONLY <4>1, CountOfJoined
      <3>2. QED
        BY <2>4, <3>1
    <2>8. Len(WrittenOf(sent, k + 1)) = Len(WrittenOf(sent, k)) + 2 + n
      BY <1>2, <2>2, WrittenNext, ValuesAre
    <2>9. /\ frames_in' = Len(y) /\ own' = Count(y, "own") /\ foreign' = Count(y, "foreign")
      BY <1>1, <2>3, <2>5, <2>6, <2>7
    <2>10. samples_bad' = 0
      BY <1>1, <2>3, <2>5
    <2>11. Len(WrittenOf(sent, k + 1)) = taken' - Len(rx') + off'
      <3> PICK l, w : l = Len(rx) /\ w = Len(WrittenOf(sent, k))
        OBVIOUS
      <3>1. /\ l \in Nat /\ off \in Nat /\ taken \in Nat /\ n \in Nat /\ w = taken - l + off
            /\ off' = off + 2 + n
        <4>1. l \in Nat /\ off \in Nat
          BY <1>2
        <4>2. taken \in Nat
          BY <1>2
        <4>3. w = taken - l + off
          BY <2>3
        <4>4. off' = off + 2 + n
          BY <1>1, <1>4
        <4>5. QED
          BY <1>3, <4>1, <4>2, <4>3, <4>4
      <3>2. w + 2 + n = taken - l + off'
        BY ONLY <3>1
      <3>3. QED
        BY <1>1, <2>8, <3>2
    <2>12. Told(sent', from', k + 1, taken' - Len(rx') + off', frames_in', own', foreign', samples_bad')
      BY <1>1, <2>9, <2>10, <2>11 DEF Told
    <2>13. CountsTell(k + 1)'
      BY <2>12, ValuesNext
    <2>14. k + 1 \in from'..Len(sent')
      BY <1>1, <1>2, <2>2
    <2>15. QED
      BY <2>13, <2>14
  <1>10. phase # "connect"
    BY <1>1 DEF RecvInv
  <1>11. QED
    BY <1>1, <1>7, <1>8, <1>9, <1>10 DEF RecvInv

(* The rest of a frame moves to the front of the slot. *)
LEMMA RestSteps ==
    ASSUME RecvInv, consume_rest
    PROVE  RecvInv'
  <1>1. /\ recv_pc = "consume" /\ rx' = SubSeq(rx, off + 1, Len(rx)) /\ off' = 0
        /\ recv_pc' = "idle"
        /\ UNCHANGED <<sent, arrived, closed, taken, phase, alive, frames_in, own, foreign,
                       samples_bad, from, clean>>
    BY DEF consume_rest, FramesConsumed
  <1>2. /\ sent \in Seq(Message) /\ rx \in Seq(Nat) /\ off \in 0..Len(rx) /\ taken \in 0..arrived
        /\ arrived \in Nat /\ Len(rx) <= k_rx_cap /\ Len(rx) <= taken
        /\ \A i \in 1..Len(rx) : rx[i] = stream[taken - Len(rx) + i]
    BY DEF RecvInv, RecvTypeOK, Buffered
  <1>3. state' \in {"ready", "dead"}
    BY DEF consume_rest, FramesConsumed, RecvInv, RecvTypeOK
  <1> PICK l, a, q : l = Len(rx) /\ a = off + 1 /\ q = rx'
    OBVIOUS
  <1>4. /\ l \in Nat /\ a \in 1..(l + 1) /\ l \in (a - 1)..l /\ l - a + 1 = l - off
        /\ l - off \in Nat /\ l - off <= l /\ taken - (l - off) = taken - l + off
        /\ taken \in Nat /\ k_rx_cap \in Nat
        /\ \A i \in 1..(l - off) : /\ a + i - 1 \in 1..l
                                   /\ taken - l + (a + i - 1) = taken - (l - off) + i
    <2>1. l \in Nat /\ off \in 0..l /\ taken \in Nat /\ k_rx_cap \in Nat
      BY <1>2, Constants
    <2>2. QED
      BY ONLY <2>1, a = off + 1
  <1>5. q \in Seq(Nat) /\ Len(q) = l - off /\ \A i \in 1..(l - off) : q[i] = rx[a + i - 1]
    <2>1. rx \in Seq(Nat) /\ a \in 1..(Len(rx) + 1) /\ l \in (a - 1)..Len(rx)
      BY <1>2, <1>4
    <2>2. /\ SubSeq(rx, a, l) \in Seq(Nat) /\ Len(SubSeq(rx, a, l)) = l - a + 1
          /\ \A i \in 1..(l - a + 1) : SubSeq(rx, a, l)[i] = rx[a + i - 1]
      BY ONLY <2>1, PieceOf
    <2>3. q = SubSeq(rx, a, l)
      BY <1>1
    <2>4. QED
      BY <1>4, <2>2, <2>3
  <1>6. stream' = stream
    BY <1>1, SameSent
  <1>7. Len(q) <= k_rx_cap /\ Len(q) <= taken /\ 0 \in 0..Len(q)
    <2>1. l <= k_rx_cap /\ l <= taken
      BY <1>2
    <2>2. l - off <= k_rx_cap /\ l - off <= taken /\ 0 \in 0..(l - off)
      <3>1. l \in Nat /\ off \in 0..l /\ taken \in Nat /\ k_rx_cap \in Nat
        BY <1>2, <1>4
      <3>2. QED
        BY ONLY <2>1, <3>1
    <2>3. QED
      BY <1>5, <2>2
  <1>8. RecvTypeOK'
    <2>1. RecvTypeOK
      BY DEF RecvInv
    <2>2. QED
      BY <1>1, <1>3, <1>5, <1>6, <1>7, <2>1 DEF RecvTypeOK
  <1>9. Buffered'
    <2>1. \A i \in 1..Len(q) : q[i] = stream[taken - Len(q) + i]
      BY <1>2, <1>4, <1>5
    <2>2. QED
      BY <1>1, <1>6, <1>7, <2>1 DEF Buffered
  <1>10. \A k : CountsTell(k)' <=> CountsTell(k)
    <2>1. taken' - Len(rx') + off' = taken - Len(rx) + off
      <3>1. taken - (l - off) + 0 = taken - l + off
        <4>1. l \in Nat /\ off \in 0..l /\ taken \in Nat
          BY <1>2, <1>4
        <4>2. QED
          BY ONLY <4>1
      <3>2. QED
        BY <1>1, <1>5, <3>1
    <2>2. QED
      BY <1>1, <2>1, ValuesAre, ValuesNext
  <1>11. phase # "connect"
    BY <1>1 DEF RecvInv
  <1>12. QED
    BY <1>1, <1>8, <1>9, <1>10, <1>11 DEF RecvInv

(* A malformed length is met only where a frame was cut in two.            *)
LEMMA MalformedSteps ==
    ASSUME RecvInv, consume_malformed
    PROVE  RecvInv'
  <1>1. /\ recv_pc = "consume" /\ Len(rx) - off >= 2 /\ Malformed(raw)
        /\ rx' = << >> /\ samples_bad' = samples_bad + 1 /\ off' = 0 /\ recv_pc' = "idle"
        /\ UNCHANGED <<sent, arrived, closed, taken, phase, alive, frames_in, own, foreign,
                       from, clean>>
    BY DEF consume_malformed, FramesConsumed, MalformedNext, k_header_size
  <1>2. taken \in 0..arrived /\ arrived \in Nat /\ samples_bad \in Nat
    BY DEF RecvInv, RecvTypeOK
  <1>3. state' \in {"ready", "dead"}
    BY DEF consume_malformed, FramesConsumed, RecvInv, RecvTypeOK
  <1>4. ~clean
    <2>1. SUFFICES ASSUME clean PROVE FALSE
      OBVIOUS
    <2>2. PICK k \in from..Len(sent) : CountsTell(k)
      BY <2>1 DEF RecvInv
    <2>3. ~Malformed(raw)
      BY <1>1, <2>2, NextFrame
    <2>4. QED
      BY <1>1, <2>3
  <1>5. stream' = stream
    BY <1>1, SameSent
  <1>6. << >> \in Seq(Nat) /\ Len(<< >>) = 0 /\ k_rx_cap \in Nat /\ 0 <= taken /\ 0 \in 0..0
    BY <1>2, Constants
  <1>7. RecvTypeOK'
    <2>1. Len(rx') <= k_rx_cap /\ off' \in 0..Len(rx') /\ rx' \in Seq(Nat) /\ samples_bad' \in Nat
      BY <1>1, <1>2, <1>6
    <2>2. RecvTypeOK
      BY DEF RecvInv
    <2>3. QED
      BY <1>1, <1>3, <1>5, <2>1, <2>2 DEF RecvTypeOK
  <1>8. Buffered'
    <2>1. Len(rx') = 0 /\ Len(rx') <= taken' /\ \A i \in 1..0 : FALSE
      BY <1>1, <1>6
    <2>2. QED
      BY <2>1 DEF Buffered
  <1>9. phase # "connect"
    BY <1>1 DEF RecvInv
  <1>10. QED
    BY <1>1, <1>4, <1>7, <1>8, <1>9 DEF RecvInv

LEMMA RecvSteps == RecvInv /\ [RecvNext]_recv_vars => RecvInv'
  <1> SUFFICES ASSUME RecvInv, [RecvNext]_recv_vars PROVE RecvInv'
    OBVIOUS
  <1>1. CASE \E m \in Message : server_writes(m)
    BY <1>1, ServerWrites
  <1>2. CASE server_closes \/ \E n \in 1..Len(stream) : arrives(n)
    BY <1>2, NetworkSteps
  <1>3. CASE begin_traffic \/ advance
    BY <1>3, PhaseSteps
  <1>4. CASE discard
    BY <1>4, Discards
  <1>5. CASE read
    BY <1>5, Reads
  <1>6. CASE consume_frame
    BY <1>6, FrameSteps
  <1>7. CASE consume_rest
    BY <1>7, RestSteps
  <1>8. CASE consume_malformed
    BY <1>8, MalformedSteps
  <1>9. CASE UNCHANGED recv_vars
    BY <1>9 DEF recv_vars, counts, RecvInv, RecvTypeOK, Buffered, CountsTell, Offset, Written, stream,
                Parsed, Meant
  <1>10. QED
    BY <1>1, <1>2, <1>3, <1>4, <1>5, <1>6, <1>7, <1>8, <1>9 DEF RecvNext

(* Every connection of the load generator keeps its buffer to the bytes it *)
(* read, and, unless the connect phase cut a frame in two, its counters to *)
(* the deliveries of the frames it is past.  LoadgenRecv.tla,              *)
(* client-bench/src/traffic.cpp consume_frames, netutil.cpp read_available.*)
THEOREM RecvInvariant == RecvSpec => []RecvInv
  <1>1. RecvInit => RecvInv
    BY RecvInitHolds
  <1>2. RecvInv /\ [RecvNext]_recv_vars => RecvInv'
    BY RecvSteps
  <1>3. QED
    BY <1>1, <1>2, PTL DEF RecvSpec

(* Whatever way TCP cuts the stream and the reads fill the slot, after any *)
(* whole number of frames the counters are those of the messages the       *)
(* server sent since the connect phase: each delivery once, inside a tick  *)
(* frame or out of it, and none of them malformed.  traffic.cpp            *)
(* consume_frames, on_tick_out, sample.                                    *)
THEOREM CountsAreExact == RecvSpec => []CountsExact
  <1>1. RecvInv => CountsExact
    <2> SUFFICES ASSUME RecvInv, clean, NEW k \in from..Len(sent), phase # "connect",
                        Offset(k) = Parsed
                 PROVE  LET m == Meant(from, k)
                        IN  /\ frames_in = Len(m)
                            /\ own = Count(m, "own")
                            /\ foreign = Count(m, "foreign")
                            /\ samples_bad = 0
      BY DEF CountsExact
    <2>1. sent \in Seq(Message) /\ from \in 0..Len(sent)
      BY DEF RecvInv, RecvTypeOK
    <2>2. PICK j \in from..Len(sent) : CountsTell(j)
      BY DEF RecvInv
    <2>3. Len(sent) \in Nat
      BY <2>1
    <2>4. k \in 0..Len(sent) /\ j \in 0..Len(sent)
      BY <2>1, <2>3
    <2>5. Offset(j) = Offset(k)
      BY <2>2 DEF CountsTell
    <2>6. j = k
      BY <2>1, <2>4, <2>5, OffsetsDiffer
    <2>7. QED
      BY <2>2, <2>6 DEF CountsTell
  <1>2. QED
    BY <1>1, RecvInvariant, PTL

-----------------------------------------------------------------------------
(* CstrHashMap implements KeyMap.  What find shows of a table is read off  *)
(* the set of its entries, and each operation is what it does to that set. *)

(* The doublings of 1 up to the n-th.                                      *)
Doubles(f, n) == f = [i \in 0..n |-> IF i = 0 THEN 1 ELSE 2 * f[i - 1]]

LEMMA DoublesIs ==
    \A f, n : Doubles(f, n) => \A i \in 0..n : f[i] = IF i = 0 THEN 1 ELSE 2 * f[i - 1]
  <1> TAKE f, n
  <1>1. SUFFICES ASSUME f = [i \in 0..n |-> IF i = 0 THEN 1 ELSE 2 * f[i - 1]], NEW j \in 0..n
                 PROVE  f[j] = IF j = 0 THEN 1 ELSE 2 * f[j - 1]
    BY DEF Doubles
  <1> PICK g : g = [i \in 0..n |-> IF i = 0 THEN 1 ELSE 2 * f[i - 1]]
    OBVIOUS
  <1>2. g[j] = IF j = 0 THEN 1 ELSE 2 * f[j - 1]
    BY ONLY j \in 0..n, g = [i \in 0..n |-> IF i = 0 THEN 1 ELSE 2 * f[i - 1]]
  <1>3. f = g
    BY <1>1, Zenon
  <1>4. QED
    BY ONLY <1>2, <1>3

LEMMA DoublesExist == ASSUME NEW n \in Nat PROVE \E f : Doubles(f, n)
  <1> DEFINE T == {m \in Nat : \E f : Doubles(f, m)}
  <1>1. 0 \in T
    <2> PICK f : f = [i \in 0..0 |-> 1]
      OBVIOUS
    <2>1. \A i \in 0..0 : i = 0
      OBVIOUS
    <2>2. f = [i \in 0..0 |-> IF i = 0 THEN 1 ELSE 2 * f[i - 1]]
      BY <2>1
    <2>3. Doubles(f, 0)
      BY <2>2, Zenon DEF Doubles
    <2>4. QED
      BY <2>3
  <1>2. ASSUME NEW m \in T \cap Nat PROVE m + 1 \in T
    <2>1. PICK f : Doubles(f, m)
      OBVIOUS
    <2>2. \A i \in 0..m : f[i] = IF i = 0 THEN 1 ELSE 2 * f[i - 1]
      BY <2>1, DoublesIs
    <2> PICK g : g = [i \in 0..(m + 1) |-> IF i = 0 THEN 1 ELSE 2 * f[i - 1]]
      OBVIOUS
    <2>3. \A i \in 0..(m + 1) : i # 0 => g[i - 1] = f[i - 1]
      <3>1. m \in Nat
        OBVIOUS
      <3>2. \A i \in 0..(m + 1) : i # 0 => i - 1 \in 0..m /\ i - 1 \in 0..(m + 1)
        BY ONLY <3>1
      <3>3. \A j \in 0..m : j \in 0..(m + 1)
        BY ONLY <3>1
      <3>4. \A j \in 0..(m + 1) : g[j] = IF j = 0 THEN 1 ELSE 2 * f[j - 1]
        OBVIOUS
      <3>5. \A j \in 0..m : g[j] = f[j]
        BY ONLY <2>2, <3>3, <3>4
      <3>6. QED
        BY ONLY <3>2, <3>5
    <2>4. g = [i \in 0..(m + 1) |-> IF i = 0 THEN 1 ELSE 2 * g[i - 1]]
      BY ONLY <2>3, g = [i \in 0..(m + 1) |-> IF i = 0 THEN 1 ELSE 2 * f[i - 1]]
    <2>5. Doubles(g, m + 1)
      BY ONLY <2>4, Zenon DEF Doubles
    <2>6. m + 1 \in Nat
      OBVIOUS
    <2>7. QED
      BY <2>5, <2>6
  <1>3. Nat \subseteq T
    <2> HIDE DEF T
    <2>1. QED
      BY <1>1, <1>2, SetInduction
  <1>4. QED
    BY <1>3

(* They pass n.                                                            *)
LEMMA DoublesPass ==
    ASSUME NEW n \in Nat, NEW f, Doubles(f, n)
    PROVE  \A i \in 0..n : f[i] \in Nat /\ i < f[i]
  <1> DEFINE T == {m \in Nat : m <= n => f[m] \in Nat /\ m < f[m]}
  <1>1. \A i \in 0..n : f[i] = IF i = 0 THEN 1 ELSE 2 * f[i - 1]
    BY DoublesIs
  <1>2. 0 \in T
    BY <1>1
  <1>3. ASSUME NEW m \in T \cap Nat PROVE m + 1 \in T
    <2>1. SUFFICES ASSUME m + 1 <= n PROVE f[m + 1] \in Nat /\ m + 1 < f[m + 1]
      OBVIOUS
    <2>2. m <= n /\ m + 1 \in 0..n /\ m + 1 # 0 /\ (m + 1) - 1 = m
      BY <2>1
    <2>3. f[m] \in Nat /\ m < f[m]
      BY <2>2
    <2>4. f[m + 1] = 2 * f[m]
      BY <1>1, <2>2
    <2> PICK w : w = f[m]
      OBVIOUS
    <2>5. w \in Nat /\ m < w => 2 * w \in Nat /\ m + 1 < 2 * w
      OBVIOUS
    <2>6. QED
      BY <2>3, <2>4, <2>5
  <1>4. Nat \subseteq T
    <2> HIDE DEF T
    <2>1. QED
      BY <1>2, <1>3, SetInduction
  <1>5. QED
    BY <1>4

(* next_power_of_two returns a capacity no smaller than what it is given.  *)
LEMMA NextPower ==
    ASSUME NEW n \in Nat
    PROVE  next_power_of_two(n) \in Nat \ {0} /\ next_power_of_two(n) >= n
  <1> PICK f : f = CHOOSE h : Doubles(h, n)
    OBVIOUS
  <1>1. Doubles(f, n)
    BY DoublesExist
  <1> DEFINE P == {p \in {f[i] : i \in 0..n} : p >= n}
  <1>2. next_power_of_two(n) = Min(P)
    BY DEF next_power_of_two, Doubles
  <1>3. \A i \in 0..n : f[i] \in Nat /\ i < f[i]
    BY <1>1, DoublesPass
  <1>4. P \subseteq Nat \ {0}
    BY <1>3
  <1>5. P # {}
    <2>1. n \in 0..n
      OBVIOUS
    <2>2. f[n] \in Nat /\ f[n] >= n
      BY <1>3, <2>1
    <2>3. QED
      BY <2>1, <2>2
  <1>6. \A p \in P : p >= n
    OBVIOUS
  <1> HIDE DEF P
  <1>7. \E x \in P : \A y \in P : x =< y
    BY <1>4, <1>5, LeastNat
  <1>8. Min(P) \in P
    BY <1>7 DEF Min
  <1>9. QED
    BY <1>2, <1>4, <1>6, <1>8

-----------------------------------------------------------------------------
(* The entries of a table, and the map a set of entries shows.             *)
Held(t) == {e \in Entry : \E i \in DOMAIN t : \E x \in 1..Len(t[i]) : e = t[i][x]}

Once(H) == \A e, d \in H : e.key = d.key => e = d

Shown(H) == [k \in {e.key : e \in H} |-> (CHOOSE e \in H : e.key = k).value]

LEMMA ShownIs ==
    ASSUME NEW H, H \subseteq Entry, Once(H), NEW e \in H
    PROVE  e.key \in DOMAIN Shown(H) /\ Shown(H)[e.key] = e.value
  <1>1. (CHOOSE d \in H : d.key = e.key) = e
    BY DEF Once
  <1>2. QED
    BY <1>1 DEF Shown

LEMMA PutShows ==
    ASSUME NEW H, H \subseteq Entry, Once(H), NEW k \in Key, NEW v \in Value, NEW G,
           G = {e \in H : e.key # k} \cup {[key |-> k, value |-> v]}
    PROVE  /\ G \subseteq Entry /\ Once(G)
           /\ Shown(G) = [j \in DOMAIN Shown(H) \cup {k} |->
                             IF j = k THEN v ELSE Shown(H)[j]]
  <1> PICK n : n = [key |-> k, value |-> v]
    OBVIOUS
  <1> DEFINE f == [j \in DOMAIN Shown(H) \cup {k} |-> IF j = k THEN v ELSE Shown(H)[j]]
  <1>1. n \in Entry /\ n.key = k /\ n.value = v
    BY DEF Entry
  <1> HIDE DEF f
  <1>2. \A e : e \in G <=> (e \in H /\ e.key # k) \/ e = n
    OBVIOUS
  <1>3. G \subseteq Entry /\ Once(G)
    <2>1. G \subseteq Entry
      BY ONLY <1>1, <1>2, H \subseteq Entry
    <2>2. \A e, d \in G : e.key = d.key => e = d
      BY ONLY <1>1, <1>2, Once(H) DEF Once
    <2>3. QED
      BY <2>1, <2>2 DEF Once
  <1>4. {e.key : e \in G} = {e.key : e \in H} \cup {k}
    BY ONLY <1>1, <1>2
  <1>5. ASSUME NEW e \in G PROVE Shown(G)[e.key] = f[e.key]
    <2>1. Shown(G)[e.key] = e.value
      BY <1>3, ShownIs
    <2>2. e.key \in DOMAIN Shown(H) \cup {k}
      BY <1>4 DEF Shown
    <2>3. f[e.key] = IF e.key = k THEN v ELSE Shown(H)[e.key]
      BY <2>2 DEF f
    <2>4. CASE e = n
      BY <1>1, <2>1, <2>3, <2>4
    <2>5. CASE e \in H /\ e.key # k
      <3>1. Shown(H)[e.key] = e.value
        BY <2>5, ShownIs
      <3>2. QED
        BY <2>1, <2>3, <2>5, <3>1
    <2>6. QED
      BY <1>2, <2>4, <2>5
  <1>6. DOMAIN Shown(G) = DOMAIN f
    BY <1>4 DEF Shown, f
  <1>7. \A j \in DOMAIN f : Shown(G)[j] = f[j]
    <2>1. \A j \in DOMAIN f : \E e \in G : j = e.key
      BY <1>6 DEF Shown
    <2>2. QED
      BY <1>5, <2>1
  <1>8. Shown(G) = f
    <2>1. Shown(G) = [j \in DOMAIN Shown(G) |-> Shown(G)[j]]
      BY DEF Shown
    <2>2. f = [j \in DOMAIN f |-> f[j]]
      BY DEF f
    <2>3. QED
      BY <1>6, <1>7, <2>1, <2>2
  <1>9. QED
    BY <1>3, <1>8 DEF f

LEMMA RemoveShows ==
    ASSUME NEW H, H \subseteq Entry, Once(H), NEW k, NEW G, G = {e \in H : e.key # k}
    PROVE  /\ G \subseteq Entry /\ Once(G)
           /\ Shown(G) = [j \in DOMAIN Shown(H) \ {k} |-> Shown(H)[j]]
  <1> DEFINE f == [j \in DOMAIN Shown(H) \ {k} |-> Shown(H)[j]]
  <1>1. G \subseteq Entry /\ Once(G)
    BY DEF Once
  <1>2. {e.key : e \in G} = {e.key : e \in H} \ {k}
    OBVIOUS
  <1>3. ASSUME NEW e \in G PROVE Shown(G)[e.key] = f[e.key]
    <2>1. Shown(G)[e.key] = e.value
      BY <1>1, ShownIs
    <2>2. Shown(H)[e.key] = e.value
      BY ShownIs
    <2>3. e.key \in DOMAIN Shown(H) \ {k}
      BY <1>2 DEF Shown
    <2>4. QED
      BY <2>1, <2>2, <2>3
  <1>4. DOMAIN Shown(G) = DOMAIN f
    BY <1>2 DEF Shown
  <1>5. \A j \in DOMAIN f : Shown(G)[j] = f[j]
    <2> HIDE DEF f
    <2>1. \A j \in DOMAIN f : \E e \in G : j = e.key
      BY <1>4 DEF Shown
    <2>2. QED
      BY <1>3, <2>1
  <1>6. Shown(G) = f
    <2>1. Shown(G) = [j \in DOMAIN Shown(G) |-> Shown(G)[j]]
      BY DEF Shown
    <2>2. f = [j \in DOMAIN f |-> f[j]]
      OBVIOUS
    <2> HIDE DEF f
    <2>3. QED
      BY <1>4, <1>5, <2>1, <2>2
  <1>7. QED
    BY <1>1, <1>6

LEMMA CapIs ==
    ASSUME NEW cap \in Nat, NEW S, NEW t \in [0..(cap - 1) -> S]
    PROVE  Cardinality(DOMAIN t) = cap /\ DOMAIN t = 0..(cap - 1)
  <1>1. DOMAIN t = 0..(cap - 1)
    OBVIOUS
  <1>2. Cardinality(0..(cap - 1)) = cap
    BY FS_Interval
  <1>3. QED
    BY <1>1, <1>2

LEMMA IndexIs ==
    ASSUME NEW cap \in Nat \ {0}, NEW k \in Key
    PROVE  bucket_index(k, cap) \in 0..(cap - 1)
  <1>1. Hash[k] \in Nat
    BY MapAssumption
  <1> PICK h \in Nat : h = Hash[k]
    BY <1>1
  <1>2. h % cap \in 0..(cap - 1)
    OBVIOUS
  <1>3. QED
    BY <1>2 DEF bucket_index

(* Where an entry of a table is. *)
Sits(t, cap, e) ==
    LET i == bucket_index(e.key, cap)
    IN  cap # 0 /\ i \in 0..(cap - 1) /\ \E x \in 1..Len(t[i]) : e = t[i][x]

LEMMA HeldIs ==
    ASSUME NEW cap \in Nat, NEW t, Chained(t, cap)
    PROVE  /\ Held(t) \subseteq Entry /\ Once(Held(t))
           /\ \A i \in 0..(cap - 1) : \A x \in 1..Len(t[i]) : t[i][x] \in Held(t)
           /\ \A e \in Held(t) : Sits(t, cap, e)
  <1>1. t \in [0..(cap - 1) -> Seq(Entry)] /\ DOMAIN t = 0..(cap - 1)
    BY DEF Chained
  <1>2. \A i \in 0..(cap - 1) : \A x \in 1..Len(t[i]) : t[i][x] \in Entry
    <2> TAKE i \in 0..(cap - 1)
    <2>1. t[i] \in Seq(Entry)
      BY <1>1
    <2>2. QED
      BY <2>1
  <1>3. \A i \in 0..(cap - 1) : \A x \in 1..Len(t[i]) : t[i][x] \in Held(t)
    BY <1>1, <1>2 DEF Held
  <1>4. ASSUME NEW e \in Held(t) PROVE Sits(t, cap, e)
    <2> PICK i \in 0..(cap - 1) : \E x \in 1..Len(t[i]) : e = t[i][x]
      BY <1>1 DEF Held
    <2>1. PICK x \in 1..Len(t[i]) : e = t[i][x]
      OBVIOUS
    <2>2. bucket_index(e.key, cap) = i
      BY <2>1 DEF Chained
    <2>3. cap # 0
      OBVIOUS
    <2>4. QED
      BY <2>1, <2>2, <2>3 DEF Sits
  <1>5. ASSUME NEW e \in Held(t), NEW d \in Held(t), e.key = d.key PROVE e = d
    <2> PICK i : i = bucket_index(e.key, cap)
      OBVIOUS
    <2>1. PICK x \in 1..Len(t[i]) : e = t[i][x]
      BY <1>4 DEF Sits
    <2>2. PICK y \in 1..Len(t[i]) : d = t[i][y]
      BY <1>4, <1>5 DEF Sits
    <2>3. i \in 0..(cap - 1)
      BY <1>4 DEF Sits
    <2>4. x = y
      BY <1>5, <2>1, <2>2, <2>3 DEF Chained
    <2>5. QED
      BY <2>1, <2>2, <2>4
  <1>6. Once(Held(t))
    BY <1>5 DEF Once
  <1>7. Held(t) \subseteq Entry
    BY DEF Held
  <1>8. QED
    BY <1>3, <1>4, <1>6, <1>7

(* What a search of the chain returns.                                     *)
LEMMA Search ==
    ASSUME NEW cap \in Nat, NEW t, Chained(t, cap), NEW k \in Key
    PROVE  LET i == bucket_index(k, cap)
           IN  IF \E e \in Held(t) : e.key = k
               THEN /\ cap # 0 /\ i \in 0..(cap - 1)
                    /\ Position(t, k) \in 1..Len(t[i])
                    /\ t[i][Position(t, k)].key = k
               ELSE Position(t, k) = 0
  <1> DEFINE i == bucket_index(k, cap)
             I == {x \in 1..Len(t[i]) : t[i][x].key = k}
  <1>1. Cardinality(DOMAIN t) = cap
    BY CapIs DEF Chained
  <1>2. CASE cap = 0
    <2>1. Position(t, k) = 0
      BY <1>1, <1>2 DEF Position
    <2>2. QED
      BY <1>2, <2>1, HeldIs DEF Sits
  <1>3. CASE cap # 0
    <2>1. Position(t, k) = IF I # {} THEN Min(I) ELSE 0
      BY <1>1, <1>3 DEF Position, SelectInSeq
    <2>2. i \in 0..(cap - 1)
      BY <1>3, IndexIs
    <2>3. CASE I = {}
      <3>1. ASSUME NEW e \in Held(t), e.key = k PROVE FALSE
        <4>1. \E x \in 1..Len(t[i]) : e = t[i][x]
          BY <3>1, HeldIs DEF Sits
        <4>2. QED
          BY <2>3, <3>1, <4>1
      <3>2. QED
        BY <2>1, <2>3, <3>1
    <2>4. CASE I # {}
      <3>1. I \subseteq Nat
        OBVIOUS
      <3>2. Min(I) \in I
        <4> HIDE DEF I
        <4>1. \E x \in I : \A y \in I : x =< y
          BY <2>4, <3>1, LeastNat
        <4>2. QED
          BY <4>1 DEF Min
      <3>3. \E e \in Held(t) : e.key = k
        BY <2>2, <3>2, HeldIs
      <3>4. QED
        BY <1>3, <2>1, <2>2, <2>4, <3>2, <3>3
    <2>5. QED
      BY <2>3, <2>4
  <1>4. QED
    BY <1>2, <1>3

(* A new entry in front of its chain.                                      *)
LEMMA PushHolds ==
    ASSUME NEW cap \in Nat \ {0}, NEW t, Chained(t, cap), NEW n \in Entry,
           \A e \in Held(t) : e.key # n.key
    PROVE  /\ Chained(PushNode(t, cap, n), cap)
           /\ Held(PushNode(t, cap, n)) = Held(t) \cup {n}
  <1> PICK b : b = bucket_index(n.key, cap)
    OBVIOUS
  <1> PICK c, d : c = t[b] /\ d = <<n>> \o c
    OBVIOUS
  <1> PICK u : u = PushNode(t, cap, n)
    OBVIOUS
  <1>1. b \in 0..(cap - 1)
    BY IndexIs DEF Entry
  <1>2. t \in [0..(cap - 1) -> Seq(Entry)] /\ DOMAIN t = 0..(cap - 1)
    BY DEF Chained
  <1>3. c \in Seq(Entry)
    BY <1>1, <1>2
  <1>4. /\ d \in Seq(Entry) /\ Len(d) = Len(c) + 1 /\ d[1] = n
        /\ \A x \in 1..Len(c) : d[x + 1] = c[x]
    BY ONLY <1>3, n \in Entry, d = <<n>> \o c
  <1>5. \A x \in 1..Len(d) : x = 1 \/ (x - 1 \in 1..Len(c) /\ d[x] = c[x - 1])
    BY ONLY <1>3, <1>4
  <1>6. u = [t EXCEPT ![b] = d]
    BY DEF PushNode
  <1>7. /\ u \in [0..(cap - 1) -> Seq(Entry)] /\ DOMAIN u = 0..(cap - 1)
        /\ u[b] = d /\ \A i \in 0..(cap - 1) : i # b => u[i] = t[i]
    BY ONLY <1>1, <1>2, <1>4, <1>6
  <1>8. \A x \in 1..Len(c) : c[x].key # n.key /\ bucket_index(c[x].key, cap) = b
    BY <1>1, HeldIs DEF Chained
  <1>9. \A x, y \in 1..Len(c) : c[x].key = c[y].key => x = y
    BY <1>1 DEF Chained
  <1>10. Chained(u, cap)
    <2>1. ASSUME NEW i \in 0..(cap - 1), NEW x \in 1..Len(u[i])
          PROVE  /\ bucket_index(u[i][x].key, cap) = i
                 /\ \A y \in 1..Len(u[i]) : u[i][x].key = u[i][y].key => x = y
      <3>1. CASE i = b
        <4>1. bucket_index(d[x].key, cap) = b
          <5>1. x \in 1..Len(d)
            BY <1>7, <3>1
          <5>2. CASE x = 1
            BY <1>4, <5>2
          <5>3. CASE x # 1
            <6>1. x - 1 \in 1..Len(c) /\ d[x] = c[x - 1]
              BY <1>5, <5>1, <5>3
            <6>2. QED
              BY <1>8, <6>1
          <5>4. QED
            BY <5>2, <5>3
        <4>2. ASSUME NEW y \in 1..Len(d), d[x].key = d[y].key PROVE x = y
          <5>1. x \in 1..Len(d)
            BY <1>7, <3>1
          <5>2. Len(d) \in Nat
            BY <1>4
          <5>3. CASE x = 1 \/ y = 1
            BY <1>4, <1>5, <1>8, <4>2, <5>1, <5>3
          <5>4. CASE x # 1 /\ y # 1
            <6>1. x - 1 \in 1..Len(c) /\ d[x] = c[x - 1]
              BY <1>5, <5>1, <5>4
            <6>2. y - 1 \in 1..Len(c) /\ d[y] = c[y - 1]
              BY <1>5, <5>4
            <6> PICK p, q : p = x - 1 /\ q = y - 1
              OBVIOUS
            <6>3. p \in 1..Len(c) /\ q \in 1..Len(c) /\ c[p].key = c[q].key
              BY <4>2, <6>1, <6>2
            <6>4. p = q
              BY <1>9, <6>3
            <6>5. \A a \in Nat : a = (a - 1) + 1
              OBVIOUS
            <6>6. x \in Nat /\ y \in Nat
              BY <5>1, <5>2
            <6>7. x = p + 1 /\ y = q + 1
              BY <6>5, <6>6
            <6>8. QED
              BY <6>4, <6>7
          <5>5. QED
            BY <5>3, <5>4
        <4>3. QED
          BY <1>7, <3>1, <4>1, <4>2
      <3>2. CASE i # b
        BY <1>7, <3>2 DEF Chained
      <3>3. QED
        BY <3>1, <3>2
    <2>2. QED
      BY <1>7, <2>1 DEF Chained
  <1>11. Held(u) = Held(t) \cup {n}
    <2>1. ASSUME NEW e \in Held(u) PROVE e \in Held(t) \cup {n}
      <3> PICK i \in 0..(cap - 1) : \E x \in 1..Len(u[i]) : e = u[i][x]
        BY <1>7 DEF Held
      <3> PICK x \in 1..Len(u[i]) : e = u[i][x]
        OBVIOUS
      <3>1. CASE i = b /\ x = 1
        BY <1>4, <1>7, <3>1
      <3>2. CASE i = b /\ x # 1
        <4>1. x - 1 \in 1..Len(t[b]) /\ e = t[b][x - 1]
          BY <1>5, <1>7, <3>2
        <4>2. QED
          BY <1>1, <4>1, HeldIs
      <3>3. CASE i # b
        <4>1. x \in 1..Len(t[i]) /\ e = t[i][x]
          BY <1>7, <3>3
        <4>2. QED
          BY <4>1, HeldIs
      <3>4. QED
        BY <3>1, <3>2, <3>3
    <2>2. ASSUME NEW e \in Held(t) PROVE e \in Held(u)
      <3> PICK i \in 0..(cap - 1) : \E x \in 1..Len(t[i]) : e = t[i][x]
        BY <1>2 DEF Held
      <3> PICK x \in 1..Len(t[i]) : e = t[i][x]
        OBVIOUS
      <3>1. CASE i = b
        <4>1. x \in 1..Len(c) /\ Len(c) \in Nat
          BY <1>3, <3>1
        <4>2. x + 1 \in 1..(Len(c) + 1)
          BY ONLY <4>1
        <4>3. x + 1 \in 1..Len(u[b]) /\ e = u[b][x + 1]
          BY <1>4, <1>7, <3>1, <4>1, <4>2
        <4>4. QED
          BY <1>1, <1>10, <4>3, HeldIs
      <3>2. CASE i # b
        BY <1>7, <1>10, <3>2, HeldIs
      <3>3. QED
        BY <3>1, <3>2
    <2>3. n \in Held(u)
      <3>1. 1 \in 1..Len(u[b]) /\ n = u[b][1]
        <4>1. Len(c) \in Nat
          BY <1>3
        <4>2. 1 \in 1..(Len(c) + 1)
          BY ONLY <4>1
        <4>3. QED
          BY <1>4, <1>7, <4>2
      <3>2. QED
        BY <1>1, <1>10, <3>1, HeldIs
    <2>4. QED
      BY <2>1, <2>2, <2>3
  <1>12. QED
    BY <1>10, <1>11

LEMMA NoNodesHold ==
    ASSUME NEW cap \in Nat
    PROVE  Chained(NoNodes(cap), cap) /\ Held(NoNodes(cap)) = {}
  <1> PICK t : t = NoNodes(cap)
    OBVIOUS
  <1>1. t = [i \in 0..(cap - 1) |-> << >>]
    BY DEF NoNodes
  <1>2. << >> \in Seq(Entry) /\ 1..Len(<< >>) = {}
    OBVIOUS
  <1>3. t \in [0..(cap - 1) -> Seq(Entry)] /\ \A i \in 0..(cap - 1) : 1..Len(t[i]) = {}
    BY <1>1, <1>2
  <1>4. Chained(t, cap)
    BY <1>3 DEF Chained
  <1>5. Held(t) = {}
    BY <1>3 DEF Held
  <1>6. QED
    BY <1>4, <1>5

(* The nodes in the order rehash_to meets them: each entry once.           *)
Listed(s) == {s[x] : x \in 1..Len(s)}

Distinct(s) == \A x, y \in 1..Len(s) : s[x].key = s[y].key => x = y

LEMMA JoinedList ==
    ASSUME NEW p \in Seq(Entry), NEW q \in Seq(Entry), Distinct(p), Distinct(q),
           \A e \in Listed(p) : \A d \in Listed(q) : e.key # d.key
    PROVE  /\ p \o q \in Seq(Entry) /\ Distinct(p \o q)
           /\ Listed(p \o q) = Listed(p) \cup Listed(q)
  <1> PICK j, k, l : j = p \o q /\ k = Len(p) /\ l = Len(q)
    OBVIOUS
  <1>1. /\ k \in Nat /\ l \in Nat /\ j \in Seq(Entry) /\ Len(j) = k + l
        /\ \A x \in 1..(k + l) : j[x] = IF x <= k THEN p[x] ELSE q[x - k]
    <2>1. p \in Seq(Entry) /\ q \in Seq(Entry) /\ j = p \o q /\ k = Len(p) /\ l = Len(q)
      OBVIOUS
    <2>2. QED
      BY ONLY <2>1
  <1>2. \A x \in 1..(k + l) : \/ x \in 1..k /\ x <= k
                              \/ x - k \in 1..l /\ ~(x <= k) /\ x = (x - k) + k
    BY ONLY <1>1
  <1>3. \A x \in 1..k : x \in 1..(k + l) /\ x <= k
    BY ONLY <1>1
  <1>4. \A x \in 1..l : x + k \in 1..(k + l) /\ ~(x + k <= k) /\ (x + k) - k = x
    BY ONLY <1>1
  <1>5. \A x \in 1..k : p[x] \in Listed(p)
    BY DEF Listed
  <1>6. \A x \in 1..l : q[x] \in Listed(q)
    BY DEF Listed
  <1>7. ASSUME NEW x \in 1..(k + l), NEW y \in 1..(k + l), j[x].key = j[y].key PROVE x = y
    <2>1. CASE x <= k /\ y <= k
      <3>1. x \in 1..k /\ y \in 1..k /\ j[x] = p[x] /\ j[y] = p[y]
        BY <1>1, <1>2, <2>1
      <3>2. QED
        BY <1>7, <3>1 DEF Distinct
    <2>2. CASE ~(x <= k) /\ ~(y <= k)
      <3>1. x - k \in 1..l /\ y - k \in 1..l /\ j[x] = q[x - k] /\ j[y] = q[y - k]
        BY <1>1, <1>2, <2>2
      <3> PICK a, b : a = x - k /\ b = y - k
        OBVIOUS
      <3>2. a \in 1..l /\ b \in 1..l /\ q[a].key = q[b].key
        BY <1>7, <3>1
      <3>3. a = b
        BY <3>2 DEF Distinct
      <3>4. x = a + k /\ y = b + k
        BY <1>2, <2>2
      <3>5. QED
        BY <3>3, <3>4
    <2>3. CASE x <= k /\ ~(y <= k)
      <3>1. x \in 1..k /\ y - k \in 1..l /\ j[x] = p[x] /\ j[y] = q[y - k]
        BY <1>1, <1>2, <2>3
      <3>2. QED
        BY <1>5, <1>6, <1>7, <3>1
    <2>4. CASE ~(x <= k) /\ y <= k
      <3>1. y \in 1..k /\ x - k \in 1..l /\ j[y] = p[y] /\ j[x] = q[x - k]
        BY <1>1, <1>2, <2>4
      <3>2. QED
        BY <1>5, <1>6, <1>7, <3>1
    <2>5. QED
      BY <2>1, <2>2, <2>3, <2>4
  <1>8. Listed(j) = Listed(p) \cup Listed(q)
    <2>1. ASSUME NEW e \in Listed(j) PROVE e \in Listed(p) \cup Listed(q)
      <3> PICK x \in 1..(k + l) : e = j[x]
        BY <1>1 DEF Listed
      <3>1. QED
        BY <1>1, <1>2, <1>5, <1>6
    <2>2. ASSUME NEW e \in Listed(p) PROVE e \in Listed(j)
      <3> PICK x \in 1..k : e = p[x]
        BY DEF Listed
      <3>1. x \in 1..(k + l) /\ e = j[x]
        BY <1>1, <1>3
      <3>2. QED
        BY <1>1, <3>1 DEF Listed
    <2>3. ASSUME NEW e \in Listed(q) PROVE e \in Listed(j)
      <3> PICK x \in 1..l : e = q[x]
        BY DEF Listed
      <3>1. x + k \in 1..(k + l) /\ e = j[x + k]
        BY <1>1, <1>4
      <3>2. QED
        BY <1>1, <3>1 DEF Listed
    <2>4. QED
      BY <2>1, <2>2, <2>3
  <1>9. QED
    BY <1>1, <1>7, <1>8 DEF Distinct

LEMMA NodesHold ==
    ASSUME NEW cap \in Nat, NEW t, Chained(t, cap)
    PROVE  Nodes(t) \in Seq(Entry) /\ Distinct(Nodes(t)) /\ Listed(Nodes(t)) = Held(t)
  <1> PICK ch : ch = [i \in 1..cap |-> t[i - 1]]
    OBVIOUS
  <1> DEFINE Below(j) == {e \in Held(t) : bucket_index(e.key, cap) < j}
             Good(j) == /\ Upto(ch, j) \in Seq(Entry) /\ Distinct(Upto(ch, j))
                        /\ Listed(Upto(ch, j)) = Below(j)
             T == {j \in Nat : j <= cap => Good(j)}
  <1>1. \A i \in 0..(cap - 1) : t[i] \in Seq(Entry)
    BY DEF Chained
  <1>2. \A j \in Nat : j < cap => /\ j \in 0..(cap - 1) /\ j + 1 \in 1..cap
                                  /\ (j + 1) - 1 = j /\ \A i \in 1..(j + 1) : i \in 1..cap
    OBVIOUS
  <1>3. \A i \in 1..cap : ch[i] = t[i - 1] /\ ch[i] \in Seq(Entry)
    <2>1. \A i \in 1..cap : i - 1 \in 0..(cap - 1)
      OBVIOUS
    <2>2. QED
      BY <1>1, <2>1
  <1>4. \A e \in Held(t) : /\ bucket_index(e.key, cap) \in 0..(cap - 1)
                           /\ e \in Listed(t[bucket_index(e.key, cap)])
    BY HeldIs DEF Sits, Listed
  <1>5. 0 \in T
    <2>1. Upto(ch, 0) = << >>
      BY UptoNone
    <2>2. << >> \in Seq(Entry) /\ 1..Len(<< >>) = {}
      OBVIOUS
    <2>3. Distinct(<< >>) /\ Listed(<< >>) = {}
      BY <2>2 DEF Distinct, Listed
    <2>4. Below(0) = {}
      BY <1>4
    <2>5. QED
      BY <2>1, <2>2, <2>3, <2>4
  <1>6. ASSUME NEW j \in T \cap Nat PROVE j + 1 \in T
    <2>1. SUFFICES ASSUME j + 1 <= cap PROVE Good(j + 1)
      <3> HIDE DEF Good
      <3>1. QED
        OBVIOUS
    <2>2. j \in Nat /\ j <= cap /\ j < cap
      BY <2>1
    <2> PICK p, q : p = Upto(ch, j) /\ q = t[j]
      OBVIOUS
    <2>3. p \in Seq(Entry) /\ Distinct(p) /\ Listed(p) = Below(j)
      BY <2>2
    <2>4. q \in Seq(Entry) /\ ch[j + 1] = q
      BY <1>1, <1>2, <1>3, <2>2
    <2>5. \A i \in 1..(j + 1) : ch[i] \in Seq(Entry)
      BY <1>2, <1>3, <2>2
    <2>6. Upto(ch, j + 1) = p \o q
      BY <2>2, <2>4, <2>5, UptoStep
    <2>7. Distinct(q)
      BY <1>2, <2>2 DEF Chained, Distinct
    <2>8. Listed(q) = {e \in Held(t) : bucket_index(e.key, cap) = j}
      <3>1. \A x \in 1..Len(q) : q[x] \in Held(t) /\ bucket_index(q[x].key, cap) = j
        BY <1>2, <2>2, HeldIs DEF Chained
      <3>2. \A e \in Held(t) : bucket_index(e.key, cap) = j => e \in Listed(q)
        BY <1>4
      <3>3. QED
        BY <3>1, <3>2 DEF Listed
    <2>9. \A e \in Listed(p) : \A d \in Listed(q) : e.key # d.key
      <3> SUFFICES ASSUME NEW e \in Listed(p), NEW d \in Listed(q), e.key = d.key PROVE FALSE
        OBVIOUS
      <3>1. bucket_index(e.key, cap) < j
        BY <2>3
      <3>2. bucket_index(d.key, cap) = j
        BY <2>8
      <3>3. QED
        BY <2>2, <3>1, <3>2
    <2>10. /\ p \o q \in Seq(Entry) /\ Distinct(p \o q)
           /\ Listed(p \o q) = Listed(p) \cup Listed(q)
      BY <2>3, <2>4, <2>7, <2>9, JoinedList
    <2>11. Below(j + 1) = Listed(p) \cup Listed(q)
      <3>1. \A e \in Held(t) : /\ bucket_index(e.key, cap) \in Nat
                               /\ bucket_index(e.key, cap) < j + 1 <=>
                                    \/ bucket_index(e.key, cap) < j
                                    \/ bucket_index(e.key, cap) = j
        BY <1>4, <2>2
      <3>2. QED
        BY <2>3, <2>8, <3>1
    <2>12. QED
      BY <2>6, <2>10, <2>11
  <1>7. Nat \subseteq T
    <2> HIDE DEF T
    <2>1. QED
      BY <1>5, <1>6, SetInduction
  <1>8. Good(cap)
    BY <1>7
  <1>9. Below(cap) = Held(t)
    BY <1>4
  <1>10. Nodes(t) = Upto(ch, cap)
    <2>1. Cardinality(DOMAIN t) = cap
      BY CapIs DEF Chained
    <2>2. Nodes(t) = FlattenSeq(ch)
      BY <2>1 DEF Nodes
    <2>3. ch = [i \in 1..cap |-> ch[i]]
      OBVIOUS
    <2>4. QED
      BY <2>2, <2>3 DEF Upto
  <1>11. QED
    BY <1>8, <1>9, <1>10

(* Pushing nodes with different keys, one after the other.                 *)
Pushes(f, nodes, cap) ==
    f = [j \in 0..Len(nodes) |->
            IF j = 0 THEN NoNodes(cap) ELSE PushNode(f[j - 1], cap, nodes[j])]

Pushed(f, nodes, cap, n) ==
    \A j \in 0..n : f[j] = IF j = 0 THEN NoNodes(cap) ELSE PushNode(f[j - 1], cap, nodes[j])

LEMMA PushesIs ==
    \A f, nodes, cap : Pushes(f, nodes, cap) => Pushed(f, nodes, cap, Len(nodes))
  <1> TAKE f, nodes, cap
  <1> DEFINE B(j) == IF j = 0 THEN NoNodes(cap) ELSE PushNode(f[j - 1], cap, nodes[j])
  <1>1. SUFFICES ASSUME f = [j \in 0..Len(nodes) |-> B(j)], NEW k \in 0..Len(nodes)
                 PROVE  f[k] = B(k)
    BY DEF Pushes, Pushed
  <1> HIDE DEF B
  <1> PICK g : g = [j \in 0..Len(nodes) |-> B(j)]
    OBVIOUS
  <1>2. g[k] = B(k)
    BY ONLY k \in 0..Len(nodes), g = [j \in 0..Len(nodes) |-> B(j)]
  <1>3. f = g
    BY <1>1, Zenon
  <1>4. QED
    BY ONLY <1>2, <1>3

LEMMA PushedExist ==
    ASSUME NEW nodes, NEW cap, NEW n \in Nat
    PROVE  \E f : DOMAIN f = 0..n /\ f = [j \in 0..n |-> f[j]] /\ Pushed(f, nodes, cap, n)
  <1> DEFINE B(f, j) == IF j = 0 THEN NoNodes(cap) ELSE PushNode(f[j - 1], cap, nodes[j])
             Some(m) == \E f : /\ DOMAIN f = 0..m /\ f = [j \in 0..m |-> f[j]]
                               /\ Pushed(f, nodes, cap, m)
             T == {m \in Nat : Some(m)}
  <1>1. 0 \in T
    <2> PICK f : f = [j \in 0..0 |-> NoNodes(cap)]
      OBVIOUS
    <2>1. DOMAIN f = 0..0 /\ f = [j \in 0..0 |-> f[j]] /\ \A j \in 0..0 : j = 0 /\ f[j] = NoNodes(cap)
      OBVIOUS
    <2>2. Pushed(f, nodes, cap, 0)
      BY <2>1 DEF Pushed
    <2>3. QED
      BY <2>1, <2>2
  <1>2. ASSUME NEW m \in T \cap Nat PROVE m + 1 \in T
    <2>1. PICK f : DOMAIN f = 0..m /\ Pushed(f, nodes, cap, m)
      OBVIOUS
    <2>2. \A j \in 0..m : f[j] = B(f, j)
      BY <2>1 DEF Pushed
    <2> PICK g : g = [j \in 0..(m + 1) |-> B(f, j)]
      OBVIOUS
    <2> HIDE DEF B
    <2>3. DOMAIN g = 0..(m + 1) /\ g = [j \in 0..(m + 1) |-> g[j]]
      OBVIOUS
    <2>4. \A j \in 0..(m + 1) : g[j] = B(f, j)
      OBVIOUS
    <2>5. \A j \in 0..(m + 1) : j # 0 => g[j - 1] = f[j - 1]
      <3>1. m \in Nat
        OBVIOUS
      <3>2. \A j \in 0..(m + 1) : j # 0 => j - 1 \in 0..m
        BY ONLY <3>1
      <3>3. \A j \in 0..m : j \in 0..(m + 1)
        BY ONLY <3>1
      <3>4. \A j \in 0..m : g[j] = f[j]
        BY ONLY <2>2, <2>4, <3>3
      <3>5. QED
        BY ONLY <3>2, <3>4
    <2>6. \A j \in 0..(m + 1) : B(g, j) = B(f, j)
      <3> TAKE j \in 0..(m + 1)
      <3>1. CASE j = 0
        BY <3>1 DEF B
      <3>2. CASE j # 0
        <4>1. g[j - 1] = f[j - 1]
          BY ONLY <2>5, <3>2, j \in 0..(m + 1)
        <4>2. QED
          BY ONLY <4>1 DEF B
      <3>3. QED
        BY <3>1, <3>2
    <2>7. Pushed(g, nodes, cap, m + 1)
      BY <2>4, <2>6 DEF Pushed, B
    <2>8. m + 1 \in Nat
      OBVIOUS
    <2>9. Some(m + 1)
      BY <2>3, <2>7
    <2> HIDE DEF Some
    <2>10. QED
      BY <2>8, <2>9
  <1>3. Nat \subseteq T
    <2> HIDE DEF T
    <2>1. QED
      BY <1>1, <1>2, SetInduction
  <1>4. QED
    BY <1>3

LEMMA PushesExist ==
    ASSUME NEW nodes, NEW cap, Len(nodes) \in Nat
    PROVE  \E f : Pushes(f, nodes, cap)
  <1> PICK n : n = Len(nodes)
    OBVIOUS
  <1> DEFINE B(f, j) == IF j = 0 THEN NoNodes(cap) ELSE PushNode(f[j - 1], cap, nodes[j])
  <1> PICK f : f = [j \in 0..n |-> f[j]] /\ Pushed(f, nodes, cap, n)
    BY PushedExist
  <1>1. \A j \in 0..n : f[j] = B(f, j)
    BY DEF Pushed
  <1> HIDE DEF B
  <1>2. f = [j \in 0..n |-> B(f, j)]
    BY <1>1
  <1>3. Pushes(f, nodes, cap)
    BY <1>2, Zenon DEF Pushes, B
  <1>4. QED
    BY <1>3

LEMMA PushAllHolds ==
    ASSUME NEW cap \in Nat \ {0}, NEW nodes \in Seq(Entry), Distinct(nodes)
    PROVE  /\ Chained(PushAll(nodes, cap), cap)
           /\ Held(PushAll(nodes, cap)) = Listed(nodes)
  <1> PICK f : f = CHOOSE h : Pushes(h, nodes, cap)
    OBVIOUS
  <1> PICK n : n = Len(nodes)
    OBVIOUS
  <1>1. n \in Nat /\ Len(nodes) \in Nat
    OBVIOUS
  <1>2. Pushes(f, nodes, cap)
    BY <1>1, PushesExist
  <1>3. PushAll(nodes, cap) = f[n]
    BY DEF PushAll, Pushes
  <1>4. \A j \in 0..n : f[j] = IF j = 0 THEN NoNodes(cap) ELSE PushNode(f[j - 1], cap, nodes[j])
    BY <1>2, PushesIs DEF Pushed
  <1> DEFINE Good(j) == Chained(f[j], cap) /\ Held(f[j]) = {nodes[x] : x \in 1..j}
             T == {j \in Nat : j <= n => Good(j)}
  <1>5. 0 \in T
    <2>1. 0 \in 0..n
      BY <1>1
    <2>2. f[0] = NoNodes(cap)
      BY <1>4, <2>1
    <2>3. {nodes[x] : x \in 1..0} = {}
      OBVIOUS
    <2>4. cap \in Nat
      OBVIOUS
    <2>5. Good(0)
      BY <2>2, <2>3, <2>4, NoNodesHold
    <2> HIDE DEF Good
    <2>6. QED
      BY <2>5
  <1>6. ASSUME NEW j \in T \cap Nat PROVE j + 1 \in T
    <2>1. SUFFICES ASSUME j + 1 <= n PROVE Good(j + 1)
      <3> HIDE DEF Good
      <3>1. QED
        OBVIOUS
    <2>2. j \in Nat /\ j <= n /\ j + 1 \in 0..n /\ j + 1 # 0 /\ (j + 1) - 1 = j
      BY <1>1, <2>1
    <2>3. Good(j)
      <3> HIDE DEF Good
      <3>1. QED
        BY <2>2
    <2> PICK t, e : t = f[j] /\ e = nodes[j + 1]
      OBVIOUS
    <2>4. f[j + 1] = PushNode(t, cap, e)
      BY <1>4, <2>2
    <2>5. j + 1 \in 1..n /\ \A x \in 1..j : x \in 1..n /\ x # j + 1
      BY <1>1, <2>2, <2>1
    <2>6. e \in Entry
      BY <2>5
    <2>7. \A d \in Held(t) : d.key # e.key
      <3> SUFFICES ASSUME NEW d \in Held(t), d.key = e.key PROVE FALSE
        OBVIOUS
      <3>1. PICK x \in 1..j : d = nodes[x]
        BY <2>3
      <3>2. x = j + 1
        BY <2>5, <3>1 DEF Distinct
      <3>3. QED
        BY <2>5, <3>2
    <2>8. /\ Chained(PushNode(t, cap, e), cap)
          /\ Held(PushNode(t, cap, e)) = Held(t) \cup {e}
      <3>1. Chained(t, cap)
        BY <2>3
      <3> HIDE DEF Good, T
      <3>2. QED
        BY ONLY <2>6, <2>7, <3>1, cap \in Nat \ {0}, PushHolds
    <2>9. {nodes[x] : x \in 1..(j + 1)} = {nodes[x] : x \in 1..j} \cup {e}
      <3>1. \A x \in 1..(j + 1) : x \in 1..j \/ x = j + 1
        BY <2>2
      <3>2. j + 1 \in 1..(j + 1) /\ \A x \in 1..j : x \in 1..(j + 1)
        BY <2>2
      <3>3. QED
        BY <3>1, <3>2
    <2>10. QED
      BY <2>3, <2>4, <2>8, <2>9
  <1>7. Nat \subseteq T
    <2> HIDE DEF T
    <2>1. QED
      BY <1>5, <1>6, SetInduction
  <1>8. Good(n)
    <2> HIDE DEF Good
    <2>1. n <= n
      BY <1>1
    <2>2. QED
      BY <1>1, <1>7, <2>1
  <1>9. QED
    BY <1>3, <1>8 DEF Listed

(* Rehashing moves the entries and loses none.                             *)
LEMMA RehashHolds ==
    ASSUME NEW cap \in Nat, NEW t, Chained(t, cap), NEW n \in Nat
    PROVE  \E c \in Nat \ {0} : Chained(rehash_to(t, n), c) /\ Held(rehash_to(t, n)) = Held(t)
  <1>1. next_power_of_two(n) \in Nat \ {0}
    BY NextPower
  <1>2. Nodes(t) \in Seq(Entry) /\ Distinct(Nodes(t)) /\ Listed(Nodes(t)) = Held(t)
    BY NodesHold
  <1>3. QED
    BY <1>1, <1>2, PushAllHolds DEF rehash_to

LEMMA GrownHolds ==
    ASSUME NEW cap \in Nat, NEW t, Chained(t, cap), NEW size \in Nat
    PROVE  LET u == Grown(Usable(t), size)
           IN  \E c \in Nat \ {0} : Chained(u, c) /\ Held(u) = Held(t)
  <1> PICK w : w = Usable(t)
    OBVIOUS
  <1>1. PICK c \in Nat \ {0} : Chained(w, c) /\ Held(w) = Held(t)
    <2>1. FreshCapacity \in Nat
      BY MapAssumption
    <2>2. CASE DOMAIN t = {}
      BY <2>1, <2>2, RehashHolds DEF Usable
    <2>3. CASE DOMAIN t # {}
      <3>1. DOMAIN t = 0..(cap - 1)
        BY CapIs DEF Chained
      <3>2. cap # 0
        BY <2>3, <3>1
      <3>3. w = t
        BY <2>3 DEF Usable
      <3>4. QED
        BY <3>2, <3>3
    <2>4. QED
      BY <2>2, <2>3
  <1>2. Cardinality(DOMAIN w) = c
    BY <1>1, CapIs DEF Chained
  <1>3. c * 2 \in Nat /\ c \in Nat
    OBVIOUS
  <1>4. Grown(w, size) = rehash_to(w, c * 2) \/ Grown(w, size) = w
    BY <1>2 DEF Grown
  <1>5. \E d \in Nat \ {0} : Chained(rehash_to(w, c * 2), d) /\ Held(rehash_to(w, c * 2)) = Held(w)
    BY <1>1, <1>3, RehashHolds
  <1>6. QED
    BY <1>1, <1>4, <1>5

(* A table with another chain at one index.                                *)
Fits(d, cap, i) ==
    /\ d \in Seq(Entry) /\ Distinct(d)
    /\ \A x \in 1..Len(d) : bucket_index(d[x].key, cap) = i

Rechained(t, u, cap, i, d) ==
    /\ Chained(u, cap)
    /\ Held(u) = {e \in Held(t) : bucket_index(e.key, cap) # i} \cup Listed(d)

LEMMA ChainReplaced ==
    ASSUME NEW cap \in Nat, NEW t, Chained(t, cap), NEW i \in 0..(cap - 1),
           NEW d, Fits(d, cap, i), NEW u, u = [t EXCEPT ![i] = d]
    PROVE  Rechained(t, u, cap, i, d)
  <1>0. /\ d \in Seq(Entry) /\ Distinct(d)
        /\ \A x \in 1..Len(d) : bucket_index(d[x].key, cap) = i
    BY DEF Fits
  <1>1. t \in [0..(cap - 1) -> Seq(Entry)] /\ DOMAIN t = 0..(cap - 1)
    BY DEF Chained
  <1>2. /\ u \in [0..(cap - 1) -> Seq(Entry)] /\ DOMAIN u = 0..(cap - 1)
        /\ u[i] = d /\ \A j \in 0..(cap - 1) : j # i => u[j] = t[j]
    <2>1. u = [t EXCEPT ![i] = d] /\ i \in 0..(cap - 1) /\ d \in Seq(Entry)
      BY <1>0
    <2>2. QED
      BY ONLY <1>1, <2>1
  <1>3. Chained(u, cap)
    <2>1. ASSUME NEW j \in 0..(cap - 1), NEW x \in 1..Len(u[j])
          PROVE  /\ bucket_index(u[j][x].key, cap) = j
                 /\ \A y \in 1..Len(u[j]) : u[j][x].key = u[j][y].key => x = y
      <3>1. CASE j = i
        BY <1>0, <1>2, <3>1 DEF Distinct
      <3>2. CASE j # i
        BY <1>2, <3>2 DEF Chained
      <3>3. QED
        BY <3>1, <3>2
    <2>2. QED
      BY <1>2, <2>1 DEF Chained
  <1>4. ASSUME NEW e \in Held(u)
        PROVE  e \in Listed(d) \/ (e \in Held(t) /\ bucket_index(e.key, cap) # i)
    <2> PICK j \in 0..(cap - 1) : \E x \in 1..Len(u[j]) : e = u[j][x]
      BY <1>2 DEF Held
    <2> PICK x \in 1..Len(u[j]) : e = u[j][x]
      OBVIOUS
    <2>1. CASE j = i
      BY <1>2, <2>1 DEF Listed
    <2>2. CASE j # i
      <3>1. x \in 1..Len(t[j]) /\ e = t[j][x]
        BY <1>2, <2>2
      <3>2. e \in Held(t)
        BY <3>1, HeldIs
      <3>3. bucket_index(e.key, cap) = j
        BY <3>1 DEF Chained
      <3>4. QED
        BY <2>2, <3>2, <3>3
    <2>3. QED
      BY <2>1, <2>2
  <1>5. ASSUME NEW e \in Listed(d) PROVE e \in Held(u)
    <2> PICK x \in 1..Len(d) : e = d[x]
      BY DEF Listed
    <2>1. QED
      BY <1>2, <1>3, HeldIs
  <1>6. ASSUME NEW e \in Held(t), bucket_index(e.key, cap) # i PROVE e \in Held(u)
    <2> PICK j : j = bucket_index(e.key, cap)
      OBVIOUS
    <2>1. j \in 0..(cap - 1) /\ \E x \in 1..Len(t[j]) : e = t[j][x]
      <3>1. Sits(t, cap, e)
        BY HeldIs
      <3>2. QED
        BY <3>1 DEF Sits
    <2> PICK x \in 1..Len(t[j]) : e = t[j][x]
      BY <2>1
    <2>2. x \in 1..Len(u[j]) /\ e = u[j][x]
      BY <1>2, <1>6, <2>1
    <2>3. QED
      BY <1>3, <2>1, <2>2, HeldIs
  <1>7. Held(u) = {e \in Held(t) : bucket_index(e.key, cap) # i} \cup Listed(d)
    BY <1>4, <1>5, <1>6
  <1>8. QED
    BY <1>3, <1>7 DEF Rechained

(* A value replaced in place.                                              *)
Overwritten(t, u, cap, k, v) ==
    /\ Chained(u, cap)
    /\ Held(u) = {e \in Held(t) : e.key # k} \cup {[key |-> k, value |-> v]}

LEMMA ValueReplaced ==
    ASSUME NEW cap \in Nat, NEW t, Chained(t, cap), NEW k \in Key, NEW v \in Value,
           NEW i, i = bucket_index(k, cap), i \in 0..(cap - 1),
           NEW p \in 1..Len(t[i]), t[i][p].key = k,
           NEW u, u = [t EXCEPT ![i][p].value = v]
    PROVE  Overwritten(t, u, cap, k, v)
  <1> PICK n : n = [key |-> k, value |-> v]
    OBVIOUS
  <1> PICK c, d : c = t[i] /\ d = [c EXCEPT ![p] = n]
    OBVIOUS
  <1>1. c \in Seq(Entry) /\ p \in 1..Len(c)
    BY DEF Chained
  <1>2. n \in Entry /\ n.key = k
    BY DEF Entry
  <1>3. /\ d \in Seq(Entry) /\ Len(d) = Len(c) /\ d[p] = n
        /\ \A x \in 1..Len(c) : x # p => d[x] = c[x]
    <2>1. d = [c EXCEPT ![p] = n]
      OBVIOUS
    <2>2. QED
      BY ONLY <1>1, <1>2, <2>1
  <1>4. [c[p] EXCEPT !.value = v] = n
    <2>1. c[p] \in Entry /\ c[p].key = k
      BY <1>1
    <2>2. QED
      BY <2>1 DEF Entry
  <1>5. u = [t EXCEPT ![i] = d]
    BY <1>4
  <1>6. \A x \in 1..Len(c) : bucket_index(c[x].key, cap) = i
    BY DEF Chained
  <1>7. \A x, y \in 1..Len(c) : c[x].key = c[y].key => x = y
    BY DEF Chained
  <1>8. \A x \in 1..Len(c) : d[x].key = c[x].key
    BY <1>1, <1>2, <1>3
  <1>9. Fits(d, cap, i)
    BY <1>3, <1>6, <1>7, <1>8 DEF Distinct, Fits
  <1>10. /\ Chained(u, cap)
         /\ Held(u) = {e \in Held(t) : bucket_index(e.key, cap) # i} \cup Listed(d)
    <2>1. Rechained(t, u, cap, i, d)
      BY <1>5, <1>9, ChainReplaced
    <2>2. QED
      BY <2>1 DEF Rechained
  <1>11. ASSUME NEW e
         PROVE  e \in {f \in Held(t) : bucket_index(f.key, cap) # i} \cup Listed(d)
                  <=> e \in {f \in Held(t) : f.key # k} \cup {n}
    <2>1. ASSUME e \in Listed(d) PROVE e = n \/ (e \in Held(t) /\ e.key # k)
      <3> PICK x \in 1..Len(c) : e = d[x]
        BY <1>3, <2>1 DEF Listed
      <3>1. CASE x = p
        BY <1>3, <3>1
      <3>2. CASE x # p
        <4>1. e = c[x] /\ c[x].key # k
          BY <1>1, <1>3, <1>7, <3>2
        <4>2. e \in Held(t)
          BY <4>1, HeldIs
        <4>3. QED
          BY <4>1, <4>2
      <3>3. QED
        BY <3>1, <3>2
    <2>2. n \in Listed(d)
      BY <1>1, <1>3 DEF Listed
    <2>3. ASSUME e \in Held(t), e.key # k, bucket_index(e.key, cap) = i PROVE e \in Listed(d)
      <3>1. \E x \in 1..Len(c) : e = c[x]
        BY <2>3, HeldIs DEF Sits
      <3> PICK x \in 1..Len(c) : e = c[x]
        BY <3>1
      <3>2. x # p
        BY <1>1, <2>3
      <3>3. QED
        BY <1>3, <3>2 DEF Listed
    <2>4. QED
      BY <2>1, <2>2, <2>3
  <1>12. QED
    BY <1>10, <1>11 DEF Overwritten

(* A node taken out of its chain.                                          *)
LEMMA NodeErased ==
    ASSUME NEW cap \in Nat, NEW t, Chained(t, cap), NEW k \in Key,
           NEW i, i = bucket_index(k, cap), i \in 0..(cap - 1),
           NEW p \in 1..Len(t[i]), t[i][p].key = k
    PROVE  LET u == [t EXCEPT ![i] = RemoveAt(@, p)]
           IN  Chained(u, cap) /\ Held(u) = {e \in Held(t) : e.key # k}
  <1> PICK c, d, l : c = t[i] /\ d = RemoveAt(c, p) /\ l = Len(c)
    OBVIOUS
  <1> PICK u : u = [t EXCEPT ![i] = d]
    OBVIOUS
  <1>1. c \in Seq(Entry) /\ l = Len(c) /\ l \in Nat /\ p \in 1..l
    BY DEF Chained
  <1>2. /\ d \in Seq(Entry) /\ Len(d) = l - 1
        /\ \A x \in 1..(l - 1) : d[x] = IF x < p THEN c[x] ELSE c[x + 1]
    <2>1. d = SubSeq(c, 1, p - 1) \o SubSeq(c, p + 1, Len(c))
      BY DEF RemoveAt
    <2> PICK f, g : f = SubSeq(c, 1, p - 1) /\ g = SubSeq(c, p + 1, Len(c))
      OBVIOUS
    <2>2. f = SubSeq(c, 1, p - 1) /\ g = SubSeq(c, p + 1, l) /\ d = f \o g
      BY <1>1, <2>1
    <2>3. f \in Seq(Entry) /\ Len(f) = p - 1 /\ \A x \in 1..(p - 1) : f[x] = c[x]
      BY ONLY <1>1, <2>2
    <2>4. g \in Seq(Entry) /\ Len(g) = l - p /\ \A x \in 1..(l - p) : g[x] = c[x + p]
      BY ONLY <1>1, <2>2
    <2>5. d \in Seq(Entry) /\ Len(d) = l - 1
      <3>1. d \in Seq(Entry) /\ Len(d) = Len(f) + Len(g)
        BY ONLY <2>2, <2>3, <2>4, ConcatProperties
      <3>2. QED
        BY ONLY <1>1, <2>3, <2>4, <3>1
    <2>6. ASSUME NEW x \in 1..(l - 1) PROVE d[x] = IF x < p THEN c[x] ELSE c[x + 1]
      <3>1. CASE x < p
        <4>1. x \in 1..(p - 1)
          BY ONLY <1>1, <3>1, x \in 1..(l - 1)
        <4>2. d[x] = f[x]
          <5>1. x \in 1..(Len(f) + Len(g)) /\ x <= Len(f)
            BY ONLY <1>1, <2>3, <2>4, <4>1
          <5>2. QED
            BY ONLY <2>2, <2>3, <2>4, <5>1, ConcatProperties
        <4>3. QED
          BY <2>3, <3>1, <4>1, <4>2
      <3>2. CASE ~(x < p)
        <4>1. x - (p - 1) \in 1..(l - p) /\ (x - (p - 1)) + p = x + 1
          BY ONLY <1>1, <3>2, x \in 1..(l - 1)
        <4>2. d[x] = g[x - (p - 1)]
          <5>1. x \in 1..(Len(f) + Len(g)) /\ ~(x <= Len(f))
            BY ONLY <1>1, <2>3, <2>4, <3>2, x \in 1..(l - 1)
          <5>2. d[x] = g[x - Len(f)]
            BY ONLY <2>2, <2>3, <2>4, <5>1, ConcatProperties
          <5>3. QED
            BY <2>3, <5>2
        <4>3. QED
          BY <2>4, <3>2, <4>1, <4>2
      <3>3. QED
        BY <3>1, <3>2
    <2>7. QED
      BY <2>5, <2>6
  <1> DEFINE at(x) == IF x < p THEN x ELSE x + 1
  <1>3. \A x \in 1..(l - 1) : at(x) \in 1..l /\ at(x) # p /\ d[x] = c[at(x)]
    <2>1. \A x \in 1..(l - 1) : at(x) \in 1..l /\ at(x) # p
      BY ONLY <1>1
    <2>2. QED
      BY <1>2, <2>1
  <1>4. \A x, y \in 1..(l - 1) : at(x) = at(y) => x = y
    BY ONLY <1>1
  <1>5. \A x \in 1..l : x # p => \E y \in 1..(l - 1) : at(y) = x
    <2> SUFFICES ASSUME NEW x \in 1..l, x # p PROVE \E y \in 1..(l - 1) : at(y) = x
      OBVIOUS
    <2>1. CASE x < p
      <3>1. x \in 1..(l - 1) /\ at(x) = x
        BY ONLY <1>1, <2>1, x \in 1..l
      <3>2. QED
        BY <3>1
    <2>2. CASE ~(x < p)
      <3>1. x - 1 \in 1..(l - 1) /\ at(x - 1) = x
        BY <1>1, <2>2
      <3>2. QED
        BY <3>1
    <2>3. QED
      BY <2>1, <2>2
  <1> HIDE DEF at
  <1>6. \A x \in 1..l : bucket_index(c[x].key, cap) = i
    BY DEF Chained
  <1>7. \A x, y \in 1..l : c[x].key = c[y].key => x = y
    BY DEF Chained
  <1>8. Fits(d, cap, i)
    <2>1. \A x \in 1..(l - 1) : bucket_index(d[x].key, cap) = i
      <3> TAKE x \in 1..(l - 1)
      <3>1. at(x) \in 1..l /\ d[x] = c[at(x)]
        BY <1>3
      <3>2. QED
        BY <1>6, <3>1
    <2>2. ASSUME NEW x \in 1..(l - 1), NEW y \in 1..(l - 1), d[x].key = d[y].key PROVE x = y
      <3>1. c[at(x)].key = c[at(y)].key
        BY <1>3, <2>2
      <3>2. at(x) = at(y)
        BY <1>3, <1>7, <3>1
      <3>3. QED
        BY <1>4, <3>2
    <2>3. QED
      BY <1>2, <2>1, <2>2 DEF Distinct, Fits
  <1>9. /\ Chained(u, cap)
        /\ Held(u) = {e \in Held(t) : bucket_index(e.key, cap) # i} \cup Listed(d)
    <2>1. Rechained(t, u, cap, i, d)
      BY <1>8, ChainReplaced
    <2>2. QED
      BY <2>1 DEF Rechained
  <1>10. ASSUME NEW e
         PROVE  e \in {f \in Held(t) : bucket_index(f.key, cap) # i} \cup Listed(d)
                  <=> e \in {f \in Held(t) : f.key # k}
    <2>1. ASSUME e \in Listed(d) PROVE e \in Held(t) /\ e.key # k
      <3> PICK x \in 1..(l - 1) : e = d[x]
        BY <1>2, <2>1 DEF Listed
      <3>1. at(x) \in 1..l /\ at(x) # p /\ e = c[at(x)]
        BY <1>3
      <3>2. e \in Held(t)
        BY <1>1, <3>1, HeldIs
      <3>3. c[at(x)].key # c[p].key
        BY <1>1, <1>7, <3>1
      <3>4. QED
        BY <3>1, <3>2, <3>3
    <2>2. ASSUME e \in Held(t), e.key # k, bucket_index(e.key, cap) = i PROVE e \in Listed(d)
      <3>1. \E x \in 1..l : e = c[x]
        BY <2>2, HeldIs DEF Sits
      <3> PICK x \in 1..l : e = c[x]
        BY <3>1
      <3>2. x # p
        BY <2>2
      <3>3. PICK y \in 1..(l - 1) : at(y) = x
        BY <1>5, <3>2
      <3>4. QED
        BY <1>2, <1>3, <3>3 DEF Listed
    <2>3. QED
      BY <2>1, <2>2
  <1>11. [t EXCEPT ![i] = RemoveAt(@, p)] = [t EXCEPT ![i] = d]
    OBVIOUS
  <1>12. QED
    BY <1>9, <1>10, <1>11

-----------------------------------------------------------------------------
(* The step of an object's table is a step of its map.                     *)
Maps == [m \in Map |-> Bindings(m)]

Sized(t, n) == IsFiniteSet(DOMAIN Shown(Held(t))) /\ n = Cardinality(DOMAIN Shown(Held(t)))

(* What find shows of a table.                                             *)
Finds(t) ==
    [k \in {j \in Key : Position(t, j) # 0} |->
        t[bucket_index(k, Cardinality(DOMAIN t))][Position(t, k)].value]

LEMMA FindsHeld ==
    ASSUME NEW cap \in Nat, NEW t, Chained(t, cap)
    PROVE  Finds(t) = Shown(Held(t))
  <1> DEFINE H == Held(t)
  <1>1. Cardinality(DOMAIN t) = cap
    BY CapIs DEF Chained
  <1>2. H \subseteq Entry /\ Once(H)
    BY HeldIs
  <1>3. \A k \in Key : Position(t, k) # 0 <=> \E e \in H : e.key = k
    <2> TAKE k \in Key
    <2>1. CASE \E e \in H : e.key = k
      <3>1. Position(t, k) \in 1..Len(t[bucket_index(k, cap)])
        BY <2>1, Search
      <3>2. t[bucket_index(k, cap)] \in Seq(Entry)
        BY <2>1, Search DEF Chained
      <3>3. QED
        BY <2>1, <3>1, <3>2
    <2>2. CASE ~ \E e \in H : e.key = k
      BY <2>2, Search
    <2>3. QED
      BY <2>1, <2>2
  <1>4. ASSUME NEW e \in H
        PROVE  t[bucket_index(e.key, cap)][Position(t, e.key)].value = e.value
    <2> PICK k \in Key : k = e.key
      BY <1>2 DEF Entry
    <2>1. LET i == bucket_index(k, cap)
          IN  /\ i \in 0..(cap - 1) /\ Position(t, k) \in 1..Len(t[i])
              /\ t[i][Position(t, k)].key = k
      BY Search
    <2>2. t[bucket_index(k, cap)][Position(t, k)] = e
      BY <2>1, HeldIs DEF Once
    <2>3. QED
      BY <2>2
  <1>5. {j \in Key : Position(t, j) # 0} = {e.key : e \in H}
    <2>1. \A e \in H : e.key \in Key
      BY <1>2 DEF Entry
    <2>2. QED
      BY <1>3, <2>1
  <1>6. \A j \in {e.key : e \in H} :
            t[bucket_index(j, cap)][Position(t, j)].value = Shown(H)[j]
    <2> TAKE j \in {e.key : e \in H}
    <2>1. PICK e \in H : j = e.key
      OBVIOUS
    <2>2. QED
      BY <1>2, <1>4, <2>1, ShownIs
  <1>7. Shown(H) = [j \in {e.key : e \in H} |-> Shown(H)[j]]
    BY DEF Shown
  <1>8. Finds(t) = [j \in {e.key : e \in H} |->
                       t[bucket_index(j, cap)][Position(t, j)].value]
    BY <1>1, <1>5 DEF Finds
  <1>9. QED
    BY <1>6, <1>7, <1>8

LEMMA BindingsAre ==
    ASSUME MapInv, NEW m \in Map
    PROVE  /\ \E c \in Nat : Chained(buckets_[m], c)
           /\ Bindings(m) = Shown(Held(buckets_[m]))
           /\ Sized(buckets_[m], size_[m])
  <1>1. Chained(buckets_[m], capacity_(m))
    BY DEF MapInv
  <1>2. Bindings(m) = Finds(buckets_[m])
    BY DEF Bindings, Finds, found, find, capacity_
  <1>3. capacity_(m) \in Nat
    BY DEF MapInv, capacity_
  <1>4. QED
    BY <1>1, <1>2, <1>3, FindsHeld DEF MapInv, Sized

(* The invariant, from the tables.                                         *)
TablesSound ==
    /\ buckets_ = [m \in Map |-> buckets_[m]] /\ size_ = [m \in Map |-> size_[m]]
    /\ \A m \in Map : /\ \E c \in Nat : Chained(buckets_[m], c)
                      /\ Sized(buckets_[m], size_[m])

LEMMA TablesHold ==
    TablesSound => MapInv /\ Maps = [m \in Map |-> Shown(Held(buckets_[m]))]
  <1> SUFFICES ASSUME TablesSound
               PROVE  MapInv /\ Maps = [m \in Map |-> Shown(Held(buckets_[m]))]
    OBVIOUS
  <1>1. ASSUME NEW m \in Map
        PROVE  /\ capacity_(m) \in Nat /\ Chained(buckets_[m], capacity_(m))
               /\ Bindings(m) = Shown(Held(buckets_[m]))
               /\ IsFiniteSet(DOMAIN Bindings(m)) /\ size_[m] = Cardinality(DOMAIN Bindings(m))
    <2>1. PICK c \in Nat : Chained(buckets_[m], c)
      BY DEF TablesSound
    <2>2. capacity_(m) = c
      BY <2>1, CapIs DEF Chained, capacity_
    <2>3. Bindings(m) = Finds(buckets_[m])
      BY DEF Bindings, Finds, found, find, capacity_
    <2>4. Bindings(m) = Shown(Held(buckets_[m]))
      BY <2>1, <2>3, FindsHeld
    <2>5. QED
      BY <2>1, <2>2, <2>4 DEF Sized, TablesSound
  <1>2. QED
    BY <1>1 DEF MapInv, Maps, TablesSound

LEMMA TablesHoldNext ==
    (TablesSound => MapInv /\ Maps = [m \in Map |-> Shown(Held(buckets_[m]))])'
  <1>1. [](TablesSound => MapInv /\ Maps = [m \in Map |-> Shown(Held(buckets_[m]))])
    BY TablesHold, PTL
  <1>2. QED
    BY <1>1, PTL

(* Object m gets the table u.                                              *)
Becomes(m, u) ==
    /\ buckets_' = [buckets_ EXCEPT ![m] = u]
    /\ size_' = [size_ EXCEPT ![m] = Cardinality(DOMAIN Shown(Held(u)))]

LEMMA Became ==
    ASSUME MapInv, NEW m \in Map, NEW u, \E c \in Nat : Chained(u, c),
           IsFiniteSet(DOMAIN Shown(Held(u))), Becomes(m, u)
    PROVE  MapInv' /\ Maps' = [Maps EXCEPT ![m] = Shown(Held(u))]
  <1>1. /\ buckets_ = [n \in Map |-> buckets_[n]] /\ size_ = [n \in Map |-> size_[n]]
        /\ buckets_' = [buckets_ EXCEPT ![m] = u]
        /\ size_' = [size_ EXCEPT ![m] = Cardinality(DOMAIN Shown(Held(u)))]
    BY DEF MapInv, Becomes
  <1>2. /\ buckets_' = [n \in Map |-> IF n = m THEN u ELSE buckets_[n]]
        /\ size_' = [n \in Map |-> IF n = m THEN Cardinality(DOMAIN Shown(Held(u)))
                                            ELSE size_[n]]
    <2>1. DOMAIN buckets_ = Map /\ DOMAIN size_ = Map
      BY <1>1
    <2>2. QED
      BY ONLY <1>1, <2>1
  <1>3. \A n \in Map : /\ buckets_'[n] = IF n = m THEN u ELSE buckets_[n]
                       /\ size_'[n] = IF n = m THEN Cardinality(DOMAIN Shown(Held(u)))
                                               ELSE size_[n]
    BY ONLY <1>2
  <1>4. buckets_' = [n \in Map |-> buckets_'[n]] /\ size_' = [n \in Map |-> size_'[n]]
    BY ONLY <1>2
  <1>5. ASSUME NEW n \in Map
        PROVE  (\E c \in Nat : Chained(buckets_'[n], c)) /\ Sized(buckets_'[n], size_'[n])
    <2>1. CASE n = m
      BY <1>3, <2>1 DEF Sized
    <2>2. CASE n # m
      BY <1>3, <2>2, BindingsAre
    <2>3. QED
      BY <2>1, <2>2
  <1>6. TablesSound'
    BY <1>4, <1>5 DEF TablesSound
  <1>7. (TablesSound => MapInv /\ Maps = [n \in Map |-> Shown(Held(buckets_[n]))])'
    BY TablesHoldNext
  <1>8. MapInv' /\ Maps' = [n \in Map |-> Shown(Held(buckets_'[n]))]
    BY <1>6, <1>7
  <1>9. Maps = [n \in Map |-> Shown(Held(buckets_[n]))]
    BY BindingsAre DEF Maps
  <1>10. [n \in Map |-> Shown(Held(buckets_'[n]))] = [Maps EXCEPT ![m] = Shown(Held(u))]
    BY <1>3, <1>9
  <1>11. QED
    BY <1>8, <1>10

(* A table that gets an entry, and one that loses it.                      *)
LEMMA PutBecomes ==
    ASSUME MapInv, NEW m \in Map, NEW k \in Key, NEW v \in Value, NEW u,
           \E c \in Nat : Chained(u, c),
           Held(u) = {e \in Held(buckets_[m]) : e.key # k} \cup {[key |-> k, value |-> v]},
           buckets_' = [buckets_ EXCEPT ![m] = u],
           size_' = [size_ EXCEPT ![m] = IF k \in DOMAIN Bindings(m) THEN @ ELSE @ + 1]
    PROVE  MapInv' /\ Maps' = AbstractMap!Put(Maps, m, k, v)
  <1> PICK H, G : H = Held(buckets_[m]) /\ G = Held(u)
    OBVIOUS
  <1> PICK D : D = DOMAIN Shown(H)
    OBVIOUS
  <1>1. /\ Bindings(m) = Shown(H) /\ IsFiniteSet(D) /\ size_[m] = Cardinality(D)
        /\ Maps[m] = Shown(H)
    BY BindingsAre DEF Sized, Maps
  <1>2. H \subseteq Entry /\ Once(H)
    <2>1. PICK c \in Nat : Chained(buckets_[m], c)
      BY BindingsAre
    <2>2. QED
      BY <2>1, HeldIs
  <1>3. Shown(G) = [j \in D \cup {k} |-> IF j = k THEN v ELSE Shown(H)[j]]
    <2>1. G = {e \in H : e.key # k} \cup {[key |-> k, value |-> v]}
      OBVIOUS
    <2>2. QED
      BY ONLY <1>2, <2>1, PutShows, k \in Key, v \in Value, D = DOMAIN Shown(H)
  <1>4. DOMAIN Shown(G) = D \cup {k}
    BY <1>3
  <1>5. /\ IsFiniteSet(D \cup {k})
        /\ Cardinality(D \cup {k}) = IF k \in D THEN Cardinality(D) ELSE Cardinality(D) + 1
    BY <1>1, FS_AddElement
  <1>6. Becomes(m, u)
    <2>1. size_' = [size_ EXCEPT ![m] = Cardinality(DOMAIN Shown(Held(u)))]
      BY <1>1, <1>4, <1>5
    <2>2. QED
      BY <2>1 DEF Becomes
  <1>7. MapInv' /\ Maps' = [Maps EXCEPT ![m] = Shown(Held(u))]
    BY <1>4, <1>5, <1>6, Became
  <1>8. AbstractMap!Put(Maps, m, k, v) = [Maps EXCEPT ![m] = Shown(G)]
    BY <1>1, <1>3 DEF AbstractMap!Put
  <1>9. QED
    BY <1>7, <1>8

LEMMA RemoveBecomes ==
    ASSUME MapInv, NEW m \in Map, NEW k \in DOMAIN Bindings(m), NEW u,
           \E c \in Nat : Chained(u, c),
           Held(u) = {e \in Held(buckets_[m]) : e.key # k},
           buckets_' = [buckets_ EXCEPT ![m] = u],
           size_' = [size_ EXCEPT ![m] = @ - 1]
    PROVE  MapInv' /\ Maps' = AbstractMap!Remove(Maps, m, k)
  <1> PICK H, G : H = Held(buckets_[m]) /\ G = Held(u)
    OBVIOUS
  <1> PICK D : D = DOMAIN Shown(H)
    OBVIOUS
  <1>1. /\ Bindings(m) = Shown(H) /\ IsFiniteSet(D) /\ size_[m] = Cardinality(D)
        /\ Maps[m] = Shown(H) /\ k \in D
    BY BindingsAre DEF Sized, Maps
  <1>2. H \subseteq Entry /\ Once(H)
    <2>1. PICK c \in Nat : Chained(buckets_[m], c)
      BY BindingsAre
    <2>2. QED
      BY <2>1, HeldIs
  <1>3. Shown(G) = [j \in D \ {k} |-> Shown(H)[j]]
    <2>1. G = {e \in H : e.key # k}
      OBVIOUS
    <2>2. QED
      BY ONLY <1>2, <2>1, RemoveShows, D = DOMAIN Shown(H)
  <1>4. DOMAIN Shown(G) = D \ {k}
    BY <1>3
  <1>5. IsFiniteSet(D \ {k}) /\ Cardinality(D \ {k}) = Cardinality(D) - 1
    BY <1>1, FS_RemoveElement
  <1>6. Becomes(m, u)
    <2>1. size_' = [size_ EXCEPT ![m] = Cardinality(DOMAIN Shown(Held(u)))]
      BY <1>1, <1>4, <1>5
    <2>2. QED
      BY <2>1 DEF Becomes
  <1>7. MapInv' /\ Maps' = [Maps EXCEPT ![m] = Shown(Held(u))]
    BY <1>4, <1>5, <1>6, Became
  <1>8. AbstractMap!Remove(Maps, m, k) = [Maps EXCEPT ![m] = Shown(G)]
    BY <1>1, <1>3 DEF AbstractMap!Remove
  <1>9. QED
    BY <1>7, <1>8

LEMMA EmptyShows == Shown({}) = AbstractMap!Nothing /\ DOMAIN Shown({}) = {}
  <1>1. {e.key : e \in {}} = {}
    OBVIOUS
  <1>2. Shown({}) = [k \in {} |-> (CHOOSE e \in {} : e.key = k).value]
    BY <1>1 DEF Shown
  <1> PICK f, g : f = Shown({}) /\ g = AbstractMap!Nothing
    OBVIOUS
  <1>3. f = [k \in {} |-> f[k]] /\ g = [k \in {} |-> g[k]] /\ DOMAIN f = {}
    BY <1>2 DEF AbstractMap!Nothing
  <1>4. QED
    BY <1>3

(* Bindings of an object whose key is found.                               *)
LEMMA FoundIs ==
    ASSUME MapInv, NEW m \in Map, NEW k \in Key
    PROVE  /\ found(m, k) <=> k \in DOMAIN Bindings(m)
           /\ found(m, k) <=> \E e \in Held(buckets_[m]) : e.key = k
  <1>1. Bindings(m) = Shown(Held(buckets_[m]))
    BY BindingsAre
  <1>2. k \in DOMAIN Shown(Held(buckets_[m])) <=> \E e \in Held(buckets_[m]) : e.key = k
    BY DEF Shown
  <1>3. DOMAIN Bindings(m) = {j \in Key : found(m, j)}
    BY DEF Bindings
  <1>4. QED
    BY <1>1, <1>2, <1>3

LEMMA ExistingPut ==
    ASSUME MapInv, NEW m \in Map, NEW k \in Key, NEW v \in Value, insert_existing(m, k, v)
    PROVE  MapInv' /\ Maps' = AbstractMap!Put(Maps, m, k, v)
  <1> PICK t, i, p : t = buckets_[m] /\ i = bucket_index(k, capacity_(m)) /\ p = Position(t, k)
    OBVIOUS
  <1> PICK u : u = [t EXCEPT ![i][p].value = v]
    OBVIOUS
  <1>1. PICK c \in Nat : Chained(t, c)
    BY BindingsAre
  <1>2. capacity_(m) = c /\ i = bucket_index(k, c)
    BY <1>1, CapIs DEF Chained, capacity_
  <1>3. found(m, k) /\ \E e \in Held(t) : e.key = k
    BY FoundIs DEF insert_existing
  <1>4. i \in 0..(c - 1) /\ p \in 1..Len(t[i]) /\ t[i][p].key = k
    BY <1>1, <1>2, <1>3, Search
  <1>5. Overwritten(t, u, c, k, v)
    BY <1>1, <1>2, <1>4, ValueReplaced
  <1>6. buckets_' = [buckets_ EXCEPT ![m] = u]
    BY DEF insert_existing
  <1>7. k \in DOMAIN Bindings(m) /\ size_' = size_ /\ size_ = [n \in Map |-> size_[n]]
    BY <1>3, FoundIs DEF insert_existing, MapInv
  <1>8. size_' = [size_ EXCEPT ![m] = IF k \in DOMAIN Bindings(m) THEN @ ELSE @ + 1]
    BY <1>7
  <1>9. QED
    BY <1>5, <1>6, <1>8, PutBecomes DEF Overwritten

LEMMA NewPut ==
    ASSUME MapInv, NEW m \in Map, NEW k \in Key, NEW v \in Value,
           ~found(m, k), NewNode(m, k, v)
    PROVE  MapInv' /\ Maps' = AbstractMap!Put(Maps, m, k, v)
  <1> PICK t, g, n : /\ t = buckets_[m] /\ g = Grown(Usable(t), size_[m])
                     /\ n = [key |-> k, value |-> v]
    OBVIOUS
  <1> PICK u : u = PushNode(g, Cardinality(DOMAIN g), n)
    OBVIOUS
  <1>1. (\E c \in Nat : Chained(t, c)) /\ size_[m] \in Nat
    BY BindingsAre, FS_CardinalityType DEF Sized
  <1>2. PICK c \in Nat \ {0} : Chained(g, c) /\ Held(g) = Held(t)
    BY <1>1, GrownHolds
  <1>3. Cardinality(DOMAIN g) = c
    BY <1>2, CapIs DEF Chained
  <1>4. \A e \in Held(t) : e.key # k
    BY FoundIs
  <1>5. n \in Entry /\ n.key = k
    BY DEF Entry
  <1>6. Chained(u, c) /\ Held(u) = Held(g) \cup {n}
    BY <1>2, <1>3, <1>4, <1>5, PushHolds
  <1>7. Held(u) = {e \in Held(t) : e.key # k} \cup {[key |-> k, value |-> v]}
    BY <1>2, <1>4, <1>6
  <1>8. buckets_' = [buckets_ EXCEPT ![m] = u]
    BY DEF NewNode
  <1>9. k \notin DOMAIN Bindings(m)
    BY FoundIs
  <1>10. size_' = [size_ EXCEPT ![m] = IF k \in DOMAIN Bindings(m) THEN @ ELSE @ + 1]
    BY <1>9 DEF NewNode
  <1>11. (\E d \in Nat : Chained(u, d))
    BY <1>6
  <1>12. QED
    BY <1>7, <1>8, <1>10, <1>11, PutBecomes

LEMMA EraseRemoves ==
    ASSUME MapInv, NEW m \in Map, NEW k \in Key, erase(m, k)
    PROVE  MapInv' /\ Maps' = AbstractMap!Remove(Maps, m, k)
  <1> PICK t, i, p : t = buckets_[m] /\ i = bucket_index(k, capacity_(m)) /\ p = Position(t, k)
    OBVIOUS
  <1> PICK u : u = [t EXCEPT ![i] = RemoveAt(@, p)]
    OBVIOUS
  <1>1. PICK c \in Nat : Chained(t, c)
    BY BindingsAre
  <1>2. capacity_(m) = c /\ i = bucket_index(k, c)
    BY <1>1, CapIs DEF Chained, capacity_
  <1>3. found(m, k) /\ \E e \in Held(t) : e.key = k
    BY FoundIs DEF erase
  <1>4. i \in 0..(c - 1) /\ p \in 1..Len(t[i]) /\ t[i][p].key = k
    BY <1>1, <1>2, <1>3, Search
  <1>5. Chained(u, c) /\ Held(u) = {e \in Held(t) : e.key # k}
    BY <1>1, <1>2, <1>4, NodeErased
  <1>6. buckets_' = [buckets_ EXCEPT ![m] = u] /\ size_' = [size_ EXCEPT ![m] = @ - 1]
    BY DEF erase
  <1>7. k \in DOMAIN Bindings(m)
    BY <1>3, FoundIs
  <1>8. QED
    BY <1>5, <1>6, <1>7, RemoveBecomes

LEMMA ClearEmpties ==
    ASSUME MapInv, NEW m \in Map, clear(m)
    PROVE  MapInv' /\ Maps' = AbstractMap!Empty(Maps, m)
  <1> PICK u : u = NoNodes(capacity_(m))
    OBVIOUS
  <1>1. capacity_(m) \in Nat
    BY DEF MapInv
  <1>2. Chained(u, capacity_(m)) /\ Held(u) = {}
    BY <1>1, NoNodesHold
  <1>3. /\ IsFiniteSet(DOMAIN Shown(Held(u))) /\ Cardinality(DOMAIN Shown(Held(u))) = 0
        /\ Shown(Held(u)) = AbstractMap!Nothing
    BY <1>2, EmptyShows, FS_EmptySet
  <1>4. Becomes(m, u)
    BY <1>3 DEF clear, Becomes
  <1>5. MapInv' /\ Maps' = [Maps EXCEPT ![m] = Shown(Held(u))]
    BY <1>1, <1>2, <1>3, <1>4, Became
  <1>6. QED
    BY <1>3, <1>5 DEF AbstractMap!Empty

LEMMA ReserveShowsNothing ==
    ASSUME MapInv, NEW m \in Map, NEW n \in Reserve, reserve(m, n)
    PROVE  MapInv' /\ Maps' = Maps
  <1> PICK t, u : t = buckets_[m] /\ u = rehash_to(t, n)
    OBVIOUS
  <1>1. n \in Nat
    BY MapAssumption
  <1>2. /\ \E c \in Nat : Chained(t, c)
        /\ Bindings(m) = Shown(Held(t)) /\ Sized(t, size_[m])
    BY BindingsAre
  <1>3. (\E c \in Nat : Chained(u, c)) /\ Held(u) = Held(t)
    BY <1>1, <1>2, RehashHolds
  <1>4. Becomes(m, u)
    <2>1. size_' = size_ /\ size_ = [l \in Map |-> size_[l]]
      BY DEF reserve, MapInv
    <2>2. size_[m] = Cardinality(DOMAIN Shown(Held(u)))
      BY <1>2, <1>3 DEF Sized
    <2>3. size_' = [size_ EXCEPT ![m] = Cardinality(DOMAIN Shown(Held(u)))]
      BY <2>1, <2>2
    <2>4. QED
      BY <2>3 DEF reserve, Becomes
  <1>5. MapInv' /\ Maps' = [Maps EXCEPT ![m] = Shown(Held(u))]
    BY <1>2, <1>3, <1>4, Became DEF Sized
  <1>6. [Maps EXCEPT ![m] = Shown(Held(u))] = Maps
    BY <1>2, <1>3 DEF Maps
  <1>7. QED
    BY <1>5, <1>6

LEMMA MoveMoves ==
    ASSUME MapInv, NEW a \in Map, NEW b \in Map, move(a, b)
    PROVE  MapInv' /\ Maps' = AbstractMap!Move(Maps, a, b)
  <1> PICK u : u = NoNodes(0)
    OBVIOUS
  <1>1. /\ a # b /\ DOMAIN buckets_ = Map /\ DOMAIN size_ = Map
        /\ buckets_' = [buckets_ EXCEPT ![a] = buckets_[b], ![b] = u]
        /\ size_' = [size_ EXCEPT ![a] = size_[b], ![b] = 0]
    BY DEF move, MapInv
  <1>2. /\ buckets_' = [n \in Map |-> buckets_'[n]] /\ size_' = [n \in Map |-> size_'[n]]
        /\ \A n \in Map : /\ n = b => buckets_'[n] = u /\ size_'[n] = 0
                          /\ n = a => buckets_'[n] = buckets_[b] /\ size_'[n] = size_[b]
                          /\ n # a /\ n # b => /\ buckets_'[n] = buckets_[n]
                                               /\ size_'[n] = size_[n]
    BY ONLY <1>1, a \in Map, b \in Map
  <1>3. Chained(u, 0) /\ Held(u) = {} /\ 0 \in Nat
    BY NoNodesHold
  <1>4. Sized(u, 0) /\ Shown(Held(u)) = AbstractMap!Nothing
    BY <1>3, EmptyShows, FS_EmptySet DEF Sized
  <1>5. ASSUME NEW n \in Map
        PROVE  (\E c \in Nat : Chained(buckets_'[n], c)) /\ Sized(buckets_'[n], size_'[n])
    <2>1. CASE n = b
      BY <1>2, <1>3, <1>4, <2>1
    <2>2. CASE n = a
      BY <1>1, <1>2, <2>2, BindingsAre
    <2>3. CASE n # a /\ n # b
      BY <1>2, <2>3, BindingsAre
    <2>4. QED
      BY <2>1, <2>2, <2>3
  <1>6. TablesSound'
    BY <1>2, <1>5 DEF TablesSound
  <1>7. MapInv' /\ Maps' = [n \in Map |-> Shown(Held(buckets_'[n]))]
    BY <1>6, TablesHoldNext
  <1>8. \A n \in Map : Maps[n] = Shown(Held(buckets_[n]))
    BY BindingsAre DEF Maps
  <1>9. Maps' = [n \in Map |-> IF n = b THEN AbstractMap!Nothing
                                ELSE IF n = a THEN Maps[b] ELSE Maps[n]]
    BY <1>1, <1>2, <1>4, <1>7, <1>8
  <1> PICK f, z : f = Maps /\ z = AbstractMap!Nothing
    OBVIOUS
  <1>10. DOMAIN f = Map
    BY DEF Maps
  <1>11. [f EXCEPT ![a] = f[b], ![b] = z]
            = [n \in Map |-> IF n = b THEN z ELSE IF n = a THEN f[b] ELSE f[n]]
    BY ONLY <1>1, <1>10, a \in Map, b \in Map
  <1>12. AbstractMap!Move(f, a, b) = [f EXCEPT ![a] = f[b], ![b] = z]
    BY <1>1 DEF AbstractMap!Move
  <1>13. QED
    BY <1>7, <1>9, <1>11, <1>12

LEMMA MapInitHolds == MapInit => MapInv /\ Maps = [m \in Map |-> AbstractMap!Nothing]
  <1> SUFFICES ASSUME MapInit PROVE MapInv /\ Maps = [m \in Map |-> AbstractMap!Nothing]
    OBVIOUS
  <1> PICK cap : cap = next_power_of_two(InitialCapacity)
    OBVIOUS
  <1>1. cap \in Nat
    BY MapAssumption, NextPower
  <1> PICK u : u = NoNodes(cap)
    OBVIOUS
  <1>2. Chained(u, cap) /\ Held(u) = {}
    BY <1>1, NoNodesHold
  <1>3. Sized(u, 0) /\ Shown(Held(u)) = AbstractMap!Nothing
    BY <1>2, EmptyShows, FS_EmptySet DEF Sized
  <1>4. buckets_ = [m \in Map |-> u] /\ size_ = [m \in Map |-> 0]
    BY DEF MapInit
  <1>5. TablesSound
    BY <1>1, <1>2, <1>3, <1>4 DEF TablesSound
  <1>6. QED
    BY <1>3, <1>4, <1>5, TablesHold

LEMMA MapStep ==
    ASSUME MapInv, [MapNext]_map_vars
    PROVE  MapInv' /\ (Maps' \in AbstractMap!After(Maps) \/ Maps' = Maps)
  <1> DEFINE Done == MapInv' /\ (Maps' \in AbstractMap!After(Maps) \/ Maps' = Maps)
  <1>1. ASSUME NEW m \in Map, NEW k \in Key, NEW v \in Value, insert_existing(m, k, v)
        PROVE  Done
    BY <1>1, ExistingPut DEF AbstractMap!After
  <1>2. ASSUME NEW m \in Map, NEW k \in Key, NEW v \in Value, insert_new(m, k, v)
        PROVE  Done
    <2>1. MapInv' /\ Maps' = AbstractMap!Put(Maps, m, k, v)
      BY <1>2, NewPut DEF insert_new
    <2>2. QED
      BY <2>1 DEF AbstractMap!After
  <1>3. ASSUME NEW m \in Map, NEW k \in Key, subscript_new(m, k) PROVE Done
    <2>1. Default \in Value
      BY MapAssumption
    <2>2. MapInv' /\ Maps' = AbstractMap!Put(Maps, m, k, Default)
      BY <1>3, <2>1, NewPut DEF subscript_new
    <2>3. QED
      BY <2>1, <2>2 DEF AbstractMap!After
  <1>4. ASSUME NEW m \in Map, NEW k \in Key, erase(m, k) PROVE Done
    BY <1>4, EraseRemoves DEF AbstractMap!After
  <1>5. ASSUME NEW m \in Map, clear(m) PROVE Done
    BY <1>5, ClearEmpties DEF AbstractMap!After
  <1>6. ASSUME NEW m \in Map, NEW n \in Reserve, reserve(m, n) PROVE Done
    BY <1>6, ReserveShowsNothing
  <1>7. ASSUME NEW a \in Map, NEW b \in Map, move(a, b) PROVE Done
    BY <1>7, MoveMoves DEF AbstractMap!After
  <1>8. ASSUME UNCHANGED map_vars PROVE Done
    <2>1. buckets_' = buckets_ /\ size_' = size_
      BY <1>8 DEF map_vars
    <2>2. MapInv' /\ Maps' = Maps
      BY <2>1 DEF MapInv, Maps, Bindings, found, find, capacity_
    <2>3. QED
      BY <2>2
  <1> HIDE DEF Done
  <1>9. ASSUME MapNext PROVE Done
    BY <1>1, <1>2, <1>3, <1>4, <1>5, <1>6, <1>7, <1>9 DEF MapNext
  <1>10. Done
    BY <1>8, <1>9
  <1>11. QED
    BY <1>10 DEF Done

(* Every table of cstr_hash_map keeps each key in the chain of its index,  *)
(* once, and size() is the number of keys find knows.                      *)
THEOREM MapInvariant == MapSpec => []MapInv
  <1>1. MapInit => MapInv
    BY MapInitHolds
  <1>2. MapInv /\ [MapNext]_map_vars => MapInv'
    BY MapStep
  <1>3. QED
    BY <1>1, <1>2, PTL DEF MapSpec

(* cstr_hash_map implements the maps of KeyMap: insert, operator[], erase, *)
(* clear and the move assignment do to what find shows what they do to a   *)
(* partial function, and rehashing and reserve do nothing to it.           *)
THEOREM ChainsImplementMap == MapSpec => ImplementsMap
  <1>1. MapInit => AbstractMap!MapInit
    BY MapInitHolds DEF AbstractMap!MapInit, Maps
  <1>2. MapInv /\ [MapNext]_map_vars =>
            AbstractMap!MapNext \/ UNCHANGED [m \in Map |-> Bindings(m)]
    BY MapStep DEF AbstractMap!MapNext, Maps
  <1>3. QED
    BY <1>1, <1>2, MapInvariant, PTL DEF MapSpec, ImplementsMap, AbstractMap!MapSpec

=============================================================================

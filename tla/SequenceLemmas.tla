--------------------------- MODULE SequenceLemmas ---------------------------
(***************************************************************************)
(* What the proofs about several components need to know: of queues in     *)
(* which nothing is twice, the least and the greatest of some numbers,     *)
(* folds over positions, remainders and powers of two.                     *)
(***************************************************************************)
EXTENDS Integers, Sequences, FiniteSetsExt, TLAPS, SequenceTheorems, FiniteSetTheorems

IsIn(x, queue) == \E i \in 1 .. Len(queue) : queue[i] = x
Distinct(queue) ==
  \A i, k \in 1 .. Len(queue) : queue[i] = queue[k] => i = k

(* Pushing an element that is not in the queue leaves the others in it. *)
LEMMA AppendIsIn ==
  ASSUME NEW S, NEW queue \in Seq(S), NEW r \in S
  PROVE  /\ Append(queue, r) \in Seq(S)
         /\ Len(Append(queue, r)) = Len(queue) + 1
         /\ \A x : IsIn(x, Append(queue, r)) <=> IsIn(x, queue) \/ x = r
         /\ Distinct(queue) /\ ~IsIn(r, queue) => Distinct(Append(queue, r))
<1> DEFINE longer == Append(queue, r)
<1>1. /\ Len(queue) \in Nat /\ longer \in Seq(S)
      /\ Len(longer) = Len(queue) + 1
      /\ \A i \in 1 .. Len(queue) : longer[i] = queue[i]
      /\ longer[Len(queue) + 1] = r
  BY AppendProperties, LenProperties
<1> HIDE DEF longer
<1>2. \A i \in 1 .. Len(longer) :
        \/ i = Len(queue) + 1 /\ longer[i] = r
        \/ i \in 1 .. Len(queue) /\ longer[i] = queue[i]
  BY <1>1
<1>3. \A i \in 1 .. Len(queue) : i \in 1 .. Len(longer)
  BY <1>1
<1>4. Len(queue) + 1 \in 1 .. Len(longer)
  BY <1>1
<1>5. \A x : IsIn(x, longer) <=> IsIn(x, queue) \/ x = r
  BY <1>1, <1>2, <1>3, <1>4 DEF IsIn
<1>6. ASSUME Distinct(queue), ~IsIn(r, queue) PROVE Distinct(longer)
  BY <1>1, <1>2, <1>6 DEF IsIn, Distinct
<1> QED
  BY <1>1, <1>5, <1>6 DEF longer

(* Popping takes the oldest element out and leaves the others in. *)
LEMMA TailIsIn ==
  ASSUME NEW S, NEW queue \in Seq(S), queue # <<>>
  PROVE  /\ Tail(queue) \in Seq(S) /\ Head(queue) \in S
         /\ Len(Tail(queue)) = Len(queue) - 1
         /\ IsIn(Head(queue), queue)
         /\ \A x : IsIn(x, Tail(queue)) => IsIn(x, queue)
         /\ Distinct(queue) => /\ Distinct(Tail(queue)) /\ ~IsIn(Head(queue), Tail(queue))
                               /\ \A x : IsIn(x, queue) /\ x # Head(queue) => IsIn(x, Tail(queue))
<1> DEFINE rest == Tail(queue)
<1>1. /\ Len(queue) \in Nat \ {0} /\ rest \in Seq(S) /\ Head(queue) \in S
      /\ Len(rest) = Len(queue) - 1 /\ Head(queue) = queue[1]
      /\ \A i \in 1 .. Len(rest) : rest[i] = queue[i + 1]
  BY HeadTailProperties, EmptySeq
<1> HIDE DEF rest
<1>2. 1 \in 1 .. Len(queue) /\ \A i \in 1 .. Len(rest) : i + 1 \in 2 .. Len(queue)
  BY <1>1
<1>3. IsIn(Head(queue), queue) /\ \A x : IsIn(x, rest) => IsIn(x, queue)
  BY <1>1, <1>2 DEF IsIn
<1>4. ASSUME Distinct(queue) PROVE Distinct(rest) /\ ~IsIn(Head(queue), rest)
  BY <1>1, <1>2, <1>4 DEF IsIn, Distinct
<1>5. ASSUME NEW x, IsIn(x, queue), x # Head(queue) PROVE IsIn(x, rest)
  <2>1. PICK i \in 1 .. Len(queue) : queue[i] = x
    BY <1>5 DEF IsIn
  <2>2. i # 1 /\ i - 1 \in 1 .. Len(rest) /\ rest[i - 1] = x
    BY <1>1, <1>5, <2>1
  <2> QED
    BY <2>2 DEF IsIn
<1> QED
  BY <1>1, <1>3, <1>4, <1>5 DEF rest

(* An element that is put before the others. *)
LEMMA PrependIsIn ==
  ASSUME NEW S, NEW queue \in Seq(S), NEW r \in S
  PROVE  /\ <<r>> \o queue \in Seq(S)
         /\ \A x : IsIn(x, <<r>> \o queue) <=> IsIn(x, queue) \/ x = r
         /\ Distinct(queue) /\ ~IsIn(r, queue) => Distinct(<<r>> \o queue)
<1> DEFINE longer == <<r>> \o queue
<1>1. /\ Len(queue) \in Nat /\ longer \in Seq(S) /\ Len(longer) = Len(queue) + 1
      /\ longer[1] = r /\ \A i \in 1 .. Len(queue) : longer[i + 1] = queue[i]
  OBVIOUS
<1> HIDE DEF longer
<1>2. \A i \in 1 .. Len(longer) :
        \/ i = 1 /\ longer[i] = r
        \/ i - 1 \in 1 .. Len(queue) /\ longer[i] = queue[i - 1]
  <2> SUFFICES ASSUME NEW i \in 1 .. Len(longer), i # 1
               PROVE  i - 1 \in 1 .. Len(queue) /\ longer[i] = queue[i - 1]
    BY <1>1
  <2>1. i - 1 \in 1 .. Len(queue) /\ (i - 1) + 1 = i
    BY <1>1
  <2> QED
    BY <1>1, <2>1
<1>3. 1 \in 1 .. Len(longer) /\ \A i \in 1 .. Len(queue) : i + 1 \in 1 .. Len(longer)
  BY <1>1
<1>4. ASSUME NEW x PROVE IsIn(x, longer) <=> IsIn(x, queue) \/ x = r
  <2>1. ASSUME IsIn(x, longer) PROVE IsIn(x, queue) \/ x = r
    <3>1. PICK i \in 1 .. Len(longer) : longer[i] = x
      BY <2>1 DEF IsIn
    <3> QED
      BY <1>2, <3>1, Zenon DEF IsIn
  <2>2. ASSUME IsIn(x, queue) PROVE IsIn(x, longer)
    <3>1. PICK i \in 1 .. Len(queue) : queue[i] = x
      BY <2>2 DEF IsIn
    <3>2. i + 1 \in 1 .. Len(longer) /\ longer[i + 1] = x
      BY <1>1, <1>3, <3>1
    <3> QED
      BY <3>2, Zenon DEF IsIn
  <2>3. ASSUME x = r PROVE IsIn(x, longer)
    BY <1>1, <1>3, <2>3, Zenon DEF IsIn
  <2> QED
    BY <2>1, <2>2, <2>3
<1>5. ASSUME Distinct(queue), ~IsIn(r, queue) PROVE Distinct(longer)
  <2> SUFFICES ASSUME NEW i \in 1 .. Len(longer), NEW k \in 1 .. Len(longer),
                      longer[i] = longer[k]
               PROVE  i = k
    BY DEF Distinct
  <2>1. CASE i = 1 \/ k = 1
    BY <1>2, <1>5, <2>1 DEF IsIn
  <2>2. CASE i # 1 /\ k # 1
    <3>1. i - 1 = k - 1
      BY <1>2, <1>5, <2>2 DEF Distinct
    <3> QED
      BY <3>1
  <2> QED
    BY <2>1, <2>2
<1> QED
  BY <1>1, <1>4, <1>5 DEF longer

(* A sequence without repetition has as many elements as places. *)
LEMMA DistinctCount ==
  ASSUME NEW S, NEW queue \in Seq(S), Distinct(queue), NEW R, \A x : x \in R <=> IsIn(x, queue)
  PROVE  IsFiniteSet(R) /\ Cardinality(R) = Len(queue)
<1> DEFINE n == Len(queue)
           f == [i \in 1 .. n |-> queue[i]]
<1>1. n \in Nat
  OBVIOUS
<1>2. f \in Bijection(1 .. n, R)
  <2>1. f \in [1 .. n -> R] /\ \A x \in R : \E i \in 1 .. n : f[i] = x
    BY DEF IsIn
  <2>2. \A i, k \in 1 .. n : f[i] = f[k] => i = k
    BY DEF Distinct
  <2> QED
    BY <2>1, <2>2, Zenon DEF Bijection, Injection, Surjection, IsInjective
<1>3. IsFiniteSet(1 .. n) /\ Cardinality(1 .. n) = n
  BY <1>1, FS_Interval
<1> HIDE DEF f, n
<1>4. IsFiniteSet(R) /\ Cardinality(R) = Cardinality(1 .. n)
  BY <1>2, <1>3, FS_Bijection DEF ExistsBijection
<1> QED
  BY <1>3, <1>4 DEF n

(* Some natural numbers have a least one. *)
LEMMA LeastIsIn ==
  ASSUME NEW S \in SUBSET Nat, S # {}
  PROVE  Min(S) \in S /\ \A y \in S : Min(S) <= y
<1> DEFINE R == OpToRel(<, Nat)
<1>1. \A x, y \in Nat : y < x => <<y, x>> \in R
  BY DEF OpToRel
<1>2. IsWellFoundedOn(R, Nat)
  BY NatLessThanWellFounded
<1> HIDE DEF R
<1>3. \E x \in S : \A y \in S : x <= y
  <2>1. PICK x \in S : \A y \in S : ~(<<y, x>> \in R)
    BY <1>2, WFMin
  <2>2. \A y \in S : ~(y < x)
    BY <1>1, <2>1
  <2> QED
    BY <2>2
<1> QED
  BY <1>3 DEF Min

(* Some natural numbers have a greatest one if they have a bound. *)
LEMMA GreatestIsIn ==
  ASSUME NEW n \in Nat, NEW S \in SUBSET (0 .. n), S # {}
  PROVE  Max(S) \in S /\ \A y \in S : Max(S) >= y
<1> DEFINE T == {n - x : x \in S}
<1>1. T \in SUBSET Nat /\ T # {}
  <2>1. \A x \in S : n - x \in Nat
    OBVIOUS
  <2>2. PICK x : x \in S
    OBVIOUS
  <2>3. n - x \in T
    BY <2>2
  <2> QED
    BY <2>1, <2>3
<1>2. Min(T) \in T /\ \A y \in T : Min(T) <= y
  <2> HIDE DEF T
  <2> QED
    BY <1>1, LeastIsIn
<1>3. PICK x \in S : Min(T) = n - x
  BY <1>2
<1>4. ASSUME NEW y \in S PROVE x >= y
  <2>1. n - y \in T
    OBVIOUS
  <2>2. n - x <= n - y
    BY <1>2, <1>3, <2>1
  <2> QED
    BY <2>2
<1> QED
  BY <1>4 DEF Max

(* A fold over positions, taken from the least on, is well defined: the     *)
(* function in its definition exists.  (By the suffixes of the positions:   *)
(* one that is right from k + 1 on gives one that is right from k on.)      *)
FoldsBy(g, n, base, step) ==
  \A s \in SUBSET (1 .. n) :
    g[s] = IF s = {} THEN base ELSE step[<<Min(s), g[s \ {Min(s)}]>>]

LEMMA FoldExists ==
  ASSUME NEW n \in Nat, NEW A, NEW base \in A, NEW step \in [(1 .. n) \X A -> A]
  PROVE  \E g \in [SUBSET (1 .. n) -> A] : FoldsBy(g, n, base, step)
<1> DEFINE By(g, s) == IF s = {} THEN base ELSE step[<<Min(s), g[s \ {Min(s)}]>>]
           From(g, k) == \A s \in SUBSET (k .. n) : g[s] = By(g, s)
           Fails == {k \in 1 .. n + 1 : ~ \E g \in [SUBSET (1 .. n) -> A] : From(g, k)}
<1>1. \A s \in SUBSET (1 .. n) : s # {} => Min(s) \in s /\ \A y \in s : Min(s) <= y
  <2>1. \A s \in SUBSET (1 .. n) : s \in SUBSET Nat
    OBVIOUS
  <2> QED
    BY <2>1, LeastIsIn
<1>2. \A g \in [SUBSET (1 .. n) -> A], s \in SUBSET (1 .. n) : By(g, s) \in A
  <2> SUFFICES ASSUME NEW g \in [SUBSET (1 .. n) -> A], NEW s \in SUBSET (1 .. n), s # {}
               PROVE  By(g, s) \in A
    OBVIOUS
  <2>1. Min(s) \in 1 .. n /\ g[s \ {Min(s)}] \in A
    BY <1>1
  <2> QED
    BY <2>1
<1>3. Fails = {}
  <2> SUFFICES ASSUME Fails # {} PROVE FALSE
    OBVIOUS
  <2>1. PICK k \in Fails : \A y \in Fails : k >= y
    <3>1. Fails \in SUBSET (0 .. n + 1) /\ n + 1 \in Nat
      OBVIOUS
    <3> HIDE DEF Fails
    <3> QED
      BY <3>1, GreatestIsIn
  <2>2. k # n + 1
    <3> DEFINE g == [s \in SUBSET (1 .. n) |-> base]
    <3>1. g \in [SUBSET (1 .. n) -> A] /\ g[{}] = base
      OBVIOUS
    <3>2. n + 1 .. n = {}
      OBVIOUS
    <3>3. From(g, n + 1)
      BY <3>1, <3>2
    <3> HIDE DEF g, From
    <3> QED
      BY <3>1, <3>3
  <2>3. k \in 1 .. n /\ k + 1 \in 1 .. n + 1 /\ k + 1 \notin Fails
    <3>1. k \in 1 .. n + 1
      OBVIOUS
    <3>2. k \in 1 .. n /\ k + 1 \in 1 .. n + 1 /\ ~(k >= k + 1)
      BY <2>2, <3>1
    <3> HIDE DEF Fails
    <3> QED
      BY <2>1, <3>2
  <2>4. PICK g \in [SUBSET (1 .. n) -> A] : From(g, k + 1)
    <3> HIDE DEF From
    <3> QED
      BY <2>3
  <2> DEFINE h == [s \in SUBSET (1 .. n) |-> By(g, s)]
  <2>5. h \in [SUBSET (1 .. n) -> A]
    <3> HIDE DEF By
    <3> QED
      BY <1>2
  <2>6. \A s \in SUBSET (1 .. n) : h[s] = By(g, s)
    <3> HIDE DEF By
    <3> QED
      OBVIOUS
  <2>7. ASSUME NEW s \in SUBSET (k .. n) PROVE h[s] = By(h, s)
    <3> HIDE DEF h
    <3>1. s \in SUBSET (1 .. n)
      BY <2>3
    <3>2. CASE s = {}
      BY <2>6, <3>1, <3>2
    <3>3. CASE s # {}
      <4>1. s \ {Min(s)} \in SUBSET (k + 1 .. n)
        <5>1. Min(s) \in s /\ \A y \in s : Min(s) <= y
          BY <1>1, <3>1, <3>3
        <5>2. PICK least \in k .. n : least = Min(s)
          BY <5>1
        <5>3. \A y \in s : y \in k .. n /\ least <= y
          BY <5>1, <5>2
        <5>4. ASSUME NEW y \in s, y # least PROVE y \in k + 1 .. n
          BY <2>3, <5>3, <5>4
        <5> QED
          BY <5>2, <5>4
      <4>2. h[s \ {Min(s)}] = g[s \ {Min(s)}]
        <5>1. s \ {Min(s)} \in SUBSET (1 .. n)
          BY <3>1
        <5>2. g[s \ {Min(s)}] = By(g, s \ {Min(s)})
          <6> HIDE DEF By
          <6> QED
            BY <2>4, <4>1
        <5>3. h[s \ {Min(s)}] = By(g, s \ {Min(s)})
          <6> HIDE DEF By
          <6> QED
            BY <2>6, <5>1
        <5> QED
          BY <5>2, <5>3, Zenon
      <4>3. By(h, s) = By(g, s)
        BY <3>3, <4>2, Zenon
      <4> QED
        BY <2>6, <3>1, <4>3, Zenon
    <3> QED
      BY <3>2, <3>3
  <2>8. From(h, k)
    <3> HIDE DEF h, By
    <3> QED
      BY <2>7
  <2> HIDE DEF h, From
  <2> QED
    BY <2>1, <2>5, <2>8
<1>4. PICK g \in [SUBSET (1 .. n) -> A] : From(g, 1)
  <2>1. 1 \in 1 .. n + 1
    OBVIOUS
  <2> HIDE DEF From
  <2> QED
    BY <1>3, <2>1
<1> QED
  BY <1>4 DEF FoldsBy

(* Of each suffix of the positions, its least and the rest. *)
LEMMA SuffixIs ==
  ASSUME NEW n \in Nat, NEW k \in 1 .. n
  PROVE  Min(k .. n) = k /\ (k .. n) \ {k} = k + 1 .. n /\ k .. n # {}
<1>1. k \in k .. n /\ k .. n \in SUBSET Nat
  OBVIOUS
<1>2. Min(k .. n) \in k .. n /\ \A y \in k .. n : Min(k .. n) <= y
  BY <1>1, LeastIsIn
<1>3. PICK least \in k .. n : least = Min(k .. n)
  BY <1>2
<1>4. least <= k
  BY <1>1, <1>2, <1>3
<1>5. (k .. n) \ {k} = k + 1 .. n
  OBVIOUS
<1> QED
  BY <1>1, <1>3, <1>4, <1>5

(* Division rounds down, so that a remainder is never negative. *)
LEMMA RemainderIs ==
  ASSUME NEW n \in Int, NEW m \in Nat \ {0}
  PROVE  /\ n % m \in 0 .. m - 1
         /\ \E q \in Int : n = m * q + (n % m)
         /\ \A q \in Int, r \in 0 .. m - 1 : n = m * q + r => n % m = r
<1>1. n % m \in 0 .. m - 1
  OBVIOUS
<1>2. n \div m \in Int /\ n = m * (n \div m) + (n % m)
  <2>1. m \in Nat /\ m > 0
    OBVIOUS
  <2>2. n = m * (n \div m) + (n % m)
    BY <2>1
  <2> QED
    BY <2>2
<1>3. ASSUME NEW q \in Int, NEW r \in 0 .. m - 1, n = m * q + r PROVE n % m = r
  <2>1. r \in Nat /\ r < m /\ m \in Nat /\ m > 0
    OBVIOUS
  <2> QED
    BY <1>3, <2>1
<1> QED
  BY <1>1, <1>2, <1>3

(* Adding the least value before a remainder and after it: the one number   *)
(* of a range that is congruent to another.                                 *)
LEMMA CongruentIs ==
  ASSUME NEW n \in Int, NEW m \in Nat \ {0}, NEW low \in Int
  PROVE  LET r == ((n - low) % m) + low
         IN /\ r \in low .. low + m - 1
            /\ \E q \in Int : r = n - m * q
            /\ \A q \in Int, v \in low .. low + m - 1 : v = n - m * q => r = v
<1>1. PICK d \in Int : d = n - low
  OBVIOUS
<1>2. /\ d % m \in 0 .. m - 1
      /\ \E q \in Int : d = m * q + (d % m)
      /\ \A q \in Int, r \in 0 .. m - 1 : d = m * q + r => d % m = r
  BY RemainderIs
<1>3. PICK r \in 0 .. m - 1 : r = d % m
  BY <1>2
<1>4. r + low \in low .. low + m - 1
  OBVIOUS
<1>5. \E q \in Int : r + low = n - m * q
  <2>1. PICK q \in Int : d = m * q + r
    BY <1>2, <1>3
  <2>2. PICK x \in Int : x = m * q
    OBVIOUS
  <2>3. r + low = n - x
    BY <1>1, <2>1, <2>2
  <2> QED
    BY <2>2, <2>3
<1>6. ASSUME NEW q \in Int, NEW v \in low .. low + m - 1, v = n - m * q PROVE r + low = v
  <2>1. PICK x \in Int : x = m * q
    OBVIOUS
  <2>2. v - low \in 0 .. m - 1 /\ d = x + (v - low)
    BY <1>1, <1>6, <2>1
  <2>3. r = v - low
    BY <1>2, <1>3, <2>1, <2>2
  <2> QED
    BY <2>3
<1> QED
  BY <1>1, <1>3, <1>4, <1>5, <1>6

(* The powers of two are counts of sets, which is how they are known to be  *)
(* numbers, each twice the one before.                                      *)
LEMMA PowerOfTwo ==
  ASSUME NEW w \in Nat
  PROVE  2 ^ w \in Nat \ {0} /\ 2 ^ (w + 1) = 2 * 2 ^ w
<1> DEFINE P == SUBSET (1 .. w)
           Q == {A \cup {w + 1} : A \in P}
           f == [A \in P |-> A \cup {w + 1}]
<1>1. IsFiniteSet(P) /\ Cardinality(P) = 2 ^ w
  <2>1. IsFiniteSet(1 .. w) /\ Cardinality(1 .. w) = w
    BY FS_Interval
  <2> QED
    BY <2>1, FS_SUBSET
<1>2. Cardinality(SUBSET (1 .. w + 1)) = 2 ^ (w + 1)
  <2>1. IsFiniteSet(1 .. w + 1) /\ Cardinality(1 .. w + 1) = w + 1
    BY FS_Interval
  <2> QED
    BY <2>1, FS_SUBSET
<1>3. f \in Bijection(P, Q)
  <2>1. f \in [P -> Q] /\ \A B \in Q : \E A \in P : f[A] = B
    OBVIOUS
  <2>2. ASSUME NEW A \in P, NEW B \in P, f[A] = f[B] PROVE A = B
    <3>1. w + 1 \notin A /\ w + 1 \notin B /\ A \cup {w + 1} = B \cup {w + 1}
      BY <2>2
    <3> QED
      BY <3>1
  <2> QED
    BY <2>1, <2>2, Zenon DEF Bijection, Injection, Surjection, IsInjective
<1>4. IsFiniteSet(Q) /\ Cardinality(Q) = Cardinality(P)
  <2> HIDE DEF P, Q, f
  <2> QED
    BY <1>1, <1>3, FS_Bijection DEF ExistsBijection
<1>5. P \cap Q = {}
  OBVIOUS
<1>6. P \cup Q = SUBSET (1 .. w + 1)
  <2>1. ASSUME NEW A \in SUBSET (1 .. w + 1) PROVE A \in P \cup Q
    <3>1. A \ {w + 1} \in P
      OBVIOUS
    <3>2. CASE w + 1 \in A
      <4>1. A = (A \ {w + 1}) \cup {w + 1}
        BY <3>2
      <4> QED
        BY <3>1, <4>1
    <3>3. CASE w + 1 \notin A
      <4>1. A = A \ {w + 1}
        BY <3>3
      <4> QED
        BY <3>1, <4>1
    <3> QED
      BY <3>2, <3>3
  <2>2. ASSUME NEW A \in P \cup Q PROVE A \in SUBSET (1 .. w + 1)
    <3>1. \A B \in P : B \in SUBSET (1 .. w + 1)
      OBVIOUS
    <3>2. w + 1 \in 1 .. w + 1
      OBVIOUS
    <3> QED
      BY <3>1, <3>2
  <2> HIDE DEF P, Q
  <2> QED
    BY <2>1, <2>2
<1>7. Cardinality(P) \in Nat /\ Cardinality(P) # 0
  <2>1. {} \in P
    OBVIOUS
  <2> HIDE DEF P
  <2> QED
    BY <1>1, <2>1, FS_CardinalityType, FS_EmptySet
<1> HIDE DEF P, Q
<1>8. PICK c \in Nat \ {0} : c = Cardinality(P)
  BY <1>7
<1>9. Cardinality(P \cup Q) = c + c
  <2>1. Cardinality(P \cap Q) = 0
    BY <1>5, FS_EmptySet
  <2>2. Cardinality(P \cup Q) = Cardinality(P) + Cardinality(Q) - Cardinality(P \cap Q)
    BY <1>1, <1>4, FS_Union
  <2>3. Cardinality(P \cup Q) = c + c - 0
    BY <1>4, <1>8, <2>1, <2>2
  <2> QED
    BY <2>3
<1>10. 2 ^ w = c
  BY <1>1, <1>8
<1>11. 2 ^ (w + 1) = c + c
  BY <1>2, <1>6, <1>9
<1> QED
  BY <1>10, <1>11

(* A power of two divides those of larger exponents. *)
LEMMA PowerDivides ==
  ASSUME NEW w \in Nat, NEW v \in Nat, w <= v
  PROVE  \E q \in Nat \ {0} : 2 ^ v = 2 ^ w * q
<1> DEFINE K == {k \in Nat : w <= k /\ ~ \E q \in Nat \ {0} : 2 ^ k = 2 ^ w * q}
<1>1. SUFFICES ASSUME K # {} PROVE FALSE
  OBVIOUS
<1>2. PICK k \in K : \A y \in K : k <= y
  <2>1. K \in SUBSET Nat
    OBVIOUS
  <2> HIDE DEF K
  <2> QED
    BY <1>1, <2>1, LeastIsIn
<1>3. PICK m \in Nat \ {0} : m = 2 ^ w
  BY PowerOfTwo
<1>4. k # w
  <2>1. m = m * 1 /\ 1 \in Nat \ {0}
    BY <1>3
  <2> QED
    BY <1>2, <1>3, <2>1
<1>5. k - 1 \in Nat /\ w <= k - 1 /\ ~(k <= k - 1) /\ (k - 1) + 1 = k
  BY <1>2, <1>4
<1>6. PICK q \in Nat \ {0} : 2 ^ (k - 1) = m * q
  BY <1>2, <1>3, <1>5
<1>7. 2 ^ k = 2 * (m * q)
  BY <1>5, <1>6, PowerOfTwo
<1>8. 2 * (m * q) = m * (2 * q) /\ 2 * q \in Nat \ {0}
  BY <1>3, <1>6
<1> QED
  BY <1>2, <1>3, <1>7, <1>8

(* Powers of two grow. *)
LEMMA PowersGrow ==
  ASSUME NEW i \in Nat, NEW j \in Nat, i < j
  PROVE  2 ^ i < 2 ^ j
<1>1. PICK a \in Nat \ {0} : a = 2 ^ i /\ 2 ^ (i + 1) = 2 * a
  BY PowerOfTwo
<1>2. PICK b \in Nat \ {0} : b = 2 ^ (i + 1) /\ b = 2 * a
  BY <1>1
<1>3. PICK q \in Nat \ {0} : 2 ^ j = 2 ^ (i + 1) * q
  BY PowerDivides
<1>4. PICK c \in Nat : c = b * q /\ 2 ^ j = c
  BY <1>2, <1>3
<1>5. b <= c
  <2>1. PICK r \in Nat : q = r + 1
    <3>1. q - 1 \in Nat /\ q = (q - 1) + 1
      OBVIOUS
    <3> QED
      BY <3>1
  <2>2. PICK y \in Nat : y = b * r
    OBVIOUS
  <2>3. b * q = y + b
    BY <2>1, <2>2
  <2> QED
    BY <1>4, <2>3
<1> QED
  BY <1>1, <1>2, <1>4, <1>5
=============================================================================

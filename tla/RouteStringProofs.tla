------------------------- MODULE RouteStringProofs -------------------------
(***************************************************************************)
(* What RouteString's operators compute, for any template and any route:   *)
(* an instance is what the template describes, but for an empty route and  *)
(* for a last literal segment that the route prolongs.                     *)
(***************************************************************************)
EXTENDS RouteString, SequenceLemmas

(* The number of elements up to x. *)
Rank(S, x) == Cardinality({j \in S : j <= x})

(* Up to the next number there is one element more, if it is one. *)
LEMMA RankStep ==
  ASSUME NEW n \in Nat, NEW S \in SUBSET (1 .. n), NEW x \in Nat
  PROVE  /\ Rank(S, x) \in Nat
         /\ Rank(S, x + 1) = IF x + 1 \in S THEN Rank(S, x) + 1 ELSE Rank(S, x)
         /\ Rank(S, 0) = 0 /\ Rank(S, n) = Cardinality(S)
<1> DEFINE upto == {j \in S : j <= x}
           next == {j \in S : j <= x + 1}
<1>0. IsFiniteSet(S) /\ \A j \in S : j \in Nat /\ j >= 1 /\ j <= n
  <2>1. IsFiniteSet(1 .. n)
    BY FS_Interval
  <2>2. IsFiniteSet(S)
    BY <2>1, FS_Subset
  <2>3. \A j \in S : j \in Nat /\ j >= 1 /\ j <= n
    OBVIOUS
  <2> QED
    BY <2>2, <2>3
<1>1. \A j \in S : j <= x + 1 <=> j <= x \/ j = x + 1
  BY <1>0
<1>2. IsFiniteSet(upto) /\ Rank(S, x) = Cardinality(upto) /\ Rank(S, x) \in Nat
  <2>1. IsFiniteSet(upto)
    BY <1>0, FS_Subset
  <2> QED
    BY <2>1, FS_CardinalityType DEF Rank
<1>3. Rank(S, x + 1) = Cardinality(next)
  BY DEF Rank
<1>4. ASSUME x + 1 \in S PROVE Rank(S, x + 1) = Rank(S, x) + 1
  <2>1. next = upto \cup {x + 1}
    BY <1>1, <1>4
  <2>2. x + 1 \notin upto
    OBVIOUS
  <2> HIDE DEF upto, next
  <2>3. Cardinality(upto \cup {x + 1}) = Cardinality(upto) + 1
    BY <1>2, <2>2, FS_AddElement
  <2> QED
    BY <1>2, <1>3, <2>1, <2>3
<1>5. ASSUME x + 1 \notin S PROVE Rank(S, x + 1) = Rank(S, x)
  <2>1. next = upto
    BY <1>1, <1>5
  <2> HIDE DEF upto, next
  <2> QED
    BY <1>2, <1>3, <2>1
<1>6. {j \in S : j <= 0} = {} /\ {j \in S : j <= n} = S
  <2>1. \A j \in S : ~(j <= 0) /\ j <= n
    BY <1>0
  <2> QED
    BY <2>1
<1>7. Rank(S, 0) = 0 /\ Rank(S, n) = Cardinality(S)
  BY <1>6, FS_EmptySet DEF Rank
<1> QED
  BY <1>2, <1>4, <1>5, <1>7

(* Further on there are more. *)
LEMMA RankGrows ==
  ASSUME NEW n \in Nat, NEW S \in SUBSET (1 .. n), NEW x \in Nat, NEW y \in Nat, x <= y
  PROVE  /\ Rank(S, x) <= Rank(S, y)
         /\ y \in S /\ x < y => Rank(S, x) < Rank(S, y)
<1>1. IsFiniteSet(S) /\ \A j \in S : j \in Nat
  <2>1. IsFiniteSet(1 .. n)
    BY FS_Interval
  <2>2. IsFiniteSet(S)
    BY <2>1, FS_Subset
  <2>3. \A j \in S : j \in Nat
    OBVIOUS
  <2> QED
    BY <2>2, <2>3
<1>2. ASSUME NEW a \in Nat, NEW b \in Nat, a <= b PROVE Rank(S, a) <= Rank(S, b)
  <2> DEFINE A == {j \in S : j <= a}
             B == {j \in S : j <= b}
  <2>1. \A j \in S : j <= a => j <= b
    BY <1>1, <1>2
  <2>2. A \in SUBSET B
    BY <2>1
  <2>3. IsFiniteSet(B)
    BY <1>1, FS_Subset
  <2>4. Rank(S, a) = Cardinality(A) /\ Rank(S, b) = Cardinality(B)
    BY DEF Rank
  <2> HIDE DEF A, B
  <2> QED
    BY <2>2, <2>3, <2>4, FS_Subset
<1>3. ASSUME y \in S, x < y PROVE Rank(S, x) < Rank(S, y)
  <2>1. PICK z \in Nat : y = z + 1
    <3>1. y - 1 \in Nat /\ y = (y - 1) + 1
      BY <1>3
    <3> QED
      BY <3>1
  <2>2. Rank(S, x) <= Rank(S, z)
    BY <1>2, <1>3, <2>1
  <2>3. Rank(S, x) \in Nat /\ Rank(S, z) \in Nat /\ Rank(S, y) = Rank(S, z) + 1
    BY <1>3, <2>1, RankStep
  <2> QED
    BY <2>2, <2>3
<1> QED
  BY <1>2, <1>3

(* Nth is what its name says: the inverse of the rank. *)
LEMMA NthIs ==
  ASSUME NEW n \in Nat, NEW S \in SUBSET (1 .. n)
  PROVE  /\ Cardinality(S) \in Nat
         /\ \A k \in 1 .. Cardinality(S) : Nth(S, k) \in S /\ Rank(S, Nth(S, k)) = k
         /\ \A i \in S : Rank(S, i) \in 1 .. Cardinality(S) /\ Nth(S, Rank(S, i)) = i
<1>1. Cardinality(S) \in Nat /\ Cardinality(S) = Rank(S, n)
  BY RankStep
<1>2. \A i, j \in S : Rank(S, i) = Rank(S, j) => i = j
  <2>1. ASSUME NEW i \in S, NEW j \in S, i < j PROVE Rank(S, i) < Rank(S, j)
    BY <2>1, RankGrows
  <2>2. ASSUME NEW i \in S PROVE i \in Nat /\ Rank(S, i) \in Nat
    <3>1. i \in Nat
      OBVIOUS
    <3> QED
      BY <3>1, RankStep
  <2> QED
    BY <2>1, <2>2
<1>3. ASSUME NEW k \in 1 .. Cardinality(S) PROVE \E i \in S : Rank(S, i) = k
  <2> DEFINE T == {x \in 0 .. n : Rank(S, x) >= k}
  <2>1. T \in SUBSET Nat /\ n \in T
    BY <1>1, <1>3
  <2>2. PICK x \in T : \A y \in T : x <= y
    <3> HIDE DEF T
    <3>1. T # {}
      BY <2>1
    <3> QED
      BY <2>1, <3>1, LeastIsIn
  <2>3. x # 0
    BY <1>1, RankStep
  <2>4. PICK z \in Nat : x = z + 1 /\ z \in 0 .. n
    <3>1. x - 1 \in Nat /\ x = (x - 1) + 1 /\ x - 1 \in 0 .. n
      BY <2>3
    <3> QED
      BY <3>1
  <2>5. ~(Rank(S, z) >= k)
    BY <2>2, <2>4
  <2>6. /\ Rank(S, z) \in Nat /\ Rank(S, x) >= k
        /\ Rank(S, x) = IF x \in S THEN Rank(S, z) + 1 ELSE Rank(S, z)
    BY <2>4, RankStep
  <2>7. x \in S /\ Rank(S, x) = k
    BY <1>1, <2>5, <2>6
  <2> QED
    BY <2>7
<1>4. ASSUME NEW k \in 1 .. Cardinality(S) PROVE Nth(S, k) \in S /\ Rank(S, Nth(S, k)) = k
  BY <1>3 DEF Nth, Rank
<1>5. ASSUME NEW i \in S PROVE Rank(S, i) \in 1 .. Cardinality(S) /\ Nth(S, Rank(S, i)) = i
  <2>1. Rank(S, 0) < Rank(S, i) /\ Rank(S, i) <= Rank(S, n)
    <3>1. i \in Nat /\ 0 <= i /\ 0 < i /\ i <= n
      OBVIOUS
    <3> QED
      BY <3>1, RankGrows
  <2>2. Rank(S, i) \in 1 .. Cardinality(S)
    BY <1>1, <2>1, RankStep
  <2> QED
    BY <1>2, <1>4, <2>2
<1> QED
  BY <1>1, <1>4, <1>5

-----------------------------------------------------------------------------
(* std::find stops at the first symbol that is sought, or at the end. *)
LEMMA FindIs ==
  ASSUME NEW X, NEW s \in Seq(X), NEW i \in Nat \ {0}, NEW S
  PROVE  /\ Find(s, i, S) \in 1 .. Len(s) + 1
         /\ i <= Len(s) + 1 => i <= Find(s, i, S)
         /\ i > Len(s) => Find(s, i, S) = Len(s) + 1
         /\ Find(s, i, S) <= Len(s) => s[Find(s, i, S)] \in S /\ i <= Find(s, i, S)
         /\ \A j \in 1 .. Len(s) : i <= j /\ j < Find(s, i, S) => s[j] \notin S
<1> DEFINE there == {j \in i .. Len(s) : s[j] \in S} \cup {Len(s) + 1}
<1>1. Len(s) \in Nat
  BY LenProperties
<1>2. there \in SUBSET Nat /\ there # {} /\ there \subseteq 1 .. Len(s) + 1
  BY <1>1
<1>3. Find(s, i, S) = Min(there)
  BY DEF Find
<1>4. Min(there) \in there /\ \A y \in there : Min(there) <= y
  <2> HIDE DEF there
  <2> QED
    BY <1>2, LeastIsIn
<1>5. PICK m \in there : m = Find(s, i, S) /\ \A y \in there : m <= y
  BY <1>3, <1>4
<1>6. m \in 1 .. Len(s) + 1
  BY <1>2
<1>7. m = Len(s) + 1 \/ (m \in i .. Len(s) /\ s[m] \in S)
  OBVIOUS
<1>8. ASSUME NEW j \in 1 .. Len(s), i <= j, j < m PROVE s[j] \notin S
  BY <1>1, <1>5, <1>6, <1>8
<1> QED
  BY <1>1, <1>5, <1>6, <1>7, <1>8

(* The place of the k-th slash, with one before the text and one behind it. *)
Border(s, k) ==
  IF k = 0 THEN 0 ELSE IF k > Final(s) THEN Len(s) + 1 ELSE Nth(Slashes(s), k)

(* The borders are in order, slashes between the outer ones, and there is   *)
(* no other slash.                                                          *)
LEMMA BorderIs ==
  ASSUME NEW X, NEW s \in Seq(X)
  PROVE  /\ Len(s) \in Nat /\ Final(s) \in Nat
         /\ Border(s, 0) = 0 /\ Border(s, Final(s) + 1) = Len(s) + 1
         /\ \A k \in 0 .. Final(s) + 1 : Border(s, k) \in 0 .. Len(s) + 1
         /\ \A k \in 1 .. Final(s) : Border(s, k) \in 1 .. Len(s) /\ s[Border(s, k)] = "/"
         /\ \A k \in 0 .. Final(s) :
              /\ Border(s, k) < Border(s, k + 1)
              /\ \A x \in 1 .. Len(s) :
                   Border(s, k) < x /\ x < Border(s, k + 1) => s[x] # "/"
         /\ \A x \in 1 .. Len(s) : s[x] = "/" => \E k \in 1 .. Final(s) : Border(s, k) = x
<1> DEFINE S == Slashes(s)
           n == Len(s)
           F == Final(s)
           B(k) == Border(s, k)
<1>1. n \in Nat /\ S \in SUBSET (1 .. n) /\ DOMAIN s = 1 .. n
  BY LenProperties DEF Slashes
<1>2. /\ F \in Nat
      /\ \A k \in 1 .. F : Nth(S, k) \in S /\ Rank(S, Nth(S, k)) = k
      /\ \A i \in S : Rank(S, i) \in 1 .. F /\ Nth(S, Rank(S, i)) = i
  <2> HIDE DEF S, n
  <2> QED
    BY <1>1, NthIs DEF Final, S
<1>3. \A k \in 1 .. F : B(k) = Nth(S, k)
  BY <1>2 DEF Border
<1>4. B(0) = 0 /\ B(F + 1) = n + 1
  BY <1>2 DEF Border
<1>5. \A k \in 1 .. F : B(k) \in 1 .. n /\ s[B(k)] = "/" /\ B(k) \in S /\ Rank(S, B(k)) = k
  BY <1>1, <1>2, <1>3 DEF Slashes
<1>6. \A k \in 0 .. F + 1 : B(k) \in 0 .. n + 1
  <2> HIDE DEF B, F, n
  <2>1. \A k \in 0 .. F + 1 : k = 0 \/ k = F + 1 \/ k \in 1 .. F
    BY <1>2
  <2> QED
    BY <1>1, <1>4, <1>5, <2>1
<1>7. \A i \in 1 .. n : s[i] = "/" => i \in S
  BY <1>1 DEF Slashes
<1> HIDE DEF B, F, n, S
<1>8. ASSUME NEW x \in Nat, NEW y \in Nat, x <= y
      PROVE  Rank(S, x) <= Rank(S, y) /\ Rank(S, x) \in Nat /\ Rank(S, y) \in Nat
  BY <1>1, <1>8, RankStep, RankGrows
<1>9. Rank(S, 0) = 0 /\ Rank(S, n) = F
  BY <1>1, RankStep DEF Final, S, F, n
<1>10. \A k \in 0 .. F : B(k) \in 0 .. n /\ Rank(S, B(k)) = k
  BY <1>1, <1>2, <1>4, <1>5, <1>9
<1>11. ASSUME NEW k \in 0 .. F PROVE B(k) < B(k + 1)
  <2>1. CASE k = F
    BY <1>1, <1>2, <1>4, <1>10, <2>1
  <2>2. CASE k # F
    <3>1. k + 1 \in 0 .. F /\ Rank(S, B(k + 1)) = k + 1 /\ B(k + 1) \in Nat /\ B(k) \in Nat
      BY <1>1, <1>2, <1>10, <2>2
    <3>2. B(k + 1) <= B(k) => k + 1 <= k
      BY <1>8, <1>10, <3>1
    <3> QED
      BY <1>1, <3>1, <3>2
  <2> QED
    BY <2>1, <2>2
<1>12. ASSUME NEW k \in 0 .. F, NEW x \in 1 .. n, B(k) < x, x < B(k + 1), s[x] = "/"
       PROVE  FALSE
  <2>1. x \in S /\ Rank(S, x) \in 1 .. F /\ Nth(S, Rank(S, x)) = x
    BY <1>2, <1>7, <1>12
  <2>2. PICK l \in 1 .. F : l = Rank(S, x) /\ B(l) = x
    BY <1>3, <2>1
  <2>3. k < l
    <3>1. B(k) \in Nat /\ x \in Nat /\ B(k) < x /\ B(k) <= x
      BY <1>1, <1>10, <1>12
    <3>2. Rank(S, B(k)) < Rank(S, x)
      BY <1>1, <2>1, <3>1, RankGrows
    <3> QED
      BY <1>10, <2>2, <3>2
  <2>4. k + 1 \in 1 .. F
    BY <1>2, <2>2, <2>3
  <2>5. l < k + 1
    <3>1. B(k + 1) \in Nat /\ x \in Nat /\ B(k + 1) \in S /\ x < B(k + 1) /\ x <= B(k + 1)
      BY <1>1, <1>5, <1>12, <2>4
    <3>2. Rank(S, x) < Rank(S, B(k + 1))
      BY <1>1, <1>12, <3>1, RankGrows
    <3> QED
      BY <1>5, <2>2, <2>4, <3>2
  <2> QED
    BY <1>2, <2>3, <2>5
<1>13. \A x \in 1 .. n : s[x] = "/" => \E k \in 1 .. F : B(k) = x
  BY <1>2, <1>3, <1>7
<1> QED
  BY <1>1, <1>2, <1>4, <1>5, <1>6, <1>11, <1>12, <1>13 DEF B, F, n

(* The borders are in order. *)
LEMMA BorderOrder ==
  ASSUME NEW X, NEW s \in Seq(X), NEW k \in 0 .. Final(s) + 1, NEW l \in 0 .. Final(s) + 1,
         k < l
  PROVE  Border(s, k) < Border(s, l)
<1> DEFINE F == Final(s)
           B(i) == Border(s, i)
           T == {i \in k + 1 .. F + 1 : ~(B(k) < B(i))}
<1>1. F \in Nat /\ \A i \in 0 .. F + 1 : B(i) \in Nat
  BY BorderIs
<1>2. \A i \in 0 .. F : B(i) < B(i + 1)
  BY BorderIs
<1> HIDE DEF B
<1>3. T = {}
  <2> SUFFICES ASSUME T # {} PROVE FALSE
    OBVIOUS
  <2>1. T \in SUBSET Nat
    BY <1>1
  <2>2. PICK i \in T : \A y \in T : i <= y
    <3> HIDE DEF T
    <3> QED
      BY <2>1, LeastIsIn
  <2>3. i \in Nat /\ i - 1 \in 0 .. F /\ (i - 1) + 1 = i /\ k <= i - 1
    BY <1>1
  <2>4. B(i - 1) < B(i) /\ B(i - 1) \in Nat /\ B(k) \in Nat /\ B(i) \in Nat
    BY <1>1, <1>2, <2>3
  <2>5. i - 1 # k
    BY <2>4
  <2>6. i - 1 \in k + 1 .. F + 1 /\ ~(i <= i - 1)
    BY <1>1, <2>3, <2>5
  <2>7. B(k) < B(i - 1)
    BY <2>2, <2>6
  <2> QED
    BY <2>4, <2>7
<1> QED
  BY <1>1, <1>3 DEF B

(* The next slash is at the next border, and a text without one is at its last. *)
LEMMA NextBorder ==
  ASSUME NEW X, NEW s \in Seq(X), NEW k \in 0 .. Final(s)
  PROVE  /\ \A x \in 1 .. Len(s) :
              /\ s[x] = "/" /\ Border(s, k) < x
              /\ \A y \in 1 .. Len(s) : Border(s, k) < y /\ y < x => s[y] # "/"
              => k + 1 <= Final(s) /\ Border(s, k + 1) = x
         /\ (\A y \in 1 .. Len(s) : Border(s, k) < y => s[y] # "/") => k = Final(s)
<1> DEFINE F == Final(s)
           n == Len(s)
           B(i) == Border(s, i)
<1>1. /\ F \in Nat /\ n \in Nat
      /\ \A i \in 1 .. F : B(i) \in 1 .. n /\ s[B(i)] = "/"
      /\ \A x \in 1 .. n : s[x] = "/" => \E i \in 1 .. F : B(i) = x
      /\ B(k) \in Nat
  BY BorderIs
<1>2. \A i, j \in 0 .. F + 1 : i < j => B(i) < B(j)
  BY BorderOrder
<1> HIDE DEF B, F, n
<1>3. ASSUME NEW x \in 1 .. n, s[x] = "/", B(k) < x,
             \A y \in 1 .. n : B(k) < y /\ y < x => s[y] # "/"
      PROVE  k + 1 <= F /\ B(k + 1) = x
  <2>1. PICK i \in 1 .. F : B(i) = x
    BY <1>1, <1>3
  <2>2. k < i
    <3>1. CASE i < k
      <4>1. B(i) < B(k) /\ B(i) \in Nat
        BY <1>1, <1>2, <3>1 DEF F
      <4> QED
        BY <1>1, <1>3, <2>1, <4>1
    <3>2. CASE i = k
      BY <1>1, <1>3, <2>1, <3>2
    <3> QED
      BY <1>1, <3>1, <3>2 DEF F
  <2>3. k + 1 \in 1 .. F
    BY <1>1, <2>2 DEF F
  <2>4. B(k) < B(k + 1) /\ B(k + 1) \in 1 .. n /\ s[B(k + 1)] = "/"
    BY <1>1, <1>2, <2>3 DEF F
  <2>5. ~(k + 1 < i)
    <3>1. k + 1 < i => B(k + 1) < x
      BY <1>1, <1>2, <2>1, <2>3
    <3> QED
      BY <1>3, <2>4, <3>1
  <2>6. i = k + 1
    BY <1>1, <2>2, <2>5 DEF F
  <2> QED
    BY <2>1, <2>3, <2>6
<1>4. ASSUME \A y \in 1 .. n : B(k) < y => s[y] # "/" PROVE k = F
  <2> SUFFICES ASSUME k # F PROVE FALSE
    OBVIOUS
  <2>1. k + 1 \in 1 .. F
    BY <1>1 DEF F
  <2>2. B(k) < B(k + 1) /\ B(k + 1) \in 1 .. n /\ s[B(k + 1)] = "/"
    BY <1>1, <1>2, <2>1 DEF F
  <2> QED
    BY <1>4, <2>2
<1> QED
  BY <1>3, <1>4 DEF B, F, n

(* The first slash from a position of a segment on is at its end. *)
LEMMA FindSlash ==
  ASSUME NEW X, NEW s \in Seq(X), NEW k \in 0 .. Final(s),
         NEW x \in Border(s, k) + 1 .. Border(s, k + 1)
  PROVE  Find(s, x, {"/"}) = Border(s, k + 1)
<1> DEFINE b == Border(s, k + 1)
           m == Find(s, x, {"/"})
           n == Len(s)
<1>1. /\ n \in Nat /\ Final(s) \in Nat /\ Border(s, k) \in 0 .. n + 1 /\ b \in 0 .. n + 1
      /\ \A y \in 1 .. n : Border(s, k) < y /\ y < b => s[y] # "/"
  BY BorderIs
<1>2. b = n + 1 \/ (b \in 1 .. n /\ s[b] = "/")
  <2>1. k + 1 \in 1 .. Final(s) \/ k + 1 = Final(s) + 1
    BY <1>1
  <2> QED
    BY <2>1, BorderIs
<1>3. x \in Nat \ {0} /\ x <= n + 1 /\ x <= b /\ Border(s, k) < x
  BY <1>1
<1>4. /\ m \in 1 .. n + 1 /\ x <= m
      /\ m <= n => s[m] = "/"
      /\ \A j \in 1 .. n : x <= j /\ j < m => s[j] # "/"
  BY <1>3, FindIs
<1> HIDE DEF b, m, n
<1>5. ~(m < b)
  BY <1>1, <1>3, <1>4
<1>6. ~(b < m)
  BY <1>1, <1>2, <1>3, <1>4
<1>7. m = b
  BY <1>1, <1>4, <1>5, <1>6
<1> QED
  BY <1>7 DEF m, b

(* A segment is what is between two borders. *)
LEMMA SegmentIs ==
  ASSUME NEW X, NEW s \in Seq(X), NEW k \in 0 .. Final(s)
  PROVE  /\ Segment(s, k) \in Seq(X)
         /\ Len(Segment(s, k)) = Border(s, k + 1) - Border(s, k) - 1
         /\ \A i \in 1 .. Border(s, k + 1) - Border(s, k) - 1 :
              Segment(s, k)[i] = s[Border(s, k) + i]
         /\ Segment(s, k) = SubSeq(s, Border(s, k) + 1, Border(s, k + 1) - 1)
<1> DEFINE b == Border(s, k)
           c == Border(s, k + 1)
<1>1. /\ Len(s) \in Nat /\ Final(s) \in Nat /\ b \in 0 .. Len(s) + 1 /\ c \in 0 .. Len(s) + 1
      /\ b < c
  BY BorderIs
<1>2. (IF k = 0 THEN 1 ELSE Nth(Slashes(s), k) + 1) = b + 1
  BY <1>1 DEF Border
<1>3. b + 1 \in b + 1 .. c
  BY <1>1
<1>4. Find(s, b + 1, {"/"}) = c
  BY <1>3, FindSlash
<1>5. Segment(s, k) = SubSeq(s, b + 1, c - 1)
  BY <1>2, <1>4 DEF Segment
<1> HIDE DEF b, c
<1>6. \A i \in b + 1 .. c - 1 : s[i] \in X
  <2>1. ASSUME NEW i \in b + 1 .. c - 1 PROVE i \in 1 .. Len(s)
    BY <1>1
  <2> QED
    BY <2>1, ElementOfSeq
<1>7. /\ SubSeq(s, b + 1, c - 1) \in Seq(X)
      /\ Len(SubSeq(s, b + 1, c - 1)) = IF b + 1 <= c - 1 THEN (c - 1) - (b + 1) + 1 ELSE 0
      /\ \A i \in 1 .. (c - 1) - (b + 1) + 1 : SubSeq(s, b + 1, c - 1)[i] = s[(b + 1) + i - 1]
  <2>1. b + 1 \in Int /\ c - 1 \in Int
    BY <1>1
  <2> QED
    BY <1>6, <2>1, SubSeqProperties
<1>8. (c - 1) - (b + 1) + 1 = c - b - 1 /\ \A i \in Nat : (b + 1) + i - 1 = b + i
  BY <1>1
<1>9. Len(SubSeq(s, b + 1, c - 1)) = c - b - 1
  BY <1>1, <1>7
<1>10. ASSUME NEW i \in 1 .. c - b - 1 PROVE SubSeq(s, b + 1, c - 1)[i] = s[b + i]
  <2>1. i \in 1 .. (c - 1) - (b + 1) + 1 /\ (b + 1) + i - 1 = b + i
    BY <1>8
  <2> QED
    BY <1>7, <2>1
<1> QED
  BY <1>5, <1>7, <1>9, <1>10 DEF b, c

(* A parameter is a segment of its own, and such a segment is a parameter. *)
LEMMA HoleIsSegment ==
  ASSUME NEW X, NEW t \in Seq(X), Valid(t)
  PROVE  /\ \A hole \in Holes(t) :
              \E k \in 1 .. Final(t) : /\ Border(t, k) = hole - 1 /\ Border(t, k + 1) = hole + 1
                                       /\ Segment(t, k) = <<t[hole]>>
         /\ \A k \in 0 .. Final(t), p \in Specifiers :
              Segment(t, k) = <<p>> => Border(t, k) + 1 \in Holes(t)
<1> DEFINE n == Len(t)
           F == Final(t)
           B(k) == Border(t, k)
<1>1. /\ n \in Nat /\ F \in Nat /\ DOMAIN t = 1 .. n
      /\ B(F + 1) = n + 1
      /\ \A x \in 1 .. n : t[x] = "/" => \E k \in 1 .. F : B(k) = x
      /\ \A k \in 0 .. F : B(k) \in 0 .. n + 1
  BY BorderIs, LenProperties
<1> HIDE DEF n, F, B
<1>2. ASSUME NEW hole \in Holes(t)
      PROVE  \E k \in 1 .. F : /\ B(k) = hole - 1 /\ B(k + 1) = hole + 1
                               /\ Segment(t, k) = <<t[hole]>>
  <2>1. /\ hole \in 1 .. n /\ t[hole] \in Specifiers /\ hole > 1 /\ t[hole - 1] = "/"
        /\ hole = n \/ t[hole + 1] = "/"
    BY <1>1 DEF Holes, Valid, n
  <2>2. hole - 1 \in 1 .. n
    BY <1>1, <2>1
  <2>3. PICK k \in 1 .. F : B(k) = hole - 1
    BY <1>1, <2>1, <2>2
  <2>4. t[hole] # "/"
    BY <2>1, SpecifiersAssumption
  <2>5. \A y \in 1 .. n : B(k) < y /\ y < hole + 1 => t[y] # "/"
    <3>1. \A y \in 1 .. n : B(k) < y /\ y < hole + 1 => y = hole
      BY <1>1, <2>1, <2>3
    <3> QED
      BY <2>4, <3>1
  <2>6. k \in 0 .. F
    BY <1>1
  <2>7. B(k + 1) = hole + 1
    <3>1. CASE hole = n
      <4>1. \A y \in 1 .. n : B(k) < y => t[y] # "/"
        BY <1>1, <2>5, <3>1
      <4>2. k = F
        BY <2>6, <4>1, NextBorder DEF n, F, B
      <4> QED
        BY <1>1, <3>1, <4>2
    <3>2. CASE hole # n
      <4>1. hole + 1 \in 1 .. n /\ t[hole + 1] = "/" /\ B(k) < hole + 1
        BY <1>1, <2>1, <2>3, <3>2
      <4> QED
        BY <2>5, <2>6, <4>1, NextBorder DEF n, F, B
    <3> QED
      BY <3>1, <3>2
  <2>8. /\ Segment(t, k) \in Seq(X) /\ Len(Segment(t, k)) = B(k + 1) - B(k) - 1
        /\ \A i \in 1 .. B(k + 1) - B(k) - 1 : Segment(t, k)[i] = t[B(k) + i]
    BY <2>6, SegmentIs DEF B, F
  <2>9. B(k + 1) - B(k) - 1 = 1 /\ B(k) + 1 = hole
    BY <1>1, <2>1, <2>3, <2>7
  <2>10. Len(Segment(t, k)) = 1 /\ Segment(t, k)[1] = t[hole]
    BY <2>8, <2>9
  <2>11. <<t[hole]>> \in Seq(X) /\ Len(<<t[hole]>>) = 1 /\ <<t[hole]>>[1] = t[hole]
    <3>1. t[hole] \in X
      BY <2>1, ElementOfSeq DEF n
    <3> QED
      BY <3>1
  <2>12. Segment(t, k) = <<t[hole]>>
    <3>1. PICK u \in Seq(X) : u = <<t[hole]>> /\ Len(u) = 1 /\ u[1] = t[hole]
      BY <2>11
    <3>2. \A i \in 1 .. Len(Segment(t, k)) : Segment(t, k)[i] = u[i]
      BY <2>10, <3>1
    <3>3. Len(Segment(t, k)) = Len(u)
      BY <2>10, <3>1
    <3>4. Segment(t, k) = u
      BY <2>8, <3>1, <3>2, <3>3, SeqEqual
    <3> QED
      BY <3>1, <3>4
  <2> QED
    BY <2>3, <2>7, <2>12
<1>3. ASSUME NEW k \in 0 .. F, NEW p \in Specifiers, Segment(t, k) = <<p>>
      PROVE  B(k) + 1 \in Holes(t)
  <2>1. /\ Segment(t, k) \in Seq(X) /\ Len(Segment(t, k)) = B(k + 1) - B(k) - 1
        /\ \A i \in 1 .. B(k + 1) - B(k) - 1 : Segment(t, k)[i] = t[B(k) + i]
    BY SegmentIs DEF B, F
  <2>2. Len(<<p>>) = 1 /\ <<p>>[1] = p
    OBVIOUS
  <2>3. B(k + 1) - B(k) - 1 = 1
    BY <1>3, <2>1, <2>2
  <2>4. t[B(k) + 1] = p
    BY <1>3, <2>1, <2>2, <2>3
  <2>5. B(k) \in 0 .. n + 1 /\ B(k + 1) \in 0 .. n + 1
    <3>1. \A l \in 0 .. Final(t) + 1 : Border(t, l) \in 0 .. Len(t) + 1
      BY BorderIs
    <3> QED
      BY <1>1, <3>1 DEF B, F, n
  <2>6. B(k) + 1 \in 1 .. n
    BY <1>1, <2>3, <2>5
  <2> QED
    BY <1>1, <2>4, <2>6 DEF Holes
<1> QED
  BY <1>2, <1>3 DEF B, F

-----------------------------------------------------------------------------
(* A round goes on, to the end or to a slash after the place it began at. *)
LEMMA RoundGoesOn ==
  ASSUME NEW X, NEW t \in Seq(X), NEW i \in 1 .. Len(t)
  PROVE  /\ Find(t, i, Specifiers) \in i .. Len(t) + 1
         /\ Find(t, Find(t, i, Specifiers), {"/"}) \in i + 1 .. Len(t) + 1
<1> DEFINE n == Len(t)
           hole == Find(t, i, Specifiers)
           next == Find(t, hole, {"/"})
<1>1. n \in Nat /\ i \in Nat \ {0} /\ i <= n
  BY LenProperties
<1>2. /\ hole \in 1 .. n + 1 /\ i <= hole
      /\ hole <= n => t[hole] \in Specifiers
  <2>1. i <= n + 1
    BY <1>1
  <2> QED
    BY <1>1, <2>1, FindIs
<1>3. hole \in Nat \ {0} /\ hole <= n + 1
  BY <1>1, <1>2
<1> HIDE DEF hole
<1>4. /\ next \in 1 .. n + 1 /\ hole <= next
      /\ next <= n => t[next] = "/"
  BY <1>3, FindIs
<1> HIDE DEF next
<1>5. next # hole \/ next = n + 1
  BY <1>1, <1>2, <1>4, SpecifiersAssumption
<1>6. next \in i + 1 .. n + 1
  BY <1>1, <1>2, <1>4, <1>5
<1> QED
  BY <1>1, <1>2, <1>6 DEF hole, next

(* The loop of isInstance ends: there is a function that says of each pair  *)
(* of iterators what it returns from there on.                              *)
LEMMA IsInstanceUnfolds ==
  ASSUME NEW X, NEW t \in Seq(X), NEW r \in Seq(X), Holes(t) # {}
  PROVE  \E M : /\ IsInstance(t, r) = M[<<1, 1>>]
                /\ \A i \in 1 .. Len(t) + 1, j \in 1 .. Len(r) + 1 :
                     M[<<i, j>>] = Round(M, t, i, r, j)
<1> DEFINE m == Len(t)
           n == Len(r)
           P == (1 .. Len(t) + 1) \X (1 .. Len(r) + 1)
           F(g) == [p \in P |-> Round(g, t, p[1], r, p[2])]
           Until(g, c) == \A p \in P : p[1] > m + 1 - c => g[p] = Round(g, t, p[1], r, p[2])
           C == {c \in 0 .. m + 1 : ~ \E g \in [P -> BOOLEAN] : Until(g, c)}
<1>1. m \in Nat /\ n \in Nat
  BY LenProperties
<1>2. ASSUME NEW g, NEW h, NEW p \in P,
             \A q \in P : q[1] > p[1] => g[q] = h[q]
      PROVE  Round(g, t, p[1], r, p[2]) = Round(h, t, p[1], r, p[2])
  <2>1. CASE p[1] > Len(t) \/ p[2] > Len(r)
    BY <2>1 DEF Round
  <2>2. CASE ~(p[1] > Len(t) \/ p[2] > Len(r))
    <3> DEFINE hole == Find(t, p[1], Specifiers)
               nextI == Find(t, hole, {"/"})
               nextJ == Find(r, p[2] + hole - p[1], {"/"})
    <3>1. p[1] \in 1 .. Len(t) /\ p[2] \in 1 .. Len(r)
      BY <1>1, <2>2
    <3>2. hole \in p[1] .. Len(t) + 1 /\ nextI \in p[1] + 1 .. Len(t) + 1
      BY <3>1, RoundGoesOn
    <3>3. p[2] + hole - p[1] \in Nat \ {0}
      BY <1>1, <3>1, <3>2
    <3>4. nextJ \in 1 .. Len(r) + 1
      BY <3>3, FindIs
    <3> HIDE DEF hole, nextI, nextJ
    <3>5. nextI \in 1 .. Len(t) + 1 /\ nextI > p[1]
      BY <1>1, <3>1, <3>2
    <3>6. g[<<nextI, nextJ>>] = h[<<nextI, nextJ>>]
      BY <1>2, <3>4, <3>5
    <3> QED
      BY <2>2, <3>6 DEF Round, hole, nextI, nextJ
  <2> QED
    BY <2>1, <2>2
<1>3. \A g, i, j : Round(g, t, i, r, j) \in BOOLEAN
  BY DEF Round
<1> HIDE DEF P
<1>4. C = {}
  <2> SUFFICES ASSUME C # {} PROVE FALSE
    OBVIOUS
  <2>1. C \in SUBSET Nat
    BY <1>1
  <2>2. PICK c \in C : \A y \in C : c <= y
    <3> HIDE DEF C
    <3> QED
      BY <2>1, LeastIsIn
  <2>3. c # 0
    <3>1. [p \in P |-> TRUE] \in [P -> BOOLEAN]
      OBVIOUS
    <3>2. Until([p \in P |-> TRUE], 0)
      BY <1>1 DEF P
    <3> QED
      BY <3>1, <3>2
  <2>4. c \in 1 .. m + 1 /\ c - 1 \in 0 .. m + 1 /\ ~(c <= c - 1)
    BY <1>1, <2>3
  <2>5. PICK g \in [P -> BOOLEAN] : Until(g, c - 1)
    BY <2>2, <2>4
  <2> DEFINE h == [p \in P |-> IF p[1] = m + 2 - c THEN Round(g, t, p[1], r, p[2]) ELSE g[p]]
  <2>6. h \in [P -> BOOLEAN]
    BY <1>3
  <2>7. ASSUME NEW p \in P, p[1] > m + 1 - c PROVE h[p] = Round(h, t, p[1], r, p[2])
    <3>1. \A q \in P : q[1] \in Nat
      BY DEF P
    <3>2. \A q \in P : q[1] > p[1] => h[q] = g[q]
      BY <1>1, <2>4, <2>7, <3>1
    <3>3. Round(h, t, p[1], r, p[2]) = Round(g, t, p[1], r, p[2])
      <4> HIDE DEF h, F, Until, C
      <4> QED
        BY <1>2, <3>2, Zenon
    <3>4. h[p] = Round(g, t, p[1], r, p[2])
      <4>1. CASE p[1] = m + 2 - c
        BY <4>1
      <4>2. CASE p[1] # m + 2 - c
        <5>1. p[1] > m + 1 - (c - 1)
          BY <1>1, <2>4, <2>7, <3>1, <4>2
        <5> QED
          BY <2>5, <4>2, <5>1
      <4> QED
        BY <4>1, <4>2
    <3> QED
      BY <3>3, <3>4
  <2>8. Until(h, c)
    BY <2>7
  <2> QED
    BY <2>2, <2>6, <2>8
<1>5. \E g : g = F(g)
  <2>1. m + 1 \in 0 .. m + 1
    BY <1>1
  <2>2. PICK g \in [P -> BOOLEAN] : Until(g, m + 1)
    BY <1>4, <2>1
  <2>3. \A p \in P : p[1] > m + 1 - (m + 1)
    BY <1>1 DEF P
  <2>4. \A p \in P : g[p] = Round(g, t, p[1], r, p[2])
    BY <2>2, <2>3
  <2>5. g = F(g)
    BY <2>4
  <2> QED
    BY <2>5
<1> DEFINE M == CHOOSE g : g = [p \in (1 .. Len(t) + 1) \X (1 .. Len(r) + 1) |->
                                  Round(g, t, p[1], r, p[2])]
<1>6. M = F(M)
  BY <1>5 DEF P
<1>7. IsInstance(t, r) = M[<<1, 1>>]
  BY DEF IsInstance
<1> HIDE DEF M
<1>8. \A p \in P : M[p] = Round(M, t, p[1], r, p[2])
  BY <1>6
<1>9. ASSUME NEW i \in 1 .. Len(t) + 1, NEW j \in 1 .. Len(r) + 1
      PROVE  M[<<i, j>>] = Round(M, t, i, r, j)
  <2>1. <<i, j>> \in P /\ <<i, j>>[1] = i /\ <<i, j>>[2] = j
    BY DEF P
  <2> QED
    BY <1>8, <2>1
<1> QED
  BY <1>7, <1>9

-----------------------------------------------------------------------------
(* Where the loop is after k slashes. *)
Start(s, k) == IF k = 0 THEN 1 ELSE Border(s, k)

(* The loop is at a border, but for where it begins. *)
LEMMA StartIs ==
  ASSUME NEW X, NEW s \in Seq(X)
  PROVE  /\ Start(s, 0) = 1 /\ Start(s, Final(s) + 1) = Len(s) + 1
         /\ \A k \in 1 .. Final(s) + 1 : Start(s, k) = Border(s, k)
         /\ \A k \in 0 .. Final(s) + 1 :
              /\ Start(s, k) \in 1 .. Len(s) + 1
              /\ Border(s, k) <= Start(s, k) /\ Start(s, k) <= Border(s, k) + 1
         /\ \A k \in 1 .. Final(s) : Start(s, k) \in 1 .. Len(s)
<1>1. /\ Len(s) \in Nat /\ Final(s) \in Nat
      /\ Border(s, 0) = 0 /\ Border(s, Final(s) + 1) = Len(s) + 1
      /\ \A k \in 0 .. Final(s) + 1 : Border(s, k) \in 0 .. Len(s) + 1
      /\ \A k \in 1 .. Final(s) : Border(s, k) \in 1 .. Len(s)
  BY BorderIs
<1>2. Start(s, 0) = 1 /\ \A k \in 1 .. Final(s) + 1 : Start(s, k) = Border(s, k)
  BY <1>1 DEF Start
<1>3. \A k \in 1 .. Final(s) + 1 : k = Final(s) + 1 \/ k \in 1 .. Final(s)
  BY <1>1
<1>4. \A k \in 1 .. Final(s) + 1 : Border(s, k) \in 1 .. Len(s) + 1
  BY <1>1, <1>3
<1>5. \A k \in 0 .. Final(s) + 1 : k = 0 \/ k \in 1 .. Final(s) + 1
  BY <1>1
<1>6. Final(s) + 1 \in 1 .. Final(s) + 1 /\ \A k \in 1 .. Final(s) : k \in 1 .. Final(s) + 1
  BY <1>1
<1>7. ASSUME NEW k \in 0 .. Final(s) + 1
      PROVE  /\ Start(s, k) \in 1 .. Len(s) + 1
             /\ Border(s, k) <= Start(s, k) /\ Start(s, k) <= Border(s, k) + 1
  BY <1>1, <1>2, <1>4, <1>5
<1> QED
  BY <1>1, <1>2, <1>6, <1>7

(* Every position is in a segment or at the slash before it. *)
LEMMA PositionIn ==
  ASSUME NEW X, NEW s \in Seq(X), NEW x \in 0 .. Len(s)
  PROVE  \E k \in 0 .. Final(s) : Border(s, k) <= x /\ x < Border(s, k + 1)
<1> DEFINE F == Final(s)
           K == {k \in 0 .. F : Border(s, k) <= x}
<1>1. /\ Len(s) \in Nat /\ F \in Nat /\ Border(s, 0) = 0 /\ Border(s, F + 1) = Len(s) + 1
      /\ \A k \in 0 .. F + 1 : Border(s, k) \in 0 .. Len(s) + 1
  BY BorderIs
<1>2. 0 \in K
  BY <1>1
<1>3. PICK k \in K : \A y \in K : k >= y
  <2>1. K \in SUBSET (0 .. F) /\ K # {} /\ F \in Nat
    BY <1>1, <1>2
  <2> HIDE DEF K, F
  <2> QED
    BY <2>1, GreatestIsIn
<1>4. x < Border(s, k + 1)
  <2>1. CASE k = F
    BY <1>1, <2>1
  <2>2. CASE k # F
    <3>1. k + 1 \in 0 .. F /\ ~(k >= k + 1)
      BY <1>1, <2>2
    <3>2. ~(Border(s, k + 1) <= x)
      BY <1>3, <3>1
    <3>3. Border(s, k + 1) \in 0 .. Len(s) + 1
      BY <1>1, <3>1
    <3> QED
      BY <1>1, <3>2, <3>3
  <2> QED
    BY <2>1, <2>2
<1> QED
  BY <1>4

(* StartsWith compares symbol by symbol. *)
LEMMA StartsWithIs ==
  ASSUME NEW X, NEW t \in Seq(X), NEW r \in Seq(X), NEW i \in 1 .. Len(t) + 1,
         NEW c \in i .. Len(t) + 1, NEW j \in 1 .. Len(r) + 1
  PROVE  StartsWith(r, j, SubSeq(t, i, c - 1)) <=>
           /\ c - i <= Len(r) + 1 - j
           /\ \A x \in i .. c - 1 : t[x] = r[x + j - i]
<1> DEFINE text == SubSeq(t, i, c - 1)
           d == c - i
           there == SubSeq(r, j, j + d - 1)
<1>1. Len(t) \in Nat /\ Len(r) \in Nat /\ d \in Nat /\ i \in Nat /\ c \in Nat /\ j \in Nat
  BY LenProperties
<1>2. /\ text \in Seq(X) /\ Len(text) = d
      /\ \A y \in 1 .. d : text[y] = t[i + y - 1]
  <2>1. ASSUME NEW y \in i .. c - 1 PROVE t[y] \in X
    <3>1. y \in 1 .. Len(t)
      BY <1>1
    <3> QED
      BY <3>1, ElementOfSeq
  <2>2. i \in Int /\ c - 1 \in Int /\ (c - 1) - i + 1 = d
    BY <1>1
  <2>3. /\ text \in Seq(X) /\ Len(text) = IF i <= c - 1 THEN (c - 1) - i + 1 ELSE 0
        /\ \A y \in 1 .. (c - 1) - i + 1 : text[y] = t[i + y - 1]
    BY <2>1, <2>2, SubSeqProperties
  <2>4. Len(text) = d
    BY <1>1, <2>3
  <2> QED
    BY <2>2, <2>3, <2>4
<1>3. ASSUME d <= Len(r) + 1 - j
      PROVE  /\ there \in Seq(X) /\ Len(there) = d
             /\ \A y \in 1 .. d : there[y] = r[j + y - 1]
  <2>1. ASSUME NEW y \in j .. j + d - 1 PROVE r[y] \in X
    <3>1. y \in 1 .. Len(r)
      BY <1>1, <1>3
    <3> QED
      BY <3>1, ElementOfSeq
  <2>2. j \in Int /\ j + d - 1 \in Int /\ (j + d - 1) - j + 1 = d
    BY <1>1
  <2>3. /\ there \in Seq(X) /\ Len(there) = IF j <= j + d - 1 THEN (j + d - 1) - j + 1 ELSE 0
        /\ \A y \in 1 .. (j + d - 1) - j + 1 : there[y] = r[j + y - 1]
    BY <2>1, <2>2, SubSeqProperties
  <2>4. Len(there) = d
    BY <1>1, <2>3
  <2> QED
    BY <2>2, <2>3, <2>4
<1>4. StartsWith(r, j, text) <=> d <= Len(r) + 1 - j /\ there = text
  BY <1>2 DEF StartsWith
<1> HIDE DEF text, there
<1>5. ASSUME d <= Len(r) + 1 - j
      PROVE  there = text <=> \A x \in i .. c - 1 : t[x] = r[x + j - i]
  <2>1. ASSUME there = text, NEW x \in i .. c - 1 PROVE t[x] = r[x + j - i]
    <3>1. PICK y \in 1 .. d : i + y - 1 = x /\ j + y - 1 = x + j - i
      <4>1. x - i + 1 \in 1 .. d /\ i + (x - i + 1) - 1 = x /\ j + (x - i + 1) - 1 = x + j - i
        BY <1>1
      <4> QED
        BY <4>1
    <3>2. text[y] = t[x] /\ there[y] = r[x + j - i]
      BY <1>2, <1>3, <1>5, <3>1
    <3> QED
      BY <2>1, <3>2
  <2>2. ASSUME \A x \in i .. c - 1 : t[x] = r[x + j - i] PROVE there = text
    <3>1. ASSUME NEW y \in 1 .. d PROVE there[y] = text[y]
      <4>1. i + y - 1 \in i .. c - 1 /\ (i + y - 1) + j - i = j + y - 1
        BY <1>1
      <4>2. t[i + y - 1] = r[j + y - 1]
        BY <2>2, <4>1
      <4> QED
        BY <1>2, <1>3, <1>5, <4>2
    <3>2. there \in Seq(X) /\ text \in Seq(X) /\ Len(there) = Len(text) /\ Len(there) = d
      BY <1>2, <1>3, <1>5
    <3> QED
      BY <3>1, <3>2, SeqEqual
  <2> QED
    BY <2>1, <2>2
<1> QED
  BY <1>4, <1>5 DEF text

(* A round goes to the next parameter, the h-th segment, or to the end. *)
LEMMA NextHole ==
  ASSUME NEW X, NEW t \in Seq(X), Valid(t), Holes(t) # {}, NEW k \in 0 .. Final(t)
  PROVE  LET hole == Find(t, Start(t, k), Specifiers)
             next == Find(t, hole, {"/"})
         IN \E h \in k .. Final(t) + 1 :
              /\ h \in 1 .. Final(t) =>
                   /\ hole = Border(t, h) + 1 /\ next = Border(t, h + 1)
                   /\ \E p \in Specifiers : Segment(t, h) = <<p>>
              /\ h = Final(t) + 1 => hole = Len(t) + 1 /\ next = Len(t) + 1
              /\ h \in 1 .. Final(t) + 1
              /\ hole \in Start(t, k) .. Len(t) + 1
              /\ \A l \in k .. h - 1, p \in Specifiers : Segment(t, l) # <<p>>
<1> DEFINE n == Len(t)
           F == Final(t)
           B(l) == Border(t, l)
           i == Start(t, k)
           hole == Find(t, i, Specifiers)
           next == Find(t, hole, {"/"})
<1>1. /\ n \in Nat /\ F \in Nat /\ DOMAIN t = 1 .. n /\ B(0) = 0
      /\ \A l \in 0 .. F + 1 : B(l) \in 0 .. n + 1
      /\ \A l \in 1 .. F : B(l) \in 1 .. n /\ t[B(l)] = "/"
      /\ \A l \in 0 .. F : B(l) < B(l + 1)
  BY BorderIs, LenProperties
<1>2. i \in 1 .. n + 1 /\ B(k) <= i /\ i <= B(k) + 1 /\ (k # 0 => i = B(k))
  <2>1. k \in 0 .. F + 1 /\ (k # 0 => k \in 1 .. F + 1)
    BY <1>1
  <2> QED
    BY <2>1, StartIs
<1>3. \A l, m \in 0 .. F + 1 : l < m => B(l) < B(m)
  BY BorderOrder
<1>4. i <= n
  <2>1. CASE k = 0
    <3>1. PICK x : x \in Holes(t)
      OBVIOUS
    <3>2. 1 <= n
      BY <1>1, <3>1 DEF Holes
    <3> QED
      BY <1>1, <1>2, <2>1, <3>2
  <2>2. CASE k # 0
    <3>1. k \in 1 .. F
      BY <2>2
    <3> QED
      BY <1>1, <1>2, <2>2, <3>1
  <2> QED
    BY <2>1, <2>2
<1>5. /\ hole \in i .. n + 1
      /\ hole <= n => t[hole] \in Specifiers
      /\ \A j \in 1 .. n : i <= j /\ j < hole => t[j] \notin Specifiers
  <2>1. i \in Nat \ {0} /\ i <= n + 1
    BY <1>1, <1>2
  <2>2. /\ hole \in 1 .. n + 1 /\ i <= hole
        /\ hole <= n => t[hole] \in Specifiers
        /\ \A j \in 1 .. n : i <= j /\ j < hole => t[j] \notin Specifiers
    BY <2>1, FindIs
  <2> QED
    BY <1>1, <2>2
<1>6. ASSUME NEW l \in k .. F, NEW p \in Specifiers, Segment(t, l) = <<p>>
      PROVE  hole <= B(l) + 1
  <2>1. l \in 0 .. F
    BY <1>1
  <2>2. B(l) + 1 \in Holes(t)
    BY <1>6, <2>1, HoleIsSegment
  <2>3. B(l) + 1 \in 1 .. n /\ t[B(l) + 1] \in Specifiers
    BY <1>1, <2>2 DEF Holes
  <2>4. B(k) <= B(l)
    <3>1. (k = l \/ k < l) /\ k \in 0 .. F + 1 /\ l \in 0 .. F + 1
      BY <1>1
    <3>2. B(k) \in Nat /\ B(l) \in Nat
      BY <1>1, <2>1
    <3> QED
      BY <1>3, <2>1, <3>1, <3>2
  <2>5. i <= B(l) + 1
    BY <1>1, <1>2, <2>1, <2>4
  <2> QED
    BY <1>1, <1>5, <2>1, <2>3, <2>5
<1> HIDE DEF n, F, B, i, hole, next
<1>7. CASE hole <= n
  <2>1. hole \in Holes(t)
    BY <1>1, <1>2, <1>5, <1>7 DEF Holes
  <2>2. PICK h \in 1 .. F : /\ B(h) = hole - 1 /\ B(h + 1) = hole + 1
                            /\ Segment(t, h) = <<t[hole]>>
    BY <2>1, HoleIsSegment DEF F, B
  <2>3. t[hole] \in Specifiers /\ hole = B(h) + 1
    BY <1>1, <1>2, <1>5, <1>7, <2>2
  <2>4. k <= h
    <3>1. k \in 0 .. F
      BY DEF F
    <3>2. B(k) < hole
      <4>1. CASE k = 0
        BY <1>1, <1>2, <1>5, <4>1
      <4>2. CASE k # 0
        <5>1. B(k) \in 1 .. n /\ t[B(k)] = "/" /\ i = B(k)
          BY <1>1, <1>2, <3>1, <4>2
        <5>2. hole # B(k)
          BY <1>5, <1>7, <5>1, SpecifiersAssumption
        <5> QED
          BY <1>1, <1>5, <5>1, <5>2
      <4> QED
        BY <4>1, <4>2
    <3>3. h < k => B(h) < B(k)
      BY <1>1, <1>3, <3>1
    <3>4. B(k) \in Nat /\ hole \in Nat
      BY <1>1, <1>2, <1>5, <3>1
    <3> QED
      BY <1>1, <2>2, <3>1, <3>2, <3>3, <3>4
  <2>5. next = B(h + 1)
    <3>1. h \in 0 .. F /\ hole \in B(h) + 1 .. B(h + 1)
      BY <1>1, <1>2, <1>5, <2>2
    <3> QED
      BY <3>1, FindSlash DEF next, B, F
  <2>6. ASSUME NEW l \in k .. h - 1, NEW p \in Specifiers PROVE Segment(t, l) # <<p>>
    <3>1. l \in k .. F /\ l \in 0 .. F /\ h \in 0 .. F + 1 /\ l < h /\ l \in 0 .. F + 1
      BY <1>1 DEF F
    <3>2. B(l) < B(h)
      BY <1>3, <3>1
    <3> QED
      BY <1>1, <1>6, <2>3, <3>1, <3>2
  <2>7. h \in k .. F + 1 /\ h # F + 1 /\ h \in 1 .. F + 1
    BY <1>1, <2>4 DEF F
  <2> QED
    BY <1>5, <2>2, <2>3, <2>5, <2>6, <2>7 DEF n, F, B, i, hole, next
<1>8. CASE ~(hole <= n)
  <2>1. hole = n + 1
    BY <1>1, <1>2, <1>5, <1>8
  <2>2. next = n + 1
    <3>1. hole \in Nat \ {0} /\ hole > n
      BY <1>1, <2>1
    <3> QED
      BY <3>1, FindIs DEF next, n
  <2>3. ASSUME NEW l \in k .. F, NEW p \in Specifiers PROVE Segment(t, l) # <<p>>
    <3>1. SUFFICES ASSUME Segment(t, l) = <<p>> PROVE FALSE
      OBVIOUS
    <3>2. l \in 0 .. F
      BY <1>1 DEF F
    <3>3. B(l) + 1 \in Holes(t)
      BY <3>1, <3>2, HoleIsSegment DEF B, F
    <3>4. B(l) + 1 <= n
      BY <1>1, <3>3 DEF Holes
    <3> QED
      BY <1>1, <1>6, <2>1, <3>1, <3>2, <3>4
  <2>4. F + 1 \in k .. F + 1 /\ F + 1 \notin 1 .. F /\ (F + 1) - 1 = F /\ F + 1 \in 1 .. F + 1
    <3>1. k \in 0 .. F
      BY DEF F
    <3> QED
      BY <1>1, <3>1
  <2> QED
    BY <1>5, <2>1, <2>2, <2>3, <2>4 DEF n, F, i, hole, next
<1> QED
  BY <1>7, <1>8

(* Where segments are the same, the texts are, slash by slash. *)
LEMMA SameBorders ==
  ASSUME NEW X, NEW t \in Seq(X), NEW r \in Seq(X), Final(t) = Final(r),
         NEW k \in 0 .. Final(t) + 1, NEW h \in k .. Final(t) + 1,
         \A l \in k .. h - 1 : Segment(t, l) = Segment(r, l)
  PROVE  /\ \A l \in k .. h : Border(r, l) = Border(t, l) + Start(r, k) - Start(t, k)
         /\ \A x \in Start(t, k) .. Border(t, h) :
              x <= Len(t) => t[x] = r[x + Start(r, k) - Start(t, k)]
<1> DEFINE F == Final(t)
           B(l) == Border(t, l)
           C(l) == Border(r, l)
           i == Start(t, k)
           j == Start(r, k)
<1>1. /\ Len(t) \in Nat /\ F \in Nat /\ B(0) = 0 /\ B(F + 1) = Len(t) + 1
      /\ \A l \in 0 .. F + 1 : B(l) \in 0 .. Len(t) + 1
      /\ \A l \in 1 .. F : t[B(l)] = "/"
      /\ \A l \in 0 .. F : B(l) < B(l + 1)
  BY BorderIs
<1>2. /\ Len(r) \in Nat /\ F \in Nat /\ C(0) = 0
      /\ \A l \in 0 .. F + 1 : C(l) \in 0 .. Len(r) + 1
      /\ \A l \in 1 .. F : r[C(l)] = "/"
  BY BorderIs
<1>3. /\ i \in 1 .. Len(t) + 1 /\ j \in 1 .. Len(r) + 1 /\ C(k) = B(k) + j - i
      /\ i >= B(k)
  <2>1. CASE k = 0
    BY <1>1, <1>2, <2>1, StartIs
  <2>2. CASE k # 0
    <3>1. k \in 1 .. F + 1
      BY <2>2
    <3>2. i = B(k) /\ i \in 1 .. Len(t) + 1 /\ j = C(k) /\ j \in 1 .. Len(r) + 1
      BY <3>1, StartIs
    <3>3. PICK p \in Nat, q \in Nat : p = i /\ q = j
      BY <3>2
    <3>4. B(k) = p /\ C(k) = q
      BY <3>2, <3>3
    <3>5. q = p + q - p /\ p >= p /\ p <= p + 1
      OBVIOUS
    <3> HIDE DEF i, j, B, C
    <3> QED
      BY <3>2, <3>3, <3>4, <3>5
  <2> QED
    BY <2>1, <2>2
<1>a. i \in Nat /\ j \in Nat /\ k \in Nat /\ h \in Nat
  BY <1>1, <1>2, <1>3
<1>4. ASSUME NEW l \in k .. h - 1
      PROVE  /\ C(l + 1) - C(l) = B(l + 1) - B(l)
             /\ \A y \in 1 .. B(l + 1) - B(l) - 1 : t[B(l) + y] = r[C(l) + y]
  <2>1. l \in 0 .. Final(t) /\ l \in 0 .. Final(r) /\ l \in 0 .. F + 1 /\ l + 1 \in 0 .. F + 1
    BY <1>1
  <2>2. /\ Len(Segment(t, l)) = B(l + 1) - B(l) - 1
        /\ \A y \in 1 .. B(l + 1) - B(l) - 1 : Segment(t, l)[y] = t[B(l) + y]
    BY <2>1, SegmentIs
  <2>3. /\ Len(Segment(r, l)) = C(l + 1) - C(l) - 1
        /\ \A y \in 1 .. C(l + 1) - C(l) - 1 : Segment(r, l)[y] = r[C(l) + y]
    BY <2>1, SegmentIs
  <2>4. /\ B(l) \in Nat /\ B(l + 1) \in Nat /\ C(l) \in Nat /\ C(l + 1) \in Nat
    BY <1>1, <1>2, <2>1
  <2> HIDE DEF B, C
  <2>5. C(l + 1) - C(l) = B(l + 1) - B(l)
    BY <2>2, <2>3, <2>4
  <2> QED
    BY <2>2, <2>3, <2>5
<1> HIDE DEF F, B, C, i, j
<1>5. \A l \in k .. h : C(l) = B(l) + j - i
  <2> DEFINE Wrong == {l \in k .. h : C(l) # B(l) + j - i}
  <2> SUFFICES ASSUME Wrong # {} PROVE FALSE
    OBVIOUS
  <2>1. Wrong \in SUBSET Nat
    BY <1>1 DEF F
  <2>2. PICK l \in Wrong : \A y \in Wrong : l <= y
    <3> HIDE DEF Wrong
    <3> QED
      BY <2>1, LeastIsIn
  <2>3. l # k
    BY <1>3
  <2>4. PICK m \in k .. h - 1 : l = m + 1
    <3>1. l - 1 \in k .. h - 1 /\ l = (l - 1) + 1
      BY <1>1, <2>3 DEF F
    <3> QED
      BY <3>1
  <2>5. m \notin Wrong
    BY <1>1, <2>2, <2>4 DEF F
  <2>6. C(m) = B(m) + j - i
    BY <1>1, <2>4, <2>5 DEF F
  <2>7. B(m) \in Nat /\ B(m + 1) \in Nat /\ C(m) \in Nat /\ C(m + 1) \in Nat
    <3>1. m \in 0 .. F + 1 /\ m + 1 \in 0 .. F + 1
      BY <1>1 DEF F
    <3> QED
      BY <1>1, <1>2, <3>1
  <2>8. C(m + 1) = B(m + 1) + j - i
    <3>1. C(m + 1) - C(m) = B(m + 1) - B(m)
      BY <1>4
    <3>2. PICK b \in Nat, b1 \in Nat, d \in Nat, d1 \in Nat :
            b = B(m) /\ b1 = B(m + 1) /\ d = C(m) /\ d1 = C(m + 1)
      BY <2>7
    <3>3. d1 - d = b1 - b /\ d = b + j - i
      BY <2>6, <3>1, <3>2
    <3>4. d1 = b1 + j - i
      BY <1>a, <3>3
    <3> QED
      BY <3>2, <3>4
  <2> QED
    BY <2>4, <2>8
<1>6. ASSUME NEW x \in i .. B(h), x <= Len(t) PROVE t[x] = r[x + j - i]
  <2>1. h \in 0 .. F + 1 /\ k \in 0 .. F + 1 /\ x \in 0 .. Len(t)
    BY <1>1, <1>3, <1>6 DEF F
  <2>2. PICK l \in 0 .. F : B(l) <= x /\ x < B(l + 1)
    BY <2>1, PositionIn DEF B, F
  <2>3. /\ l \in 0 .. F + 1 /\ l + 1 \in 0 .. F + 1
        /\ B(l) \in Nat /\ B(l + 1) \in Nat /\ B(k) \in Nat /\ B(h) \in Nat
    BY <1>1, <2>1
  <2>4. \A a, b \in 0 .. F + 1 : a < b => B(a) < B(b)
    BY BorderOrder DEF B, F
  <2>5. k <= l
    <3>1. l < k => l + 1 = k \/ l + 1 < k
      BY <1>1, <2>1
    <3>2. l < k => B(l + 1) <= B(k)
      BY <2>1, <2>3, <2>4, <3>1
    <3>3. PICK a \in Nat, b \in Nat : a = B(k) /\ b = B(l + 1)
      BY <2>3
    <3>4. a <= i /\ i <= x /\ x < b /\ (l < k => b <= a) /\ x \in Nat
      BY <1>1, <1>3, <1>6, <2>1, <2>2, <3>2, <3>3
    <3>5. ~(l < k) /\ l \in Nat /\ k \in Nat
      BY <1>a, <1>1, <3>4
    <3> QED
      BY <3>5
  <2>6. l <= h
    <3>1. h < l => B(h) < B(l)
      BY <2>1, <2>3, <2>4
    <3>2. PICK a \in Nat, b \in Nat : a = B(h) /\ b = B(l)
      BY <2>3
    <3>3. b <= x /\ x <= a /\ (h < l => a < b) /\ x \in Nat
      BY <1>1, <1>6, <2>1, <2>2, <3>1, <3>2
    <3>4. ~(h < l) /\ h \in Nat /\ l \in Nat
      BY <1>a, <1>1, <3>3
    <3> QED
      BY <3>4
  <2>7. C(l) = B(l) + j - i
    BY <1>1, <1>5, <2>1, <2>5, <2>6
  <2>8. CASE x = B(l)
    <3>1. l # 0
      BY <1>1, <1>3, <2>8
    <3>2. l \in 1 .. F
      BY <1>1, <3>1
    <3>3. t[x] = "/" /\ r[C(l)] = "/" /\ C(l) = x + j - i
      BY <1>1, <1>2, <2>7, <2>8, <3>2
    <3> QED
      BY <3>3
  <2>9. CASE x # B(l)
    <3>1. l \in k .. h - 1
      <4>1. l # h
        BY <1>1, <1>3, <2>1, <2>2, <2>3, <2>9
      <4> QED
        BY <1>1, <2>1, <2>5, <2>6, <4>1
    <3>2. PICK y \in 1 .. B(l + 1) - B(l) - 1 : x = B(l) + y
      <4>1. x - B(l) \in 1 .. B(l + 1) - B(l) - 1 /\ x = B(l) + (x - B(l))
        <5>1. x \in Nat
          BY <2>1, <1>1
        <5> QED
          BY <2>2, <2>3, <2>9, <5>1
      <4> QED
        BY <4>1
    <3>3. t[B(l) + y] = r[C(l) + y]
      BY <1>4, <3>1
    <3>4. C(l) + y = x + j - i
      <4>1. PICK b \in Nat, z \in Nat : b = B(l) /\ z = y
        BY <2>3
      <4>2. x = b + z /\ C(l) = b + j - i
        BY <2>7, <3>2, <4>1
      <4>3. b + j - i + z = b + z + j - i
        BY <1>a
      <4> QED
        BY <4>1, <4>2, <4>3
    <3> QED
      BY <3>2, <3>3, <3>4
  <2> QED
    BY <2>8, <2>9
<1> QED
  BY <1>5, <1>6 DEF B, C, i, j

(* Where texts are the same, the segments are that end there. *)
LEMMA SameText ==
  ASSUME NEW X, NEW t \in Seq(X), NEW r \in Seq(X),
         NEW k \in 0 .. Final(t), k <= Final(r), NEW h \in k .. Final(t),
         NEW c \in Start(t, k) .. Len(t) + 1, Border(t, h) < c,
         c - Start(t, k) <= Len(r) + 1 - Start(r, k),
         \A x \in Start(t, k) .. c - 1 : t[x] = r[x + Start(r, k) - Start(t, k)]
  PROVE  /\ h <= Final(r) /\ Border(r, h) = Border(t, h) + Start(r, k) - Start(t, k)
         /\ \A l \in k .. h - 1 : Segment(t, l) = Segment(r, l)
<1> DEFINE F == Final(t)
           G == Final(r)
           B(l) == Border(t, l)
           C(l) == Border(r, l)
           i == Start(t, k)
           j == Start(r, k)
           n == Len(t)
<1>1. /\ n \in Nat /\ F \in Nat /\ B(0) = 0
      /\ \A l \in 0 .. F + 1 : B(l) \in 0 .. n + 1
      /\ \A l \in 1 .. F : B(l) \in 1 .. n /\ t[B(l)] = "/"
      /\ \A l \in 0 .. F :
           B(l) < B(l + 1) /\ \A x \in 1 .. n : B(l) < x /\ x < B(l + 1) => t[x] # "/"
  BY BorderIs
<1>2. /\ Len(r) \in Nat /\ G \in Nat /\ C(0) = 0
      /\ \A l \in 0 .. G + 1 : C(l) \in 0 .. Len(r) + 1
  BY BorderIs
<1>3. /\ i \in 1 .. n + 1 /\ j \in 1 .. Len(r) + 1 /\ C(k) = B(k) + j - i
      /\ i >= B(k) /\ i <= B(k) + 1
  <2>1. CASE k = 0
    <3>1. i = 1 /\ j = 1
      BY <2>1, StartIs
    <3> QED
      BY <1>1, <1>2, <2>1, <3>1
  <2>2. CASE k # 0
    <3>1. k \in 1 .. F + 1 /\ k \in 1 .. G + 1
      BY <1>1, <1>2, <2>2
    <3>2. i = B(k) /\ i \in 1 .. Len(t) + 1 /\ j = C(k) /\ j \in 1 .. Len(r) + 1
      BY <3>1, StartIs
    <3>3. PICK p \in Nat, q \in Nat : p = i /\ q = j
      BY <3>2
    <3>4. B(k) = p /\ C(k) = q
      BY <3>2, <3>3
    <3>5. q = p + q - p /\ p >= p /\ p <= p + 1
      OBVIOUS
    <3> HIDE DEF i, j, B, C
    <3> QED
      BY <3>2, <3>3, <3>4, <3>5
  <2> QED
    BY <2>1, <2>2
<1>4. \A x \in i .. c - 1 : t[x] = r[x + j - i] /\ x + j - i \in 1 .. Len(r)
  <2>1. \A x \in i .. c - 1 : x + j - i \in 1 .. Len(r)
    <3>1. i \in Nat /\ j \in Nat \ {0} /\ c \in Nat /\ Len(r) \in Nat
      BY <1>1, <1>2, <1>3
    <3>2. c - i <= Len(r) + 1 - j
      OBVIOUS
    <3> HIDE DEF i, j
    <3> QED
      BY <3>1, <3>2
  <2> QED
    BY <2>1
<1>5. \A a, b \in 0 .. F + 1 : a < b => B(a) < B(b)
  BY BorderOrder
<1>6. k \in 0 .. F + 1 /\ h \in k .. F /\ h \in 0 .. F + 1 /\ B(h) < c /\ c \in i .. n + 1
      /\ k <= G
  BY <1>1
<1> HIDE DEF F, G, B, C, i, j, n
<1>a. i \in Nat /\ j \in Nat /\ c \in Nat /\ k \in Nat /\ h \in Nat
  BY <1>1, <1>2, <1>3, <1>6
<1>7. ASSUME NEW l \in k .. h - 1, l <= G, C(l) = B(l) + j - i
      PROVE  l + 1 <= G /\ C(l + 1) = B(l + 1) + j - i
  <2>1. l \in 0 .. F /\ l \in 0 .. G /\ l + 1 \in 1 .. F /\ l \in 0 .. F + 1 /\ l + 1 \in 0 .. F + 1
    BY <1>1, <1>2, <1>6, <1>7
  <2>2. PICK x \in 1 .. n : x = B(l + 1) /\ t[x] = "/" /\ B(l) < x /\ B(l) \in Nat
    <3>1. PICK x : x = B(l + 1)
      OBVIOUS
    <3>2. B(l) < x /\ B(l) \in Nat
      BY <1>1, <2>1, <3>1
    <3>3. x \in 1 .. n /\ t[x] = "/"
      BY <1>1, <2>1, <3>1
    <3> QED
      BY <3>1, <3>2, <3>3
  <2>3. B(k) <= B(l) /\ x <= B(h)
    <3>1. k = l \/ k < l
      BY <1>1, <1>6
    <3>2. l + 1 = h \/ l + 1 < h
      BY <1>1, <1>6
    <3>3. B(k) \in Nat /\ B(h) \in Nat /\ x \in Nat
      BY <1>1, <1>6
    <3>4. k < l => B(k) < B(l)
      BY <1>5, <1>6, <2>1
    <3>5. l + 1 < h => B(l + 1) < B(h)
      BY <1>5, <1>6, <2>1
    <3>6. B(k) <= B(l)
      BY <2>2, <3>1, <3>3, <3>4
    <3>7. x <= B(h)
      BY <2>2, <3>2, <3>3, <3>5
    <3> QED
      BY <3>6, <3>7
  <2>4. B(k) \in Nat /\ B(h) \in Nat
    BY <1>1, <1>6
  <2>5. x \in i .. c - 1
    <3>1. PICK a \in Nat, b \in Nat, d \in Nat : a = B(k) /\ b = B(l) /\ d = B(h)
      BY <2>2, <2>4
    <3>2. a <= b /\ b < x /\ x <= d /\ d < c /\ i <= a + 1
      BY <1>3, <1>6, <2>2, <2>3, <3>1
    <3>3. x \in Nat
      BY <1>1
    <3> QED
      BY <1>a, <3>2, <3>3
  <2>6. x + j - i \in 1 .. Len(r) /\ r[x + j - i] = "/" /\ C(l) < x + j - i
    <3>1. x \in Nat
      BY <1>1
    <3>2. x + j - i \in 1 .. Len(r) /\ r[x + j - i] = "/"
      BY <1>4, <2>2, <2>5
    <3> QED
      BY <1>7, <1>a, <2>2, <3>1, <3>2
  <2>7. ASSUME NEW y \in 1 .. Len(r), C(l) < y, y < x + j - i PROVE r[y] # "/"
    <3>1. PICK z \in i .. c - 1 : z + j - i = y /\ B(l) < z /\ z < x
      <4>1. (y + i - j) \in i .. c - 1 /\ (y + i - j) + j - i = y
            /\ B(l) < (y + i - j) /\ (y + i - j) < x
        <5>1. x \in Nat /\ y \in Nat /\ x <= c - 1
          BY <1>1, <1>2, <1>a, <2>5
        <5>2. C(l) < y /\ y < x + j - i /\ C(l) = B(l) + j - i /\ B(k) <= B(l) /\ i <= B(k) + 1
          BY <1>3, <1>7, <2>3, <2>7
        <5>3. PICK b \in Nat, e \in Nat : b = B(l) /\ e = B(k)
          BY <2>2, <2>4
        <5>4. b < y + i - j /\ y < x + j - i /\ e <= b /\ i <= e + 1
          <6>1. PICK d : d = C(l)
            OBVIOUS
          <6>2. d < y /\ y < x + j - i /\ d = b + j - i /\ e <= b /\ i <= e + 1
            BY <5>2, <5>3, <6>1
          <6> QED
            BY <1>a, <5>1, <6>2
        <5>5. (y + i - j) \in i .. c - 1 /\ (y + i - j) + j - i = y
              /\ b < (y + i - j) /\ (y + i - j) < x
          BY <1>a, <5>1, <5>4
        <5> QED
          BY <5>3, <5>5
      <4> QED
        BY <4>1
    <3>2. z \in 1 .. n
      BY <1>1, <1>3, <1>6, <3>1
    <3>3. t[z] # "/"
      BY <1>1, <2>1, <2>2, <3>1, <3>2
    <3> QED
      BY <1>4, <3>1, <3>3
  <2>8. l + 1 <= G /\ C(l + 1) = x + j - i
    BY <2>1, <2>6, <2>7, NextBorder DEF G, C
  <2> QED
    BY <2>2, <2>8
<1>8. \A l \in k .. h : l <= G /\ C(l) = B(l) + j - i
  <2> DEFINE Wrong == {l \in k .. h : ~(l <= G /\ C(l) = B(l) + j - i)}
  <2> SUFFICES ASSUME Wrong # {} PROVE FALSE
    OBVIOUS
  <2>1. Wrong \in SUBSET Nat
    BY <1>1, <1>6
  <2>2. PICK l \in Wrong : \A y \in Wrong : l <= y
    <3> HIDE DEF Wrong
    <3> QED
      BY <2>1, LeastIsIn
  <2>3. l # k
    BY <1>3, <1>6
  <2>4. PICK m \in k .. h - 1 : l = m + 1
    <3>1. l - 1 \in k .. h - 1 /\ l = (l - 1) + 1
      BY <1>1, <1>6, <2>3
    <3> QED
      BY <3>1
  <2>5. m \notin Wrong
    BY <1>1, <1>6, <2>2, <2>4
  <2>6. m <= G /\ C(m) = B(m) + j - i
    BY <1>1, <1>6, <2>4, <2>5
  <2> QED
    BY <1>7, <2>4, <2>6
<1>9. ASSUME NEW l \in k .. h - 1 PROVE Segment(t, l) = Segment(r, l)
  <2>1. /\ l \in 0 .. F /\ l + 1 \in 0 .. F + 1 /\ l \in k .. h /\ l + 1 \in k .. h
        /\ l \in 0 .. F + 1
    BY <1>1, <1>6
  <2>2. l \in 0 .. G /\ C(l) = B(l) + j - i /\ C(l + 1) = B(l + 1) + j - i
    BY <1>2, <1>6, <1>8, <2>1
  <2>3. B(l) \in Nat /\ B(l + 1) \in Nat /\ B(l) < B(l + 1)
    BY <1>1, <2>1
  <2>4. /\ Segment(t, l) \in Seq(X) /\ Len(Segment(t, l)) = B(l + 1) - B(l) - 1
        /\ \A y \in 1 .. B(l + 1) - B(l) - 1 : Segment(t, l)[y] = t[B(l) + y]
    BY <2>1, SegmentIs DEF B, F
  <2>5. /\ Segment(r, l) \in Seq(X) /\ Len(Segment(r, l)) = C(l + 1) - C(l) - 1
        /\ \A y \in 1 .. C(l + 1) - C(l) - 1 : Segment(r, l)[y] = r[C(l) + y]
    BY <2>2, SegmentIs DEF C, G
  <2>6. C(l + 1) - C(l) - 1 = B(l + 1) - B(l) - 1
    BY <1>1, <1>2, <1>3, <2>2, <2>3
  <2>7. B(k) <= B(l) /\ B(l + 1) <= B(h) /\ B(k) \in Nat /\ B(h) \in Nat
    <3>1. k = l \/ k < l
      BY <1>1, <1>6
    <3>2. l + 1 = h \/ l + 1 < h
      BY <1>1, <1>6
    <3>3. B(k) \in Nat /\ B(h) \in Nat
      BY <1>1, <1>6
    <3>4. k < l => B(k) < B(l)
      BY <1>5, <1>6, <2>1
    <3>5. l + 1 < h => B(l + 1) < B(h)
      BY <1>5, <1>6, <2>1
    <3>6. B(k) <= B(l)
      BY <2>3, <3>1, <3>3, <3>4
    <3>7. B(l + 1) <= B(h)
      BY <2>3, <3>2, <3>3, <3>5
    <3> QED
      BY <3>3, <3>6, <3>7
  <2>8. ASSUME NEW y \in 1 .. B(l + 1) - B(l) - 1 PROVE t[B(l) + y] = r[C(l) + y]
    <3>1. B(l) + y \in i .. c - 1 /\ (B(l) + y) + j - i = C(l) + y
      <4>1. i <= B(k) + 1 /\ B(h) < c
        BY <1>3, <1>6
      <4>2. PICK b \in Nat, e \in Nat, b1 \in Nat, bh \in Nat :
              b = B(l) /\ e = B(k) /\ b1 = B(l + 1) /\ bh = B(h)
        BY <2>3, <2>7
      <4>3. y \in 1 .. b1 - b - 1 /\ C(l) = b + j - i /\ e <= b /\ b1 <= bh /\ i <= e + 1 /\ bh < c
        BY <2>2, <2>7, <4>1, <4>2
      <4>4. b + y \in i .. c - 1 /\ (b + y) + j - i = C(l) + y
        BY <1>a, <4>3
      <4> QED
        BY <4>2, <4>4
    <3> QED
      BY <1>4, <3>1
  <2>9. \A y \in 1 .. Len(Segment(t, l)) : Segment(t, l)[y] = Segment(r, l)[y]
    BY <2>4, <2>5, <2>6, <2>8
  <2>10. Len(Segment(t, l)) = Len(Segment(r, l))
    BY <2>4, <2>5, <2>6
  <2> QED
    BY <2>4, <2>5, <2>9, <2>10, SeqEqual
<1>10. h \in k .. h
  BY <1>1, <1>6
<1> QED
  BY <1>8, <1>9, <1>10 DEF B, C, G, i, j

(* Texts with the same segments are the same. *)
LEMMA SameSegments ==
  ASSUME NEW X, NEW t \in Seq(X), NEW r \in Seq(X), Final(t) = Final(r),
         \A l \in 0 .. Final(t) : Segment(t, l) = Segment(r, l)
  PROVE  t = r
<1> DEFINE F == Final(t)
<1>1. /\ Len(t) \in Nat /\ Len(r) \in Nat /\ F \in Nat
      /\ Border(t, F + 1) = Len(t) + 1 /\ Border(r, F + 1) = Len(r) + 1
      /\ Start(t, 0) = 1 /\ Start(r, 0) = 1
  BY BorderIs, StartIs
<1>2. 0 \in 0 .. F + 1 /\ F + 1 \in 0 .. F + 1 /\ (F + 1) - 1 = F
  BY <1>1
<1>3. /\ Border(r, F + 1) = Border(t, F + 1) + 1 - 1
      /\ \A x \in 1 .. Border(t, F + 1) : x <= Len(t) => t[x] = r[x + 1 - 1]
  <2>1. \A l \in 0 .. (F + 1) - 1 : Segment(t, l) = Segment(r, l)
    BY <1>2
  <2>2. /\ \A l \in 0 .. F + 1 : Border(r, l) = Border(t, l) + Start(r, 0) - Start(t, 0)
        /\ \A x \in Start(t, 0) .. Border(t, F + 1) :
             x <= Len(t) => t[x] = r[x + Start(r, 0) - Start(t, 0)]
    BY <1>2, <2>1, SameBorders
  <2> QED
    BY <1>1, <1>2, <2>2
<1>4. Len(t) = Len(r)
  BY <1>1, <1>3
<1>5. ASSUME NEW x \in 1 .. Len(t) PROVE t[x] = r[x]
  <2>1. x \in 1 .. Border(t, F + 1) /\ x <= Len(t) /\ x + 1 - 1 = x
    BY <1>1
  <2> QED
    BY <1>3, <2>1
<1> QED
  BY <1>4, <1>5, SeqEqual

(* A route that a template describes is an instance of it. *)
LEMMA DescribesIsInstance ==
  ASSUME NEW X, NEW t \in Seq(X), NEW r \in Seq(X), Valid(t), Describes(t, r)
  PROVE  IsInstance(t, r)
<1> DEFINE F == Final(t)
           m == Len(t)
           n == Len(r)
           B(l) == Border(t, l)
           C(l) == Border(r, l)
<1>1. /\ m \in Nat /\ F \in Nat /\ B(F + 1) = m + 1
      /\ \A l \in 0 .. F + 1 : B(l) \in 0 .. m + 1
      /\ \A l \in 1 .. F : B(l) \in 1 .. m
  BY BorderIs
<1>2. Final(r) = F /\ \A l \in 0 .. F : Fits(Segment(t, l), Segment(r, l))
  BY DEF Describes
<1>3. /\ n \in Nat /\ C(F + 1) = n + 1
      /\ \A l \in 0 .. F + 1 : C(l) \in 0 .. n + 1
      /\ \A l \in 1 .. F : C(l) \in 1 .. n
      /\ \A l \in 0 .. F : C(l) < C(l + 1)
  BY <1>2, BorderIs
<1>4. CASE Holes(t) = {}
  <2>1. ASSUME NEW l \in 0 .. F PROVE Segment(t, l) = Segment(r, l)
    <3>1. \A p \in Specifiers : Segment(t, l) # <<p>>
      BY <1>4, HoleIsSegment
    <3> QED
      BY <1>2, <3>1 DEF Fits
  <2>2. t = r
    BY <1>2, <2>1, SameSegments
  <2> QED
    BY <1>4, <2>2 DEF IsInstance
<1>5. CASE Holes(t) # {}
  <2>1. PICK M : /\ IsInstance(t, r) = M[<<1, 1>>]
                 /\ \A i \in 1 .. m + 1, j \in 1 .. n + 1 : M[<<i, j>>] = Round(M, t, i, r, j)
    BY <1>5, IsInstanceUnfolds
  <2> DEFINE K == {k \in 0 .. F + 1 : ~ M[<<Start(t, k), Start(r, k)>>]}
  <2>2. /\ \A k \in 0 .. F + 1 : Start(t, k) \in 1 .. m + 1 /\ Start(r, k) \in 1 .. n + 1
        /\ \A k \in 1 .. F + 1 : Start(t, k) = B(k) /\ Start(r, k) = C(k)
        /\ Start(t, 0) = 1 /\ Start(r, 0) = 1
    BY <1>2, StartIs
  <2> HIDE DEF F, m, n, B, C
  <2>3. K = {}
    <3> SUFFICES ASSUME K # {} PROVE FALSE
      OBVIOUS
    <3>1. PICK k \in K : \A y \in K : k >= y
      <4>1. K \in SUBSET (0 .. F + 1) /\ F + 1 \in Nat
        BY <1>1
      <4> HIDE DEF K
      <4> QED
        BY <4>1, GreatestIsIn
    <3>2. /\ k \in 0 .. F + 1
          /\ ~ Round(M, t, Start(t, k), r, Start(r, k))
      BY <2>1, <2>2
    <3>3. \A l \in k + 1 .. F + 1 : M[<<Start(t, l), Start(r, l)>>]
      <4>1. \A l \in k + 1 .. F + 1 : l \in 0 .. F + 1 /\ ~(k >= l)
        BY <1>1, <3>2
      <4> QED
        BY <3>1, <4>1
    <3>4. CASE k = F + 1
      <4>1. Start(t, k) = m + 1
        BY <1>1, <2>2, <3>4
      <4>2. Start(t, k) > Len(t)
        BY <1>1, <4>1 DEF m
      <4> QED
        BY <3>2, <4>2 DEF Round
    <3>5. CASE k # F + 1
      <4> DEFINE i == Start(t, k)
                 j == Start(r, k)
                 hole == Find(t, i, Specifiers)
                 nextI == Find(t, hole, {"/"})
                 nextJ == Find(r, j + hole - i, {"/"})
      <4>0. k \in 0 .. F
        BY <1>1, <3>2, <3>5
      <4>1. i \in 1 .. m + 1 /\ j \in 1 .. n + 1 /\ i \in Nat /\ j \in Nat
        <5>1. i \in 1 .. m + 1 /\ j \in 1 .. n + 1
          BY <2>2, <3>2
        <5> HIDE DEF i, j
        <5> QED
          BY <5>1
      <4>2. PICK h \in k .. F + 1 :
              /\ h \in 1 .. F => hole = B(h) + 1 /\ nextI = B(h + 1)
              /\ h = F + 1 => hole = m + 1 /\ nextI = m + 1
              /\ h \in 1 .. F + 1
              /\ hole \in i .. m + 1
              /\ \A l \in k .. h - 1, p \in Specifiers : Segment(t, l) # <<p>>
        BY <1>5, <4>0, NextHole DEF F, B, m
      <4>3. \A l \in k .. h - 1 : Segment(t, l) = Segment(r, l)
        <5>1. \A l \in k .. h - 1 : l \in 0 .. F
          BY <1>1, <3>2, <4>2
        <5> QED
          BY <1>2, <4>2, <5>1 DEF Fits
      <4>4. /\ \A l \in k .. h : C(l) = B(l) + j - i
            /\ \A x \in i .. B(h) : x <= Len(t) => t[x] = r[x + j - i]
        BY <1>2, <3>2, <4>3, SameBorders DEF F, B, C
      <4> HIDE DEF i, j, hole, nextI, nextJ
      <4>a. m \in Nat /\ n \in Nat /\ i \in Nat /\ j \in Nat /\ hole \in Nat /\ hole <= m + 1
        BY <1>1, <1>3, <4>1, <4>2
      <4>5. hole \in Nat /\ B(h) \in Nat /\ C(h) \in Nat /\ h \in 0 .. F + 1 /\ h \in Nat
        BY <1>1, <1>3, <3>2, <4>1, <4>2
      <4>6. h \in 1 .. F \/ h = F + 1
        BY <1>1, <4>2
      <4>7. C(h) = B(h) + j - i
        <5>1. h \in k .. h
          BY <3>2, <4>2, <4>5
        <5> QED
          BY <4>4, <5>1
      <4>8. hole - i <= n + 1 - j
        <5>1. PICK b \in Nat, c \in Nat : b = B(h) /\ c = C(h)
          BY <4>5
        <5>2. CASE h \in 1 .. F
          <6>1. hole = b + 1 /\ c <= n /\ c = b + j - i
            BY <1>3, <4>2, <4>7, <5>1, <5>2
          <6> QED
            BY <4>a, <6>1
        <5>3. CASE h = F + 1
          <6>1. hole = b /\ c = n + 1 /\ c = b + j - i
            BY <1>1, <1>3, <4>2, <4>7, <5>1, <5>3
          <6> QED
            BY <4>a, <6>1
        <5> QED
          BY <4>6, <5>2, <5>3
      <4>9. \A x \in i .. hole - 1 : t[x] = r[x + j - i]
        <5>1. hole - 1 <= B(h)
          <6>1. PICK b \in Nat : b = B(h)
            BY <4>5
          <6>2. hole = b + 1 \/ hole = b
            BY <1>1, <4>2, <4>6, <6>1
          <6>3. hole - 1 <= b
            BY <6>2
          <6> QED
            BY <6>1, <6>3
        <5>2. \A x \in i .. hole - 1 : x \in i .. B(h) /\ x <= Len(t)
          <6>1. \A x \in i .. hole - 1 : x \in i .. B(h) /\ x <= m
            BY <4>a, <4>5, <5>1
          <6> QED
            BY <6>1 DEF m
        <5> QED
          BY <4>4, <5>2
      <4>10. StartsWith(r, j, SubSeq(t, i, hole - 1))
        BY <4>1, <4>2, <4>8, <4>9, StartsWithIs DEF m, n
      <4>11. PICK l \in k + 1 .. F + 1 : /\ nextI = Start(t, l) /\ nextJ = Start(r, l)
                                         /\ nextI > m <=> nextJ > n
        <5>1. CASE h \in 1 .. F
          <6>1. nextI = B(h + 1)
            BY <4>2, <5>1
          <6>2. j + hole - i = C(h) + 1
            <7>1. PICK b \in Nat, c \in Nat : b = B(h) /\ c = C(h)
              BY <4>5
            <7>2. hole = b + 1 /\ c = b + j - i
              BY <4>2, <4>7, <5>1, <7>1
            <7>3. j + hole - i = c + 1
              BY <4>a, <7>2
            <7> QED
              BY <7>1, <7>3
          <6>3. h \in 0 .. F /\ h + 1 \in 1 .. F + 1 /\ h + 1 \in k + 1 .. F + 1
                /\ h + 1 \in 0 .. F + 1
            BY <1>1, <3>2, <4>2, <5>1
          <6>4. C(h) < C(h + 1) /\ C(h + 1) \in Nat
            BY <1>3, <6>3
          <6>5. C(h) + 1 \in C(h) + 1 .. C(h + 1)
            BY <4>5, <6>4
          <6>6. nextJ = C(h + 1)
            BY <1>2, <6>2, <6>3, <6>5, FindSlash DEF nextJ, C
          <6>7. nextI = Start(t, h + 1) /\ nextJ = Start(r, h + 1)
            BY <2>2, <6>1, <6>3, <6>6
          <6>8. nextI > m <=> nextJ > n
            <7>1. CASE h = F
              BY <1>1, <1>3, <6>1, <6>6, <7>1
            <7>2. CASE h # F
              <8>1. h + 1 \in 1 .. F
                BY <1>1, <5>1, <7>2
              <8>2. B(h + 1) \in 1 .. m /\ C(h + 1) \in 1 .. n
                BY <1>1, <1>3, <8>1
              <8>3. PICK x \in 1 .. m, y \in 1 .. n : x = nextI /\ y = nextJ
                BY <6>1, <6>6, <8>2
              <8>4. ~(x > m) /\ ~(y > n)
                BY <4>a
              <8> QED
                BY <8>3, <8>4
            <7> QED
              BY <7>1, <7>2
          <6> QED
            BY <6>3, <6>7, <6>8
        <5>2. CASE h = F + 1
          <6>1. nextI = m + 1
            BY <4>2, <5>2
          <6>2. j + hole - i = n + 1
            <7>1. hole = m + 1 /\ n + 1 = (m + 1) + j - i
              BY <1>1, <1>3, <4>2, <4>7, <5>2
            <7> QED
              BY <1>1, <1>3, <4>1, <7>1
          <6>3. nextJ = n + 1
            <7>1. n + 1 \in Nat \ {0} /\ n + 1 > n
              BY <1>3
            <7> QED
              BY <6>2, <7>1, FindIs DEF nextJ, n
          <6>4. F + 1 \in k + 1 .. F + 1 /\ F + 1 \in 1 .. F + 1
            BY <1>1, <4>0
          <6>5. nextI = Start(t, F + 1) /\ nextJ = Start(r, F + 1)
            BY <1>1, <1>3, <2>2, <6>1, <6>3, <6>4
          <6>6. nextI > m <=> nextJ > n
            BY <1>1, <1>3, <6>1, <6>3
          <6> QED
            BY <6>4, <6>5, <6>6
        <5> QED
          BY <4>6, <5>1, <5>2
      <4>12. EndTogether(t, nextI, r, nextJ) /\ M[<<nextI, nextJ>>]
        BY <3>3, <4>11 DEF EndTogether, m, n
      <4>13. Round(M, t, i, r, j)
        BY <4>10, <4>12 DEF Round, hole, nextI, nextJ
      <4> QED
        BY <3>2, <4>13 DEF i, j
    <3> QED
      BY <3>4, <3>5
  <2>4. 0 \in 0 .. F + 1
    BY <1>1
  <2>5. M[<<1, 1>>]
    BY <2>2, <2>3, <2>4
  <2> QED
    BY <2>1, <2>5
<1> QED
  BY <1>4, <1>5

(* What a round that succeeds shows: the text up to the next parameter is   *)
(* the same, and both texts have a slash behind the parameter or neither.   *)
LEMMA RoundSucceeds ==
  ASSUME NEW X, NEW t \in Seq(X), NEW r \in Seq(X), Valid(t), Holes(t) # {}, r # <<>>,
         NEW M, NEW k \in 0 .. Final(t), k <= Final(r),
         Round(M, t, Start(t, k), r, Start(r, k))
  PROVE  \/ \E h \in k .. Final(t) :
              /\ h <= Final(r) /\ h \in 1 .. Final(t)
              /\ Border(r, h) = Border(t, h) + Start(r, k) - Start(t, k)
              /\ \A l \in k .. h - 1 : Segment(t, l) = Segment(r, l)
              /\ \E p \in Specifiers : Segment(t, h) = <<p>>
              /\ h = Final(t) <=> h = Final(r)
              /\ h # Final(t) => M[<<Start(t, h + 1), Start(r, h + 1)>>]
         \/ /\ Final(t) = Final(r)
            /\ \A l \in k .. Final(t) - 1 : Segment(t, l) = Segment(r, l)
            /\ LET pattern == Segment(t, Final(t))
                   text == Segment(r, Final(t))
               IN \/ pattern = text
                  \/ Len(pattern) < Len(text) /\ SubSeq(text, 1, Len(pattern)) = pattern
            /\ Find(t, Start(t, k), Specifiers) = Len(t) + 1
<1> DEFINE F == Final(t)
           G == Final(r)
           m == Len(t)
           n == Len(r)
           B(l) == Border(t, l)
           C(l) == Border(r, l)
           i == Start(t, k)
           j == Start(r, k)
           hole == Find(t, i, Specifiers)
           nextI == Find(t, hole, {"/"})
           nextJ == Find(r, j + hole - i, {"/"})
<1>1. /\ m \in Nat /\ F \in Nat /\ B(F + 1) = m + 1 /\ B(0) = 0
      /\ \A l \in 0 .. F + 1 : B(l) \in 0 .. m + 1
      /\ \A l \in 1 .. F : B(l) \in 1 .. m
      /\ \A l \in 0 .. F :
           B(l) < B(l + 1) /\ \A x \in 1 .. m : B(l) < x /\ x < B(l + 1) => t[x] # "/"
  BY BorderIs
<1>2. /\ n \in Nat /\ G \in Nat /\ C(G + 1) = n + 1
      /\ \A l \in 0 .. G + 1 : C(l) \in 0 .. n + 1
      /\ \A l \in 1 .. G : C(l) \in 1 .. n
      /\ \A l \in 0 .. G : C(l) < C(l + 1)
  BY BorderIs
<1>3. k \in 0 .. F /\ k \in 0 .. G /\ k \in Nat /\ k \in 0 .. F + 1 /\ k \in 0 .. G + 1
  BY <1>1, <1>2
<1>4. i \in 1 .. m + 1 /\ j \in 1 .. n + 1 /\ i \in Nat /\ j \in Nat
  BY <1>1, <1>2, <1>3, StartIs
<1>5. /\ \A l \in 1 .. F + 1 : Start(t, l) = B(l)
      /\ \A l \in 1 .. G + 1 : Start(r, l) = C(l)
      /\ Start(t, 0) = 1 /\ Start(r, 0) = 1
  BY StartIs
<1>6. i <= m /\ j <= n
  <2>1. CASE k = 0
    <3>1. PICK x : x \in Holes(t)
      OBVIOUS
    <3>2. x \in 1 .. m
      BY <3>1, LenProperties DEF Holes
    <3>3. n # 0
      BY EmptySeq, <1>2
    <3> QED
      BY <1>1, <1>2, <1>5, <2>1, <3>2, <3>3
  <2>2. CASE k # 0
    <3>1. k \in 1 .. F /\ k \in 1 .. G /\ k \in 1 .. F + 1 /\ k \in 1 .. G + 1
      BY <1>1, <1>2, <1>3, <2>2
    <3> QED
      BY <1>1, <1>2, <1>5, <3>1
  <2> QED
    BY <2>1, <2>2
<1>7. /\ StartsWith(r, j, SubSeq(t, i, hole - 1))
      /\ (nextI > m) <=> (nextJ > n)
      /\ M[<<nextI, nextJ>>]
  BY <1>1, <1>2, <1>4, <1>6 DEF Round, EndTogether
<1>8. PICK h \in k .. F + 1 :
        /\ h \in 1 .. F => /\ hole = B(h) + 1 /\ nextI = B(h + 1)
                           /\ \E p \in Specifiers : Segment(t, h) = <<p>>
        /\ h = F + 1 => hole = m + 1 /\ nextI = m + 1
        /\ h \in 1 .. F + 1
        /\ hole \in i .. m + 1
  BY NextHole
<1> HIDE DEF F, G, m, n, B, C, i, j, hole, nextI, nextJ
<1>a. hole \in Nat /\ hole <= m + 1 /\ i <= hole
  BY <1>1, <1>4, <1>8
<1>9. /\ hole - i <= n + 1 - j
      /\ \A x \in i .. hole - 1 : t[x] = r[x + j - i]
  <2>1. i \in 1 .. Len(t) + 1 /\ hole \in i .. Len(t) + 1 /\ j \in 1 .. Len(r) + 1
    BY <1>4, <1>8 DEF m, n
  <2>2. StartsWith(r, j, SubSeq(t, i, hole - 1)) <=>
           /\ hole - i <= Len(r) + 1 - j
           /\ \A x \in i .. hole - 1 : t[x] = r[x + j - i]
    BY <2>1, StartsWithIs
  <2> QED
    BY <1>7, <2>2 DEF n
<1>10. ASSUME NEW g \in k .. F, B(g) < hole
       PROVE  /\ g <= G /\ C(g) = B(g) + j - i
              /\ \A l \in k .. g - 1 : Segment(t, l) = Segment(r, l)
  <2>1. hole \in i .. m + 1
    BY <1>8
  <2> QED
    BY <1>3, <1>9, <1>10, <2>1, SameText DEF F, G, B, C, i, j, m, n
<1>11. CASE h \in 1 .. F
  <2>1. h \in k .. F /\ h \in 0 .. F /\ h \in 0 .. F + 1 /\ h + 1 \in 1 .. F + 1
    BY <1>1, <1>3, <1>8, <1>11
  <2>2. hole = B(h) + 1 /\ nextI = B(h + 1) /\ \E p \in Specifiers : Segment(t, h) = <<p>>
    BY <1>8, <1>11
  <2>3. B(h) \in Nat /\ B(h) < hole
    BY <1>1, <2>1, <2>2
  <2>4. /\ h <= G /\ C(h) = B(h) + j - i
        /\ \A l \in k .. h - 1 : Segment(t, l) = Segment(r, l)
    BY <1>10, <2>1, <2>3
  <2>5. h \in 0 .. G /\ h \in 0 .. G + 1 /\ h + 1 \in 1 .. G + 1 /\ h + 1 \in 0 .. G + 1
    BY <1>2, <2>1, <2>4
  <2>6. C(h) \in Nat /\ C(h) < C(h + 1) /\ C(h + 1) \in Nat
    BY <1>2, <2>5
  <2>7. nextJ = C(h + 1)
    <3>1. PICK b \in Nat, c \in Nat : b = B(h) /\ c = C(h)
      BY <2>3, <2>6
    <3>2. c = b + j - i /\ hole = b + 1
      BY <2>2, <2>4, <3>1
    <3>3. j + hole - i = C(h) + 1
      <4>1. j + hole - i = c + 1
        BY <1>4, <3>2
      <4> QED
        BY <3>1, <4>1
    <3>4. C(h) + 1 \in C(h) + 1 .. C(h + 1)
      BY <2>6
    <3> QED
      BY <2>5, <3>3, <3>4, FindSlash DEF nextJ, C, G
  <2>8. h = F <=> h = G
    <3>1. h = F => nextI > m
      BY <1>1, <2>2
    <3>2. h # F => ~(nextI > m)
      <4>1. h # F => h + 1 \in 1 .. F
        BY <1>1, <2>1
      <4>2. h # F => B(h + 1) \in 1 .. m
        BY <1>1, <4>1
      <4> QED
        BY <1>1, <2>2, <4>2
    <3>3. h = G => nextJ > n
      BY <1>2, <2>7
    <3>4. h # G => ~(nextJ > n)
      <4>1. h # G => h + 1 \in 1 .. G
        BY <1>2, <2>5
      <4>2. h # G => C(h + 1) \in 1 .. n
        BY <1>2, <4>1
      <4> QED
        BY <1>2, <2>7, <4>2
    <3> QED
      BY <1>7, <3>1, <3>2, <3>3, <3>4
  <2>9. M[<<Start(t, h + 1), Start(r, h + 1)>>]
    BY <1>5, <1>7, <2>1, <2>2, <2>5, <2>7
  <2> QED
    BY <1>11, <2>1, <2>2, <2>4, <2>8, <2>9 DEF F, G, B, C, i, j
<1>12. CASE h = F + 1
  <2>1. hole = m + 1 /\ nextI = m + 1
    BY <1>8, <1>12
  <2>2. F \in k .. F /\ F \in 0 .. F /\ F \in 0 .. F + 1
    BY <1>1, <1>3
  <2>3. B(F) \in Nat /\ B(F) < B(F + 1) /\ B(F) < hole
    BY <1>1, <2>1, <2>2
  <2>4. /\ F <= G /\ C(F) = B(F) + j - i
        /\ \A l \in k .. F - 1 : Segment(t, l) = Segment(r, l)
    BY <1>10, <2>2, <2>3
  <2>5. nextJ > n
    BY <1>1, <1>7, <2>1
  <2>6. F \in 0 .. G /\ F \in 0 .. G + 1
    BY <1>1, <1>2, <2>4
  <2>b. C(F) \in Nat
    BY <1>2, <2>6
  <2>7. B(k) <= B(F) /\ i <= B(k) + 1 /\ B(k) \in Nat
    <3>1. k = F \/ k < F
      BY <1>1, <1>3
    <3>2. k < F => B(k) < B(F)
      BY <1>3, <2>2, BorderOrder DEF B, F
    <3>3. B(k) \in Nat
      BY <1>1, <1>3
    <3>4. i <= B(k) + 1
      BY <1>3, StartIs DEF i, B, F
    <3> QED
      BY <2>3, <3>1, <3>2, <3>3, <3>4
  <2>8. ASSUME NEW y \in 1 .. n, C(F) < y PROVE r[y] # "/"
    <3>1. PICK b \in Nat, c \in Nat : b = B(F) /\ c = C(F)
      BY <2>3, <2>b
    <3>2. c = b + j - i /\ c < y /\ y \in Nat /\ i <= b + 1
      <4>1. i <= b + 1
        BY <1>4, <2>7, <3>1
      <4> QED
        BY <2>4, <2>8, <3>1, <4>1
    <3>3. CASE y < j + hole - i
      <4>1. PICK x \in i .. hole - 1 : x + j - i = y /\ b < x
        <5>1. (y + i - j) \in i .. hole - 1 /\ (y + i - j) + j - i = y /\ b < (y + i - j)
          BY <1>4, <1>a, <3>2, <3>3
        <5> QED
          BY <5>1
      <4>2. x \in 1 .. m /\ x < m + 1
        BY <1>1, <1>4, <2>1, <4>1
      <4>3. t[x] # "/"
        BY <1>1, <2>2, <3>1, <4>1, <4>2
      <4> QED
        BY <1>9, <4>1, <4>3
    <3>4. CASE ~(y < j + hole - i)
      <4>1. j + hole - i \in Nat \ {0}
        BY <1>1, <1>4, <1>6, <2>1
      <4>2. \A x \in 1 .. n : j + hole - i <= x /\ x < nextJ => r[x] # "/"
        BY <4>1, FindIs DEF nextJ, n
      <4>3. nextJ \in Nat
        <5>1. nextJ \in 1 .. n + 1
          BY <4>1, FindIs DEF nextJ, n
        <5> QED
          BY <1>2, <5>1
      <4>4. j + hole - i <= y /\ y < nextJ
        BY <1>2, <2>5, <3>2, <3>4, <4>1, <4>3
      <4> QED
        BY <4>2, <4>4
    <3> QED
      BY <3>3, <3>4
  <2>9. F = G
    BY <2>6, <2>8, NextBorder DEF G, C, n
  <2> DEFINE pattern == Segment(t, F)
             text == Segment(r, F)
             p == Len(pattern)
  <2>10. /\ pattern \in Seq(X) /\ p = m + 1 - B(F) - 1
         /\ \A y \in 1 .. m + 1 - B(F) - 1 : pattern[y] = t[B(F) + y]
    <3>1. PICK e : e = B(F + 1)
      OBVIOUS
    <3>2. /\ pattern \in Seq(X) /\ Len(pattern) = e - B(F) - 1
          /\ \A y \in 1 .. e - B(F) - 1 : pattern[y] = t[B(F) + y]
      BY <2>2, <3>1, SegmentIs DEF F, B
    <3>3. e = m + 1
      BY <1>1, <3>1
    <3> HIDE DEF pattern, B, F, m
    <3>4. PICK d : d = e - B(F) - 1
      OBVIOUS
    <3>5. d = m + 1 - B(F) - 1
      BY <1>1, <2>3, <3>3, <3>4
    <3>6. pattern \in Seq(X) /\ Len(pattern) = d
      BY <3>2, <3>4
    <3>7. \A y \in 1 .. d : pattern[y] = t[B(F) + y]
      BY <3>2, <3>4
    <3>8. \A y \in 1 .. m + 1 - B(F) - 1 : pattern[y] = t[B(F) + y]
      BY <3>5, <3>7
    <3> QED
      BY <3>5, <3>6, <3>8
  <2>11. /\ text \in Seq(X) /\ Len(text) = n + 1 - C(F) - 1
         /\ \A y \in 1 .. n + 1 - C(F) - 1 : text[y] = r[C(F) + y]
    <3>1. PICK e : e = C(F + 1)
      OBVIOUS
    <3>2. /\ text \in Seq(X) /\ Len(text) = e - C(F) - 1
          /\ \A y \in 1 .. e - C(F) - 1 : text[y] = r[C(F) + y]
      <4>1. /\ text \in Seq(X) /\ Len(text) = C(F + 1) - C(F) - 1
            /\ \A y \in 1 .. C(F + 1) - C(F) - 1 : text[y] = r[C(F) + y]
        BY <2>6, SegmentIs DEF G, C
      <4> HIDE DEF text, C, F
      <4> QED
        BY <3>1, <4>1, Zenon
    <3>3. e = n + 1
      BY <1>2, <2>9, <3>1
    <3> HIDE DEF text, C, F, n
    <3>4. PICK d : d = e - C(F) - 1
      OBVIOUS
    <3>5. d = n + 1 - C(F) - 1
      BY <1>2, <2>b, <3>3, <3>4
    <3>6. text \in Seq(X) /\ Len(text) = d
      BY <3>2, <3>4
    <3>7. \A y \in 1 .. d : text[y] = r[C(F) + y]
      BY <3>2, <3>4
    <3>8. \A y \in 1 .. n + 1 - C(F) - 1 : text[y] = r[C(F) + y]
      BY <3>5, <3>7
    <3> QED
      BY <3>5, <3>6, <3>8
  <2> HIDE DEF pattern, text, p
  <2>12. /\ p \in Nat /\ p <= Len(text) /\ Len(text) \in Nat
         /\ \A y \in 1 .. p : pattern[y] = text[y]
    <3>1. PICK b \in Nat, c \in Nat : b = B(F) /\ c = C(F)
      BY <2>3, <2>b
    <3>2. c = b + j - i /\ p = m + 1 - b - 1 /\ Len(text) = n + 1 - c - 1 /\ i <= b + 1
          /\ b < m + 1 /\ (m + 1) - i <= n + 1 - j
      <4>1. i <= b + 1
        BY <1>4, <2>7, <3>1
      <4> QED
        BY <1>1, <1>9, <2>1, <2>3, <2>4, <2>10, <2>11, <3>1, <4>1
    <3>3. p \in Nat /\ p <= Len(text) /\ Len(text) \in Nat
      BY <1>1, <1>2, <1>4, <3>2
    <3>4. ASSUME NEW y \in 1 .. p PROVE pattern[y] = text[y]
      <4>1. b + y \in i .. hole - 1 /\ (b + y) + j - i = c + y
        BY <1>1, <1>4, <2>1, <3>2, <3>3
      <4>2. t[b + y] = r[c + y]
        BY <1>9, <4>1
      <4>3. y \in 1 .. m + 1 - b - 1 /\ y \in 1 .. n + 1 - c - 1
        BY <1>1, <1>2, <3>2, <3>3
      <4> QED
        BY <2>10, <2>11, <3>1, <4>2, <4>3
    <3> QED
      BY <3>3, <3>4
  <2>13. \/ pattern = text
         \/ p < Len(text) /\ SubSeq(text, 1, p) = pattern
    <3>1. CASE p = Len(text)
      <4>1. \A y \in 1 .. Len(pattern) : pattern[y] = text[y]
        BY <2>12 DEF p
      <4>2. Len(pattern) = Len(text)
        BY <3>1 DEF p
      <4> QED
        BY <2>10, <2>11, <4>1, <4>2, SeqEqual
    <3>2. CASE p # Len(text)
      <4> DEFINE front == SubSeq(text, 1, p)
      <4>1. p < Len(text)
        BY <2>12, <3>2
      <4>2. \A y \in 1 .. p : text[y] \in X
        BY <2>11, <2>12, ElementOfSeq
      <4>3. /\ front \in Seq(X) /\ Len(front) = (IF 1 <= p THEN p - 1 + 1 ELSE 0)
            /\ \A y \in 1 .. p - 1 + 1 : front[y] = text[1 + y - 1]
        <5>1. p \in Int /\ 1 \in Int
          BY <2>12
        <5> QED
          BY <4>2, <5>1, SubSeqProperties
      <4> HIDE DEF front
      <4>4. Len(front) = p /\ \A y \in 1 .. p : front[y] = text[y]
        <5>1. \A y \in 1 .. p : y \in 1 .. p - 1 + 1 /\ 1 + y - 1 = y
          BY <2>12
        <5>2. \A y \in 1 .. p : front[y] = text[y]
          BY <4>3, <5>1
        <5> QED
          BY <2>12, <4>3, <5>2
      <4>5. \A y \in 1 .. Len(front) : front[y] = pattern[y]
        BY <2>12, <4>4
      <4>6. Len(front) = Len(pattern)
        BY <4>4 DEF p
      <4>7. front = pattern
        BY <2>10, <4>3, <4>5, <4>6, SeqEqual
      <4> QED
        BY <4>1, <4>7 DEF front
    <3> QED
      BY <3>1, <3>2
  <2> QED
    BY <2>1, <2>4, <2>9, <2>13 DEF F, G, pattern, text, p, hole, i, m
<1>13. h \in 1 .. F \/ h = F + 1
  BY <1>1, <1>8
<1> QED
  BY <1>11, <1>12, <1>13

(* What isInstance goes through without returning false fits, segment by    *)
(* segment, but for the end of a last literal one.                          *)
FitsFrom(t, r, k) ==
  /\ Final(t) = Final(r)
  /\ \A l \in k .. Final(t) - 1 : Fits(Segment(t, l), Segment(r, l))
  /\ LET pattern == Segment(t, Final(t))
         text == Segment(r, Final(t))
     IN \/ Fits(pattern, text)
        \/ Len(pattern) < Len(text) /\ SubSeq(text, 1, Len(pattern)) = pattern

(* From any round on, what is gone through fits. *)
LEMMA RoundsFit ==
  ASSUME NEW X, NEW t \in Seq(X), NEW r \in Seq(X), Valid(t), Holes(t) # {}, r # <<>>,
         NEW M,
         \A i \in 1 .. Len(t) + 1, j \in 1 .. Len(r) + 1 : M[<<i, j>>] = Round(M, t, i, r, j),
         NEW k \in 0 .. Final(t), k <= Final(r), M[<<Start(t, k), Start(r, k)>>]
  PROVE  FitsFrom(t, r, k)
<1> DEFINE F == Final(t)
           G == Final(r)
           K == {l \in 0 .. F : /\ l <= G /\ M[<<Start(t, l), Start(r, l)>>]
                                /\ ~FitsFrom(t, r, l)}
<1>1. F \in Nat /\ G \in Nat
  BY BorderIs
<1>2. SUFFICES ASSUME K # {} PROVE FALSE
  BY <1>1
<1>3. PICK c \in K : \A y \in K : c >= y
  <2>1. K \in SUBSET (0 .. F)
    OBVIOUS
  <2> HIDE DEF K, F
  <2> QED
    BY <1>1, <1>2, <2>1, GreatestIsIn
<1>4. c \in 0 .. F /\ c <= G /\ M[<<Start(t, c), Start(r, c)>>] /\ ~FitsFrom(t, r, c)
  BY <1>3
<1>5. Round(M, t, Start(t, c), r, Start(r, c))
  <2>1. c \in 0 .. F + 1 /\ c \in 0 .. G + 1
    BY <1>1, <1>4
  <2>2. Start(t, c) \in 1 .. Len(t) + 1 /\ Start(r, c) \in 1 .. Len(r) + 1
    BY <2>1, StartIs
  <2> QED
    BY <1>4, <2>2
<1>6. CASE \E h \in c .. F :
             /\ h <= G /\ h \in 1 .. F
             /\ \A l \in c .. h - 1 : Segment(t, l) = Segment(r, l)
             /\ \E p \in Specifiers : Segment(t, h) = <<p>>
             /\ h = F <=> h = G
             /\ h # F => M[<<Start(t, h + 1), Start(r, h + 1)>>]
  <2>1. PICK h \in c .. F :
             /\ h <= G /\ h \in 1 .. F
             /\ \A l \in c .. h - 1 : Segment(t, l) = Segment(r, l)
             /\ \E p \in Specifiers : Segment(t, h) = <<p>>
             /\ h = F <=> h = G
             /\ h # F => M[<<Start(t, h + 1), Start(r, h + 1)>>]
    BY <1>6
  <2>2. \A l \in c .. h : Fits(Segment(t, l), Segment(r, l))
    <3>1. \A l \in c .. h : l = h \/ l \in c .. h - 1
      BY <1>1, <1>4, <2>1
    <3> QED
      BY <2>1, <3>1 DEF Fits
  <2>3. CASE h = F
    <3>1. F = G /\ Fits(Segment(t, F), Segment(r, F))
      <4>1. h \in c .. h
        BY <1>1, <1>4, <2>1
      <4> QED
        BY <2>1, <2>2, <2>3, <4>1
    <3>2. \A l \in c .. F - 1 : Fits(Segment(t, l), Segment(r, l))
      BY <1>1, <1>4, <2>2, <2>3
    <3> QED
      BY <1>4, <3>1, <3>2 DEF FitsFrom
  <2>4. CASE h # F
    <3>1. h + 1 \in 0 .. F /\ h + 1 <= G /\ h \in Nat /\ ~(c >= h + 1) /\ c <= h
      BY <1>1, <1>4, <2>1, <2>4
    <3>2. FitsFrom(t, r, h + 1)
      BY <1>3, <2>1, <2>4, <3>1
    <3>3. \A l \in c .. F - 1 : l \in c .. h \/ l \in h + 1 .. F - 1
      BY <1>1, <1>4, <3>1
    <3>4. \A l \in c .. F - 1 : Fits(Segment(t, l), Segment(r, l))
      BY <2>2, <3>2, <3>3 DEF FitsFrom
    <3> QED
      BY <1>4, <3>2, <3>4 DEF FitsFrom
  <2> QED
    BY <2>3, <2>4
<1>7. CASE /\ F = G
           /\ \A l \in c .. F - 1 : Segment(t, l) = Segment(r, l)
           /\ LET pattern == Segment(t, F)
                  text == Segment(r, G)
              IN \/ pattern = text
                 \/ Len(pattern) < Len(text) /\ SubSeq(text, 1, Len(pattern)) = pattern
  BY <1>4, <1>7 DEF FitsFrom, Fits
<1>8. <1>6!1 \/ <1>7!1
  <2> HIDE DEF K
  <2>1. c \in 0 .. Final(t) /\ c <= Final(r)
    BY <1>4
  <2>2. \/ \E h \in c .. Final(t) :
              /\ h <= Final(r) /\ h \in 1 .. Final(t)
              /\ Border(r, h) = Border(t, h) + Start(r, c) - Start(t, c)
              /\ \A l \in c .. h - 1 : Segment(t, l) = Segment(r, l)
              /\ \E p \in Specifiers : Segment(t, h) = <<p>>
              /\ h = Final(t) <=> h = Final(r)
              /\ h # Final(t) => M[<<Start(t, h + 1), Start(r, h + 1)>>]
        \/ /\ Final(t) = Final(r)
           /\ \A l \in c .. Final(t) - 1 : Segment(t, l) = Segment(r, l)
           /\ LET pattern == Segment(t, Final(t))
                  text == Segment(r, Final(t))
              IN \/ pattern = text
                 \/ Len(pattern) < Len(text) /\ SubSeq(text, 1, Len(pattern)) = pattern
           /\ Find(t, Start(t, c), Specifiers) = Len(t) + 1
    BY <1>5, <2>1, RoundSucceeds
  <2> QED
    BY <2>2
<1> QED
  BY <1>6, <1>7, <1>8

(* An instance is described by its template, but for the two liberties of   *)
(* isInstance: an empty route, and a last literal segment prolonged.        *)
LEMMA InstanceIsDescribed ==
  ASSUME NEW X, NEW t \in Seq(X), NEW r \in Seq(X), Valid(t), IsInstance(t, r)
  PROVE  \/ Describes(t, r)
         \/ DescribesPrefix(t, r)
         \/ Holes(t) # {} /\ r = <<>>
<1>1. CASE Holes(t) = {}
  <2>1. t = r
    BY <1>1 DEF IsInstance
  <2> QED
    BY <2>1 DEF Describes, Fits
<1>2. CASE Holes(t) # {} /\ r # <<>>
  <2>1. PICK M : /\ M[<<1, 1>>]
                 /\ \A i \in 1 .. Len(t) + 1, j \in 1 .. Len(r) + 1 :
                      M[<<i, j>>] = Round(M, t, i, r, j)
    BY <1>2, IsInstanceUnfolds
  <2>2. 0 \in 0 .. Final(t) /\ 0 <= Final(r) /\ Final(t) \in Nat
    BY BorderIs
  <2>3. M[<<Start(t, 0), Start(r, 0)>>]
    BY <2>1 DEF Start
  <2>4. FitsFrom(t, r, 0)
    BY <1>2, <2>1, <2>2, <2>3, RoundsFit
  <2>5. \A l \in 0 .. Final(t) : l = Final(t) \/ l \in 0 .. Final(t) - 1
    BY <2>2
  <2> QED
    BY <1>2, <2>4, <2>5 DEF FitsFrom, Describes, DescribesPrefix
<1> QED
  BY <1>1, <1>2

(* The first parameter that is extracted from an instance is the segment in *)
(* the place of the template's first one.                                   *)
LEMMA FirstParamIsSegment ==
  ASSUME NEW X, NEW t \in Seq(X), NEW r \in Seq(X), Valid(t), Holes(t) # {}, r # <<>>,
         IsInstance(t, r)
  PROVE  LET hole == Min(Holes(t))
         IN /\ hole \in Holes(t) /\ hole - 1 <= Len(r)
            /\ FirstParam(t, r) = Segment(r, Cardinality({i \in Slashes(t) : i < hole}))
            /\ FirstParam(t, r) \in Seq(X)
<1> DEFINE hole == Min(Holes(t))
           before == {i \in Slashes(t) : i < hole}
<1>1. /\ Len(t) \in Nat /\ Len(r) \in Nat /\ Final(t) \in Nat /\ Final(r) \in Nat
      /\ DOMAIN t = 1 .. Len(t) /\ Len(r) # 0
  BY BorderIs, LenProperties, EmptySeq
<1>2. hole \in Holes(t) /\ \A y \in Holes(t) : hole <= y
  <2>1. Holes(t) \in SUBSET Nat
    BY <1>1 DEF Holes
  <2> QED
    BY <2>1, LeastIsIn
<1>3. hole \in 1 .. Len(t) /\ t[hole] \in Specifiers
  BY <1>1, <1>2 DEF Holes
<1> HIDE DEF hole
<1>4. Find(t, 1, Specifiers) = hole
  <2> DEFINE f == Find(t, 1, Specifiers)
  <2>1. /\ f \in 1 .. Len(t) + 1
        /\ f <= Len(t) => t[f] \in Specifiers
        /\ \A j \in 1 .. Len(t) : 1 <= j /\ j < f => t[j] \notin Specifiers
    <3>1. 1 \in Nat \ {0}
      OBVIOUS
    <3> QED
      BY <3>1, FindIs
  <2> HIDE DEF f
  <2>2. f <= hole
    BY <1>1, <1>3, <2>1
  <2>3. f \in Holes(t)
    BY <1>1, <1>3, <2>1, <2>2 DEF Holes
  <2>4. hole <= f
    BY <1>2, <2>3
  <2>5. f = hole
    BY <1>1, <1>3, <2>1, <2>2, <2>4
  <2> QED
    BY <2>5 DEF f
<1>5. StartsWith(r, 1, SubSeq(t, 1, hole - 1))
  <2>1. PICK M : /\ M[<<1, 1>>]
                 /\ \A i \in 1 .. Len(t) + 1, j \in 1 .. Len(r) + 1 :
                      M[<<i, j>>] = Round(M, t, i, r, j)
    BY IsInstanceUnfolds
  <2>2. 1 \in 1 .. Len(t) + 1 /\ 1 \in 1 .. Len(r) + 1 /\ ~(1 > Len(t)) /\ ~(1 > Len(r))
    BY <1>1, <1>3
  <2>3. Round(M, t, 1, r, 1)
    BY <2>1, <2>2
  <2> QED
    BY <1>4, <2>2, <2>3 DEF Round
<1>6. hole - 1 <= Len(r) /\ \A x \in 1 .. hole - 1 : t[x] = r[x]
  <2>1. 1 \in 1 .. Len(t) + 1 /\ hole \in 1 .. Len(t) + 1 /\ 1 \in 1 .. Len(r) + 1
    BY <1>1, <1>3
  <2>2. hole - 1 <= Len(r) + 1 - 1 /\ \A x \in 1 .. hole - 1 : t[x] = r[x + 1 - 1]
    BY <1>5, <2>1, StartsWithIs
  <2>3. \A x \in 1 .. hole - 1 : x + 1 - 1 = x
    BY <1>3
  <2> QED
    BY <1>1, <2>2, <2>3
<1>7. PICK k \in 1 .. Final(t) : Border(t, k) = hole - 1
  BY <1>2, HoleIsSegment
<1>8. Cardinality(before) = k
  <2>1. ~(k > Final(t)) /\ k # 0
    BY <1>1
  <2>2. hole - 1 = Nth(Slashes(t), k)
    BY <1>7, <2>1 DEF Border
  <2>3. Slashes(t) \in SUBSET (1 .. Len(t))
    BY <1>1 DEF Slashes
  <2>4. Rank(Slashes(t), hole - 1) = k
    BY <1>1, <2>2, <2>3, NthIs DEF Final
  <2>5. before = {j \in Slashes(t) : j <= hole - 1}
    BY <1>1, <1>3, <2>3
  <2> QED
    BY <2>4, <2>5 DEF Rank
<1>9. k <= Final(r) /\ Border(r, k) = hole - 1
  <2>1. /\ 0 \in 0 .. Final(t) /\ 0 <= Final(r) /\ k \in 0 .. Final(t)
        /\ Start(t, 0) = 1 /\ Start(r, 0) = 1
    BY <1>1, StartIs
  <2>2. /\ hole \in Start(t, 0) .. Len(t) + 1 /\ Border(t, k) < hole
        /\ hole - Start(t, 0) <= Len(r) + 1 - Start(r, 0)
        /\ \A x \in Start(t, 0) .. hole - 1 : t[x] = r[x + Start(r, 0) - Start(t, 0)]
    <3>1. /\ hole \in 1 .. Len(t) + 1 /\ Border(t, k) < hole
          /\ hole - 1 <= Len(r) + 1 - 1
      BY <1>1, <1>3, <1>6, <1>7
    <3>2. \A x \in 1 .. hole - 1 : t[x] = r[x + 1 - 1]
      <4>1. \A x \in 1 .. hole - 1 : x + 1 - 1 = x
        BY <1>3
      <4> QED
        BY <1>6, <4>1
    <3> QED
      BY <2>1, <3>1, <3>2
  <2>3. k \in 0 .. Final(t) /\ k <= Final(r)
        /\ Border(r, k) = Border(t, k) + Start(r, 0) - Start(t, 0)
    BY <2>1, <2>2, SameText
  <2> QED
    BY <1>3, <1>7, <2>1, <2>3
<1>10. k \in 0 .. Final(r)
  BY <1>1, <1>9
<1>11. Find(r, hole, {"/"}) = Border(r, k + 1)
  <2>1. /\ Border(r, k) < Border(r, k + 1) /\ Border(r, k + 1) \in Nat
    <3>1. k + 1 \in 0 .. Final(r) + 1
      BY <1>1, <1>10
    <3>2. Border(r, k + 1) \in 0 .. Len(r) + 1
      BY <3>1, BorderIs
    <3> QED
      BY <1>1, <1>10, <3>2, BorderIs
  <2>2. hole \in Border(r, k) + 1 .. Border(r, k + 1)
    BY <1>3, <1>9, <2>1
  <2> QED
    BY <1>10, <2>2, FindSlash
<1>12. FirstParam(t, r) = Segment(r, k) /\ Segment(r, k) \in Seq(X)
  <2>1. FirstParam(t, r) = SubSeq(r, hole, Border(r, k + 1) - 1)
    BY <1>11 DEF FirstParam, hole
  <2>2. Segment(r, k) = SubSeq(r, Border(r, k) + 1, Border(r, k + 1) - 1)
        /\ Segment(r, k) \in Seq(X)
    BY <1>10, SegmentIs
  <2>3. Border(r, k) + 1 = hole
    BY <1>3, <1>9
  <2> QED
    BY <2>1, <2>2, <2>3
<1> QED
  BY <1>2, <1>6, <1>8, <1>12 DEF hole

-----------------------------------------------------------------------------
(* The first of a set of positions is its least. *)
LEMMA NthFirst ==
  ASSUME NEW n \in Nat, NEW S \in SUBSET (1 .. n), S # {}
  PROVE  /\ Cardinality(S) \in Nat \ {0} /\ Min(S) \in S /\ Nth(S, 1) = Min(S)
<1> DEFINE m == Min(S)
<1>1. m \in S /\ \A y \in S : m <= y
  <2>1. S \in SUBSET Nat
    OBVIOUS
  <2> QED
    BY <2>1, LeastIsIn
<1> HIDE DEF m
<1>2. {j \in S : j <= m} = {m}
  <2>1. ASSUME NEW j \in S, j <= m PROVE j = m
    <3>1. j \in 1 .. n /\ m \in 1 .. n /\ m <= j
      BY <1>1
    <3> QED
      BY <2>1, <3>1
  <2>2. m <= m
    BY <1>1
  <2> QED
    BY <1>1, <2>1, <2>2
<1>3. Rank(S, m) = 1
  BY <1>2, FS_Singleton DEF Rank
<1>4. Rank(S, m) \in 1 .. Cardinality(S) /\ Nth(S, Rank(S, m)) = m /\ Cardinality(S) \in Nat
  BY <1>1, NthIs
<1>5. Cardinality(S) \in Nat \ {0} /\ Nth(S, 1) = m
  BY <1>3, <1>4
<1> QED
  BY <1>1, <1>5 DEF m

(* What is extracted is as many texts as there are parameters, the first the*)
(* segment in its place, unless the program has died at a second one.       *)
LEMMA ParamsAre ==
  ASSUME NEW X, NEW t \in Seq(X), NEW r \in Seq(X), Valid(t), Holes(t) # {}, r # <<>>,
         IsInstance(t, r), NEW params \in ExtractParams(t, r)
  PROVE  LET hole == Min(Holes(t))
             segment == Segment(r, Cardinality({i \in Slashes(t) : i < hole}))
         IN \/ /\ Len(params) = 0 /\ Cardinality(Holes(t)) > 1
               /\ ~(t[hole] \in NotEmpty /\ segment = <<>>)
            \/ /\ Len(params) = Cardinality(Holes(t))
               /\ DOMAIN params = 1 .. Cardinality(Holes(t))
               /\ params[1] = segment
<1> DEFINE hole == Min(Holes(t))
           segment == Segment(r, Cardinality({i \in Slashes(t) : i < hole}))
           n == Cardinality(Holes(t))
           first == FirstParam(t, r)
<1>1. n \in Nat \ {0} /\ hole \in Holes(t) /\ Nth(Holes(t), 1) = hole
  <2>1. Holes(t) \in SUBSET (1 .. Len(t)) /\ Len(t) \in Nat
    BY LenProperties DEF Holes
  <2> QED
    BY <2>1, NthFirst
<1>2. hole - 1 <= Len(r) /\ first = segment
  BY FirstParamIsSegment
<1>3. ~(Len(r) < hole - 1)
  <2>1. Len(r) \in Nat /\ Len(t) \in Nat /\ DOMAIN t = 1 .. Len(t)
    BY LenProperties
  <2>2. hole \in Nat
    BY <1>1, <2>1 DEF Holes
  <2> HIDE DEF hole
  <2> QED
    BY <1>2, <2>1, <2>2
<1>4. CASE n = 1
  <2>1. params = <<first>>
    <3>1. n - 1 = 0
      BY <1>4
    <3> QED
      BY <1>3, <3>1 DEF ExtractParams
  <2>2. Len(params) = 1 /\ DOMAIN params = 1 .. 1 /\ params[1] = first
    BY <2>1
  <2> HIDE DEF n, first, segment
  <2> QED
    BY <1>2, <1>4, <2>2 DEF n, segment
<1>5. CASE n # 1
  <2>1. n > 1 /\ n - 1 # 0 /\ n - 1 \in Nat
    BY <1>1, <1>5
  <2>2. \/ \E rest \in [1 .. n - 1 -> Garbage] : params = <<first>> \o rest
        \/ ~Refuses(t, 1, first) /\ params = <<>>
    BY <1>3, <2>1 DEF ExtractParams
  <2>3. CASE ~Refuses(t, 1, first) /\ params = <<>>
    <3>1. ~(t[hole] \in NotEmpty /\ segment = <<>>)
      BY <1>1, <1>2, <2>3 DEF Refuses
    <3>2. Len(params) = 0
      BY <2>3
    <3> QED
      BY <2>1, <3>1, <3>2
  <2>4. CASE \E rest \in [1 .. n - 1 -> Garbage] : params = <<first>> \o rest
    <3>1. PICK rest \in [1 .. n - 1 -> Garbage] : params = <<first>> \o rest
      BY <2>4
    <3> DEFINE Y == Garbage \cup {first}
    <3>2. rest \in Seq(Y) /\ Len(rest) = n - 1 /\ <<first>> \in Seq(Y) /\ Len(<<first>>) = 1
          /\ <<first>>[1] = first
      <4>1. rest \in [1 .. n - 1 -> Y]
        OBVIOUS
      <4>2. rest \in Seq(Y)
        BY <2>1, <4>1, SeqDef
      <4>3. Len(rest) = n - 1
        BY <2>1, <4>1, <4>2, LenProperties
      <4> QED
        BY <4>2, <4>3
    <3> HIDE DEF Y
    <3>3. PICK front \in Seq(Y) : front = <<first>>
      BY <3>2
    <3>4. /\ front \o rest \in Seq(Y) /\ Len(front \o rest) = 1 + (n - 1)
          /\ \A i \in 1 .. 1 + (n - 1) :
               (front \o rest)[i] = IF i <= 1 THEN front[i] ELSE rest[i - 1]
      BY <3>2, <3>3, ConcatProperties
    <3>5. 1 + (n - 1) = n /\ 1 \in 1 .. n
      BY <2>1, <1>1
    <3>6. Len(params) = n /\ DOMAIN params = 1 .. n /\ params[1] = first
      BY <3>1, <3>2, <3>3, <3>4, <3>5, LenProperties
    <3> HIDE DEF n, first, segment
    <3> QED
      BY <1>2, <3>6 DEF n, segment
  <2> QED
    BY <2>2, <2>3, <2>4
<1> QED
  BY <1>4, <1>5

(* getParam finds something under just the names of the template, and under *)
(* that of the first parameter the first text.                              *)
LEMMA GetParamIs ==
  ASSUME NEW X, NEW t \in Seq(X), NEW params, DOMAIN params = 1 .. Cardinality(Holes(t)),
         NEW name
  PROVE  /\ GetParam(t, params, name) = <<>> <=> \A i \in Holes(t) : Name[t[i]] # name
         /\ Holes(t) # {} /\ name = Name[t[Min(Holes(t))]] =>
              GetParam(t, params, name) = <<params[1]>>
<1> DEFINE n == Cardinality(Holes(t))
           having == {k \in DOMAIN params : ParamNames(t)[k] = name}
<1>1. /\ n \in Nat
      /\ \A k \in 1 .. n : Nth(Holes(t), k) \in Holes(t)
      /\ \A i \in Holes(t) : \E k \in 1 .. n : Nth(Holes(t), k) = i
      /\ Holes(t) # {} => n # 0 /\ Nth(Holes(t), 1) = Min(Holes(t))
  <2>1. Holes(t) \in SUBSET (1 .. Len(t)) /\ Len(t) \in Nat
    BY LenProperties DEF Holes
  <2>2. Holes(t) # {} => n # 0 /\ Nth(Holes(t), 1) = Min(Holes(t))
    BY <2>1, NthFirst
  <2> QED
    BY <2>1, <2>2, NthIs
<1>2. having = {k \in 1 .. n : Name[t[Nth(Holes(t), k)]] = name}
  BY DEF ParamNames
<1>3. GetParam(t, params, name) = IF having = {} THEN <<>> ELSE <<params[Min(having)]>>
  BY DEF GetParam
<1>4. having = {} <=> \A i \in Holes(t) : Name[t[i]] # name
  <2> HIDE DEF having, n
  <2> QED
    BY <1>1, <1>2
<1>5. GetParam(t, params, name) = <<>> <=> having = {}
  BY <1>3
<1>6. ASSUME Holes(t) # {}, name = Name[t[Min(Holes(t))]]
      PROVE  GetParam(t, params, name) = <<params[1]>>
  <2> HIDE DEF having, n
  <2>1. 1 \in 1 .. n
    BY <1>1, <1>6
  <2>2. 1 \in having
    BY <1>1, <1>2, <1>6, <2>1
  <2>3. having \in SUBSET Nat /\ having # {}
    BY <1>2, <2>2
  <2>4. Min(having) \in having /\ Min(having) <= 1
    BY <2>2, <2>3, LeastIsIn
  <2>5. Min(having) = 1
    BY <1>1, <1>2, <2>4
  <2> QED
    BY <1>3, <2>3, <2>5
<1> QED
  BY <1>4, <1>5, <1>6
=============================================================================

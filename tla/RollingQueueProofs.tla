------------------------ MODULE RollingQueueProofs ------------------------
(***************************************************************************)
(* Proofs about RollingQueue for any queues, any values and any capacity:  *)
(* the pointer arithmetic stays in the ring, and the live objects are      *)
(* always the m_size slots from m_start on.                                *)
(***************************************************************************)
EXTENDS RollingQueue, Integers, TLAPS, SequenceTheorems

(* One ring whose live objects are the slots its destructor would walk. *)
RingOK(r) ==
  /\ r \in Ring
  /\ \A i \in Slot : r.slots[i] # Dead <=> i \in Walk(r)

(* Adding at most N to a slot and wrapping once gives a slot. *)
LEMMA WrapInSlot ==
  ASSUME NEW i \in 0 .. (2 * N - 1)
  PROVE  Wrap(i) \in Slot
BY NAssumption DEF Wrap, Slot

(* The walked slots, without the wrapping: those from m_start on, and those *)
(* that m_start + m_size reaches again from 0.                              *)
LEMMA WalkSlots ==
  ASSUME NEW r \in Ring, NEW i \in Slot
  PROVE  i \in Walk(r) <=> \/ r.start <= i /\ i < r.start + r.size
                           \/ i + N < r.start + r.size
<1>1. N \in Nat /\ N > 0 /\ r.start \in Slot /\ r.size \in 0 .. N
  BY NAssumption DEF Ring
<1>2. ASSUME NEW k \in Slot, k < r.size, i = Wrap(r.start + k)
      PROVE  (r.start <= i /\ i < r.start + r.size) \/ i + N < r.start + r.size
  BY <1>1, <1>2 DEF Wrap, Slot
<1>3. ASSUME r.start <= i, i < r.start + r.size
      PROVE  i \in Walk(r)
  <2>1. i - r.start \in Slot /\ i - r.start < r.size /\ Wrap(r.start + (i - r.start)) = i
    BY <1>1, <1>3 DEF Wrap, Slot
  <2> QED
    BY <2>1 DEF Walk
<1>4. ASSUME i + N < r.start + r.size
      PROVE  i \in Walk(r)
  <2>1. /\ i + N - r.start \in Slot /\ i + N - r.start < r.size
        /\ Wrap(r.start + (i + N - r.start)) = i
    BY <1>1, <1>4 DEF Wrap, Slot
  <2> QED
    BY <2>1 DEF Walk
<1> QED
  BY <1>2, <1>3, <1>4 DEF Walk

(* A new queue object has no live object. *)
LEMMA EmptyOK == RingOK(Empty)
<1>1. Empty \in Ring
  BY NAssumption DEF Empty, Ring, Slot
<1> QED
  BY <1>1, NAssumption, WalkSlots DEF RingOK, Empty, Slot

(* push constructs at a slot that is raw storage, and extends the window. *)
LEMMA PushedOK ==
  ASSUME NEW r, RingOK(r), NEW v \in T, r.size # N
  PROVE  RingOK(Pushed(r, v)) /\ End(r) \in Slot /\ r.slots[End(r)] = Dead
<1>1. N \in Nat /\ N > 0 /\ r \in Ring /\ r.start \in Slot /\ r.size \in 0 .. N
  BY NAssumption DEF RingOK, Ring
<1>2. /\ End(r) \in Slot
      /\ End(r) = IF r.start + r.size >= N THEN r.start + r.size - N ELSE r.start + r.size
  BY <1>1 DEF End, Wrap, Slot
<1>3. End(r) \notin Walk(r)
  BY <1>1, <1>2, WalkSlots DEF Slot
<1> DEFINE s == Pushed(r, v)
<1>4. /\ s \in Ring
      /\ s.start = r.start /\ s.size = r.size + 1
      /\ \A i \in Slot : s.slots[i] = IF i = End(r) THEN v ELSE r.slots[i]
  <2>1. r.size + 1 \in 0 .. N
    BY <1>1
  <2>2. r.slots \in [Slot -> T \cup {Dead}]
    BY <1>1 DEF Ring
  <2>3. [r.slots EXCEPT ![End(r)] = v] \in [Slot -> T \cup {Dead}]
    BY <2>2
  <2>4. s = [start |-> r.start, size |-> r.size + 1,
             slots |-> [r.slots EXCEPT ![End(r)] = v]]
    BY DEF Pushed
  <2> HIDE DEF s
  <2> QED
    BY <1>1, <1>2, <2>1, <2>2, <2>3, <2>4 DEF Ring
<1>5. ASSUME NEW i \in Slot PROVE i \in Walk(s) <=> i \in Walk(r) \/ i = End(r)
  <2> HIDE DEF s
  <2> QED
    BY <1>1, <1>2, <1>4, WalkSlots DEF Slot
<1> QED
  BY <1>2, <1>3, <1>4, <1>5, DeadAssumption DEF RingOK

(* pop destroys the oldest object, which was live, and nothing else. *)
LEMMA PoppedOK ==
  ASSUME NEW r, RingOK(r), r.size # 0
  PROVE  RingOK(Popped(r)) /\ r.start \in Slot /\ r.slots[r.start] \in T
<1>1. N \in Nat /\ N > 0 /\ r \in Ring /\ r.start \in Slot /\ r.size \in 0 .. N
  BY NAssumption DEF RingOK, Ring
<1>2. r.start \in Walk(r)
  BY <1>1, WalkSlots DEF Slot
<1> DEFINE s == Popped(r)
<1>3. /\ s \in Ring
      /\ s.start = (IF r.start + 1 >= N THEN r.start + 1 - N ELSE r.start + 1)
      /\ s.size = r.size - 1
      /\ \A i \in Slot : s.slots[i] = IF i = r.start THEN Dead ELSE r.slots[i]
  BY <1>1 DEF Popped, Wrap, Ring, Slot
<1>4. ASSUME NEW i \in Slot PROVE i \in Walk(s) <=> i \in Walk(r) /\ i # r.start
  <2> HIDE DEF s
  <2>1. i \in Walk(s) <=> \/ s.start <= i /\ i < s.start + s.size
                          \/ i + N < s.start + s.size
    BY <1>3, WalkSlots
  <2>2. i \in Walk(r) <=> \/ r.start <= i /\ i < r.start + r.size
                          \/ i + N < r.start + r.size
    BY <1>1, WalkSlots
  <2>3. CASE r.start + 1 >= N
    BY <1>1, <1>3, <2>1, <2>2, <2>3 DEF Slot
  <2>4. CASE ~ r.start + 1 >= N
    BY <1>1, <1>3, <2>1, <2>2, <2>4 DEF Slot
  <2> QED
    BY <2>3, <2>4
<1>5. r.slots[r.start] \in T
  BY <1>1, <1>2 DEF RingOK, Ring
<1> QED
  BY <1>1, <1>3, <1>4, <1>5 DEF RingOK

(* A copy reads only live objects and lays them out from slot 0 on. *)
LEMMA CopiedOK ==
  ASSUME NEW r, RingOK(r)
  PROVE  RingOK(Copied(r))
<1>1. N \in Nat /\ N > 0 /\ r \in Ring /\ r.start \in Slot /\ r.size \in 0 .. N
  BY NAssumption DEF RingOK, Ring
<1>2. ASSUME NEW i \in Slot, i < r.size
      PROVE  r.slots[Wrap(r.start + i)] \in T
  <2>1. Wrap(r.start + i) \in Walk(r)
    BY <1>2 DEF Walk
  <2>2. Wrap(r.start + i) \in Slot
    BY <1>1, WrapInSlot DEF Slot
  <2> QED
    BY <1>1, <2>1, <2>2 DEF RingOK, Ring
<1> DEFINE s == Copied(r)
<1>3. /\ s \in Ring /\ s.start = 0 /\ s.size = r.size
      /\ \A i \in Slot : s.slots[i] = IF i < r.size THEN r.slots[Wrap(r.start + i)] ELSE Dead
  BY <1>1, <1>2 DEF Copied, Ring, Slot
<1>4. ASSUME NEW i \in Slot PROVE i \in Walk(s) <=> i < r.size
  <2> HIDE DEF s
  <2> QED
    BY <1>1, <1>3, WalkSlots DEF Slot
<1> QED
  BY <1>2, <1>3, <1>4, DeadAssumption DEF RingOK

-----------------------------------------------------------------------------
(* Every ring is well formed, and the last step neither constructed over a  *)
(* live object nor leaked one.                                              *)
RingsOK ==
  /\ TypeOK
  /\ \A q \in Queues : RingOK(rings[q])
  /\ NoLostObject

(* A queue object that is destroyed has destroyed every live object. *)
LEMMA DestroysAll ==
  ASSUME NEW r, RingOK(r)
  PROVE  DestroyFaults(r) = {}
<1>1. r.start \in Slot /\ N \in Nat /\ N > 0
  BY NAssumption DEF RingOK, Ring
<1>2. Walk(r) \subseteq Slot
  BY <1>1, WrapInSlot DEF Walk, Slot
<1>3. \A i \in Walk(r) : r.slots[i] # Dead
  BY <1>2 DEF RingOK
<1>4. \A i \in Slot \ Walk(r) : r.slots[i] = Dead
  BY DEF RingOK
<1> QED
  BY <1>3, <1>4 DEF DestroyFaults

(* Every queue starts empty. *)
LEMMA RingsInit == Init => RingsOK
BY EmptyOK DEF Init, RingsOK, TypeOK, NoLostObject, RingOK, Fault

(* Every operation keeps the live slots of every queue in one window. *)
LEMMA RingsNext == RingsOK /\ [Next]_vars => RingsOK'
<1> SUFFICES ASSUME RingsOK, [Next]_vars PROVE RingsOK'
  OBVIOUS
<1>0. \A q \in Queues : RingOK(rings[q])
  BY DEF RingsOK
<1>1. ASSUME NEW q \in Queues, NEW v \in T, Push(q, v) PROVE RingsOK'
  <2>1. RingOK(Pushed(rings[q], v)) /\ rings[q].slots[End(rings[q])] = Dead
    BY <1>0, <1>1, PushedOK DEF Push
  <2> QED
    BY <1>1, <2>1 DEF Push, RingsOK, TypeOK, NoLostObject, RingOK
<1>2. ASSUME NEW q \in Queues, PushSaturated(q) PROVE RingsOK'
  BY <1>2 DEF PushSaturated, RingsOK, TypeOK, NoLostObject
<1>3. ASSUME NEW q \in Queues, Pop(q) PROVE RingsOK'
  <2>1. RingOK(Popped(rings[q])) /\ rings[q].slots[rings[q].start] \in T
    BY <1>0, <1>3, PoppedOK DEF Pop
  <2> QED
    BY <1>3, <2>1, DeadAssumption DEF Pop, FrontFaults, RingsOK, TypeOK, NoLostObject, RingOK
<1>4. ASSUME NEW q \in Queues, PopEmpty(q) PROVE RingsOK'
  BY <1>4 DEF PopEmpty, RingsOK, TypeOK, NoLostObject
<1>5. ASSUME NEW q \in Queues, NEW p \in Queues, Assign(q, p) PROVE RingsOK'
  <2>1. RingOK(Copied(rings[p])) /\ DestroyFaults(rings[q]) = {}
    BY <1>0, CopiedOK, DestroysAll
  <2>2. CopyFaults(rings[p]) \subseteq Fault /\ CopyFaults(rings[p]) \cap {"constructLive", "leak"} = {}
    BY DEF CopyFaults, Fault
  <2> QED
    BY <1>5, <2>1, <2>2 DEF Assign, RingsOK, TypeOK, NoLostObject, RingOK
<1>6. ASSUME NEW q \in Queues, Recreate(q) PROVE RingsOK'
  <2>1. RingOK(Empty) /\ DestroyFaults(rings[q]) = {}
    BY <1>0, EmptyOK, DestroysAll
  <2> QED
    BY <1>6, <2>1 DEF Recreate, RingsOK, TypeOK, NoLostObject, RingOK
<1>7. ASSUME NEW q \in Queues, Begin(q) PROVE RingsOK'
  BY <1>7 DEF Begin, RingsOK, TypeOK, NoLostObject
<1>8. ASSUME NEW q \in Queues, Dereference(q) PROVE RingsOK'
  <2>1. rings[q].slots[rings[q].start] \in T \cup {Dead}
    BY DEF RingsOK, TypeOK, Ring
  <2> QED
    BY <1>8, <2>1 DEF Dereference, FrontFaults, RingsOK, TypeOK, NoLostObject, Fault
<1>9. ASSUME NEW q \in Queues, Advance(q) PROVE RingsOK'
  <2>1. CASE rings[q].size = 0
    BY <1>9, <2>1 DEF Advance, RingsOK, TypeOK, NoLostObject
  <2>2. CASE rings[q].size # 0
    <3>1. RingOK(Popped(rings[q])) /\ rings[q].slots[rings[q].start] \in T
      BY <1>0, <2>2, PoppedOK
    <3> QED
      BY <1>9, <2>2, <3>1, DeadAssumption DEF Advance, FrontFaults, RingsOK, TypeOK, NoLostObject, RingOK
  <2> QED
    BY <2>1, <2>2
<1>10. CASE UNCHANGED vars
  BY <1>10 DEF vars, RingsOK, TypeOK, NoLostObject
<1> QED
  BY <1>1, <1>2, <1>3, <1>4, <1>5, <1>6, <1>7, <1>8, <1>9, <1>10 DEF Next

(* The members of every queue keep their declared shape. *)
THEOREM SpecTypeOK == Spec => []TypeOK
<1>1. RingsOK => TypeOK
  BY DEF RingsOK
<1> QED
  BY <1>1, RingsInit, RingsNext, PTL DEF Spec

(* Whatever the calls, the live objects of a queue are its m_size slots from *)
(* m_start on, around the end of the array.                                  *)
THEOREM SpecLiveWindow == Spec => []LiveWindow
<1>1. RingsOK => LiveWindow
  BY DEF RingsOK, RingOK, LiveWindow
<1> QED
  BY <1>1, RingsInit, RingsNext, PTL DEF Spec

(* No element is overwritten while it lives, and no destructor leaks one. *)
THEOREM SpecNoLostObject == Spec => []NoLostObject
<1>1. RingsOK => NoLostObject
  BY DEF RingsOK
<1> QED
  BY <1>1, RingsInit, RingsNext, PTL DEF Spec

-----------------------------------------------------------------------------
(* The elements of a well-formed ring are a sequence of m_size values: the  *)
(* k-th is k - 1 slots after m_start, around the end of the array.          *)
LEMMA ContentsSeq ==
  ASSUME NEW r, RingOK(r)
  PROVE  /\ Contents(r) \in Seq(T)
         /\ Len(Contents(r)) = r.size
         /\ \A k \in 1 .. r.size : Contents(r)[k] = r.slots[Wrap(r.start + (k - 1))]
         /\ r.size \in 0 .. N /\ r.start \in Slot
<1>1. N \in Nat /\ N > 0 /\ r \in Ring /\ r.start \in Slot /\ r.size \in 0 .. N
  BY NAssumption DEF RingOK, Ring
<1>2. ASSUME NEW k \in 1 .. r.size
      PROVE  r.slots[Wrap(r.start + (k - 1))] \in T
  <2>1. k - 1 \in Slot /\ k - 1 < r.size /\ r.start + (k - 1) \in 0 .. (2 * N - 1)
    BY <1>1 DEF Slot
  <2>2. Wrap(r.start + (k - 1)) \in Walk(r) /\ Wrap(r.start + (k - 1)) \in Slot
    BY <2>1, WrapInSlot DEF Walk
  <2> QED
    BY <1>1, <2>2 DEF RingOK, Ring
<1>3. Contents(r) \in [1 .. r.size -> T]
  BY <1>2 DEF Contents
<1>4. r.size \in Nat
  BY <1>1
<1>5. Contents(r) \in Seq(T)
  BY <1>3, <1>4, SeqDef
<1>6. Len(Contents(r)) = r.size
  BY <1>3, <1>4, <1>5, LenProperties
<1> QED
  BY <1>1, <1>5, <1>6 DEF Contents

(* A new queue object is the empty queue. *)
LEMMA ContentsEmpty == Contents(Empty) = <<>>
<1>1. Contents(Empty) \in Seq(T) /\ Len(Contents(Empty)) = 0
  BY EmptyOK, ContentsSeq DEF Empty
<1> QED
  BY <1>1, EmptySeq

(* push puts its value behind the elements that are there. *)
LEMMA ContentsPushed ==
  ASSUME NEW r, RingOK(r), NEW v \in T, r.size # N
  PROVE  Contents(Pushed(r, v)) = Append(Contents(r), v)
<1> DEFINE s == Pushed(r, v)
<1>1. RingOK(s) /\ End(r) \in Slot
  BY PushedOK
<1>2. /\ s.size = r.size + 1 /\ s.start = r.start
      /\ \A i \in Slot : s.slots[i] = IF i = End(r) THEN v ELSE r.slots[i]
  BY <1>1 DEF Pushed, RingOK, Ring
<1> HIDE DEF s
<1>3. /\ N \in Nat /\ N > 0 /\ r.size \in 0 .. N /\ r.start \in Slot
      /\ Contents(r) \in Seq(T) /\ Len(Contents(r)) = r.size
  BY NAssumption, ContentsSeq
<1>4. /\ Append(Contents(r), v) \in Seq(T)
      /\ Len(Append(Contents(r), v)) = r.size + 1
      /\ \A k \in 1 .. r.size : Append(Contents(r), v)[k] = Contents(r)[k]
      /\ Append(Contents(r), v)[r.size + 1] = v
  BY <1>3, AppendProperties
<1>5. Contents(s) \in Seq(T) /\ Len(Contents(s)) = r.size + 1
  BY <1>1, <1>2, ContentsSeq
<1>6. ASSUME NEW k \in 1 .. (r.size + 1)
      PROVE  Contents(s)[k] = Append(Contents(r), v)[k]
  <2>1. Contents(s)[k] = s.slots[Wrap(r.start + (k - 1))]
    BY <1>1, <1>2, ContentsSeq
  <2>2. CASE k = r.size + 1
    <3>1. Wrap(r.start + (k - 1)) = End(r)
      BY <1>3, <2>2 DEF End
    <3> QED
      BY <1>1, <1>2, <1>4, <2>1, <2>2, <3>1
  <2>3. CASE k # r.size + 1
    <3>1. k \in 1 .. r.size /\ r.start + (k - 1) \in 0 .. (2 * N - 1)
      BY <1>3, <2>3 DEF Slot
    <3>2. Wrap(r.start + (k - 1)) \in Slot /\ Wrap(r.start + (k - 1)) # End(r)
      <4>1. PICK i \in 0 .. (2 * N - 1), j \in 0 .. (2 * N - 1) :
               i = r.start + (k - 1) /\ j = r.start + r.size /\ i < j /\ j - i < N
        BY <1>3, <3>1, SMTT(30) DEF Slot
      <4>2. Wrap(i) # Wrap(j)
        BY <1>3, <4>1 DEF Wrap
      <4>3. Wrap(i) \in Slot
        BY <4>1, WrapInSlot
      <4> QED
        BY <4>1, <4>2, <4>3 DEF End
    <3>3. Contents(r)[k] = r.slots[Wrap(r.start + (k - 1))]
      BY <3>1, ContentsSeq
    <3> QED
      BY <1>2, <1>4, <2>1, <3>1, <3>2, <3>3
  <2> QED
    BY <2>2, <2>3
<1>7. Contents(s) = Append(Contents(r), v)
  BY <1>4, <1>5, <1>6, SeqEqual
<1> QED
  BY <1>7 DEF s

(* pop takes the oldest element away and returns it. *)
LEMMA ContentsPopped ==
  ASSUME NEW r, RingOK(r), r.size # 0
  PROVE  /\ Contents(r) # <<>>
         /\ Contents(Popped(r)) = Tail(Contents(r))
         /\ r.slots[r.start] = Head(Contents(r))
<1> DEFINE s == Popped(r)
<1>1. RingOK(s)
  BY PoppedOK
<1>2. /\ s.size = r.size - 1 /\ s.start = Wrap(r.start + 1)
      /\ \A i \in Slot : s.slots[i] = IF i = r.start THEN Dead ELSE r.slots[i]
  BY DEF Popped, RingOK, Ring
<1> HIDE DEF s
<1>3. /\ N \in Nat /\ N > 0 /\ r.size \in 1 .. N /\ r.start \in Slot
      /\ Contents(r) \in Seq(T) /\ Len(Contents(r)) = r.size
  BY NAssumption, ContentsSeq
<1>4. Contents(r) # <<>>
  BY <1>3, EmptySeq
<1>5. /\ Tail(Contents(r)) \in Seq(T)
      /\ Len(Tail(Contents(r))) = r.size - 1
      /\ \A k \in 1 .. (r.size - 1) : Tail(Contents(r))[k] = Contents(r)[k + 1]
  BY <1>3, <1>4, HeadTailProperties
<1>6. Contents(s) \in Seq(T) /\ Len(Contents(s)) = r.size - 1
  BY <1>1, <1>2, ContentsSeq
<1>7. ASSUME NEW k \in 1 .. (r.size - 1)
      PROVE  Contents(s)[k] = Tail(Contents(r))[k]
  <2>1. Contents(s)[k] = s.slots[Wrap(s.start + (k - 1))]
    BY <1>1, <1>2, ContentsSeq
  <2>2. Contents(r)[k + 1] = r.slots[Wrap(r.start + k)]
    <3>1. k + 1 \in 1 .. r.size /\ (k + 1) - 1 = k
      BY <1>3
    <3> QED
      BY <3>1, ContentsSeq
  <2>3. r.start + k \in 0 .. (2 * N - 1)
    BY <1>3 DEF Slot
  <2>4. /\ Wrap(s.start + (k - 1)) = Wrap(r.start + k)
        /\ Wrap(r.start + k) # r.start
    <3>1. r.start \in Int /\ 0 <= r.start /\ r.start < N /\ k \in Int /\ 0 < k /\ k < N
      BY <1>3 DEF Slot
    <3>2. CASE r.start + 1 >= N
      BY <1>2, <1>3, <3>1, <3>2 DEF Wrap
    <3>3. CASE ~ r.start + 1 >= N
      BY <1>2, <1>3, <3>1, <3>3 DEF Wrap
    <3> QED
      BY <3>2, <3>3
  <2> QED
    BY <1>2, <1>5, <2>1, <2>2, <2>3, <2>4, WrapInSlot
<1>8. Contents(s) = Tail(Contents(r))
  BY <1>5, <1>6, <1>7, SeqEqual
<1>9. r.slots[r.start] = Head(Contents(r))
  <2>1. Contents(r)[1] = r.slots[Wrap(r.start + 0)]
    BY <1>3, ContentsSeq
  <2>2. Wrap(r.start + 0) = r.start
    BY <1>3 DEF Wrap, Slot
  <2> QED
    BY <1>3, <1>4, <2>1, <2>2
<1> QED
  BY <1>4, <1>8, <1>9 DEF s

(* A copy holds the same elements in the same order, wherever they lay. *)
LEMMA ContentsCopied ==
  ASSUME NEW r, RingOK(r)
  PROVE  Contents(Copied(r)) = Contents(r)
<1> DEFINE s == Copied(r)
<1>1. RingOK(s)
  BY CopiedOK
<1>2. /\ s.size = r.size /\ s.start = 0
      /\ \A i \in Slot : i < r.size => s.slots[i] = r.slots[Wrap(r.start + i)]
  BY DEF Copied
<1> HIDE DEF s
<1>3. N \in Nat /\ N > 0 /\ r.size \in 0 .. N
  BY NAssumption, ContentsSeq
<1>4. ASSUME NEW k \in 1 .. r.size
      PROVE  Contents(s)[k] = Contents(r)[k]
  <2>1. Contents(s)[k] = s.slots[Wrap(0 + (k - 1))]
    BY <1>1, <1>2, ContentsSeq
  <2>2. Wrap(0 + (k - 1)) = k - 1 /\ k - 1 \in Slot /\ k - 1 < r.size
    BY <1>3 DEF Wrap, Slot
  <2>3. Contents(r)[k] = r.slots[Wrap(r.start + (k - 1))]
    BY ContentsSeq
  <2> QED
    BY <1>2, <2>1, <2>2, <2>3
<1>5. /\ Contents(s) \in Seq(T) /\ Len(Contents(s)) = r.size
      /\ Contents(r) \in Seq(T) /\ Len(Contents(r)) = r.size
  BY <1>1, <1>2, ContentsSeq
<1> QED
  BY <1>4, <1>5, SeqEqual DEF s

(* Of an empty queue, every slot is raw storage. *)
LEMMA EmptyIsDead ==
  ASSUME NEW r, RingOK(r), r.size = 0
  PROVE  Contents(r) = <<>> /\ r.slots[r.start] = Dead
<1>1. r \in Ring /\ r.start \in Slot /\ N \in Nat
  BY NAssumption DEF RingOK, Ring
<1>2. r.start \notin Walk(r)
  BY <1>1, WalkSlots DEF Slot
<1>3. Contents(r) \in Seq(T) /\ Len(Contents(r)) = 0
  BY ContentsSeq
<1> QED
  BY <1>1, <1>2, <1>3, EmptySeq DEF RingOK

-----------------------------------------------------------------------------
(* Every step on the rings is a step of the FIFO, or changes nothing of it. *)
LEMMA FifoStep == RingsOK /\ [Next]_vars => [Fifo!FifoNext]_(Fifo!fifoVars)
<1> SUFFICES ASSUME RingsOK, [Next]_vars
             PROVE  [Fifo!FifoNext]_(Fifo!fifoVars)
  OBVIOUS
<1> DEFINE fifo == [q \in Queues |-> Contents(rings[q])]
<1>a. /\ \A q \in Queues : RingOK(rings[q])
      /\ rings \in [Queues -> Ring]
  BY DEF RingsOK, TypeOK
<1>b. ASSUME NEW q \in Queues, NEW r, rings' = [rings EXCEPT ![q] = r]
      PROVE  fifo' = [fifo EXCEPT ![q] = Contents(r)]
  BY <1>a, <1>b
<1>c. \A q \in Queues : fifo[q] = Contents(rings[q])
  OBVIOUS
<1>d. rings' = rings => fifo' = fifo
  OBVIOUS
<1> HIDE DEF fifo
<1>1. ASSUME NEW q \in Queues, NEW v \in T, Push(q, v) PROVE Fifo!Accept(q, v)
  <2>1. fifo' = [fifo EXCEPT ![q] = Append(Contents(rings[q]), v)]
    BY <1>1, <1>a, <1>b, ContentsPushed DEF Push
  <2>2. Len(fifo[q]) < N
    BY <1>1, <1>a, <1>c, ContentsSeq, NAssumption DEF Push
  <2> QED
    BY <1>1, <1>c, <2>1, <2>2 DEF Push, Fifo!Accept, fifo
<1>2. ASSUME NEW q \in Queues, PushSaturated(q) PROVE Fifo!Refuse(q)
  <2>1. Len(fifo[q]) = N
    BY <1>2, <1>a, <1>c, ContentsSeq DEF PushSaturated
  <2> QED
    BY <1>2, <1>d, <2>1 DEF PushSaturated, Fifo!Refuse, fifo
<1>3. ASSUME NEW q \in Queues, Pop(q) PROVE Fifo!Take(q)
  <2>1. /\ Contents(rings[q]) # <<>>
        /\ Contents(Popped(rings[q])) = Tail(Contents(rings[q]))
        /\ rings[q].slots[rings[q].start] = Head(Contents(rings[q]))
    BY <1>3, <1>a, ContentsPopped DEF Pop
  <2>2. fifo' = [fifo EXCEPT ![q] = Contents(Popped(rings[q]))]
    BY <1>3, <1>b DEF Pop
  <2> QED
    BY <1>3, <1>c, <2>1, <2>2 DEF Pop, Fifo!Take, fifo
<1>4. ASSUME NEW q \in Queues, PopEmpty(q) PROVE Fifo!TakeNothing(q)
  <2>1. fifo[q] = <<>>
    BY <1>4, <1>a, <1>c, EmptyIsDead DEF PopEmpty
  <2> QED
    BY <1>4, <1>d, <2>1 DEF PopEmpty, Fifo!TakeNothing, fifo
<1>5. ASSUME NEW q \in Queues, NEW p \in Queues, Assign(q, p)
      PROVE  p # q /\ Fifo!Assign(q, p)
  <2>1. fifo' = [fifo EXCEPT ![q] = Contents(rings[p])]
    BY <1>5, <1>a, <1>b, ContentsCopied DEF Assign
  <2> QED
    BY <1>5, <1>c, <2>1 DEF Assign, Fifo!Assign, fifo
<1>6. ASSUME NEW q \in Queues, Recreate(q) PROVE Fifo!Clear(q)
  <2>1. fifo' = [fifo EXCEPT ![q] = <<>>]
    BY <1>6, <1>b, ContentsEmpty DEF Recreate
  <2> QED
    BY <1>6, <2>1 DEF Recreate, Fifo!Clear, fifo
<1>7. ASSUME NEW q \in Queues, Begin(q) PROVE UNCHANGED Fifo!fifoVars
  BY <1>7, <1>d DEF Begin, Fifo!fifoVars, fifo
<1>8. ASSUME NEW q \in Queues, Dereference(q) PROVE Fifo!Peek(q)
  <2>1. CASE rings[q].size = 0
    <3>1. fifo[q] = <<>> /\ rings[q].slots[rings[q].start] = Dead
      BY <1>a, <1>c, <2>1, EmptyIsDead
    <3> QED
      BY <1>8, <1>d, <3>1 DEF Dereference, Fifo!Peek, fifo
  <2>2. CASE rings[q].size # 0
    <3>1. fifo[q] # <<>> /\ rings[q].slots[rings[q].start] = Head(fifo[q])
      BY <1>a, <1>c, <2>2, ContentsPopped
    <3> QED
      BY <1>8, <1>d, <3>1 DEF Dereference, Fifo!Peek, fifo
  <2> QED
    BY <2>1, <2>2
<1>9. ASSUME NEW q \in Queues, Advance(q)
      PROVE  Fifo!Drop(q) \/ UNCHANGED Fifo!fifoVars
  <2>1. CASE rings[q].size = 0
    BY <1>9, <1>d, <2>1 DEF Advance, Fifo!fifoVars, fifo
  <2>2. CASE rings[q].size # 0
    <3>1. /\ Contents(rings[q]) # <<>>
          /\ Contents(Popped(rings[q])) = Tail(Contents(rings[q]))
      BY <1>a, <2>2, ContentsPopped
    <3>2. fifo' = [fifo EXCEPT ![q] = Contents(Popped(rings[q]))]
      BY <1>9, <1>b, <2>2 DEF Advance
    <3> QED
      BY <1>9, <1>c, <2>2, <3>1, <3>2 DEF Advance, Fifo!Drop, fifo
  <2> QED
    BY <2>1, <2>2
<1>10. CASE UNCHANGED vars
  BY <1>10, <1>d DEF vars, Fifo!fifoVars, fifo
<1> QED
  BY <1>1, <1>2, <1>3, <1>4, <1>5, <1>6, <1>7, <1>8, <1>9, <1>10 DEF Next, Fifo!FifoNext

(* The ring buffer, its wrapped window and its explicit object lifetimes     *)
(* implement the bounded FIFO queue, for any queues, values and capacity.    *)
THEOREM SpecImplementsFifo == Spec => ImplementsFifo
<1>1. Init => Fifo!FifoInit
  BY ContentsEmpty DEF Init, Fifo!FifoInit
<1> QED
  BY <1>1, RingsInit, RingsNext, FifoStep, PTL DEF Spec, ImplementsFifo, Fifo!FifoSpec
=============================================================================

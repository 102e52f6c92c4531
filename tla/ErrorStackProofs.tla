-------------------------- MODULE ErrorStackProofs --------------------------
(***************************************************************************)
(* Proofs about ErrorStack for any threads, numbers of errors and depths of*)
(* nesting.  IInv says how the loops of a thread stand to its stack: what  *)
(* lies above the error of a loop was pushed in a body, and what a loop is *)
(* about to pop was shown or pushed in a body.  The last part is about the *)
(* names: what the scan of any enum finds, by way of the folds it is, and  *)
(* what the texts that ErrorNames records make of it.                      *)
(***************************************************************************)
EXTENDS ErrorNames, SequenceLemmas

-----------------------------------------------------------------------------
Increasing(s) == \A i, j \in 1 .. Len(s) : i < j => s[i] < s[j]

(* Types that hold in every state, those after undefined behaviour too. *)
Typed ==
  /\ DOMAIN stacks \subseteq Threads
  /\ at \in [Threads -> [call : {"none", "push", "log", "begin", "advance"},
                         inserts : BOOLEAN]]
  /\ iterators \in [Threads -> Seq([view : Nat, shown : BOOLEAN])]
  /\ errors \in [Threads -> 0 .. MaxErrors]
  /\ inLoop \in [Threads -> SUBSET Nat]
  /\ habits \in [Threads -> SUBSET {"nested", "left"}]
  /\ reported \in [Threads -> SUBSET Nat] /\ repeated \in [Threads -> SUBSET Nat]
  /\ undefined \in {"none", "race", "dangling view", "pop of an empty stack"}

Numbered(t) ==
  /\ Stack(t) \in Seq(1 .. errors[t]) /\ Increasing(Stack(t))
  /\ Len(iterators[t]) <= MaxNesting
  /\ \A i \in 1 .. Len(iterators[t]) : iterators[t][i].view \in 1 .. errors[t]
  /\ inLoop[t] \subseteq 1 .. errors[t]
  /\ repeated[t] \subseteq reported[t] /\ reported[t] \subseteq 1 .. errors[t]

(* What the call of a thread was allowed to start with still holds. *)
Calling(t) ==
  /\ errors[t] > 0 \/ iterators[t] # <<>> => Known(t)
  /\ at[t].inserts => at[t].call \in {"push", "begin"} /\ errors[t] = 0
  /\ at[t].call = "push" => errors[t] < MaxErrors
  /\ at[t].call \in {"log", "begin"} => Len(iterators[t]) < MaxNesting
  /\ at[t].call = "advance" => iterators[t] # <<>> /\ Last(iterators[t]).shown

(* Above the error of a loop are errors pushed in a body.  *)
Above(t) ==
  \A i \in 1 .. Len(iterators[t]) : \A error \in ToSet(Stack(t)) :
    error > iterators[t][i].view => error \in inLoop[t]

(* The error that the innermost loop is to pop was shown or pushed in a body.*)
Doomed(t) ==
  iterators[t] # <<>> /\ Last(iterators[t]).shown /\ Stack(t) # <<>> =>
    Last(Stack(t)) \in reported[t] \cup inLoop[t]

Kept(t) ==
  \A error \in 1 .. errors[t] : error \in ToSet(Stack(t)) \cup reported[t] \cup inLoop[t]

(* A loop that was never nested has its error in the stack. *)
Unnested(t) ==
  "nested" \notin habits[t] =>
    /\ Len(iterators[t]) <= 1
    /\ iterators[t] # <<>> => Last(iterators[t]).view \in ToSet(Stack(t))

Once(t) ==
  habits[t] = {} /\ inLoop[t] = {} =>
    /\ repeated[t] = {}
    /\ iterators[t] # <<>> => Last(iterators[t]).view = Last(Stack(t))
    /\ \A error \in ToSet(Stack(t)) \cap reported[t] :
         iterators[t] # <<>> /\ Last(iterators[t]) = [view |-> error, shown |-> TRUE]

Defined(t) ==
  /\ Calling(t) /\ Above(t) /\ Doomed(t) /\ Kept(t) /\ Unnested(t) /\ Once(t)

IInv ==
  /\ Typed /\ \A t \in Threads : Numbered(t)
  /\ undefined = "none" => \A t \in Threads : Defined(t)
  /\ RaceNeedsFirstCall /\ UndefinedNeedsNesting

-----------------------------------------------------------------------------
(* Stacks and iterators as sequences *)

(* ToSet holds what is at some position. *)
LEMMA InSequence ==
  ASSUME NEW S, NEW s \in Seq(S)
  PROVE  \A x : x \in ToSet(s) <=> \E i \in 1 .. Len(s) : s[i] = x
BY LenProperties DEF ToSet

(* Appending puts one element on top. *)
LEMMA AppendLast ==
  ASSUME NEW S, NEW s \in Seq(S), NEW e \in S
  PROVE  /\ Append(s, e) \in Seq(S) /\ Append(s, e) # <<>>
         /\ Len(Append(s, e)) = Len(s) + 1
         /\ \A i \in 1 .. Len(s) + 1 : Append(s, e)[i] = IF i = Len(s) + 1 THEN e ELSE s[i]
         /\ Last(Append(s, e)) = e
         /\ ToSet(Append(s, e)) = ToSet(s) \cup {e}
<1>1. /\ Append(s, e) \in Seq(S) /\ Append(s, e) # <<>>
      /\ Len(Append(s, e)) = Len(s) + 1 /\ Len(s) \in Nat
      /\ \A i \in 1 .. Len(s) : Append(s, e)[i] = s[i]
      /\ Append(s, e)[Len(s) + 1] = e
  BY AppendProperties, LenProperties
<1> DEFINE longer == Append(s, e)
<1> HIDE DEF longer
<1>2. \A i \in 1 .. Len(s) + 1 : longer[i] = IF i = Len(s) + 1 THEN e ELSE s[i]
  BY <1>1 DEF longer
<1>3. Last(longer) = e
  BY <1>1 DEF Last, longer
<1>4. \A x : x \in ToSet(longer) <=> \E i \in 1 .. Len(s) + 1 : longer[i] = x
  <2>1. longer \in Seq(S) /\ Len(longer) = Len(s) + 1
    BY <1>1 DEF longer
  <2>2. \A x : x \in ToSet(longer) <=> \E i \in 1 .. Len(longer) : longer[i] = x
    BY <2>1, InSequence
  <2> QED
    BY <2>1, <2>2
<1>5. \A x : x \in ToSet(longer) <=> x \in ToSet(s) \/ x = e
  <2>1. \A x : x \in ToSet(s) <=> \E i \in 1 .. Len(s) : s[i] = x
    BY InSequence
  <2>2. Len(s) + 1 \in 1 .. Len(s) + 1 /\ \A i \in 1 .. Len(s) : i \in 1 .. Len(s) + 1 /\ i # Len(s) + 1
    BY <1>1
  <2>3. \A i \in 1 .. Len(s) + 1 : i = Len(s) + 1 \/ i \in 1 .. Len(s)
    BY <1>1
  <2> QED
    BY <1>2, <1>4, <2>1, <2>2, <2>3
<1> QED
  BY <1>1, <1>2, <1>3, <1>5 DEF longer

(* Popping takes the top away. *)
LEMMA FrontLast ==
  ASSUME NEW S, NEW s \in Seq(S), s # <<>>
  PROVE  /\ Front(s) \in Seq(S) /\ Len(Front(s)) = Len(s) - 1 /\ Len(s) \in Nat \ {0}
         /\ \A i \in 1 .. Len(s) - 1 : Front(s)[i] = s[i]
         /\ Last(s) = s[Len(s)] /\ Last(s) \in S
         /\ ToSet(s) = ToSet(Front(s)) \cup {Last(s)}
<1>1. Len(s) \in Nat \ {0} /\ \A i \in 1 .. Len(s) : s[i] \in S
  BY EmptySeq, ElementOfSeq
<1>2. /\ Front(s) \in Seq(S) /\ Len(Front(s)) = Len(s) - 1
      /\ \A i \in 1 .. Len(s) - 1 : Front(s)[i] = s[i]
  <2>1. /\ SubSeq(s, 1, Len(s) - 1) \in Seq(S)
        /\ Len(SubSeq(s, 1, Len(s) - 1)) = IF 1 <= Len(s) - 1 THEN Len(s) - 1 - 1 + 1 ELSE 0
        /\ \A i \in 1 .. Len(s) - 1 - 1 + 1 : SubSeq(s, 1, Len(s) - 1)[i] = s[1 + i - 1]
    <3>1. 1 \in Int /\ Len(s) - 1 \in Int /\ \A i \in 1 .. Len(s) - 1 : s[i] \in S
      BY <1>1
    <3> QED
      BY <3>1, SubSeqProperties
  <2> DEFINE front == SubSeq(s, 1, Len(s) - 1)
  <2> HIDE DEF front
  <2>2. /\ front \in Seq(S)
        /\ Len(front) = IF 1 <= Len(s) - 1 THEN Len(s) - 1 - 1 + 1 ELSE 0
        /\ \A i \in 1 .. Len(s) - 1 - 1 + 1 : front[i] = s[1 + i - 1]
    BY <2>1 DEF front
  <2>3. \A i \in 1 .. Len(s) - 1 : i \in 1 .. Len(s) - 1 - 1 + 1 /\ 1 + i - 1 = i
    BY <1>1
  <2>4. Len(front) = Len(s) - 1
    <3>1. PICK n \in Nat \ {0} : n = Len(s)
      BY <1>1
    <3>2. Len(front) = IF 1 <= n - 1 THEN n - 1 - 1 + 1 ELSE 0
      BY <2>2, <3>1
    <3> QED
      BY <3>1, <3>2
  <2>5. ASSUME NEW i \in 1 .. Len(s) - 1 PROVE front[i] = s[i]
    <3>1. front[i] = s[1 + i - 1]
      BY <2>2, <2>3
    <3> QED
      BY <2>3, <3>1
  <2> QED
    BY <2>2, <2>4, <2>5 DEF front, Front
<1>3. Last(s) = s[Len(s)] /\ Last(s) \in S
  BY <1>1 DEF Last
<1> DEFINE front == Front(s)
<1> HIDE DEF front
<1>4. \A x : x \in ToSet(s) <=> x \in ToSet(front) \/ x = Last(s)
  <2>1. \A x : x \in ToSet(s) <=> \E i \in 1 .. Len(s) : s[i] = x
    BY InSequence
  <2>2. \A x : x \in ToSet(front) <=> \E i \in 1 .. Len(s) - 1 : front[i] = x
    BY <1>2, InSequence DEF front
  <2>3. \A i : i \in 1 .. Len(s) <=> i = Len(s) \/ i \in 1 .. Len(s) - 1
    BY <1>1
  <2> QED
    BY <1>2, <1>3, <2>1, <2>2, <2>3 DEF front
<1> QED
  BY <1>1, <1>2, <1>3, <1>4 DEF front

(* A new error has the greatest number. *)
LEMMA PushIncreases ==
  ASSUME NEW n \in Nat, NEW s \in Seq(1 .. n), Increasing(s)
  PROVE  Append(s, n + 1) \in Seq(1 .. n + 1) /\ Increasing(Append(s, n + 1))
<1>1. s \in Seq(1 .. n + 1) /\ n + 1 \in 1 .. n + 1
  BY SeqMonotonic
<1>2. \A i \in 1 .. Len(s) : s[i] \in 1 .. n
  BY ElementOfSeq
<1>3. Len(s) \in Nat
  BY LenProperties
<1> DEFINE longer == Append(s, n + 1)
<1>4. /\ longer \in Seq(1 .. n + 1) /\ Len(longer) = Len(s) + 1
      /\ \A i \in 1 .. Len(s) + 1 : longer[i] = IF i = Len(s) + 1 THEN n + 1 ELSE s[i]
  BY <1>1, AppendLast
<1> HIDE DEF longer
<1>5. ASSUME NEW i \in 1 .. Len(longer), NEW j \in 1 .. Len(longer), i < j
      PROVE  longer[i] < longer[j]
  <2>1. i \in 1 .. Len(s) /\ longer[i] = s[i] /\ s[i] \in 1 .. n
    BY <1>2, <1>3, <1>4, <1>5
  <2>2. CASE j = Len(s) + 1
    <3>1. longer[j] = n + 1 /\ longer[i] \in 1 .. n
      BY <1>4, <2>1, <2>2
    <3> QED
      BY <3>1
  <2>3. CASE j # Len(s) + 1
    <3>1. j \in 1 .. Len(s) /\ longer[j] = s[j]
      BY <1>3, <1>4, <2>3
    <3> QED
      BY <1>5, <2>1, <3>1 DEF Increasing
  <2> QED
    BY <2>2, <2>3
<1> QED
  BY <1>4, <1>5 DEF longer, Increasing

(* The top of a stack is its newest error, and popping takes only that. *)
LEMMA PopIncreases ==
  ASSUME NEW n \in Nat, NEW s \in Seq(1 .. n), Increasing(s), s # <<>>
  PROVE  /\ Front(s) \in Seq(1 .. n) /\ Increasing(Front(s))
         /\ Last(s) \in 1 .. n
         /\ \A x \in ToSet(s) : x <= Last(s)
         /\ Last(s) \notin ToSet(Front(s))
         /\ ToSet(s) = ToSet(Front(s)) \cup {Last(s)}
<1> DEFINE front == Front(s)
<1>1. /\ front \in Seq(1 .. n) /\ Len(front) = Len(s) - 1 /\ Len(s) \in Nat \ {0}
      /\ \A i \in 1 .. Len(s) - 1 : front[i] = s[i]
      /\ Last(s) = s[Len(s)] /\ Last(s) \in 1 .. n
      /\ ToSet(s) = ToSet(front) \cup {Last(s)}
  BY FrontLast
<1> HIDE DEF front
<1>2. ASSUME NEW i \in 1 .. Len(front), NEW j \in 1 .. Len(front), i < j
      PROVE  front[i] < front[j]
  <2>1. i \in 1 .. Len(s) /\ j \in 1 .. Len(s) /\ front[i] = s[i] /\ front[j] = s[j]
    BY <1>1, SMTT(30)
  <2> QED
    BY <1>2, <2>1 DEF Increasing
<1>3. \A i \in 1 .. Len(s) : s[i] \in 1 .. n
  BY ElementOfSeq
<1>4. ASSUME NEW i \in 1 .. Len(s) - 1 PROVE s[i] < Last(s)
  <2>1. i \in 1 .. Len(s) /\ Len(s) \in 1 .. Len(s) /\ i < Len(s)
    BY <1>1
  <2> QED
    BY <1>1, <2>1 DEF Increasing
<1>5. \A x \in ToSet(front) : x < Last(s)
  <2>1. \A x : x \in ToSet(front) <=> \E i \in 1 .. Len(s) - 1 : front[i] = x
    BY <1>1, InSequence
  <2> QED
    BY <1>1, <1>4, <2>1, SMTT(30)
<1>6. Last(s) \notin ToSet(front) /\ \A x \in ToSet(s) : x <= Last(s)
  <2>1. \A x \in ToSet(front) : x \in 1 .. n
    BY <1>1, RangeOfSeq, InSequence, ElementOfSeq
  <2> QED
    BY <1>1, <1>5, <2>1
<1> QED
  BY <1>1, <1>2, <1>6 DEF front, Increasing

-----------------------------------------------------------------------------
(* Steps of one thread *)

(* A thread has its own entry of the map to itself. *)
LEMMA OwnEntry ==
  ASSUME NEW t, NEW s, stacks' = WithStack(t, s)
  PROVE  /\ DOMAIN stacks' = DOMAIN stacks \cup {t}
         /\ Known(t)' /\ Stack(t)' = s
         /\ \A u : u # t => (Known(u)' <=> Known(u)) /\ Stack(u)' = Stack(u)
BY DEF WithStack, Known, Stack

(* A step that leaves the map alone leaves every entry alone. *)
LEMMA NoEntry ==
  ASSUME UNCHANGED stacks
  PROVE  \A u : (Known(u)' <=> Known(u)) /\ Stack(u)' = Stack(u)
BY DEF Known, Stack

Same(u) ==
  /\ Known(u)' <=> Known(u)
  /\ Stack(u)' = Stack(u)
  /\ at'[u] = at[u] /\ iterators'[u] = iterators[u] /\ errors'[u] = errors[u]
  /\ inLoop'[u] = inLoop[u] /\ habits'[u] = habits[u]
  /\ reported'[u] = reported[u] /\ repeated'[u] = repeated[u]

(* A thread that nothing changes for keeps its errors in order ... *)
LEMMA SameNumbered == \A u : Same(u) /\ Numbered(u) => Numbered(u)'
BY DEF Same, Numbered

(* ... and what it has read of them. *)
LEMMA SameDefined == \A u : Same(u) /\ Defined(u) => Defined(u)'
<1> SUFFICES ASSUME NEW u, Same(u), Defined(u) PROVE Defined(u)'
  OBVIOUS
<1>1. Calling(u)'
  BY DEF Same, Defined, Calling
<1>2. Above(u)' /\ Doomed(u)' /\ Kept(u)'
  BY DEF Same, Defined, Above, Doomed, Kept
<1>3. Unnested(u)' /\ Once(u)'
  BY DEF Same, Defined, Unnested, Once
<1> QED
  BY <1>1, <1>2, <1>3 DEF Defined

(* A step that leaves the other threads alone and is defined. *)
LEMMA ThreadMoves ==
  ASSUME IInv, undefined = "none", NEW t \in Threads,
         \A u \in Threads \ {t} : Same(u),
         Typed', undefined' = "none", Numbered(t)', Defined(t)'
  PROVE  IInv'
<1>1. \A u \in Threads : Numbered(u)' /\ Defined(u)'
  BY SameNumbered, SameDefined DEF IInv
<1> QED
  BY <1>1 DEF IInv, RaceNeedsFirstCall, UndefinedNeedsNesting

(* Entering the map changes nothing but where the thread is; a race needs a  *)
(* thread that inserts, and only a thread without an entry does.             *)
LEMMA Enters ==
  ASSUME IInv, NEW t \in Threads, NEW inserts \in BOOLEAN,
         NEW call \in {"push", "log", "begin", "advance"},
         Enter(t, call, inserts),
         UNCHANGED <<stacks, iterators, errors, inLoop, habits, reported, repeated>>,
         inserts => call \in {"push", "begin"} /\ errors[t] = 0,
         call = "push" => errors[t] < MaxErrors,
         call \in {"log", "begin"} => Len(iterators[t]) < MaxNesting,
         call = "advance" => iterators[t] # <<>> /\ Last(iterators[t]).shown
  PROVE  IInv'
<1>1. /\ undefined = "none"
      /\ \A u \in Threads \ {t} : at'[u] = at[u]
      /\ at'[t] = [call |-> call, inserts |-> inserts]
      /\ undefined' = IF \E u \in Threads \ {t} : at[u] # Idle /\ (inserts \/ at[u].inserts)
                         THEN "race" ELSE "none"
  BY DEF Enter, IInv, Typed
<1>2. at'[t].call = call /\ at'[t].inserts = inserts
  BY <1>1
<1>3. \A u \in Threads \ {t} : Same(u)
  BY <1>1, NoEntry DEF Same
<1>4. Typed'
  BY <1>1 DEF IInv, Typed, Enter
<1>5. Numbered(t)'
  BY NoEntry DEF IInv, Numbered
<1>6. Defined(t)'
  <2>1. Calling(t)'
    BY <1>1, <1>2, NoEntry DEF IInv, Defined, Calling
  <2>2. Above(t)' /\ Doomed(t)' /\ Kept(t)'
    BY <1>1, NoEntry DEF IInv, Defined, Above, Doomed, Kept
  <2>3. Unnested(t)' /\ Once(t)'
    BY <1>1, NoEntry DEF IInv, Defined, Unnested, Once
  <2> QED
    BY <2>1, <2>2, <2>3 DEF Defined
<1>7. CASE undefined' = "none"
  BY <1>1, <1>3, <1>4, <1>5, <1>6, <1>7, ThreadMoves
<1>8. CASE undefined' = "race"
  <2>1. PICK u \in Threads \ {t} : inserts \/ at[u].inserts
    BY <1>1, <1>8
  <2>2. at[u].inserts => at[u].call \in {"push", "begin"} /\ errors[u] = 0
    BY <1>1 DEF IInv, Defined, Calling
  <2>3. RaceNeedsFirstCall'
    <3>1. CASE inserts
      BY <1>2, <3>1 DEF RaceNeedsFirstCall
    <3>2. CASE at[u].inserts
      BY <1>1, <2>1, <2>2, <3>2 DEF RaceNeedsFirstCall
    <3> QED
      BY <2>1, <3>1, <3>2
  <2>4. \A v \in Threads : Numbered(v)'
    BY <1>3, <1>5, SameNumbered DEF IInv
  <2> QED
    BY <1>4, <1>8, <2>3, <2>4 DEF IInv, UndefinedNeedsNesting
<1> QED
  BY <1>1, <1>7, <1>8

(* The new error lies on top; in a body it is noted as pushed there. *)
LEMMA PushErrorMoves ==
  ASSUME IInv, undefined = "none", NEW t \in Threads, at[t].call = "push", PushError(t)
  PROVE  IInv'
<1> DEFINE n == errors[t]
           s == Stack(t)
           its == iterators[t]
<1>1. /\ Typed /\ Numbered(t) /\ Calling(t) /\ Above(t) /\ Kept(t)
      /\ Unnested(t) /\ Once(t)
  BY DEF IInv, Defined
<1>2. /\ n \in Nat /\ n + 1 \in 0 .. MaxErrors /\ s \in Seq(1 .. n) /\ Increasing(s)
      /\ its \in Seq([view : Nat, shown : BOOLEAN])
  BY <1>1, BoundAssumption DEF Typed, Calling, Numbered
<1>3. /\ Stack(t)' = Append(s, n + 1) /\ Known(t)' /\ DOMAIN stacks' = DOMAIN stacks \cup {t}
      /\ errors'[t] = n + 1 /\ at'[t] = Idle
      /\ inLoop'[t] = IF its = <<>> THEN inLoop[t] ELSE inLoop[t] \cup {n + 1}
      /\ iterators'[t] = its /\ habits'[t] = habits[t]
      /\ reported'[t] = reported[t] /\ repeated'[t] = repeated[t] /\ undefined' = undefined
  BY <1>1, OwnEntry DEF PushError, Leave, Typed
<1>4. \A u \in Threads \ {t} : Same(u)
  BY <1>1, OwnEntry DEF PushError, Leave, Typed, Same
<1>5. Typed'
  <2>1. errors' \in [Threads -> 0 .. MaxErrors] /\ inLoop' \in [Threads -> SUBSET Nat]
    BY <1>1, <1>2 DEF PushError, Typed
  <2>2. at' \in [Threads -> [call : {"none", "push", "log", "begin", "advance"}, inserts : BOOLEAN]]
    BY <1>1 DEF PushError, Leave, Idle, Typed
  <2> QED
    BY <1>1, <1>3, <2>1, <2>2 DEF PushError, Typed
<1>6. /\ Append(s, n + 1) \in Seq(1 .. n + 1) /\ Increasing(Append(s, n + 1))
      /\ Append(s, n + 1) # <<>> /\ Last(Append(s, n + 1)) = n + 1
      /\ ToSet(Append(s, n + 1)) = ToSet(s) \cup {n + 1}
  <2> HIDE DEF n, s
  <2>1. s \in Seq(1 .. n + 1) /\ n + 1 \in 1 .. n + 1
    BY <1>2, SeqMonotonic
  <2>2. Append(s, n + 1) \in Seq(1 .. n + 1) /\ Increasing(Append(s, n + 1))
    BY <1>2, PushIncreases
  <2>3. /\ Append(s, n + 1) # <<>> /\ Last(Append(s, n + 1)) = n + 1
        /\ ToSet(Append(s, n + 1)) = ToSet(s) \cup {n + 1}
    BY <2>1, AppendLast
  <2> QED
    BY <2>2, <2>3
<1> HIDE DEF n, s, its
<1>7. Len(its) \in Nat /\ (its = <<>> => Len(its) = 0)
  BY <1>2, LenProperties, EmptySeq
<1>8. Numbered(t)'
  <2>1. 1 .. n \subseteq 1 .. n + 1
    BY <1>2
  <2>2. \A i \in 1 .. Len(its) : its[i].view \in 1 .. n + 1
    BY <1>1, <2>1 DEF Numbered, n, its
  <2>3. inLoop'[t] \subseteq 1 .. n + 1
    <3>1. inLoop[t] \subseteq 1 .. n /\ n + 1 \in 1 .. n + 1
      BY <1>1, <1>2 DEF Numbered, n
    <3> QED
      BY <1>3, <2>1, <3>1
  <2>4. reported'[t] \subseteq 1 .. n + 1 /\ repeated'[t] \subseteq reported'[t]
    BY <1>1, <1>3, <2>1 DEF Numbered, n
  <2>5. Len(its) <= MaxNesting
    BY <1>1 DEF Numbered, its
  <2> QED
    BY <1>3, <1>6, <2>2, <2>3, <2>4, <2>5 DEF Numbered
<1>9. Calling(t)'
  BY <1>3 DEF Calling, Idle
<1>10. Above(t)'
  <2> SUFFICES ASSUME NEW i \in 1 .. Len(its), NEW error \in ToSet(s) \cup {n + 1}, error > its[i].view
               PROVE  error \in inLoop'[t]
    BY <1>3, <1>6 DEF Above
  <2>1. its # <<>>
    BY <1>7
  <2>2. error \in ToSet(s) => error \in inLoop[t]
    BY <1>1 DEF Above, s, its
  <2> QED
    BY <1>3, <2>1, <2>2
<1>11. Doomed(t)'
  BY <1>3, <1>6 DEF Doomed
<1>12. Kept(t)'
  <2>1. \A error \in 1 .. n + 1 : error = n + 1 \/ error \in 1 .. n
    BY <1>2
  <2> QED
    BY <1>1, <1>3, <1>6, <2>1 DEF Kept, s, n
<1>13. Unnested(t)'
  BY <1>1, <1>3, <1>6 DEF Unnested, s, its
<1>14. Once(t)'
  <2> SUFFICES ASSUME habits[t] = {}, inLoop'[t] = {}
               PROVE  repeated[t] = {} /\ its = <<>> /\ (ToSet(s) \cup {n + 1}) \cap reported[t] = {}
    BY <1>3, <1>6 DEF Once
  <2>1. its = <<>> /\ inLoop[t] = {}
    BY <1>3
  <2>2. repeated[t] = {} /\ ToSet(s) \cap reported[t] = {}
    BY <1>1, <2>1 DEF Once, s, its
  <2>3. n + 1 \notin reported[t]
    BY <1>1, <1>2 DEF Numbered, n
  <2> QED
    BY <2>1, <2>2, <2>3
<1> QED
  BY <1>3, <1>4, <1>5, <1>8, <1>9, <1>10, <1>11, <1>12, <1>13, <1>14, ThreadMoves DEF Defined

(* A loop starts at the newest error; a thread in no loop nests nothing. *)
LEMMA BeginMoves ==
  ASSUME IInv, NEW t \in Threads, Begin(t)
  PROVE  IInv'
<1> DEFINE n == errors[t]
           s == Stack(t)
           its == iterators[t]
           it == [view |-> Last(s), shown |-> FALSE]
           its2 == IF s = <<>> THEN its ELSE Append(its, it)
<1>0. undefined = "none" /\ at[t].call = "begin"
  BY DEF Begin
<1>1. /\ Typed /\ Numbered(t) /\ Calling(t) /\ Above(t) /\ Doomed(t) /\ Kept(t)
      /\ Unnested(t) /\ Once(t)
  BY <1>0 DEF IInv, Defined
<1>2. /\ n \in Nat /\ s \in Seq(1 .. n) /\ Increasing(s)
      /\ its \in Seq([view : Nat, shown : BOOLEAN]) /\ Len(its) \in Nat /\ Len(its) < MaxNesting
  BY <1>0, <1>1, BoundAssumption, LenProperties DEF Typed, Calling, Numbered
<1>3. /\ Stack(t)' = s /\ Known(t)' /\ DOMAIN stacks' = DOMAIN stacks \cup {t}
      /\ iterators'[t] = its2 /\ at'[t] = Idle
      /\ habits'[t] = IF its = <<>> THEN habits[t] ELSE habits[t] \cup {"nested"}
      /\ errors'[t] = n /\ inLoop'[t] = inLoop[t]
      /\ reported'[t] = reported[t] /\ repeated'[t] = repeated[t] /\ undefined' = undefined
  BY <1>1, OwnEntry DEF Begin, Leave, Typed
<1>4. \A u \in Threads \ {t} : Same(u)
  BY <1>1, OwnEntry DEF Begin, Leave, Typed, Same
<1>5. s # <<>> => /\ Last(s) \in 1 .. n /\ Last(s) \in ToSet(s)
                  /\ \A x \in ToSet(s) : x <= Last(s)
  BY <1>2, PopIncreases
<1>6. s # <<>> => /\ its2 \in Seq([view : Nat, shown : BOOLEAN]) /\ Len(its2) = Len(its) + 1
                  /\ its2 # <<>> /\ Last(its2) = it
                  /\ \A i \in 1 .. Len(its) + 1 : its2[i] = IF i = Len(its) + 1 THEN it ELSE its[i]
  <2> SUFFICES ASSUME s # <<>> PROVE /\ Append(its, it) \in Seq([view : Nat, shown : BOOLEAN])
                 /\ Len(Append(its, it)) = Len(its) + 1
                 /\ Append(its, it) # <<>> /\ Last(Append(its, it)) = it
                 /\ \A i \in 1 .. Len(its) + 1 : Append(its, it)[i] = IF i = Len(its) + 1 THEN it ELSE its[i]
    OBVIOUS
  <2>1. it \in [view : Nat, shown : BOOLEAN]
    BY <1>2, <1>5
  <2> DEFINE Iterators == [view : Nat, shown : BOOLEAN]
  <2>2. it \in Iterators /\ its \in Seq(Iterators)
    BY <1>2, <2>1
  <2> HIDE DEF it, its, s, Iterators
  <2>3. /\ Append(its, it) \in Seq(Iterators)
        /\ Len(Append(its, it)) = Len(its) + 1
        /\ Append(its, it) # <<>> /\ Last(Append(its, it)) = it
        /\ \A i \in 1 .. Len(its) + 1 : Append(its, it)[i] = IF i = Len(its) + 1 THEN it ELSE its[i]
    BY <2>2, AppendLast
  <2> QED
    BY <2>3, Zenon DEF Iterators
<1>7. it.view = Last(s) /\ it.shown = FALSE
  OBVIOUS
<1>8. s = <<>> => its2 = its
  OBVIOUS
<1>9. its = <<>> => Len(its) = 0
  BY EmptySeq
<1>10. Typed'
  <2>1. iterators' \in [Threads -> Seq([view : Nat, shown : BOOLEAN])]
    BY <1>1, <1>6 DEF Begin, Typed
  <2>2. habits' \in [Threads -> SUBSET {"nested", "left"}]
    BY <1>1 DEF Begin, Typed
  <2>3. at' \in [Threads -> [call : {"none", "push", "log", "begin", "advance"}, inserts : BOOLEAN]]
    BY <1>1 DEF Begin, Leave, Idle, Typed
  <2> QED
    BY <1>1, <1>3, <2>1, <2>2, <2>3 DEF Begin, Typed
<1> HIDE DEF n, s, its, it, its2
<1>11. Numbered(t)'
  <2>1. Len(its2) <= MaxNesting
    BY <1>2, <1>6, <1>8, BoundAssumption
  <2>2. \A i \in 1 .. Len(its) : its[i].view \in 1 .. n
    BY <1>1 DEF Numbered, n, its
  <2>3. ASSUME NEW i \in 1 .. Len(its2) PROVE its2[i].view \in 1 .. n
    <3>1. CASE s = <<>>
      BY <1>8, <2>2, <3>1
    <3>2. CASE s # <<>>
      <4>1. i \in 1 .. Len(its) + 1 /\ (i # Len(its) + 1 => i \in 1 .. Len(its))
        BY <1>2, <1>6, <3>2
      <4> QED
        BY <1>5, <1>6, <1>7, <2>2, <3>2, <4>1
    <3> QED
      BY <3>1, <3>2
  <2> QED
    BY <1>1, <1>2, <1>3, <2>1, <2>3 DEF Numbered, n
<1>12. Calling(t)'
  BY <1>3 DEF Calling, Idle
<1>13. Above(t)'
  <2> SUFFICES ASSUME NEW i \in 1 .. Len(its2), NEW error \in ToSet(s), error > its2[i].view
               PROVE  error \in inLoop[t]
    BY <1>3 DEF Above
  <2>1. CASE s = <<>>
    BY <1>1, <1>8, <2>1 DEF Above, s, its
  <2>2. CASE s # <<>>
    <3>1. i \in 1 .. Len(its) + 1 /\ (i # Len(its) + 1 => i \in 1 .. Len(its))
      BY <1>2, <1>6, <2>2
    <3>2. error <= Last(s) /\ error \in 1 .. n /\ Last(s) \in 1 .. n
      <4>1. PICK k \in 1 .. Len(s) : s[k] = error
        BY <1>2, InSequence
      <4>2. s[k] \in 1 .. n
        BY <1>2, ElementOfSeq
      <4> QED
        BY <1>5, <2>2, <4>1, <4>2
    <3>3. i # Len(its) + 1
      BY <1>6, <1>7, <2>2, <3>1, <3>2
    <3> QED
      BY <1>1, <1>6, <2>2, <3>1, <3>3 DEF Above, s, its
  <2> QED
    BY <2>1, <2>2
<1>14. Doomed(t)'
  <2>1. CASE s = <<>>
    BY <1>3, <2>1 DEF Doomed
  <2>2. CASE s # <<>>
    BY <1>3, <1>6, <1>7, <2>2 DEF Doomed
  <2> QED
    BY <2>1, <2>2
<1>15. Kept(t)'
  BY <1>1, <1>3 DEF Kept, s, n
<1>16. Unnested(t)'
  <2> SUFFICES ASSUME "nested" \notin habits'[t]
               PROVE  Len(its2) <= 1 /\ (its2 # <<>> => Last(its2).view \in ToSet(s))
    BY <1>3 DEF Unnested
  <2>1. its = <<>>
    BY <1>3
  <2>2. CASE s = <<>>
    BY <1>8, <1>9, <2>1, <2>2
  <2>3. CASE s # <<>>
    <3>1. Len(its2) = 1
      BY <1>6, <1>9, <2>1, <2>3
    <3>2. Last(its2).view \in ToSet(s)
      BY <1>5, <1>6, <1>7, <2>3
    <3> QED
      BY <3>1, <3>2
  <2> QED
    BY <2>2, <2>3
<1>17. Once(t)'
  <2> SUFFICES ASSUME habits'[t] = {}, inLoop[t] = {}
               PROVE  /\ repeated[t] = {} /\ (its2 # <<>> => Last(its2).view = Last(s))
                      /\ ToSet(s) \cap reported[t] = {}
    BY <1>3 DEF Once
  <2>1. its = <<>> /\ habits[t] = {}
    BY <1>3
  <2>2. repeated[t] = {} /\ ToSet(s) \cap reported[t] = {}
    BY <1>1, <2>1 DEF Once, s, its
  <2>3. its2 # <<>> => Last(its2).view = Last(s)
    BY <1>6, <1>7, <1>8, <2>1
  <2> QED
    BY <2>2, <2>3
<1> QED
  BY <1>0, <1>3, <1>4, <1>10, <1>11, <1>12, <1>13, <1>14, <1>15, <1>16, <1>17, ThreadMoves DEF Defined

(* A loop pops what was shown or pushed in a body, and goes on below it. *)
LEMMA NextErrorMoves ==
  ASSUME IInv, NEW t \in Threads, NextError(t)
  PROVE  IInv'
<1> DEFINE n == errors[t]
           s == Stack(t)
           its == iterators[t]
           it == [view |-> Last(Front(s)), shown |-> FALSE]
           its2 == IF Front(s) = <<>> THEN Front(its) ELSE Append(Front(its), it)
           Iterators == [view : Nat, shown : BOOLEAN]
<1>0. undefined = "none" /\ at[t] = [call |-> "advance", inserts |-> FALSE] /\ stacks[t] # <<>>
  BY DEF NextError, Proceed, Inside
<1>1. /\ Typed /\ Numbered(t) /\ Calling(t) /\ Above(t) /\ Doomed(t) /\ Kept(t)
      /\ Unnested(t) /\ Once(t)
  BY <1>0 DEF IInv, Defined
<1>2. its # <<>> /\ Last(its).shown /\ Known(t) /\ s = stacks[t]
  BY <1>0, <1>1 DEF Calling, Stack
<1>3. /\ n \in Nat /\ s \in Seq(1 .. n) /\ Increasing(s) /\ s # <<>>
      /\ its \in Seq(Iterators)
  BY <1>0, <1>1, <1>2, BoundAssumption DEF Typed, Numbered
<1>4. /\ stacks' = WithStack(t, Front(s))
      /\ iterators' = [iterators EXCEPT ![t] = its2]
      /\ at' = [at EXCEPT ![t] = Idle]
      /\ UNCHANGED <<errors, inLoop, habits, reported, repeated, undefined>>
  <2>1. Proceed(t, WithStack(t, Front(s)), Front(s))
    BY <1>2 DEF NextError, Popped
  <2> QED
    BY <2>1 DEF Proceed, Leave
<1>5. /\ Stack(t)' = Front(s) /\ Known(t)' /\ DOMAIN stacks' = DOMAIN stacks \cup {t}
      /\ iterators'[t] = its2 /\ at'[t] = Idle
  BY <1>1, <1>4, OwnEntry DEF Typed
<1>6. \A u \in Threads \ {t} : Same(u)
  BY <1>1, <1>4, OwnEntry DEF Typed, Same
<1>7. /\ Front(s) \in Seq(1 .. n) /\ Increasing(Front(s)) /\ Last(s) \in 1 .. n
      /\ Last(s) \notin ToSet(Front(s)) /\ ToSet(s) = ToSet(Front(s)) \cup {Last(s)}
  BY <1>3, PopIncreases
<1>8. Front(s) # <<>> => /\ Last(Front(s)) \in 1 .. n /\ Last(Front(s)) \in ToSet(Front(s))
                         /\ \A x \in ToSet(Front(s)) : x <= Last(Front(s))
  BY <1>3, <1>7, PopIncreases
<1>9. /\ Front(its) \in Seq(Iterators) /\ Len(Front(its)) = Len(its) - 1 /\ Len(its) \in Nat \ {0}
      /\ \A i \in 1 .. Len(its) - 1 : Front(its)[i] = its[i]
  <2> HIDE DEF its, Iterators
  <2>1. its \in Seq(Iterators) /\ its # <<>>
    BY <1>2, <1>3
  <2> QED
    BY <2>1, FrontLast
<1>10. it.view = Last(Front(s)) /\ it.shown = FALSE /\ (Front(s) # <<>> => it \in Iterators)
  BY <1>3, <1>8
<1> HIDE DEF n, s, its, it, Iterators
<1>11. Front(s) # <<>> =>
         /\ its2 \in Seq(Iterators) /\ Len(its2) = Len(its) /\ its2 # <<>> /\ Last(its2) = it
         /\ \A i \in 1 .. Len(its) : its2[i] = IF i = Len(its) THEN it ELSE its[i]
  <2> SUFFICES ASSUME Front(s) # <<>>
               PROVE  LET longer == Append(Front(its), it) IN
                      /\ longer \in Seq(Iterators) /\ Len(longer) = Len(its)
                      /\ longer # <<>> /\ Last(longer) = it
                      /\ \A i \in 1 .. Len(its) : longer[i] = IF i = Len(its) THEN it ELSE its[i]
    OBVIOUS
  <2> DEFINE front == Front(its)
             longer == Append(front, it)
  <2>1. front \in Seq(Iterators) /\ it \in Iterators
    BY <1>9, <1>10
  <2>2. /\ longer \in Seq(Iterators) /\ Len(longer) = Len(front) + 1
        /\ longer # <<>> /\ Last(longer) = it
        /\ \A i \in 1 .. Len(front) + 1 : longer[i] = IF i = Len(front) + 1 THEN it ELSE front[i]
    BY <2>1, AppendLast
  <2>3. Len(front) + 1 = Len(its) /\ \A i \in 1 .. Len(its) : i # Len(its) => front[i] = its[i]
    BY <1>9
  <2> HIDE DEF longer
  <2>4. /\ longer \in Seq(Iterators) /\ Len(longer) = Len(its)
        /\ longer # <<>> /\ Last(longer) = it
        /\ \A i \in 1 .. Len(its) : longer[i] = IF i = Len(its) THEN it ELSE its[i]
    BY <2>2, <2>3
  <2> QED
    BY <2>4 DEF longer
<1>12. Front(s) = <<>> =>
         /\ its2 \in Seq(Iterators) /\ Len(its2) = Len(its) - 1
         /\ \A i \in 1 .. Len(its) - 1 : its2[i] = its[i]
  BY <1>9
<1>13. ASSUME Front(s) = <<>> PROVE ToSet(Front(s)) = {}
  <2>1. \A x : x \in ToSet(Front(s)) <=> \E i \in 1 .. Len(Front(s)) : Front(s)[i] = x
    BY <1>7, InSequence
  <2>2. Len(Front(s)) = 0
    BY <1>13, EmptySeq
  <2> QED
    BY <2>1, <2>2
<1> HIDE DEF its2
<1>14. Typed'
  <2>1. iterators' \in [Threads -> Seq([view : Nat, shown : BOOLEAN])]
    BY <1>1, <1>4, <1>11, <1>12 DEF Typed, Iterators
  <2>2. at' \in [Threads -> [call : {"none", "push", "log", "begin", "advance"}, inserts : BOOLEAN]]
    BY <1>1, <1>4 DEF Idle, Typed
  <2> QED
    BY <1>1, <1>4, <1>5, <2>1, <2>2 DEF Typed
<1>15. Numbered(t)'
  <2>1. Len(its) <= MaxNesting /\ \A i \in 1 .. Len(its) : its[i].view \in 1 .. n
    BY <1>1 DEF Numbered, n, its
  <2>2. Len(its2) <= MaxNesting
    BY <1>9, <1>11, <1>12, <2>1, BoundAssumption
  <2>3. ASSUME NEW i \in 1 .. Len(its2) PROVE its2[i].view \in 1 .. n
    <3>1. CASE Front(s) = <<>>
      <4>1. i \in 1 .. Len(its) - 1 /\ i \in 1 .. Len(its)
        BY <1>9, <1>12, <3>1
      <4> QED
        BY <1>12, <2>1, <3>1, <4>1
    <3>2. CASE Front(s) # <<>>
      BY <1>8, <1>10, <1>11, <2>1, <3>2
    <3> QED
      BY <3>1, <3>2
  <2> QED
    BY <1>1, <1>4, <1>5, <1>7, <2>2, <2>3 DEF Numbered, n
<1>16. Calling(t)'
  BY <1>4, <1>5 DEF Calling, Idle
<1>17. Above(t)'
  <2> SUFFICES ASSUME NEW i \in 1 .. Len(its2), NEW error \in ToSet(Front(s)), error > its2[i].view
               PROVE  error \in inLoop[t]
    BY <1>4, <1>5 DEF Above
  <2>1. Front(s) # <<>>
    BY <1>13
  <2>2. error \in 1 .. n /\ error <= Last(Front(s)) /\ Last(Front(s)) \in 1 .. n
    <3>1. PICK k \in 1 .. Len(Front(s)) : Front(s)[k] = error
      BY <1>7, InSequence
    <3>2. Front(s)[k] \in 1 .. n
      BY <1>7, ElementOfSeq
    <3> QED
      BY <1>8, <2>1, <3>1, <3>2
  <2>3. i \in 1 .. Len(its) /\ i # Len(its)
    BY <1>10, <1>11, <2>1, <2>2
  <2>4. its2[i] = its[i] /\ error \in ToSet(s)
    BY <1>7, <1>11, <2>1, <2>3
  <2> QED
    BY <1>1, <2>3, <2>4 DEF Above, s, its
<1>18. Doomed(t)'
  BY <1>5, <1>10, <1>11 DEF Doomed
<1>19. Last(s) \in reported[t] \cup inLoop[t]
  BY <1>1, <1>2, <1>3 DEF Doomed, s, its
<1>20. Kept(t)'
  BY <1>1, <1>4, <1>5, <1>7, <1>19 DEF Kept, s
<1>21. Unnested(t)'
  <2> SUFFICES ASSUME "nested" \notin habits[t]
               PROVE  Len(its2) <= 1 /\ (its2 # <<>> => Last(its2).view \in ToSet(Front(s)))
    BY <1>4, <1>5 DEF Unnested
  <2>1. Len(its) = 1
    <3>1. Len(its) <= 1
      BY <1>1 DEF Unnested, its
    <3> QED
      BY <1>9, <3>1
  <2>2. CASE Front(s) = <<>>
    <3>1. Len(its2) = 0 /\ its2 = <<>>
      BY <1>12, <2>1, <2>2, EmptySeq
    <3> QED
      BY <3>1
  <2>3. CASE Front(s) # <<>>
    <3>1. Len(its2) = 1
      BY <1>11, <2>1, <2>3
    <3>2. Last(its2).view \in ToSet(Front(s))
      BY <1>8, <1>10, <1>11, <2>3
    <3> QED
      BY <3>1, <3>2
  <2> QED
    BY <2>2, <2>3
<1>22. Once(t)'
  <2> SUFFICES ASSUME habits[t] = {}, inLoop[t] = {}
               PROVE  /\ repeated[t] = {} /\ (its2 # <<>> => Last(its2).view = Last(Front(s)))
                      /\ ToSet(Front(s)) \cap reported[t] = {}
    BY <1>4, <1>5 DEF Once
  <2>1. Len(its) = 1
    <3>1. Len(its) <= 1
      BY <1>1 DEF Unnested, its
    <3> QED
      BY <1>9, <3>1
  <2>2. /\ repeated[t] = {} /\ Last(its).view = Last(s)
        /\ \A error \in ToSet(s) \cap reported[t] : Last(its) = [view |-> error, shown |-> TRUE]
    BY <1>1, <1>2 DEF Once, s, its
  <2>3. \A error \in ToSet(s) \cap reported[t] : error = Last(s)
    BY <2>2
  <2>4. its2 # <<>> => Last(its2).view = Last(Front(s))
    <3>1. Front(s) = <<>> => its2 = <<>>
      BY <1>12, <2>1, EmptySeq
    <3> QED
      BY <1>10, <1>11, <3>1
  <2> QED
    BY <1>7, <2>2, <2>3, <2>4
<1> QED
  BY <1>0, <1>4, <1>6, <1>14, <1>15, <1>16, <1>17, <1>18, <1>20, <1>21, <1>22, ThreadMoves DEF Defined

(* The error that a loop shows is in the stack, or a nested loop popped it.  *)
LEMMA ShowMoves ==
  ASSUME IInv, NEW t \in Threads, Show(t)
  PROVE  IInv'
<1> DEFINE n == errors[t]
           s == Stack(t)
           its == iterators[t]
           loop == Len(its)
           it == [its[loop] EXCEPT !.shown = TRUE]
           its2 == [its EXCEPT ![loop] = it]
           error == its[loop].view
           Iterators == [view : Nat, shown : BOOLEAN]
<1>0. undefined = "none" /\ at[t] = Idle /\ loop > 0 /\ ~its[loop].shown
  BY DEF Show
<1>1. /\ Typed /\ Numbered(t) /\ Calling(t) /\ Above(t) /\ Doomed(t) /\ Kept(t)
      /\ Unnested(t) /\ Once(t)
  BY <1>0 DEF IInv, Defined
<1>2. /\ n \in Nat /\ s \in Seq(1 .. n) /\ Increasing(s)
      /\ its \in Seq(Iterators) /\ loop \in Nat /\ loop \in 1 .. loop /\ its[loop] \in Iterators
      /\ its # <<>>
  <2>1. n \in Nat /\ s \in Seq(1 .. n) /\ Increasing(s) /\ its \in Seq(Iterators)
    <3>1. errors[t] \in 0 .. MaxErrors
      BY <1>1 DEF Typed
    <3>2. n \in Nat
      BY <3>1, BoundAssumption
    <3>3. s \in Seq(1 .. n) /\ Increasing(s)
      BY <1>1 DEF Numbered
    <3>4. its \in Seq(Iterators)
      BY <1>1 DEF Typed
    <3> QED
      BY <3>2, <3>3, <3>4
  <2>2. loop \in Nat
    BY <2>1, LenProperties
  <2>3. loop \in 1 .. loop
    BY <1>0, <2>2
  <2>4. its[loop] \in Iterators
    BY <2>1, <2>3, ElementOfSeq
  <2>5. its # <<>>
    BY <1>0, EmptySeq
  <2> QED
    BY <2>1, <2>2, <2>3, <2>4, <2>5
<1>3. /\ iterators' = [iterators EXCEPT ![t] = its2]
      /\ UNCHANGED <<stacks, at, errors, inLoop, habits>>
  BY DEF Show
<1>4. Stack(t)' = s /\ (Known(t)' <=> Known(t)) /\ iterators'[t] = its2
  BY <1>1, <1>3, NoEntry DEF Typed
<1>5. it \in Iterators /\ it.view = error /\ it.shown = TRUE
  BY <1>2
<1>6. it = [view |-> error, shown |-> TRUE]
  <2> HIDE DEF it, error
  <2>1. PICK v \in Nat, b \in BOOLEAN : it = [view |-> v, shown |-> b]
    BY <1>5
  <2>2. v = error /\ b = TRUE
    BY <1>5, <2>1
  <2> QED
    BY <2>1, <2>2
<1> HIDE DEF it, Iterators
<1>7. /\ its2 \in Seq(Iterators) /\ Len(its2) = loop
      /\ \A i \in 1 .. loop : its2[i] = IF i = loop THEN it ELSE its[i]
  BY <1>2, <1>5, ExceptSeq
<1>8. Last(its2) = it /\ its2 # <<>> /\ Last(its) = its[loop]
  BY <1>0, <1>2, <1>7, EmptySeq DEF Last
<1> HIDE DEF n, s, its, its2, loop, error
<1>9. \A i \in 1 .. loop : its2[i].view = its[i].view
  BY <1>5, <1>7 DEF error
<1>10. iterators' \in [Threads -> Seq([view : Nat, shown : BOOLEAN])]
  BY <1>1, <1>3, <1>7 DEF Typed, Iterators
<1>11. error \in 1 .. n
  BY <1>1, <1>2 DEF Numbered, n, its, loop, error
<1>12. CASE error \notin ToSet(s)
  <2>1. undefined' = "dangling view" /\ UNCHANGED <<reported, repeated>>
    BY <1>12 DEF Show, ToSet, s, its, loop, error
  <2>2. Typed'
    BY <1>1, <1>3, <1>10, <2>1 DEF Typed
  <2>3. Numbered(t)'
    BY <1>1, <1>3, <1>4, <1>7, <1>9, <2>1 DEF Numbered, s, its, loop
  <2>4. \A u \in Threads \ {t} : Numbered(u)'
    BY <1>1, <1>3, <2>1, NoEntry, SameNumbered DEF IInv, Typed, Same
  <2>5. "nested" \in habits[t]
    BY <1>1, <1>2, <1>8, <1>12 DEF Unnested, s, its, error
  <2> QED
    BY <1>3, <2>1, <2>2, <2>3, <2>4, <2>5 DEF IInv, RaceNeedsFirstCall, UndefinedNeedsNesting
<1>13. CASE error \in ToSet(s)
  <2>1. /\ undefined' = undefined
        /\ reported' = [reported EXCEPT ![t] = reported[t] \cup {error}]
        /\ repeated' = [repeated EXCEPT ![t] = repeated[t] \cup ({error} \cap reported[t])]
    BY <1>13 DEF Show, ToSet, s, its, loop, error
  <2>2. /\ reported'[t] = reported[t] \cup {error}
        /\ repeated'[t] = repeated[t] \cup ({error} \cap reported[t])
    BY <1>1, <2>1 DEF Typed
  <2>3. Typed'
    <3>1. error \in Nat
      BY <1>11
    <3>2. reported' \in [Threads -> SUBSET Nat] /\ repeated' \in [Threads -> SUBSET Nat]
      BY <1>1, <2>1, <3>1 DEF Typed
    <3> QED
      BY <1>1, <1>3, <1>10, <2>1, <3>2 DEF Typed
  <2>4. Numbered(t)'
    <3>1. /\ Len(its2) <= MaxNesting
          /\ \A i \in 1 .. Len(its2) : its2[i].view \in 1 .. n
      BY <1>1, <1>7, <1>9 DEF Numbered, its, loop, n
    <3>2. repeated'[t] \subseteq reported'[t] /\ reported'[t] \subseteq 1 .. n
      BY <1>1, <1>11, <2>2 DEF Numbered, n
    <3> QED
      BY <1>1, <1>3, <1>4, <3>1, <3>2 DEF Numbered, s, n
  <2>5. Calling(t)'
    BY <1>0, <1>1, <1>2, <1>3, <1>4 DEF Calling, Idle, its
  <2>6. Above(t)'
    BY <1>1, <1>3, <1>4, <1>7, <1>9 DEF Above, s, its, loop
  <2>7. Doomed(t)'
    <3>1. s # <<>> => Last(s) \in 1 .. n /\ Last(s) \in ToSet(s) /\ error <= Last(s)
      BY <1>2, <1>13, PopIncreases
    <3>2. s # <<>> => Last(s) = error \/ Last(s) > error
      BY <1>11, <3>1
    <3>3. s # <<>> /\ Last(s) > error => Last(s) \in inLoop[t]
      BY <1>1, <1>2, <3>1 DEF Above, s, its, loop, error
    <3> QED
      BY <1>3, <1>4, <2>2, <3>2, <3>3 DEF Doomed
  <2>8. Kept(t)'
    BY <1>1, <1>3, <1>4, <2>2 DEF Kept, s
  <2>9. Unnested(t)'
    BY <1>1, <1>3, <1>4, <1>5, <1>7, <1>8, <1>13 DEF Unnested, its, s, loop
  <2>10. Once(t)'
    <3> SUFFICES ASSUME habits[t] = {}, inLoop[t] = {}
                 PROVE  /\ repeated'[t] = {} /\ error = Last(s)
                        /\ ToSet(s) \cap reported'[t] \subseteq {error}
      BY <1>3, <1>4, <1>5, <1>6, <1>8 DEF Once
    <3>1. /\ repeated[t] = {} /\ error = Last(s)
          /\ \A e \in ToSet(s) \cap reported[t] : its[loop] = [view |-> e, shown |-> TRUE]
      BY <1>1, <1>2, <1>8 DEF Once, s, its, error
    <3>2. ToSet(s) \cap reported[t] = {}
      <4>1. \A e : [view |-> e, shown |-> TRUE].shown
        OBVIOUS
      <4>2. ~its[loop].shown
        BY <1>0 DEF its, loop
      <4> QED
        BY <3>1, <4>1, <4>2
    <3> QED
      BY <1>13, <2>2, <3>1, <3>2
  <2>11. \A u \in Threads \ {t} : Same(u)
    BY <1>1, <1>3, <2>1, NoEntry DEF Typed, Same
  <2> QED
    BY <1>0, <2>1, <2>3, <2>4, <2>5, <2>6, <2>7, <2>8, <2>9, <2>10, <2>11, ThreadMoves DEF Defined
<1> QED
  BY <1>12, <1>13

(* A loop that is left early has shown its error. *)
LEMMA BreakMoves ==
  ASSUME IInv, NEW t \in Threads, Break(t)
  PROVE  IInv'
<1> DEFINE its == iterators[t]
           its2 == Front(its)
           Iterators == [view : Nat, shown : BOOLEAN]
<1>0. undefined = "none" /\ at[t] = Idle /\ its # <<>> /\ Last(its).shown
  BY DEF Break
<1>1. /\ Typed /\ Numbered(t) /\ Calling(t) /\ Above(t) /\ Doomed(t) /\ Kept(t)
      /\ Unnested(t) /\ Once(t)
  BY <1>0 DEF IInv, Defined
<1>2. /\ iterators' = [iterators EXCEPT ![t] = its2]
      /\ habits' = [habits EXCEPT ![t] = habits[t] \cup {"left"}]
      /\ UNCHANGED <<stacks, at, errors, inLoop, reported, repeated, undefined>>
  BY DEF Break
<1>3. iterators'[t] = its2 /\ habits'[t] = habits[t] \cup {"left"}
  BY <1>1, <1>2 DEF Typed
<1>4. Stack(t)' = Stack(t) /\ (Known(t)' <=> Known(t))
  BY <1>2, NoEntry
<1>5. /\ its2 \in Seq(Iterators) /\ Len(its2) = Len(its) - 1 /\ Len(its) \in Nat \ {0}
      /\ \A i \in 1 .. Len(its) - 1 : its2[i] = its[i]
  <2>1. its \in Seq(Iterators)
    BY <1>1 DEF Typed
  <2> HIDE DEF Iterators
  <2> QED
    BY <1>0, <2>1, FrontLast
<1> HIDE DEF its, its2
<1>6. \A i \in 1 .. Len(its2) : i \in 1 .. Len(its) /\ its2[i] = its[i]
  BY <1>5
<1>7. Typed'
  <2>1. iterators' \in [Threads -> Seq([view : Nat, shown : BOOLEAN])]
    BY <1>1, <1>2, <1>5 DEF Typed
  <2>2. habits' \in [Threads -> SUBSET {"nested", "left"}]
    BY <1>1, <1>2 DEF Typed
  <2> QED
    BY <1>1, <1>2, <2>1, <2>2 DEF Typed
<1>8. Numbered(t)'
  <2>1. Len(its2) <= MaxNesting
    <3>1. Len(its) <= MaxNesting
      BY <1>1 DEF Numbered, its
    <3> QED
      BY <1>5, <3>1, BoundAssumption
  <2> QED
    BY <1>1, <1>2, <1>3, <1>4, <1>6, <2>1 DEF Numbered, its
<1>9. Calling(t)'
  BY <1>0, <1>1, <1>2, <1>3, <1>4 DEF Calling, Idle, its
<1>10. Above(t)'
  BY <1>1, <1>2, <1>3, <1>4, <1>6 DEF Above, its
<1>11. Doomed(t)'
  BY <1>0, <1>1, <1>2, <1>4 DEF Doomed, its
<1>12. Kept(t)'
  BY <1>1, <1>2, <1>4 DEF Kept
<1>13. Unnested(t)'
  <2> SUFFICES ASSUME "nested" \notin habits[t] PROVE Len(its2) <= 1 /\ its2 = <<>>
    BY <1>3 DEF Unnested
  <2>1. Len(its) <= 1
    BY <1>1 DEF Unnested, its
  <2>2. Len(its2) = 0
    BY <1>5, <2>1
  <2>3. its2 # <<>> => Len(its2) \in Nat \ {0}
    <3> HIDE DEF Iterators
    <3> QED
      BY <1>5, EmptySeq
  <2> QED
    BY <2>2, <2>3
<1>14. Once(t)'
  BY <1>3 DEF Once
<1>15. \A u \in Threads \ {t} : Same(u)
  BY <1>1, <1>2, NoEntry DEF Typed, Same
<1> QED
  BY <1>0, <1>2, <1>7, <1>8, <1>9, <1>10, <1>11, <1>12, <1>13, <1>14, <1>15, ThreadMoves DEF Defined

(* Only a nested loop can have emptied the stack under a loop. *)
LEMMA PopEmptyMoves ==
  ASSUME IInv, NEW t \in Threads, PopEmpty(t)
  PROVE  IInv'
<1>1. /\ undefined = "none" /\ at[t] = [call |-> "advance", inserts |-> FALSE]
      /\ stacks[t] = <<>> /\ undefined' = "pop of an empty stack"
      /\ UNCHANGED <<stacks, at, iterators, errors, inLoop, habits, reported, repeated>>
  BY DEF PopEmpty, Inside
<1>2. Calling(t) /\ Unnested(t) /\ iterators[t] # <<>> /\ Known(t)
  <2>1. Calling(t) /\ Unnested(t)
    BY <1>1 DEF IInv, Defined
  <2>2. at[t].call = "advance"
    <3>1. at[t] = [call |-> "advance", inserts |-> FALSE]
      BY <1>1
    <3> QED
      BY <3>1
  <2> QED
    BY <2>1, <2>2 DEF Calling
<1>3. Stack(t) = <<>> /\ ToSet(Stack(t)) = {}
  <2>1. Stack(t) = <<>> /\ Stack(t) \in Seq(1 .. errors[t])
    BY <1>1, <1>2 DEF Stack, IInv, Numbered
  <2>2. Len(Stack(t)) = 0
    BY <2>1, EmptySeq
  <2>3. \A x : x \in ToSet(Stack(t)) <=> \E i \in 1 .. Len(Stack(t)) : Stack(t)[i] = x
    BY <2>1, InSequence
  <2> QED
    BY <2>1, <2>2, <2>3
<1>4. "nested" \in habits[t]
  BY <1>2, <1>3 DEF Unnested
<1>5. Typed' /\ \A u \in Threads : Numbered(u)'
  BY <1>1, NoEntry, SameNumbered DEF IInv, Typed, Same
<1> QED
  BY <1>1, <1>4, <1>5 DEF IInv, RaceNeedsFirstCall, UndefinedNeedsNesting

(* logAll() of a thread that has no error to show. *)
LEMMA LogNothingMoves ==
  ASSUME IInv, NEW t \in Threads, LogNothing(t)
  PROVE  IInv'
<1>1. /\ undefined = "none" /\ at' = [at EXCEPT ![t] = Idle]
      /\ UNCHANGED <<stacks, iterators, errors, inLoop, habits, reported, repeated, undefined>>
  BY DEF LogNothing, Inside, Leave
<1>2. Typed /\ Numbered(t) /\ Defined(t)
  BY <1>1 DEF IInv
<1>3. Typed' /\ at'[t] = Idle
  BY <1>1, <1>2 DEF Typed, Idle
<1>4. \A u \in Threads \ {t} : Same(u)
  BY <1>1, <1>2, NoEntry DEF Typed, Same
<1>5. Numbered(t)' /\ Calling(t)'
  BY <1>1, <1>2, <1>3, NoEntry DEF Numbered, Defined, Calling, Idle
<1>6. Above(t)' /\ Doomed(t)' /\ Kept(t)' /\ Unnested(t)' /\ Once(t)'
  BY <1>1, <1>2, NoEntry DEF Defined, Above, Doomed, Kept, Unnested, Once
<1> QED
  BY <1>1, <1>3, <1>4, <1>5, <1>6, ThreadMoves DEF Defined

(* No thread has pushed an error. *)
LEMMA IInvInit == Init => IInv
<1> SUFFICES ASSUME Init PROVE IInv
  OBVIOUS
<1>1. stacks = <<>> /\ DOMAIN stacks = {} /\ \A t : ~Known(t) /\ Stack(t) = <<>>
  <2>1. DOMAIN <<>> = {}
    BY LenProperties, EmptySeq
  <2> QED
    BY <2>1 DEF Init, Known, Stack
<1>2. \A S : <<>> \in Seq(S) /\ Len(<<>>) = 0
  BY EmptySeq
<1>3. ToSet(<<>>) = {}
  <2>1. <<>> \in Seq({}) /\ ~\E i \in 1 .. Len(<<>>) : TRUE
    BY <1>2
  <2>2. \A x : x \in ToSet(<<>>) <=> \E i \in 1 .. Len(<<>>) : <<>>[i] = x
    BY <2>1, InSequence
  <2> QED
    BY <2>1, <2>2
<1>4. Typed
  BY <1>1, <1>2, BoundAssumption DEF Init, Typed, Idle
<1> SUFFICES ASSUME NEW t \in Threads PROVE Numbered(t) /\ Defined(t)
  BY <1>4 DEF IInv, Init, RaceNeedsFirstCall, UndefinedNeedsNesting
<1>5. Numbered(t)
  <2>1. Stack(t) \in Seq(1 .. errors[t]) /\ Len(Stack(t)) = 0 /\ Increasing(Stack(t))
    <3>1. Stack(t) = <<>>
      BY <1>1
    <3>2. Stack(t) \in Seq(1 .. errors[t]) /\ Len(Stack(t)) = 0
      BY <1>2, <3>1
    <3> QED
      BY <3>2 DEF Increasing
  <2>2. iterators[t] = <<>> /\ Len(iterators[t]) = 0
    <3>1. iterators[t] = <<>>
      BY DEF Init
    <3> QED
      BY <1>2, <3>1
  <2> QED
    BY <2>1, <2>2, BoundAssumption DEF Init, Numbered
<1>6. Calling(t)
  BY DEF Init, Calling, Idle
<1>7. Above(t) /\ Doomed(t) /\ Kept(t) /\ Unnested(t) /\ Once(t)
  BY <1>1, <1>2, <1>3 DEF Init, Above, Doomed, Kept, Unnested, Once
<1> QED
  BY <1>5, <1>6, <1>7 DEF Defined

(* Every step preserves IInv: one step below for each action. *)
LEMMA IInvNext == IInv /\ [Next]_vars => IInv'
<1> SUFFICES ASSUME IInv, [Next]_vars PROVE IInv'
  OBVIOUS
<1>1. ASSUME NEW t \in Threads, Push(t) PROVE IInv'
  BY <1>1, Enters DEF Push
<1>2. ASSUME NEW t \in Threads, PushInserting(t) PROVE IInv'
  <2>1. undefined = "none" /\ at[t].call = "push" /\ ~Known(t)
    BY <1>2 DEF PushInserting, Inside
  <2>2. errors[t] = 0 /\ errors[t] < MaxErrors
    BY <2>1, BoundAssumption DEF IInv, Typed, Defined, Calling
  <2> QED
    BY <1>2, <2>2, Enters DEF PushInserting
<1>3. ASSUME NEW t \in Threads, PushFound(t) \/ PushInserted(t) PROVE IInv'
  <2>1. undefined = "none" /\ at[t].call = "push" /\ PushError(t)
    BY <1>3 DEF PushFound, PushInserted, Inside
  <2> QED
    BY <2>1, PushErrorMoves
<1>4. ASSUME NEW t \in Threads, LogAll(t) PROVE IInv'
  BY <1>4, Enters DEF LogAll
<1>5. ASSUME NEW t \in Threads, LogLoop(t) PROVE IInv'
  <2>1. undefined = "none" /\ at[t].call = "log"
    BY <1>5 DEF LogLoop, Inside
  <2>2. Len(iterators[t]) < MaxNesting
    BY <2>1 DEF IInv, Defined, Calling
  <2> QED
    BY <1>5, <2>2, Enters DEF LogLoop
<1>6. ASSUME NEW t \in Threads, Iterate(t) PROVE IInv'
  <2>1. undefined = "none"
    BY <1>6 DEF Iterate, Enter
  <2>2. ~Known(t) => errors[t] = 0
    BY <2>1, BoundAssumption DEF IInv, Typed, Defined, Calling
  <2>3. PICK inserts \in BOOLEAN : inserts = ~Known(t)
    OBVIOUS
  <2>4. Enter(t, "begin", inserts)
    BY <1>6, <2>3 DEF Iterate, Enter
  <2> QED
    BY <1>6, <2>2, <2>3, <2>4, Enters DEF Iterate
<1>7. ASSUME NEW t \in Threads, Advance(t) PROVE IInv'
  BY <1>7, Enters DEF Advance
<1>8. CASE UNCHANGED vars
  <2>1. Typed' /\ \A u \in Threads : Same(u)
    BY <1>8, NoEntry DEF vars, IInv, Typed, Same
  <2>2. \A u \in Threads : Numbered(u)' /\ (undefined = "none" => Defined(u)')
    BY <2>1, SameNumbered, SameDefined DEF IInv
  <2> QED
    BY <1>8, <2>1, <2>2 DEF vars, IInv, RaceNeedsFirstCall, UndefinedNeedsNesting
<1> QED
  BY <1>1, <1>2, <1>3, <1>4, <1>5, <1>6, <1>7, <1>8, LogNothingMoves, BeginMoves, ShowMoves,
     NextErrorMoves, PopEmptyMoves, BreakMoves DEF Next, Step, Handle, Ended

(* Every reachable state satisfies the inductive invariant. *)
THEOREM SpecIInv == Spec => []IInv
BY IInvInit, IInvNext, PTL DEF Spec

-----------------------------------------------------------------------------
(* Stacks hold numbered errors, the newest on top, and loops only views of   *)
(* errors that were pushed.                                                  *)
THEOREM SpecTypeOK == Spec => []TypeOK
<1>1. ASSUME IInv PROVE TypeOK
  <2>1. Typed /\ \A t \in Threads : Numbered(t)
    BY <1>1 DEF IInv
  <2>2. ASSUME NEW t \in DOMAIN stacks
        PROVE  /\ stacks[t] \in Seq(1 .. errors[t])
               /\ \A i, j \in DOMAIN stacks[t] : i < j => stacks[t][i] < stacks[t][j]
    <3>1. t \in Threads /\ Stack(t) = stacks[t]
      BY <2>1 DEF Typed, Stack, Known
    <3>2. stacks[t] \in Seq(1 .. errors[t]) /\ Increasing(stacks[t])
      BY <2>1, <3>1 DEF Numbered
    <3> QED
      BY <3>2, LenProperties DEF Increasing
  <2>3. ASSUME NEW t \in Threads
        PROVE  iterators[t] \in Seq([view : 1 .. errors[t], shown : BOOLEAN])
    <3> DEFINE Iterators == [view : Nat, shown : BOOLEAN]
               Views == [view : 1 .. errors[t], shown : BOOLEAN]
    <3>1. /\ iterators[t] \in Seq(Iterators)
          /\ \A i \in 1 .. Len(iterators[t]) : iterators[t][i].view \in 1 .. errors[t]
      BY <2>1 DEF Typed, Numbered
    <3>2. /\ Len(iterators[t]) \in Nat
          /\ \A i \in 1 .. Len(iterators[t]) : iterators[t][i] \in Iterators
          /\ iterators[t] = [i \in 1 .. Len(iterators[t]) |-> iterators[t][i]]
      <4> HIDE DEF Iterators
      <4> QED
        BY <3>1, LenProperties, ElementOfSeq
    <3>3. \A i \in 1 .. Len(iterators[t]) : iterators[t][i] \in Views
      BY <3>1, <3>2
    <3> HIDE DEF Views
    <3>4. iterators[t] \in [1 .. Len(iterators[t]) -> Views]
      BY <3>2, <3>3
    <3>5. iterators[t] \in Seq(Views)
      BY <3>2, <3>4, SeqDef
    <3> QED
      BY <3>5 DEF Views
  <2> QED
    BY <2>1, <2>2, <2>3 DEF TypeOK, Typed, Numbered
<1> QED
  BY <1>1, SpecIInv, PTL

(* Threads race in the map only while one of them, without an error so far,  *)
(* makes its entry.                                                          *)
THEOREM SpecRaceNeedsFirstCall == Spec => []RaceNeedsFirstCall
<1>1. IInv => RaceNeedsFirstCall
  BY DEF IInv
<1> QED
  BY <1>1, SpecIInv, PTL

(* Without nested loops no view dangles and no empty stack is popped.        *)
THEOREM SpecUndefinedNeedsNesting == Spec => []UndefinedNeedsNesting
<1>1. IInv => UndefinedNeedsNesting
  BY DEF IInv
<1> QED
  BY <1>1, SpecIInv, PTL

(* Whatever loops and early exits there are, only an error that was pushed   *)
(* in the body of a loop is dropped unseen.                                  *)
THEOREM SpecLostOnlyInLoop == Spec => []LostOnlyInLoop
<1>1. IInv => LostOnlyInLoop
  BY DEF IInv, Defined, Kept, LostOnlyInLoop
<1> QED
  BY <1>1, SpecIInv, PTL

(* Who only shows errors, to the end of its loops, is shown each error once. *)
THEOREM SpecShownOnce == Spec => []ShownOnce
<1>1. IInv => ShownOnce
  BY DEF IInv, Defined, Once, ShownOnce
<1> QED
  BY <1>1, SpecIInv, PTL

-----------------------------------------------------------------------------
(* The tuples of the indices are put together from the last one on. *)
LEMMA FinderUnfolds ==
  ASSUME NEW e, NEW n \in Nat, DOMAIN Indices(e) = 1 .. n,
         \A k \in 1 .. n : Value(e, Indices(e)[k]) \in Int
  PROVE  \E f : /\ Finder(e) = f[1] /\ f[n + 1] = <<>>
                /\ \A k \in 1 .. n : f[k] = AsTuple(e, Indices(e)[k]) \o f[k + 1]
<1> DEFINE P == SUBSET (1 .. n)
           tuple == [k \in 1 .. n |-> AsTuple(e, Indices(e)[k])]
           step == [p \in (1 .. n) \X Seq(Int) |-> tuple[p[1]] \o p[2]]
           M == CHOOSE g : g = [s \in SUBSET DOMAIN Indices(e) |->
                  IF s = {} THEN <<>>
                  ELSE LET x == Min(s) IN AsTuple(e, Indices(e)[x]) \o g[s \ {x}]]
           f == [k \in 1 .. n + 1 |-> M[k .. n]]
<1>1. Finder(e) = M[1 .. n]
  BY DEF Finder, FoldRight, MapThenFoldSet
<1>2. \A k \in 1 .. n : tuple[k] \in Seq(Int)
  BY DEF AsTuple
<1>3. step \in [(1 .. n) \X Seq(Int) -> Seq(Int)]
  <2> HIDE DEF tuple
  <2>1. \A p \in (1 .. n) \X Seq(Int) : tuple[p[1]] \o p[2] \in Seq(Int)
    BY <1>2
  <2> QED
    BY <2>1
<1>4. PICK g \in [P -> Seq(Int)] : FoldsBy(g, n, <<>>, step)
  <2>1. <<>> \in Seq(Int)
    OBVIOUS
  <2> HIDE DEF step
  <2> QED
    BY <1>3, <2>1, FoldExists
<1>5. \A s \in P : s # {} => Min(s) \in 1 .. n
  <2>1. \A s \in P : s \in SUBSET Nat
    OBVIOUS
  <2> QED
    BY <2>1, LeastIsIn
<1>6. ASSUME NEW s \in P, s # {}
      PROVE  step[<<Min(s), g[s \ {Min(s)}]>>] = AsTuple(e, Indices(e)[Min(s)]) \o g[s \ {Min(s)}]
  <2>1. <<Min(s), g[s \ {Min(s)}]>> \in (1 .. n) \X Seq(Int)
    BY <1>5, <1>6
  <2> HIDE DEF P, M, f
  <2> QED
    BY <1>5, <1>6, <2>1
<1>7. g = [s \in P |-> IF s = {} THEN <<>>
                       ELSE LET x == Min(s) IN AsTuple(e, Indices(e)[x]) \o g[s \ {x}]]
  <2> HIDE DEF step
  <2> QED
    BY <1>4, <1>6 DEF FoldsBy
<1>8. M = [s \in P |-> IF s = {} THEN <<>>
                       ELSE LET x == Min(s) IN AsTuple(e, Indices(e)[x]) \o M[s \ {x}]]
  BY <1>7
<1> HIDE DEF M
<1>9. f[n + 1] = <<>>
  <2>1. n + 1 .. n = {} /\ {} \in P /\ n + 1 \in 1 .. n + 1
    OBVIOUS
  <2>2. M[{}] = <<>>
    BY <1>8, <2>1
  <2> QED
    BY <2>1, <2>2
<1>10. ASSUME NEW k \in 1 .. n PROVE f[k] = AsTuple(e, Indices(e)[k]) \o f[k + 1]
  <2>1. k .. n \in P /\ k \in 1 .. n + 1 /\ k + 1 \in 1 .. n + 1
    OBVIOUS
  <2>2. Min(k .. n) = k /\ (k .. n) \ {k} = k + 1 .. n /\ k .. n # {}
    BY SuffixIs
  <2>3. M[k .. n] = AsTuple(e, Indices(e)[k]) \o M[k + 1 .. n]
    <3> HIDE DEF P
    <3> QED
      BY <1>8, <2>1, <2>2
  <2> QED
    BY <2>1, <2>3
<1>11. f[1] = Finder(e)
  BY <1>1
<1> HIDE DEF f
<1> QED
  BY <1>9, <1>10, <1>11

(* The entries of the map are inserted from the last value on. *)
LEMMA StringMapUnfolds ==
  ASSUME NEW e, NEW n \in Nat, Finder(e) \in Seq(Int), n = Len(Finder(e))
  PROVE  \E f : /\ StringMap(e) = f[1] /\ f[n + 1] = <<>>
                /\ \A k \in 1 .. n : f[k] = Insert(f[k + 1], Finder(e)[k])
<1> DEFINE P == SUBSET (1 .. n)
           step == [p \in (1 .. n) \X Seq(Int) |-> Insert(p[2], Finder(e)[p[1]])]
           M == CHOOSE g : g = [s \in SUBSET DOMAIN Finder(e) |->
                  IF s = {} THEN <<>>
                  ELSE LET x == Min(s) IN Insert(g[s \ {x}], Finder(e)[x])]
           f == [k \in 1 .. n + 1 |-> M[k .. n]]
<1>0. DOMAIN Finder(e) = 1 .. n /\ \A k \in 1 .. n : Finder(e)[k] \in Int
  OBVIOUS
<1>1. StringMap(e) = M[1 .. n]
  BY <1>0 DEF StringMap, FoldRight, MapThenFoldSet
<1>2. \A map \in Seq(Int), key \in Int : Insert(map, key) \in Seq(Int)
  BY DEF Insert
<1>3. step \in [(1 .. n) \X Seq(Int) -> Seq(Int)]
  BY <1>0, <1>2
<1>4. PICK g \in [P -> Seq(Int)] : FoldsBy(g, n, <<>>, step)
  <2>1. <<>> \in Seq(Int)
    OBVIOUS
  <2> HIDE DEF step
  <2> QED
    BY <1>3, <2>1, FoldExists
<1>5. \A s \in P : s # {} => Min(s) \in 1 .. n
  <2>1. \A s \in P : s \in SUBSET Nat
    OBVIOUS
  <2> QED
    BY <2>1, LeastIsIn
<1>6. ASSUME NEW s \in P, s # {}
      PROVE  step[<<Min(s), g[s \ {Min(s)}]>>] = Insert(g[s \ {Min(s)}], Finder(e)[Min(s)])
  <2>1. <<Min(s), g[s \ {Min(s)}]>> \in (1 .. n) \X Seq(Int)
    BY <1>5, <1>6
  <2> HIDE DEF P, M, f
  <2> QED
    BY <1>5, <1>6, <2>1
<1>7. g = [s \in P |-> IF s = {} THEN <<>>
                       ELSE LET x == Min(s) IN Insert(g[s \ {x}], Finder(e)[x])]
  <2> HIDE DEF step
  <2> QED
    BY <1>4, <1>6 DEF FoldsBy
<1>8. M = [s \in P |-> IF s = {} THEN <<>>
                       ELSE LET x == Min(s) IN Insert(M[s \ {x}], Finder(e)[x])]
  BY <1>0, <1>7
<1> HIDE DEF M
<1>9. f[n + 1] = <<>>
  <2>1. n + 1 .. n = {} /\ {} \in P /\ n + 1 \in 1 .. n + 1
    OBVIOUS
  <2>2. M[{}] = <<>>
    BY <1>8, <2>1
  <2> QED
    BY <2>1, <2>2
<1>10. ASSUME NEW k \in 1 .. n PROVE f[k] = Insert(f[k + 1], Finder(e)[k])
  <2>1. k .. n \in P /\ k \in 1 .. n + 1 /\ k + 1 \in 1 .. n + 1
    OBVIOUS
  <2>2. Min(k .. n) = k /\ (k .. n) \ {k} = k + 1 .. n /\ k .. n # {}
    BY SuffixIs
  <2>3. M[k .. n] = Insert(M[k + 1 .. n], Finder(e)[k])
    <3> HIDE DEF P
    <3> QED
      BY <1>8, <2>1, <2>2
  <2> QED
    BY <2>1, <2>3
<1>11. f[1] = StringMap(e)
  BY <1>1
<1> HIDE DEF f
<1> QED
  BY <1>9, <1>10, <1>11

(* The values found are the valid ones of the indices, each once if no two  *)
(* indices have the same.                                                   *)
LEMMA FinderIs ==
  ASSUME NEW e, NEW n \in Nat, DOMAIN Indices(e) = 1 .. n,
         NEW val, \A k \in 1 .. n : val[k] = Value(e, Indices(e)[k]) /\ val[k] \in Int
  PROVE  /\ Finder(e) \in Seq(Int)
         /\ \A x : IsIn(x, Finder(e)) <=> IsValid(e, x) /\ \E k \in 1 .. n : x = val[k]
         /\ (\A j, k \in 1 .. n : val[j] = val[k] => j = k) => Distinct(Finder(e))
<1>1. PICK f : /\ Finder(e) = f[1] /\ f[n + 1] = <<>>
               /\ \A k \in 1 .. n : f[k] = AsTuple(e, Indices(e)[k]) \o f[k + 1]
  <2>1. \A k \in 1 .. n : Value(e, Indices(e)[k]) \in Int
    OBVIOUS
  <2> QED
    BY <2>1, FinderUnfolds, ZenonT(30)
<1> DEFINE Good(k) ==
             /\ f[k] \in Seq(Int)
             /\ \A x : IsIn(x, f[k]) <=> IsValid(e, x) /\ \E l \in k .. n : x = val[l]
             /\ (\A i, j \in 1 .. n : val[i] = val[j] => i = j) => Distinct(f[k])
           Fails == {k \in 1 .. n + 1 : ~Good(k)}
<1>2. Good(n + 1)
  <2>1. <<>> \in Seq(Int) /\ Len(<<>>) = 0 /\ n + 1 .. n = {}
    OBVIOUS
  <2> QED
    BY <1>1, <2>1 DEF IsIn, Distinct
<1>3. ASSUME NEW k \in 1 .. n, Good(k + 1) PROVE Good(k)
  <2>1. /\ k .. n = {k} \cup (k + 1 .. n) /\ k \notin k + 1 .. n
        /\ \A l \in k .. n : l \in 1 .. n
    OBVIOUS
  <2>2. val[k] \in Int /\ val[k] = Value(e, Indices(e)[k])
    OBVIOUS
  <2>3. f[k] = AsTuple(e, Indices(e)[k]) \o f[k + 1]
    BY <1>1
  <2>4. CASE IsValid(e, val[k])
    <3>1. f[k] = <<val[k]>> \o f[k + 1]
      BY <2>2, <2>3, <2>4 DEF AsTuple
    <3>2. /\ f[k] \in Seq(Int)
          /\ \A x : IsIn(x, f[k]) <=> IsIn(x, f[k + 1]) \/ x = val[k]
          /\ Distinct(f[k + 1]) /\ ~IsIn(val[k], f[k + 1]) => Distinct(f[k])
      BY <1>3, <2>2, <3>1, PrependIsIn
    <3>3. \A x : IsIn(x, f[k]) <=> IsValid(e, x) /\ \E l \in k .. n : x = val[l]
      BY <1>3, <2>1, <2>4, <3>2
    <3>4. ASSUME \A i, j \in 1 .. n : val[i] = val[j] => i = j PROVE Distinct(f[k])
      <4>1. ~IsIn(val[k], f[k + 1])
        BY <1>3, <2>1, <3>4
      <4> QED
        BY <1>3, <3>2, <3>4, <4>1
    <3> QED
      BY <3>2, <3>3, <3>4
  <2>5. CASE ~IsValid(e, val[k])
    <3>1. f[k] = <<>> \o f[k + 1]
      BY <2>2, <2>3, <2>5 DEF AsTuple
    <3>2. f[k] = f[k + 1]
      BY <1>3, <3>1
    <3>3. \A x : IsIn(x, f[k]) <=> IsValid(e, x) /\ \E l \in k .. n : x = val[l]
      BY <1>3, <2>1, <2>5, <3>2
    <3> QED
      BY <1>3, <3>2, <3>3
  <2> QED
    BY <2>4, <2>5
<1>4. Fails = {}
  <2> HIDE DEF Good
  <2> SUFFICES ASSUME Fails # {} PROVE FALSE
    OBVIOUS
  <2>1. PICK k \in Fails : \A y \in Fails : k >= y
    <3>1. Fails \in SUBSET (0 .. n + 1) /\ n + 1 \in Nat
      OBVIOUS
    <3> HIDE DEF Fails
    <3> QED
      BY <3>1, GreatestIsIn
  <2>2. k \in 1 .. n + 1 /\ ~Good(k)
    OBVIOUS
  <2>3. k \in 1 .. n /\ k + 1 \in 1 .. n + 1 /\ ~(k >= k + 1)
    BY <1>2, <2>2
  <2>4. Good(k + 1)
    BY <2>1, <2>3
  <2> QED
    BY <1>3, <2>2, <2>3, <2>4
<1>5. Good(1)
  <2> HIDE DEF Good
  <2>1. 1 \in 1 .. n + 1
    OBVIOUS
  <2> QED
    BY <1>4, <2>1
<1> QED
  BY <1>1, <1>5

(* The map of the names has the values that were found. *)
LEMMA StringMapIs ==
  ASSUME NEW e, Finder(e) \in Seq(Int)
  PROVE  \A x : Contains(StringMap(e), x) <=> IsIn(x, Finder(e))
<1> DEFINE n == Len(Finder(e))
<1>0. n \in Nat
  OBVIOUS
<1> HIDE DEF n
<1>1. PICK f : /\ StringMap(e) = f[1] /\ f[n + 1] = <<>>
               /\ \A k \in 1 .. n : f[k] = Insert(f[k + 1], Finder(e)[k])
  BY <1>0, StringMapUnfolds DEF n
<1> DEFINE Good(k) ==
             /\ f[k] \in Seq(Int)
             /\ \A x : IsIn(x, f[k]) <=> \E l \in k .. n : x = Finder(e)[l]
           Fails == {k \in 1 .. n + 1 : ~Good(k)}
<1>2. Good(n + 1)
  <2>1. <<>> \in Seq(Int) /\ Len(<<>>) = 0 /\ n + 1 .. n = {}
    BY <1>0
  <2> QED
    BY <1>1, <2>1 DEF IsIn
<1>3. ASSUME NEW k \in 1 .. n, Good(k + 1) PROVE Good(k)
  <2>1. k .. n = {k} \cup (k + 1 .. n)
    BY <1>0
  <2>2. Finder(e)[k] \in Int
    BY DEF n
  <2>3. f[k] = Insert(f[k + 1], Finder(e)[k])
    BY <1>1
  <2>4. CASE IsIn(Finder(e)[k], f[k + 1])
    <3>1. f[k] = f[k + 1]
      BY <2>3, <2>4 DEF Insert, Contains, IsIn
    <3> QED
      BY <1>3, <2>1, <2>4, <3>1
  <2>5. CASE ~IsIn(Finder(e)[k], f[k + 1])
    <3>1. f[k] = Append(f[k + 1], Finder(e)[k])
      BY <2>3, <2>5 DEF Insert, Contains, IsIn
    <3>2. /\ f[k] \in Seq(Int)
          /\ \A x : IsIn(x, f[k]) <=> IsIn(x, f[k + 1]) \/ x = Finder(e)[k]
      BY <1>3, <2>2, <3>1, AppendIsIn
    <3> QED
      BY <1>3, <2>1, <3>2
  <2> QED
    BY <2>4, <2>5
<1>4. Fails = {}
  <2> HIDE DEF Good
  <2> SUFFICES ASSUME Fails # {} PROVE FALSE
    OBVIOUS
  <2>1. PICK k \in Fails : \A y \in Fails : k >= y
    <3>1. Fails \in SUBSET (0 .. n + 1) /\ n + 1 \in Nat
      BY <1>0
    <3> HIDE DEF Fails
    <3> QED
      BY <3>1, GreatestIsIn
  <2>2. k \in 1 .. n + 1 /\ ~Good(k)
    OBVIOUS
  <2>3. k \in 1 .. n /\ k + 1 \in 1 .. n + 1 /\ ~(k >= k + 1)
    BY <1>0, <1>2, <2>2
  <2>4. Good(k + 1)
    BY <2>1, <2>3
  <2> QED
    BY <1>3, <2>2, <2>3, <2>4
<1>5. Good(1)
  <2> HIDE DEF Good
  <2>1. 1 \in 1 .. n + 1
    BY <1>0
  <2> QED
    BY <1>4, <2>1
<1> QED
  BY <1>1, <1>5 DEF IsIn, Contains, n

(* The type has m values from low on, and stores of a number the congruent  *)
(* one.                                                                     *)
Stores(type, m, low) ==
  /\ m = 2 ^ type.width /\ Stored!Values(type) = low .. low + m - 1
  /\ 0 \in Stored!Values(type)
  /\ \A n \in Int :
       /\ Stored!Narrowed(n, type) \in low .. low + m - 1
       /\ \E q \in Int : Stored!Narrowed(n, type) = n - m * q
       /\ \A q \in Int, v \in low .. low + m - 1 :
            v = n - m * q => Stored!Narrowed(n, type) = v

(* What is stored of a number: the one value of the type that is congruent. *)
LEMMA StoredIs ==
  ASSUME NEW e, e.width \in Nat \ {0}, e.signed \in BOOLEAN
  PROVE  \E m \in Nat \ {0}, low \in Int : Stores(e, m, low)
<1>1. e.width \in Nat \ {0} /\ e.signed \in BOOLEAN
  OBVIOUS
<1>2. e.width - 1 \in Nat /\ (e.width - 1) + 1 = e.width
  BY <1>1
<1>3. PICK h \in Nat \ {0} : h = 2 ^ (e.width - 1) /\ 2 ^ e.width = 2 * h
  BY <1>2, PowerOfTwo
<1>4. PICK m \in Nat \ {0} : m = 2 ^ e.width /\ m = 2 * h
  BY <1>3
<1> DEFINE low == IF e.signed THEN -h ELSE 0
<1>5. low \in Int /\ Stored!Values(e) = low .. low + m - 1 /\ 0 \in Stored!Values(e)
  <2>1. CASE e.signed
    <3>1. Stored!Values(e) = -h .. h - 1 /\ low = -h
      BY <1>3, <2>1 DEF Stored!Values
    <3>2. h - 1 = -h + m - 1 /\ 0 \in -h .. h - 1
      BY <1>4
    <3> QED
      BY <3>1, <3>2
  <2>2. CASE ~e.signed
    <3>1. Stored!Values(e) = 0 .. m - 1 /\ low = 0
      BY <1>4, <2>2 DEF Stored!Values
    <3>2. m - 1 = 0 + m - 1 /\ 0 \in 0 .. m - 1
      OBVIOUS
    <3> QED
      BY <3>1, <3>2
  <2> QED
    BY <2>1, <2>2
<1>6. \A n : Stored!Narrowed(n, e) = ((n - low) % m) + low
  BY <1>3, <1>4 DEF Stored!Narrowed
<1> HIDE DEF low
<1>7. ASSUME NEW n \in Int
      PROVE  /\ Stored!Narrowed(n, e) \in low .. low + m - 1
             /\ \E q \in Int : Stored!Narrowed(n, e) = n - m * q
             /\ \A q \in Int, v \in low .. low + m - 1 :
                  v = n - m * q => Stored!Narrowed(n, e) = v
  <2>1. LET r == ((n - low) % m) + low
        IN /\ r \in low .. low + m - 1
           /\ \E q \in Int : r = n - m * q
           /\ \A q \in Int, v \in low .. low + m - 1 : v = n - m * q => r = v
    BY <1>5, CongruentIs
  <2> QED
    BY <1>6, <2>1, Zenon
<1>8. Stores(e, m, low)
  BY <1>4, <1>5, <1>7 DEF Stores
<1> QED
  BY <1>5, <1>8

(* The indices: one for each number from the first to the last, which it is *)
(* congruent to.                                                            *)
LEMMA IndicesAre ==
  ASSUME NEW e \in Enums
  PROVE  \E m \in Nat \ {0} :
           /\ m = 2 ^ SizeWidth /\ e.max - e.start + 1 \in Nat
           /\ DOMAIN Indices(e) = 1 .. e.max - e.start + 1
           /\ \A k \in 1 .. e.max - e.start + 1 :
                /\ Indices(e)[k] \in 0 .. m - 1
                /\ \E q \in Int : Indices(e)[k] = e.start + k - 1 - m * q
                /\ e.flag => Indices(e)[k] = e.start + k - 1
<1>1. /\ SizeWidth \in Nat /\ e.start \in Int /\ e.max \in Int
      /\ 0 <= e.max - e.start /\ e.max - e.start < 2 ^ SizeWidth
      /\ e.flag => 0 <= e.start /\ e.max < 2 ^ SizeWidth
  BY EnumsAssumption
<1>2. PICK m \in Nat \ {0} : m = 2 ^ SizeWidth
  BY <1>1, PowerOfTwo
<1>3. PICK a \in Int, b \in Int :
         a = e.start /\ b = e.max /\ 0 <= b - a /\ b - a < m /\ (e.flag => 0 <= a /\ b < m)
  BY <1>1, <1>2
<1>4. PICK s \in 0 .. m - 1, p \in Int : s = StartIndex(e) /\ a = m * p + s
  <2>1. a % m \in 0 .. m - 1 /\ \E q \in Int : a = m * q + (a % m)
    BY RemainderIs
  <2> QED
    BY <1>2, <1>3, <2>1 DEF StartIndex
<1>5. (b - s) % m = b - a
  <2>1. PICK x \in Int : x = m * p
    OBVIOUS
  <2>2. b - s \in Int /\ b - a \in 0 .. m - 1 /\ b - s = x + (b - a)
    BY <1>3, <1>4, <2>1
  <2>3. PICK d \in Int : d = b - s
    OBVIOUS
  <2>4. d = m * p + (b - a)
    BY <2>1, <2>2, <2>3
  <2>5. d % m = b - a
    BY <2>2, <2>4, RemainderIs
  <2> QED
    BY <2>3, <2>5
<1>6. Indices(e) = [k \in 1 .. b - a + 1 |-> (s + k - 1) % m]
  BY <1>2, <1>3, <1>4, <1>5 DEF Indices
<1>7. ASSUME NEW k \in 1 .. b - a + 1
      PROVE  /\ Indices(e)[k] \in 0 .. m - 1
             /\ \E q \in Int : Indices(e)[k] = a + k - 1 - m * q
             /\ e.flag => Indices(e)[k] = a + k - 1
  <2>1. PICK x \in Int : x = s + k - 1
    OBVIOUS
  <2>2. /\ x % m \in 0 .. m - 1
        /\ \E q \in Int : x = m * q + (x % m)
        /\ \A q \in Int, r \in 0 .. m - 1 : x = m * q + r => x % m = r
    BY RemainderIs
  <2>3. PICK r \in 0 .. m - 1 : r = x % m
    BY <2>2
  <2>4. Indices(e)[k] = r
    BY <1>6, <2>1, <2>3
  <2>5. PICK q \in Int : x = m * q + r
    BY <2>2, <2>3
  <2>6. PICK y \in Int, z \in Int : y = m * p /\ z = m * q /\ a = y + s /\ x = z + r
    BY <1>4, <2>5
  <2>7. r = a + k - 1 - m * (p + q)
    <3>1. m * (p + q) = y + z
      BY <2>6
    <3>2. r = a + k - 1 - (y + z)
      BY <2>1, <2>6
    <3> QED
      BY <3>1, <3>2
  <2>8. ASSUME e.flag PROVE r = a + k - 1
    <3>1. a + k - 1 \in 0 .. m - 1
      BY <1>3, <2>8
    <3>2. PICK w \in Int, v \in Int : w = -p /\ v = m * w /\ v = -y
      BY <2>6
    <3>3. x = v + (a + k - 1)
      BY <2>1, <2>6, <3>2
    <3>4. x = m * w + (a + k - 1)
      BY <3>2, <3>3
    <3>5. x % m = a + k - 1
      BY <2>2, <3>1, <3>4
    <3> QED
      BY <2>3, <3>5
  <2> QED
    BY <2>4, <2>7, <2>8
<1>8. e.max - e.start + 1 = b - a + 1 /\ b - a + 1 \in Nat
  BY <1>3
<1>9. DOMAIN Indices(e) = 1 .. e.max - e.start + 1
  BY <1>6, <1>8
<1> QED
  BY <1>2, <1>3, <1>7, <1>8, <1>9

Scan(e) == [k \in 1 .. e.max - e.start + 1 |-> Value(e, Indices(e)[k])]

(* The scan of an enum: it comes by each value that a reader expects, and,  *)
(* when the type holds the range, by no other value and by none twice.      *)
ScansWhole(e) ==
  /\ \A k \in DOMAIN Scan(e) : Scan(e)[k] \in Stored!Values(e) /\ Scan(e)[k] \in Int
  /\ \A v \in Scanned(e) : \E k \in DOMAIN Scan(e) : v = Scan(e)[k]
  /\ Fits(e) => /\ \A k \in DOMAIN Scan(e) : Scan(e)[k] \in Scanned(e)
                /\ \A j, k \in DOMAIN Scan(e) : Scan(e)[j] = Scan(e)[k] => j = k

(* An index and the number it stands for are congruent modulo the larger    *)
(* power of two, and so modulo that of the type.                            *)
LEMMA ScanOfNumbers ==
  ASSUME NEW e \in Enums, ~e.flag
  PROVE  ScansWhole(e)
<1>1. /\ SizeWidth \in Nat /\ e.width \in Nat \ {0} /\ e.width <= SizeWidth
      /\ e.signed \in BOOLEAN /\ e.start \in Int /\ e.max \in Int
  BY EnumsAssumption
<1>2. PICK a \in Int, b \in Int : a = e.start /\ b = e.max
  BY <1>1
<1>0. PICK m \in Nat \ {0}, low \in Int : Stores(e, m, low)
  BY <1>1, StoredIs
<1>3. /\ m = 2 ^ e.width /\ Stored!Values(e) = low .. low + m - 1
      /\ 0 \in Stored!Values(e)
      /\ \A n \in Int :
           /\ Stored!Narrowed(n, e) \in low .. low + m - 1
           /\ \E q \in Int : Stored!Narrowed(n, e) = n - m * q
           /\ \A q \in Int, v \in low .. low + m - 1 :
                v = n - m * q => Stored!Narrowed(n, e) = v
  BY <1>0 DEF Stores
<1>4. PICK M \in Nat \ {0} :
           /\ M = 2 ^ SizeWidth
           /\ \A k \in 1 .. b - a + 1 :
                /\ Indices(e)[k] \in 0 .. M - 1
                /\ \E q \in Int : Indices(e)[k] = a + k - 1 - M * q
  <2>1. PICK M \in Nat \ {0} :
           /\ M = 2 ^ SizeWidth /\ e.max - e.start + 1 \in Nat
           /\ DOMAIN Indices(e) = 1 .. e.max - e.start + 1
           /\ \A k \in 1 .. e.max - e.start + 1 :
                /\ Indices(e)[k] \in 0 .. M - 1
                /\ \E q \in Int : Indices(e)[k] = e.start + k - 1 - M * q
                /\ e.flag => Indices(e)[k] = e.start + k - 1
    BY IndicesAre
  <2> QED
    BY <1>2, <2>1
<1>5. PICK p \in Nat \ {0} : M = m * p
  <2>1. \E p \in Nat \ {0} : 2 ^ SizeWidth = 2 ^ e.width * p
    BY <1>1, PowerDivides
  <2>2. M = 2 ^ SizeWidth /\ m = 2 ^ e.width
    BY <1>3, <1>4
  <2> QED
    BY <2>1, <2>2
<1>6. Scan(e) = [k \in 1 .. b - a + 1 |-> Stored!Narrowed(Indices(e)[k], e)]
  BY <1>2 DEF Scan, Value
<1>7. ASSUME NEW k \in 1 .. b - a + 1
      PROVE  /\ Scan(e)[k] \in low .. low + m - 1
             /\ a + k - 1 \in low .. low + m - 1 => Scan(e)[k] = a + k - 1
  <2>1. PICK c \in Int : c = a + k - 1
    OBVIOUS
  <2>2. PICK x \in Int, q \in Int : x = Indices(e)[k] /\ x = c - M * q
    BY <1>4, <2>1
  <2>3. PICK r \in low .. low + m - 1 : r = Stored!Narrowed(x, e)
    BY <1>3
  <2>4. PICK d \in Int : r = x - m * d
    BY <1>3, <2>3
  <2>5. r = c - m * (p * q + d)
    <3>1. PICK y \in Int, z \in Int : y = M * q /\ z = m * d
      OBVIOUS
    <3>2. y = m * (p * q)
      BY <1>5, <3>1
    <3>3. PICK w \in Int : w = p * q
      OBVIOUS
    <3>4. m * (w + d) = y + z
      BY <3>1, <3>2, <3>3
    <3>5. r = c - (y + z)
      BY <2>2, <2>4, <3>1
    <3> QED
      BY <3>3, <3>4, <3>5
  <2>6. PICK w \in Int : w = p * q + d
    OBVIOUS
  <2>7. Stored!Narrowed(c, e) = r
    <3>1. r = c - m * w
      BY <2>5, <2>6
    <3> QED
      BY <1>3, <3>1
  <2>8. c \in low .. low + m - 1 => r = c
    <3>1. c = c - m * 0
      OBVIOUS
    <3> QED
      BY <1>3, <2>7, <3>1
  <2>9. Scan(e)[k] = r
    BY <1>6, <2>2, <2>3
  <2> QED
    BY <2>1, <2>8, <2>9
<1>8. DOMAIN Scan(e) = 1 .. b - a + 1 /\ Scanned(e) = (a .. b) \cap (low .. low + m - 1)
  BY <1>2, <1>3, <1>6 DEF Scanned
<1>9. ASSUME NEW v \in (a .. b) \cap (low .. low + m - 1)
      PROVE  \E k \in 1 .. b - a + 1 : v = Scan(e)[k]
  <2>1. v - a + 1 \in 1 .. b - a + 1 /\ a + (v - a + 1) - 1 = v
    OBVIOUS
  <2> QED
    BY <1>7, <2>1
<1>10. ASSUME Fits(e), NEW k \in 1 .. b - a + 1
       PROVE  Scan(e)[k] = a + k - 1 /\ a + k - 1 \in (a .. b) \cap (low .. low + m - 1)
  <2>1. a \in low .. low + m - 1 /\ b \in low .. low + m - 1
    BY <1>2, <1>3, <1>10 DEF Fits
  <2>2. a + k - 1 \in (a .. b) \cap (low .. low + m - 1)
    BY <2>1
  <2> QED
    BY <1>7, <2>2
<1>11. ASSUME Fits(e), NEW j \in 1 .. b - a + 1, NEW k \in 1 .. b - a + 1, Scan(e)[j] = Scan(e)[k]
       PROVE  j = k
  <2>1. a + j - 1 = a + k - 1
    BY <1>10, <1>11
  <2> QED
    BY <2>1
<1>12. \A k \in DOMAIN Scan(e) : Scan(e)[k] \in Stored!Values(e) /\ Scan(e)[k] \in Int
  <2>1. Stored!Values(e) = low .. low + m - 1
    BY <1>3
  <2>2. \A k \in 1 .. b - a + 1 : Scan(e)[k] \in low .. low + m - 1
    BY <1>7
  <2>3. \A x \in low .. low + m - 1 : x \in Int
    OBVIOUS
  <2> QED
    BY <1>8, <2>1, <2>2, <2>3, Zenon
<1>13. \A v \in Scanned(e) : \E k \in DOMAIN Scan(e) : v = Scan(e)[k]
  BY <1>8, <1>9
<1>14. Fits(e) => /\ \A k \in DOMAIN Scan(e) : Scan(e)[k] \in Scanned(e)
                  /\ \A j, k \in DOMAIN Scan(e) : Scan(e)[j] = Scan(e)[k] => j = k
  BY <1>8, <1>10, <1>11
<1> QED
  BY <1>12, <1>13, <1>14 DEF ScansWhole

(* Shifted as an int, a bit but the sign of a wider type comes out as it is.*)
LEMMA BitIsValue ==
  ASSUME NEW e \in Enums, e.flag, NEW i \in Nat, i < e.width => i < IntWidth
  PROVE  /\ Value(e, i) \in Stored!Values(e) /\ Value(e, i) \in Int
         /\ ~SignExtended(e, i) => Value(e, i) = Bit(e, i)
<1>1. /\ e.width \in Nat \ {0} /\ e.signed \in BOOLEAN /\ IntWidth \in Nat \ {0}
      /\ Signed.width = IntWidth /\ Signed.signed = TRUE
  BY EnumsAssumption DEF Signed
<1>0. PICK m \in Nat \ {0}, low \in Int : Stores(e, m, low)
  BY <1>1, StoredIs
<1>2. /\ m = 2 ^ e.width /\ Stored!Values(e) = low .. low + m - 1
      /\ 0 \in Stored!Values(e)
      /\ \A n \in Int :
           /\ Stored!Narrowed(n, e) \in low .. low + m - 1
           /\ \E q \in Int : Stored!Narrowed(n, e) = n - m * q
           /\ \A q \in Int, v \in low .. low + m - 1 :
                v = n - m * q => Stored!Narrowed(n, e) = v
  BY <1>0 DEF Stores
<1>3. PICK M \in Nat \ {0}, least \in Int : Stores(Signed, M, least)
  <2>1. Signed.width \in Nat \ {0} /\ Signed.signed \in BOOLEAN
    BY <1>1
  <2> HIDE DEF Signed
  <2> QED
    BY <2>1, StoredIs
<1>4. /\ M = 2 ^ IntWidth /\ Stored!Narrowed(2 ^ i, Signed) \in Int
      /\ \E q \in Int : Stored!Narrowed(2 ^ i, Signed) = 2 ^ i - M * q
      /\ 2 ^ i \in Stored!Values(Signed) => Stored!Narrowed(2 ^ i, Signed) = 2 ^ i
  <2>1. PICK n \in Int : n = 2 ^ i
    BY PowerOfTwo
  <2>2. M = 2 ^ IntWidth /\ Stored!Values(Signed) = least .. least + M - 1
    BY <1>1, <1>3 DEF Stores
  <2>3. /\ Stored!Narrowed(n, Signed) \in least .. least + M - 1
        /\ \E q \in Int : Stored!Narrowed(n, Signed) = n - M * q
        /\ \A q \in Int, v \in least .. least + M - 1 :
              v = n - M * q => Stored!Narrowed(n, Signed) = v
    BY <1>3 DEF Stores
  <2>4. n = n - M * 0
    OBVIOUS
  <2>5. n \in least .. least + M - 1 => Stored!Narrowed(n, Signed) = n
    BY <2>3, <2>4
  <2>6. Stored!Narrowed(n, Signed) \in Int
    BY <2>3
  <2> QED
    BY <2>1, <2>2, <2>3, <2>5, <2>6, Zenon
<1>5. PICK x \in Nat, y \in Int :
         /\ x = 2 ^ i /\ y = Stored!Narrowed(2 ^ i, Signed)
         /\ \E q \in Int : y = x - M * q
         /\ x \in Stored!Values(Signed) => y = x
  <2>1. 2 ^ i \in Nat
    BY PowerOfTwo
  <2> QED
    BY <1>4, <2>1
<1>6. CASE ~(i < e.width)
  BY <1>2, <1>6 DEF Value, Bit
<1>7. CASE i < e.width
  <2>1. Value(e, i) = Stored!Narrowed(y, e) /\ Bit(e, i) = Stored!Narrowed(x, e)
    BY <1>5, <1>7 DEF Value, Bit
  <2>2. Stored!Narrowed(y, e) \in low .. low + m - 1
    BY <1>2
  <2>3. ASSUME ~SignExtended(e, i) PROVE Stored!Narrowed(y, e) = Stored!Narrowed(x, e)
    <3>1. CASE e.width <= IntWidth
      <4>1. PICK p \in Nat \ {0} : M = m * p
        <5>1. \E p \in Nat \ {0} : 2 ^ IntWidth = 2 ^ e.width * p
          BY <1>1, <3>1, PowerDivides
        <5> QED
          BY <1>1, <1>2, <1>4, <5>1
      <4>2. PICK q \in Int : y = x - M * q
        BY <1>5
      <4>3. PICK r \in low .. low + m - 1, d \in Int : r = Stored!Narrowed(y, e) /\ r = y - m * d
        BY <1>2
      <4>4. PICK w \in Int : w = p * q + d
        OBVIOUS
      <4>5. r = x - m * w
        <5>1. PICK g \in Int, h \in Int : g = M * q /\ h = m * d
          OBVIOUS
        <5>2. g = m * (p * q)
          BY <4>1, <5>1
        <5>3. PICK z \in Int : z = p * q
          OBVIOUS
        <5>4. m * (z + d) = g + h
          BY <5>1, <5>2, <5>3
        <5>5. y = x - g /\ r = y - h
          BY <4>2, <4>3, <5>1
        <5>6. w = z + d
          BY <4>4, <5>3
        <5>7. m * w = g + h
          BY <5>4, <5>6
        <5>8. r = x - (g + h)
          BY <5>1, <5>5
        <5> QED
          BY <5>7, <5>8
      <4>6. x \in Int
        OBVIOUS
      <4>7. \A k \in Int, v \in low .. low + m - 1 : v = x - m * k => Stored!Narrowed(x, e) = v
        BY <1>2, <4>6, Zenon
      <4>8. Stored!Narrowed(x, e) = r
        BY <4>5, <4>7, Zenon
      <4> QED
        BY <4>3, <4>8
    <3>2. CASE ~(e.width <= IntWidth)
      <4>1. i < IntWidth - 1
        BY <1>1, <1>7, <2>3, <3>2 DEF SignExtended
      <4>2. x \in Stored!Values(Signed)
        <5>1. IntWidth - 1 \in Nat
          BY <1>1
        <5>2. PICK k \in Nat : k = 2 ^ (IntWidth - 1) /\ x < k
          BY <1>5, <4>1, <5>1, PowerOfTwo, PowersGrow
        <5>3. Stored!Values(Signed) = -k .. k - 1
          BY <1>1, <5>2 DEF Stored!Values
        <5> QED
          BY <5>2, <5>3
      <4> QED
        BY <1>5, <4>2
    <3> QED
      BY <3>1, <3>2
  <2>4. \A v \in low .. low + m - 1 : v \in Int
    OBVIOUS
  <2> QED
    BY <1>2, <2>1, <2>2, <2>3, <2>4, Zenon
<1> QED
  BY <1>6, <1>7

(* The values of flags are different powers of two as long as the type      *)
(* holds them.                                                              *)
LEMMA ScanOfFlags ==
  ASSUME NEW e \in Enums, e.flag
  PROVE  ScansWhole(e)
<1>1. /\ e.width \in Nat \ {0} /\ e.signed \in BOOLEAN /\ e.start \in Nat /\ e.max \in Int
      /\ \A i \in e.start .. e.max : i < e.width => i < IntWidth
  BY EnumsAssumption
<1>2. PICK a \in Nat, b \in Int : a = e.start /\ b = e.max
  BY <1>1
<1>0. PICK m \in Nat \ {0}, low \in Int : Stores(e, m, low)
  BY <1>1, StoredIs
<1>3. /\ m = 2 ^ e.width /\ Stored!Values(e) = low .. low + m - 1
      /\ 0 \in Stored!Values(e)
      /\ \A n \in Int :
           /\ Stored!Narrowed(n, e) \in low .. low + m - 1
           /\ \E q \in Int : Stored!Narrowed(n, e) = n - m * q
           /\ \A q \in Int, v \in low .. low + m - 1 :
                v = n - m * q => Stored!Narrowed(n, e) = v
  BY <1>0 DEF Stores
<1>4. \A k \in 1 .. b - a + 1 : Indices(e)[k] = a + k - 1
  BY <1>2, IndicesAre
<1>5. Scan(e) = [k \in 1 .. b - a + 1 |-> Value(e, a + k - 1)]
  BY <1>2, <1>4 DEF Scan
<1>6. /\ \A v \in Scanned(e) : \E i \in a .. b : ~SignExtended(e, i) /\ v = Bit(e, i)
      /\ \A i \in a .. b : ~SignExtended(e, i) => Bit(e, i) \in Scanned(e)
  BY <1>2 DEF Scanned
<1>7. ASSUME NEW i \in a .. b
      PROVE  /\ Value(e, i) \in low .. low + m - 1
             /\ ~SignExtended(e, i) => Value(e, i) = Bit(e, i)
  <2>1. i \in Nat /\ (i < e.width => i < IntWidth)
    BY <1>1, <1>2
  <2> QED
    BY <1>3, <2>1, BitIsValue
<1>8. \A k \in 1 .. b - a + 1 : a + k - 1 \in a .. b /\ a + k - 1 \in Nat
  OBVIOUS
<1>9. ASSUME NEW i \in a .. b PROVE \E k \in 1 .. b - a + 1 : Value(e, i) = Scan(e)[k]
  <2>1. i - a + 1 \in 1 .. b - a + 1 /\ a + (i - a + 1) - 1 = i
    OBVIOUS
  <2> QED
    BY <1>5, <2>1
<1>10. ASSUME NEW i \in Nat, NEW j \in Nat, i < j, j < e.width PROVE Bit(e, i) # Bit(e, j)
  <2>1. PICK x \in Nat, y \in Nat : x = 2 ^ i /\ y = 2 ^ j /\ x < y /\ y < m
    <3>1. 2 ^ i \in Nat /\ 2 ^ j \in Nat
      BY PowerOfTwo
    <3>2. 2 ^ i < 2 ^ j /\ 2 ^ j < m
      BY <1>1, <1>3, <1>10, PowersGrow
    <3> QED
      BY <3>1, <3>2
  <2> SUFFICES ASSUME Bit(e, i) = Bit(e, j) PROVE FALSE
    OBVIOUS
  <2>2. Stored!Narrowed(x, e) = Stored!Narrowed(y, e)
    BY <1>1, <1>10, <2>1 DEF Bit
  <2>3. PICK r \in Int, p \in Int, q \in Int : r = x - m * p /\ r = y - m * q
    <3>0. x \in Int /\ y \in Int
      OBVIOUS
    <3>1. PICK r \in low .. low + m - 1 : r = Stored!Narrowed(x, e)
      BY <1>3, <3>0
    <3>2. PICK p \in Int : r = x - m * p
      BY <1>3, <3>0, <3>1
    <3>3. PICK q \in Int : r = y - m * q
      BY <1>3, <2>2, <3>0, <3>1
    <3>4. r \in Int
      OBVIOUS
    <3> QED
      BY <3>2, <3>3, <3>4
  <2>4. PICK d \in Int : y = m * d + x
    <3>1. PICK v \in Int, w \in Int : v = m * p /\ w = m * q
      OBVIOUS
    <3>2. m * (q - p) = w - v
      BY <3>1
    <3>3. y = w - v + x
      BY <2>3, <3>1
    <3>4. y = m * (q - p) + x /\ q - p \in Int
      BY <3>2, <3>3
    <3> QED
      BY <3>4
  <2>5. y = m * 0 + y /\ x \in 0 .. m - 1 /\ y \in 0 .. m - 1
    BY <2>1
  <2>6. y \in Int
    OBVIOUS
  <2>7. y % m = x
    BY <2>4, <2>5, <2>6, RemainderIs
  <2>8. y % m = y
    BY <2>5, <2>6, RemainderIs
  <2> QED
    BY <2>1, <2>7, <2>8
<1>11. ASSUME Fits(e), NEW j \in 1 .. b - a + 1, NEW k \in 1 .. b - a + 1, Scan(e)[j] = Scan(e)[k]
       PROVE  j = k
  <2>1. PICK x \in Nat, y \in Nat :
          /\ x = a + j - 1 /\ y = a + k - 1 /\ x < e.width /\ y < e.width
          /\ Bit(e, x) = Bit(e, y)
    <3>1. b < e.width /\ \A i \in a .. b : ~SignExtended(e, i)
      BY <1>2, <1>11 DEF Fits
    <3>2. a + j - 1 < e.width /\ a + k - 1 < e.width
      BY <1>1, <1>8, <3>1
    <3>3. Value(e, a + j - 1) = Bit(e, a + j - 1) /\ Value(e, a + k - 1) = Bit(e, a + k - 1)
      BY <1>7, <1>8, <3>1
    <3> QED
      BY <1>5, <1>8, <1>11, <3>2, <3>3
  <2>2. ~(x < y) /\ ~(y < x)
    BY <1>10, <2>1
  <2> QED
    BY <2>1, <2>2
<1>12. DOMAIN Scan(e) = 1 .. b - a + 1
       /\ \A k \in 1 .. b - a + 1 : Scan(e)[k] = Value(e, a + k - 1)
  BY <1>5
<1>13. \A k \in 1 .. b - a + 1 : Scan(e)[k] \in low .. low + m - 1
  BY <1>7, <1>8, <1>12
<1>14. \A v \in Scanned(e) : \E k \in 1 .. b - a + 1 : v = Scan(e)[k]
  BY <1>6, <1>7, <1>9
<1>15. \A k \in DOMAIN Scan(e) : Scan(e)[k] \in Stored!Values(e) /\ Scan(e)[k] \in Int
  <2>1. Stored!Values(e) = low .. low + m - 1
    BY <1>3
  <2>2. \A x \in low .. low + m - 1 : x \in Int
    OBVIOUS
  <2> QED
    BY <1>12, <1>13, <2>1, <2>2, Zenon
<1>16. Fits(e) => \A k \in DOMAIN Scan(e) : Scan(e)[k] \in Scanned(e)
  BY <1>2, <1>6, <1>7, <1>8, <1>12 DEF Fits
<1>17. Fits(e) => \A j, k \in DOMAIN Scan(e) : Scan(e)[j] = Scan(e)[k] => j = k
  BY <1>11, <1>12
<1> QED
  BY <1>12, <1>14, <1>15, <1>16, <1>17 DEF ScansWhole

(* Every enumerator of the scanned range is known by its own name, nothing  *)
(* else is, and each value is counted once (fp/utils/enums.hpp,             *)
(* EnumValueFinder).                                                        *)
THEOREM EnumeratorsNamed == \A e \in Enums : IsNamed(e)
<1> SUFFICES ASSUME NEW e \in Enums
    PROVE  LET named == {v \in Stored!Values(e) : NameOf(e, v) # NoName}
               nameable == e.declared \ e.short
           IN /\ nameable \cap Scanned(e) \subseteq named
              /\ named \subseteq nameable
              /\ \A v \in named : NameOf(e, v) = v
              /\ Fits(e) => named \subseteq Scanned(e) /\ Count(e) = Cardinality(named)
  BY DEF IsNamed
<1> DEFINE named == {v \in Stored!Values(e) : NameOf(e, v) # NoName}
           n == e.max - e.start + 1
<1>1. n \in Nat /\ DOMAIN Indices(e) = 1 .. n
  BY IndicesAre
<1>2. ScansWhole(e)
  BY ScanOfNumbers, ScanOfFlags
<1>3. /\ DOMAIN Scan(e) = 1 .. n
      /\ \A k \in 1 .. n : Scan(e)[k] = Value(e, Indices(e)[k]) /\ Scan(e)[k] \in Int
  BY <1>2 DEF Scan, ScansWhole
<1>4. /\ Finder(e) \in Seq(Int)
      /\ \A x : IsIn(x, Finder(e)) <=> IsValid(e, x) /\ \E k \in 1 .. n : x = Scan(e)[k]
      /\ (\A j, k \in 1 .. n : Scan(e)[j] = Scan(e)[k] => j = k) => Distinct(Finder(e))
  <2> HIDE DEF n
  <2> QED
    BY <1>1, <1>3, FinderIs
<1>5. \A v : NameOf(e, v) = IF IsIn(v, Finder(e)) THEN v ELSE NoName
  BY <1>4, StringMapIs DEF NameOf
<1>6. \A v \in Stored!Values(e) : v # NoName
  <2>1. PICK m \in Nat \ {0}, low \in Int : Stored!Values(e) = low .. low + m - 1
    <3>1. e.width \in Nat \ {0} /\ e.signed \in BOOLEAN
      BY EnumsAssumption
    <3>2. PICK m \in Nat \ {0}, low \in Int : Stores(e, m, low)
      BY <3>1, StoredIs
    <3> QED
      BY <3>2 DEF Stores
  <2>2. \A v \in low .. low + m - 1 : v \in Int
    OBVIOUS
  <2> QED
    BY <2>1, <2>2, EnumsAssumption
<1>7. \A v : v \in named <=> v \in Stored!Values(e) /\ IsIn(v, Finder(e))
  BY <1>5, <1>6
<1>8. \A v : IsIn(v, Finder(e)) => v \in Stored!Values(e) /\ v \in Int
  BY <1>2, <1>3, <1>4 DEF ScansWhole
<1>9. \A v : v \in named <=> IsIn(v, Finder(e))
  BY <1>7, <1>8
<1> HIDE DEF named, n
<1>10. (e.declared \ e.short) \cap Scanned(e) \subseteq named
  <2> SUFFICES ASSUME NEW v \in Scanned(e), IsValid(e, v) PROVE v \in named
    BY DEF IsValid
  <2> QED
    BY <1>2, <1>3, <1>4, <1>9 DEF ScansWhole
<1>11. named \subseteq e.declared \ e.short
  BY <1>4, <1>9 DEF IsValid
<1>12. \A v \in named : NameOf(e, v) = v
  BY <1>5, <1>9
<1>13. ASSUME Fits(e) PROVE named \subseteq Scanned(e) /\ Count(e) = Cardinality(named)
  <2>1. /\ \A k \in 1 .. n : Scan(e)[k] \in Scanned(e)
        /\ \A j, k \in 1 .. n : Scan(e)[j] = Scan(e)[k] => j = k
    BY <1>2, <1>3, <1>13 DEF ScansWhole
  <2>2. named \subseteq Scanned(e)
    BY <1>4, <1>9, <2>1
  <2>3. Cardinality(named) = Len(Finder(e))
    BY <1>4, <1>9, <2>1, DistinctCount
  <2> QED
    BY <2>2, <2>3 DEF Count
<1> QED
  BY <1>10, <1>11, <1>12, <1>13 DEF named

-----------------------------------------------------------------------------
(* Each push has one argument and one text, a push that has not reached the *)
(* stack yet too, and what was read of an error is its text.                *)
Due(t) == errors[t] + (IF at[t].call = "push" THEN 1 ELSE 0)

NamePrefixes == {Prefix(argument) : argument \in Arguments}

Recorded(t) ==
  /\ Len(pushed[t]) = Due(t) /\ Len(texts[t]) = Due(t)
  /\ \A i \in 1 .. Due(t) : texts[t][i] = Prefix(pushed[t][i])
  /\ \A shown \in read[t] : /\ shown.error \in 1 .. errors[t]
                             /\ shown.text = texts[t][shown.error]

NamesTyped ==
  /\ results \in Enums
  /\ pushed \in [Threads -> Seq(Arguments)] /\ texts \in [Threads -> Seq(NamePrefixes)]
  /\ DOMAIN read = Threads

NamedIInv == IInv /\ NamesTyped /\ \A t \in Threads : Recorded(t)

(* Errors are counted in natural numbers, before and after a step. *)
LEMMA ErrorsCounted ==
  /\ IInv => \A t \in Threads : errors[t] \in Nat
  /\ IInv' => \A t \in Threads : errors'[t] \in Nat
<1>1. \A n \in 0 .. MaxErrors : n \in Nat
  BY BoundAssumption
<1>2. IInv => errors \in [Threads -> 0 .. MaxErrors]
  BY DEF IInv, Typed
<1>3. IInv' => errors' \in [Threads -> 0 .. MaxErrors]
  BY DEF IInv, Typed
<1> QED
  BY <1>1, <1>2, <1>3

(* A call that neither begins a push nor shows an error leaves the number of*)
(* pushes as it is.                                                         *)
LEMMA HandleDue ==
  ASSUME IInv, NEW t \in Threads, Handle(t), NEW u \in Threads
  PROVE  Due(u)' = Due(u) /\ errors[u] <= errors'[u]
<1>1. /\ at \in [Threads -> [call : {"none", "push", "log", "begin", "advance"},
                            inserts : BOOLEAN]]
      /\ errors \in [Threads -> 0 .. MaxErrors] /\ MaxErrors \in Nat
  BY BoundAssumption DEF IInv, Typed
<1>2. CASE PushFound(t) \/ PushInserted(t)
  <2>1. /\ at[t].call = "push" /\ errors' = [errors EXCEPT ![t] = @ + 1]
        /\ at' = [at EXCEPT ![t] = Idle]
    BY <1>2 DEF PushFound, PushInserted, PushError, Inside, Leave
  <2> QED
    BY <1>1, <2>1 DEF Due, Idle
<1>3. CASE PushInserting(t)
  <2>1. /\ at[t].call = "push" /\ errors' = errors
        /\ at' = [at EXCEPT ![t] = [call |-> "push", inserts |-> TRUE]]
    BY <1>3 DEF PushInserting, Inside, Enter
  <2> QED
    BY <1>1, <2>1 DEF Due
<1>4. CASE LogAll(t) \/ LogLoop(t) \/ Iterate(t) \/ Advance(t)
  <2>1. /\ at[t].call # "push" /\ errors' = errors
        /\ \E call \in {"log", "begin", "advance"} : \E inserts :
             at' = [at EXCEPT ![t] = [call |-> call, inserts |-> inserts]]
    BY <1>4 DEF LogAll, LogLoop, Iterate, Advance, Enter, Inside, Idle
  <2> QED
    BY <1>1, <2>1 DEF Due
<1>5. CASE LogNothing(t) \/ Begin(t) \/ NextError(t)
  <2>1. at[t].call # "push" /\ errors' = errors /\ at' = [at EXCEPT ![t] = Idle]
    BY <1>5 DEF LogNothing, Begin, NextError, Proceed, Inside, Leave
  <2> QED
    BY <1>1, <2>1 DEF Due, Idle
<1>6. CASE PopEmpty(t) \/ Break(t)
  <2>1. errors' = errors /\ at' = at
    BY <1>6 DEF PopEmpty, Break
  <2> QED
    BY <1>1, <2>1 DEF Due
<1> QED
  BY <1>2, <1>3, <1>4, <1>5, <1>6 DEF Handle

LEMMA NamedInits == NamedInit => NamedIInv
<1> SUFFICES ASSUME NamedInit PROVE NamedIInv
  OBVIOUS
<1>1. IInv
  BY IInvInit DEF NamedInit
<1>2. NamesTyped
  BY DEF NamedInit, NamesTyped
<1>3. ASSUME NEW t \in Threads PROVE Recorded(t)
  <2>1. Due(t) = 0
    BY DEF NamedInit, Init, Due, Idle
  <2> QED
    BY <2>1 DEF NamedInit, Recorded
<1> QED
  BY <1>1, <1>2, <1>3 DEF NamedIInv

(* A push appends its argument and its text. *)
LEMMA PushNamedMoves ==
  ASSUME NamedIInv, IInv', NEW t \in Threads, NEW argument \in Arguments, PushNamed(t, argument)
  PROVE  NamedIInv'
<1>1. /\ results' = results /\ read' = read /\ errors' = errors
      /\ pushed' = [pushed EXCEPT ![t] = Append(@, argument)]
      /\ texts' = [texts EXCEPT ![t] = Append(@, Prefix(argument))]
      /\ at[t] = Idle /\ at' = [at EXCEPT ![t] = [call |-> "push", inserts |-> FALSE]]
  BY DEF PushNamed, Push, Enter
<1>2. /\ at \in [Threads -> [call : {"none", "push", "log", "begin", "advance"},
                            inserts : BOOLEAN]]
      /\ errors \in [Threads -> 0 .. MaxErrors] /\ MaxErrors \in Nat
  BY BoundAssumption DEF NamedIInv, IInv, Typed
<1>3. /\ results \in Enums /\ DOMAIN read = Threads
      /\ pushed \in [Threads -> Seq(Arguments)] /\ texts \in [Threads -> Seq(NamePrefixes)]
      /\ \A u \in Threads : Recorded(u)
  BY DEF NamedIInv, NamesTyped
<1>4. /\ Arguments' = Arguments /\ NamePrefixes' = NamePrefixes /\ Prefix(argument) \in NamePrefixes
      /\ \A x : Prefix(x)' = Prefix(x)
  BY <1>1 DEF Arguments, NamePrefixes, Prefix
<1>5. NamesTyped'
  BY <1>1, <1>3, <1>4, AppendProperties DEF NamesTyped
<1>6. ASSUME NEW u \in Threads PROVE Recorded(u)'
  <2>1. CASE u # t
    <3>1. /\ pushed'[u] = pushed[u] /\ texts'[u] = texts[u] /\ read'[u] = read[u]
          /\ Due(u)' = Due(u)
      BY <1>1, <1>2, <1>3, <2>1 DEF Due
    <3> QED
      BY <1>1, <1>3, <1>4, <3>1 DEF Recorded
  <2>2. CASE u = t
    <3>1. PICK n \in Nat : n = errors[t] /\ Due(t) = n /\ Due(t)' = n + 1
      BY <1>1, <1>2 DEF Due, Idle
    <3>2. /\ pushed[t] \in Seq(Arguments) /\ texts[t] \in Seq(NamePrefixes)
          /\ Len(pushed[t]) = n /\ Len(texts[t]) = n
          /\ \A i \in 1 .. n : texts[t][i] = Prefix(pushed[t][i])
          /\ \A shown \in read[t] : shown.error \in 1 .. n /\ shown.text = texts[t][shown.error]
      BY <1>3, <3>1 DEF Recorded
    <3>3. pushed'[t] = Append(pushed[t], argument) /\ texts'[t] = Append(texts[t], Prefix(argument))
      BY <1>1, <1>3
    <3>4. /\ Len(pushed'[t]) = n + 1 /\ Len(texts'[t]) = n + 1
          /\ pushed'[t][n + 1] = argument /\ texts'[t][n + 1] = Prefix(argument)
          /\ \A i \in 1 .. n : pushed'[t][i] = pushed[t][i] /\ texts'[t][i] = texts[t][i]
      BY <1>4, <3>2, <3>3, AppendProperties
    <3>5. \A i \in 1 .. n + 1 : texts'[t][i] = Prefix(pushed'[t][i])
      BY <3>2, <3>4
    <3>6. \A shown \in read'[t] : /\ shown.error \in 1 .. errors'[t]
                                  /\ shown.text = texts'[t][shown.error]
      BY <1>1, <3>1, <3>2, <3>4
    <3> QED
      BY <1>4, <2>2, <3>1, <3>4, <3>5, <3>6 DEF Recorded
  <2> QED
    BY <2>1, <2>2
<1> QED
  BY <1>5, <1>6 DEF NamedIInv

(* A loop reads the text of an error that was pushed. *)
LEMMA ShowNamedMoves ==
  ASSUME NamedIInv, IInv', NEW t \in Threads, ShowNamed(t)
  PROVE  NamedIInv'
<1> DEFINE error == Last(iterators[t]).view
<1>1. /\ results' = results /\ pushed' = pushed /\ texts' = texts
      /\ errors' = errors /\ at' = at /\ Len(iterators[t]) > 0
      /\ \/ read' = read
         \/ read' = [read EXCEPT ![t] = @ \cup {[error |-> error, text |-> texts[t][error]]}]
  BY DEF ShowNamed, Show
<1>2. /\ results \in Enums /\ DOMAIN read = Threads
      /\ pushed \in [Threads -> Seq(Arguments)] /\ texts \in [Threads -> Seq(NamePrefixes)]
      /\ \A u \in Threads : Recorded(u)
  BY DEF NamedIInv, NamesTyped
<1>3. error \in 1 .. errors[t]
  <2>1. iterators[t] \in Seq([view : Nat, shown : BOOLEAN]) /\ Numbered(t)
    BY DEF NamedIInv, IInv, Typed
  <2>2. Len(iterators[t]) \in 1 .. Len(iterators[t])
    BY <1>1, <2>1, LenProperties
  <2> QED
    BY <2>1, <2>2 DEF Numbered, Last
<1> HIDE DEF error
<1>4. NamesTyped'
  <2>1. Arguments' = Arguments /\ NamePrefixes' = NamePrefixes
    BY <1>1 DEF Arguments, NamePrefixes, Prefix
  <2>2. DOMAIN read' = Threads
    BY <1>1, <1>2
  <2> QED
    BY <1>1, <1>2, <2>1, <2>2 DEF NamesTyped
<1>5. ASSUME NEW u \in Threads PROVE Recorded(u)'
  <2>1. \A shown \in read'[u] : /\ shown.error \in 1 .. errors[u]
                                /\ shown.text = texts[u][shown.error]
    <3>1. \A shown \in read[u] : /\ shown.error \in 1 .. errors[u]
                                 /\ shown.text = texts[u][shown.error]
      BY <1>2 DEF Recorded
    <3>2. \/ read'[u] = read[u]
          \/ u = t /\ read'[u] = read[u] \cup {[error |-> error, text |-> texts[t][error]]}
      BY <1>1, <1>2
    <3> QED
      BY <1>3, <3>1, <3>2
  <2>2. Due(u)' = Due(u) /\ \A x : Prefix(x)' = Prefix(x)
    BY <1>1 DEF Due, Prefix
  <2> QED
    BY <1>1, <1>2, <2>1, <2>2 DEF Recorded
<1> QED
  BY <1>4, <1>5 DEF NamedIInv

(* Every step with names is one of ErrorStack, and keeps the records. *)
LEMMA NamedMoves == NamedIInv /\ [NamedNext]_namedVars => NamedIInv'
<1> SUFFICES ASSUME NamedIInv, [NamedNext]_namedVars PROVE NamedIInv'
  OBVIOUS
<1>1. IInv'
  <2>1. [Next]_vars
    BY DEF NamedNext, namedVars, PushNamed, ShowNamed, Next, Step
  <2> QED
    BY <2>1, IInvNext DEF NamedIInv
<1>2. ASSUME UNCHANGED <<results, pushed, texts, read>>,
             \A u \in Threads : Due(u)' = Due(u) /\ errors[u] <= errors'[u]
      PROVE  NamedIInv'
  <2>1. NamesTyped' /\ \A x : Prefix(x)' = Prefix(x)
    BY <1>2 DEF NamedIInv, NamesTyped, Arguments, NamePrefixes, Prefix
  <2>2. ASSUME NEW u \in Threads PROVE Recorded(u)'
    <3>1. Recorded(u) /\ errors[u] \in Nat /\ errors'[u] \in Nat
      <4>1. IInv /\ Recorded(u)
        BY DEF NamedIInv
      <4> QED
        BY <1>1, <4>1, ErrorsCounted
    <3>2. Due(u)' = Due(u) /\ errors[u] <= errors'[u]
      BY <1>2
    <3>3. \A n \in 1 .. errors[u] : n \in 1 .. errors'[u]
      BY <3>1, <3>2
    <3> QED
      BY <1>2, <2>1, <3>1, <3>2, <3>3 DEF Recorded
  <2> QED
    BY <1>1, <2>1, <2>2 DEF NamedIInv
<1>3. ASSUME NEW t \in Threads, Handle(t), Unnamed PROVE NamedIInv'
  BY <1>2, <1>3, HandleDue DEF NamedIInv, Unnamed
<1>4. CASE UNCHANGED namedVars \/ (Ended /\ Unnamed)
  <2>1. UNCHANGED <<results, pushed, texts, read>> /\ errors' = errors /\ at' = at
    BY <1>4 DEF namedVars, vars, Ended, Unnamed
  <2>2. \A u \in Threads : Due(u)' = Due(u) /\ errors[u] <= errors'[u]
    <3>1. \A u \in Threads : errors[u] \in Nat
      BY ErrorsCounted DEF NamedIInv
    <3> QED
      BY <2>1, <3>1 DEF Due
  <2> QED
    BY <1>2, <2>1, <2>2
<1> QED
  BY <1>1, <1>3, <1>4, PushNamedMoves, ShowNamedMoves DEF NamedNext

THEOREM NamedSpecIInv == NamedSpec => []NamedIInv
BY NamedInits, NamedMoves, PTL DEF NamedSpec

(* An error that a thread reads starts with the name of the result that it  *)
(* was pushed with, or "<invalid>" if the scan leaves that out; with nothing*)
(* if it was pushed without one (fp/errorStack.hpp, push).                  *)
THEOREM SpecShownByName == NamedSpec => []ShownByName
<1>1. ASSUME NamedIInv, NEW t \in Threads, NEW shown \in read[t]
      PROVE  LET result == pushed[t][shown.error] IN
               IF result = NoName THEN shown.text = <<>>
               ELSE \/ shown.text = <<result>>
                    \/ /\ shown.text = <<NoName>>
                       /\ result \notin Scanned(results) \ results.short
  <2> DEFINE result == pushed[t][shown.error]
             name == NameOf(results, result)
  <2>1. results \in Enums /\ pushed[t] \in Seq(Arguments) /\ Recorded(t)
        /\ errors[t] \in Nat
    BY <1>1, ErrorsCounted DEF NamedIInv, NamesTyped
  <2>2. shown.error \in 1 .. Due(t) /\ Due(t) = Len(pushed[t])
    BY <1>1, <2>1 DEF Recorded, Due
  <2>3. shown.text = Prefix(result) /\ result \in Arguments
    BY <1>1, <2>1, <2>2, ElementOfSeq DEF Recorded
  <2>4. CASE result = NoName
    BY <2>3, <2>4 DEF Prefix
  <2>5. CASE result # NoName
    <3>1. result \in results.declared /\ shown.text = <<name>>
      BY <2>3, <2>5 DEF Prefix, Arguments
    <3>2. ASSUME result \in Scanned(results) \ results.short PROVE name = result
      BY <2>1, <3>1, <3>2, EnumeratorsNamed DEF IsNamed
    <3>3. name = result \/ name = NoName
      BY DEF NameOf
    <3> HIDE DEF name
    <3> QED
      BY <2>5, <3>1, <3>2, <3>3
  <2> QED
    BY <2>4, <2>5
<1>2. NamedIInv => ShownByName
  BY <1>1 DEF ShownByName
<1> QED
  BY <1>2, NamedSpecIInv, PTL
=============================================================================

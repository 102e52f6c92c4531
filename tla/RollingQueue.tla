---------------------------- MODULE RollingQueue ----------------------------
(***************************************************************************)
(* fp::containers::StackBasedRollingQueue<T, N>: a queue in a ring of N    *)
(* slots of raw storage.  m_start is modelled by the index of the slot it  *)
(* points to and m_size by itself; a slot holds a live object of T or is   *)
(* Dead (raw bytes: nothing constructed there, or already destroyed).      *)
(* Explicit construction and destruction is what the class is about, so    *)
(* every call also records the lifetime faults it commits.                 *)
(***************************************************************************)
EXTENDS Naturals, Sequences

CONSTANTS
  Queues,  \* the queue objects of the program
  T,       \* the values stored
  N,       \* the number of slots
  Dead     \* raw storage

ASSUME NAssumption == N \in Nat \ {0}
ASSUME DeadAssumption == Dead \notin T

VARIABLES
  rings,   \* rings[q]: the three members of queue object q
  cursor,  \* cursor[q]: the range-for loop running over q, if any
  ret,     \* what the last call that returns something returned
  faults   \* the object-lifetime faults of the last step

vars == <<rings, cursor, ret, faults>>

Slot == 0 .. (N - 1)
Ring == [start : Slot, size : 0 .. N, slots : [Slot -> T \cup {Dead}]]
Fault == {"constructLive", "destroyDead", "readDead", "leak"}

-----------------------------------------------------------------------------
(* The pointer arithmetic and the members, one operator per member function *)

Wrap(i) == IF i >= N THEN i - N ELSE i

End(r) == Wrap(r.start + r.size)

(* The slots the destructor walks: m_size of them from m_start on. *)
WalkUnwrapped(r) == {i \in Slot : r.start <= i /\ i < r.start + r.size}
Walk(r) == {Wrap(r.start + k) : k \in {k \in Slot : k < r.size}}

Empty == [start |-> 0, size |-> 0, slots |-> [i \in Slot |-> Dead]]

PushedAtStart(r, v) ==
  [start |-> r.start,
   size  |-> r.size + 1,
   slots |-> [r.slots EXCEPT ![r.start] = v]]
Pushed(r, v) ==
  [start |-> r.start,
   size  |-> r.size + 1,
   slots |-> [r.slots EXCEPT ![End(r)] = v]]

PoppedUndestroyed(r) ==
  [start |-> Wrap(r.start + 1), size |-> r.size - 1, slots |-> r.slots]
Popped(r) ==
  [start |-> Wrap(r.start + 1),
   size  |-> r.size - 1,
   slots |-> [r.slots EXCEPT ![r.start] = Dead]]

(* The copy starts at slot 0 whatever the position of the source; the move *)
(* constructor goes through a pointer to const and copies as well.         *)
CopiedStraight(r) ==
  [start |-> 0, size |-> r.size,
   slots |-> [i \in Slot |-> IF i < r.size THEN r.slots[i] ELSE Dead]]
Copied(r) ==
  [start |-> 0,
   size  |-> r.size,
   slots |-> [i \in Slot |->
                IF i < r.size THEN r.slots[Wrap(r.start + i)] ELSE Dead]]

(* ~T() on every walked slot; a live object elsewhere is never destroyed. *)
DestroyFaults(r) ==
  {f \in Fault :
    \/ f = "destroyDead" /\ \E i \in Walk(r) : r.slots[i] = Dead
    \/ f = "leak" /\ \E i \in Slot \ Walk(r) : r.slots[i] # Dead}

(* The copy constructor calls current->~T() on its own fresh storage before *)
(* it constructs the element, and reads the source slot.                    *)
CopyFaults(r) ==
  {f \in Fault :
    \/ f = "destroyDead" /\ r.size > 0
    \/ f = "readDead" /\ \E i \in Walk(r) : r.slots[i] = Dead}

(* Moving the front element out and destroying it, or dereferencing it. *)
FrontFaults(r, f) == IF r.slots[r.start] = Dead THEN {f} ELSE {}

-----------------------------------------------------------------------------
Init ==
  /\ rings = [q \in Queues |-> Empty]
  /\ cursor = [q \in Queues |-> "none"]
  /\ ret = "none"
  /\ faults = {}

PushUnchecked(q, v) ==
  /\ rings' = [rings EXCEPT ![q] = Pushed(@, v)]
  /\ ret' = "eSuccess"
  /\ faults' = IF rings[q].slots[End(rings[q])] # Dead
               THEN {"constructLive"} ELSE {}
  /\ UNCHANGED cursor
Push(q, v) ==
  /\ rings[q].size # N
  /\ rings' = [rings EXCEPT ![q] = Pushed(@, v)]
  /\ ret' = "eSuccess"
  /\ faults' = IF rings[q].slots[End(rings[q])] # Dead
               THEN {"constructLive"} ELSE {}
  /\ UNCHANGED cursor

PushSaturated(q) ==
  /\ rings[q].size = N
  /\ ret' = "eSaturated"
  /\ faults' = {}
  /\ UNCHANGED <<rings, cursor>>

Pop(q) ==
  /\ rings[q].size # 0
  /\ rings' = [rings EXCEPT ![q] = Popped(@)]
  /\ ret' = rings[q].slots[rings[q].start]
  /\ faults' = FrontFaults(rings[q], "destroyDead")
  /\ UNCHANGED cursor

PopEmpty(q) ==
  /\ rings[q].size = 0
  /\ ret' = "nullopt"
  /\ faults' = {}
  /\ UNCHANGED <<rings, cursor>>

(* q = p, by copy or by move: the destructor, then the constructor on the  *)
(* same storage.  Assigning a queue to itself is left out: the constructor *)
(* would read the members its own destructor has just wound down.          *)
Assign(q, p) ==
  /\ q # p
  /\ rings' = [rings EXCEPT ![q] = Copied(rings[p])]
  /\ faults' = DestroyFaults(rings[q]) \cup CopyFaults(rings[p])
  /\ UNCHANGED <<cursor, ret>>

(* The queue object goes out of scope and a new one takes its place. *)
Recreate(q) ==
  /\ cursor[q] = "none"
  /\ rings' = [rings EXCEPT ![q] = Empty]
  /\ faults' = DestroyFaults(rings[q])
  /\ UNCHANGED <<cursor, ret>>

-----------------------------------------------------------------------------
(* A range-for over q.  begin() gives an iterator with m_isEnd = false, even *)
(* on an empty queue; the loop compares it with end(), dereferences it, runs *)
(* its body (which may use the queue: any action above) and advances it.     *)

Begin(q) ==
  /\ cursor[q] = "none"
  /\ cursor' = [cursor EXCEPT ![q] = "at"]
  /\ faults' = {}
  /\ UNCHANGED <<rings, ret>>

Dereference(q) ==
  /\ cursor[q] = "at"
  /\ cursor' = [cursor EXCEPT ![q] = "body"]
  /\ ret' = rings[q].slots[rings[q].start]
  /\ faults' = FrontFaults(rings[q], "readDead")
  /\ UNCHANGED rings

(* operator++ pops, and is at the end only when there was nothing to pop. *)
Advance(q) ==
  /\ cursor[q] = "body"
  /\ cursor' = [cursor EXCEPT ![q] = IF rings[q].size = 0 THEN "none" ELSE "at"]
  /\ rings' = IF rings[q].size = 0 THEN rings
              ELSE [rings EXCEPT ![q] = Popped(@)]
  /\ faults' = IF rings[q].size = 0 THEN {}
               ELSE FrontFaults(rings[q], "destroyDead")
  /\ UNCHANGED ret

Next ==
  \E q \in Queues :
    \/ \E v \in T : Push(q, v)
    \/ PushSaturated(q)
    \/ Pop(q)
    \/ PopEmpty(q)
    \/ \E p \in Queues : Assign(q, p)
    \/ Recreate(q)
    \/ Begin(q)
    \/ Dereference(q)
    \/ Advance(q)

Spec == Init /\ [][Next]_vars

-----------------------------------------------------------------------------
(* Every queue object has members of the declared shape: m_start points to  *)
(* one of the N slots, never one past them, and m_size is at most N.        *)
TypeOK ==
  /\ rings \in [Queues -> Ring]
  /\ cursor \in [Queues -> {"none", "at", "body"}]
  /\ ret \in T \cup {Dead, "none", "nullopt", "eSuccess", "eSaturated"}
  /\ faults \subseteq Fault

(* The live objects of a queue are exactly the m_size slots from m_start on *)
(* around the ring, after any sequence of push, pop, assignment and         *)
(* iteration: push and pop construct and destroy the right slots.           *)
LiveWindow ==
  \A q \in Queues : \A i \in Slot :
    rings[q].slots[i] # Dead <=> i \in Walk(rings[q])

(* No element is overwritten while live and none is leaked by a destructor  *)
(* that stops short of it or walks past it.                                 *)
NoLostObject == faults \cap {"constructLive", "leak"} = {}

(* The bytes of the array are never treated as objects before an element is *)
(* constructed there: "defined as overaligned array of bytes to avoid       *)
(* default construct / destruct" (stackBasedRollingQueue.hpp:92).           *)
NoDestroyOfRawStorage == "destroyDead" \notin faults

(* static_assert(std::ranges::input_range<StackBasedRollingQueue<int, 16>>) *)
(* (stackBasedRollingQueue.hpp:96): every iterator in [begin(), end()) may  *)
(* be dereferenced, so a range-for only ever reads live elements.           *)
RangeReadsLiveElements == "readDead" \notin faults

(* The elements in queue order, oldest first. *)
Contents(r) == [k \in 1 .. r.size |-> r.slots[Wrap(r.start + (k - 1))]]

Fifo == INSTANCE BoundedFifo
          WITH contents <- [q \in Queues |-> Contents(rings[q])]

(* The ring gives every caller what a bounded FIFO queue gives it: elements *)
(* leave in the order they came, none is duplicated or dropped, a push is   *)
(* refused exactly when N are stored, and an assigned queue is an equal one.*)
ImplementsFifo == Fifo!FifoSpec
=============================================================================

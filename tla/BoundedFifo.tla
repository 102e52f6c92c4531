---------------------------- MODULE BoundedFifo ----------------------------
(***************************************************************************)
(* What fp::containers::StackBasedRollingQueue promises to its callers: a  *)
(* family of first-in first-out queues of at most N elements each.  No     *)
(* ring, no slot and no object lifetime appears here; RollingQueue has     *)
(* them and is shown to implement this module.                             *)
(***************************************************************************)
EXTENDS Naturals, Sequences

CONSTANTS
  Queues,   \* the queue objects of the program
  T,        \* the values a queue stores
  N,        \* the capacity, the template parameter N
  Dead      \* what reading raw storage yields: not a value

VARIABLES
  contents, \* contents[q]: the elements of q, oldest first
  ret       \* what the last call that returns something returned

fifoVars == <<contents, ret>>

FifoInit ==
  /\ contents = [q \in Queues |-> <<>>]
  /\ ret = "none"

(* A push appends the value, or is refused when N elements are stored. *)
Accept(q, v) ==
  /\ Len(contents[q]) < N
  /\ contents' = [contents EXCEPT ![q] = Append(@, v)]
  /\ ret' = "eSuccess"

Refuse(q) ==
  /\ Len(contents[q]) = N
  /\ ret' = "eSaturated"
  /\ UNCHANGED contents

(* A pop returns the oldest element, or nothing when there is none. *)
Take(q) ==
  /\ contents[q] # <<>>
  /\ contents' = [contents EXCEPT ![q] = Tail(@)]
  /\ ret' = Head(contents[q])

TakeNothing(q) ==
  /\ contents[q] = <<>>
  /\ ret' = "nullopt"
  /\ UNCHANGED contents

(* Advancing an iterator discards the oldest element without returning it. *)
Drop(q) ==
  /\ contents[q] # <<>>
  /\ contents' = [contents EXCEPT ![q] = Tail(@)]
  /\ UNCHANGED ret

(* Dereferencing an iterator reads the oldest element where there is one. *)
Peek(q) ==
  /\ ret' = IF contents[q] = <<>> THEN Dead ELSE Head(contents[q])
  /\ UNCHANGED contents

(* Assignment makes q an equal queue and leaves its source as it was. *)
Assign(q, p) ==
  /\ contents' = [contents EXCEPT ![q] = contents[p]]
  /\ UNCHANGED ret

Clear(q) ==
  /\ contents' = [contents EXCEPT ![q] = <<>>]
  /\ UNCHANGED ret

FifoNext ==
  \E q \in Queues :
    \/ \E v \in T : Accept(q, v)
    \/ Refuse(q)
    \/ Take(q)
    \/ TakeNothing(q)
    \/ Drop(q)
    \/ Peek(q)
    \/ \E p \in Queues \ {q} : Assign(q, p)
    \/ Clear(q)

FifoSpec == FifoInit /\ [][FifoNext]_fifoVars
=============================================================================

------------------------- MODULE SequentialEndpoint -------------------------
(***************************************************************************)
(* What the author of a coroutine endpoint reads in its text: a request    *)
(* goes through the awaits of its endpoint one after the other, each with  *)
(* the completion of its own process, and is answered once, at the end.    *)
(* Where that is not what the code does the promise says so: an endpoint   *)
(* that never awaits crashes, and the program with it, and a hasty one may *)
(* be answered after any await but the first.                              *)
(***************************************************************************)
EXTENDS Naturals

CONSTANTS
  Requests,  \* the requests
  Awaits,    \* Awaits[r]: how many processes the endpoint of r awaits
  Hasty      \* the requests whose endpoint's m_done may start as true

VARIABLES
  step,   \* the await the endpoint of r is at: 0 before the first, and
          \* Awaits[r] + 1 after the last
  ready,  \* whether the process of that await has completed
  outcome

sequentialVars == <<step, ready, outcome>>

Init ==
  /\ step = [r \in Requests |-> 0]
  /\ ready = [r \in Requests |-> FALSE]
  /\ outcome = [r \in Requests |-> "none"]

Start(r) ==
  /\ step[r] = 0
  /\ step' = [step EXCEPT ![r] = 1]
  /\ UNCHANGED <<ready, outcome>>

Complete(r) ==
  /\ step[r] \in 1 .. Awaits[r] /\ ~ready[r] /\ outcome[r] = "none"
  /\ ready' = [ready EXCEPT ![r] = TRUE]
  /\ UNCHANGED <<step, outcome>>

Advance(r) ==
  /\ ready[r]
  /\ step' = [step EXCEPT ![r] = @ + 1]
  /\ ready' = [ready EXCEPT ![r] = FALSE]
  /\ UNCHANGED outcome

End(r) ==
  /\ outcome[r] = "none"
  /\ \/ step[r] = Awaits[r] + 1
     \/ r \in Hasty /\ step[r] > 1
  /\ outcome' = [outcome EXCEPT ![r] = IF Awaits[r] = 0 THEN "crashed" ELSE "answered"]
  /\ UNCHANGED <<step, ready>>

Step == \E r \in Requests : Start(r) \/ Complete(r) \/ Advance(r) \/ End(r)

Next == (\A r \in Requests : outcome[r] # "crashed") /\ Step

Spec == Init /\ [][Next]_sequentialVars
=============================================================================

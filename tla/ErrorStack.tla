----------------------------- MODULE ErrorStack -----------------------------
(***************************************************************************)
(* fp::ErrorStack: the errors of each thread, newest on top, in a map that *)
(* all threads share and nothing locks.  A call is a stay in the map (the  *)
(* thread searches it, or inserts its own entry) and then what it does to  *)
(* the thread's own stack.  A loop over iterate(), that of logAll() or of  *)
(* a user, may have any other call of its thread in its body.              *)
(***************************************************************************)
EXTENDS Naturals, Sequences, FiniteSets, SequencesExt

CONSTANTS
  Threads,    \* the threads of the process
  MaxErrors,  \* bound: errors each of them pushes
  MaxNesting  \* bound: loops of one thread inside each other

ASSUME BoundAssumption == MaxErrors \in Nat /\ MaxNesting \in Nat \ {0}

VARIABLES
  stacks,     \* s_stacks, a map from some of the threads to their errors
  at,         \* per thread: the call it is in, and whether that inserts
  iterators,  \* per thread: the iterators of its loops, innermost last
  errors,     \* per thread: how many errors it has pushed; each is a number
  inLoop,     \* per thread: the errors among them it pushed inside a loop
  habits,     \* per thread: whether it has nested loops, or left one early
  reported,   \* per thread: the errors its loops have shown
  repeated,   \* per thread: those they have shown more than once
  undefined   \* the undefined behaviour that has happened, if any

vars == <<stacks, at, iterators, errors, inLoop, habits,
          reported, repeated, undefined>>

Idle == [call |-> "none", inserts |-> FALSE]

Init ==
  /\ stacks = <<>>
  /\ at = [t \in Threads |-> Idle]
  /\ iterators = [t \in Threads |-> <<>>]
  /\ errors = [t \in Threads |-> 0]
  /\ inLoop = [t \in Threads |-> {}]
  /\ habits = [t \in Threads |-> {}]
  /\ reported = [t \in Threads |-> {}] /\ repeated = [t \in Threads |-> {}]
  /\ undefined = "none"

-----------------------------------------------------------------------------
Known(t) == t \in DOMAIN stacks
Stack(t) == IF Known(t) THEN stacks[t] ELSE <<>>
WithStack(t, stack) == [u \in DOMAIN stacks \cup {t} |-> IF u = t THEN stack ELSE stacks[u]]

(* A thread enters the map.  One that inserts, which may rehash, conflicts  *)
(* with whoever else is there.                                              *)
Enter(t, call, inserts) ==
  /\ undefined = "none"
  /\ at' = [at EXCEPT ![t] = [call |-> call, inserts |-> inserts]]
  /\ undefined' = IF \E u \in Threads \ {t} : at[u] # Idle /\ (inserts \/ at[u].inserts)
                    THEN "race" ELSE "none"

(* A thread with its entry found or made: the rest of the call is its own. *)
Inside(t, call, inserts) ==
  undefined = "none" /\ at[t] = [call |-> call, inserts |-> inserts]
Leave(t) == at' = [at EXCEPT ![t] = Idle]

(* push(): find(); operator[] when there is no entry yet. *)
PushErrorBelow(t) ==
  /\ errors' = [errors EXCEPT ![t] = @ + 1]
  /\ stacks' = WithStack(t, <<errors[t] + 1>> \o Stack(t))
  /\ inLoop' = IF iterators[t] = <<>> THEN inLoop
                 ELSE [inLoop EXCEPT ![t] = @ \cup {errors[t] + 1}]
  /\ Leave(t)
  /\ UNCHANGED <<iterators, habits, reported, repeated, undefined>>
PushError(t) ==
  /\ errors' = [errors EXCEPT ![t] = @ + 1]
  /\ stacks' = WithStack(t, Append(Stack(t), errors[t] + 1))
  /\ inLoop' = IF iterators[t] = <<>> THEN inLoop
                 ELSE [inLoop EXCEPT ![t] = @ \cup {errors[t] + 1}]
  /\ Leave(t)
  /\ UNCHANGED <<iterators, habits, reported, repeated, undefined>>

Push(t) ==
  /\ at[t] = Idle /\ errors[t] < MaxErrors
  /\ Enter(t, "push", FALSE)
  /\ UNCHANGED <<stacks, iterators, errors, inLoop, habits, reported, repeated>>
PushFound(t) ==
  /\ Inside(t, "push", FALSE) /\ Known(t)
  /\ PushError(t)
PushInserting(t) ==
  /\ Inside(t, "push", FALSE) /\ ~Known(t)
  /\ Enter(t, "push", TRUE)
  /\ UNCHANGED <<stacks, iterators, errors, inLoop, habits, reported, repeated>>
PushInserted(t) ==
  /\ Inside(t, "push", TRUE)
  /\ PushError(t)

-----------------------------------------------------------------------------
(* logAll(): find(), and nothing more when there is no error to show. *)
LogInserting(t) ==
  /\ at[t] = Idle /\ Len(iterators[t]) < MaxNesting
  /\ Enter(t, "log", ~Known(t))
  /\ UNCHANGED <<stacks, iterators, errors, inLoop, habits, reported, repeated>>
LogAll(t) ==
  /\ at[t] = Idle /\ Len(iterators[t]) < MaxNesting
  /\ Enter(t, "log", FALSE)
  /\ UNCHANGED <<stacks, iterators, errors, inLoop, habits, reported, repeated>>
LogNothing(t) ==
  /\ Inside(t, "log", FALSE) /\ Stack(t) = <<>>
  /\ Leave(t)
  /\ UNCHANGED <<stacks, iterators, errors, inLoop, habits, reported, repeated,
                 undefined>>
LogLoop(t) ==
  /\ Inside(t, "log", FALSE) /\ Stack(t) # <<>>
  /\ Enter(t, "begin", FALSE)
  /\ UNCHANGED <<stacks, iterators, errors, inLoop, habits, reported, repeated>>

(* begin(): operator[], which makes an entry for a thread that has none; no *)
(* error, no loop.                                                          *)
Iterate(t) ==
  /\ at[t] = Idle /\ Len(iterators[t]) < MaxNesting
  /\ Enter(t, "begin", ~Known(t))
  /\ UNCHANGED <<stacks, iterators, errors, inLoop, habits, reported, repeated>>
Begin(t) ==
  /\ undefined = "none" /\ at[t].call = "begin"
  /\ stacks' = WithStack(t, Stack(t))
  /\ iterators' = IF Stack(t) = <<>> THEN iterators
                    ELSE [iterators EXCEPT ![t] = Append(@, [view |-> Last(Stack(t)), shown |-> FALSE])]
  /\ habits' = IF iterators[t] = <<>> THEN habits
                 ELSE [habits EXCEPT ![t] = @ \cup {"nested"}]
  /\ Leave(t)
  /\ UNCHANGED <<errors, inLoop, reported, repeated, undefined>>

(* The body of the innermost loop shows the error, through a view of a      *)
(* string that some other loop of the thread may have destroyed by then.    *)
Show(t) ==
  LET loop == Len(iterators[t]) IN
  /\ undefined = "none" /\ at[t] = Idle
  /\ loop > 0 /\ ~iterators[t][loop].shown
  /\ LET error == iterators[t][loop].view IN
       IF \E i \in DOMAIN Stack(t) : Stack(t)[i] = error
         THEN /\ reported' = [reported EXCEPT ![t] = @ \cup {error}]
              /\ repeated' = [repeated EXCEPT ![t] = @ \cup ({error} \cap reported[t])]
              /\ UNCHANGED undefined
         ELSE undefined' = "dangling view" /\ UNCHANGED <<reported, repeated>>
  /\ iterators' = [iterators EXCEPT ![t][loop].shown = TRUE]
  /\ UNCHANGED <<stacks, at, errors, inLoop, habits>>

(* operator++: pop(), and then the new top. *)
Advance(t) ==
  /\ at[t] = Idle /\ iterators[t] # <<>> /\ Last(iterators[t]).shown
  /\ Enter(t, "advance", FALSE)
  /\ UNCHANGED <<stacks, iterators, errors, inLoop, habits, reported, repeated>>
Proceed(t, entries, left) ==
  /\ Inside(t, "advance", FALSE) /\ stacks[t] # <<>>
  /\ stacks' = entries
  /\ iterators' = [iterators EXCEPT ![t] =
                     IF left = <<>> THEN Front(@)
                     ELSE Append(Front(@), [view |-> Last(left), shown |-> FALSE])]
  /\ Leave(t)
  /\ UNCHANGED <<errors, inLoop, habits, reported, repeated, undefined>>

Popped(t) == WithStack(t, Front(stacks[t]))
NextErasing(t) ==
  Proceed(t, IF Len(stacks[t]) > 1 THEN Popped(t)
                                   ELSE [u \in DOMAIN stacks \ {t} |-> stacks[u]],
          Front(stacks[t]))
NextKeepingLast(t) ==
  Proceed(t, IF Len(stacks[t]) > 1 THEN Popped(t) ELSE stacks, Front(stacks[t]))
NextSkippingLast(t) ==
  Proceed(t, IF Len(stacks[t]) > 2 THEN Popped(t) ELSE WithStack(t, <<>>),
          IF Len(stacks[t]) > 2 THEN Front(stacks[t]) ELSE <<>>)
NextBeforePop(t) ==
  Proceed(t, Popped(t), IF Len(stacks[t]) > 1 THEN stacks[t] ELSE <<>>)
NextError(t) == Proceed(t, Popped(t), Front(stacks[t]))
PopEmpty(t) ==
  /\ Inside(t, "advance", FALSE) /\ stacks[t] = <<>>
  /\ undefined' = "pop of an empty stack"
  /\ UNCHANGED <<stacks, at, iterators, errors, inLoop, habits, reported, repeated>>

(* A user's loop may be left before its end. *)
Break(t) ==
  /\ undefined = "none" /\ at[t] = Idle
  /\ iterators[t] # <<>> /\ Last(iterators[t]).shown
  /\ iterators' = [iterators EXCEPT ![t] = Front(@)]
  /\ habits' = [habits EXCEPT ![t] = @ \cup {"left"}]
  /\ UNCHANGED <<stacks, at, errors, inLoop, reported, repeated, undefined>>

-----------------------------------------------------------------------------
Handle(t) ==
  \/ PushFound(t) \/ PushInserting(t) \/ PushInserted(t)
  \/ LogAll(t) \/ LogNothing(t) \/ LogLoop(t) \/ Iterate(t) \/ Begin(t)
  \/ Advance(t) \/ NextError(t) \/ PopEmpty(t) \/ Break(t)

Step(t) == Push(t) \/ Show(t) \/ Handle(t)

Ended == undefined # "none" /\ UNCHANGED vars

Next == (\E t \in Threads : Step(t)) \/ Ended

Spec == Init /\ [][Next]_vars

-----------------------------------------------------------------------------
(* Types; the newest error of a thread is on top. *)
TypeOK ==
  /\ DOMAIN stacks \subseteq Threads
  /\ \A t \in DOMAIN stacks :
       /\ stacks[t] \in Seq(1 .. errors[t])
       /\ \A i, j \in DOMAIN stacks[t] : i < j => stacks[t][i] < stacks[t][j]
  /\ at \in [Threads -> [call : {"none", "push", "log", "begin", "advance"},
                         inserts : BOOLEAN]]
  /\ \A t \in Threads :
       /\ iterators[t] \in Seq([view : 1 .. errors[t], shown : BOOLEAN])
       /\ Len(iterators[t]) <= MaxNesting
       /\ errors[t] \in 0 .. MaxErrors
       /\ inLoop[t] \subseteq 1 .. errors[t]
       /\ habits[t] \subseteq {"nested", "left"}
       /\ repeated[t] \subseteq reported[t] /\ reported[t] \subseteq 1 .. errors[t]
  /\ undefined \in {"none", "race", "dangling view", "pop of an empty stack"}

(* Threads race in the map only while one of them makes its entry, for its  *)
(* first error or its first loop over none: once every thread has had an    *)
(* error, errors are handled without a race, and logAll() is never the      *)
(* cause of one.                                                            *)
RaceNeedsFirstCall ==
  undefined = "race" =>
    \E t \in Threads : at[t].inserts /\ at[t].call \in {"push", "begin"} /\ errors[t] = 0

(* An error is shown at some time or still in its stack, whatever loops and *)
(* early exits there are; only errors that were pushed in the body of a     *)
(* loop may be dropped unseen, by the step of that loop.                    *)
LostOnlyInLoop ==
  undefined = "none" =>
    \A t \in Threads : \A error \in 1 .. errors[t] :
      error \in ToSet(Stack(t)) \cup reported[t] \cup inLoop[t]

(* A thread that has only shown errors in the body of its loops, to their   *)
(* end, is shown each error once, the newest that is left first.            *)
ShownOnce ==
  undefined = "none" =>
    \A t \in Threads : habits[t] = {} /\ inLoop[t] = {} =>
      /\ repeated[t] = {}
      /\ iterators[t] # <<>> => Last(iterators[t]).view = Last(Stack(t))
      /\ \A error \in ToSet(Stack(t)) \cap reported[t] :
           iterators[t] # <<>> /\ Last(iterators[t]) = [view |-> error, shown |-> TRUE]

(* A loop pops from an empty stack, or looks at a destroyed string, only    *)
(* when its thread has run a loop inside a loop: errors pushed in a body    *)
(* and loops left early are harmless.                                       *)
UndefinedNeedsNesting ==
  undefined \in {"dangling view", "pop of an empty stack"} =>
    \E t \in Threads : "nested" \in habits[t]
=============================================================================

----------------------------- MODULE ErrorNames -----------------------------
(***************************************************************************)
(* ErrorStack::push with a value to return: the overload puts the name of a*)
(* fp::Result, which Enums finds, before the text of the error, and a loop *)
(* over the errors reads it there.  Every step is one of ErrorStack; what  *)
(* is added is the enum that fp::Result is, any one, what pushes are given,*)
(* what their texts start with, and what has been read.                    *)
(***************************************************************************)
EXTENDS ErrorStack, Enums

VARIABLES
  results,  \* fp::Result, one of Enums for good
  pushed,   \* per thread: the result each of its pushes was given, or NoName
  texts,    \* per thread: what the text of each of them starts with: a name, or none
  read      \* per thread: the errors its loops have shown, as they were read

namedVars == <<vars, results, pushed, texts, read>>

(* A result passed by value, or anything else: a text alone, a number,      *)
(* std::nullopt, std::unexpected.  A variable is something else too: the    *)
(* type deduced for it is a reference, which is not the same as fp::Result. *)
Arguments == results.declared \cup {NoName}

Prefix(argument) ==
  IF argument = NoName THEN <<>> ELSE <<NameOf(results, argument)>>

NamedInit ==
  /\ Init
  /\ results \in Enums
  /\ pushed = [t \in Threads |-> <<>>] /\ texts = [t \in Threads |-> <<>>]
  /\ read = [t \in Threads |-> {}]

PushNamed(t, argument) ==
  /\ Push(t)
  /\ pushed' = [pushed EXCEPT ![t] = Append(@, argument)]
  /\ texts' = [texts EXCEPT ![t] = Append(@, Prefix(argument))]
  /\ UNCHANGED <<results, read>>

ShowNamed(t) ==
  /\ Show(t)
  /\ LET error == Last(iterators[t]).view IN
       read' = IF undefined' = "none"
                 THEN [read EXCEPT ![t] = @ \cup {[error |-> error, text |-> texts[t][error]]}]
                 ELSE read
  /\ UNCHANGED <<results, pushed, texts>>

Unnamed == UNCHANGED <<results, pushed, texts, read>>

NamedNext ==
  \/ \E t \in Threads :
       \/ \E argument \in Arguments : PushNamed(t, argument)
       \/ ShowNamed(t)
       \/ Handle(t) /\ Unnamed
  \/ Ended /\ Unnamed

NamedSpec == NamedInit /\ [][NamedNext]_namedVars

-----------------------------------------------------------------------------
(* Whatever loops and pushes a thread has made in between, an error that it *)
(* reads starts with the name of the very result that it was pushed with,   *)
(* never with that of another; with "<invalid>" only when the range declared*)
(* for fp::Result leaves out the enumerator, or its name is just the tag;   *)
(* and with no name only when the push was given no result as a value.      *)
ShownByName ==
  \A t \in Threads : \A shown \in read[t] :
    LET result == pushed[t][shown.error] IN
      IF result = NoName THEN shown.text = <<>>
      ELSE \/ shown.text = <<result>>
           \/ shown.text = <<NoName>> /\ result \notin Scanned(results) \ results.short
=============================================================================

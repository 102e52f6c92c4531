---------------------------- MODULE MCErrorNames ----------------------------
(***************************************************************************)
(* An instance of ErrorStack and ErrorNames for TLC: enums of up to two    *)
(* enumerators, of types narrower than the int of two bits, as wide or     *)
(* wider, in scans that begin below zero, as that of fp::Result, or end    *)
(* beyond the type; and an enum without enumerators, whose values no push  *)
(* is given, for what two threads do to each other.                        *)
(***************************************************************************)
EXTENDS ErrorNames

Declared(type) == {{v, 1} \cap Stored!Values(type) : v \in Stored!Values(type)}

WithoutNames ==
  [signed |-> FALSE, width |-> 1, flag |-> FALSE,
   start |-> 0, max |-> 0, declared |-> {}, short |-> {}]

MCEnums ==
  {WithoutNames} \cup
  UNION {
    [signed : {type.signed}, width : {type.width}, flag : {FALSE},
     start : {-2}, max : {1, 5}, declared : Declared(type), short : {{}}]
    \cup
    [signed : {type.signed}, width : {type.width}, flag : {FALSE},
     start : {1}, max : {3}, declared : Declared(type), short : {{1}}]
    \cup
    {e \in [signed : {type.signed}, width : {type.width}, flag : {TRUE},
            start : {0}, max : {1, 3}, declared : Declared(type), short : {{}}] :
       \A i \in e.start .. e.max : i < e.width => i < IntWidth}
    : type \in Stored!Types}

(* Bound: with enumerators, one thread alone makes calls, either of them. *)
OneCaller ==
  \/ results = WithoutNames
  \/ Cardinality({t \in Threads : at[t] # Idle \/ errors[t] > 0 \/ Known(t)}) <= 1

Symmetry == Permutations(Threads)
=============================================================================

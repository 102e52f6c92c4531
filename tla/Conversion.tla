----------------------------- MODULE Conversion -----------------------------
(***************************************************************************)
(* fp::deserialize for the integer types: what value a text becomes.  A    *)
(* text is its leading decimal number, or NoNumber; what follows the number*)
(* is never looked at.  An optional value is a sequence of at most one     *)
(* element.                                                                *)
(***************************************************************************)
EXTENDS Integers, Sequences

CONSTANTS
  LongWidth,  \* the bits of long and of long long
  NoNumber    \* a text that does not start with a number

ASSUME LongWidthAssumption == LongWidth \in Nat \ {0}
ASSUME NoNumberAssumption == NoNumber \notin Int

Types == [signed : BOOLEAN, width : 1 .. LongWidth]

Values(type) ==
  IF type.signed THEN -(2 ^ (type.width - 1)) .. 2 ^ (type.width - 1) - 1
                 ELSE 0 .. 2 ^ type.width - 1

(* A conversion to the type: modulo 2^width. *)
Narrowed(n, type) ==
  LET low == IF type.signed THEN -(2 ^ (type.width - 1)) ELSE 0
  IN ((n - low) % (2 ^ type.width)) + low

Long(type) == [type EXCEPT !.width = LongWidth]

(* std::stol, std::stoul and their long long versions throw for a text      *)
(* without a number and for one out of range; the unsigned ones negate      *)
(* modulo 2^LongWidth.                                                      *)
InRangeSigned(n, type) == n \in Values([signed |-> TRUE, width |-> LongWidth])
InRange(n, type) ==
  IF type.signed THEN n \in Values(Long(type))
                 ELSE n \in Values(Long(type)) \/ -n \in Values(Long(type))

Deserialize(type, text) ==
  IF text = NoNumber \/ ~InRange(text, type) THEN <<>>
  ELSE <<Narrowed(Narrowed(text, Long(type)), type)>>
=============================================================================

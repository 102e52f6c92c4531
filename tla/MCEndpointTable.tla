-------------------------- MODULE MCEndpointTable --------------------------
(***************************************************************************)
(* An instance of EndpointTable for TLC: templates of equal and different  *)
(* lengths, with a parameter at the end, in the middle and twice, and all  *)
(* routes of up to four symbols over '/' and one letter; bodies of types    *)
(* that are narrower than long or as wide.                                 *)
(***************************************************************************)
EXTENDS EndpointTable

CONSTANTS p, q

(* p is {p}, q is {q:not_empty}. *)
MCName == [s \in Specifiers |-> IF s = p THEN "p" ELSE "q"]
MCWidth == [s \in Specifiers |-> IF s = p THEN 3 ELSE 13]
MCGarbage == {<<>>, <<"b", "/">>}

MCTemplates ==
  { <<"/", "a">>, <<"/", "b">>, <<"/", "a", "/", "a">>, <<"/", p>>,
    <<"/", p, "/", "a">>, <<"/", "a", "/", q>>,
    <<"/", p, "/", p>> }

MCRoutes == BoundedSeq({"/", "a"}, 4) \cup
  { <<"/", "b">>, <<"b">>, <<"/", "b", "/">>, <<"/", "b", "/", "a">>,
    <<"/", "b", "/", "a", "b">>, <<"/", "b", "/", "b", "a">> }

MCBodies == {-8, -7, -5, -4, -3, -2, -1, 0, 1, 2, 3, 4, 7, 8, NoNumber, NoBlankLine}

Int2 == [signed |-> TRUE, width |-> 2]
Uint2 == [signed |-> FALSE, width |-> 2]
Int3 == [signed |-> TRUE, width |-> 3]
Uint3 == [signed |-> FALSE, width |-> 3]
MCBodyType == [t \in MCTemplates |->
  CASE t = <<"/", "a">> -> Int2
    [] t = <<"/", p>> -> Uint3
    [] t = <<"/", "a", "/", q>> -> Int3
    [] t = <<"/", "b">> -> Uint2
    [] OTHER -> NoBody]
=============================================================================

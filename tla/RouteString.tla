---------------------------- MODULE RouteString ----------------------------
(***************************************************************************)
(* fp::RouteString: which routes are instances of a template, and what its *)
(* parameters are, by position and by name.  A route is a sequence of      *)
(* symbols, "/" among them; in a template one symbol stands for a whole    *)
(* parameter specifier, {name} or {name:not_empty}, whose name has no '/'. *)
(* A template without parameters is a RouteString<>, which compares        *)
(* strings.                                                                *)
(***************************************************************************)
EXTENDS Naturals, Sequences, FiniteSets, FiniteSetsExt

CONSTANTS
  Specifiers,  \* the specifiers of string parameters
  NotEmpty,    \* those with :not_empty
  Name,        \* Name[s]: the name in the specifier s
  Width,       \* Width[s]: its length, braces included
  Garbage      \* texts that an undefined parameter may turn out to be

ASSUME SpecifiersAssumption ==
  /\ NotEmpty \subseteq Specifiers /\ Width \in [Specifiers -> Nat \ {0}]
  /\ "/" \notin Specifiers

Holes(template) == {i \in DOMAIN template : template[i] \in Specifiers}

(* __generateRouteString throws, at compile time, for any other template. *)
Valid(template) ==
  \A i \in Holes(template) :
    /\ i > 1 /\ template[i - 1] = "/"
    /\ i = Len(template) \/ template[i + 1] = "/"

(* getString().size(): one pair for each character. *)
Characters(template) ==
  UNION {{i} \X (1 .. IF i \in Holes(template) THEN Width[template[i]] ELSE 1) :
           i \in DOMAIN template}
Size(template) == Cardinality(Characters(template))

-----------------------------------------------------------------------------
(* std::find from position i on: the end is one past the last position. *)
Find(s, i, S) == Min({j \in i .. Len(s) : s[j] \in S} \cup {Len(s) + 1})

(* RouteString::isInstance.  matches[<<i, j>>] is what the loop returns     *)
(* from beginStr = i and beginRoute = j on: the literal text up to the next *)
(* parameter has to be there, and both go on at their next '/'.             *)
StartsWithMore(route, j, text) ==
  /\ Len(text) < Len(route) + 1 - j
  /\ SubSeq(route, j, j + Len(text) - 1) = text
StartsWith(route, j, text) ==
  /\ Len(text) <= Len(route) + 1 - j
  /\ SubSeq(route, j, j + Len(text) - 1) = text

EndUnchecked(template, i, route, j) == TRUE
EndTogether(template, i, route, j) == (i > Len(template)) <=> (j > Len(route))

Round(matches, template, i, route, j) ==
  \/ i > Len(template) \/ j > Len(route)
  \/ LET hole == Find(template, i, Specifiers)
         nextI == Find(template, hole, {"/"})
         nextJ == Find(route, j + hole - i, {"/"})
     IN /\ StartsWith(route, j, SubSeq(template, i, hole - 1))
        /\ EndTogether(template, nextI, route, nextJ)
        /\ matches[<<nextI, nextJ>>]

IsInstance(template, route) ==
  IF Holes(template) = {} THEN template = route
  ELSE LET matches[p \in (1 .. Len(template) + 1) \X (1 .. Len(route) + 1)] ==
             Round(matches, template, p[1], route, p[2])
       IN matches[<<1, 1>>]

(* __generateRouteString: the names of the parameters, in their order. *)
Nth(S, k) == CHOOSE i \in S : Cardinality({j \in S : j <= i}) = k
ParamNames(template) ==
  [k \in 1 .. Cardinality(Holes(template)) |-> Name[template[Nth(Holes(template), k)]]]

(* RouteStringExtractor<std::string>::extract *)
Refuses(template, k, text) ==
  template[Nth(Holes(template), k)] \in NotEmpty /\ text = <<>>

(* __extractParamFromRouteString: what it may find the parameters to be;    *)
(* too few where the program has died.  The iterators of the first one are  *)
(* beyond the end of an empty route, and to make a string of that is fatal. *)
(* The iterator that the search of a second parameter starts from points    *)
(* into the other string, so that it is any text, if it is one at all.  The *)
(* same search is made behind an only parameter; it ends at the '/' of the  *)
(* request's HTTP/1.1 at the latest, and nothing uses its result.           *)
FirstParam(template, route) ==
  LET hole == Min(Holes(template)) IN SubSeq(route, hole, Find(route, hole, {"/"}) - 1)

ExtractParams(template, route) ==
  LET more == Cardinality(Holes(template)) - 1
      first == FirstParam(template, route)
      dead == <<>>
  IN IF Holes(template) = {} THEN {<<>>}
     ELSE IF Len(route) < Min(Holes(template)) - 1 THEN {dead}
     ELSE IF more = 0 THEN {<<first>>}
     ELSE {<<first>> \o rest : rest \in [1 .. more -> Garbage]}
            \cup (IF Refuses(template, 1, first) THEN {} ELSE {dead})

(* Request::getParam(name), an optional value: markRuntimeReady has taken   *)
(* the address of each parameter under its name.                            *)
GetParamLast(template, params, name) ==
  LET having == {k \in DOMAIN params : ParamNames(template)[k] = name}
  IN IF having = {} THEN <<>> ELSE <<params[Max(having)]>>
GetParam(template, params, name) ==
  LET having == {k \in DOMAIN params : ParamNames(template)[k] = name}
  IN IF having = {} THEN <<>> ELSE <<params[Min(having)]>>

-----------------------------------------------------------------------------
(* The language that a template describes: the same segments between        *)
(* slashes, a parameter standing for any one of them.                       *)
Slashes(s) == {i \in DOMAIN s : s[i] = "/"}
Segment(s, k) ==
  LET first == IF k = 0 THEN 1 ELSE Nth(Slashes(s), k) + 1
  IN SubSeq(s, first, Find(s, first, {"/"}) - 1)
Final(s) == Cardinality(Slashes(s))

Fits(pattern, text) ==
  pattern = text \/ \E specifier \in Specifiers : pattern = <<specifier>>

Describes(template, route) ==
  /\ Final(template) = Final(route)
  /\ \A k \in 0 .. Final(template) : Fits(Segment(template, k), Segment(route, k))

(* A route whose last segment only starts with the template's. *)
DescribesPrefix(template, route) ==
  /\ Holes(template) # {} /\ Final(template) = Final(route)
  /\ \A k \in 0 .. Final(template) - 1 : Fits(Segment(template, k), Segment(route, k))
  /\ LET pattern == Segment(template, Final(template))
         text == Segment(route, Final(route))
     IN Len(pattern) < Len(text) /\ SubSeq(text, 1, Len(pattern)) = pattern
=============================================================================

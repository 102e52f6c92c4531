--------------------------- MODULE EndpointTable ---------------------------
(***************************************************************************)
(* Server::m_endpoints: the endpoints a program registers with get, post   *)
(* and the like, and the look-up of a request among them by the job of     *)
(* Server::m_handleRequest, up to what its endpoint is given: the parameters*)
(* of the route and the body.                                              *)
(***************************************************************************)
EXTENDS RouteString, Conversion, SequencesExt

CONSTANTS
  Methods,           \* the HTTP methods
  Templates,         \* the templates a program registers endpoints for
  Routes,            \* the routes requests ask for
  MaxRegistrations,  \* bound: endpoints registered
  BodyType,          \* BodyType[t]: the integer type that the endpoints of
                     \* template t take as a body, or NoBody
  Bodies,            \* the bodies of requests
  NoBlankLine,       \* a request without the blank line before its body
  NoBody,            \* an endpoint without a body
  NoAnswer           \* no request has been looked up

ASSUME TemplatesAssumption == \A t \in Templates : t \in Seq(Range(t)) /\ Valid(t)
ASSUME RoutesAssumption == \A r \in Routes : r \in Seq(Range(r))
ASSUME BodyAssumption ==
  /\ BodyType \in [Templates -> Types \cup {NoBody}]
  /\ NoNumber \in Bodies /\ Bodies \subseteq Int \cup {NoNumber, NoBlankLine}
  /\ NoBlankLine \notin Int
ASSUME RegistrationsAssumption == MaxRegistrations \in Nat

VARIABLES
  endpoints,   \* m_endpoints: entries of a route and the endpoint, by the
               \* number of its registration, of each of its methods
  registered,  \* every registration so far, in order: what the program asked for
  answer       \* the last request, and what the look-up found

vars == <<endpoints, registered, answer>>

Init == endpoints = <<>> /\ registered = <<>> /\ answer = NoAnswer

-----------------------------------------------------------------------------
(* Server::m_addEndpoint: only the first entry whose route is at least as   *)
(* long can be the route's own.                                             *)
PlaceAfter(route) ==
  Min({i \in DOMAIN endpoints : Size(endpoints[i].route) > Size(route)}
        \cup {Len(endpoints) + 1})
Place(route) ==
  Min({i \in DOMAIN endpoints : Size(endpoints[i].route) >= Size(route)}
        \cup {Len(endpoints) + 1})

IsEntryNever(i, route) == FALSE
IsEntry(i, route) == i \in DOMAIN endpoints /\ endpoints[i].route = route

With(methods, method, n) == [m \in DOMAIN methods \cup {method} |->
                              IF m = method THEN n ELSE methods[m]]

NoMethods(method, n) == <<>>
FirstMethod(method, n) == [m \in {method} |-> n]
AddEndpoint(method, route) ==
  LET place == Place(route)
      n == Len(registered) + 1
      entry == [route |-> route, methods |-> FirstMethod(method, n)]
  IN /\ answer = NoAnswer
     /\ n <= MaxRegistrations
     /\ registered' = Append(registered, [method |-> method, route |-> route])
     /\ endpoints' =
          IF IsEntry(place, route)
            THEN [endpoints EXCEPT ![place].methods = With(@, method, n)]
            ELSE InsertAt(endpoints, place, entry)
     /\ UNCHANGED answer

(* The dispatch: the first entry the route is an instance of, its endpoint  *)
(* for the method, and the first parameter.                                 *)
Matching(route) == {i \in DOMAIN endpoints : IsInstance(endpoints[i].route, route)}

NotFound(method, route) ==
  /\ answer = NoAnswer
  /\ Matching(route) = {}
  /\ answer' = [method |-> method, route |-> route, code |-> "404"]
  /\ UNCHANGED <<endpoints, registered>>

(* Endpoint::handleRequest: the parameters, then the body, if it has them.  *)
(* Without a blank line, find() + 4 wraps round to 3: the body starts at the*)
(* fourth character of the request, which is in the method or just after it *)
(* and starts no number.                                                    *)
BodyText(body) == IF body = NoBlankLine THEN NoNumber ELSE body

Found(method, route, body) ==
  LET i == Min(Matching(route))
      template == endpoints[i].route
      type == BodyType[template]
      known == method \in DOMAIN endpoints[i].methods
      value == IF type = NoBody THEN <<>> ELSE Deserialize(type, BodyText(body))
  IN /\ answer = NoAnswer
     /\ Matching(route) # {}
     /\ type = NoBody \/ ~known => body = NoNumber  \* a body nobody reads
     /\ \E params \in IF known THEN ExtractParams(template, route) ELSE {<<>>} :
          answer' = [method |-> method, route |-> route, body |-> body, entry |-> i,
                     params |-> params, value |-> value,
                     code |->
                       IF ~known THEN "405"
                       ELSE IF Len(params) < Cardinality(Holes(template)) THEN "crashed"
                       ELSE IF \/ \E k \in DOMAIN params : Refuses(template, k, params[k])
                               \/ type # NoBody /\ value = <<>> THEN "400"
                       ELSE "200"]
     /\ UNCHANGED <<endpoints, registered>>

NextRequest ==
  /\ answer # NoAnswer
  /\ answer' = NoAnswer
  /\ UNCHANGED <<endpoints, registered>>

Next ==
  \/ NextRequest
  \/ \E method \in Methods :
       \/ \E route \in Templates : AddEndpoint(method, route)
       \/ \E route \in Routes :
            \/ NotFound(method, route)
            \/ \E body \in Bodies : Found(method, route, body)

Spec == Init /\ [][Next]_vars

-----------------------------------------------------------------------------
TypeOK ==
  /\ registered \in Seq([method : Methods, route : Templates])
  /\ Len(registered) <= MaxRegistrations
  /\ \A i \in DOMAIN endpoints :
       /\ endpoints[i].route \in Templates
       /\ endpoints[i].methods \in
            UNION {[M -> DOMAIN registered] : M \in (SUBSET Methods) \ {{}}}
  /\ answer # NoAnswer => answer.code \in {"200", "400", "404", "405", "crashed"}

Entries(route) == {i \in DOMAIN endpoints : endpoints[i].route = route}

(* A route may have several entries, but for each method the first that has *)
(* it holds the endpoint that was registered last.                          *)
LatestWins ==
  \A n \in DOMAIN registered :
    LET method == registered[n].method
        having == {i \in Entries(registered[n].route) :
                     method \in DOMAIN endpoints[i].methods}
    IN /\ having # {}
       /\ endpoints[Min(having)].methods[method] =
            Max({k \in DOMAIN registered : registered[k] = registered[n]})

(* Only routes of one length can come between two entries of a route: with  *)
(* routes of different lengths, each has one entry.                         *)
SplitOnlyByEqualLength ==
  \A i, j \in DOMAIN endpoints :
    i < j /\ endpoints[i].route = endpoints[j].route =>
      /\ \A k \in i .. j : Size(endpoints[k].route) = Size(endpoints[i].route)
      /\ \E k \in i .. j : endpoints[k].route # endpoints[i].route

(* A request for a route that a registered template describes finds an      *)
(* entry, the one with the shortest template of all that match.             *)
DescribedIsFound ==
  answer # NoAnswer =>
    \A n \in DOMAIN registered :
      Describes(registered[n].route, answer.route) =>
        /\ answer.code # "404"
        /\ Size(endpoints[answer.entry].route) <= Size(registered[n].route)

(* A request finds an entry only if its template describes the route, but   *)
(* for two liberties of isInstance: an empty route is an instance of every  *)
(* template with parameters, and a last literal segment may be prolonged.   *)
FoundIsDescribed ==
  answer # NoAnswer /\ answer.code # "404" =>
    LET template == endpoints[answer.entry].route IN
      \/ Describes(template, answer.route)
      \/ DescribesPrefix(template, answer.route)
      \/ Holes(template) # {} /\ answer.route = <<>>

IsNumber(body, type) == body \in Int /\ InRange(body, type)

(* The endpoint finds under each name of its template the segment of the    *)
(* route in the place of the first parameter of that name, and nothing under*)
(* any other name; 400 is answered just when {..:not_empty} finds that empty*)
(* or the endpoint takes a body and the request has none, or none that is a *)
(* number in the range of a long.  From a second parameter on nothing is    *)
(* sure, nor with an empty route.                                           *)
NamedParamIsSegment ==
  answer # NoAnswer /\ answer.code \in {"200", "400", "crashed"} =>
    LET template == endpoints[answer.entry].route
        hole == Min(Holes(template))
        segment == Segment(answer.route, Cardinality({i \in Slashes(template) : i < hole}))
        unread == BodyType[template] # NoBody /\ ~IsNumber(answer.body, BodyType[template])
        refused == \/ unread
                   \/ Holes(template) # {} /\ template[hole] \in NotEmpty /\ segment = <<>>
    IN \/ Holes(template) # {} /\ answer.route = <<>>
       \/ /\ refused => answer.code # "200"
          /\ Cardinality(Holes(template)) < 2 => answer.code = (IF refused THEN "400" ELSE "200")
          /\ answer.code = "200" =>
               \A s \in Specifiers :
                 LET found == GetParam(template, answer.params, Name[s]) IN
                 /\ found = <<>> <=> \A i \in Holes(template) : Name[template[i]] # Name[s]
                 /\ Holes(template) # {} /\ Name[s] = Name[template[hole]] =>
                      found = <<segment>>

(* The endpoint is given the number in the body when its type can hold it;  *)
(* otherwise, as long as a long can hold the number, the only value of its  *)
(* type congruent to it modulo 2^width, and never one outside the type.  A  *)
(* number that the type can hold is never refused.                          *)
BodyIsValue ==
  answer # NoAnswer /\ answer.code \in {"200", "400"} /\ answer.body \in Int =>
    LET type == BodyType[endpoints[answer.entry].route]
        value == answer.value
    IN /\ answer.body \in Values(type) => value = <<answer.body>>
       /\ value # <<>> => /\ value[1] \in Values(type)
                          /\ (value[1] - answer.body) % (2 ^ type.width) = 0

(* "Can't send 405 after invalid method" (server.cpp:144): 405 is for a     *)
(* method that was not registered for the route that was found.             *)
NotAllowedIsNotRegistered ==
  answer # NoAnswer /\ answer.code = "405" =>
    ~ \E n \in DOMAIN registered :
        /\ registered[n].method = answer.method
        /\ registered[n].route = endpoints[answer.entry].route
=============================================================================

------------------------ MODULE EndpointTableProofs ------------------------
(***************************************************************************)
(* Proofs about EndpointTable for any methods, templates, routes and number*)
(* of registrations.  IInv says that the table is sorted by length, which  *)
(* makes the first entry that is long enough the only place where a route  *)
(* can be or belongs, that of each registration that no later one repeats  *)
(* the first entry with its route and method has the endpoint, and what the*)
(* answer to the last request is made of.  What isInstance and deserialize *)
(* compute plays no part in the induction: the lemmas about them (those on *)
(* routes are in RouteStringProofs) say what such an answer means.         *)
(***************************************************************************)
EXTENDS EndpointTable, RouteStringProofs

Registration == [method : Methods, route : Templates]
ByMethod == UNION {[M -> 1 .. MaxRegistrations] : M \in (SUBSET Methods) \ {{}}}
Entry == [route : Templates, methods : ByMethod]

Typed ==
  /\ registered \in Seq(Registration) /\ Len(registered) <= MaxRegistrations
  /\ endpoints \in Seq(Entry)
  /\ answer # NoAnswer => /\ answer.code \in {"200", "400", "404", "405", "crashed"}
                          /\ answer.route \in Routes

Sorted ==
  \A i, j \in DOMAIN endpoints :
    i <= j => Size(endpoints[i].route) <= Size(endpoints[j].route)

(* Every endpoint is one that was registered. *)
Numbered ==
  \A i \in DOMAIN endpoints :
    \A m \in DOMAIN endpoints[i].methods : endpoints[i].methods[m] \in DOMAIN registered

Has(i, method, route) ==
  endpoints[i].route = route /\ method \in DOMAIN endpoints[i].methods

Newest(n) == \A k \in DOMAIN registered : k > n => registered[k] # registered[n]

(* The first entry with its route and method has a registration's endpoint. *)
FirstHas(i, n) ==
  LET method == registered[n].method
      route == registered[n].route
  IN /\ Has(i, method, route) /\ endpoints[i].methods[method] = n
     /\ \A j \in DOMAIN endpoints : j < i => ~Has(j, method, route)
Latest ==
  \A n \in DOMAIN registered : Newest(n) => \E i \in DOMAIN endpoints : FirstHas(i, n)

(* Between two entries of a route there is one of another. *)
Split ==
  \A i, j \in DOMAIN endpoints :
    i < j /\ endpoints[i].route = endpoints[j].route =>
      \E k \in i .. j : endpoints[k].route # endpoints[i].route

(* The entry that was found is the first of those that match, and for 405   *)
(* it has no endpoint for the method; for 404 none matches.                 *)
Looked ==
  answer # NoAnswer =>
    IF answer.code = "404" THEN Matching(answer.route) = {}
    ELSE /\ answer.entry \in Matching(answer.route)
         /\ \A i \in Matching(answer.route) : answer.entry <= i
         /\ answer.code = "405" <=>
              answer.method \notin DOMAIN endpoints[answer.entry].methods

(* What the endpoint of the entry was given, and what it made of that. *)
Given ==
  answer # NoAnswer /\ answer.code \notin {"404", "405"} =>
    LET template == endpoints[answer.entry].route
        type == BodyType[template]
    IN /\ answer.params \in ExtractParams(template, answer.route)
       /\ answer.value =
            IF type = NoBody THEN <<>> ELSE Deserialize(type, BodyText(answer.body))
       /\ type = NoBody => answer.body = NoNumber
       /\ answer.body \in Bodies
       /\ answer.code =
            IF Len(answer.params) < Cardinality(Holes(template)) THEN "crashed"
            ELSE IF \/ \E k \in DOMAIN answer.params : Refuses(template, k, answer.params[k])
                    \/ type # NoBody /\ answer.value = <<>> THEN "400"
            ELSE "200"

IInv == Typed /\ Sorted /\ Numbered /\ Latest /\ Split /\ Looked /\ Given

-----------------------------------------------------------------------------
(* A template has finitely many characters. *)
LEMMA SizeIsNat ==
  ASSUME NEW t \in Templates
  PROVE  Size(t) \in Nat
<1> DEFINE piece == [i \in DOMAIN t |->
                      {i} \X (1 .. IF i \in Holes(t) THEN Width[t[i]] ELSE 1)]
           pieces == {piece[i] : i \in DOMAIN t}
<1>1. Characters(t) = UNION pieces
  BY DEF Characters
<1>2. Len(t) \in Nat /\ DOMAIN t = 1 .. Len(t)
  BY TemplatesAssumption, LenProperties
<1>3. IsFiniteSet(pieces)
  <2>1. IsFiniteSet(DOMAIN t)
    <3>1. IsFiniteSet(1 .. Len(t))
      BY <1>2, FS_Interval
    <3> QED
      BY <1>2, <3>1
  <2>2. piece \in Surjection(DOMAIN t, pieces)
    BY DEF Surjection
  <2> HIDE DEF piece, pieces
  <2> QED
    BY <2>1, <2>2, FS_Surjection
<1>4. ASSUME NEW P \in pieces PROVE IsFiniteSet(P)
  <2>1. PICK i \in DOMAIN t : P = piece[i]
    BY <1>4
  <2>2. PICK k \in Nat : k = (IF i \in Holes(t) THEN Width[t[i]] ELSE 1)
    BY SpecifiersAssumption DEF Holes
  <2>3. P = {i} \X (1 .. k)
    BY <2>1, <2>2
  <2>4. IsFiniteSet({i})
    BY FS_Singleton
  <2>5. IsFiniteSet(1 .. k)
    BY FS_Interval
  <2> QED
    BY <2>3, <2>4, <2>5, FS_Product
<1>5. IsFiniteSet(UNION pieces)
  <2> HIDE DEF pieces
  <2> QED
    BY <1>3, <1>4, FS_UNION
<1> HIDE DEF pieces
<1> QED
  BY <1>1, <1>5, FS_CardinalityType DEF Size

(* An inserted element shifts those from its place on by one. *)
LEMMA InsertAtShifts ==
  ASSUME NEW S, NEW s \in Seq(S), NEW p \in 1 .. Len(s) + 1, NEW e \in S
  PROVE  /\ InsertAt(s, p, e) \in Seq(S)
         /\ Len(InsertAt(s, p, e)) = Len(s) + 1
         /\ \A i \in 1 .. Len(s) + 1 :
              InsertAt(s, p, e)[i] = IF i < p THEN s[i] ELSE IF i = p THEN e ELSE s[i - 1]
<1> DEFINE before == SubSeq(s, 1, p - 1)
           after == SubSeq(s, p, Len(s))
           middle == <<e>>
<1>1. PICK n \in Nat : n = Len(s)
  BY LenProperties
<1>2. \A i \in 1 .. n : s[i] \in S
  BY <1>1, ElementOfSeq
<1>3. /\ before \in Seq(S) /\ Len(before) = p - 1
      /\ \A i \in 1 .. p - 1 : before[i] = s[i]
  BY <1>1, <1>2, SubSeqProperties
<1>4. /\ after \in Seq(S) /\ Len(after) = n + 1 - p
      /\ \A i \in 1 .. n + 1 - p : after[i] = s[p + i - 1]
  BY <1>1, <1>2, SubSeqProperties
<1>5. middle \in Seq(S) /\ Len(middle) = 1 /\ middle[1] = e
  OBVIOUS
<1>6. InsertAt(s, p, e) = (before \o middle) \o after
  BY DEF InsertAt
<1> HIDE DEF before, middle, after
<1>7. /\ before \o middle \in Seq(S) /\ Len(before \o middle) = p
      /\ \A i \in 1 .. p : (before \o middle)[i] = IF i < p THEN s[i] ELSE e
  <2>a. /\ before \o middle \in Seq(S) /\ Len(before \o middle) = Len(before) + Len(middle)
        /\ \A i \in 1 .. Len(before) + Len(middle) :
             (before \o middle)[i] =
               IF i <= Len(before) THEN before[i] ELSE middle[i - Len(before)]
    BY <1>3, <1>5, ConcatProperties
  <2>b. Len(before) = p - 1 /\ Len(middle) = 1
    BY <1>3, <1>5
  <2>1. /\ before \o middle \in Seq(S) /\ Len(before \o middle) = (p - 1) + 1
        /\ \A i \in 1 .. (p - 1) + 1 :
             (before \o middle)[i] = IF i <= p - 1 THEN before[i] ELSE middle[i - (p - 1)]
    BY <2>a, <2>b
  <2>2. ASSUME NEW i \in 1 .. p PROVE (before \o middle)[i] = IF i < p THEN s[i] ELSE e
    <3>1. CASE i < p
      BY <1>1, <1>3, <2>1, <3>1
    <3>2. CASE i = p
      <4>1. i - (p - 1) = 1 /\ ~(i <= p - 1) /\ i \in 1 .. (p - 1) + 1 /\ ~(i < p)
        BY <1>1, <3>2
      <4>2. (before \o middle)[i] = middle[i - (p - 1)]
        BY <2>1, <4>1
      <4>3. middle[i - (p - 1)] = e
        BY <1>5, <4>1
      <4> QED
        BY <4>1, <4>2, <4>3
    <3>3. i < p \/ i = p
      BY <1>1
    <3> QED
      BY <3>1, <3>2, <3>3
  <2>3. (p - 1) + 1 = p
    BY <1>1
  <2> QED
    BY <2>1, <2>2, <2>3
<1>8. PICK front \in Seq(S) : front = before \o middle
  BY <1>7
<1>9. /\ front \o after \in Seq(S) /\ Len(front \o after) = n + 1
      /\ \A i \in 1 .. n + 1 : (front \o after)[i] = IF i <= p THEN front[i] ELSE after[i - p]
  BY <1>1, <1>4, <1>7, <1>8, ConcatProperties
<1>10. ASSUME NEW i \in 1 .. n + 1
       PROVE  (front \o after)[i] = IF i < p THEN s[i] ELSE IF i = p THEN e ELSE s[i - 1]
  <2>1. CASE i <= p
    BY <1>1, <1>7, <1>8, <1>9, <2>1
  <2>2. CASE i > p
    <3>1. i - p \in 1 .. n + 1 - p /\ p + (i - p) - 1 = i - 1
      BY <1>1, <2>2
    <3> QED
      BY <1>1, <1>4, <1>9, <2>2, <3>1
  <2>3. i <= p \/ i > p
    BY <1>1
  <2> QED
    BY <2>1, <2>2, <2>3
<1> QED
  BY <1>1, <1>6, <1>8, <1>9, <1>10

(* In a sorted table the entries before a route's place are shorter than it,*)
(* and the others are not.                                                  *)
LEMMA PlaceSplits ==
  ASSUME Typed, Sorted, NEW route \in Templates
  PROVE  /\ Place(route) \in 1 .. Len(endpoints) + 1
         /\ \A i \in DOMAIN endpoints :
              (Size(endpoints[i].route) >= Size(route)) <=> i >= Place(route)
<1> DEFINE long == {i \in DOMAIN endpoints : Size(endpoints[i].route) >= Size(route)}
           places == long \cup {Len(endpoints) + 1}
<1>1. PICK n \in Nat : n = Len(endpoints) /\ DOMAIN endpoints = 1 .. n
  BY LenProperties DEF Typed
<1>2. places \in SUBSET Nat /\ places # {} /\ places \subseteq 1 .. n + 1
  BY <1>1
<1>3. Min(places) \in places /\ \A i \in places : Min(places) <= i
  <2> HIDE DEF places
  <2> QED
    BY <1>2, LeastIsIn
<1>4. Place(route) = Min(places)
  BY DEF Place
<1>5. PICK p \in 1 .. n + 1 : p = Min(places)
  BY <1>2, <1>3
<1>6. ASSUME NEW i \in DOMAIN endpoints
      PROVE  (Size(endpoints[i].route) >= Size(route)) <=> i >= p
  <2>1. ASSUME Size(endpoints[i].route) >= Size(route) PROVE i >= p
    BY <1>1, <1>3, <1>5, <2>1
  <2>2. ASSUME i >= p PROVE Size(endpoints[i].route) >= Size(route)
    <3>1. p \in long
      BY <1>1, <1>3, <1>5, <2>2
    <3>2. Size(endpoints[p].route) <= Size(endpoints[i].route)
      BY <1>1, <2>2, <3>1 DEF Sorted
    <3>3. endpoints[p].route \in Templates /\ endpoints[i].route \in Templates
      <4>1. endpoints[p] \in Entry /\ endpoints[i] \in Entry
        BY <1>1, <3>1, ElementOfSeq DEF Typed
      <4> QED
        BY <4>1 DEF Entry
    <3>4. /\ Size(route) \in Nat /\ Size(endpoints[p].route) \in Nat
          /\ Size(endpoints[i].route) \in Nat
      BY <3>3, SizeIsNat
    <3> QED
      BY <3>1, <3>2, <3>4
  <2> QED
    BY <2>1, <2>2
<1> QED
  BY <1>1, <1>4, <1>5, <1>6

(* it->second[method]: one method is added, or its endpoint replaced. *)
LEMMA WithMethod ==
  ASSUME NEW f \in ByMethod, NEW m \in Methods, NEW n \in 1 .. MaxRegistrations
  PROVE  /\ With(f, m, n) \in ByMethod
         /\ DOMAIN With(f, m, n) = DOMAIN f \cup {m}
         /\ With(f, m, n)[m] = n
         /\ \A x \in DOMAIN f : x # m => With(f, m, n)[x] = f[x]
<1>1. PICK M \in (SUBSET Methods) \ {{}} : f \in [M -> 1 .. MaxRegistrations]
  BY DEF ByMethod
<1>2. With(f, m, n) \in [M \cup {m} -> 1 .. MaxRegistrations]
  BY <1>1 DEF With
<1>3. M \cup {m} \in (SUBSET Methods) \ {{}}
  BY <1>1
<1>4. With(f, m, n) \in ByMethod
  BY <1>2, <1>3 DEF ByMethod
<1> QED
  BY <1>1, <1>4 DEF With

(* A new entry has one method. *)
LEMMA OneMethod ==
  ASSUME NEW m \in Methods, NEW n \in 1 .. MaxRegistrations
  PROVE  /\ FirstMethod(m, n) \in ByMethod
         /\ DOMAIN FirstMethod(m, n) = {m} /\ FirstMethod(m, n)[m] = n
<1>1. FirstMethod(m, n) \in [{m} -> 1 .. MaxRegistrations]
  BY DEF FirstMethod
<1>2. {m} \in (SUBSET Methods) \ {{}}
  OBVIOUS
<1>3. FirstMethod(m, n) \in ByMethod
  BY <1>1, <1>2 DEF ByMethod
<1> QED
  BY <1>3 DEF FirstMethod

-----------------------------------------------------------------------------
(* What m_addEndpoint does to the table: number n is registered for method  *)
(* and route, at place p, by extending an entry or with a new one.          *)
Registers(method, route, n, p) ==
  /\ n \in 1 .. MaxRegistrations /\ n = Len(registered) + 1
  /\ registered' \in Seq(Registration) /\ Len(registered') = n
  /\ DOMAIN registered = 1 .. n - 1 /\ DOMAIN registered' = 1 .. n
  /\ \A k \in 1 .. n - 1 : registered'[k] = registered[k]
  /\ registered'[n] = [method |-> method, route |-> route]
  /\ p \in 1 .. Len(endpoints) + 1
  /\ \A i \in DOMAIN endpoints : (Size(endpoints[i].route) >= Size(route)) <=> i >= p
  /\ answer = NoAnswer /\ answer' = NoAnswer

Extends(method, route, n, p) ==
  /\ Registers(method, route, n, p)
  /\ p \in DOMAIN endpoints /\ endpoints[p].route = route
  /\ endpoints' \in Seq(Entry) /\ DOMAIN endpoints' = DOMAIN endpoints
  /\ \A i \in DOMAIN endpoints : i # p => endpoints'[i] = endpoints[i]
  /\ endpoints'[p].route = route
  /\ DOMAIN endpoints'[p].methods = DOMAIN endpoints[p].methods \cup {method}
  /\ endpoints'[p].methods[method] = n
  /\ \A m \in DOMAIN endpoints[p].methods :
       m # method => endpoints'[p].methods[m] = endpoints[p].methods[m]

Shifted(i, p) == IF i < p THEN i ELSE i + 1
Inserts(method, route, n, p) ==
  /\ Registers(method, route, n, p)
  /\ p \in DOMAIN endpoints => endpoints[p].route # route
  /\ endpoints' \in Seq(Entry) /\ DOMAIN endpoints' = 1 .. Len(endpoints) + 1
  /\ \A i \in DOMAIN endpoints : endpoints'[Shifted(i, p)] = endpoints[i]
  /\ \A i \in DOMAIN endpoints' :
       i # p => \E j \in DOMAIN endpoints : i = Shifted(j, p)
  /\ endpoints'[p].route = route
  /\ DOMAIN endpoints'[p].methods = {method} /\ endpoints'[p].methods[method] = n

(* m_addEndpoint extends the entry of its route or inserts one. *)
LEMMA AddEndpointDoes ==
  ASSUME IInv, NEW method \in Methods, NEW route \in Templates, AddEndpoint(method, route)
  PROVE  \E n, p : Extends(method, route, n, p) \/ Inserts(method, route, n, p)
<1> DEFINE n == Len(registered) + 1
           p == Place(route)
           r == [method |-> method, route |-> route]
           entry == [route |-> route, methods |-> FirstMethod(method, n)]
<1>1. /\ answer = NoAnswer /\ answer' = NoAnswer /\ n <= MaxRegistrations
      /\ registered' = Append(registered, r)
      /\ IsEntry(p, route) =>
           endpoints' = [endpoints EXCEPT ![p].methods = With(@, method, n)]
      /\ ~IsEntry(p, route) => endpoints' = InsertAt(endpoints, p, entry)
  BY DEF AddEndpoint
<1>2. /\ registered \in Seq(Registration) /\ endpoints \in Seq(Entry)
      /\ Len(registered) \in Nat /\ Len(endpoints) \in Nat
      /\ DOMAIN endpoints = 1 .. Len(endpoints)
  BY LenProperties DEF IInv, Typed
<1>3. n \in 1 .. MaxRegistrations
  BY <1>1, <1>2, RegistrationsAssumption
<1>4. Registers(method, route, n, p)
  <2>1. r \in Registration
    BY DEF Registration
  <2>2. PICK m \in Nat : m = Len(registered)
    BY <1>2
  <2>3. /\ registered' \in Seq(Registration) /\ Len(registered') = m + 1
        /\ \A k \in 1 .. m : registered'[k] = registered[k]
        /\ registered'[m + 1] = r
    BY <1>1, <1>2, <2>1, <2>2, AppendProperties
  <2>4. DOMAIN registered = 1 .. m /\ DOMAIN registered' = 1 .. m + 1
    BY <1>2, <2>2, <2>3, LenProperties
  <2>5. /\ p \in 1 .. Len(endpoints) + 1
        /\ \A i \in DOMAIN endpoints : (Size(endpoints[i].route) >= Size(route)) <=> i >= p
    BY PlaceSplits DEF IInv
  <2>6. n = m + 1 /\ n - 1 = m
    BY <2>2
  <2> QED
    BY <1>1, <1>3, <2>3, <2>4, <2>5, <2>6 DEF Registers
<1> HIDE DEF n, p
<1>5. ASSUME IsEntry(p, route) PROVE Extends(method, route, n, p)
  <2>1. p \in DOMAIN endpoints /\ endpoints[p].route = route
    BY <1>5 DEF IsEntry
  <2>2. endpoints[p] \in Entry
    BY <1>2, <2>1, ElementOfSeq
  <2>3. PICK f \in ByMethod : endpoints[p] = [route |-> route, methods |-> f]
    BY <2>1, <2>2 DEF Entry
  <2>4. endpoints' = [endpoints EXCEPT ![p] = [route |-> route, methods |-> With(f, method, n)]]
    BY <1>1, <1>5, <2>1, <2>3
  <2>5. /\ With(f, method, n) \in ByMethod
        /\ DOMAIN With(f, method, n) = DOMAIN f \cup {method}
        /\ With(f, method, n)[method] = n
        /\ \A x \in DOMAIN f : x # method => With(f, method, n)[x] = f[x]
    BY <1>3, WithMethod
  <2>6. PICK g \in ByMethod : g = With(f, method, n)
    BY <2>5
  <2>7. [route |-> route, methods |-> g] \in Entry
    BY DEF Entry
  <2>8. /\ endpoints' = [endpoints EXCEPT ![p] = [route |-> route, methods |-> g]]
        /\ DOMAIN endpoints' = DOMAIN endpoints
    BY <2>4, <2>6
  <2>9. endpoints' \in Seq(Entry)
    BY <1>2, <2>1, <2>7, <2>8, ExceptSeq
  <2>10. endpoints[p].methods = f /\ endpoints'[p] = [route |-> route, methods |-> g]
    BY <2>1, <2>3, <2>8
  <2>11. \A i \in DOMAIN endpoints : i # p => endpoints'[i] = endpoints[i]
    BY <2>8
  <2> QED
    BY <1>4, <2>1, <2>5, <2>6, <2>8, <2>9, <2>10, <2>11 DEF Extends
<1>6. ASSUME ~IsEntry(p, route) PROVE Inserts(method, route, n, p)
  <2>1. /\ p \in 1 .. Len(endpoints) + 1
        /\ p \in DOMAIN endpoints => endpoints[p].route # route
    BY <1>4, <1>6 DEF IsEntry, Registers
  <2>2. /\ FirstMethod(method, n) \in ByMethod
        /\ DOMAIN FirstMethod(method, n) = {method} /\ FirstMethod(method, n)[method] = n
    BY <1>3, OneMethod
  <2>3. entry \in Entry /\ entry.route = route /\ entry.methods = FirstMethod(method, n)
    BY <2>2 DEF Entry
  <2> HIDE DEF entry
  <2>4. PICK len \in Nat : len = Len(endpoints)
    BY <1>2
  <2>5. /\ endpoints' \in Seq(Entry) /\ Len(endpoints') = len + 1
        /\ \A i \in 1 .. len + 1 :
             endpoints'[i] = IF i < p THEN endpoints[i]
                             ELSE IF i = p THEN entry ELSE endpoints[i - 1]
    <3>1. endpoints' = InsertAt(endpoints, p, entry)
      BY <1>1, <1>6
    <3>2. /\ InsertAt(endpoints, p, entry) \in Seq(Entry)
          /\ Len(InsertAt(endpoints, p, entry)) = Len(endpoints) + 1
          /\ \A i \in 1 .. Len(endpoints) + 1 :
               InsertAt(endpoints, p, entry)[i] =
                 IF i < p THEN endpoints[i] ELSE IF i = p THEN entry ELSE endpoints[i - 1]
      BY <1>2, <2>1, <2>3, InsertAtShifts
    <3> QED
      BY <2>4, <3>1, <3>2
  <2>6. DOMAIN endpoints' = 1 .. len + 1 /\ DOMAIN endpoints = 1 .. len
    BY <1>2, <2>4, <2>5, LenProperties
  <2>7. p \in 1 .. len + 1
    BY <2>1, <2>4
  <2>8. endpoints'[p] = entry
    BY <2>5, <2>7
  <2>9. ASSUME NEW i \in DOMAIN endpoints PROVE endpoints'[Shifted(i, p)] = endpoints[i]
    <3>1. CASE i < p
      BY <2>5, <2>6, <3>1 DEF Shifted
    <3>2. CASE ~(i < p)
      <4>1. i + 1 \in 1 .. len + 1 /\ ~(i + 1 < p) /\ i + 1 # p /\ (i + 1) - 1 = i
        BY <2>6, <2>7, <3>2
      <4> QED
        BY <2>5, <3>2, <4>1 DEF Shifted
    <3> QED
      BY <3>1, <3>2
  <2>10. ASSUME NEW i \in DOMAIN endpoints', i # p
         PROVE  \E j \in DOMAIN endpoints : i = Shifted(j, p)
    <3>1. CASE i < p
      BY <2>6, <2>7, <3>1 DEF Shifted
    <3>2. CASE i > p
      <4>1. i - 1 \in DOMAIN endpoints /\ ~(i - 1 < p) /\ (i - 1) + 1 = i
        BY <2>6, <2>7, <3>2
      <4> QED
        BY <4>1 DEF Shifted
    <3> QED
      BY <2>6, <2>7, <2>10, <3>1, <3>2
  <2> QED
    BY <1>4, <2>1, <2>2, <2>3, <2>4, <2>5, <2>6, <2>8, <2>9, <2>10 DEF Inserts
<1> QED
  BY <1>5, <1>6

(* A new registration is the newest, and those that were stay so unless they*)
(* are of the same method and route.                                        *)
LEMMA NewestMoves ==
  ASSUME Typed, NEW method \in Methods, NEW route \in Templates, NEW n, NEW p,
         Registers(method, route, n, p), NEW k \in DOMAIN registered', Newest(k)'
  PROVE  \/ k = n
         \/ /\ k \in DOMAIN registered /\ Newest(k) /\ registered'[k] = registered[k]
            /\ registered[k].method # method \/ registered[k].route # route
<1> SUFFICES ASSUME k # n
             PROVE  /\ k \in DOMAIN registered /\ Newest(k) /\ registered'[k] = registered[k]
                    /\ registered[k].method # method \/ registered[k].route # route
  OBVIOUS
<1>1. /\ n \in Nat \ {0} /\ DOMAIN registered = 1 .. n - 1 /\ DOMAIN registered' = 1 .. n
      /\ \A j \in 1 .. n - 1 : registered'[j] = registered[j]
      /\ registered'[n] = [method |-> method, route |-> route]
      /\ n = Len(registered) + 1
  BY RegistrationsAssumption DEF Registers
<1>2. k \in 1 .. n - 1 /\ k \in Nat /\ n > k /\ n \in 1 .. n
  BY <1>1
<1>3. \A j \in 1 .. n : j > k => registered'[j] # registered'[k]
  BY <1>1 DEF Newest
<1>4. registered'[k] = registered[k]
  BY <1>1, <1>2
<1>5. registered[k] # [method |-> method, route |-> route]
  BY <1>1, <1>2, <1>3, <1>4
<1>6. Newest(k)
  <2>1. \A j \in 1 .. n - 1 : j > k => registered[j] # registered[k]
    BY <1>1, <1>3, <1>4
  <2> QED
    BY <1>1, <2>1 DEF Newest
<1>7. PICK m, t : registered[k] = [method |-> m, route |-> t]
  <2>1. Len(registered) \in Nat /\ DOMAIN registered = 1 .. Len(registered)
    BY LenProperties DEF Typed
  <2>2. registered[k] \in Registration
    BY <1>1, <1>2, <2>1, ElementOfSeq DEF Typed
  <2> QED
    BY <2>2 DEF Registration
<1>8. registered[k].method # method \/ registered[k].route # route
  BY <1>5, <1>7
<1> QED
  BY <1>1, <1>2, <1>4, <1>6, <1>8

(* A route that has an entry gets its method there. *)
LEMMA ExtendsMoves ==
  ASSUME IInv, NEW method \in Methods, NEW route \in Templates, NEW n, NEW p,
         Extends(method, route, n, p)
  PROVE  IInv'
<1>1. Typed /\ Sorted /\ Numbered /\ Latest /\ Split
  BY DEF IInv
<1>2. Registers(method, route, n, p)
  BY DEF Extends
<1>3. /\ p \in DOMAIN endpoints /\ endpoints[p].route = route /\ p \in Nat
      /\ endpoints' \in Seq(Entry) /\ DOMAIN endpoints' = DOMAIN endpoints
      /\ \A i \in DOMAIN endpoints : i # p => endpoints'[i] = endpoints[i]
      /\ endpoints'[p].route = route
      /\ DOMAIN endpoints'[p].methods = DOMAIN endpoints[p].methods \cup {method}
      /\ endpoints'[p].methods[method] = n
      /\ \A m \in DOMAIN endpoints[p].methods :
           m # method => endpoints'[p].methods[m] = endpoints[p].methods[m]
  <2>1. p \in Nat
    BY <1>1, LenProperties DEF Extends, Typed
  <2> QED
    BY <2>1 DEF Extends
<1>4. \A i \in DOMAIN endpoints : endpoints'[i].route = endpoints[i].route
  BY <1>3
<1>5. Typed'
  BY <1>2, <1>3, RegistrationsAssumption DEF Typed, Registers
<1>6. Sorted'
  BY <1>1, <1>3, <1>4 DEF Sorted
<1>7. Split'
  <2> SUFFICES ASSUME NEW i \in DOMAIN endpoints', NEW j \in DOMAIN endpoints', i < j,
                      endpoints'[i].route = endpoints'[j].route
               PROVE  \E k \in i .. j : endpoints'[k].route # endpoints'[i].route
    BY DEF Split
  <2>1. PICK k \in i .. j : endpoints[k].route # endpoints[i].route
    BY <1>1, <1>3, <1>4 DEF Split
  <2>2. k \in DOMAIN endpoints
    BY <1>1, <1>3, LenProperties DEF Typed
  <2> QED
    BY <1>3, <1>4, <2>1, <2>2
<1>8. /\ n \in 1 .. n /\ n \in DOMAIN registered' /\ registered'[n].method = method
      /\ registered'[n].route = route /\ DOMAIN registered \subseteq DOMAIN registered'
  BY <1>2 DEF Registers
<1>9. Numbered'
  BY <1>1, <1>3, <1>8 DEF Numbered
<1>10. Latest'
  <2> SUFFICES ASSUME NEW k \in DOMAIN registered', Newest(k)'
               PROVE  \E i \in DOMAIN endpoints' : FirstHas(i, k)'
    BY DEF Latest
  <2>1. CASE k = n
    <3>1. \A j \in DOMAIN endpoints : j < p => endpoints[j].route # route
      BY <1>1, <1>2, <1>3, LenProperties DEF Registers, Typed
    <3> QED
      BY <1>3, <1>4, <1>8, <2>1, <3>1 DEF FirstHas, Has
  <2>2. CASE k # n
    <3>1. /\ k \in DOMAIN registered /\ Newest(k) /\ registered'[k] = registered[k]
          /\ registered[k].method # method \/ registered[k].route # route
      BY <1>1, <1>2, <2>2, NewestMoves
    <3>2. PICK i \in DOMAIN endpoints : FirstHas(i, k)
      BY <1>1, <3>1 DEF Latest
    <3>3. \A j \in DOMAIN endpoints :
            Has(j, registered[k].method, registered[k].route) <=>
              /\ endpoints'[j].route = registered'[k].route
              /\ registered'[k].method \in DOMAIN endpoints'[j].methods
      BY <1>3, <3>1 DEF Has
    <3>4. endpoints'[i].methods[registered[k].method] = endpoints[i].methods[registered[k].method]
      BY <1>3, <3>1, <3>2 DEF FirstHas, Has
    <3> QED
      BY <1>3, <3>1, <3>2, <3>3, <3>4 DEF FirstHas, Has
  <2> QED
    BY <2>1, <2>2
<1>11. Looked' /\ Given'
  BY <1>2 DEF Looked, Given, Registers
<1> QED
  BY <1>5, <1>6, <1>7, <1>9, <1>10, <1>11 DEF IInv

(* A route that has none gets an entry in front of those that are as long,  *)
(* which keeps the order of the others.                                     *)
LEMMA InsertsMoves ==
  ASSUME IInv, NEW method \in Methods, NEW route \in Templates, NEW n, NEW p,
         Inserts(method, route, n, p)
  PROVE  IInv'
<1>1. Typed /\ Sorted /\ Numbered /\ Latest /\ Split
  BY DEF IInv
<1>2. Registers(method, route, n, p)
  BY DEF Inserts
<1>3. PICK len \in Nat : len = Len(endpoints) /\ DOMAIN endpoints = 1 .. len
  BY <1>1, LenProperties DEF Typed
<1>4. /\ p \in 1 .. len + 1 /\ p \in Nat
      /\ p \in DOMAIN endpoints => endpoints[p].route # route
      /\ endpoints' \in Seq(Entry) /\ DOMAIN endpoints' = 1 .. len + 1
      /\ \A i \in DOMAIN endpoints : endpoints'[Shifted(i, p)] = endpoints[i]
      /\ \A i \in DOMAIN endpoints' :
           i # p => \E j \in DOMAIN endpoints : i = Shifted(j, p)
      /\ endpoints'[p].route = route
      /\ DOMAIN endpoints'[p].methods = {method} /\ endpoints'[p].methods[method] = n
  BY <1>3 DEF Inserts, Registers
<1>5. \A i, j \in DOMAIN endpoints :
        /\ Shifted(i, p) \in DOMAIN endpoints' /\ Shifted(i, p) # p
        /\ i <= j <=> Shifted(i, p) <= Shifted(j, p)
        /\ i < j <=> Shifted(i, p) < Shifted(j, p)
        /\ i < p <=> Shifted(i, p) < p
  BY <1>3, <1>4 DEF Shifted
<1>6. \A i \in DOMAIN endpoints :
        /\ endpoints[i].route \in Templates /\ Size(endpoints[i].route) \in Nat
        /\ (Size(endpoints[i].route) >= Size(route)) <=> i >= p
  <2>1. \A i \in DOMAIN endpoints : endpoints[i] \in Entry
    BY <1>1, <1>3, ElementOfSeq DEF Typed
  <2> QED
    BY <1>2, <2>1, SizeIsNat DEF Entry, Registers
<1>7. Size(route) \in Nat
  BY SizeIsNat
<1>8. Typed'
  BY <1>2, <1>4, RegistrationsAssumption DEF Typed, Registers
<1>9. Sorted'
  <2> SUFFICES ASSUME NEW i \in DOMAIN endpoints', NEW j \in DOMAIN endpoints', i <= j
               PROVE  Size(endpoints'[i].route) <= Size(endpoints'[j].route)
    BY DEF Sorted
  <2>1. CASE i = p /\ j = p
    BY <1>4, <1>7, <2>1
  <2>2. CASE i = p /\ j # p
    <3>1. PICK b \in DOMAIN endpoints : j = Shifted(b, p)
      BY <1>4, <2>2
    <3>2. b >= p
      BY <1>3, <1>4, <1>5, <2>2, <3>1
    <3>3. Size(route) <= Size(endpoints[b].route)
      BY <1>6, <1>7, <3>2
    <3> QED
      BY <1>4, <2>2, <3>1, <3>3
  <2>3. CASE i # p /\ j = p
    <3>1. PICK a \in DOMAIN endpoints : i = Shifted(a, p)
      BY <1>4, <2>3
    <3>2. ~(a >= p)
      BY <1>3, <1>4, <1>5, <2>3, <3>1
    <3>3. Size(endpoints[a].route) <= Size(route)
      BY <1>6, <1>7, <3>2
    <3> QED
      BY <1>4, <2>3, <3>1, <3>3
  <2>4. CASE i # p /\ j # p
    <3>1. PICK a \in DOMAIN endpoints : i = Shifted(a, p)
      BY <1>4, <2>4
    <3>2. PICK b \in DOMAIN endpoints : j = Shifted(b, p)
      BY <1>4, <2>4
    <3>3. a <= b
      BY <1>5, <3>1, <3>2
    <3> QED
      BY <1>1, <1>4, <3>1, <3>2, <3>3 DEF Sorted
  <2> QED
    BY <2>1, <2>2, <2>3, <2>4
<1>10. Split'
  <2> SUFFICES ASSUME NEW i \in DOMAIN endpoints', NEW j \in DOMAIN endpoints', i < j,
                      endpoints'[i].route = endpoints'[j].route
               PROVE  \E k \in i .. j : endpoints'[k].route # endpoints'[i].route
    BY DEF Split
  <2>1. CASE i = p
    <3>1. PICK b \in DOMAIN endpoints : j = Shifted(b, p)
      BY <1>4, <2>1
    <3>2. b >= p /\ p \in DOMAIN endpoints
      BY <1>3, <1>4, <1>5, <2>1, <3>1
    <3>3. Shifted(p, p) = p + 1 /\ p + 1 \in i .. j
      BY <1>3, <1>4, <2>1, <3>1, <3>2 DEF Shifted
    <3> QED
      BY <1>4, <2>1, <3>2, <3>3
  <2>2. CASE j = p
    <3>1. PICK a \in DOMAIN endpoints : i = Shifted(a, p)
      BY <1>4, <2>2
    <3>2. ~(a >= p)
      BY <1>3, <1>4, <1>5, <2>2, <3>1
    <3>3. endpoints[a].route = route
      BY <1>4, <2>2, <3>1
    <3> QED
      BY <1>6, <1>7, <3>2, <3>3
  <2>3. CASE i # p /\ j # p
    <3>1. PICK a \in DOMAIN endpoints : i = Shifted(a, p)
      BY <1>4, <2>3
    <3>2. PICK b \in DOMAIN endpoints : j = Shifted(b, p)
      BY <1>4, <2>3
    <3>3. a < b /\ endpoints[a].route = endpoints[b].route
      BY <1>4, <1>5, <3>1, <3>2
    <3>4. PICK k \in a .. b : endpoints[k].route # endpoints[a].route
      BY <1>1, <3>3 DEF Split
    <3>5. k \in DOMAIN endpoints
      BY <1>3, <3>4
    <3>6. Shifted(k, p) \in i .. j
      BY <1>3, <1>4, <1>5, <3>1, <3>2, <3>4, <3>5
    <3> QED
      BY <1>4, <3>1, <3>4, <3>5, <3>6
  <2> QED
    BY <2>1, <2>2, <2>3
<1>11. /\ n \in 1 .. n /\ n \in DOMAIN registered' /\ registered'[n].method = method
       /\ registered'[n].route = route /\ DOMAIN registered \subseteq DOMAIN registered'
  BY <1>2 DEF Registers
<1>12. Numbered'
  <2> SUFFICES ASSUME NEW i \in DOMAIN endpoints', NEW m \in DOMAIN endpoints'[i].methods
               PROVE  endpoints'[i].methods[m] \in DOMAIN registered'
    BY DEF Numbered
  <2>1. CASE i = p
    BY <1>4, <1>11, <2>1
  <2>2. CASE i # p
    <3>1. PICK a \in DOMAIN endpoints : i = Shifted(a, p)
      BY <1>4, <2>2
    <3> QED
      BY <1>1, <1>4, <1>11, <3>1 DEF Numbered
  <2> QED
    BY <2>1, <2>2
<1>13. Latest'
  <2> SUFFICES ASSUME NEW k \in DOMAIN registered', Newest(k)'
               PROVE  \E i \in DOMAIN endpoints' : FirstHas(i, k)'
    BY DEF Latest
  <2>1. CASE k = n
    <3>1. p \in DOMAIN endpoints'
      BY <1>4
    <3>2. ASSUME NEW j \in DOMAIN endpoints', j < p PROVE endpoints'[j].route # route
      <4>1. PICK a \in DOMAIN endpoints : j = Shifted(a, p)
        BY <1>4, <3>2
      <4>2. ~(a >= p)
        BY <1>3, <1>4, <1>5, <3>2, <4>1
      <4> QED
        BY <1>4, <1>6, <1>7, <4>1, <4>2
    <3> QED
      BY <1>4, <1>11, <2>1, <3>1, <3>2 DEF FirstHas, Has
  <2>2. CASE k # n
    <3>1. /\ k \in DOMAIN registered /\ Newest(k) /\ registered'[k] = registered[k]
          /\ registered[k].method # method \/ registered[k].route # route
      BY <1>1, <1>2, <2>2, NewestMoves
    <3>2. PICK i \in DOMAIN endpoints : FirstHas(i, k)
      BY <1>1, <3>1 DEF Latest
    <3>3. ASSUME NEW j \in DOMAIN endpoints', j < Shifted(i, p)
          PROVE  ~ /\ endpoints'[j].route = registered'[k].route
                   /\ registered'[k].method \in DOMAIN endpoints'[j].methods
      <4>1. CASE j = p
        BY <1>4, <3>1, <4>1
      <4>2. CASE j # p
        <5>1. PICK a \in DOMAIN endpoints : j = Shifted(a, p)
          BY <1>4, <4>2
        <5>2. a < i
          BY <1>5, <3>3, <5>1
        <5>3. ~Has(a, registered[k].method, registered[k].route)
          BY <3>2, <5>2 DEF FirstHas
        <5> QED
          BY <1>4, <3>1, <5>1, <5>3 DEF Has
      <4> QED
        BY <4>1, <4>2
    <3>4. endpoints'[Shifted(i, p)] = endpoints[i] /\ Shifted(i, p) \in DOMAIN endpoints'
      BY <1>4, <1>5
    <3> QED
      BY <3>1, <3>2, <3>3, <3>4 DEF FirstHas, Has
  <2> QED
    BY <2>1, <2>2
<1>14. Looked' /\ Given'
  BY <1>2 DEF Looked, Given, Registers
<1> QED
  BY <1>8, <1>9, <1>10, <1>12, <1>13, <1>14 DEF IInv

(* Entries match by their number in the table. *)
LEMMA FirstMatching ==
  ASSUME Typed, NEW route, Matching(route) # {}
  PROVE  /\ Min(Matching(route)) \in Matching(route)
         /\ \A i \in Matching(route) : Min(Matching(route)) <= i
<1>1. Matching(route) \in SUBSET Nat
  BY LenProperties DEF Matching, Typed
<1> QED
  BY <1>1, LeastIsIn

(* An entry that was found is the first that matches. *)
LEMMA FoundMoves ==
  ASSUME IInv, NEW method, NEW route \in Routes, NEW body \in Bodies, Found(method, route, body)
  PROVE  IInv'
<1> DEFINE i == Min(Matching(route))
           known == method \in DOMAIN endpoints[i].methods
           template == endpoints[i].route
           type == BodyType[template]
           value == IF type = NoBody THEN <<>> ELSE Deserialize(type, BodyText(body))
           code(params) ==
             IF ~known THEN "405"
             ELSE IF Len(params) < Cardinality(Holes(template)) THEN "crashed"
             ELSE IF \/ \E k \in DOMAIN params : Refuses(template, k, params[k])
                     \/ type # NoBody /\ value = <<>> THEN "400"
             ELSE "200"
<1>1. PICK params :
        /\ answer' = [method |-> method, route |-> route, body |-> body, entry |-> i,
                      params |-> params, value |-> value, code |-> code(params)]
        /\ known => params \in ExtractParams(template, route)
        /\ type = NoBody => body = NoNumber
  BY DEF Found
<1>0. /\ code(params) \in {"200", "400", "405", "crashed"}
      /\ code(params) = "405" <=> ~known
  OBVIOUS
<1>2. UNCHANGED <<endpoints, registered>> /\ Matching(route) # {}
  BY DEF Found
<1>3. i \in Matching(route) /\ \A j \in Matching(route) : i <= j
  BY <1>2, FirstMatching DEF IInv
<1>4. Matching(route)' = Matching(route)
  BY <1>2 DEF Matching
<1>6. /\ answer'.code = code(params) /\ answer'.entry = i /\ answer'.method = method
      /\ answer'.route = route /\ answer'.params = params /\ answer'.value = value
      /\ answer'.body = body
  BY <1>1
<1>5. Typed'
  BY <1>0, <1>2, <1>6 DEF IInv, Typed
<1>7. Looked'
  <2> HIDE DEF i, code
  <2> QED
    BY <1>0, <1>2, <1>3, <1>6 DEF Looked, Matching
<1>9. Given'
  <2>1. answer'.code \notin {"404", "405"} => known /\ code(params) = answer'.code
    BY <1>0, <1>6
  <2>2. endpoints'[i].route = template
    BY <1>2
  <2>3. value = IF type = NoBody THEN <<>> ELSE Deserialize(type, BodyText(body))
    OBVIOUS
  <2>4. endpoints'[answer'.entry].route = template
    BY <1>6, <2>2
  <2>5. known => code(params) =
          IF Len(params) < Cardinality(Holes(template)) THEN "crashed"
          ELSE IF \/ \E k \in DOMAIN params : Refuses(template, k, params[k])
                  \/ type # NoBody /\ value = <<>> THEN "400"
          ELSE "200"
    OBVIOUS
  <2>6. ASSUME answer' # NoAnswer, answer'.code \notin {"404", "405"}
        PROVE  /\ answer'.params \in ExtractParams(template, answer'.route)
               /\ answer'.value =
                    IF type = NoBody THEN <<>> ELSE Deserialize(type, BodyText(answer'.body))
               /\ type = NoBody => answer'.body = NoNumber
               /\ answer'.body \in Bodies
               /\ answer'.code =
                    IF Len(answer'.params) < Cardinality(Holes(template)) THEN "crashed"
                    ELSE IF \/ \E k \in DOMAIN answer'.params :
                                 Refuses(template, k, answer'.params[k])
                            \/ type # NoBody /\ answer'.value = <<>> THEN "400"
                    ELSE "200"
    <3> HIDE DEF i, template, value, known, code
    <3> QED
      BY <1>1, <1>6, <2>1, <2>3, <2>5, <2>6
  <2> HIDE DEF template
  <2> QED
    BY <2>4, <2>6 DEF Given
<1>8. Sorted' /\ Numbered' /\ Latest' /\ Split'
  BY <1>2 DEF IInv, Sorted, Numbered, Latest, Newest, FirstHas, Has, Split
<1> QED
  BY <1>5, <1>7, <1>8, <1>9 DEF IInv

(* 404 is the answer when no entry matches. *)
LEMMA NotFoundMoves ==
  ASSUME IInv, NEW method, NEW route \in Routes, NotFound(method, route)
  PROVE  IInv'
<1>1. /\ UNCHANGED <<endpoints, registered>> /\ Matching(route) = {}
      /\ answer' = [method |-> method, route |-> route, code |-> "404"]
  BY DEF NotFound
<1>2. answer'.code = "404" /\ answer'.route = route
  BY <1>1
<1>3. Typed'
  BY <1>1, <1>2 DEF IInv, Typed
<1>4. Looked' /\ Given'
  BY <1>1, <1>2 DEF Looked, Given, Matching
<1>5. Sorted' /\ Numbered' /\ Latest' /\ Split'
  BY <1>1 DEF IInv, Sorted, Numbered, Latest, Newest, FirstHas, Has, Split
<1> QED
  BY <1>3, <1>4, <1>5 DEF IInv

(* The table starts empty. *)
LEMMA IInvInit == Init => IInv
<1> SUFFICES ASSUME Init PROVE IInv
  OBVIOUS
<1>1. /\ endpoints = <<>> /\ registered = <<>> /\ answer = NoAnswer
      /\ DOMAIN endpoints = {} /\ DOMAIN registered = {} /\ Len(registered) = 0
  BY DEF Init
<1>2. Typed
  BY <1>1, RegistrationsAssumption DEF Typed
<1> QED
  BY <1>1, <1>2 DEF IInv, Sorted, Numbered, Latest, Split, Looked, Given

(* Every registration and every look-up preserves the invariant. *)
LEMMA IInvNext == IInv /\ [Next]_vars => IInv'
<1> SUFFICES ASSUME IInv, [Next]_vars PROVE IInv'
  OBVIOUS
<1>1. ASSUME NEW method \in Methods, NEW route \in Templates, AddEndpoint(method, route)
      PROVE  IInv'
  BY <1>1, AddEndpointDoes, ExtendsMoves, InsertsMoves
<1>2. ASSUME NEW method, NEW route \in Routes, NotFound(method, route) PROVE IInv'
  BY <1>2, NotFoundMoves
<1>3. ASSUME NEW method, NEW route \in Routes, NEW body \in Bodies, Found(method, route, body) PROVE IInv'
  BY <1>3, FoundMoves
<1>4. ASSUME UNCHANGED <<endpoints, registered>>, answer' = NoAnswer \/ answer' = answer
      PROVE  IInv'
  <2>1. Typed' /\ Looked' /\ Given'
    BY <1>4 DEF IInv, Typed, Looked, Given, Matching
  <2>2. Sorted' /\ Numbered' /\ Latest' /\ Split'
    BY <1>4 DEF IInv, Sorted, Numbered, Latest, Newest, FirstHas, Has, Split
  <2> QED
    BY <2>1, <2>2 DEF IInv
<1>5. NextRequest \/ UNCHANGED vars => IInv'
  BY <1>4 DEF NextRequest, vars
<1> QED
  BY <1>1, <1>2, <1>3, <1>5 DEF Next

(* The table is sorted, every newest registration is first for its route and*)
(* method, and a request is answered by the first entry that matches.       *)
THEOREM SpecIInv == Spec => []IInv
  BY IInvInit, IInvNext, PTL DEF Spec

-----------------------------------------------------------------------------
(* m_endpoints holds entries of templates, each with at least one method and*)
(* endpoints that were registered.                                          *)
THEOREM SpecTypeOK == Spec => []TypeOK
<1>1. IInv => TypeOK
  <2> SUFFICES ASSUME IInv PROVE TypeOK
    OBVIOUS
  <2>1. Typed /\ Numbered
    BY DEF IInv
  <2>2. ASSUME NEW i \in DOMAIN endpoints
        PROVE  /\ endpoints[i].route \in Templates
               /\ endpoints[i].methods \in
                    UNION {[M -> DOMAIN registered] : M \in (SUBSET Methods) \ {{}}}
    <3>1. endpoints[i] \in Entry
      BY <2>1, LenProperties, ElementOfSeq DEF Typed
    <3>2. PICK M \in (SUBSET Methods) \ {{}} :
            endpoints[i].methods \in [M -> 1 .. MaxRegistrations]
      BY <3>1 DEF Entry, ByMethod
    <3>3. endpoints[i].methods \in [M -> DOMAIN registered]
      BY <2>1, <3>2 DEF Numbered
    <3> QED
      BY <3>1, <3>3 DEF Entry
  <2> QED
    BY <2>1, <2>2 DEF TypeOK, Typed, Registration
<1> QED
  BY <1>1, SpecIInv, PTL

(* Of the registrations of a route and method one is the newest. *)
LEMMA NewestIs ==
  ASSUME Typed, NEW n \in DOMAIN registered
  PROVE  LET last == Max({k \in DOMAIN registered : registered[k] = registered[n]})
         IN  last \in DOMAIN registered /\ registered[last] = registered[n] /\ Newest(last)
<1> DEFINE equal == {k \in DOMAIN registered : registered[k] = registered[n]}
<1>1. PICK len \in Nat : DOMAIN registered = 1 .. len
  BY LenProperties DEF Typed
<1>2. equal \in SUBSET (0 .. len) /\ equal # {}
  BY <1>1
<1>3. Max(equal) \in equal /\ \A k \in equal : Max(equal) >= k
  <2> HIDE DEF equal
  <2> QED
    BY <1>2, GreatestIsIn
<1>4. PICK last \in equal : last = Max(equal)
  BY <1>3
<1>5. ASSUME NEW k \in DOMAIN registered, k > last PROVE registered[k] # registered[last]
  <2>1. ~(last >= k)
    BY <1>1, <1>4, <1>5
  <2>2. k \notin equal
    BY <1>3, <1>4, <2>1
  <2> QED
    BY <1>4, <2>2
<1> QED
  BY <1>4, <1>5 DEF Newest

(* The first entry with a route and method is the one with the newest. *)
LEMMA IInvLatestWins == IInv => LatestWins
<1> SUFFICES ASSUME IInv, NEW n \in DOMAIN registered
             PROVE  LET method == registered[n].method
                        having == {i \in Entries(registered[n].route) :
                                     method \in DOMAIN endpoints[i].methods}
                    IN /\ having # {}
                       /\ endpoints[Min(having)].methods[method] =
                            Max({k \in DOMAIN registered : registered[k] = registered[n]})
  BY DEF LatestWins
<1> DEFINE method == registered[n].method
           having == {i \in Entries(registered[n].route) :
                        method \in DOMAIN endpoints[i].methods}
           last == Max({k \in DOMAIN registered : registered[k] = registered[n]})
<1>1. last \in DOMAIN registered /\ registered[last] = registered[n] /\ Newest(last)
  BY NewestIs DEF IInv
<1> HIDE DEF last
<1>2. PICK i \in DOMAIN endpoints : FirstHas(i, last)
  BY <1>1 DEF IInv, Latest
<1>3. /\ i \in having /\ endpoints[i].methods[method] = last
      /\ \A j \in having : ~(j < i)
  BY <1>1, <1>2 DEF FirstHas, Has, Entries
<1>4. having \in SUBSET Nat
  BY LenProperties DEF IInv, Typed, Entries
<1> HIDE DEF having
<1>5. Min(having) \in having /\ \A j \in having : Min(having) <= j
  BY <1>3, <1>4, LeastIsIn
<1>6. Min(having) = i
  BY <1>3, <1>4, <1>5
<1> QED
  BY <1>3, <1>6 DEF having, last

(* m_addEndpoint may enter a route several times, but for each method the   *)
(* first entry that has it holds the endpoint that was registered last.     *)
THEOREM SpecLatestWins == Spec => []LatestWins
  BY SpecIInv, IInvLatestWins, PTL

(* In a sorted table what lies between two of a length has that length. *)
LEMMA IInvSplit == IInv => SplitOnlyByEqualLength
<1> SUFFICES ASSUME IInv, NEW i \in DOMAIN endpoints, NEW j \in DOMAIN endpoints,
                    i < j, endpoints[i].route = endpoints[j].route
             PROVE  /\ \A k \in i .. j : Size(endpoints[k].route) = Size(endpoints[i].route)
                    /\ \E k \in i .. j : endpoints[k].route # endpoints[i].route
  BY DEF SplitOnlyByEqualLength
<1>1. PICK len \in Nat : DOMAIN endpoints = 1 .. len /\ len = Len(endpoints)
  BY LenProperties DEF IInv, Typed
<1>2. ASSUME NEW k \in i .. j PROVE Size(endpoints[k].route) = Size(endpoints[i].route)
  <2>1. k \in DOMAIN endpoints /\ i <= k /\ k <= j
    BY <1>1
  <2>2. /\ Size(endpoints[i].route) <= Size(endpoints[k].route)
        /\ Size(endpoints[k].route) <= Size(endpoints[i].route)
    BY <2>1 DEF IInv, Sorted
  <2>3. endpoints[i].route \in Templates /\ endpoints[k].route \in Templates
    <3>1. endpoints[i] \in Entry /\ endpoints[k] \in Entry
      BY <1>1, <2>1, ElementOfSeq DEF IInv, Typed
    <3> QED
      BY <3>1 DEF Entry
  <2>4. Size(endpoints[i].route) \in Nat /\ Size(endpoints[k].route) \in Nat
    BY <2>3, SizeIsNat
  <2> QED
    BY <2>2, <2>4
<1>3. \E k \in i .. j : endpoints[k].route # endpoints[i].route
  BY DEF IInv, Split
<1> QED
  BY <1>2, <1>3

(* Only a route of the same length can come between two entries of a route. *)
THEOREM SpecSplitOnlyByEqualLength == Spec => []SplitOnlyByEqualLength
  BY SpecIInv, IInvSplit, PTL

-----------------------------------------------------------------------------
(* A request for a route that is an instance of a registered template finds *)
(* an entry, and none of the registered templates that match is shorter than*)
(* the one found: the search of the dispatch stops at the right entry.      *)
ShortestInstanceFound ==
  answer # NoAnswer =>
    \A n \in DOMAIN registered :
      IsInstance(registered[n].route, answer.route) =>
        /\ answer.code # "404"
        /\ Size(endpoints[answer.entry].route) <= Size(registered[n].route)

(* What was registered has an entry with its route and method. *)
LEMMA IsRegistered ==
  ASSUME IInv, NEW n \in DOMAIN registered
  PROVE  \E i \in DOMAIN endpoints : Has(i, registered[n].method, registered[n].route)
<1>1. PICK last \in DOMAIN registered : registered[last] = registered[n] /\ Newest(last)
  BY NewestIs DEF IInv
<1> QED
  BY <1>1 DEF IInv, Latest, FirstHas

(* The dispatch finds the shortest template that matches, if one does. *)
THEOREM SpecShortestInstanceFound == Spec => []ShortestInstanceFound
<1>1. IInv => ShortestInstanceFound
  <2> SUFFICES ASSUME IInv, answer # NoAnswer, NEW n \in DOMAIN registered,
                      IsInstance(registered[n].route, answer.route)
               PROVE  /\ answer.code # "404"
                      /\ Size(endpoints[answer.entry].route) <= Size(registered[n].route)
    BY DEF ShortestInstanceFound
  <2>1. PICK i \in DOMAIN endpoints : endpoints[i].route = registered[n].route
    BY IsRegistered DEF Has
  <2>2. i \in Matching(answer.route)
    BY <2>1 DEF Matching
  <2>3. /\ answer.code # "404" /\ answer.entry \in DOMAIN endpoints
        /\ answer.entry <= i
    BY <2>2 DEF IInv, Looked, Matching
  <2> QED
    BY <2>1, <2>3 DEF IInv, Sorted
<1> QED
  BY <1>1, SpecIInv, PTL

(* 405 is the answer to a method that was not registered for the route that *)
(* was found, as long as no two templates are of the same length.           *)
LengthsDiffer == \A s, t \in Templates : Size(s) = Size(t) => s = t

(* Without templates of equal lengths 405 is never a false answer. *)
THEOREM SpecNotAllowedIsNotRegistered ==
  ASSUME LengthsDiffer
  PROVE  Spec => []NotAllowedIsNotRegistered
<1>1. IInv => NotAllowedIsNotRegistered
  <2> SUFFICES ASSUME IInv, answer # NoAnswer, answer.code = "405",
                      NEW n \in DOMAIN registered, registered[n].method = answer.method,
                      registered[n].route = endpoints[answer.entry].route
               PROVE  FALSE
    BY DEF NotAllowedIsNotRegistered
  <2>1. /\ answer.entry \in DOMAIN endpoints
        /\ answer.method \notin DOMAIN endpoints[answer.entry].methods
    BY DEF IInv, Looked, Matching
  <2>2. PICK i \in DOMAIN endpoints : Has(i, answer.method, registered[n].route)
    BY IsRegistered
  <2>3. endpoints[i].route = endpoints[answer.entry].route /\ i # answer.entry
    BY <2>1, <2>2 DEF Has
  <2>4. PICK len \in Nat : DOMAIN endpoints = 1 .. len /\ len = Len(endpoints)
    BY LenProperties DEF IInv, Typed
  <2>5. ASSUME NEW a \in DOMAIN endpoints, NEW b \in DOMAIN endpoints, a < b,
               endpoints[a].route = endpoints[b].route
        PROVE  FALSE
    <3>1. /\ \A k \in a .. b : Size(endpoints[k].route) = Size(endpoints[a].route)
          /\ \E k \in a .. b : endpoints[k].route # endpoints[a].route
      BY <2>5, IInvSplit DEF SplitOnlyByEqualLength
    <3>2. PICK k \in a .. b : endpoints[k].route # endpoints[a].route
      BY <3>1
    <3>3. k \in DOMAIN endpoints
      BY <2>4, <3>2
    <3>4. endpoints[k] \in Entry /\ endpoints[a] \in Entry
      BY <2>4, <3>3, ElementOfSeq DEF IInv, Typed
    <3>5. endpoints[k].route \in Templates /\ endpoints[a].route \in Templates
      BY <3>4 DEF Entry
    <3> QED
      BY <3>1, <3>2, <3>5 DEF LengthsDiffer
  <2>6. i < answer.entry \/ answer.entry < i
    BY <2>1, <2>3, <2>4
  <2> QED
    BY <2>1, <2>3, <2>5, <2>6
<1> QED
  BY <1>1, SpecIInv, PTL

-----------------------------------------------------------------------------
(* Templates and routes are sequences over symbols of one set. *)
LEMMA OverSymbols ==
  ASSUME NEW t \in Templates, NEW r \in Routes
  PROVE  Valid(t) /\ \E X : t \in Seq(X) /\ r \in Seq(X)
<1> DEFINE X == Range(t) \cup Range(r)
<1>1. Valid(t) /\ t \in Seq(Range(t)) /\ r \in Seq(Range(r))
  BY TemplatesAssumption, RoutesAssumption
<1>2. Range(t) \subseteq X /\ Range(r) \subseteq X
  OBVIOUS
<1>3. t \in Seq(X) /\ r \in Seq(X)
  <2> HIDE DEF X
  <2> QED
    BY <1>1, <1>2, SeqMonotonic
<1> QED
  BY <1>1, <1>3

(* What was registered, and what an entry was found for, are templates. *)
LEMMA AnswerIsTyped ==
  ASSUME IInv, answer # NoAnswer
  PROVE  /\ answer.route \in Routes
         /\ \A n \in DOMAIN registered : registered[n].route \in Templates
         /\ answer.code # "404" =>
              /\ answer.entry \in DOMAIN endpoints
              /\ endpoints[answer.entry].route \in Templates
              /\ IsInstance(endpoints[answer.entry].route, answer.route)
<1>1. answer.route \in Routes
  BY DEF IInv, Typed
<1>2. ASSUME NEW n \in DOMAIN registered PROVE registered[n].route \in Templates
  <2>1. registered[n] \in Registration
    BY LenProperties, ElementOfSeq DEF IInv, Typed
  <2> QED
    BY <2>1 DEF Registration
<1>3. ASSUME answer.code # "404"
      PROVE  /\ answer.entry \in DOMAIN endpoints
             /\ endpoints[answer.entry].route \in Templates
             /\ IsInstance(endpoints[answer.entry].route, answer.route)
  <2>1. /\ answer.entry \in DOMAIN endpoints
        /\ IsInstance(endpoints[answer.entry].route, answer.route)
    BY <1>3 DEF IInv, Looked, Matching
  <2>2. endpoints[answer.entry] \in Entry
    BY <2>1, LenProperties, ElementOfSeq DEF IInv, Typed
  <2> QED
    BY <2>1, <2>2 DEF Entry
<1> QED
  BY <1>1, <1>2, <1>3

(* A request for a route that a registered template describes, segment by   *)
(* segment, finds an entry, the shortest of those that match: isInstance    *)
(* misses none of them.                                                     *)
THEOREM SpecDescribedIsFound == Spec => []DescribedIsFound
<1>1. IInv /\ ShortestInstanceFound => DescribedIsFound
  <2> SUFFICES ASSUME IInv, ShortestInstanceFound, answer # NoAnswer,
                      NEW n \in DOMAIN registered,
                      Describes(registered[n].route, answer.route)
               PROVE  /\ answer.code # "404"
                      /\ Size(endpoints[answer.entry].route) <= Size(registered[n].route)
    BY DEF DescribedIsFound
  <2>1. IsInstance(registered[n].route, answer.route)
    <3>1. registered[n].route \in Templates /\ answer.route \in Routes
      BY AnswerIsTyped
    <3>2. PICK X : registered[n].route \in Seq(X) /\ answer.route \in Seq(X)
      BY <3>1, OverSymbols
    <3> QED
      BY <3>1, <3>2, OverSymbols, DescribesIsInstance
  <2> QED
    BY <2>1 DEF ShortestInstanceFound
<1> QED
  BY <1>1, SpecIInv, SpecShortestInstanceFound, PTL

(* An entry that a request finds has a template that describes the route,   *)
(* but for an empty route and for a last literal segment prolonged.         *)
THEOREM SpecFoundIsDescribed == Spec => []FoundIsDescribed
<1>1. IInv => FoundIsDescribed
  <2> SUFFICES ASSUME IInv, answer # NoAnswer, answer.code # "404"
               PROVE  LET template == endpoints[answer.entry].route IN
                        \/ Describes(template, answer.route)
                        \/ DescribesPrefix(template, answer.route)
                        \/ Holes(template) # {} /\ answer.route = <<>>
    BY DEF FoundIsDescribed
  <2>1. /\ endpoints[answer.entry].route \in Templates /\ answer.route \in Routes
        /\ IsInstance(endpoints[answer.entry].route, answer.route)
    BY AnswerIsTyped
  <2>2. PICK X : endpoints[answer.entry].route \in Seq(X) /\ answer.route \in Seq(X)
    BY <2>1, OverSymbols
  <2> QED
    BY <2>1, <2>2, OverSymbols, InstanceIsDescribed
<1> QED
  BY <1>1, SpecIInv, PTL

(* A body becomes no value just when it is no number in the range of a long;*)
(* what find() + 4 makes of a request without a blank line is none.         *)
LEMMA UnreadIsNoNumber ==
  ASSUME NEW body \in Bodies, NEW type
  PROVE  Deserialize(type, BodyText(body)) = <<>> <=> ~IsNumber(body, type)
<1>1. CASE body \in Int
  BY <1>1, BodyAssumption, NoNumberAssumption DEF BodyText, Deserialize, IsNumber
<1>2. CASE body \notin Int
  BY <1>2, BodyAssumption DEF BodyText, Deserialize, IsNumber
<1> QED
  BY <1>1, <1>2

(* 400 is answered just when the first parameter may not be empty and is, or*)
(* the body is needed and is no number; otherwise the endpoint finds under  *)
(* each name of its template a parameter, under the first name its segment. *)
THEOREM SpecNamedParamIsSegment == Spec => []NamedParamIsSegment
<1>1. ASSUME IInv, answer # NoAnswer, answer.code \in {"200", "400", "crashed"}
      PROVE  NamedParamIsSegment
  <2> DEFINE t == endpoints[answer.entry].route
             r == answer.route
             hole == Min(Holes(t))
             segment == Segment(r, Cardinality({i \in Slashes(t) : i < hole}))
             empty == Holes(t) # {} /\ t[hole] \in NotEmpty /\ segment = <<>>
             unread == BodyType[t] # NoBody /\ ~IsNumber(answer.body, BodyType[t])
             params == answer.params
             n == Cardinality(Holes(t))
             refuses == \E k \in DOMAIN params : Refuses(t, k, params[k])
  <2>1. t \in Templates /\ r \in Routes /\ IsInstance(t, r)
    BY <1>1, AnswerIsTyped
  <2>2. Valid(t) /\ \E X : t \in Seq(X) /\ r \in Seq(X)
    BY <2>1, OverSymbols
  <2>3. PICK X : t \in Seq(X) /\ r \in Seq(X)
    BY <2>2
  <2>4. /\ params \in ExtractParams(t, r)
        /\ answer.code = IF Len(params) < n THEN "crashed"
                         ELSE IF refuses \/ unread THEN "400" ELSE "200"
    <3>1. ASSUME BodyType[t] # NoBody
          PROVE  answer.value = <<>> <=> ~IsNumber(answer.body, BodyType[t])
      <4>1. /\ answer.value = Deserialize(BodyType[t], BodyText(answer.body))
            /\ answer.body \in Bodies
        BY <1>1, <3>1 DEF IInv, Given
      <4> HIDE DEF t
      <4> QED
        BY <4>1, UnreadIsNoNumber
    <3>2. /\ params \in ExtractParams(t, r)
          /\ answer.code = IF Len(params) < n THEN "crashed"
                           ELSE IF refuses \/ (BodyType[t] # NoBody /\ answer.value = <<>>)
                                THEN "400" ELSE "200"
      BY <1>1 DEF IInv, Given
    <3> HIDE DEF t, r, params, n, refuses
    <3> QED
      BY <3>1, <3>2
  <2>5. CASE Holes(t) = {}
    <3>1. params = <<>> /\ n = 0
      BY <2>4, <2>5, FS_EmptySet DEF ExtractParams
    <3>2. Len(params) = 0 /\ DOMAIN params = {}
      BY <3>1
    <3>3. answer.code = IF unread THEN "400" ELSE "200"
      <4>1. ~refuses /\ ~(Len(params) < n)
        BY <3>1, <3>2
      <4> HIDE DEF refuses, unread, params, n
      <4> QED
        BY <2>4, <4>1
    <3>4. \A s \in Specifiers : GetParam(t, params, Name[s]) = <<>>
      BY <3>2 DEF GetParam
    <3> QED
      BY <2>5, <3>1, <3>3, <3>4 DEF NamedParamIsSegment
  <2>6. CASE Holes(t) # {} /\ r = <<>>
    BY <2>6 DEF NamedParamIsSegment
  <2>7. CASE Holes(t) # {} /\ r # <<>>
    <3>1. \/ Len(params) = 0 /\ n > 1 /\ ~empty
          \/ Len(params) = n /\ DOMAIN params = 1 .. n /\ params[1] = segment
      <4>1. IsInstance(t, r) /\ Valid(t) /\ t \in Seq(X) /\ r \in Seq(X)
            /\ Holes(t) # {} /\ r # <<>> /\ params \in ExtractParams(t, r)
        BY <2>1, <2>2, <2>3, <2>4, <2>7
      <4> HIDE DEF t, r, params
      <4> QED
        BY <4>1, ParamsAre
    <3>2. n \in Nat \ {0} /\ hole \in Holes(t) /\ Nth(Holes(t), 1) = hole
      <4>1. Holes(t) \in SUBSET (1 .. Len(t)) /\ Len(t) \in Nat
        BY <2>3, LenProperties DEF Holes
      <4> HIDE DEF t
      <4> QED
        BY <2>7, <4>1, NthFirst
    <3>3. /\ empty \/ unread => answer.code # "200"
          /\ n < 2 => answer.code = IF empty \/ unread THEN "400" ELSE "200"
          /\ answer.code = "200" => DOMAIN params = 1 .. n /\ params[1] = segment
      <4>1. CASE Len(params) = 0 /\ n > 1 /\ ~empty
        <5>1. answer.code = "crashed" /\ ~(n < 2)
          <6> HIDE DEF params, n, refuses, unread
          <6> QED
            BY <2>4, <3>2, <4>1
        <5> QED
          BY <5>1
      <4>2. CASE Len(params) = n /\ DOMAIN params = 1 .. n /\ params[1] = segment
        <5>1. 1 \in 1 .. n /\ ~(Len(params) < n)
          BY <3>2, <4>2
        <5>2. empty => refuses
          BY <3>2, <4>2, <5>1 DEF Refuses
        <5>3. n < 2 /\ refuses => empty
          <6>1. ASSUME n < 2, refuses PROVE empty
            <7>1. PICK k \in DOMAIN params : Refuses(t, k, params[k])
              BY <6>1
            <7>2. k = 1
              <8> HIDE DEF n, params
              <8> QED
                BY <3>2, <4>2, <6>1, <7>1
            <7> QED
              BY <2>7, <3>2, <4>2, <7>1, <7>2 DEF Refuses
          <6> QED
            BY <6>1
        <5> HIDE DEF params, n, refuses, unread, empty, segment
        <5> QED
          BY <2>4, <4>2, <5>1, <5>2, <5>3
      <4> QED
        BY <3>1, <4>1, <4>2
    <3>4. ASSUME answer.code = "200", NEW s \in Specifiers
          PROVE  LET found == GetParam(t, params, Name[s]) IN
                 /\ found = <<>> <=> \A i \in Holes(t) : Name[t[i]] # Name[s]
                 /\ Holes(t) # {} /\ Name[s] = Name[t[hole]] => found = <<segment>>
      <4>1. DOMAIN params = 1 .. n /\ params[1] = segment
        BY <3>3, <3>4
      <4> HIDE DEF params, t, segment
      <4> QED
        BY <2>3, <4>1, GetParamIs
    <3> QED
      BY <2>7, <3>3, <3>4 DEF NamedParamIsSegment
  <2> QED
    BY <2>5, <2>6, <2>7
<1>2. IInv => NamedParamIsSegment
  BY <1>1 DEF NamedParamIsSegment
<1> QED
  BY <1>2, SpecIInv, PTL

-----------------------------------------------------------------------------
(* A conversion to an integer type gives the value of it that is congruent  *)
(* modulo 2^width, which is the number itself where the type can hold it.   *)
LEMMA NarrowedIs ==
  ASSUME NEW n \in Int, NEW type \in Types
  PROVE  /\ Narrowed(n, type) \in Values(type) /\ Narrowed(n, type) \in Int
         /\ \E q \in Int : Narrowed(n, type) = n - 2 ^ type.width * q
         /\ n \in Values(type) => Narrowed(n, type) = n
<1>1. type.width \in 1 .. LongWidth /\ type.signed \in BOOLEAN
  BY DEF Types
<1>2. PICK h \in Nat \ {0} : h = 2 ^ (type.width - 1) /\ 2 ^ type.width = 2 * h
  <2>1. type.width - 1 \in Nat /\ (type.width - 1) + 1 = type.width
    BY <1>1, LongWidthAssumption
  <2> QED
    BY <2>1, PowerOfTwo
<1>3. PICK m \in Nat \ {0} : m = 2 ^ type.width /\ m = 2 * h
  BY <1>2
<1> DEFINE low == IF type.signed THEN -h ELSE 0
<1>4. low \in Int /\ Values(type) = low .. low + m - 1
  <2>1. CASE type.signed
    <3>1. Values(type) = -h .. h - 1 /\ low = -h
      BY <1>2, <2>1 DEF Values
    <3>2. h - 1 = -h + m - 1
      BY <1>3
    <3> QED
      BY <3>1, <3>2
  <2>2. CASE ~type.signed
    <3>1. Values(type) = 0 .. m - 1 /\ low = 0
      BY <1>3, <2>2 DEF Values
    <3>2. m - 1 = 0 + m - 1
      BY <1>3
    <3> QED
      BY <3>1, <3>2
  <2> QED
    BY <2>1, <2>2
<1>5. Narrowed(n, type) = ((n - low) % m) + low
  BY <1>2, <1>3 DEF Narrowed
<1> HIDE DEF low
<1>6. LET r == ((n - low) % m) + low
      IN /\ r \in low .. low + m - 1
         /\ \E q \in Int : r = n - m * q
         /\ \A q \in Int, v \in low .. low + m - 1 : v = n - m * q => r = v
  BY <1>4, CongruentIs
<1>7. PICK r : r = Narrowed(n, type)
  OBVIOUS
<1>8. /\ r \in low .. low + m - 1
      /\ \E q \in Int : r = n - m * q
      /\ \A q \in Int, v \in low .. low + m - 1 : v = n - m * q => r = v
  BY <1>5, <1>6, <1>7, Zenon
<1>9. ASSUME n \in Values(type) PROVE r = n
  <2>1. n = n - m * 0
    OBVIOUS
  <2> QED
    BY <1>4, <1>8, <1>9, <2>1
<1>10. r \in Values(type) /\ r \in Int
  BY <1>4, <1>8
<1>11. \E q \in Int : r = n - 2 ^ type.width * q
  BY <1>3, <1>8
<1> QED
  BY <1>7, <1>9, <1>10, <1>11

(* What deserialize makes of a number: the number if the type can hold it,  *)
(* and otherwise nothing or a value of the type congruent to it.            *)
LEMMA DeserializeIs ==
  ASSUME NEW n \in Int, NEW type \in Types
  PROVE  LET value == Deserialize(type, n)
         IN /\ n \in Values(type) => value = <<n>>
            /\ value # <<>> => /\ value[1] \in Values(type)
                               /\ (value[1] - n) % (2 ^ type.width) = 0
<1> DEFINE x == Narrowed(n, Long(type))
           y == Narrowed(x, type)
<1>1. /\ type.width \in 1 .. LongWidth /\ type.signed \in BOOLEAN
      /\ Long(type) \in Types /\ Long(type).width = LongWidth
      /\ Long(type).signed = type.signed /\ LongWidth \in Nat \ {0}
  BY LongWidthAssumption DEF Types, Long
<1>2. n # NoNumber
  BY NoNumberAssumption
<1>3. Deserialize(type, n) = <<>> \/ Deserialize(type, n) = <<y>>
  BY DEF Deserialize
<1>4. x \in Int /\ y \in Int /\ y \in Values(type)
  <2>1. x \in Int
    BY <1>1, NarrowedIs
  <2> HIDE DEF x
  <2> QED
    BY <2>1, NarrowedIs
<1>5. (y - n) % (2 ^ type.width) = 0
  <2>1. PICK m \in Nat \ {0} : m = 2 ^ type.width
    <3>1. type.width \in Nat
      BY <1>1
    <3> QED
      BY <3>1, PowerOfTwo
  <2>2. PICK c \in Nat \ {0} : 2 ^ LongWidth = m * c
    <3>1. type.width \in Nat /\ LongWidth \in Nat /\ type.width <= LongWidth
      BY <1>1
    <3> QED
      BY <2>1, <3>1, PowerDivides
  <2>3. PICK q1 \in Int : x = n - (m * c) * q1
    <3>1. \E q \in Int : x = n - 2 ^ LongWidth * q
      BY <1>1, NarrowedIs
    <3> QED
      BY <2>2, <3>1
  <2>4. PICK q2 \in Int : y = x - m * q2
    <3> HIDE DEF x
    <3> QED
      BY <1>4, <2>1, NarrowedIs
  <2>5. PICK a \in Int, b \in Int : a = x /\ b = y
    BY <1>4
  <2>6. PICK q \in Int : q = -(c * q1 + q2)
    OBVIOUS
  <2>7. b - n = m * q
    <3>1. b - n = -((m * c) * q1) - m * q2
      <4>1. PICK u \in Int, v \in Int : u = (m * c) * q1 /\ v = m * q2
        OBVIOUS
      <4>2. a = n - u /\ b = a - v
        BY <2>3, <2>4, <2>5, <4>1
      <4>3. b - n = -u - v
        BY <2>5, <4>2
      <4> QED
        BY <4>1, <4>3
    <3>2. -((m * c) * q1) - m * q2 = m * (-(c * q1 + q2))
      OBVIOUS
    <3> QED
      BY <2>6, <3>1, <3>2
  <2>8. b - n \in Int /\ b - n = m * q + 0 /\ 0 \in 0 .. m - 1
    BY <2>7
  <2>9. (b - n) % m = 0
    BY <2>8, RemainderIs
  <2> QED
    BY <2>1, <2>5, <2>9
<1>6. ASSUME n \in Values(type) PROVE Deserialize(type, n) = <<n>>
  <2>1. ASSUME NEW v \in Nat, NEW w \in Nat, v <= w
        PROVE  2 ^ v \in Nat /\ 2 ^ w \in Nat /\ 2 ^ v <= 2 ^ w
    <3>1. PICK a \in Nat \ {0} : a = 2 ^ v
      BY PowerOfTwo
    <3>2. PICK q \in Nat \ {0} : 2 ^ w = a * q
      BY <2>1, <3>1, PowerDivides
    <3>3. a <= a * q /\ a * q \in Nat
      BY <3>1
    <3> QED
      BY <3>1, <3>2, <3>3
  <2>2. n \in Values(Long(type))
    <3>1. CASE type.signed
      <4>1. /\ type.width - 1 \in Nat /\ LongWidth - 1 \in Nat
            /\ type.width - 1 <= LongWidth - 1
        BY <1>1
      <4>2. PICK a \in Nat, b \in Nat :
              a = 2 ^ (type.width - 1) /\ b = 2 ^ (LongWidth - 1) /\ a <= b
        BY <2>1, <4>1
      <4>3. n \in -a .. a - 1
        BY <1>6, <3>1, <4>2 DEF Values
      <4>4. Values(Long(type)) = -b .. b - 1
        BY <1>1, <3>1, <4>2 DEF Values
      <4> QED
        BY <4>2, <4>3, <4>4
    <3>2. CASE ~type.signed
      <4>1. type.width \in Nat /\ LongWidth \in Nat /\ type.width <= LongWidth
        BY <1>1
      <4>2. PICK a \in Nat, b \in Nat : a = 2 ^ type.width /\ b = 2 ^ LongWidth /\ a <= b
        BY <2>1, <4>1
      <4>3. n \in 0 .. a - 1
        BY <1>6, <3>2, <4>2 DEF Values
      <4>4. Values(Long(type)) = 0 .. b - 1
        BY <1>1, <3>2, <4>2 DEF Values
      <4> QED
        BY <4>2, <4>3, <4>4
    <3> QED
      BY <3>1, <3>2
  <2>3. InRange(n, type)
    BY <2>2 DEF InRange
  <2>4. x = n
    BY <1>1, <2>2, NarrowedIs
  <2>5. y = n
    BY <1>6, <2>4, NarrowedIs
  <2> QED
    BY <1>2, <2>3, <2>5 DEF Deserialize
<1>7. ASSUME Deserialize(type, n) # <<>>
      PROVE  /\ Deserialize(type, n)[1] \in Values(type)
             /\ (Deserialize(type, n)[1] - n) % (2 ^ type.width) = 0
  <2>1. Deserialize(type, n) = <<y>>
    BY <1>3, <1>7
  <2>2. Deserialize(type, n)[1] = y
    BY <2>1
  <2> HIDE DEF y
  <2> QED
    BY <1>4, <1>5, <2>2
<1> QED
  BY <1>6, <1>7

(* The endpoint is given the number in the body when its type can hold it,  *)
(* and never anything but a value of its type congruent to that number.     *)
THEOREM SpecBodyIsValue == Spec => []BodyIsValue
<1>1. IInv => BodyIsValue
  <2> SUFFICES ASSUME IInv, answer # NoAnswer, answer.code \in {"200", "400"},
                      answer.body \in Int
               PROVE  LET type == BodyType[endpoints[answer.entry].route]
                          value == answer.value
                      IN /\ answer.body \in Values(type) => value = <<answer.body>>
                         /\ value # <<>> =>
                              /\ value[1] \in Values(type)
                              /\ (value[1] - answer.body) % (2 ^ type.width) = 0
    BY DEF BodyIsValue
  <2> DEFINE t == endpoints[answer.entry].route
             type == BodyType[t]
  <2>1. t \in Templates
    BY AnswerIsTyped
  <2>2. /\ answer.value =
             IF type = NoBody THEN <<>> ELSE Deserialize(type, BodyText(answer.body))
        /\ type = NoBody => answer.body = NoNumber
    BY DEF IInv, Given
  <2>3. type # NoBody
    BY <2>2, NoNumberAssumption
  <2>4. type \in Types
    BY <2>1, <2>3, BodyAssumption
  <2>5. BodyText(answer.body) = answer.body
    BY BodyAssumption DEF BodyText
  <2>6. answer.value = Deserialize(type, answer.body)
    BY <2>2, <2>3, <2>5
  <2> HIDE DEF type
  <2>7. /\ answer.body \in Values(type) => answer.value = <<answer.body>>
        /\ answer.value # <<>> => /\ answer.value[1] \in Values(type)
                                  /\ (answer.value[1] - answer.body) % (2 ^ type.width) = 0
    BY <2>4, <2>6, DeserializeIs
  <2> QED
    BY <2>7 DEF type
<1> QED
  BY <1>1, SpecIInv, PTL
=============================================================================

------------------------------- MODULE Enums -------------------------------
(***************************************************************************)
(* fp::utils, the reflection of enums: which enumerators of an enum a      *)
(* program knows by name, and how many values it believes the enum to have *)
(* (the job queue has that many queues).  Both come from a scan of indices *)
(* at compile time.  An enum is a record: the type it is stored as (signed,*)
(* width), whether it is one of flags, the first and the last index to     *)
(* scan, the values that have an enumerator, and those whose enumerator has*)
(* a name no longer than the tag "e".  The name of a value is that value.  *)
(***************************************************************************)
EXTENDS Integers, Sequences, FiniteSets, SequencesExt

CONSTANTS
  Enums,      \* the enums of a program
  SizeWidth,  \* the bits of std::size_t
  IntWidth,   \* the bits of int
  NoName      \* "<invalid>", or no string

(* A scan goes up and ends, no bit of a flag is beyond an int (such an enum *)
(* does not compile), and no other value stands for NoName.                 *)
ASSUME EnumsAssumption ==
  /\ SizeWidth \in Nat \ {0} /\ IntWidth \in Nat \ {0} /\ NoName \notin Int
  /\ \A e \in Enums :
       /\ e.signed \in BOOLEAN /\ e.width \in 1 .. SizeWidth /\ e.flag \in BOOLEAN
       /\ e.start \in Int /\ e.max \in Int
       /\ 0 <= e.max - e.start /\ e.max - e.start < 2 ^ SizeWidth
       /\ e.flag => /\ 0 <= e.start /\ e.max < 2 ^ SizeWidth
                    /\ \A i \in e.start .. e.max : i < e.width => i < IntWidth

Stored == INSTANCE Conversion WITH LongWidth <- SizeWidth, NoNumber <- NoName

(* EnumStartIndex: a negative one is a large std::size_t. *)
StartNotNegative(e) == IF e.start < 0 THEN 0 ELSE e.start
StartIndex(e) == e.start % (2 ^ SizeWidth)

(* EnumValueConstructor: the value of an index.  The shift is that of an    *)
(* int, whose last bit is its sign.                                         *)
Signed == [signed |-> TRUE, width |-> IntWidth]
Value(e, index) ==
  IF ~e.flag THEN Stored!Narrowed(index, e)
  ELSE IF index < e.width THEN Stored!Narrowed(Stored!Narrowed(2 ^ index, Signed), e)
  ELSE 0

(* The consteval toString, which says whether a value is valid. *)
IsValid(e, value) == value \in e.declared \ e.short

(* EnumValueFinder: the indices from the first one on, modulo 2^SizeWidth,  *)
(* until the last one, and of each its value if that is valid, in a tuple   *)
(* that is put before those of the next ones.                               *)
Indices(e) ==
  [k \in 1 .. ((e.max - StartIndex(e)) % (2 ^ SizeWidth)) + 1 |->
     (StartIndex(e) + k - 1) % (2 ^ SizeWidth)]
AsTuple(e, index) == IF IsValid(e, Value(e, index)) THEN <<Value(e, index)>> ELSE <<>>
Finder(e) == FoldRight(LAMBDA index, found : AsTuple(e, index) \o found, Indices(e), <<>>)
Count(e) == Len(Finder(e))

(* ConstexprMap::insert keeps the first entry of a key; the values are      *)
(* inserted from the last to the first.                                     *)
Insert(map, key) == IF Contains(map, key) THEN map ELSE Append(map, key)
StringMap(e) == FoldRight(LAMBDA key, map : Insert(map, key), Finder(e), <<>>)

(* The constexpr toString *)
NameOf(e, value) == IF Contains(StringMap(e), value) THEN value ELSE NoName

-----------------------------------------------------------------------------
(* What a reader of the enum expects: the values between the two indices,   *)
(* for flags those of the bits between them, 0 for one beyond the type.  The*)
(* sign of an int is no single bit of a wider type: that flag is not found. *)
Bit(e, i) == IF i < e.width THEN Stored!Narrowed(2 ^ i, e) ELSE 0
SignExtended(e, i) == i = IntWidth - 1 /\ IntWidth < e.width
Scanned(e) ==
  IF e.flag
    THEN {Bit(e, i) : i \in {j \in e.start .. e.max : ~SignExtended(e, j)}}
    ELSE (e.start .. e.max) \cap Stored!Values(e)
Fits(e) ==
  IF e.flag THEN e.max < e.width /\ ~ \E i \in e.start .. e.max : SignExtended(e, i)
            ELSE {e.start, e.max} \subseteq Stored!Values(e)

(* Every enumerator with a value in the scanned range, negative ones        *)
(* included, is known by its own name and nothing else is; when the type    *)
(* holds the range, each value is counted once, so that the priorities of   *)
(* jobs, from 0 on, are indices of as many queues.                          *)
IsNamed(e) ==
  LET named == {v \in Stored!Values(e) : NameOf(e, v) # NoName}
      nameable == e.declared \ e.short
  IN /\ nameable \cap Scanned(e) \subseteq named
     /\ named \subseteq nameable
     /\ \A v \in named : NameOf(e, v) = v
     /\ Fits(e) => named \subseteq Scanned(e) /\ Count(e) = Cardinality(named)
=============================================================================

SPECIFICATION NamedSpec
CONSTANTS
  Threads = {t1, t2}
  MaxErrors = 2
  MaxNesting = 2
  Enums <- MCEnums
  SizeWidth = 3
  IntWidth = 2
  NoName = NoName
SYMMETRY Symmetry
CONSTRAINT OneCaller
INVARIANTS
  TypeOK
  RaceNeedsFirstCall
  LostOnlyInLoop
  ShownOnce
  UndefinedNeedsNesting
  ShownByName

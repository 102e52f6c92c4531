SPECIFICATION Spec
CONSTANTS
  p = p
  q = q
  Specifiers = {p, q}
  NotEmpty = {q}
  Name <- MCName
  Garbage <- MCGarbage
  NoBlankLine = NoBlankLine
  Width <- MCWidth
  Methods = {"GET", "POST"}
  Templates <- MCTemplates
  Routes <- MCRoutes
  MaxRegistrations = 3
  NoAnswer = NoAnswer
  LongWidth = 3
  NoNumber = NoNumber
  BodyType <- MCBodyType
  Bodies <- MCBodies
  NoBody = NoBody
INVARIANTS
  TypeOK
  LatestWins
  SplitOnlyByEqualLength
  DescribedIsFound
  FoundIsDescribed
  NamedParamIsSegment
  BodyIsValue

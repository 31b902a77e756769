CONSTANTS
  Kinds <- AllKinds
  Ints <- SmallInts
  UInts <- SmallUInts
  Strings <- SmallStrings
  Doubles <- SmallDoubles
  Extras <- SmallExtras
  MaxRecords <- FewRecords
  Lost <- SmallLost
SPECIFICATION Spec
INVARIANTS
  TypeOK
  SizeMatches
PROPERTIES
  ImplementsBikeProto
  LoopAdvances
  ParseReturns
CHECK_DEADLOCK FALSE

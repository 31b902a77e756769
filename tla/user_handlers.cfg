CONSTANTS
  w1 = w1
  w2 = w2
  m1 = m1
  m2 = m2
  Workers = {w1, w2}
  Mobiles = {m1, m2}
  MaxSeconds = 1
  CodeOf <- TwoCodes
  MaxRequests = 3
  DbFails = TRUE
  None = None
SPECIFICATION FairSpec
INVARIANTS
  TypeOK
  CodeFromOwnSecond
  VerifiedBeforeDb
  SuccessMeansRegistered
  RowsPerRace
PROPERTIES
  EveryRequestReturns
CHECK_DEADLOCK FALSE

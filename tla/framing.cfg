CONSTANTS
  HeaderLen = 3
  MaxMessage = 3
  Lengths = {0, 1, 3, 4}
  MaxRequests = 3
SPECIFICATION FairSpec
INVARIANT TypeOK
PROPERTIES
  ImplementsMessageStream
  RejectsOnlyBadLengths
  PatientClientServed
CHECK_DEADLOCK FALSE

CONSTANTS
  c1 = c1
  c2 = c2
  s1 = s1
  s2 = s2
  w1 = w1
  w2 = w2
  Conns = {c1, c2}
  Slots = {s1, s2}
  Workers = {w1, w2}
  MaxRequests = 2
  MaxQueue = 1
  MaxPending = 2
  Kinds <- AllKinds
  Pipeliners = {c1}
  ExitTask = ExitTask
  None = None
SPECIFICATION FairSpec
INVARIANTS
  TypeOK
  InFlightOwned
  AnswersInOrder
  Aligned
  StrayAnswersConfined
  InputConsumed
PROPERTIES
  ReadsOnAfterAnswer
  MobileAnswered

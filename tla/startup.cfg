CONSTANTS
  w1 = w1
  w2 = w2
  Workers = {w1, w2}
  MaxRequests = 2
  Null = Null
SPECIFICATION Spec
INVARIANTS
  TypeOK
  ThreadsComeLast
  FreedPoolAbandoned
  AnsweredByHandler
PROPERTIES
  AcceptedAnswered
CHECK_DEADLOCK FALSE

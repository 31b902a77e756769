CONSTANTS
  c1 = c1
  c2 = c2
  s1 = s1
  w1 = w1
  Conns = {c1, c2}
  Slots = {s1}
  Workers = {w1}
  MaxRequests = 1
  MaxQueue = 1
  MaxPending = 2
  Kinds = {"mobile"}
  Pipeliners = {}
  ExitTask = ExitTask
  None = None
SPECIFICATION Spec
INVARIANTS
  AnswerReachesAsker

CONSTANTS
  c1 = c1
  c2 = c2
  c3 = c3
  s1 = s1
  s2 = s2
  s3 = s3
  w1 = w1
  Conns = {c1, c2, c3}
  Slots = {s1, s2, s3}
  Workers = {w1}
  MaxRequests = 1
  MaxQueue = 1
  MaxPending = 2
  Kinds = {"mobile"}
  Pipeliners = {}
  ExitTask = ExitTask
  None = None
SPECIFICATION Spec
INVARIANTS
  WaitingSessionHasRequest

CONSTANTS
  w1 = w1
  w2 = w2
  m1 = m1
  Workers = {w1, w2}
  Mobiles = {m1}
  MaxSeconds = 0
  CodeOf <- TwoCodes
  MaxRequests = 3
  DbFails = FALSE
  None = None
SPECIFICATION Spec
INVARIANTS
  RegisteredOnce
CHECK_DEADLOCK FALSE

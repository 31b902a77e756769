CONSTANTS
  w1 = w1
  w2 = w2
  t1 = t1
  t2 = t2
  Workers = {w1, w2}
  Tasks = {t1, t2}
  MaxQueue = 1
  Owner = Owner
  ExitTask = ExitTask
  First = First
  None = None
SPECIFICATION Spec
INVARIANT DestroyDestroys
CHECK_DEADLOCK FALSE

CONSTANTS
  w1 = w1
  w2 = w2
  w3 = w3
  t1 = t1
  t2 = t2
  t3 = t3
  Workers = {w1, w2, w3}
  Tasks = {t1, t2, t3}
  MaxQueue = 1
  Owner = Owner
  ExitTask = ExitTask
  First = First
  None = None
SPECIFICATION FairSpec
INVARIANTS
  TypeOK
  MutexDiscipline
  WaitingCount
  QueueBound
  NoLostWakeup
  LinksMatch
  DestroyDrains
PROPERTIES
  ImplementsTaskQueue
  AcceptedTasksRun
  DestroyReturns
CHECK_DEADLOCK FALSE

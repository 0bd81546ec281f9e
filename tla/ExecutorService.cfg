SPECIFICATION FairSpec
CONSTANTS
  w1 = w1  w2 = w2  w3 = w3
  t1 = t1  t2 = t2  t3 = t3  t4 = t4
  NoTask = NoTask
  Worker <- Worker3
  Task <- Task4
  MaxWorkers = 3
  SpawnMayFail = FALSE
  Panicking <- NoTasks
INVARIANTS SlotsMatchThreads WorkConserving
PROPERTIES EveryTaskStarts IdleWorkersRetire PoolSpec
CHECK_DEADLOCK FALSE

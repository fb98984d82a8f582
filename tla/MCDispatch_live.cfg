\* One fair dispatch loop, one worker of capacity 1 for two tasks, one requeue.
SPECIFICATION FairSpec
CONSTANTS
  d1 = d1
  d2 = d2
  t1 = t1
  t2 = t2
  None = None
  Dispatchers = {d1}
  Tasks = {t1, t2}
  Ids = {1}
  Capacity = 1
  MaxWorkers = 2
  MaxParallel = 2
  Ops = {"enqueue", "requeue"}
  MaxOps = 1
INVARIANT InProgressIsActive
PROPERTY QueuedIsRun
CHECK_DEADLOCK FALSE

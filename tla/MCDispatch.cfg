\* Two dispatch loops, one task, three calls of others.
SPECIFICATION Spec
CONSTANTS
  d1 = d1
  d2 = d2
  t1 = t1
  t2 = t2
  None = None
  Dispatchers = {d1, d2}
  Tasks = {t1}
  Ids = {1, 2}
  Capacity = 1
  MaxWorkers = 2
  MaxParallel = 1
  Ops = {"enqueue", "requeue", "cancel", "watchdog", "remove"}
  MaxOps = 3
INVARIANTS NoWorkerLeaks NothingAbandoned NoGhostActive
CHECK_DEADLOCK FALSE

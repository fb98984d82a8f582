\* Three callers and two workers, of which one is managed, with fair runs.
SPECIFICATION FairSpec
CONSTANTS
  c1 = c1
  c2 = c2
  c3 = c3
  None = None
  Calls = {c1, c2, c3}
  Tasks = {c1, c2, c3}
  TaskOf <- OwnTask
  Ids = {1, 2}
  Managed = {2}
  Capacity = 1
  MaxWorkers = 2
INVARIANTS TypeOK AccountingExact LeaseIndexExact StatusExact
PROPERTY BusyWorkerReturns

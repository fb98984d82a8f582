\* Two callers, who may both change t1 at once; the second clears too; one taker.
SPECIFICATION FairSpec
CONSTANTS
  c1 = c1
  c2 = c2
  k = k
  t1 = t1
  t2 = t2
  t3 = t3
  None = None
  Callers = {c1, c2}
  Takers = {k}
  Clearers = {c2}
  Tasks = {t1, t2, t3}
  DependsOn <- SecondAfterFirst
  Serves <- Shared
  Levels = 2
  MaxCapacity = 1
  MaxListed = 1
INVARIANTS IndexExact CapacityOverrun DependenciesWereDone
PROPERTIES CallsReturn OrderKept
CHECK_DEADLOCK FALSE

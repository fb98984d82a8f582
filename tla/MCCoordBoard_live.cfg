\* Two agents that work, one of which adds the tasks, and one that cancels; t2
\* depends on t1; no faults.
SPECIFICATION FairSpec
CONSTANTS
  a1 = a1
  a2 = a2
  a3 = a3
  t1 = t1
  t2 = t2
  None = None
  Agents = {a1, a2}
  Tasks = {t1, t2}
  Deps <- Chain
  Adders = {a1}
  Cancellers = {a2}
  MaxFaults = 0
INVARIANTS DepsFirst ReadyIsClaimable
PROPERTIES ReadyIsTaken ClaimedIsFinished
CHECK_DEADLOCK FALSE

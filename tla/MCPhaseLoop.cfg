\* One task run three times, with and without an agent, and lists of phases.
SPECIFICATION LiveSpec
CONSTANTS
  None = None
  MaxCycles = 2
  MaxRetries = 2
  MaxRuns = 3
  Synthetic <- MCSynthetic
  Ids <- MCIds
  Reports <- MCReports
  PhaseLists <- MCLists
INVARIANTS FixHasWork ReadyIsApproved DeliveredWasReviewed
PROPERTY RunEnds
CHECK_DEADLOCK FALSE

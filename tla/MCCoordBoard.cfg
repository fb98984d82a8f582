\* Three disciplined agents, one task, one adder, two faults.
SPECIFICATION Spec
CONSTANTS
  a1 = a1
  a2 = a2
  a3 = a3
  t1 = t1
  t2 = t2
  None = None
  Agents = {a1, a2, a3}
  Tasks = {t1}
  Deps <- NoDeps
  Adders = {a1}
  Cancellers = {}
  MaxFaults = 2
INVARIANTS TypeOK ExclusiveWork OwnerHasClaimFile CopiesAreCurrent
PROPERTY LockSpec
CHECK_DEADLOCK FALSE

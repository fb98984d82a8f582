\* One batch of two in order and one ordinary sub-agent; nothing fails.
SPECIFICATION FairSpec
CONSTANTS
  b1 = b1
  b2 = b2
  o1 = o1
  None = None
  Batches = {b1}
  Subtasks <- OnePair
  Ordinary = {o1}
  MayFail = {}
  MaxConcurrent = 2
PROPERTY ReadyIsStarted
CHECK_DEADLOCK FALSE

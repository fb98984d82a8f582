\* Batches of four and of three, room for two agents, one ordinary sub-agent, one agent
\* that may fail.
SPECIFICATION FairSpec
CONSTANTS
  b1 = b1
  b2 = b2
  o1 = o1
  None = None
  Batches = {b1, b2}
  Subtasks <- TwoBatches
  Ordinary = {o1}
  MayFail <- LastFails
  MaxConcurrent = 2
INVARIANTS AnswerIsComplete DependentsWait CountCovers
PROPERTY BatchAnswered
CHECK_DEADLOCK FALSE

---------------------------- MODULE MCParallelAgents ----------------------------
\* The values TLC gives the constants of ParallelAgents.
EXTENDS ParallelAgents, TLC

CONSTANTS b1, b2, o1

Sub(k, d) == [key |-> k, deps |-> d]

\* A chain behind two subtasks of one key that start at once, and a batch of two equal
\* keys of which one depends on the other and a third subtask on both.
TwoBatches == (b1 :> <<Sub("x", {}), Sub("x", {}), Sub("y", {"x"}), Sub("z", {"y"})>>)
           @@ (b2 :> <<Sub("k", {"k"}), Sub("k", {}), Sub("l", {"k"})>>)

\* A pair in order.
OnePair == b1 :> <<Sub("x", {}), Sub("y", {"x"})>>

LastFails == {<<b2, 3>>}
=================================================================================

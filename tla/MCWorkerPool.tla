------------------------------ MODULE MCWorkerPool ------------------------------
\* The values TLC gives the constants of WorkerPool.
EXTENDS WorkerPool

CONSTANTS c1, c2, c3

\* Every caller has a task of its own.
OwnTask == [c \in Calls |-> c]
=================================================================================

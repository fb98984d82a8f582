------------------------------ MODULE MCTaskQueue ------------------------------
\* The values TLC gives the constants of TaskQueue.
EXTENDS TaskQueue

CONSTANTS c1, c2, k, t1, t2, t3

SecondAfterFirst == [t \in Tasks |-> IF t = t2 THEN {t1} ELSE {}]
Shared == [c \in Callers |-> IF c = c1 THEN {t1, t2} ELSE {t1, t3}]
================================================================================

------------------------------ MODULE MCCoordBoard ------------------------------
\* The values TLC gives the constants of CoordBoard.
EXTENDS CoordBoard

CONSTANTS a1, a2, a3, t1, t2

\* Dependencies: none; t2 after t1; both ways round would never be ready.
NoDeps == [t \in Tasks |-> {}]
Chain  == [t \in Tasks |-> IF t = t2 THEN {t1} ELSE {}]
===============================================================================

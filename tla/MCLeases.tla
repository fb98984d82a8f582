------------------------------- MODULE MCLeases -------------------------------
\* The values TLC gives the constants of Leases.
EXTENDS Leases, TLC

CONSTANTS c1, c2, t1, w1, w2

\* One client leases the task out; another one only replaces workers.
OneServer == (c1 :> {t1}) @@ (c2 :> {})
\* The two workers are alike.
Alike == Permutations({w1, w2})
================================================================================

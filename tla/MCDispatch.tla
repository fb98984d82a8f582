------------------------------- MODULE MCDispatch -------------------------------
\* The values TLC gives the constants of Dispatch.
EXTENDS Dispatch

CONSTANTS d1, d2, t1, t2
=================================================================================

---------------------------- MODULE MCTaskRecords ---------------------------
\* The values TLC gives the constants of TaskRecords are in the cfgs.
EXTENDS TaskRecords

CONSTANTS c1, c2
=============================================================================

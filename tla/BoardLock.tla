-------------------------------- MODULE BoardLock --------------------------------
(***************************************************************************)
(* What the claim files of the task board promise ("a sibling .claim file *)
(* that records exclusive ownership", board.rs:3-5): an agent is told that *)
(* it owns a task only while the task is reserved for it, and only that    *)
(* agent gives the reservation up.                                         *)
(***************************************************************************)
CONSTANTS Agents, Tasks, None

VARIABLES
  owner,    \* owner[t]: the agent t is reserved for, or None
  working   \* working[t]: the agents that believe they own t

vars == <<owner, working>>

Init ==
  /\ owner = [t \in Tasks |-> None]
  /\ working = [t \in Tasks |-> {}]

Reserve(a, t) ==
  /\ owner[t] = None
  /\ owner' = [owner EXCEPT ![t] = a]
  /\ UNCHANGED working

\* The agent learns that the task is its own.
Confirm(a, t) ==
  /\ owner[t] = a
  /\ working' = [working EXCEPT ![t] = @ \union {a}]
  /\ UNCHANGED owner

Release(a, t) ==
  /\ owner[t] = a /\ working[t] = {a}
  /\ owner' = [owner EXCEPT ![t] = None]
  /\ working' = [working EXCEPT ![t] = {}]

\* The agent gives up without releasing: the reservation outlives it.
Abandon(a, t) ==
  /\ a \in working[t]
  /\ working' = [working EXCEPT ![t] = @ \ {a}]
  /\ UNCHANGED owner

\* The agent dies and forgets everything it owned.
Forget(a) ==
  /\ working' = [t \in Tasks |-> working[t] \ {a}]
  /\ UNCHANGED owner

Next == \E a \in Agents :
          \/ Forget(a)
          \/ \E t \in Tasks : Reserve(a, t) \/ Confirm(a, t) \/ Release(a, t) \/ Abandon(a, t)

Spec == Init /\ [][Next]_vars
===============================================================================

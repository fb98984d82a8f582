----------------------------- MODULE CoordBoard_proof -----------------------------
(***************************************************************************)
(* Proofs about the task board, for any agents, tasks, dependencies and    *)
(* number of faults.                                                       *)
(***************************************************************************)
EXTENDS CoordBoard, TLAPS

USE CoordAssumption

\* Every step keeps the files, the calls and the bookkeeping of the board in
\* their types.
LEMMA TypeStep == TypeOK /\ [Next]_vars => TypeOK'
<1> SUFFICES ASSUME TypeOK, [Next]_vars PROVE TypeOK'
  OBVIOUS
<1> USE DEF TypeOK, Entries, Someone, Status, Terminal, Steps
<1>1. CASE UNCHANGED vars
  BY <1>1 DEF vars
<1>2. ASSUME NEW a \in Agents, NEW t \in Tasks, AddCheck(a, t) PROVE TypeOK'
  BY <1>2 DEF AddCheck, Begin, files, Fresh
<1>3. ASSUME NEW a \in Agents, AddWrite(a) PROVE TypeOK'
  BY <1>3 DEF AddWrite, Leave, Return, WriteEntry, NoEntry
<1>4. ASSUME NEW a \in Agents, NEW t \in Tasks, ClaimRead(a, t) PROVE TypeOK'
  BY <1>4 DEF ClaimRead, Begin, files
<1>5. ASSUME NEW a \in Agents, NEW d \in Tasks, DepRead(a, d) PROVE TypeOK'
  <2>1. CASE entry[d].status = "completed"
    BY <1>5, <2>1 DEF DepRead, files
  <2>2. CASE entry[d].status # "completed"
    <3>1. Return(a) /\ UNCHANGED <<files, mine, faults, done>>
      BY <1>5, <2>2 DEF DepRead
    <3> QED
      BY <3>1 DEF Return, files, NoEntry
  <2> QED
    BY <2>1, <2>2
<1>6. ASSUME NEW a \in Agents, Create(a) PROVE TypeOK'
  BY <1>6 DEF Create, Move
<1>7. ASSUME NEW a \in Agents, CreateLoses(a) PROVE TypeOK'
  BY <1>7 DEF CreateLoses, Move, files
<1>8. ASSUME NEW a \in Agents, ReadWinner(a) PROVE TypeOK'
  BY <1>8 DEF ReadWinner, Leave, Return, files, NoEntry
<1>9. ASSUME NEW a \in Agents, Stamp(a) PROVE TypeOK'
  BY <1>9 DEF Stamp, Move
<1>10. ASSUME NEW a \in Agents, Publish(a) PROVE TypeOK'
  <2>1. arg[a] \in Tasks /\ local[a] \in Entries
    BY <1>10 DEF Publish, Leave
  <2>2. [local[a] EXCEPT !.status = "claimed", !.owner = a] \in Entries
    BY <2>1
  <2>3. entry' \in [Tasks -> Entries] /\ done' \subseteq Tasks
    BY <1>10, <2>1, <2>2 DEF Publish, WriteEntry
  <2> QED
    BY <1>10, <2>1, <2>3 DEF Publish, Leave, Return, NoEntry
<1>11. ASSUME NEW a \in Agents, NEW t \in Tasks, NEW s \in Terminal, FinishRead(a, t, s)
       PROVE TypeOK'
  <2> DEFINE r == IF s = "cancelled" THEN None ELSE a
  <2>0. r \in Someone /\ entry[t] \in Entries /\ s \in Status
    OBVIOUS
  <2>1. Finished(a, t, s) \in Entries
    <3> HIDE DEF r
    <3>1. Finished(a, t, s) = [entry[t] EXCEPT !.status = s, !.result = r]
      BY DEF Finished, r
    <3> QED
      BY <3>1, <2>0
  <2> QED
    BY <1>11, <2>1 DEF FinishRead, Begin, files
<1>12. ASSUME NEW a \in Agents, NEW t \in Tasks, FinishRefused(a, t) PROVE TypeOK'
  BY <1>12 DEF FinishRefused, files
<1>13. ASSUME NEW a \in Agents, FinishWrite(a) PROVE TypeOK'
  BY <1>13 DEF FinishWrite, Move, WriteEntry
<1>14. ASSUME NEW a \in Agents, FinishUnlink(a) PROVE TypeOK'
  BY <1>14 DEF FinishUnlink, Leave, Return, NoEntry
<1>15. ASSUME NEW a \in Agents, Crash(a) PROVE TypeOK'
  BY <1>15 DEF Crash, Fault, Return, files, NoEntry
<1>16. ASSUME NEW a \in Agents, WriteError(a) PROVE TypeOK'
  BY <1>16 DEF WriteError, Fault, Return, files, NoEntry
<1>17. ASSUME NEW a \in Agents, UnlinkError(a) PROVE TypeOK'
  BY <1>17 DEF UnlinkError, Fault, Leave, Return, files, NoEntry
<1>18. ASSUME NEW a \in Agents, NEW t \in Tasks, Resume(a, t) PROVE TypeOK'
  BY <1>18 DEF Resume, files
<1> QED
  BY <1>1, <1>2, <1>3, <1>4, <1>5, <1>6, <1>7, <1>8, <1>9, <1>10, <1>11, <1>12,
     <1>13, <1>14, <1>15, <1>16, <1>17, <1>18
     DEF Next, AddTask, ClaimTask, FinishTask, Faulty

\* The empty board is well typed.
LEMMA TypeInit == Init => TypeOK
  BY DEF Init, TypeOK, Entries, Someone, Status, NoEntry, Steps

\* The board is always well typed (every field of the task and claim files).
THEOREM TypeCorrect == Spec => []TypeOK
  BY TypeInit, TypeStep, PTL DEF Spec
---------------------------------------------------------------------------
(***************************************************************************)
(* Exclusive ownership.  The claim file must be seen to outlive every call *)
(* that relies on it: a call that finishes a task belongs to its owner, and *)
(* from its write to its unlink the task file no longer says Claimed.      *)
(***************************************************************************)
CallsOfOwner ==
  \A a \in Agents :
    /\ pc[a] = "add" => local[a] = Fresh
    /\ pc[a] = "finish" => local[a].status # "claimed"
    /\ pc[a] \in {"finish", "unlink"} => arg[a] \in mine[a]
    /\ pc[a] = "unlink" => entry[arg[a]].status # "claimed"

ExclusiveInv == TypeOK /\ ExclusiveWork /\ OwnerHasClaimFile /\ CallsOfOwner

\* The empty board satisfies it.
LEMMA ExclusiveInit == Init => ExclusiveInv
  BY TypeInit
     DEF Init, ExclusiveInv, ExclusiveWork, OwnerHasClaimFile, CallsOfOwner, Holds, NoEntry

\* Without cancellers every step preserves the strengthened invariant.
LEMMA ExclusiveStep ==
  ASSUME Cancellers = {}
  PROVE  ExclusiveInv /\ [Next]_vars => ExclusiveInv'
<1> SUFFICES ASSUME ExclusiveInv, [Next]_vars
             PROVE  (ExclusiveWork /\ OwnerHasClaimFile /\ CallsOfOwner)'
  BY TypeStep DEF ExclusiveInv
<1> DEFINE Goal == ExclusiveWork /\ OwnerHasClaimFile /\ CallsOfOwner
<1> USE DEF ExclusiveInv, TypeOK, ExclusiveWork, OwnerHasClaimFile, CallsOfOwner, Holds,
            Entries, Someone, Status, Terminal, Fault, NoEntry, Fresh, files
<1>1. ASSUME UNCHANGED vars PROVE Goal'
  BY <1>1 DEF vars
<1>2. ASSUME NEW a \in Agents, NEW t \in Tasks, AddCheck(a, t) PROVE Goal'
  BY <1>2 DEF AddCheck, Begin
<1>3. ASSUME NEW a \in Agents, AddWrite(a) PROVE Goal'
  BY <1>3 DEF AddWrite, Leave, Return, WriteEntry, Fresh
<1>4. ASSUME NEW a \in Agents, NEW t \in Tasks, ClaimRead(a, t) PROVE Goal'
  BY <1>4 DEF ClaimRead, Begin
<1>5. ASSUME NEW a \in Agents, NEW d \in Tasks, DepRead(a, d) PROVE Goal'
  <2>1. UNCHANGED <<files, mine, faults, done>>
    BY <1>5 DEF DepRead
  <2>2. CASE UNCHANGED <<pc, arg, local>>
    BY <2>1, <2>2
  <2>3. CASE Return(a)
    BY <2>1, <2>3 DEF Return
  <2> QED
    BY <1>5, <2>2, <2>3 DEF DepRead
<1>6. ASSUME NEW a \in Agents, Create(a) PROVE Goal'
  BY <1>6 DEF Create, Move
<1>7. ASSUME NEW a \in Agents, CreateLoses(a) PROVE Goal'
  BY <1>7 DEF CreateLoses, Move
<1>8. ASSUME NEW a \in Agents, ReadWinner(a) PROVE Goal'
  BY <1>8 DEF ReadWinner, Leave, Return
<1>9. ASSUME NEW a \in Agents, Stamp(a) PROVE Goal'
  BY <1>9 DEF Stamp, Move
<1>10. ASSUME NEW a \in Agents, Publish(a) PROVE Goal'
  BY <1>10 DEF Publish, Leave, Return, WriteEntry
<1>11. ASSUME NEW a \in Agents, NEW t \in Tasks, NEW s \in Terminal, FinishRead(a, t, s) PROVE Goal'
  BY <1>11 DEF FinishRead, MayFinish, Finished, Begin
<1>12. ASSUME NEW a \in Agents, NEW t \in Tasks, FinishRefused(a, t) PROVE Goal'
  BY <1>12 DEF FinishRefused
<1>13. ASSUME NEW a \in Agents, FinishWrite(a) PROVE Goal'
  BY <1>13 DEF FinishWrite, Move, WriteEntry
<1>14. ASSUME NEW a \in Agents, FinishUnlink(a) PROVE Goal'
  BY <1>14 DEF FinishUnlink, Leave, Return
<1>15. ASSUME NEW a \in Agents, Crash(a) PROVE Goal'
  BY <1>15 DEF Crash, Return
<1>16. ASSUME NEW a \in Agents, WriteError(a) PROVE Goal'
  BY <1>16 DEF WriteError, Return
<1>17. ASSUME NEW a \in Agents, UnlinkError(a) PROVE Goal'
  BY <1>17 DEF UnlinkError, Leave, Return
<1>18. ASSUME NEW a \in Agents, NEW t \in Tasks, Resume(a, t) PROVE Goal'
  BY <1>18 DEF Resume
<1>19. Goal'
  <2> HIDE DEF Goal, ExclusiveInv, TypeOK
  <2>1. ASSUME NEW a \in Agents, AddTask(a) PROVE Goal'
    BY <2>1, <1>2, <1>3 DEF AddTask
  <2>2. ASSUME NEW a \in Agents, ClaimTask(a) PROVE Goal'
    BY <2>2, <1>4, <1>5, <1>6, <1>7, <1>8, <1>9, <1>10 DEF ClaimTask
  <2>3. ASSUME NEW a \in Agents, FinishTask(a) PROVE Goal'
    BY <2>3, <1>11, <1>12, <1>13, <1>14 DEF FinishTask
  <2>4. ASSUME NEW a \in Agents, Faulty(a) PROVE Goal'
    BY <2>4, <1>15, <1>16, <1>17, <1>18 DEF Faulty
  <2> QED
    BY <1>1, <2>1, <2>2, <2>3, <2>4 DEF Next
<1> QED
  BY <1>19

\* At most one agent works on a task at a time, and the claim file is its own: the
\* O_CREAT|O_EXCL protocol of claim_task and finish is a mutual exclusion through
\* any number of crashes, failed writes and racing adders, as long as nobody cancels.
THEOREM Exclusion ==
  ASSUME Cancellers = {}
  PROVE  Spec => []ExclusiveWork
<1>1. ExclusiveInv => ExclusiveWork
  BY DEF ExclusiveInv
<1> QED
  BY ExclusiveInit, <1>1, ExclusiveStep, PTL DEF Spec

\* The Claimed status of a task file and its claim file always agree on the owner.
THEOREM OwnerAgreement ==
  ASSUME Cancellers = {}
  PROVE  Spec => []OwnerHasClaimFile
<1>1. ExclusiveInv => OwnerHasClaimFile
  BY DEF ExclusiveInv
<1> QED
  BY ExclusiveInit, <1>1, ExclusiveStep, PTL DEF Spec

---------------------------------------------------------------------------
(***************************************************************************)
(* Dependencies.  claim_task reads them one at a time, so what it knows is *)
(* that each one it has crossed off has been Completed at some time.       *)
(***************************************************************************)
DepsRead ==
  /\ \A a \in Agents :
       /\ pc[a] = "deps" => Deps[arg[a]] \ todo[a] \subseteq done
       /\ pc[a] = "add" => local[a] = Fresh
       /\ pc[a] = "finish" => local[a].status # "claimed"
  /\ \A t \in Tasks : entry[t].status = "completed" => t \in done

DepsInv == TypeOK /\ DepsFirst /\ DepsRead

\* Every step, cancels included, preserves it.
LEMMA DepsStep == DepsInv /\ [Next]_vars => DepsInv'
<1> SUFFICES ASSUME DepsInv, [Next]_vars PROVE (DepsFirst /\ DepsRead)'
  BY TypeStep DEF DepsInv
<1> DEFINE Goal == DepsFirst /\ DepsRead
<1> USE DEF DepsInv, TypeOK, DepsFirst, DepsRead, Holds,
            Entries, Someone, Status, Terminal, Fault, NoEntry, Fresh, files
<1>1. ASSUME UNCHANGED vars PROVE Goal'
  BY <1>1 DEF vars
<1>2. ASSUME NEW a \in Agents, NEW t \in Tasks, AddCheck(a, t)
     PROVE  Goal'
  BY <1>2 DEF AddCheck, Begin
<1>3. ASSUME NEW a \in Agents, AddWrite(a)
     PROVE  Goal'
  BY <1>3 DEF AddWrite, Leave, Return, WriteEntry, Fresh
<1>4. ASSUME NEW a \in Agents, NEW t \in Tasks, ClaimRead(a, t)
     PROVE  Goal'
  BY <1>4 DEF ClaimRead, Begin
<1>5. ASSUME NEW a \in Agents, NEW d \in Tasks, DepRead(a, d)
     PROVE  Goal'
  <2>1. CASE entry[d].status = "completed"
    BY <1>5, <2>1 DEF DepRead
  <2>2. CASE entry[d].status # "completed"
    <3>1. Return(a) /\ UNCHANGED <<files, mine, faults, done>>
      BY <1>5, <2>2 DEF DepRead
    <3> QED
      BY <3>1 DEF Return
  <2> QED
    BY <2>1, <2>2
<1>6. ASSUME NEW a \in Agents, Create(a)
     PROVE  Goal'
  BY <1>6 DEF Create, Move
<1>7. ASSUME NEW a \in Agents, CreateLoses(a)
     PROVE  Goal'
  BY <1>7 DEF CreateLoses, Move
<1>8. ASSUME NEW a \in Agents, ReadWinner(a)
     PROVE  Goal'
  BY <1>8 DEF ReadWinner, Leave, Return
<1>9. ASSUME NEW a \in Agents, Stamp(a)
     PROVE  Goal'
  BY <1>9 DEF Stamp, Move
<1>10. ASSUME NEW a \in Agents, Publish(a)
     PROVE  Goal'
  BY <1>10 DEF Publish, Leave, Return, WriteEntry
<1>11. ASSUME NEW a \in Agents, NEW t \in Tasks, NEW s \in Terminal, FinishRead(a, t, s)
     PROVE  Goal'
  BY <1>11 DEF FinishRead, MayFinish, Finished, Begin
<1>12. ASSUME NEW a \in Agents, NEW t \in Tasks, FinishRefused(a, t)
     PROVE  Goal'
  BY <1>12 DEF FinishRefused
<1>13. ASSUME NEW a \in Agents, FinishWrite(a)
     PROVE  Goal'
  BY <1>13 DEF FinishWrite, Move, WriteEntry
<1>14. ASSUME NEW a \in Agents, FinishUnlink(a)
     PROVE  Goal'
  BY <1>14 DEF FinishUnlink, Leave, Return
<1>15. ASSUME NEW a \in Agents, Crash(a)
     PROVE  Goal'
  BY <1>15 DEF Crash, Return
<1>16. ASSUME NEW a \in Agents, WriteError(a)
     PROVE  Goal'
  BY <1>16 DEF WriteError, Return
<1>17. ASSUME NEW a \in Agents, UnlinkError(a)
     PROVE  Goal'
  BY <1>17 DEF UnlinkError, Leave, Return
<1>18. ASSUME NEW a \in Agents, NEW t \in Tasks, Resume(a, t)
     PROVE  Goal'
  BY <1>18 DEF Resume
<1>19. Goal'
  <2> HIDE DEF Goal, DepsInv, TypeOK
  <2>1. ASSUME NEW a \in Agents, AddTask(a) PROVE Goal'
    BY <2>1, <1>2, <1>3 DEF AddTask
  <2>2. ASSUME NEW a \in Agents, ClaimTask(a) PROVE Goal'
    BY <2>2, <1>4, <1>5, <1>6, <1>7, <1>8, <1>9, <1>10 DEF ClaimTask
  <2>3. ASSUME NEW a \in Agents, FinishTask(a) PROVE Goal'
    BY <2>3, <1>11, <1>12, <1>13, <1>14 DEF FinishTask
  <2>4. ASSUME NEW a \in Agents, Faulty(a) PROVE Goal'
    BY <2>4, <1>15, <1>16, <1>17, <1>18 DEF Faulty
  <2> QED
    BY <1>1, <2>1, <2>2, <2>3, <2>4 DEF Next
<1> QED
  BY <1>19

\* No task is claimed or worked on before each of its dependencies was Completed,
\* whatever agents are cancelled, crash or race.
THEOREM DependenciesFirst == Spec => []DepsFirst
<1>1. Init => DepsInv
  BY TypeInit DEF Init, DepsInv, DepsFirst, DepsRead, Holds, NoEntry
<1>2. DepsInv => DepsFirst
  BY DEF DepsInv
<1> QED
  BY <1>1, <1>2, DepsStep, PTL DEF Spec

---------------------------------------------------------------------------
(***************************************************************************)
(* Refinement: the claim files and what agents believe implement BoardLock. *)
(***************************************************************************)
Believers == [t \in Tasks |-> {a \in Agents : t \in mine[a]}]

\* An agent that is told it owns a task joins the believers of that task ...
LEMMA BelieveAdd ==
  ASSUME TypeOK, NEW a \in Agents, NEW t \in Tasks,
         mine' = [mine EXCEPT ![a] = @ \union {t}]
  PROVE  Believers' = [Believers EXCEPT ![t] = @ \union {a}]
<1>1. ASSUME NEW u \in Tasks
      PROVE  Believers'[u] = IF u = t THEN Believers[u] \union {a} ELSE Believers[u]
  BY <1>1 DEF Believers, TypeOK
<1> QED
  BY <1>1 DEF Believers

\* ... and one that gives it up leaves them.
LEMMA BelieveDrop ==
  ASSUME TypeOK, NEW a \in Agents, NEW t \in Tasks,
         mine' = [mine EXCEPT ![a] = @ \ {t}]
  PROVE  Believers' = [Believers EXCEPT ![t] = @ \ {a}]
<1>1. ASSUME NEW u \in Tasks
      PROVE  Believers'[u] = IF u = t THEN Believers[u] \ {a} ELSE Believers[u]
  BY <1>1 DEF Believers, TypeOK
<1> QED
  BY <1>1 DEF Believers

\* Every step of the board is a step of BoardLock or leaves its state alone.
LEMMA LockStep ==
  ASSUME Cancellers = {}
  PROVE  ExclusiveInv /\ [Next]_vars => [Lock!Next]_(Lock!vars)
<1> SUFFICES ASSUME ExclusiveInv, [Next]_vars PROVE [Lock!Next]_(Lock!vars)
  OBVIOUS
<1> DEFINE Goal == [Lock!Next]_(Lock!vars)
<1> USE DEF ExclusiveInv, TypeOK, files
<1>1. CASE UNCHANGED vars
  BY <1>1 DEF vars, Lock!vars
<1>2. ASSUME NEW a \in Agents, NEW t \in Tasks, AddCheck(a, t)
     PROVE  Goal
  BY <1>2 DEF AddCheck, Lock!vars
<1>3. ASSUME NEW a \in Agents, AddWrite(a)
     PROVE  Goal
  BY <1>3 DEF AddWrite, Lock!vars
<1>4. ASSUME NEW a \in Agents, NEW t \in Tasks, ClaimRead(a, t)
     PROVE  Goal
  BY <1>4 DEF ClaimRead, Lock!vars
<1>5. ASSUME NEW a \in Agents, NEW d \in Tasks, DepRead(a, d)
     PROVE  Goal
  BY <1>5 DEF DepRead, Lock!vars
<1>6. ASSUME NEW a \in Agents, Create(a)
     PROVE  Goal
  <2>1. Lock!Reserve(a, arg[a])
    BY <1>6 DEF Create, Move, Lock!Reserve, Entries, Someone, Status, Terminal, Steps
  <2> QED
    BY <2>1, <1>6 DEF Lock!Next, Create, Move, Steps
<1>7. ASSUME NEW a \in Agents, CreateLoses(a)
     PROVE  Goal
  BY <1>7 DEF CreateLoses, Lock!vars
<1>8. ASSUME NEW a \in Agents, ReadWinner(a)
     PROVE  Goal
  BY <1>8 DEF ReadWinner, Lock!vars
<1>9. ASSUME NEW a \in Agents, Stamp(a)
     PROVE  Goal
  BY <1>9 DEF Stamp, Lock!vars
<1>10. ASSUME NEW a \in Agents, Publish(a)
     PROVE  Goal
  <2>0. PICK t \in Tasks : t = arg[a]
    BY <1>10 DEF Publish, Leave, Steps
  <2>1. claim[t] = a
    BY <1>10, <2>0 DEF Publish, Leave, ExclusiveWork, Holds
  <2>2. Believers' = [Believers EXCEPT ![t] = @ \union {a}]
    BY <1>10, <2>0, <2>1, BelieveAdd DEF Publish
  <2>3. Lock!Confirm(a, t)
    BY <1>10, <2>0, <2>1, <2>2 DEF Publish, Believers, Lock!Confirm
  <2> QED
    BY <2>3 DEF Lock!Next
<1>11. ASSUME NEW a \in Agents, NEW t \in Tasks, NEW s \in Terminal, FinishRead(a, t, s)
     PROVE  Goal
  BY <1>11 DEF FinishRead, Lock!vars
<1>12. ASSUME NEW a \in Agents, NEW t \in Tasks, FinishRefused(a, t)
     PROVE  Goal
  <2>1. Believers' = [Believers EXCEPT ![t] = @ \ {a}]
    BY <1>12, BelieveDrop DEF FinishRefused
  <2>2. Lock!Abandon(a, t)
    BY <1>12, <2>1 DEF FinishRefused, Believers, Lock!Abandon
  <2> QED
    BY <2>2 DEF Lock!Next
<1>13. ASSUME NEW a \in Agents, FinishWrite(a)
     PROVE  Goal
  BY <1>13 DEF FinishWrite, Lock!vars
<1>14. ASSUME NEW a \in Agents, FinishUnlink(a)
     PROVE  Goal
  <2>0. PICK t \in Tasks : t = arg[a]
    BY <1>14 DEF FinishUnlink, Leave, Steps
  <2>1. t \in mine[a]
    BY <1>14, <2>0 DEF FinishUnlink, Leave, CallsOfOwner
  <2>2. claim[t] = a /\ Believers[t] = {a}
    BY <2>1 DEF ExclusiveWork, Holds, Believers
  <2>3. Believers' = [Believers EXCEPT ![t] = @ \ {a}]
    BY <1>14, <2>0, <2>1, BelieveDrop DEF FinishUnlink
  <2>4. Believers' = [Believers EXCEPT ![t] = {}]
    <3>1. Believers[t] \ {a} = {}
      BY <2>2
    <3> QED
      BY <2>3, <3>1
  <2>5. Lock!Release(a, t)
    BY <1>14, <2>0, <2>2, <2>4 DEF FinishUnlink, Believers, Lock!Release
  <2> QED
    BY <2>5 DEF Lock!Next
<1>15. ASSUME NEW a \in Agents, Crash(a)
     PROVE  Goal
  <2>1. Lock!Forget(a)
    BY <1>15 DEF Crash, Return, Lock!Forget, Entries, Someone, Status, Terminal, Steps
  <2> QED
    BY <2>1 DEF Lock!Next
<1>16. ASSUME NEW a \in Agents, WriteError(a)
     PROVE  Goal
  BY <1>16 DEF WriteError, Lock!vars
<1>17. ASSUME NEW a \in Agents, UnlinkError(a)
     PROVE  Goal
  <2>0. PICK t \in Tasks : t = arg[a]
    BY <1>17 DEF UnlinkError, Leave, Steps
  <2>1. t \in mine[a]
    BY <1>17, <2>0 DEF UnlinkError, Leave, CallsOfOwner
  <2>2. Believers' = [Believers EXCEPT ![t] = @ \ {a}]
    BY <1>17, <2>0, <2>1, BelieveDrop DEF UnlinkError
  <2>3. Lock!Abandon(a, t)
    BY <1>17, <2>0, <2>1, <2>2 DEF UnlinkError, Believers, Lock!Abandon
  <2> QED
    BY <2>3 DEF Lock!Next
<1>18. ASSUME NEW a \in Agents, NEW t \in Tasks, Resume(a, t)
     PROVE  Goal
  <2>1. claim[t] = a
    BY <1>18 DEF Resume, OwnerHasClaimFile
  <2>2. Believers' = [Believers EXCEPT ![t] = @ \union {a}]
    BY <1>18, BelieveAdd DEF Resume
  <2>3. Lock!Confirm(a, t)
    BY <1>18, <2>1, <2>2 DEF Resume, Believers, Lock!Confirm
  <2> QED
    BY <2>3 DEF Lock!Next
<1> QED
  BY <1>1, <1>2, <1>3, <1>4, <1>5, <1>6, <1>7, <1>8, <1>9, <1>10, <1>11, <1>12, <1>13, <1>14, <1>15, <1>16, <1>17, <1>18
     DEF Next, AddTask, ClaimTask, FinishTask, Faulty

\* With nobody cancelling, the board implements BoardLock: only the agent a task is
\* reserved for is told it owns it, and only that agent releases it.
THEOREM LockImplemented ==
  ASSUME Cancellers = {}
  PROVE  Spec => LockSpec
<1>1. Init => Lock!Init
  BY DEF Init, Lock!Init
<1> QED
  BY <1>1, ExclusiveInit, ExclusiveStep, LockStep, PTL DEF Spec, LockSpec, Lock!Spec

---------------------------------------------------------------------------
(***************************************************************************)
(* One adder.  add_task looks for the file before it writes it, which is   *)
(* safe as long as one agent adds tasks: a task is added once, and every   *)
(* other call is about a task that is there and stays there.               *)
(***************************************************************************)
OneAdder == \A a, b \in Adders : a = b

AddedOnce ==
  \A a \in Agents :
    /\ pc[a] = "add" => a \in Adders /\ local[a] = Fresh /\ entry[arg[a]].status = "absent"
    /\ pc[a] = "finish" => local[a].status \in Terminal
    /\ pc[a] \notin {"idle", "add"} => entry[arg[a]].status # "absent"
    /\ \A t \in mine[a] : entry[t].status # "absent"

\* Nothing makes a task that is there absent: what a call writes is claimed, final or,
\* once, pending.
LEMMA PresentStays ==
  ASSUME TypeOK, OneAdder, AddedOnce, [Next]_vars, NEW t \in Tasks
  PROVE  entry'[t].status = "absent" => entry[t] = entry'[t]
<1> USE DEF TypeOK, AddedOnce, Entries, files
<1>1. ASSUME NEW a \in Agents, AddTask(a) PROVE entry'[t].status = "absent" => entry[t] = entry'[t]
  BY <1>1 DEF AddTask, AddCheck, AddWrite, WriteEntry, Leave, Fresh
<1>2. ASSUME NEW a \in Agents, ClaimTask(a) PROVE entry'[t].status = "absent" => entry[t] = entry'[t]
  <2>1. CASE Publish(a)
    BY <2>1 DEF Publish, WriteEntry, Leave
  <2>2. CASE ~Publish(a)
    BY <1>2, <2>2 DEF ClaimTask, ClaimRead, DepRead, Create, CreateLoses, ReadWinner, Stamp
  <2> QED
    BY <2>1, <2>2
<1>3. ASSUME NEW a \in Agents, FinishTask(a) PROVE entry'[t].status = "absent" => entry[t] = entry'[t]
  <2>1. CASE FinishWrite(a)
    BY <2>1 DEF FinishWrite, WriteEntry, Move, Terminal
  <2>2. CASE ~FinishWrite(a)
    BY <1>3, <2>2 DEF FinishTask, FinishRead, FinishRefused, FinishUnlink
  <2> QED
    BY <2>1, <2>2
<1>4. ASSUME NEW a \in Agents, Faulty(a) PROVE entry'[t] = entry[t]
  BY <1>4 DEF Faulty, Crash, WriteError, UnlinkError, Resume
<1>5. CASE UNCHANGED vars
  BY <1>5 DEF vars
<1> QED
  BY <1>1, <1>2, <1>3, <1>4, <1>5 DEF Next

\* No step lets a second call add a task, or makes a call about a task that is not there.
LEMMA AddedOnceStep ==
  ASSUME OneAdder
  PROVE  TypeOK /\ TypeOK' /\ AddedOnce /\ [Next]_vars => AddedOnce'
<1> SUFFICES ASSUME TypeOK, TypeOK', AddedOnce, [Next]_vars PROVE AddedOnce'
  OBVIOUS
<1>0. \A t \in Tasks : entry[t].status # "absent" => entry'[t].status # "absent"
  BY PresentStays
<1> USE DEF TypeOK, AddedOnce, files
<1>1. ASSUME UNCHANGED vars PROVE AddedOnce'
  BY <1>1 DEF vars
<1>2. ASSUME NEW a \in Agents, NEW t \in Tasks, AddCheck(a, t) PROVE AddedOnce'
  BY <1>2 DEF AddCheck, Begin
<1>3. ASSUME NEW a \in Agents, AddWrite(a) PROVE AddedOnce'
  <2>1. /\ pc[a] = "add" /\ a \in Adders /\ UNCHANGED mine
        /\ pc' = [pc EXCEPT ![a] = "idle"] /\ arg' = [arg EXCEPT ![a] = None]
        /\ local' = [local EXCEPT ![a] = NoEntry]
    BY <1>3 DEF AddWrite, Leave, Return
  <2>2. \A b \in Agents : pc'[b] # "add"
    BY <2>1 DEF OneAdder
  <2>3. \A b \in Agents : pc'[b] # "idle" => pc'[b] = pc[b] /\ arg'[b] = arg[b] /\ local'[b] = local[b]
    BY <2>1
  <2> QED
    BY <1>0, <2>1, <2>2, <2>3
<1>4. ASSUME NEW a \in Agents, NEW t \in Tasks, ClaimRead(a, t) PROVE AddedOnce'
  BY <1>4 DEF ClaimRead, Begin
<1>5. ASSUME NEW a \in Agents, NEW d \in Tasks, DepRead(a, d) PROVE AddedOnce'
  <2>1. UNCHANGED <<files, mine>> /\ (UNCHANGED <<pc, arg, local>> \/ Return(a))
    BY <1>5 DEF DepRead
  <2> QED
    BY <2>1 DEF Return
<1>6. ASSUME NEW a \in Agents, Create(a) PROVE AddedOnce'
  BY <1>6 DEF Create, Move
<1>7. ASSUME NEW a \in Agents, CreateLoses(a) PROVE AddedOnce'
  BY <1>7 DEF CreateLoses, Move
<1>8. ASSUME NEW a \in Agents, ReadWinner(a) PROVE AddedOnce'
  BY <1>8 DEF ReadWinner, Leave, Return
<1>9. ASSUME NEW a \in Agents, Stamp(a) PROVE AddedOnce'
  BY <1>9 DEF Stamp, Move
<1>10. ASSUME NEW a \in Agents, Publish(a) PROVE AddedOnce'
  <2>1. \A t \in Tasks : entry[t].status = "absent" => entry'[t] = entry[t]
    BY <1>10 DEF Publish, WriteEntry, Leave
  <2>2. /\ pc[a] = "publish" /\ pc' = [pc EXCEPT ![a] = "idle"]
        /\ arg' = [arg EXCEPT ![a] = None] /\ local' = [local EXCEPT ![a] = NoEntry]
        /\ mine' = [mine EXCEPT ![a] = @ \union {arg[a]}]
    BY <1>10 DEF Publish, Leave, Return
  <2> QED
    BY <1>0, <2>1, <2>2
<1>11. ASSUME NEW a \in Agents, NEW t \in Tasks, NEW s \in Terminal, FinishRead(a, t, s)
       PROVE  AddedOnce'
  <2>1. /\ entry[t].status # "absent" /\ UNCHANGED <<entry, mine>>
        /\ pc' = [pc EXCEPT ![a] = "finish"] /\ arg' = [arg EXCEPT ![a] = t]
        /\ local' = [local EXCEPT ![a] = Finished(a, t, s)]
    BY <1>11 DEF FinishRead, Begin
  <2>2. Finished(a, t, s).status = s
    BY DEF Finished, Entries
  <2> HIDE DEF TypeOK
  <2> QED
    BY <2>1, <2>2 DEF TypeOK
<1>12. ASSUME NEW a \in Agents, NEW t \in Tasks, FinishRefused(a, t) PROVE AddedOnce'
  BY <1>12 DEF FinishRefused
<1>13. ASSUME NEW a \in Agents, FinishWrite(a) PROVE AddedOnce'
  <2>1. \A t \in Tasks : entry[t].status = "absent" => entry'[t] = entry[t]
    BY <1>13 DEF FinishWrite, WriteEntry, Move
  <2>2. /\ pc[a] = "finish" /\ pc' = [pc EXCEPT ![a] = "unlink"]
        /\ UNCHANGED <<arg, local, mine>>
    BY <1>13 DEF FinishWrite, Move
  <2> QED
    BY <1>0, <2>1, <2>2
<1>14. ASSUME NEW a \in Agents, FinishUnlink(a) PROVE AddedOnce'
  BY <1>14 DEF FinishUnlink, Leave, Return
<1>15. ASSUME NEW a \in Agents, Crash(a) PROVE AddedOnce'
  BY <1>15 DEF Crash, Return
<1>16. ASSUME NEW a \in Agents, WriteError(a) PROVE AddedOnce'
  BY <1>16 DEF WriteError, Return
<1>17. ASSUME NEW a \in Agents, UnlinkError(a) PROVE AddedOnce'
  BY <1>17 DEF UnlinkError, Leave, Return
<1>18. ASSUME NEW a \in Agents, NEW t \in Tasks, Resume(a, t) PROVE AddedOnce'
  BY <1>18 DEF Resume
<1>19. AddedOnce'
  <2> HIDE DEF AddedOnce, TypeOK
  <2>1. ASSUME NEW a \in Agents, AddTask(a) PROVE AddedOnce'
    BY <2>1, <1>2, <1>3 DEF AddTask
  <2>2. ASSUME NEW a \in Agents, ClaimTask(a) PROVE AddedOnce'
    BY <2>2, <1>4, <1>5, <1>6, <1>7, <1>8, <1>9, <1>10 DEF ClaimTask
  <2>3. ASSUME NEW a \in Agents, FinishTask(a) PROVE AddedOnce'
    BY <2>3, <1>11, <1>12, <1>13, <1>14 DEF FinishTask
  <2>4. ASSUME NEW a \in Agents, Faulty(a) PROVE AddedOnce'
    BY <2>4, <1>15, <1>16, <1>17, <1>18 DEF Faulty
  <2> QED
    BY <1>1, <2>1, <2>2, <2>3, <2>4 DEF Next
<1> QED
  BY <1>19

\* The empty board has no call under way.
LEMMA AddedOnceInit == Init => AddedOnce
  BY DEF Init, AddedOnce

\* What calls that will write go by: a task that was never claimed is as it was added,
\* a claimed one has no result, a claim carries a pending task's copy, and a task
\* somebody was told he owns is pending no more.
CopiesInv ==
  /\ CopiesAreCurrent
  /\ \A t \in Tasks : /\ entry[t].status = "pending" => entry[t] = Fresh
                      /\ entry[t].status = "claimed" => entry[t].result = None
  /\ \A a \in Agents : /\ pc[a] \in {"deps", "stamp", "publish"} => local[a] = Fresh
                       /\ \A t \in mine[a] : entry[t].status # "pending"

\* Steps that write no task file leave the copies of the calls under way current.
LEMMA NoWriteKeeps ==
  ASSUME CopiesInv, UNCHANGED entry, NEW a \in Agents,
         \A b \in Agents : b # a => /\ pc'[b] = pc[b] /\ arg'[b] = arg[b]
                                    /\ local'[b] = local[b] /\ mine'[b] = mine[b],
         \A t \in mine'[a] : t \in mine[a] \/ entry[t].status # "pending",
         \/ pc'[a] \in {"idle", "beaten", "unlink"}
         \/ (pc'[a] = "add" /\ entry[arg'[a]].status = "absent")
         \/ (pc'[a] = "deps" /\ local'[a] = Fresh)
         \/ /\ pc'[a] = "finish"
            /\ entry[arg'[a]] = [local'[a] EXCEPT !.status = "claimed", !.result = None]
         \/ /\ pc'[a] \in {"stamp", "publish"} /\ local'[a] = Fresh
            /\ (entry[arg'[a]] = Fresh \/ entry[arg'[a]].status \in Terminal)
  PROVE  CopiesInv'
<1>1. ASSUME NEW b \in Agents, b # a
      PROVE  /\ pc'[b] = pc[b] /\ arg'[b] = arg[b] /\ local'[b] = local[b]
             /\ mine'[b] = mine[b] /\ entry'[arg'[b]] = entry[arg[b]]
  BY <1>1
<1>2. ASSUME NEW b \in Agents, pc'[b] = "add" PROVE entry'[arg'[b]].status = "absent"
  <2>1. CASE b = a
    BY <1>2, <2>1
  <2>2. CASE b # a
    <3>1. pc[b] = "add" => entry[arg[b]].status = "absent"
      BY DEF CopiesInv, CopiesAreCurrent
    <3> QED
      BY <1>1, <1>2, <2>2, <3>1
  <2> QED
    BY <2>1, <2>2
<1>3. ASSUME NEW b \in Agents, pc'[b] = "finish"
      PROVE  entry'[arg'[b]] = [local'[b] EXCEPT !.status = "claimed", !.result = None]
  <2>1. CASE b = a
    BY <1>3, <2>1
  <2>2. CASE b # a
    <3>1. pc[b] = "finish" => entry[arg[b]] = [local[b] EXCEPT !.status = "claimed", !.result = None]
      BY DEF CopiesInv, CopiesAreCurrent
    <3> QED
      BY <1>1, <1>3, <2>2, <3>1
  <2> QED
    BY <2>1, <2>2
<1>4. ASSUME NEW b \in Agents, pc'[b] \in {"stamp", "publish"}
      PROVE  entry'[arg'[b]] = local'[b] \/ entry'[arg'[b]].status \in Terminal
  <2>1. CASE b = a
    BY <1>4, <2>1
  <2>2. CASE b # a
    BY <1>1, <1>4, <2>2 DEF CopiesInv, CopiesAreCurrent
  <2> QED
    BY <2>1, <2>2
<1>5. ASSUME NEW b \in Agents, pc'[b] \in {"deps", "stamp", "publish"} PROVE local'[b] = Fresh
  BY <1>1, <1>5 DEF CopiesInv
<1>6. ASSUME NEW b \in Agents, NEW t \in mine'[b] PROVE entry'[t].status # "pending"
  BY <1>1, <1>6 DEF CopiesInv
<1>7. ASSUME NEW t \in Tasks
      PROVE  /\ entry'[t].status = "pending" => entry'[t] = Fresh
             /\ entry'[t].status = "claimed" => entry'[t].result = None
  BY <1>7 DEF CopiesInv
<1> QED
  BY <1>2, <1>3, <1>4, <1>5, <1>6, <1>7 DEF CopiesInv, CopiesAreCurrent

\* A write of a task file about which no other call is, but one that has to look again.
LEMMA WriteKeeps ==
  ASSUME TypeOK, CopiesInv, NEW a \in Agents, arg[a] \in Tasks,
         \A t \in Tasks : t # arg[a] => entry'[t] = entry[t],
         entry'[arg[a]] = Fresh \/ entry'[arg[a]].status # "pending",
         entry'[arg[a]].status = "claimed" => entry'[arg[a]].result = None,
         pc'[a] \in {"idle", "unlink"},
         \A b \in Agents : b # a => /\ pc'[b] = pc[b] /\ arg'[b] = arg[b]
                                    /\ local'[b] = local[b] /\ mine'[b] = mine[b],
         \A b \in Agents : b # a /\ arg[b] = arg[a] => pc[b] \notin {"add", "stamp", "publish", "finish"},
         \A b \in Agents : arg[a] \in mine'[b] => entry'[arg[a]].status # "pending",
         mine'[a] \subseteq mine[a] \union {arg[a]}
  PROVE  CopiesInv'
<1>0. \A b \in Agents : mine[b] \subseteq Tasks /\ (pc[b] # "idle" => arg[b] \in Tasks)
  BY DEF TypeOK
<1>1. ASSUME NEW b \in Agents
      PROVE  /\ pc'[b] = "add" => entry'[arg'[b]].status = "absent"
             /\ pc'[b] = "finish" => entry'[arg'[b]] = [local'[b] EXCEPT !.status = "claimed", !.result = None]
             /\ pc'[b] \in {"stamp", "publish"} => \/ entry'[arg'[b]] = local'[b]
                                                   \/ entry'[arg'[b]].status \in Terminal
             /\ pc'[b] \in {"deps", "stamp", "publish"} => local'[b] = Fresh
  <2>1. CASE b = a
    BY <2>1
  <2>2. CASE b # a
    <3>1. /\ pc[b] = "add" => entry[arg[b]].status = "absent"
          /\ pc[b] = "finish" => entry[arg[b]] = [local[b] EXCEPT !.status = "claimed", !.result = None]
          /\ pc[b] \in {"stamp", "publish"} => \/ entry[arg[b]] = local[b]
                                               \/ entry[arg[b]].status \in Terminal
          /\ pc[b] \in {"deps", "stamp", "publish"} => local[b] = Fresh
      BY DEF CopiesInv, CopiesAreCurrent
    <3>2. pc'[b] \in {"add", "stamp", "publish", "finish"} => entry'[arg'[b]] = entry[arg[b]]
      BY <1>0, <2>2
    <3> QED
      BY <2>2, <3>1, <3>2
  <2> QED
    BY <2>1, <2>2
<1>2. ASSUME NEW b \in Agents, NEW t \in mine'[b] PROVE entry'[t].status # "pending"
  BY <1>0, <1>2 DEF CopiesInv
<1>3. ASSUME NEW t \in Tasks
      PROVE  /\ entry'[t].status = "pending" => entry'[t] = Fresh
             /\ entry'[t].status = "claimed" => entry'[t].result = None
  BY <1>0, <1>3 DEF CopiesInv
<1> QED
  BY <1>1, <1>2, <1>3 DEF CopiesInv, CopiesAreCurrent

\* With one adder and nobody cancelling, every step leaves the copies current: the
\* exclusive create keeps two writers of one task apart.
LEMMA CopiesStep ==
  ASSUME OneAdder, Cancellers = {}
  PROVE  ExclusiveInv /\ AddedOnce /\ CopiesInv /\ [Next]_vars => CopiesInv'
<1> SUFFICES ASSUME ExclusiveInv, AddedOnce, CopiesInv, [Next]_vars PROVE CopiesInv'
  OBVIOUS
<1> USE DEF files
<1>0. TypeOK
  BY DEF ExclusiveInv
<1>a. ASSUME NEW a \in Agents, NEW b \in Agents, a # b, arg[a] = arg[b],
             pc[a] \in {"stamp", "publish", "finish"}, pc[b] \in {"stamp", "publish", "finish"}
      PROVE  FALSE
  <2>1. arg[a] \in Tasks
    BY <1>0, <1>a DEF TypeOK
  <2>2. Holds(a, arg[a]) /\ Holds(b, arg[a])
    BY <1>a DEF Holds, ExclusiveInv, CallsOfOwner
  <2> QED
    BY <1>a, <2>1, <2>2 DEF ExclusiveInv, ExclusiveWork
<1>1. CASE UNCHANGED vars
  BY <1>1 DEF vars, CopiesInv, CopiesAreCurrent
<1>2. ASSUME NEW a \in Agents, NEW t \in Tasks, AddCheck(a, t) PROVE CopiesInv'
  <2>1. /\ UNCHANGED <<entry, mine>> /\ entry[t].status = "absent"
        /\ pc'[a] = "add" /\ arg'[a] = t
        /\ \A b \in Agents : b # a => pc'[b] = pc[b] /\ arg'[b] = arg[b] /\ local'[b] = local[b]
    BY <1>0, <1>2 DEF AddCheck, Begin, TypeOK
  <2> QED
    BY <2>1, NoWriteKeeps
<1>3. ASSUME NEW a \in Agents, AddWrite(a) PROVE CopiesInv'
  <2>1. /\ pc[a] = "add" /\ local[a] = Fresh /\ a \in Adders /\ entry[arg[a]].status = "absent"
        /\ entry' = [entry EXCEPT ![arg[a]] = Fresh] /\ mine' = mine /\ pc'[a] = "idle"
        /\ \A b \in Agents : b # a => pc'[b] = pc[b] /\ arg'[b] = arg[b] /\ local'[b] = local[b]
    BY <1>0, <1>3 DEF AddWrite, Leave, Return, WriteEntry, AddedOnce, TypeOK
  <2>2. \A b \in Agents : b # a /\ arg[b] = arg[a] => pc[b] \notin {"add", "stamp", "publish", "finish"}
    BY <2>1 DEF AddedOnce, OneAdder
  <2>3. \A b \in Agents : arg[a] \notin mine[b]
    BY <2>1 DEF AddedOnce
  <2>4. /\ arg[a] \in Tasks /\ entry'[arg[a]] = Fresh /\ Fresh.status # "claimed"
        /\ \A t \in Tasks : t # arg[a] => entry'[t] = entry[t]
    BY <1>0, <2>1 DEF TypeOK, Fresh
  <2> QED
    BY <1>0, <2>1, <2>2, <2>3, <2>4, WriteKeeps
<1>4. ASSUME NEW a \in Agents, NEW t \in Tasks, ClaimRead(a, t) PROVE CopiesInv'
  <2>1. /\ UNCHANGED <<entry, mine>> /\ entry[t] = Fresh
        /\ pc'[a] = "deps" /\ local'[a] = entry[t]
        /\ \A b \in Agents : b # a => pc'[b] = pc[b] /\ arg'[b] = arg[b] /\ local'[b] = local[b]
    BY <1>0, <1>4 DEF ClaimRead, Begin, TypeOK, CopiesInv
  <2> QED
    BY <2>1, NoWriteKeeps
<1>5. ASSUME NEW a \in Agents, NEW d \in Tasks, DepRead(a, d) PROVE CopiesInv'
  <2>1. /\ UNCHANGED <<entry, mine>>
        /\ \A b \in Agents : b # a => pc'[b] = pc[b] /\ arg'[b] = arg[b] /\ local'[b] = local[b]
        /\ pc'[a] = "idle" \/ (pc'[a] = "deps" /\ local'[a] = local[a] /\ pc[a] = "deps")
    BY <1>0, <1>5 DEF DepRead, Return, TypeOK
  <2>2. pc[a] = "deps" => local[a] = Fresh
    BY DEF CopiesInv
  <2> QED
    BY <2>1, <2>2, NoWriteKeeps
<1>6. ASSUME NEW a \in Agents, Create(a) PROVE CopiesInv'
  <2>1. /\ UNCHANGED <<entry, mine, arg, local>> /\ pc[a] = "deps" /\ claim[arg[a]] = None
        /\ pc'[a] = "stamp" /\ \A b \in Agents : b # a => pc'[b] = pc[b]
    BY <1>0, <1>6 DEF Create, Move, TypeOK
  <2>2. local[a] = Fresh /\ arg[a] \in Tasks /\ entry[arg[a]].status # "absent"
    BY <1>0, <2>1 DEF CopiesInv, TypeOK, AddedOnce
  <2>3. entry[arg[a]].status # "claimed"
    BY <2>1, <2>2, CoordAssumption DEF ExclusiveInv, OwnerHasClaimFile
  <2>4. entry[arg[a]] = Fresh \/ entry[arg[a]].status \in Terminal
    BY <1>0, <2>2, <2>3 DEF CopiesInv, TypeOK, Entries, Status, Terminal
  <2> QED
    BY <2>1, <2>2, <2>4, NoWriteKeeps
<1>7. ASSUME NEW a \in Agents, CreateLoses(a) \/ ReadWinner(a) \/ FinishUnlink(a) \/ UnlinkError(a)
                               \/ WriteError(a) \/ Crash(a)
      PROVE CopiesInv'
  <2>1. /\ UNCHANGED entry /\ pc'[a] \in {"idle", "beaten"} /\ mine'[a] \subseteq mine[a]
        /\ \A b \in Agents : b # a => /\ pc'[b] = pc[b] /\ arg'[b] = arg[b]
                                      /\ local'[b] = local[b] /\ mine'[b] = mine[b]
    BY <1>0, <1>7 DEF CreateLoses, ReadWinner, FinishUnlink, UnlinkError, WriteError, Crash,
                      Move, Leave, Return, TypeOK
  <2> QED
    BY <2>1, NoWriteKeeps
<1>8. ASSUME NEW a \in Agents, Stamp(a) PROVE CopiesInv'
  <2>1. /\ UNCHANGED <<entry, mine, arg, local>> /\ pc[a] = "stamp"
        /\ pc'[a] = "publish" /\ \A b \in Agents : b # a => pc'[b] = pc[b]
    BY <1>0, <1>8 DEF Stamp, Move, TypeOK
  <2>2. local[a] = Fresh /\ (entry[arg[a]] = Fresh \/ entry[arg[a]].status \in Terminal)
    BY <2>1 DEF CopiesInv, CopiesAreCurrent
  <2> QED
    BY <2>1, <2>2, NoWriteKeeps
<1>9. ASSUME NEW a \in Agents, Publish(a) PROVE CopiesInv'
  <2> DEFINE e == [local[a] EXCEPT !.status = "claimed", !.owner = a]
  <2>1. /\ pc[a] = "publish" /\ entry' = [entry EXCEPT ![arg[a]] = e] /\ pc'[a] = "idle"
        /\ mine' = [mine EXCEPT ![a] = @ \union {arg[a]}]
        /\ \A b \in Agents : b # a => pc'[b] = pc[b] /\ arg'[b] = arg[b] /\ local'[b] = local[b]
    BY <1>0, <1>9 DEF Publish, Leave, Return, WriteEntry, TypeOK
  <2>2. /\ arg[a] \in Tasks /\ entry'[arg[a]] = e
        /\ \A t \in Tasks : t # arg[a] => entry'[t] = entry[t]
    BY <1>0, <2>1 DEF TypeOK
  <2>5. e.status = "claimed" /\ e.result = None
    <3>1. local[a] \in Entries /\ local[a].result = None
      BY <1>0, <2>1 DEF CopiesInv, TypeOK, Fresh
    <3> QED
      BY <3>1 DEF Entries
  <2>3. \A b \in Agents : b # a /\ arg[b] = arg[a] => pc[b] \notin {"add", "stamp", "publish", "finish"}
    <3>1. entry[arg[a]].status # "absent"
      BY <2>1 DEF AddedOnce
    <3> QED
      BY <1>a, <2>1, <3>1 DEF AddedOnce
  <2>4. /\ \A b \in Agents : b # a => mine'[b] = mine[b]
        /\ mine'[a] \subseteq mine[a] \union {arg[a]}
    BY <1>0, <2>1 DEF TypeOK
  <2> HIDE DEF e
  <2> QED
    BY <1>0, <2>1, <2>2, <2>3, <2>4, <2>5, WriteKeeps
<1>10. ASSUME NEW a \in Agents, NEW t \in Tasks, NEW s \in Terminal, FinishRead(a, t, s)
       PROVE  CopiesInv'
  <2>1. /\ UNCHANGED <<entry, mine>> /\ t \in mine[a] /\ s # "cancelled"
        /\ entry[t].status \notin Terminal \union {"absent"}
        /\ pc'[a] = "finish" /\ arg'[a] = t /\ local'[a] = Finished(a, t, s)
        /\ \A b \in Agents : b # a => pc'[b] = pc[b] /\ arg'[b] = arg[b] /\ local'[b] = local[b]
    BY <1>0, <1>10 DEF FinishRead, MayFinish, Begin, TypeOK
  <2>2. entry[t].status = "claimed" /\ entry[t].result = None
    BY <1>0, <2>1 DEF CopiesInv, TypeOK, Entries, Status, Terminal
  <2>3. entry[t] = [Finished(a, t, s) EXCEPT !.status = "claimed", !.result = None]
    <3> DEFINE e == entry[t]
    <3>1. e \in Entries
      BY <1>0 DEF TypeOK
    <3> HIDE DEF e
    <3>2. e.status = "claimed" /\ e.result = None =>
            e = [[e EXCEPT !.status = s, !.result = IF s = "cancelled" THEN None ELSE a]
                   EXCEPT !.status = "claimed", !.result = None]
      BY <3>1 DEF Entries
    <3> QED
      BY <2>2, <3>2 DEF e, Finished
  <2>4. /\ pc'[a] = "finish"
        /\ entry[arg'[a]] = [local'[a] EXCEPT !.status = "claimed", !.result = None]
    BY <2>1, <2>3
  <2>5. /\ UNCHANGED entry
        /\ \A b \in Agents : b # a => /\ pc'[b] = pc[b] /\ arg'[b] = arg[b]
                                      /\ local'[b] = local[b] /\ mine'[b] = mine[b]
        /\ \A u \in mine'[a] : u \in mine[a]
    BY <2>1
  <2> QED
    BY <1>0, <2>4, <2>5, NoWriteKeeps
<1>11. ASSUME NEW a \in Agents, NEW t \in Tasks, FinishRefused(a, t) \/ Resume(a, t)
       PROVE  CopiesInv'
  <2>1. /\ UNCHANGED <<entry, pc, arg, local>>
        /\ \A b \in Agents : b # a => mine'[b] = mine[b]
        /\ \A u \in mine'[a] : u \in mine[a] \/ (u = t /\ entry[t].status = "claimed")
    BY <1>0, <1>11 DEF FinishRefused, Resume, TypeOK
  <2>2. \A b \in Agents : \A u \in mine'[b] : entry'[u].status # "pending"
    BY <2>1 DEF CopiesInv
  <2> QED
    BY <2>1, <2>2 DEF CopiesInv, CopiesAreCurrent
<1>12. ASSUME NEW a \in Agents, FinishWrite(a) PROVE CopiesInv'
  <2>1. /\ pc[a] = "finish" /\ entry' = [entry EXCEPT ![arg[a]] = local[a]] /\ pc'[a] = "unlink"
        /\ UNCHANGED <<mine, arg, local>> /\ \A b \in Agents : b # a => pc'[b] = pc[b]
    BY <1>0, <1>12 DEF FinishWrite, Move, WriteEntry, TypeOK
  <2>2. local[a] \in Entries /\ local[a].status \in Terminal
    BY <1>0, <2>1 DEF AddedOnce, TypeOK
  <2>3. \A b \in Agents : b # a /\ arg[b] = arg[a] => pc[b] \notin {"add", "stamp", "publish", "finish"}
    <3>1. entry[arg[a]].status # "absent"
      BY <2>1 DEF AddedOnce
    <3> QED
      BY <1>a, <2>1, <3>1 DEF AddedOnce
  <2>4. /\ arg[a] \in Tasks /\ entry'[arg[a]] = local[a]
        /\ \A t \in Tasks : t # arg[a] => entry'[t] = entry[t]
        /\ local[a].status # "pending" /\ local[a].status # "claimed"
    BY <1>0, <2>1, <2>2 DEF TypeOK, Terminal
  <2> QED
    BY <1>0, <2>1, <2>2, <2>3, <2>4, WriteKeeps
<1>13. ASSUME NEW a \in Agents, AddTask(a) PROVE CopiesInv'
  BY <1>13, <1>2, <1>3 DEF AddTask
<1>14. ASSUME NEW a \in Agents, ClaimTask(a) PROVE CopiesInv'
  BY <1>14, <1>4, <1>5, <1>6, <1>7, <1>8, <1>9 DEF ClaimTask
<1>15. ASSUME NEW a \in Agents, FinishTask(a) PROVE CopiesInv'
  BY <1>15, <1>7, <1>10, <1>11, <1>12 DEF FinishTask
<1>16. ASSUME NEW a \in Agents, Faulty(a) PROVE CopiesInv'
  BY <1>16, <1>7, <1>11 DEF Faulty
<1> QED
  BY <1>1, <1>13, <1>14, <1>15, <1>16 DEF Next

\* No write of the board wipes out an update made since its call read the task, except
\* that a late claim may reopen a task that is over; with one adder and nobody
\* cancelling, whatever agents crash or restart and whatever writes fail.
THEOREM NoUpdateLost ==
  ASSUME OneAdder, Cancellers = {} PROVE Spec => []CopiesAreCurrent
<1> DEFINE Inv == ExclusiveInv /\ AddedOnce /\ CopiesInv
<1>1. Init => CopiesInv
  BY DEF Init, CopiesInv, CopiesAreCurrent, NoEntry
<1>2. Inv /\ [Next]_vars => Inv'
  BY ExclusiveStep, AddedOnceStep, CopiesStep DEF ExclusiveInv
<1>3. Inv => CopiesAreCurrent
  BY DEF CopiesInv
<1> QED
  BY <1>1, <1>2, <1>3, ExclusiveInit, AddedOnceInit, PTL DEF Spec

\* A pending task has a claim file only while the call that made it is under way, and
\* a task that is not there has none.
ClaimsCalled ==
  \A t \in Tasks : claim[t] # None =>
    /\ entry[t].status # "absent"
    /\ entry[t].status = "pending" =>
         \E a \in Agents : arg[a] = t /\ pc[a] \in {"stamp", "publish"}

\* Without faults no step leaves a claim file behind on a pending task.
LEMMA ClaimsStep ==
  ASSUME OneAdder, MaxFaults = 0
  PROVE  TypeOK /\ TypeOK' /\ AddedOnce /\ ClaimsCalled /\ [Next]_vars => ClaimsCalled'
<1> SUFFICES ASSUME TypeOK, TypeOK', AddedOnce, ClaimsCalled, [Next]_vars PROVE ClaimsCalled'
  OBVIOUS
<1> USE DEF TypeOK, ClaimsCalled, files
<1>1. ASSUME UNCHANGED vars PROVE ClaimsCalled'
  BY <1>1 DEF vars
<1>2. ASSUME NEW a \in Agents, NEW t \in Tasks, AddCheck(a, t) PROVE ClaimsCalled'
  BY <1>2 DEF AddCheck, Begin
<1>3. ASSUME NEW a \in Agents, AddWrite(a) PROVE ClaimsCalled'
  <2>1. /\ pc[a] = "add" /\ arg[a] \in Tasks /\ claim[arg[a]] = None
        /\ pc' = [pc EXCEPT ![a] = "idle"] /\ arg' = [arg EXCEPT ![a] = None]
        /\ entry' = [entry EXCEPT ![arg[a]] = local[a]] /\ UNCHANGED claim
    BY <1>3 DEF AddWrite, Leave, Return, WriteEntry, AddedOnce
  <2> QED
    BY <2>1
<1>4. ASSUME NEW a \in Agents, NEW t \in Tasks, ClaimRead(a, t) PROVE ClaimsCalled'
  BY <1>4 DEF ClaimRead, Begin
<1>5. ASSUME NEW a \in Agents, NEW d \in Tasks, DepRead(a, d) PROVE ClaimsCalled'
  <2>1. pc[a] = "deps" /\ UNCHANGED files /\ (UNCHANGED <<pc, arg, local>> \/ Return(a))
    BY <1>5 DEF DepRead
  <2> QED
    BY <2>1 DEF Return
<1>6. ASSUME NEW a \in Agents, Create(a) PROVE ClaimsCalled'
  <2>1. entry[arg[a]].status # "absent" /\ arg[a] \in Tasks
    BY <1>6 DEF Create, Move, AddedOnce
  <2> QED
    BY <1>6, <2>1 DEF Create, Move
<1>7. ASSUME NEW a \in Agents, CreateLoses(a) PROVE ClaimsCalled'
  BY <1>7 DEF CreateLoses, Move
<1>8. ASSUME NEW a \in Agents, ReadWinner(a) PROVE ClaimsCalled'
  BY <1>8 DEF ReadWinner, Leave, Return
<1>9. ASSUME NEW a \in Agents, Stamp(a) PROVE ClaimsCalled'
  BY <1>9 DEF Stamp, Move
<1>10. ASSUME NEW a \in Agents, Publish(a) PROVE ClaimsCalled'
  <2> DEFINE e == [local[a] EXCEPT !.status = "claimed", !.owner = a]
  <2>1. e.status = "claimed"
    BY DEF Entries
  <2>2. /\ pc' = [pc EXCEPT ![a] = "idle"] /\ arg' = [arg EXCEPT ![a] = None]
        /\ entry' = [entry EXCEPT ![arg[a]] = e] /\ UNCHANGED claim /\ arg[a] \in Tasks
    BY <1>10 DEF Publish, Leave, Return, WriteEntry
  <2> HIDE DEF e
  <2> QED
    BY <2>1, <2>2
<1>11. ASSUME NEW a \in Agents, NEW t \in Tasks, NEW s \in Terminal, FinishRead(a, t, s)
       PROVE  ClaimsCalled'
  BY <1>11 DEF FinishRead, Begin
<1>12. ASSUME NEW a \in Agents, NEW t \in Tasks, FinishRefused(a, t) PROVE ClaimsCalled'
  BY <1>12 DEF FinishRefused
<1>13. ASSUME NEW a \in Agents, FinishWrite(a) PROVE ClaimsCalled'
  <2>1. local[a].status \notin {"absent", "pending"}
    BY <1>13 DEF FinishWrite, Move, AddedOnce, Terminal
  <2>2. /\ pc[a] = "finish" /\ pc' = [pc EXCEPT ![a] = "unlink"] /\ UNCHANGED <<arg, claim>>
        /\ entry' = [entry EXCEPT ![arg[a]] = local[a]] /\ arg[a] \in Tasks
    BY <1>13 DEF FinishWrite, Move, WriteEntry
  <2> QED
    BY <2>1, <2>2
<1>14. ASSUME NEW a \in Agents, FinishUnlink(a) PROVE ClaimsCalled'
  BY <1>14 DEF FinishUnlink, Leave, Return
<1>15. ASSUME NEW a \in Agents, Crash(a) \/ WriteError(a) \/ UnlinkError(a) PROVE FALSE
  <2>1. ~Fault
    BY DEF Fault
  <2> QED
    BY <1>15, <2>1 DEF Crash, WriteError, UnlinkError
<1>16. ASSUME NEW a \in Agents, NEW t \in Tasks, Resume(a, t) PROVE ClaimsCalled'
  BY <1>16 DEF Resume
<1>17. ClaimsCalled'
  <2> HIDE DEF ClaimsCalled, TypeOK
  <2>1. ASSUME NEW a \in Agents, AddTask(a) PROVE ClaimsCalled'
    BY <2>1, <1>2, <1>3 DEF AddTask
  <2>2. ASSUME NEW a \in Agents, ClaimTask(a) PROVE ClaimsCalled'
    BY <2>2, <1>4, <1>5, <1>6, <1>7, <1>8, <1>9, <1>10 DEF ClaimTask
  <2>3. ASSUME NEW a \in Agents, FinishTask(a) PROVE ClaimsCalled'
    BY <2>3, <1>11, <1>12, <1>13, <1>14 DEF FinishTask
  <2>4. ASSUME NEW a \in Agents, Faulty(a) PROVE ClaimsCalled'
    BY <2>4, <1>15, <1>16 DEF Faulty
  <2> QED
    BY <1>1, <2>1, <2>2, <2>3, <2>4 DEF Next
<1> QED
  BY <1>17

\* What list_ready_tasks shows, and no call is about, can be claimed: as long as one
\* agent adds tasks and no call is cut short, no claim file is left on a pending task,
\* even when tasks are cancelled under their owners.
THEOREM ReadyCanBeClaimed ==
  ASSUME OneAdder, MaxFaults = 0 PROVE Spec => []ReadyIsClaimable
<1> DEFINE Inv == TypeOK /\ AddedOnce /\ ClaimsCalled
<1>1. Init => Inv
  BY TypeInit, AddedOnceInit DEF Init, ClaimsCalled
<1>2. Inv /\ [Next]_vars => Inv'
  BY TypeStep, AddedOnceStep, ClaimsStep
<1>3. Inv => ReadyIsClaimable
  BY DEF ClaimsCalled, ReadyIsClaimable, Ready
<1> QED
  BY <1>1, <1>2, <1>3, PTL DEF Spec
===============================================================================

----------------------------- MODULE Dispatch_proof -----------------------------
(***************************************************************************)
(* Proofs about the scheduler.  TLC checks two dispatch loops, one task    *)
(* and three calls of others; here dispatch loops, tasks, workers and the  *)
(* calls of others are arbitrary.  What a run still has to do is one of    *)
(* fourteen plans, and the invariants say what each of them still owes.    *)
(***************************************************************************)
EXTENDS Dispatch, FiniteSetTheorems, TLAPS

\* Plans that will still write a final status after the task was marked InProgress.
WillFinish ==
  {<<"exec">>, <<"complete", "deactivate", "release">>, <<"fail", "deactivate", "release">>,
   <<"fail", "fail", "deactivate", "release">>, <<"release", "fail", "deactivate">>,
   <<"fail", "deactivate">>}

\* Plans that will still remove the task from active_tasks.
WillDeactivate ==
  WillFinish \union {<<"activate", "start", "exec">>, <<"start", "exec">>,
                     <<"deactivate", "release">>, <<"deactivate">>, <<"release", "deactivate">>}

Plans == WillDeactivate \union {<<>>, <<"acquire", "activate", "start", "exec">>, <<"release">>}

PlanShape == plan \in [Runs -> Plans]

\* A task in progress has a run that will finish it.
Attended ==
  \A t \in Tasks : qstatus[t] = "in_progress" => \E r \in Runs : r[2] = t /\ plan[r] \in WillFinish

\* A task in active_tasks has a run that will remove it.
Leaving == \A t \in active : \E r \in Runs : r[2] = t /\ plan[r] \in WillDeactivate

Shape == /\ PlanShape
         /\ qstatus \in [Tasks -> TaskStatuses]
         /\ active \subseteq Tasks /\ stale \subseteq Tasks

IInv == Shape /\ Attended /\ Leaving

---------------------------------------------------------------------------
\* What a run that takes a step has left to do.
LEMMA PlanSteps ==
  ASSUME NEW p \in Plans, p # <<>>
  PROVE  /\ Head(p) = "acquire" => p \notin WillDeactivate /\ Tail(p) = <<"activate", "start", "exec">>
         /\ Head(p) = "activate" => p \notin WillFinish /\ Tail(p) = <<"start", "exec">>
         /\ Head(p) = "start" => p \notin WillFinish /\ Tail(p) = <<"exec">>
         /\ Head(p) = "complete" => Tail(p) = <<"deactivate", "release">>
         /\ Head(p) = "fail" => Tail(p) \in {<<"deactivate", "release">>, <<"deactivate">>,
                                             <<"fail", "deactivate", "release">>}
         /\ Head(p) = "deactivate" => p \notin WillFinish /\ Tail(p) \in {<<"release">>, <<>>}
         /\ Head(p) = "release" =>
              \/ Tail(p) = <<>> /\ p \notin WillDeactivate
              \/ Tail(p) = <<"deactivate">> /\ p \notin WillFinish
              \/ Tail(p) = <<"fail", "deactivate">>
<1> USE DEF WillDeactivate, WillFinish
<1>1. CASE p = <<"exec">>
  BY <1>1
<1>2. CASE p = <<"complete", "deactivate", "release">>
  BY <1>2
<1>3. CASE p = <<"fail", "deactivate", "release">>
  BY <1>3
<1>4. CASE p = <<"fail", "fail", "deactivate", "release">>
  BY <1>4
<1>5. CASE p = <<"release", "fail", "deactivate">>
  BY <1>5
<1>6. CASE p = <<"fail", "deactivate">>
  BY <1>6
<1>7. CASE p = <<"activate", "start", "exec">>
  BY <1>7
<1>8. CASE p = <<"start", "exec">>
  BY <1>8
<1>9. CASE p = <<"deactivate", "release">>
  BY <1>9
<1>10. CASE p = <<"deactivate">>
  BY <1>10
<1>11. CASE p = <<"release", "deactivate">>
  BY <1>11
<1>12. CASE p = <<"acquire", "activate", "start", "exec">>
  BY <1>12
<1>13. CASE p = <<"release">>
  BY <1>13
<1> QED
  BY <1>1, <1>2, <1>3, <1>4, <1>5, <1>6, <1>7, <1>8, <1>9, <1>10, <1>11, <1>12, <1>13 DEF Plans

\* The plans of a run and what they owe.
LEMMA Owed ==
  /\ WillFinish \subseteq WillDeactivate /\ WillDeactivate \subseteq Plans
  /\ {<<"deactivate", "release">>, <<"deactivate">>} \subseteq WillDeactivate
  /\ {<<"fail", "deactivate", "release">>, <<"fail", "deactivate">>} \subseteq WillFinish
  /\ <<>> \notin WillDeactivate
  BY DEF Plans, WillDeactivate, WillFinish

\* A run takes its first step: its plan was one of the fourteen, and not empty.
LEMMA Taken ==
  ASSUME PlanShape, NEW r \in Runs, NEW step, NEW then, Take(r, step, then)
  PROVE  /\ plan[r] \in Plans /\ plan[r] # <<>> /\ Head(plan[r]) = step /\ r[2] \in Tasks
         /\ \A u \in Runs : plan'[u] = IF u = r THEN then ELSE plan[u]
         /\ then \in Plans => PlanShape'
  BY DEF PlanShape, Take, Runs

\* The step lemma of the runs: every step leaves its debts to what is left of the plan.
LEMMA RunKeeps ==
  ASSUME IInv, NEW r \in Runs, RunStep(r) PROVE IInv'
<1> USE Owed DEF IInv, Shape, Attended, Leaving
<1>1. CASE Acquiring(r) \/ Releasing(r)
  BY <1>1 DEF Acquiring, Releasing, PlanShape
<1>2. CASE Acquired(r)
  <2>1. Take(r, "acquire", Tail(plan[r]))
    BY <1>2 DEF Acquired, Skip
  <2>2. plan[r] \notin WillDeactivate /\ Tail(plan[r]) \in Plans
    <3>1. plan[r] \notin WillDeactivate /\ Tail(plan[r]) = <<"activate", "start", "exec">>
      BY <2>1, Taken, PlanSteps
    <3> QED
      BY <3>1 DEF Plans, WillDeactivate
  <2> QED
    BY <1>2, <2>1, <2>2, Taken DEF Acquired
<1>3. CASE NoWorkers(r)
  <2>1. Take(r, "acquire", <<>>) /\ <<>> \in Plans
    BY <1>3 DEF NoWorkers, Plans
  <2>2. plan[r] \notin WillDeactivate
    BY <2>1, Taken, PlanSteps
  <2> QED
    BY <1>3, <2>1, <2>2, Taken DEF NoWorkers
<1>4. CASE Activate(r)
  <2>1. Take(r, "activate", Tail(plan[r]))
    BY <1>4 DEF Activate, Skip
  <2>2. plan[r] \notin WillFinish /\ Tail(plan[r]) \in WillDeactivate
    BY <2>1, Taken, PlanSteps DEF WillDeactivate
  <2> QED
    BY <1>4, <2>1, <2>2, Taken DEF Activate
<1>5. CASE Start(r)
  <2> DEFINE then == IF NotFound(r[2]) THEN <<"release", "deactivate">> ELSE Tail(plan[r])
  <2>1. Take(r, "start", then)
    BY <1>5 DEF Start
  <2>2. /\ plan[r] \notin WillFinish /\ then \in WillDeactivate
        /\ ~NotFound(r[2]) => then \in WillFinish
    BY <2>1, Taken, PlanSteps DEF WillDeactivate, WillFinish
  <2>3. /\ NotFound(r[2]) => qstatus' = qstatus
        /\ ~NotFound(r[2]) => qstatus' = [qstatus EXCEPT ![r[2]] = "in_progress"]
        /\ UNCHANGED <<active, stale, ending>>
    BY <1>5 DEF Start, SetStatus
  <2> HIDE DEF then
  <2> QED
    BY <2>1, <2>2, <2>3, Taken DEF TaskStatuses, Terminal
<1>6. CASE Exec(r)
  <2>1. PICK then \in WillFinish : Take(r, "exec", then)
    BY <1>6 DEF Exec, ExecOf, WillFinish
  <2> QED
    BY <1>6, <2>1, Taken DEF Exec, ExecOf
<1>7. CASE Finish(r)
  <2>1. PICK step \in {"complete", "fail"} : Take(r, step, Tail(plan[r]))
    BY <1>7 DEF Finish, Skip
  <2>2. Tail(plan[r]) \in WillDeactivate
    <3>1. \/ Tail(plan[r]) \in {<<"deactivate", "release">>, <<"deactivate">>}
          \/ Tail(plan[r]) = <<"fail", "deactivate", "release">>
      BY <2>1, Taken, PlanSteps
    <3> QED
      BY <3>1
  <2>3. /\ \/ NotFound(r[2]) /\ qstatus' = qstatus
           \/ \E end \in Terminal : qstatus' = [qstatus EXCEPT ![r[2]] = end]
        /\ UNCHANGED <<active, stale, ending>>
    BY <1>7 DEF Finish, SetStatus, Terminal
  <2> QED
    BY <2>1, <2>2, <2>3, Taken DEF TaskStatuses, Terminal, NotFound
<1>8. CASE Deactivate(r)
  <2>1. Take(r, "deactivate", Tail(plan[r]))
    BY <1>8 DEF Deactivate, Skip
  <2>2. plan[r] \notin WillFinish /\ Tail(plan[r]) \in Plans
    BY <2>1, Taken, PlanSteps DEF Plans
  <2> QED
    BY <1>8, <2>1, <2>2, Taken DEF Deactivate
<1>9. CASE Released(r)
  <2>1. Take(r, "release", Tail(plan[r]))
    BY <1>9 DEF Released, Skip
  <2>2. /\ plan[r] \in WillFinish => Tail(plan[r]) \in WillFinish
        /\ plan[r] \in WillDeactivate => Tail(plan[r]) \in WillDeactivate
        /\ Tail(plan[r]) \in Plans
    <3>1. \/ Tail(plan[r]) = <<>> /\ plan[r] \notin WillDeactivate
          \/ Tail(plan[r]) = <<"deactivate">> /\ plan[r] \notin WillFinish
          \/ Tail(plan[r]) = <<"fail", "deactivate">>
      BY <2>1, Taken, PlanSteps
    <3>2. <<>> \in Plans /\ <<"deactivate">> \in WillDeactivate /\ <<"fail", "deactivate">> \in WillFinish
      BY DEF Plans, WillDeactivate, WillFinish
    <3> QED
      BY <3>1, <3>2
  <2> QED
    BY <1>9, <2>1, <2>2, Taken DEF Released
<1> QED
  BY <1>1, <1>2, <1>3, <1>4, <1>5, <1>6, <1>7, <1>8, <1>9 DEF RunStep

\* Nothing anybody else does takes away a run's debt or makes a new one.
LEMMA OthersKeep ==
  ASSUME IInv, NEW t \in Tasks, Others(t) PROVE IInv'
<1> USE DEF IInv, Shape, PlanShape, Attended, Leaving, TaskStatuses, Terminal
<1>1. CASE Create(t)
  BY <1>1 DEF Create
<1>2. CASE Enqueue(t)
  BY <1>2 DEF Enqueue, SetStatus, NotFound
<1>3. CASE Cancel(t) \/ MarkFailed(t)
  BY <1>3 DEF Cancel, MarkFailed, SetStatus
<1>4. CASE Remove(t)
  BY <1>4 DEF Remove, NotFound
<1>5. CASE WatchAlive(t)
  BY <1>5 DEF WatchAlive
<1>6. CASE WatchDead(t)
  BY <1>6 DEF WatchDead, SetStatus, NotFound
<1>7. CASE Ended(t)
  BY <1>7 DEF Ended
<1> QED
  BY <1>1, <1>2, <1>3, <1>4, <1>5, <1>6, <1>7 DEF Others

\* Every step keeps the plans and their debts.
LEMMA Inductive == IInv /\ [Next]_vars => IInv'
<1> SUFFICES ASSUME IInv, [Next]_vars PROVE IInv'
  OBVIOUS
<1>1. ASSUME NEW w \in Ids, AddWorker(w) PROVE IInv'
  BY <1>1 DEF AddWorker, IInv, Shape, PlanShape, Attended, Leaving
<1>2. ASSUME NEW d \in Dispatchers, Dispatch(d) PROVE IInv'
  <2> DEFINE fresh == <<"acquire", "activate", "start", "exec">>
  <2>1. PICK S \in SUBSET Queued :
          plan' = [r \in Runs |-> IF r[1] = d /\ r[2] \in S THEN fresh ELSE plan[r]]
    BY <1>2 DEF Dispatch
  <2>2. fresh \in Plans
    BY DEF Plans
  <2>3. \A r \in Runs : r[1] = d => plan[r] = <<>>
    BY <1>2 DEF Dispatch, Runs
  <2>4. \A r \in Runs : plan[r] \in WillDeactivate => plan'[r] = plan[r]
    BY <2>1, <2>3, Owed
  <2>5. PlanShape'
    BY <2>1, <2>2 DEF IInv, Shape, PlanShape
  <2> QED
    BY <1>2, <2>4, <2>5, Owed DEF Dispatch, IInv, Shape, Attended, Leaving
<1>3. ASSUME NEW r \in Runs, RunStep(r) PROVE IInv'
  BY <1>3, RunKeeps
<1>4. ASSUME NEW t \in Tasks, Others(t) PROVE IInv'
  BY <1>4, OthersKeep
<1>5. CASE Watch
  BY <1>5 DEF Watch, IInv, Shape, PlanShape, Attended, Leaving
<1>6. CASE UNCHANGED vars
  BY <1>6 DEF vars, IInv, Shape, PlanShape, Attended, Leaving
<1> QED
  BY <1>1, <1>2, <1>3, <1>4, <1>5, <1>6 DEF Next

\* Whatever dispatch loops, cancels, requeues, removals and the watchdog do, every run
\* keeps one of the fourteen plans and the debts of its task.
THEOREM DebtsKept == Spec => []IInv
<1>1. Init => IInv
  BY DEF Init, IInv, Shape, PlanShape, Attended, Leaving, Plans, TaskStatuses
<1> QED
  BY <1>1, Inductive, PTL DEF Spec

\* No task is left InProgress with no run to finish it.
THEOREM NothingIsAbandoned == Spec => []NothingAbandoned
<1>1. IInv => NothingAbandoned
  BY Owed DEF IInv, Attended, NothingAbandoned, RunsOf
<1> QED
  BY <1>1, DebtsKept, PTL

\* An entry of active_tasks never outlives the runs of its task.
THEOREM NoGhosts == Spec => []NoGhostActive
<1>1. IInv => NoGhostActive
  BY Owed DEF IInv, Leaving, NoGhostActive, RunsOf
<1> QED
  BY <1>1, DebtsKept, PTL

---------------------------------------------------------------------------
\* The worker and the lease a run has at each point of its plan.

Fresh == <<"acquire", "activate", "start", "exec">>

\* Plans of runs that hold a worker, and of runs whose guard is being dropped.
Holding ==
  {<<"activate", "start", "exec">>, <<"start", "exec">>, <<"exec">>,
   <<"complete", "deactivate", "release">>, <<"fail", "deactivate", "release">>,
   <<"fail", "fail", "deactivate", "release">>, <<"deactivate", "release">>}
Dropping == {<<"release">>, <<"release", "deactivate">>, <<"release", "fail", "deactivate">>}

Stands(p) == IF p = Fresh THEN {"idle", "chosen", "listed"}
             ELSE IF p \in Holding THEN {"leased"}
             ELSE IF p \in Dropping THEN {"leased", "freed"} ELSE {"idle"}

PlanHolds == \A r \in Runs : pc[r] \in Stands(plan[r])

\* The books of the pool name no run that is through with its worker, and no worker
\* without tasks is Busy.
Accounted ==
  /\ status \in [Ids -> {"new", "available", "busy"}]
  /\ running \in [Ids -> SUBSET Runs]
  /\ leases \in [Tasks -> Ids \union {None}]
  /\ pc \in [Runs -> Pool!Steps] /\ worker \in [Runs -> Ids \union {None}]
  /\ \A r \in Runs : pc[r] # "idle" => worker[r] \in Ids /\ status[worker[r]] # "new"
  /\ \A w \in Ids : running[w] \subseteq Pool!Users(w)
  /\ \A w \in Ids : status[w] = "busy" => running[w] # {}
  /\ \A t \in Tasks : leases[t] # None => \E r \in Runs : r[2] = t /\ pc[r] \in {"leased", "freed"}

\* An empty list is below any capacity.
LEMMA EmptyList == Pool!Cardinality({}) = 0
  BY FS_EmptySet DEF Pool!Cardinality

\* Every step of the scheduler is a step of the pool or leaves the pool alone: a
\* dispatch loop touches the workers only through acquire_worker and release_worker.
LEMMA PoolSteps == [Next]_vars => [Pool!Next]_pool
<1> SUFFICES ASSUME [Next]_vars PROVE Pool!Next \/ UNCHANGED pool
  OBVIOUS
<1>1. ASSUME NEW w \in Ids, AddWorker(w) PROVE Pool!Next
  BY <1>1 DEF AddWorker, Pool!Next
<1>2. ASSUME NEW r \in Runs, RunStep(r) PROVE Pool!Next \/ UNCHANGED pool
  <2>1. CASE Acquiring(r) \/ Acquired(r)
    BY <2>1 DEF Acquiring, Acquired, Pool!Next, Pool!Acquire
  <2>2. CASE Releasing(r) \/ Released(r)
    BY <2>2 DEF Releasing, Released, Pool!Next, Pool!Release
  <2> QED
    BY <1>2, <2>1, <2>2
       DEF RunStep, NoWorkers, Activate, Start, Exec, ExecOf, Finish, Deactivate
<1>3. ASSUME NEW t \in Tasks, Others(t) PROVE UNCHANGED pool
  BY <1>3 DEF Others, Create, Enqueue, Cancel, MarkFailed, Remove, WatchAlive, WatchDead, Ended
<1> QED
  BY <1>1, <1>2, <1>3 DEF Next, Dispatch, Watch, vars

\* Only a run on its way out empties a worker's list of it, and it drops the lease
\* before it forgets the worker; so the books stay right through all interleavings,
\* also when several runs are about one task.
LEMMA PoolKeeps == Accounted /\ [Pool!Next]_pool => Accounted'
<1> SUFFICES ASSUME Accounted, [Pool!Next]_pool PROVE Accounted'
  OBVIOUS
<1> USE DEF Accounted, Pool!Users, Pool!Steps, Pool!Goto, Pool!Return, Pool!book
<1>0. \A r \in Runs : r[2] \in Tasks /\ RunTask[r] = r[2]
  BY DEF Runs, RunTask
<1>1. ASSUME NEW w \in Ids, Pool!AddWorker(w) PROVE Accounted'
  BY <1>1 DEF Pool!AddWorker
<1>2. ASSUME NEW r \in Runs, Pool!Choose(r) PROVE Accounted'
  BY <1>2 DEF Pool!Choose, Pool!CanAccept
<1>3. ASSUME NEW r \in Runs, Pool!List(r) PROVE Accounted'
  <2> DEFINE w == worker[r]
  <2>1. /\ w \in Ids /\ status[w] # "new" /\ pc[r] = "chosen"
        /\ pc' = [pc EXCEPT ![r] = "listed"]
        /\ running' = [running EXCEPT ![w] = @ \union {r}]
        /\ UNCHANGED <<leases, worker>>
        /\ status' \in {status, [status EXCEPT ![w] = "busy"]}
    BY <1>3 DEF Pool!List
  <2> HIDE DEF w
  <2> QED
    BY <2>1 DEF w
<1>4. ASSUME NEW r \in Runs, Pool!Lease(r) PROVE Accounted'
  <2>1. /\ pc[r] = "listed" /\ pc' = [pc EXCEPT ![r] = "leased"]
        /\ leases' = [leases EXCEPT ![r[2]] = worker[r]]
        /\ UNCHANGED <<status, running, worker>>
    BY <1>0, <1>4 DEF Pool!Lease
  <2> QED
    BY <1>0, <2>1
<1>5. ASSUME NEW r \in Runs, Pool!Free(r) PROVE Accounted'
  <2> DEFINE w == worker[r]
             rest == running[w] \ Pool!SameTask(r)
  <2>1. /\ w \in Ids /\ status[w] # "new" /\ pc[r] = "leased"
        /\ pc' = [pc EXCEPT ![r] = "freed"]
        /\ running' = [running EXCEPT ![w] = rest]
        /\ UNCHANGED <<leases, worker>>
    BY <1>5 DEF Pool!Free
  <2>2. \/ status' = [status EXCEPT ![w] = "available"]
        \/ status' = status /\ rest # {}
    <3>1. rest = {} => Pool!Cardinality(running'[w]) < Capacity
      <4>1. running'[w] = rest /\ Capacity \in Nat \ {0}
        BY <1>0, <2>1, DispatchAssumption
      <4>2. ASSUME rest = {} PROVE Pool!Cardinality(running'[w]) = 0
        <5>1. running'[w] = {}
          BY <4>1, <4>2
        <5> HIDE DEF rest, w
        <5> QED
          BY ONLY <5>1, EmptyList
      <4> HIDE DEF rest, w
      <4> QED
        BY ONLY <4>1, <4>2
    <3> QED
      BY <1>5, <3>1 DEF Pool!Free
  <2>3. rest \subseteq running[w] /\ r \notin rest
    BY DEF Pool!SameTask
  <2> HIDE DEF w, rest
  <2> QED
    BY <2>1, <2>2, <2>3 DEF w
<1>6. ASSUME NEW r \in Runs, Pool!Unlease(r) PROVE Accounted'
  <2>1. /\ pc[r] = "freed" /\ pc' = [pc EXCEPT ![r] = "idle"]
        /\ worker' = [worker EXCEPT ![r] = None]
        /\ leases' = [leases EXCEPT ![r[2]] = None]
        /\ UNCHANGED <<status, running>>
    BY <1>0, <1>6 DEF Pool!Unlease
  <2> QED
    BY <1>0, <2>1
<1>7. ASSUME NEW r \in Runs, Pool!ListNotFound(r) \/ Pool!FreeNotFound(r) PROVE FALSE
  BY <1>7 DEF Pool!ListNotFound, Pool!FreeNotFound, Pool!Present, Pool!Statuses
<1>8. CASE UNCHANGED pool
  BY <1>8 DEF pool
<1> QED
  BY <1>1, <1>2, <1>3, <1>4, <1>5, <1>6, <1>7, <1>8 DEF Pool!Next, Pool!Acquire, Pool!Release

---------------------------------------------------------------------------
\* A run's step leaves it where the rest of its plan expects it.
LEMMA StandSteps ==
  ASSUME NEW p \in Plans, p # <<>>
  PROVE  /\ Head(p) = "acquire" => Stands(p) = {"idle", "chosen", "listed"} /\ Stands(Tail(p)) = {"leased"}
         /\ Head(p) \in {"activate", "start", "exec", "complete"} => Stands(p) = {"leased"}
         /\ Head(p) \in {"activate", "start", "complete", "fail", "deactivate"}
              => Stands(p) \subseteq Stands(Tail(p))
         /\ Head(p) = "release" => Stands(p) = {"leased", "freed"} /\ Stands(Tail(p)) = {"idle"}
<1> USE DEF Stands, Fresh, Holding, Dropping
<1>1. CASE p = <<"exec">>
  BY <1>1
<1>2. CASE p = <<"complete", "deactivate", "release">>
  BY <1>2
<1>3. CASE p = <<"fail", "deactivate", "release">>
  BY <1>3
<1>4. CASE p = <<"fail", "fail", "deactivate", "release">>
  BY <1>4
<1>5. CASE p = <<"release", "fail", "deactivate">>
  BY <1>5
<1>6. CASE p = <<"fail", "deactivate">>
  BY <1>6
<1>7. CASE p = <<"activate", "start", "exec">>
  BY <1>7
<1>8. CASE p = <<"start", "exec">>
  BY <1>8
<1>9. CASE p = <<"deactivate", "release">>
  BY <1>9
<1>10. CASE p = <<"deactivate">>
  BY <1>10
<1>11. CASE p = <<"release", "deactivate">>
  BY <1>11
<1>12. CASE p = <<"acquire", "activate", "start", "exec">>
  BY <1>12
<1>13. CASE p = <<"release">>
  BY <1>13
<1> QED
  BY <1>1, <1>2, <1>3, <1>4, <1>5, <1>6, <1>7, <1>8, <1>9, <1>10, <1>11, <1>12, <1>13
     DEF Plans, WillDeactivate, WillFinish

\* Where a run stands with the pool is always what the rest of its plan expects.
LEMMA StandKeeps ==
  ASSUME Accounted, Accounted', PlanShape, PlanHolds, [Next]_vars PROVE PlanHolds'
<1> USE DEF PlanHolds
<1>0. pc \in [Runs -> Pool!Steps]
  BY DEF Accounted
<1>1. ASSUME NEW w \in Ids, AddWorker(w) PROVE PlanHolds'
  BY <1>1 DEF AddWorker, Pool!AddWorker
<1>2. ASSUME NEW d \in Dispatchers, Dispatch(d) PROVE PlanHolds'
  <2>1. PICK S \in SUBSET Queued :
          plan' = [r \in Runs |-> IF r[1] = d /\ r[2] \in S THEN Fresh ELSE plan[r]]
    BY <1>2 DEF Dispatch, Fresh
  <2>2. \A r \in Runs : r[1] = d => plan[r] = <<>>
    BY <1>2 DEF Dispatch, Runs
  <2>3. "idle" \in Stands(Fresh) /\ Stands(<<>>) = {"idle"}
    BY DEF Stands, Fresh, Holding, Dropping
  <2>4. pc' = pc
    BY <1>2 DEF Dispatch, pool
  <2> QED
    BY <2>1, <2>2, <2>3, <2>4
<1>3. ASSUME NEW r \in Runs, RunStep(r) PROVE PlanHolds'
  <2>1. CASE Acquiring(r)
    <3>1. plan[r] \in Plans /\ plan[r] # <<>> /\ Head(plan[r]) = "acquire" /\ plan' = plan
      BY <2>1 DEF Acquiring, PlanShape
    <3>2. Stands(plan[r]) = {"idle", "chosen", "listed"}
      BY <3>1, StandSteps
    <3>3. \E to \in {"chosen", "listed"} : pc' = [pc EXCEPT ![r] = to]
      BY <2>1 DEF Acquiring, Pool!Choose, Pool!List, Pool!Goto
    <3> QED
      BY <1>0, <3>1, <3>2, <3>3
  <2>2. CASE Acquired(r)
    <3>1. Take(r, "acquire", Tail(plan[r])) /\ pc' = [pc EXCEPT ![r] = "leased"]
      BY <2>2 DEF Acquired, Skip, Pool!Lease, Pool!Goto
    <3>2. Stands(Tail(plan[r])) = {"leased"}
      BY <3>1, Taken, StandSteps
    <3> QED
      BY <1>0, <3>1, <3>2, Taken
  <2>3. CASE NoWorkers(r)
    <3>1. Take(r, "acquire", <<>>) /\ pc' = pc /\ pc[r] = "idle" /\ Stands(<<>>) = {"idle"}
      BY <2>3 DEF NoWorkers, pool, Stands, Fresh, Holding, Dropping
    <3> QED
      BY <3>1, Taken
  <2>4. CASE Activate(r) \/ Finish(r) \/ Deactivate(r)
    <3>1. /\ \E step \in {"activate", "complete", "fail", "deactivate"} :
                Take(r, step, Tail(plan[r]))
          /\ pc' = pc
      BY <2>4 DEF Activate, Finish, Deactivate, Skip, pool
    <3>2. Stands(plan[r]) \subseteq Stands(Tail(plan[r]))
      BY <3>1, Taken, StandSteps
    <3> QED
      BY <3>1, <3>2, Taken
  <2>5. CASE Start(r)
    <3>1. PICK then \in {<<"release", "deactivate">>, Tail(plan[r])} : Take(r, "start", then)
      BY <2>5 DEF Start
    <3>2. Stands(plan[r]) = {"leased"} /\ Stands(plan[r]) \subseteq Stands(Tail(plan[r]))
      BY <3>1, Taken, StandSteps
    <3>3. "leased" \in Stands(<<"release", "deactivate">>)
      BY DEF Stands, Fresh, Holding, Dropping
    <3>4. pc' = pc
      BY <2>5 DEF Start, pool
    <3> QED
      BY <3>1, <3>2, <3>3, <3>4, Taken
  <2>6. CASE Exec(r)
    <3>1. PICK then \in {<<"complete", "deactivate", "release">>,
                         <<"fail", "deactivate", "release">>,
                         <<"fail", "fail", "deactivate", "release">>,
                         <<"release", "fail", "deactivate">>} : Take(r, "exec", then)
      BY <2>6 DEF Exec, ExecOf
    <3>2. "leased" \in Stands(then)
      BY DEF Stands, Fresh, Holding, Dropping
    <3>3. Stands(plan[r]) = {"leased"}
      BY <3>1, Taken, StandSteps
    <3>4. pc' = pc
      BY <2>6 DEF Exec, ExecOf, pool
    <3> QED
      BY <3>1, <3>2, <3>3, <3>4, Taken
  <2>7. CASE Releasing(r)
    <3>1. plan[r] \in Plans /\ plan[r] # <<>> /\ Head(plan[r]) = "release" /\ plan' = plan
      BY <2>7 DEF Releasing, PlanShape
    <3>2. Stands(plan[r]) = {"leased", "freed"}
      BY <3>1, StandSteps
    <3>3. pc' = [pc EXCEPT ![r] = "freed"]
      BY <2>7 DEF Releasing, Pool!Free, Pool!Goto
    <3> QED
      BY <1>0, <3>1, <3>2, <3>3
  <2>8. CASE Released(r)
    <3>1. Take(r, "release", Tail(plan[r])) /\ pc' = [pc EXCEPT ![r] = "idle"]
      BY <2>8 DEF Released, Skip, Pool!Unlease, Pool!Return, Pool!Goto
    <3>2. Stands(Tail(plan[r])) = {"idle"}
      BY <3>1, Taken, StandSteps
    <3> QED
      BY <1>0, <3>1, <3>2, Taken
  <2> QED
    BY <1>3, <2>1, <2>2, <2>3, <2>4, <2>5, <2>6, <2>7, <2>8 DEF RunStep
<1>4. ASSUME NEW t \in Tasks, Others(t) PROVE PlanHolds'
  BY <1>4 DEF Others, Create, Enqueue, Cancel, MarkFailed, Remove, WatchAlive, WatchDead, Ended, pool
<1>5. CASE Watch \/ UNCHANGED vars
  BY <1>5 DEF Watch, vars, pool
<1> QED
  BY <1>1, <1>2, <1>3, <1>4, <1>5 DEF Next

\* When no run is under way every worker is idle and no lease is left, whatever the
\* runs came to and whoever cancelled, requeued or removed their tasks meanwhile; for
\* any number of dispatch loops, workers and tasks and any capacity.
THEOREM NothingLeaks == Spec => []NoWorkerLeaks
<1> DEFINE Inv == IInv /\ Accounted /\ PlanHolds
<1>1. Init => Inv
  <2> SUFFICES ASSUME Init PROVE Inv
    OBVIOUS
  <2>1. IInv
    BY DEF Init, IInv, Shape, PlanShape, Attended, Leaving, Plans, TaskStatuses
  <2>2. Accounted
    BY DEF Init, Pool!Init, Accounted, Pool!Steps
  <2>3. PlanHolds
    BY DEF Init, Pool!Init, PlanHolds, Stands, Fresh, Holding, Dropping
  <2> QED
    BY <2>1, <2>2, <2>3
<1>2. Inv /\ [Next]_vars => Inv'
  BY Inductive, PoolSteps, PoolKeeps, StandKeeps DEF IInv, Shape
<1>3. Inv => NoWorkerLeaks
  <2> SUFFICES ASSUME Inv, \A r \in Runs : plan[r] = <<>>
               PROVE  /\ \A w \in Ids : status[w] # "new" => status[w] = "available" /\ running[w] = {}
                      /\ \A t \in Tasks : leases[t] = None
    BY DEF NoWorkerLeaks
  <2>1. \A r \in Runs : pc[r] = "idle"
    BY DEF PlanHolds, Stands, Fresh, Holding, Dropping
  <2> QED
    BY <2>1 DEF Accounted, Pool!Users
<1> QED
  BY <1>1, <1>2, <1>3, PTL DEF Spec

---------------------------------------------------------------------------
\* The conditions under which the watchdog sees what is in progress: one dispatch
\* loop in the process, and neither cancel_task nor the watchdog takes an entry away.
OneLoop == \A d, e \in Dispatchers : d = e
NobodyEnds == Ops \cap {"cancel", "watchdog"} = {}

\* From its entry in active_tasks to the end of its final update, a run is listed.
Listed ==
  /\ ending = {} /\ stale = {}
  /\ \A r \in Runs : plan[r] \in WillFinish \union {<<"start", "exec">>} => r[2] \in active

\* The plans a run can be about to start, execute or finish with, and what is left
\* after it released its worker.
LEMMA OwingSteps ==
  ASSUME NEW p \in Plans, p # <<>>
  PROVE  /\ Head(p) \in {"start", "exec", "complete", "fail"}
              => p \in WillFinish \union {<<"start", "exec">>}
         /\ Head(p) = "release" /\ Tail(p) \in WillFinish \union {<<"start", "exec">>}
              => p \in WillFinish
<1> USE DEF WillDeactivate, WillFinish
<1>1. CASE p \in WillFinish
  BY <1>1
<1>2. CASE p \in {<<"activate", "start", "exec">>, <<"deactivate", "release">>, <<"deactivate">>,
                  <<"acquire", "activate", "start", "exec">>}
  BY <1>2
<1>3. CASE p = <<"start", "exec">>
  BY <1>3
<1>4. CASE p = <<"release", "deactivate">>
  <2>1. Head(p) = "release" /\ Tail(p) = <<"deactivate">>
    BY <1>4
  <2> QED
    BY <2>1
<1>5. CASE p = <<"release">>
  <2>1. Head(p) = "release" /\ Tail(p) = <<>>
    BY <1>5
  <2> QED
    BY <2>1
<1> QED
  BY <1>1, <1>2, <1>3, <1>4, <1>5 DEF Plans

\* The step lemma of Listed: only a run's own "deactivate" removes its entry, and no
\* step gives a run something to finish but from <<"start", "exec">>.
LEMMA ListedKeeps ==
  ASSUME OneLoop, NobodyEnds, IInv, Listed, [Next]_vars PROVE Listed'
<1> DEFINE Owing == WillFinish \union {<<"start", "exec">>}
<1> USE DEF Listed
<1>0. PlanShape /\ active \subseteq Tasks
  BY DEF IInv, Shape
<1>a. ASSUME NEW r \in Runs, NEW step, NEW then, Take(r, step, then),
             then \in Owing => r[2] \in active',
             \A u \in Runs : u # r /\ u[2] \in active => u[2] \in active',
             UNCHANGED <<stale, ending>>
      PROVE  Listed'
  <2>1. ASSUME NEW u \in Runs, plan'[u] \in Owing PROVE u[2] \in active'
    BY <1>0, <1>a, <2>1, Taken
  <2> QED
    BY <1>a, <2>1
<1>1. ASSUME NEW w \in Ids, AddWorker(w) PROVE Listed'
  BY <1>1 DEF AddWorker
<1>2. ASSUME NEW d \in Dispatchers, Dispatch(d) PROVE Listed'
  <2>1. PICK S \in SUBSET Queued :
          plan' = [r \in Runs |-> IF r[1] = d /\ r[2] \in S THEN Fresh ELSE plan[r]]
    BY <1>2 DEF Dispatch, Fresh
  <2>2. Fresh \notin Owing
    BY DEF Fresh, WillFinish
  <2> QED
    BY <1>2, <2>1, <2>2 DEF Dispatch
<1>3. ASSUME NEW r \in Runs, RunStep(r) PROVE Listed'
  <2>0. UNCHANGED <<stale, ending>>
    BY <1>3 DEF RunStep, Acquiring, Acquired, NoWorkers, Activate, Start, Exec, ExecOf,
                Finish, Deactivate, Releasing, Released
  <2>1. CASE Acquiring(r) \/ Releasing(r)
    BY <2>1 DEF Acquiring, Releasing
  <2>2. CASE Acquired(r) \/ NoWorkers(r)
    <3>1. /\ \E then \in {Tail(plan[r]), <<>>} : Take(r, "acquire", then)
          /\ active' = active
      BY <2>2 DEF Acquired, NoWorkers, Skip
    <3>2. Tail(plan[r]) \notin Owing /\ <<>> \notin Owing
      <4>1. Tail(plan[r]) = <<"activate", "start", "exec">>
        BY <1>0, <3>1, Taken, PlanSteps
      <4> QED
        BY <4>1 DEF WillFinish
    <3> QED
      BY <1>a, <2>0, <3>1, <3>2
  <2>3. CASE Activate(r)
    <3>1. Take(r, "activate", Tail(plan[r])) /\ active' = active \union {r[2]}
      BY <2>3 DEF Activate, Skip
    <3> QED
      BY <1>a, <2>0, <3>1
  <2>4. CASE Start(r) \/ Exec(r) \/ Finish(r)
    <3>1. /\ \E step \in {"start", "exec", "complete", "fail"} : \E then : Take(r, step, then)
          /\ active' = active
      BY <2>4 DEF Start, Exec, ExecOf, Finish, Skip
    <3>2. plan[r] \in Owing
      BY <1>0, <3>1, Taken, OwingSteps
    <3> QED
      BY <1>a, <2>0, <3>1, <3>2
  <2>5. CASE Deactivate(r)
    <3>1. Take(r, "deactivate", Tail(plan[r])) /\ active' = active \ {r[2]}
      BY <2>5 DEF Deactivate, Skip
    <3>2. Tail(plan[r]) \notin Owing
      <4>1. Tail(plan[r]) \in {<<"release">>, <<>>}
        BY <1>0, <3>1, Taken, PlanSteps
      <4> QED
        BY <4>1 DEF WillFinish
    <3>3. \A u \in Runs : u[2] = r[2] => u = r
      BY OneLoop DEF OneLoop, Runs
    <3>4. \A u \in Runs : u # r /\ u[2] \in active => u[2] \in active'
      BY <3>1, <3>3
    <3> QED
      BY <1>a, <2>0, <3>1, <3>2, <3>4
  <2>6. CASE Released(r)
    <3>1. Take(r, "release", Tail(plan[r])) /\ active' = active
      BY <2>6 DEF Released, Skip
    <3>2. Tail(plan[r]) \in Owing => plan[r] \in Owing
      BY <1>0, <3>1, Taken, OwingSteps
    <3> QED
      BY <1>a, <2>0, <3>1, <3>2
  <2> QED
    BY <1>3, <2>1, <2>2, <2>3, <2>4, <2>5, <2>6 DEF RunStep
<1>4. ASSUME NEW t \in Tasks, Others(t) PROVE Listed'
  <2>1. ~Cancel(t) /\ ~MarkFailed(t) /\ ~WatchDead(t) /\ ~WatchAlive(t) /\ ~Ended(t)
    BY NobodyEnds DEF NobodyEnds, Cancel, MarkFailed, Call, WatchDead, WatchAlive, Ended
  <2> QED
    BY <1>4, <2>1 DEF Others, Create, Enqueue, Remove
<1>5. CASE Watch
  BY <1>5, NobodyEnds DEF Watch, Call, NobodyEnds
<1>6. CASE UNCHANGED vars
  BY <1>6 DEF vars
<1> QED
  BY <1>1, <1>2, <1>3, <1>4, <1>5, <1>6 DEF Next

\* A task in progress is in active_tasks, where the watchdog and the dashboard see it,
\* whatever tasks are requeued or removed meanwhile: one dispatch loop, no cancels.
THEOREM WatchdogSees ==
  ASSUME OneLoop, NobodyEnds PROVE Spec => []InProgressIsActive
<1> DEFINE Inv == IInv /\ Listed
<1>1. Init => Inv
  BY DEF Init, IInv, Shape, PlanShape, Attended, Leaving, Plans, TaskStatuses, Listed, WillFinish
<1>2. Inv /\ [Next]_vars => Inv'
  BY Inductive, ListedKeeps
<1>3. Inv => InProgressIsActive
  BY DEF IInv, Attended, Listed, InProgressIsActive
<1> QED
  BY <1>1, <1>2, <1>3, PTL DEF Spec
=================================================================================

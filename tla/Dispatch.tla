-------------------------------- MODULE Dispatch --------------------------------
(***************************************************************************)
(* The scheduler of src/src/pipeline: dispatch_parallel, called by every   *)
(* dispatch loop of the process, runs queued tasks on workers of the pool  *)
(* (module WorkerPool, whose steps these are), while other calls change    *)
(* the status of the same tasks.  A run is a sequence of steps, each under *)
(* one lock and none holding a lock of another; plan[r] is what run r has  *)
(* still to do.  The engine, which executes the phases of a task, is       *)
(* external: it only returns.                                              *)
(***************************************************************************)
EXTENDS Naturals, Sequences, FiniteSets

CONSTANTS
  Dispatchers,  \* callers of dispatch_parallel in the process
  Tasks,        \* task ids
  Ids, Capacity, MaxWorkers, None,   \* of WorkerPool
  MaxParallel,  \* the argument of dispatch_parallel
  Ops,          \* operations other than dispatching that are called
  MaxOps        \* bound: how many of those calls are made

VARIABLES
  status, running, leases, pc, worker, resuming,   \* of WorkerPool
  qstatus,    \* qstatus[t]: Task.status in TaskQueue.tasks, or "absent" or "removed"
  active,     \* active_tasks: the tasks with an entry
  plan,       \* plan[r]: the steps run r has still to take
  stale,      \* tasks in a copy of active_tasks the watchdog is going through
  ending,     \* cancel_task and watchdog calls between their two steps
  ops         \* calls made so far

\* A dispatcher never has two runs of one task.
Runs == Dispatchers \X Tasks
RunTask == [r \in Runs |-> r[2]]

\* The orchestrator manages no worker.
Pool == INSTANCE WorkerPool WITH Calls <- Runs, TaskOf <- RunTask, Managed <- {}

pool == <<status, running, leases, pc, worker, resuming>>
vars == <<pool, qstatus, active, plan, stale, ending, ops>>

ASSUME DispatchAssumption ==
  /\ IsFiniteSet(Tasks)
  /\ MaxParallel \in Nat \ {0} /\ MaxOps \in Nat
  /\ Capacity \in Nat \ {0}
  /\ Ops \subseteq {"enqueue", "requeue", "cancel", "watchdog", "remove"}

Terminal == {"completed", "failed"}
TaskStatuses == {"absent", "removed", "backlog", "queued", "in_progress"} \union Terminal
RunSteps == {"acquire", "activate", "start", "exec", "complete", "fail",
             "deactivate", "release"}

TypeOK ==
  /\ Pool!TypeOK
  /\ qstatus \in [Tasks -> TaskStatuses]
  /\ active \subseteq Tasks /\ stale \subseteq Tasks
  /\ ending \subseteq {"cancel", "watchdog"} \X Tasks
  /\ \A r \in Runs : Len(plan[r]) <= 4 /\ \A i \in DOMAIN plan[r] : plan[r][i] \in RunSteps
  /\ ops \in 0..MaxOps

Init ==
  /\ Pool!Init
  /\ qstatus = [t \in Tasks |-> "absent"]
  /\ active = {} /\ stale = {} /\ ending = {}
  /\ plan = [r \in Runs |-> <<>>]
  /\ ops = 0

---------------------------------------------------------------------------
\* update_status: NotFound changes nothing, any other status is overwritten.
NotFound(t) == qstatus[t] \in {"absent", "removed"}
SetStatus(t, s) ==
  qstatus' = IF NotFound(t) THEN qstatus ELSE [qstatus EXCEPT ![t] = s]

\* Run r takes the first step of its plan; "then" is what is left to do.
Take(r, step, then) ==
  /\ plan[r] # <<>> /\ Head(plan[r]) = step
  /\ plan' = [plan EXCEPT ![r] = then]

Skip(r, step) == Take(r, step, Tail(plan[r]))

AddWorker(w) ==
  /\ Pool!AddWorker(w)
  /\ UNCHANGED <<qstatus, active, plan, stale, ending, ops>>

\* create_from_intake adds a task in Backlog.  create_vex_task never gets beyond it:
\* a vex task has no instruction, which validate_intake refuses.
Create(t) ==
  /\ qstatus[t] = "absent"
  /\ qstatus' = [qstatus EXCEPT ![t] = "backlog"]
  /\ UNCHANGED <<pool, active, plan, stale, ending, ops>>

Queued == {t \in Tasks : qstatus[t] = "queued"}
Fewer(m, n) == IF m < n THEN m ELSE n

\* dispatch_parallel copies the queued tasks (in the order of a hash map), keeps
\* max_parallel of them and spawns a run of each; d's last call has returned.
Dispatch(d) ==
  /\ \A t \in Tasks : plan[<<d, t>>] = <<>>
  /\ Queued # {}
  /\ \E S \in SUBSET Queued :
       /\ Cardinality(S) = Fewer(MaxParallel, Cardinality(Queued))
       /\ plan' = [r \in Runs |-> IF r[1] = d /\ r[2] \in S
                                  THEN <<"acquire", "activate", "start", "exec">>
                                  ELSE plan[r]]
  /\ UNCHANGED <<pool, qstatus, active, stale, ending, ops>>

\* acquire_worker is three steps of the pool; the last one ends the step.
Acquiring(r) ==
  /\ plan[r] # <<>> /\ Head(plan[r]) = "acquire"
  /\ Pool!Choose(r) \/ Pool!List(r)
  /\ UNCHANGED <<qstatus, active, plan, stale, ending, ops>>

Acquired(r) ==
  /\ Skip(r, "acquire")
  /\ Pool!Lease(r)
  /\ UNCHANGED <<qstatus, active, stale, ending, ops>>

\* NoWorkersAvailable: the run returns at once and leaves the task queued.
NoWorkers(r) ==
  /\ Take(r, "acquire", <<>>)
  /\ pc[r] = "idle" /\ ~\E w \in Ids : Pool!CanAccept(w)
  /\ UNCHANGED <<pool, qstatus, active, stale, ending, ops>>

Activate(r) ==
  /\ Skip(r, "activate")
  /\ active' = active \union {r[2]}
  /\ UNCHANGED <<pool, qstatus, stale, ending, ops>>

Start(r) ==
  /\ Take(r, "start", IF NotFound(r[2])
                      THEN <<"release", "deactivate">> ELSE Tail(plan[r]))
  /\ SetStatus(r[2], "in_progress")
  /\ UNCHANGED <<pool, active, stale, ending, ops>>

ExecOf(r, plans) ==
  /\ \E p \in plans : Take(r, "exec", p)
  /\ UNCHANGED <<pool, qstatus, active, stale, ending, ops>>

\* Variants: a panic is caught but nothing releases the worker; only the guard sees
\* it; the entry in active_tasks is left; it goes before the status is final.
ExecPanicLeaks(r)   == ExecOf(r, {<<"complete", "deactivate", "release">>, <<"fail", "deactivate">>})
ExecPanicEscapes(r) == ExecOf(r, {<<"complete", "deactivate", "release">>, <<"release">>})
ExecPanicKeeps(r)   == ExecOf(r, {<<"complete", "deactivate", "release">>, <<"release", "fail">>})
ExecDropsEarly(r)   == ExecOf(r, {<<"deactivate", "complete", "release">>})

\* The engine returns success; a result without success; an error; or panics,
\* which drops the guard before the status is set.
Exec(r) ==
  ExecOf(r, {<<"complete", "deactivate", "release">>,
             <<"fail", "deactivate", "release">>,
             <<"fail", "fail", "deactivate", "release">>,
             <<"release", "fail", "deactivate">>})

\* The final status does not look at the status it replaces.
Finish(r) ==
  /\ \/ Skip(r, "complete") /\ SetStatus(r[2], "completed")
     \/ Skip(r, "fail") /\ SetStatus(r[2], "failed")
  /\ UNCHANGED <<pool, active, stale, ending, ops>>

Deactivate(r) ==
  /\ Skip(r, "deactivate")
  /\ active' = active \ {r[2]}
  /\ UNCHANGED <<pool, qstatus, stale, ending, ops>>

\* Dropping the ExecutionGuard is two steps of the pool.
Releasing(r) ==
  /\ plan[r] # <<>> /\ Head(plan[r]) = "release"
  /\ Pool!Free(r)
  /\ UNCHANGED <<qstatus, active, plan, stale, ending, ops>>

Released(r) ==
  /\ Skip(r, "release")
  /\ Pool!Unlease(r)
  /\ UNCHANGED <<qstatus, active, stale, ending, ops>>

---------------------------------------------------------------------------
\* Calls of others.  None of them looks at the status or at the runs.

Call(op) == op \in Ops /\ ops < MaxOps /\ ops' = ops + 1

\* transition_task(Queued) of a new task, or requeue_task of a task in any status.
Enqueue(t) ==
  /\ \/ qstatus[t] = "backlog" /\ "enqueue" \in Ops /\ UNCHANGED ops
     \/ ~NotFound(t) /\ Call("requeue")
  /\ SetStatus(t, "queued")
  /\ UNCHANGED <<pool, active, plan, stale, ending>>

\* cancel_task: the status, then the entry in active_tasks.  active_leases is
\* empty (nothing inserts in it), so no worker is released.
Cancel(t) ==
  /\ ~NotFound(t) /\ Call("cancel")
  /\ SetStatus(t, "failed")
  /\ ending' = ending \union {<<"cancel", t>>}
  /\ UNCHANGED <<pool, active, plan, stale>>

\* PipelineOrchestrator::cancel_task writes the status only.
MarkFailed(t) ==
  /\ ~NotFound(t) /\ Call("cancel")
  /\ SetStatus(t, "failed")
  /\ UNCHANGED <<pool, active, plan, stale, ending>>

\* check_all_tasks_health works through a copy of active_tasks; whether the
\* session of a task looks dead is up to the session store.
Watch ==
  /\ stale = {} /\ active # {} /\ Call("watchdog")
  /\ stale' = active
  /\ UNCHANGED <<pool, qstatus, active, plan, ending>>

WatchAlive(t) ==
  /\ t \in stale /\ stale' = stale \ {t}
  /\ UNCHANGED <<pool, qstatus, active, plan, ending, ops>>

\* A task that is gone ends the whole check with an error.
WatchDead(t) ==
  /\ t \in stale /\ ~\E u \in Tasks : <<"watchdog", u>> \in ending
  /\ IF NotFound(t) THEN stale' = {} /\ UNCHANGED ending
     ELSE stale' = stale \ {t} /\ ending' = ending \union {<<"watchdog", t>>}
  /\ SetStatus(t, "failed")
  /\ UNCHANGED <<pool, active, plan, ops>>

Ended(t) ==
  /\ \E who \in {"cancel", "watchdog"} :
       <<who, t>> \in ending /\ ending' = ending \ {<<who, t>>}
  /\ active' = active \ {t}
  /\ UNCHANGED <<pool, qstatus, plan, stale, ops>>

\* TaskQueue::remove_task.
Remove(t) ==
  /\ ~NotFound(t) /\ Call("remove")
  /\ qstatus' = [qstatus EXCEPT ![t] = "removed"]
  /\ UNCHANGED <<pool, active, plan, stale, ending>>

---------------------------------------------------------------------------
RunStep(r) == \/ Acquiring(r) \/ Acquired(r) \/ NoWorkers(r) \/ Activate(r)
              \/ Start(r) \/ Exec(r) \/ Finish(r) \/ Deactivate(r)
              \/ Releasing(r) \/ Released(r)

Others(t) == \/ Create(t) \/ Enqueue(t) \/ Cancel(t) \/ MarkFailed(t) \/ Remove(t)
             \/ WatchAlive(t) \/ WatchDead(t) \/ Ended(t)

Next == \/ \E w \in Ids : AddWorker(w)
        \/ \E d \in Dispatchers : Dispatch(d)
        \/ \E r \in Runs : RunStep(r)
        \/ \E t \in Tasks : Others(t)
        \/ Watch

Spec == Init /\ [][Next]_vars

\* The runtime polls every run, a dispatch loop calls again after each round (the
\* daemon every five seconds), and phases have timeouts.
FairSpec == /\ Spec
            /\ \A r \in Runs : WF_vars(RunStep(r))
            /\ \A d \in Dispatchers : WF_vars(Dispatch(d))
            /\ WF_vars(\E w \in Ids : AddWorker(w))

---------------------------------------------------------------------------
\* Properties.

RunsOf(t) == {r \in Runs : r[2] = t /\ plan[r] # <<>>}

\* When nothing runs, every worker is idle and no lease is left, whatever the runs
\* came to: success, error, panic, a task removed meanwhile (ExecutionGuard,
\* scheduler.rs:20 "guaranteed cleanup of task execution resources").
NoWorkerLeaks ==
  (\A r \in Runs : plan[r] = <<>>) =>
    /\ \A w \in Ids : status[w] # "new" => status[w] = "available" /\ running[w] = {}
    /\ \A t \in Tasks : leases[t] = None

\* A task is InProgress only while some run of it is under way: however runs,
\* cancels and the watchdog overlap, none leaves a task that nobody will finish.
NothingAbandoned == \A t \in Tasks : qstatus[t] = "in_progress" => RunsOf(t) # {}

\* An entry of active_tasks (what the dashboard shows and the watchdog checks) never
\* outlives the runs of its task, also when a run inserts it after a cancel, the
\* watchdog or a run of another loop removed it, and however the run ends.
NoGhostActive == \A t \in active : RunsOf(t) # {}

\* The watchdog looks at active tasks only: it can see every task in progress (one
\* dispatch loop; nobody cancels).
InProgressIsActive == \A t \in Tasks : qstatus[t] = "in_progress" => t \in active

\* A queued task is run although there are fewer workers than runs, a run that
\* finds none gives up, and any run may panic.
QueuedIsRun == \A t \in Tasks : qstatus[t] = "queued" ~> qstatus[t] # "queued"
==================================================================================

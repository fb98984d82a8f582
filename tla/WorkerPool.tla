------------------------------- MODULE WorkerPool -------------------------------
(***************************************************************************)
(* The worker pool of src/src/pipeline/worker_pool.  A call acquires a    *)
(* worker in three critical sections (choose under the read lock, list the *)
(* task under the write lock, record the lease under its own mutex) and    *)
(* releases it in two; the sections of different calls interleave.  A task *)
(* in Worker.current_tasks is represented by the call that listed it, so   *)
(* that a task listed by two calls is two entries, as in the vector.       *)
(***************************************************************************)
EXTENDS Naturals, FiniteSets

CONSTANTS
  Calls,       \* callers that acquire, run and release, again and again
  Tasks,       \* task ids
  TaskOf,      \* TaskOf[c]: the task caller c acquires a worker for
  Ids,         \* worker ids; next_id never hands one out twice
  Managed,     \* workers that somebody removes, pauses and resumes; the
               \* orchestrator manages none
  Capacity,    \* WorkerPoolConfig.default_capacity
  MaxWorkers,  \* WorkerPoolConfig.max_workers
  None

ASSUME PoolAssumption ==
  /\ TaskOf \in [Calls -> Tasks]
  /\ None \notin Ids /\ Managed \subseteq Ids
  /\ Capacity \in Nat \ {0}
  /\ MaxWorkers \in Nat
  /\ IsFiniteSet(Calls) /\ IsFiniteSet(Ids)

VARIABLES
  status,    \* status[w]: Worker.status; "new" and "gone" are not in the map
  running,   \* running[w]: Worker.current_tasks
  leases,    \* leases[t]: the worker recorded for task t
  pc,        \* pc[c]: where caller c stands
  worker,    \* worker[c]: the worker c chose, then WorkerLease.worker_id
  resuming   \* calls of resume_worker between their two sections

book == <<status, running, leases>>
vars == <<status, running, leases, pc, worker, resuming>>

Statuses == {"available", "busy", "paused", "offline"}
Steps    == {"idle", "chosen", "listed", "leased", "freed"}
Present(w) == status[w] \in Statuses

TypeOK ==
  /\ status \in [Ids -> Statuses \union {"new", "gone"}]
  /\ running \in [Ids -> SUBSET Calls]
  /\ leases \in [Tasks -> Ids \union {None}]
  /\ pc \in [Calls -> Steps]
  /\ worker \in [Calls -> Ids \union {None}]
  /\ \A c \in Calls : pc[c] # "idle" => worker[c] \in Ids
  /\ resuming \subseteq Ids \X {"available", "busy"}

Init ==
  /\ status = [w \in Ids |-> "new"]
  /\ running = [w \in Ids |-> {}]
  /\ leases = [t \in Tasks |-> None]
  /\ pc = [c \in Calls |-> "idle"]
  /\ worker = [c \in Calls |-> None]
  /\ resuming = {}

Goto(c, from, to) == pc[c] = from /\ pc' = [pc EXCEPT ![c] = to]
Return(c, from) == Goto(c, from, "idle") /\ worker' = [worker EXCEPT ![c] = None]

---------------------------------------------------------------------------
AddWorker(w) ==
  /\ status[w] = "new"
  /\ Cardinality({v \in Ids : Present(v)}) < MaxWorkers
  /\ status' = [status EXCEPT ![w] = "available"]
  /\ UNCHANGED <<running, leases, pc, worker, resuming>>

CanAccept(w) == status[w] = "available" /\ Cardinality(running[w]) < Capacity

\* Variant: a call that finds no worker goes on without one.
ChooseNobody(c) ==
  /\ Goto(c, "idle", "chosen")
  /\ worker' = [worker EXCEPT ![c] =
                  IF \E w \in Ids : CanAccept(w) THEN CHOOSE w \in Ids : CanAccept(w) ELSE None]
  /\ UNCHANGED <<book, resuming>>

\* acquire_worker, first section.  With no such worker the call returns
\* NoWorkersAvailable and changes nothing.
Choose(c) ==
  /\ Goto(c, "idle", "chosen")
  /\ \E w \in Ids : CanAccept(w) /\ worker' = [worker EXCEPT ![c] = w]
  /\ UNCHANGED <<book, resuming>>

\* Variant: the worker turns Busy only beyond its capacity.
ListLate(c) ==
  /\ Goto(c, "chosen", "listed")
  /\ Present(worker[c])
  /\ running' = [running EXCEPT ![worker[c]] = @ \union {c}]
  /\ status' = IF Cardinality(running'[worker[c]]) > Capacity
               THEN [status EXCEPT ![worker[c]] = "busy"] ELSE status
  /\ UNCHANGED <<leases, worker, resuming>>

\* Second section: nothing is checked again.
List(c) ==
  /\ Goto(c, "chosen", "listed")
  /\ Present(worker[c])
  /\ running' = [running EXCEPT ![worker[c]] = @ \union {c}]
  /\ status' = IF Cardinality(running'[worker[c]]) >= Capacity
               THEN [status EXCEPT ![worker[c]] = "busy"] ELSE status
  /\ UNCHANGED <<leases, worker, resuming>>

\* The worker was removed meanwhile: WorkerNotFound.
ListNotFound(c) ==
  /\ Return(c, "chosen")
  /\ ~Present(worker[c])
  /\ UNCHANGED <<book, resuming>>

Lease(c) ==
  /\ Goto(c, "listed", "leased")
  /\ leases' = [leases EXCEPT ![TaskOf[c]] = worker[c]]
  /\ UNCHANGED <<status, running, worker, resuming>>

SameTask(c) == {d \in Calls : TaskOf[d] = TaskOf[c]}

\* Variant: the list is emptied instead of filtered.
FreeAll(c) ==
  /\ Goto(c, "leased", "freed")
  /\ Present(worker[c])
  /\ running' = [running EXCEPT ![worker[c]] = {}]
  /\ status' = [status EXCEPT ![worker[c]] = "available"]
  /\ UNCHANGED <<leases, worker, resuming>>

\* Variant: a worker freed below its capacity stays as it was.
FreeQuiet(c) ==
  /\ Goto(c, "leased", "freed")
  /\ Present(worker[c])
  /\ running' = [running EXCEPT ![worker[c]] = @ \ SameTask(c)]
  /\ UNCHANGED <<status, leases, worker, resuming>>

\* release_worker, first section: retain drops every entry of the task.
Free(c) ==
  /\ Goto(c, "leased", "freed")
  /\ Present(worker[c])
  /\ running' = [running EXCEPT ![worker[c]] = @ \ SameTask(c)]
  /\ status' = IF Cardinality(running'[worker[c]]) < Capacity
               THEN [status EXCEPT ![worker[c]] = "available"] ELSE status
  /\ UNCHANGED <<leases, worker, resuming>>

\* WorkerNotFound: the call returns before the lease is removed.
FreeNotFound(c) ==
  /\ Return(c, "leased")
  /\ ~Present(worker[c])
  /\ UNCHANGED <<book, resuming>>

\* Variant: the lease entry is left behind.
UnleaseKept(c) ==
  /\ Return(c, "freed")
  /\ UNCHANGED <<book, resuming>>

Unlease(c) ==
  /\ Return(c, "freed")
  /\ leases' = [leases EXCEPT ![TaskOf[c]] = None]
  /\ UNCHANGED <<status, running, resuming>>

---------------------------------------------------------------------------
\* Operations on a managed worker.

RemoveWorker(w) ==
  /\ Present(w)
  /\ status' = [status EXCEPT ![w] = "gone"]
  /\ running' = [running EXCEPT ![w] = {}]
  /\ UNCHANGED <<leases, pc, worker, resuming>>

\* set_worker_status, and pause_worker.
SetStatus(w, s) ==
  /\ Present(w)
  /\ status' = [status EXCEPT ![w] = s]
  /\ UNCHANGED <<running, leases, pc, worker, resuming>>

\* resume_worker computes the status, drops the lock, and sets it afterwards.
ResumeRead(w) ==
  /\ Present(w)
  /\ resuming' = resuming \union {<<w, IF running[w] = {} THEN "available" ELSE "busy">>}
  /\ UNCHANGED <<book, pc, worker>>

ResumeWrite(w, s) ==
  /\ <<w, s>> \in resuming
  /\ resuming' = resuming \ {<<w, s>>}
  /\ status' = IF Present(w) THEN [status EXCEPT ![w] = s] ELSE status
  /\ UNCHANGED <<running, leases, pc, worker>>

---------------------------------------------------------------------------
Acquire(c) == Choose(c) \/ List(c) \/ ListNotFound(c) \/ Lease(c)
Release(c) == Free(c) \/ FreeNotFound(c) \/ Unlease(c)
Admin(w)   == \/ RemoveWorker(w) \/ ResumeRead(w)
              \/ \E s \in Statuses : SetStatus(w, s) \/ ResumeWrite(w, s)

Next == \/ \E w \in Ids : AddWorker(w)
        \/ \E c \in Calls : Acquire(c) \/ Release(c)
        \/ \E w \in Managed : Admin(w)

Spec == Init /\ [][Next]_vars

\* Critical sections end, and so does a run (the engine bounds every phase).
FairSpec == Spec /\ \A c \in Calls : WF_vars(List(c) \/ ListNotFound(c) \/ Lease(c) \/ Release(c))

---------------------------------------------------------------------------
\* Properties.

Users(w) == {c \in Calls : pc[c] \in {"listed", "leased"} /\ worker[c] = w}

\* A worker lists exactly the calls that hold it, although its list, the lease map
\* and the callers' leases are updated in separate sections (used_capacity and
\* tasks_running of stats).  Needs callers with distinct tasks.
AccountingExact == \A w \in Ids : Present(w) => running[w] = Users(w)

\* The lease map names the worker of every task from the end of acquire_worker to
\* the end of release_worker, and nothing else (active_leases of stats), except for
\* workers removed in between.
LeaseIndexExact ==
  \A t \in Tasks, w \in Ids : Present(w) =>
    (leases[t] = w <=> \E c \in Calls : /\ TaskOf[c] = t /\ worker[c] = w
                                        /\ pc[c] \in {"leased", "freed"})

\* A worker nobody manages is Busy exactly while it is full: none is passed over
\* while it has room, none chosen while it is known to be full.
StatusExact ==
  \A w \in Ids \ Managed : Present(w) =>
    status[w] = IF Cardinality(running[w]) < Capacity THEN "available" ELSE "busy"

\* A full worker accepts work again: acquire_worker's late update does not wedge it,
\* though it may have been given more tasks than it has room for.
BusyWorkerReturns == \A w \in Ids \ Managed : status[w] = "busy" ~> CanAccept(w)
=================================================================================

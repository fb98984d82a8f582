# A TLA+ model of d3vx

d3vx is a terminal coding agent. Besides the conversation with its user it runs
background tasks: a *pipeline* queues them, gives each a git worktree and a worker,
runs them through phases with reviews and fixes, writes checkpoints and recovers after
a crash; a *coordination board* of plain files lets several agent processes share
work; and the interface itself runs *batches* of parallel agents. This directory holds
TLA+ modules of those three parts, TLC configurations that check them on small
instances, and TLAPS proofs of the properties that matter most.

Paths below are those of the repository's own tree, without the leading `src/` under
which the whole repository lies here: `src/coordination/board.rs` is
`src/src/coordination/board.rs` of `PROJECT.json`.

    tlc -workers 2 -config MCCoordBoard.cfg MCCoordBoard      # any run of PROJECT.json
    tlapm CoordBoard_proof.tla                                # any *_proof module

## 1. The system

### Parts, their state and how they interact

| Part | State | Operations | Talks to |
|---|---|---|---|
| Task board, `coordination/board.rs`, `io.rs` | `<t>.json` and `<t>.claim` per task, in a shared directory | add, claim, complete, fail, cancel, list ready | agents (tools of `coordination/agent_tools.rs`), other processes through the file system only |
| Inbox and broadcast log, `coordination/inbox.rs` | one JSONL file per agent, one shared | send, drain, publish, read since | agents |
| Task intake and factory, `pipeline/intake`, `task_factory.rs`, `vex_manager.rs` | an id counter per process | create a task from chat, issue, `/vex` | checkpoints, then the queue |
| Task queue, `pipeline/queue` | tasks by id, ids by priority, dependencies | add, get_next, update_status, remove, reprioritize, clear | everything in the pipeline |
| Queue manager, `queue_manager.rs` | none of its own | transition, patch, cancel, recover | queue, checkpoints, ownership, active tasks |
| Checkpoints, `checkpoint.rs` | a cache vector, a file per task | create, load, update, delete, list | queue manager, scheduler |
| Worker pool, `worker_pool/` | workers with status and task list, lease map | acquire, release, add, remove, pause, resume | scheduler |
| Scheduler, `scheduler.rs` | `active_tasks` | dispatch_parallel, guard, panic path | queue, pool, engine |
| Engine, `engine/`, `timeout.rs` | a copy of the task being run, the results of its phases | run, run_with_agent, run_phases, with retries and timeouts | handlers, agent |
| Quality loop and gates, `qa_loop.rs`, `review_summary.rs`, `review_gate.rs`, `merge_gate.rs` | a record in the metadata of the task | start review, record, transition, re-review, fix, evaluate | the handlers of Review, Implement and Docs |
| Parallel agents, `app/parallel_batches.rs`, `app/handlers/agent`, `agent/subagent/spawn.rs` | batches with their children, a queue, a count of running agents | spawn a batch, start what is ready, Done of an agent, report | the tool that waits for the report, sub-agents |
| Watchdog, `recovery_manager.rs` | none of its own | check_all_tasks_health, handle_task_failure | session store, queue, active tasks |
| Reactions, `reaction/`, `orchestrator/reaction_bridge.rs` | retry history | requeue, cancel, notify, escalate | orchestrator |
| Ownership and leases, `ownership.rs`, `heartbeat/` | owner, generation and token per task; leases | acquire, release, transfer, renew, expire | queue manager; only tests construct the heartbeat manager |
| Daemon, `cli/commands/daemon.rs` | a state file with a pid | start, stop, loop: recover, then dispatch every 5 s | orchestrator |
| Store, `store/` | SQLite tables | tasks, runs, workers, sessions, messages | session and agent code |
| Sub-agents, `agent/subagent`, team, `team/` | mailboxes, members | spawn, send, read | agent loop |
| Agent loop, tools, providers, MCP, LSP, IPC, hooks, skills, config, dashboard, TUI | | | language model, operating system |

The factory creates a task (checkpoint, then queue entry, status Backlog) and some
caller moves it to Queued.
`dispatch_parallel` copies the queued tasks, spawns a run of each, and every run
acquires a worker, enters the task in `active_tasks`, marks it InProgress, calls the
engine, writes the final status and gives the worker back. Cancels, requeues, the
watchdog and reactions write the same statuses at any moment. All of this is in the
memory of one process, behind one lock per map, so what interleaves are the critical
sections of tokio tasks; only checkpoints outlive the process.

### What is hard

- *Board*: no server and no lock; a call is several file system calls, any of which
  another process can overtake, and any of which can be the process's last one.
- *Pool, scheduler*: acquire and release are several critical sections each; a run may
  end by success, by failure, by an error, or by a panic whose clean-up runs in other
  places and another order; others write the status of a task while it runs.
- *Records*: three copies of a task's status (queue, cache, file) written in different
  sections by concurrent calls; file operations fail; the process restarts with the
  files only, and counts its ids from 1 again.
- *Queue index*: the map and the index have a lock each and most calls take them one
  after the other, so every other call fits in between; two calls hold one while they
  wait for the other, in opposite orders.
- *Ownership and leases*: `acquire` decides on a copy; creating or releasing a lease is
  up to seven sections over four maps, beside expiry, revocation and replacement.
- *Engine and quality loop*: every phase can succeed, fail, time out or be stopped by a
  guard; reviews, fixes and validations change one record from different handlers and
  runs, and readiness is computed again from signals that outlive their occasion.
- *Parallel agents*: events of a tool, of its agents and of unrelated sub-agents meet in
  one handler; an agent may end without an event.
- *Inbox, daemon file*: read, then truncate; look, then write. Not modelled yet.

### What correct means

| Part | Properties |
|---|---|
| Board | at most one agent works on a task; owner field and claim file agree; a write replaces what its call read; dependencies first; a listed task can be claimed; ready tasks are taken and claimed ones end |
| Pool | task lists, lease map and statuses follow what callers hold; a busy worker comes back |
| Scheduler | nothing leaks, whatever a run came to; no task InProgress without a run; no ghost in `active_tasks`; queued tasks are run |
| Records | a queued task has its own checkpoint; the cache agrees with the file; interrupted tasks are queued again |
| Inbox | no message is lost or read twice; one sender's messages stay in order |
| Queue index | exactly the queued tasks, by priority and then arrival; capacity; dependencies first; no lock cycle |
| Ownership, leases | tokens agree and old ones are refused; one valid lease per task, and it is the one in the index; a replaced worker stays out |
| Engine | a completed task went, in this run, through every phase from its own on, and a review among them approved; retries bounded; every run ends |
| Quality loop | a loop that waits for a fix has something to fix; ready means approved by the last review |
| Parallel agents | a report when, and only when, all its agents have ended; dependents wait; no slot is lost; ready tasks are started |
| Store | only valid transitions; a busy worker and its run name each other |

## 2. The modules

| Module | Models | About |
|---|---|---|
| `CoordBoard` | the task board, one file system call per step | abstract promise: `BoardLock` |
| `BoardLock` | what the claim files promise: reserve, confirm, release | refined by `CoordBoard` (`LockSpec`) |
| `WorkerPool` | the worker pool, one critical section per step | stands alone, and is a part of `Dispatch` |
| `Dispatch` | scheduler, watchdog, cancel, requeue, creation | its pool is `INSTANCE WorkerPool` |
| `TaskRecords` | intake, queue entries, checkpoint cache and files, recovery, restarts | |
| `Ownership` | the ownership register: owner, generation, token | abstract promise of `Leases` |
| `Leases` | heartbeats, leases and replacement, on the register | register is `INSTANCE Ownership`; refines `OwnSpec` |
| `TaskQueue` | the queue's map and index, one lock per step | stands alone |
| `QALoop` | the quality loop's record and the gates, as operators | extended by `PhaseLoop` |
| `PhaseLoop` | the engine, its handlers and the dispatcher's record of a run | |
| `ParallelAgents` | batches of parallel agents in the interface | |
| `*_proof` | theorems and their proofs | extend the module they are about |
| `MC*` | values of the constants for TLC | |

Definitions whose comment says *Variant* or *Mutant* are not part of any
specification. They are slips one could make in that line of code, and each property
of a passing run is listed in `PROJECT.json` with one that breaks it.

### CoordBoard

`entry[t]` is the JSON file, `claim[t]` and `stamped` are the claim file (who created
it, and whether it already holds the id), `local[a]` the copy of a task a call read
and will write back. `AddCheck`/`AddWrite` are `add_task`; `ClaimRead`, `DepRead`,
`Create` or `CreateLoses`, `Stamp`, `Publish` (and `ReadWinner` for the loser) are
`claim_task`; `FinishRead`, `FinishWrite`, `FinishUnlink` are `finish`, which is
behind `complete_task`, `fail_task` and `cancel_task`. `Crash` ends a process between
any two calls; `WriteError` and `UnlinkError` fail one; `Resume` is an agent that
finds itself the owner of a task after a restart.

`atomic_write_json` is one step because of its rename; a crash before the rename
leaves a temporary file nobody reads. Subjects, results and timestamps are left out.
An agent makes one call at a time,
finishes only tasks it was told it owns (the tools' prompt asks it to; the code does
not check), and `Cancellers` cancel anything.

### WorkerPool

`acquire_worker` is `Choose` (read lock), `List` (write lock, nothing checked again)
and `Lease` (the lease map); `release_worker` is `Free` and `Unlease`. A worker
removed in between gives the `NotFound` actions. `resume_worker` reads the worker
under one lock and writes the status it computed under another. `current_tasks` holds
one entry per call, as the vector holds a task twice when two calls list it. Counters
of completed tasks and times are left out.

### Dispatch

A run is a list of steps still to take (`plan[r]`), each under one lock. The engine
only returns, and `Exec` lets it return in four ways: success; a result without
success; an error, which writes Failed twice; and a panic, where the guard is dropped
*before* the status is written. `SetStatus` overwrites whatever it finds, as
`update_status` does. `Cancel` and the watchdog write the status first and leave
`active_tasks` later (`ending`). The watchdog works through a copy (`stale`). The
order in which queued tasks are dispatched is that of a hash map, so any. Checkpoint
writes of the same handlers are in `TaskRecords`; `execute_task` and `pause_all`,
which have no caller, are left out.

### TaskRecords

`queue`, `cache` and `disk` are the three copies of a task's status; a file also says
in which life of the process the task was created, since the id alone does not: the
counter starts at 1 in every process. `CheckpointManager` holds the cache's write lock
across the file operation, so both change in one step. `load_checkpoint` does not,
hence `Load`, `ReadFile`, `Push`; a read or a parse that fails ends the update, and
counts as a fault like a write that fails. `Restart` keeps only `disk`; a daemon then begins
with the recovery, and takes no other work before it has returned. Abstractions:
`list_checkpoints` reads the whole directory in one step; `list_by_status` and the
spawned run are one action `Pick` per task; phases, metadata and the ownership checks
of the `_owned` and `_with_token` variants are left out.

### Ownership and Leases

`Ownership` is `ownership.rs`: `Look` and `Take` (or `Refuse`) are the two critical
sections of `acquire`, which clones the state under one write lock and stores the
outcome under the next; `Release` and `Revoke` are one section each. `state` and
`tokens` are its two maps, `copy[c]` the clone.

`Leases` is `heartbeat/`. A client's call is a record with the step it is at:
`create_lease` goes through `lookup`, `revokeOld`, the two sections of `acquire`,
`insert`, `index`, `assign`; `release_lease` through `unindex`, `disown`, `clear`;
`revoke_lease` keeps the lease map locked (`lock`) while it goes on to the index and the
worker. `life`, `beat` and `active` are a worker's record. Time is `Tick` (a heartbeat
gets older) and `Expire` (a lease passes `lease_expiry`), at any moment, which covers
every configuration of the timeouts. The register's actions are those of
`INSTANCE Ownership`. Only tests construct the manager so far; the module says what it
gives to whoever wires it in. Audit history, progress texts and token counts are left
out.

### TaskQueue

`task` is the map, `index[p]` the ids queued at priority p. `AddCheck` and `AddInsert`
are the two locks of `add`; `AddInsert`, `UpdateStatus`, `RemoveTask` and `Reprioritize`
change the map, and `Reindex` then changes the index; `update_status` reads the map
once more in between (`ReadPriority`).
`Pop` and `Return` are `get_next`, which keeps the index while it waits for the map;
`ClearMap` and `ClearBoth` are `clear`, which does it the other way round. `taken`,
`done` and `raced` are history: `raced` has the tasks that were changed while another
change of them was between the map and the index, whose entries may be wrong for good
(section 5). Any caller may change any task; `Serves` only narrows what TLC explores.

### QALoop and PhaseLoop

`QALoop` has the loop's record and the functions of the gates: `Summary`, `Finalized`,
`Reasons`, `MergeReadiness`, `CheckAndTransition`, `HandleRereview`; and what each
handler makes of the record: `ReviewLoop`, `ImplementLoop`, `DocsLoop`. A finding is its
id and what the gates ask of it.

`PhaseLoop` is the engine. `Run` and `RunPhases` begin a run on a copy of the task, the
first at the task's phase, which is any phase (`intake/layer.rs:53`) and which no run
writes back;
`DryRun`, `Plain`, `Review`, `Implement` and `Docs` are handlers that return a result;
`Error`, `SafetyStop` and `Timeout` the ways they do not, with `Retry`, `GiveUp` and
`HandOn` (`run_phases` returns the error at once). `Record` is the dispatcher's write of
the outcome. Every handler of a run sees the metadata the run started with, and its own
loop goes only into its result; `Resubmit` queues the task again, with or without
patching the metadata with such a result, so that the next run fixes or re-reviews.
Answers of the agent, validation and documentation results are inputs. Snapshots,
callbacks, commits and history texts are left out; `state_machine.rs` is not used by the
engine.

### ParallelAgents

`Call` is the tool, which waits with no timeout; `HandleSpawnParallel` registers and
queues a batch and starts what is ready; `Finish` and `Fail` are the two ways a
sub-agent's run ends, with and without a Done event; `HandleDone` is the handler for any
sub-agent's Done: it updates the child, reports a complete batch, lowers the count and
starts what became ready. The loop that starts tasks one by one is one operator,
`SpawnReady`: what it starts makes nothing else ready, so that it takes the first places
of the queue that are ready while there is room, and notes the n-th agent of a key at
the n-th free child of that key. Handlers run one at a time, and events of different
senders arrive in any order. The provider is there for the whole life of the program or
not at all. Reports, evaluations, task rows and inline panes are left out.

## 3. What is checked

| Run | Instance | Shows |
|---|---|---|
| `board` | 3 agents, 1 task, 1 adder, 2 faults | `TypeOK`, `ExclusiveWork`, `OwnerHasClaimFile`, `CopiesAreCurrent` (who is about to write has the task as it is, or writes over one that is over), and that the board implements `BoardLock` (`LockSpec`), through crashes, failed writes and resumes |
| `board_live` | 2 agents (one adds, one also cancels), 2 tasks, the second depends on the first, no faults, fair | `DepsFirst` and `ReadyIsClaimable`; every ready task is taken (`ReadyIsTaken`) and every claimed one ends (`ClaimedIsFinished`), cancels included |
| `pool` | 3 callers, 2 workers of capacity 1, one of them removed, paused and resumed at will | `TypeOK`; task lists, lease map and statuses are exact (`AccountingExact`, `LeaseIndexExact`, `StatusExact`); a busy worker accepts work again (`BusyWorkerReturns`) |
| `dispatch` | 2 dispatch loops, 1 task, 2 workers, 3 calls of others | `NoWorkerLeaks`, `NothingAbandoned`, `NoGhostActive` |
| `dispatch_live` | 1 fair loop, 2 tasks, 1 worker of capacity 1, 1 requeue | `InProgressIsActive` and `QueuedIsRun` |
| `records` | 2 clients, 1 id per life, 2 lives, 1 failed file operation | `TypeOK`, `QueuedHasCheckpoint`, `CacheAgreesWithDisk` |
| `leases` | 1 client that leases 1 task out, 1 that replaces workers, 2 workers, 2 leases | `OneActiveLease`, `LeaseMapsAgree`, `TokensAgree`, `ReplacedIsOut`, while leases expire and workers fall silent and return |
| `queue` | 2 callers of whom one also clears, 1 taker, 3 tasks of which the second depends on the first and the first is changed by both callers, 2 priorities, capacity 1, fair | `IndexExact`, `OrderKept`, also around overlapping changes of one task; `DependenciesWereDone`; the capacity is overrun by at most one task (`CapacityOverrun`); every call returns unless `clear` and `get_next` meet half-way (`CallsReturn`) |
| `phases` | 1 task, created with any phase, run three times, reports of at most 2 findings, 2 retries, 2 review cycles, three lists of phases, the empty one included | `FixHasWork`, `ReadyIsApproved`, `DeliveredWasReviewed`, and that every run ends (`RunEnds`) |
| `batches` | a batch of 4 (two of one key that start at once, and a chain behind them) and one of 3 (a repeated and a self-named key), room for 2 agents, 1 ordinary sub-agent, 1 agent that may fail | `AnswerIsComplete`, `DependentsWait`, `CountCovers`, and that a batch is answered (`BatchAnswered`) unless something named in the property stands in the way |

Two runs end in a violation. Each states what a text of the repository says, and the
counterexample is a behaviour of the code:

| Run | Property | What happens |
|---|---|---|
| `records_requeue` | `InterruptedIsRequeued` | The recovery re-queues through `transition_task`, which looks the task up in the new process's empty queue and fails; nothing is re-enqueued (`pipeline/queue_manager.rs:291`). |
| `batches_stolen` | `ReadyIsStarted` | The Done of an ordinary sub-agent lowers `running_parallel_agents` as well (`app/handlers/agent/workspace_done.rs:53`), although the comment above says "if this was a parallel agent". The Done of the batch's own agent then finds the count at 0 and starts nothing, so its dependent stays queued with nobody running. |

### Bounds, and why they are enough

- *Board.* Two agents already give every race of two calls; the third lets an agent win
  while another is between its read and its create and a third one reads. Two faults
  allow a crash and a second one during what follows it. A dependency needs two tasks,
  and longer chains repeat the same step. The theorems hold for any number of each.
- *Pool.* Three callers for two workers of capacity 1 make callers share a worker, find
  none, and list more than a worker has room for. Capacity is arbitrary in the proofs.
- *Dispatch.* Two dispatchers run one task twice at once, the worst the scheduler does to
  its records; three calls of others are enough for a cancel, a requeue and a watchdog
  round of the same run. `dispatch_live` has two tasks for one worker, so that a run has
  to give up and be dispatched again.
- *Records.* One id per life and two lives are enough for an id to be used again after a
  restart; two clients for every pair of overlapping calls.
- *Leases.* Two leases let one replace the other on one task; two workers, one take over
  from the other. One client leases the task out because two that overlap do break
  `OneActiveLease`, and can make a generation fall (section 5); the theorems allow any
  number of clients that lease out different tasks. The two workers are
  interchangeable (`SYMMETRY`; the run has no liveness property).
- *Queue.* Capacity 1 makes overlapping adds overrun it, for which three tasks are
  needed; two priorities and two tasks of one caller let one be moved past another; the
  task both callers change takes part in every race of two changes. A call about a task
  begins only while the lists hold at most `MaxListed` = 1 entries, so that two calls
  make them three at most. The theorems have no such bounds.
- *Phases.* Three runs reach a review, a fix and a re-review, or a validation after an
  approval; two findings are a blocking one with a resolved, a mild or a
  category-blocking one beside it; retries and cycles pass 1.
- *Batches.* Room for 2 in place of the code's 5 fills up with these batches;
  nothing in the code depends on the number. A batch has 2 to 5 subtasks.

No state constraint is used, and symmetry only in `leases`. `CHECK_DEADLOCK FALSE` is set where the
system may stop: a board with nothing left to claim, an orchestrator without tasks once
the bounded calls are spent, an engine after its last run, a batch that is answered or
never will be, all ids of leases spent; and `queue`, where `clear` and `get_next` can
wait for each other for good, the one exception `CallsReturn` makes.

### Fairness

- `CoordBoard!Fairness`: a call that began runs on (the operating system schedules the
  process), weak. Strong fairness of claiming and finishing is the prompt's
  discipline: an agent that can again and again claim a ready task, or owns one, acts.
  It is an assumption on agents, not on the code, and with it `MaxFaults` is 0: under
  crashes liveness is false, as a crash between the creation of a claim file and the
  write of its task blocks that task for ever.
- `WorkerPool!FairSpec`: critical sections end and every run ends; the engine bounds
  each phase by a timeout. No fairness is given to choosing a worker or to operators.
- `Dispatch!FairSpec`: runs are polled by the runtime; the dispatch loop calls again
  (the daemon every five seconds; the terminal interface has no loop, see the hazard
  at `app/actions/workspaces.rs:405`); the orchestrator adds its worker. Cancels,
  requeues and the watchdog are not fair.
- `TaskQueue!FairSpec`: the runtime drives every call to its next section, and tokio's
  locks are first come, first served, so that a call whose lock is free again and again
  gets it: strong fairness of a call's next step. Nobody has to begin a call.
- `PhaseLoop!LiveSpec`: the engine's future is polled until it returns (weak fairness of
  `Execute`); handlers return because each is under a timeout. Nobody has to start a run.
- `ParallelAgents!FairSpec`: the event loop handles every event of its channel, and the
  run of an agent, which its maximum of iterations bounds, ends one way or the other.
  No tool has to be called and no ordinary sub-agent started.

## 4. What is proved

TLAPS checks every proof; the only assumptions are the named `ASSUME`s on constants
and, where stated, the hypothesis of the theorem.

| Theorem | Hypothesis | Argument |
|---|---|---|
| `CoordBoard_proof!TypeCorrect` | | inductive as it stands, one step per action |
| `Exclusion`, `OwnerAgreement` | no cancellers | `ExclusiveInv` |
| `DependenciesFirst` | | `DepsInv` |
| `NoUpdateLost` | no cancellers, one adder | `ExclusiveInv`, `AddedOnce` and `CopiesInv` |
| `ReadyCanBeClaimed` | one adder, no faults | `AddedOnce` and `ClaimsCalled` |
| `LockImplemented` | no cancellers | initial states map to initial states; under `ExclusiveInv` every step is a step of `BoardLock` or a stutter |
| `WorkerPool_proof!TypeCorrect` | | inductive as it stands |
| `Accounting` | no two callers share a task | with `NewIsUnused` |
| `StatusFollowsLoad` | | with `NewIsUnused`, and cardinalities of finite sets |
| `LeaseIndex` | no two callers share a task | with `NewIsUnused`, `LeaseNotNew` |
| `Dispatch_proof!NothingIsAbandoned`, `NoGhosts` | | `Shape`, `Attended`, `Leaving` |
| `NothingLeaks` | | `IInv`, `PlanHolds`, `Accounted` |
| `WatchdogSees` | one dispatch loop; nobody cancels and no watchdog | `IInv`, `Listed` |
| `TaskRecords_proof!RecordTypesCorrect` | | one step per action |
| `CheckpointFirst` | | `IInv` |
| `TypeCorrect`, `CacheMatchesDisk` | | `CacheInv`, on top of `IInv` |
| `Leases_proof!OwnTypeCorrect` (the register) | | inductive as it stands |
| `TokensConsistent`, `StaleTokensRefused` (the register) | `NoneIsNothing` | inductive with the types; the second follows from the first |
| `CallsGrounded` | `Sane` | `IInv`: each step of a call has what it works on |
| `OwnershipImplemented` | `Sane` | refinement: under `IInv` every step of `Leases` is a step of the register or leaves it alone |
| `LeasesKeepTokens` | `Sane` | the refinement, and `TokensConsistent` of the register |
| `ReplacedStaysOut` | `Sane` | with `LifeOK`, the type of the lifecycles |
| `AtMostOneLease` | `Sane`, `Exclusive` | `LInv` |
| `LeaseMapsKept` | `Sane`, `Exclusive` | `LInv`, `GInv`, `Owned` |
| `TaskQueue_proof!DependenciesFirst` | | `Needs` |
| `OverrunBounded` | finite sets of tasks and callers, a caller | `Promised` |
| `IndexFollows`, `FirstComeFirstServed` | | `Listing` |
| `PhaseLoop_proof!KeptLoopsSound` | `ReportsAreFindings` | `KeptLoops` |
| `FixesNameWork`, `ReadyMeansApproved` | `ReportsAreFindings` | `KeptLoops` |
| `DeliveryWasReviewed` | `ReportsAreFindings` | `KeptLoops`, `EngineTyped`, `OnTrack` |
| `ParallelAgents_proof!TypeCorrect` | | `IInv` |
| `DependentsFollow`, `AnswersComplete` | | `IInv` |
| `EverySubtaskPlaced` | | follows from `IInv` |
| `CountsCover` | | `IInv`, `Covers` |
| `ReadyWaitsForRoom` | | `IInv`, `Covers`, `Full` |

Some hypotheses only say that the model's values are what they stand for:
`NoneIsNothing` and `Sane` that `None` is no token, lease or client and that clients are
finitely many; `ReportsAreFindings` that a report holds findings, whose fresh ids are in
`Ids`; *no two callers share a task* that a call of the pool is known by its task. The
named assumptions of the modules are of this kind as well: a worker has room for a task
(`Capacity` of `Dispatch`), `None` is no value beside it, lists of phases hold phases.

The others name an overlap the code does not prevent, and section 5 says what happens
in it:

- *no cancellers*: a cancel that overlaps a claim takes the new owner's claim file away;
- *one adder*: `add_task` looks before it writes, so that two of them reset a task;
- *no faults*: a crash between the claim file and its task leaves a file nobody removes;
- *one dispatch loop*, *nobody cancels*, *no watchdog*: whoever ends a task takes its
  entry out of `active_tasks` while its run goes on;
- `Exclusive`: no two clients lease out the same task, as two overlapping creates of one
  task leave two valid leases.

Each is met by the run that checks the property, and the run's instance satisfies it
with every other race of the component still in it.

Why the strengthenings are needed:

- `ExclusiveInv` adds `CallsOfOwner`: a finish in progress belongs to the agent that
  holds the claim, and between its write and its unlink the task is no longer Claimed.
  Without it nothing says that `FinishUnlink` removes the caller's own claim file. It
  fails when somebody cancels, which is why those theorems exclude cancellers: a
  cancel that overlaps a claim does take the claim file away from the new owner.
- `DepsInv` adds `DepsRead`: a call past some of its dependency reads has only read
  dependencies that have been Completed. `done` is a history variable because a
  completed task can be reopened (section 5).
- `AddedOnce`: with one adder a task file that is there stays there, and every call but
  an add is about one. Only then does a write of the adder never hit a task somebody
  has claimed meanwhile. `CopiesInv`: a Pending task is as it was added, a Claimed one
  has no result yet, a call between its check and its claim has read a task that was
  just added, and an agent's own tasks are not Pending. So nothing of a task is lost
  when its copy is written back. `ClaimsCalled`: a Pending task has a claim file only while the call that
  made it is on its way to write Claimed. `ReadyIsClaimable` speaks of tasks nobody is
  about, and says nothing of the steps until then.
- `NewIsUnused`: no worker that was never added is listed by a caller, so that adding
  it starts from an empty list. `LeaseNotNew` says the same of the lease map.
- `IInv` of `Dispatch`: the list of steps a run has left is one of fourteen
  (`PlanShape`). Each of those says what the run still owes, so a task InProgress has a
  run whose plan still writes its final status (`Attended`), and a task in
  `active_tasks` has a run that will still remove it (`Leaving`). Neither `NothingAbandoned` nor `NoGhostActive` says who that is.
- `PlanHolds` ties each plan to the worker the run has: none before its acquire, a
  leased one until its guard is dropped, then one that is being given back. `Accounted`
  says of the pool's books that every entry has such a run. Together they leave nothing
  in the books once all plans are empty, also after a panic.
- `Listed`: with one loop and nobody who ends tasks, a run's task is in `active_tasks`
  from its entry to its last update. The property has only the status to go by, and the
  entry comes before it and must outlive it.
- `IInv` of `TaskRecords`: an id that was not handed out is nowhere (`FreshIsUnused`);
  a task between its checkpoint and its queue entry has its own file (`CreatedIsOwn`);
  clients only work on ids that were handed out, and a client that deletes has
  recorded it (`CallsAreIssued`).
- `CacheInv`: what a search of the cache answers is what the file says, unless a client
  is about to update the entry (`AnswerAgrees`). It needs that a client that pushes an
  entry has read it from a file (`FoundIsFile`), and that nothing is cached under an id,
  and nobody else works on it, until its first checkpoint is written
  (`UnsavedIsUncached`). The Vec may hold several entries of one id; only the first
  answers, and the lemmas on sequences say how an append, an overwrite and a `retain`
  change which one that is.
- `GInv` of `Leases`: a call works on a task its client serves, and between the two
  sections of its `acquire` the copy is of the current generation. Only a client that
  leases the same task out could make the copy old, hence `Exclusive`.
- `LInv`: a valid lease is in the index, or its call is about to put it there (`Named`);
  and a call past the revocation of the old lease knows that its task has no valid one
  (`Cleared`). `Owned` adds that a valid lease, or one about to be inserted, has its
  worker as owner and its id in the token, and that a release gives the task up only
  when no valid lease is left.
- `Needs`: a completed task others depend on is in the history, so the check of `add`
  stays true until the task is inserted. `Promised` counts the tasks present together
  with the callers that have passed the check, who between them exceed the capacity by
  at most the callers less one.
- `Listing` says of a task no two changes of which have overlapped that it is `Fit`: one
  caller at most is changing it; if none is, it is in the one list it belongs to
  (`Settled`); a call that changed the status and has not read the priority knows the
  only list the task may still be in (`Updated`); and a call about to change the lists
  knows the one to leave and the one to join, which differ (`Reindexed`). `IndexExact`
  speaks of tasks that no call is changing. A step about one task leaves every other one
  as fit as it was (`OneTask`), also when that one's entries are wrong. `OrderKept`
  follows from the same: a task is appended to a list it was not in.
- `KeptLoops`: every loop a handler may be given is `Sound`. It waits for a fix exactly
  while something is pending; an approving review is that of an approved loop; and no
  gate calls a rejected loop ready. Neither property is inductive: whether a re-review
  leaves work depends on the pending set of the loop it was given.
- `OnTrack`: a run with an agent stands at a phase all of whose predecessors, back to
  the task's own phase, succeeded in this run, the review with an approved loop; it has
  executed none of those before. A retry starts a phase again and does not take a
  success back.
- `IInv` of `ParallelAgents`: a subtask of a queued batch is in the queue once until its
  agent starts (`Queueing`), and every agent of the batch is noted at one child, which
  has the key of its subtask and shows what became of it (`Noting`). Keys may repeat, so
  that the child is not always that of the subtask with the same number; that there is a
  free child of the key whenever an agent starts is a pigeonhole argument
  (`SpareChildren`): of the subtasks of a key as many have started as children of the
  key are taken. `AnswersComplete` needs the same bijection from the other side
  (`CompleteMeansHandled`): when every child is Completed, as many agents have been
  handled as there are subtasks. `Covers` adds that finitely many agents are in flight,
  without which their number means nothing; `Full` says of the count what
  `ReadyOnlyAtLimit` says of the agents. The invariant is a predicate of the children,
  queue and agents a handler has reached (`Consistent`), because a handler first
  registers a batch or marks a child and then starts tasks: the lemmas take it through
  each half (`RegisterKeeps`, `DoneKeeps`, `StartsKeep`).

`ReadyOnlyAtLimit` is the safety half of `ReadyIsStarted`, which the run
`batches_stolen` refutes: it holds for as long as no ordinary sub-agent has lowered the
count, so that this is the only way to lose a start.

`Retain` of `TaskRecords`, `TaskQueue` and `ParallelAgents` (`Vec::retain`,
`Vec::remove`) picks the places that are kept and counts them, in place of the recursive
`SelectSeq`: what it keeps, and in which order, then follows from facts about finite
sets (`Ranks`, `Retained`), without an induction over sequences.

Only model-checked: all liveness and everything about fairness, which the prover has no
rules for (`ReadyIsTaken`, `ClaimedIsFinished`, `BusyWorkerReturns`, `QueuedIsRun`,
`RunEnds`, `BatchAnswered`, `CallsReturn`). Every safety invariant and every action property of the
passing runs is stated by a theorem.

## 5. Known, and not stated by a run

While modelling we met more behaviours that no text of the repository contradicts, that
the checked instances exclude on purpose, or that are one step away from what a run
shows.

Board:

- `claim_task` writes back the copy it read before it created the claim file. An agent
  that reads a Pending task, and creates the file after another one has claimed and
  completed the task, rewrites the Completed task as Claimed (`board.rs:183`), although the life cycle at the
  top of the file has no way back. `CopiesAreCurrent` excepts a task that is over, and
  `OwnerHasClaimFile` holds of the reopened one.
- A crash after `create_exclusive` leaves a claim file beside a Pending task, which is
  listed as ready for ever and can never be claimed (`board.rs:173`).
- Two `add_task` calls of one id both pass the existence check; the second write
  resets the task. `CopiesAreCurrent` is checked with one adder, as the coordinator is
  the only caller.
- The loser of a claim may read the claim file before the winner has written its id,
  and report an empty owner.
- A cancel that overlaps a claim removes the new claimer's claim file.

Pool, scheduler, records:

- Two acquires choose the same worker before either lists its task and exceed its
  capacity (`pool.rs:107`).
- A release un-pauses a paused worker, and `resume_worker` can leave an idle worker
  Busy for good. Nothing calls pause or resume yet; `StatusExact` is about workers
  nobody manages.
- Overlapping `dispatch_parallel` calls run one task twice at once.
- `/vex` creates no task: `from_vex` leaves the instruction empty "from classifier"
  (`intake/types.rs:294`), and `validate_intake`, which comes before the classifier,
  refuses an empty one (`intake/layer.rs:143`, `task_factory.rs:158`). The entry that
  `create_vex_task` makes in `active_tasks` is therefore never made, and not modelled.
- New tasks are in Backlog and dispatch looks at Queued ones; a call has to move them on.
- A panic after `acquire_worker` and before the guard exists (`scheduler.rs:141` to 180)
  would leave the worker and the lease taken: the clean-up of the panic path
  (`scheduler.rs:264`) only sets the status and the entry. None of the calls in between
  panics by itself, so `Dispatch` lets only the engine panic.
- The end of a run writes its status over the Failed of a cancel or of the watchdog
  (`scheduler.rs:214`).
- Task ids repeat after a restart on the same day, and the new task's checkpoint
  overwrites that of an interrupted one.
- The final status of a run does not reach its checkpoint, so a finished task stays
  listed as resumable; and a transition in flight can write an older status over a
  newer one, or bring a cancelled task's checkpoint back.

Ownership, leases:

- Two overlapping creates, or acquires, of one task both succeed, leave two valid leases
  and can give two tokens of one generation, or let it fall: each stores the copy it
  decided on (`ownership.rs:294`, `:321`), although generations are "monotonically
  increasing" (`ownership.rs:9`). No property says that they grow. A release that overlaps a
  create takes the newer lease out of the index.
- `replace_worker` revokes the lease the worker's record names, and a heartbeat without
  a lease clears that name, so a replaced worker may keep a valid lease
  (`heartbeat/manager.rs:396`). `revoke_lease` leaves the task owned by the stale worker.
- Renewing a lease does not make it last longer: its expiry is counted from
  `acquired_at`. An Active worker whose first health update comes after the stale
  timeout stays Active: the transition from Active to Stale is not allowed.
- A worker replaced by itself (`replace_worker` with one id twice) is left out.
- `get_lease_by_task` and the statistics take locks in the opposite order of
  `revoke_lease`.

Queue:

- Two overlapping changes of one task each bring the index up to date with what they
  saw, in either order (`task_queue.rs:242`): a task may be listed twice, under a priority
  it no longer has, or be queued without an entry, so that `get_next` never finds it. A
  `clear` in the middle of a change does the same. These tasks are `raced`.
- `clear` and `get_next` can wait for each other's lock for ever (`queries.rs:82`), and
  every later call with them.
- `get_next` can return a task that is no longer queued, or one task twice around a
  `reprioritize`; a task it popped is not listed again when it is set to Queued once
  more; after a removal it returns nothing although others are queued.

Engine, quality loop:

- Only a first review counts an iteration, so `max_retries` bounds no sequence of
  re-reviews (`qa_loop.rs:242`, against its line 7).
- No caller carries the metadata of a handler to the next within one run, so Implement
  and Docs of the run in which the review was made do not see its loop.
- The merge gate does not block on a missing validation, documentation check or review,
  which the table at the top of `merge_gate.rs` lists as blocking.
- Findings below High are resolved by an approval, so the categories to block on never
  block.
- A task created with the phase Implement or Docs is Completed without a review
  (`engine_impl.rs:239`); `DeliveredWasReviewed` speaks of the phases from the task's own
  on.
- The handler of Ideation does not ask whether a guard stopped the agent. `run_phases`
  hands an error on and leaves its copy of the task InProgress.

Parallel agents:

- An agent whose run ends in an error or a panic emits no Done
  (`agent/subagent/spawn.rs:130`): its child stays Running, its slot is taken for good
  and the tool waits for ever. Without a provider the batch is registered and never
  answered.
- A run stopped by a guard emits Done and counts as Completed, although `spawn.rs:133`
  calls it a failure; the statuses Failed and Cancelled are never given to a child.
- Keys are not checked: a dependency is met by one child of a repeated key, and one on an
  unknown or its own key, or in a circle, waits for ever.
- After an ordinary sub-agent has ended more agents than the limit may run: by
  `CountsCover` as many more as ordinary sub-agents have lowered the count.
- A session saves its batches under `orchestration` and restores them from the top level
  of its metadata (`app/sessions.rs:178`, `app/parallel_batches.rs:20`).

## 6. What is not modelled

`PROJECT.json` lists every part with its status and reason. In short: what is planned
(below); decision tables and text processing that one caller evaluates once and unit
tests enumerate (risk, permissions, prompts, parsing); calls of other programs (GitHub,
git, providers, MCP, LSP); rendering (terminal, dashboard); single SQL statements, which
SQLite serialises; the agent's own loop, which is sequential and follows a language
model; and in-memory records with one owner (team, cost, approvals).

Those parts are most of the repository's lines. The modules here stand for the places
where several actors meet.

## 7. Plan

Most important first; what is done is marked.

1. `CoordBoard`, `BoardLock` and their proofs. *Done.*
2. `WorkerPool` and its proofs. *Done.*
3. `Dispatch`, composed with `WorkerPool`, and its proofs. *Done.*
4. `TaskRecords` and its proofs. *Done.*
5. `TaskQueue` and its proofs. *Done.*
6. `Ownership`, `Leases` and the refinement between them. *Done.*
7. `QALoop`, `PhaseLoop` and their proofs. *Done.*
8. `ParallelAgents` and its proofs. *Done.*
9. `CoordInbox`: appends against drains, and readers of the broadcast log with
   offsets. No message is lost or read twice.
10. Startup recovery: the reconciler on the states of `Leases` and `TaskRecords`.
11. `StoreTasks`: valid transitions, `assign_run` and `release_run` on the two tables.
12. `DaemonFile`: two daemons, one state file, stop.
13. If room allows: reactions in `Dispatch`, decomposition, mailboxes.

Theorems worth proving next: what a board with cancels keeps of `Exclusion` (who may
lose a claim), and `LeaseMapsKept` for clients that overlap on one task, weakened to
what the code still keeps.

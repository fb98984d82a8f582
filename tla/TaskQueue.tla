-------------------------------- MODULE TaskQueue --------------------------------
(***************************************************************************)
(* The task queue of src/src/pipeline/queue: the task map, and beside it   *)
(* an index of the queued tasks by priority.  Each has a lock of its own.  *)
(* add, update_status, remove and reprioritize change the map, let go of   *)
(* it and then bring the index up to date; clear and get_next hold one     *)
(* lock while they wait for the other.  Descriptions, metadata and the     *)
(* callbacks are left out; a task is its status and its priority.          *)
(***************************************************************************)
EXTENDS Naturals, FiniteSets, Sequences, SequencesExt

CONSTANTS
  Callers,     \* who adds, updates, removes and reprioritizes
  Takers,      \* who calls get_next
  Clearers,    \* who calls clear
  Tasks,
  Serves,      \* bound: Serves[c], the tasks caller c changes; others may change them too
  DependsOn,   \* DependsOn[t]: metadata.depends_on
  Levels,      \* priorities are 1 .. Levels, the last the most urgent
  MaxCapacity, \* max_capacity
  MaxListed,   \* bound: a call about a task begins with at most so many entries
  None

ASSUME QueueAssumption ==
  /\ DependsOn \in [Tasks -> SUBSET Tasks] /\ Serves \in [Callers -> SUBSET Tasks]
  /\ Levels \in Nat \ {0} /\ MaxCapacity \in Nat /\ MaxListed \in Nat
  /\ None \notin Tasks

VARIABLES
  task,        \* task[t]: the map; None for a task it does not have
  index,       \* index[p]: priority_queue, ids of tasks
  call,        \* call[c]: what caller c is about to do
  mapLock, indexLock,   \* held across a wait by clear and by get_next
  taken,       \* history: queued tasks that get_next took from the index
  done,        \* history: dependencies that were Completed at some time
  raced        \* history: tasks changed, or cleared, amid another change of them

queueVars == <<task, index>>
history   == <<taken, done, raced>>
vars      == <<task, index, call, mapLock, indexLock, history>>

Priorities == 1 .. Levels
\* All the queue tells apart: backlog, in progress, failed and cancelled are "other".
Statuses   == {"queued", "completed", "other"}
TaskType   == [status : Statuses, priority : Priorities]
Processes  == Callers \union Takers \union Clearers
Idle       == [step |-> "idle"]

ASSUME NoneAssumption == None \notin Priorities \union TaskType

\* What is left of a call; reindex ends each of those that change tasks.
CallType   == {Idle, [step |-> "popped"], [step |-> "clearing"]}
  \union [step : {"insert"}, task : Tasks, as : TaskType]
  \union [step : {"updated"}, task : Tasks, was : BOOLEAN, is : BOOLEAN]
  \union [step : {"reindex"}, task : Tasks,
          from : Priorities \union {None}, to : Priorities \union {None}]

TypeOK ==
  /\ task \in [Tasks -> TaskType \union {None}]
  /\ index \in [Priorities -> Seq(Tasks)]
  /\ call \in [Processes -> CallType]
  /\ mapLock \in Clearers \union {None} /\ indexLock \in Takers \union {None}
  /\ taken \subseteq Tasks /\ done \subseteq Tasks /\ raced \subseteq Tasks

Init ==
  /\ task = [t \in Tasks |-> None]
  /\ index = [p \in Priorities |-> <<>>]
  /\ call = [c \in Processes |-> Idle]
  /\ mapLock = None /\ indexLock = None
  /\ taken = {} /\ done = {} /\ raced = {}

Present  == {t \in Tasks : task[t] # None}
Queued   == {t \in Present : task[t].status = "queued"}
Begin(c, next) == call[c] = Idle /\ call' = [call EXCEPT ![c] = next]
At(c, s)       == call[c].step = s
Then(c, next)  == call' = [call EXCEPT ![c] = next]

ToIndex(t, p, q) == [step |-> "reindex", task |-> t, from |-> p, to |-> q]

\* Mutant: the task stays in the list.
Without_M(p, t) == index[p]
\* VecDeque::retain: what s holds at the places K, in its order.
Retain(s, K) ==
  [n \in 1 .. Cardinality(K) |-> s[CHOOSE k \in K : Cardinality({j \in K : j <= k}) = n]]
Without(p, t)  == Retain(index[p], {i \in DOMAIN index[p] : index[p][i] # t})
WriteMap(t, r) == mapLock = None /\ task' = [task EXCEPT ![t] = r]
KeepHistory    == UNCHANGED history
\* The bound on the entries the lists have together.
Room           == FoldFunction(LAMBDA s, n : Len(s) + n, 0, index) <= MaxListed
\* Caller c has changed t, or its place, in the map and not yet in the index.
Changing(c, t) == call[c].step \in {"updated", "reindex"} /\ call[c].task = t
\* A change of the tasks T is on record when it runs into another one.
Note(T)        == raced' = raced \union {t \in T : \E c \in Callers : Changing(c, t)}
NowDone(t, s)  == done \union ({t} \intersect {d \in UNION Range(DependsOn) : s = "completed"})

-------------------------------------------------------------------------------
\* add_task.

\* Mutant: the last place is given away twice.
AddCheck_M(c, t, r) ==
  /\ Room /\ mapLock = None
  /\ Cardinality(Present) <= MaxCapacity
  /\ Begin(c, [step |-> "insert", task |-> t, as |-> r])
  /\ UNCHANGED <<queueVars, mapLock, indexLock>> /\ KeepHistory
\* The capacity is looked at under a read lock that is dropped.
AddCheck(c, t, r) ==
  /\ Room /\ mapLock = None
  /\ Cardinality(Present) < MaxCapacity
  /\ Begin(c, [step |-> "insert", task |-> t, as |-> r])
  /\ UNCHANGED <<queueVars, mapLock, indexLock>> /\ KeepHistory

\* Mutant: a dependency only has to be known.
DependenciesMet_M(t) == DependsOn[t] \subseteq Present

DependenciesMet(t) == \A d \in DependsOn[t] : d \in Present /\ task[d].status = "completed"

\* Under the write lock: no second task of this id, and all dependencies completed.
AddInsert(c) ==
  /\ At(c, "insert") /\ mapLock = None
  /\ LET t == call[c].task  r == call[c].as IN
     IF t \in Present \/ ~DependenciesMet(t)
     THEN Then(c, Idle) /\ UNCHANGED <<task, done, raced>>
     ELSE /\ task' = [task EXCEPT ![t] = r]
          /\ done' = NowDone(t, r.status) /\ Note({t})
          /\ Then(c, IF r.status = "queued" THEN ToIndex(t, None, r.priority) ELSE Idle)
  /\ UNCHANGED <<index, mapLock, indexLock, taken>>

\* Mutant: the task goes to the front of its list.
Reindex_M(c) ==
  /\ At(c, "reindex") /\ indexLock = None
  /\ LET t == call[c].task  from == call[c].from  to == call[c].to IN
     /\ index' = [p \in Priorities |->
          LET kept == IF p = from THEN Without(p, t) ELSE index[p]
          IN IF p = to THEN <<t>> \o kept ELSE kept]
     /\ taken' = IF to = None THEN taken ELSE taken \ {t}
  /\ Then(c, Idle)
  /\ UNCHANGED <<task, mapLock, indexLock, done, raced>>
\* The end of add_task, update_status, remove_task and reprioritize: the task leaves the
\* list of `from` and is appended to that of `to`, as far as there is one.
Reindex(c) ==
  /\ At(c, "reindex") /\ indexLock = None
  /\ LET t == call[c].task  from == call[c].from  to == call[c].to IN
     /\ index' = [p \in Priorities |->
          LET kept == IF p = from THEN Without(p, t) ELSE index[p]
          IN IF p = to THEN Append(kept, t) ELSE kept]
     /\ taken' = IF to = None THEN taken ELSE taken \ {t}
  /\ Then(c, Idle)
  /\ UNCHANGED <<task, mapLock, indexLock, done, raced>>

-------------------------------------------------------------------------------
\* update_status.

\* The new status; an update to the status the task has leaves the index alone.
UpdateStatus(c, t, s) ==
  /\ Room /\ t \in Present
  /\ WriteMap(t, [task[t] EXCEPT !.status = s])
  /\ Begin(c, IF task[t].status = s THEN Idle
              ELSE [step |-> "updated", task |-> t, was |-> t \in Queued, is |-> s = "queued"])
  /\ taken' = IF s = "queued" THEN taken ELSE taken \ {t}
  /\ done' = NowDone(t, s) /\ Note({t})
  /\ UNCHANGED <<index, mapLock, indexLock>>

\* Mutant: waits for a task that is gone to come back.
ReadPriority_M(c) ==
  /\ At(c, "updated") /\ mapLock = None
  /\ LET t == call[c].task
         listIf(b) == IF b THEN task[t].priority ELSE None
     IN /\ t \in Present
        /\ Then(c, ToIndex(t, listIf(call[c].was), listIf(call[c].is)))
  /\ UNCHANGED <<queueVars, mapLock, indexLock>> /\ KeepHistory
\* update_priority_queue reads the priority under a lock of its own.
ReadPriority(c) ==
  /\ At(c, "updated") /\ mapLock = None
  /\ LET t == call[c].task
         listIf(b) == IF b THEN task[t].priority ELSE None
     IN Then(c, IF t \in Present THEN ToIndex(t, listIf(call[c].was), listIf(call[c].is))
                ELSE Idle)
  /\ UNCHANGED <<queueVars, mapLock, indexLock>> /\ KeepHistory

-------------------------------------------------------------------------------
\* remove_task and reprioritize.

RemoveTask(c, t) ==
  /\ Room /\ t \in Present
  /\ WriteMap(t, None)
  /\ Begin(c, IF t \in Queued THEN ToIndex(t, task[t].priority, None) ELSE Idle)
  /\ taken' = taken \ {t} /\ Note({t})
  /\ UNCHANGED <<index, mapLock, indexLock, done>>

Reprioritize(c, t, p) ==
  /\ Room /\ t \in Present /\ task[t].priority # p
  /\ WriteMap(t, [task[t] EXCEPT !.priority = p])
  /\ Begin(c, IF t \in Queued THEN ToIndex(t, task[t].priority, p) ELSE Idle)
  /\ Note({t})
  /\ UNCHANGED <<index, mapLock, indexLock, taken, done>>

-------------------------------------------------------------------------------
\* get_next and clear.

Listed   == {p \in Priorities : index[p] # <<>>}

Foremost(p) == \A q \in Listed : q <= p
\* The first task of the highest priority leaves the index, which stays locked until
\* the task has been read.
Pop(c) ==
  /\ indexLock = None
  /\ \E p \in Listed :
       /\ Foremost(p)
       /\ LET t == Head(index[p]) IN
          /\ index' = [index EXCEPT ![p] = Tail(@)]
          /\ taken' = IF t \in Queued THEN taken \union {t} ELSE taken
  /\ Begin(c, [step |-> "popped"])
  /\ indexLock' = c
  /\ UNCHANGED <<task, mapLock, done, raced>>

Return(c) ==
  /\ At(c, "popped") /\ mapLock = None
  /\ indexLock' = None
  /\ Then(c, Idle)
  /\ UNCHANGED <<queueVars, mapLock>> /\ KeepHistory

ClearMap(c) ==
  /\ mapLock = None
  /\ mapLock' = c
  /\ Begin(c, [step |-> "clearing"])
  /\ UNCHANGED <<queueVars, indexLock>> /\ KeepHistory

ClearBoth(c) ==
  /\ At(c, "clearing") /\ indexLock = None
  /\ task' = [t \in Tasks |-> None]
  /\ index' = [p \in Priorities |-> <<>>]
  /\ mapLock' = None
  /\ Then(c, Idle)
  /\ taken' = {} /\ Note(Tasks)
  /\ UNCHANGED <<indexLock, done>>

-------------------------------------------------------------------------------
Next ==
  \/ \E c \in Callers : \E t \in Serves[c] :
       \/ \E r \in TaskType : AddCheck(c, t, r)
       \/ \E s \in Statuses : UpdateStatus(c, t, s)
       \/ \E p \in Priorities : Reprioritize(c, t, p)
       \/ RemoveTask(c, t)
  \/ \E c \in Callers : AddInsert(c) \/ ReadPriority(c) \/ Reindex(c)
  \/ \E c \in Takers : Pop(c) \/ Return(c)
  \/ \E c \in Clearers : ClearMap(c) \/ ClearBoth(c)

Spec == Init /\ [][Next]_vars

\* Fairness.  The runtime drives every call to its next section, and tokio's locks are
\* first come, first served: a call that finds its lock free again and again gets it.
Continue(c) ==
  \/ c \in Callers  /\ (AddInsert(c) \/ ReadPriority(c) \/ Reindex(c))
  \/ c \in Takers   /\ Return(c)
  \/ c \in Clearers /\ ClearBoth(c)

FairSpec == Spec /\ \A c \in Processes : SF_vars(Continue(c))

-------------------------------------------------------------------------------
(***************************************************************************)
(* Properties.                                                             *)
(***************************************************************************)
Entries(p) == {index[p][i] : i \in DOMAIN index[p]}

\* No call is in the middle of changing t, and no two changes of t have overlapped.
Steady(t) == t \notin raced /\ \A c \in Callers : ~Changing(c, t)

\* The index lists a steady task exactly if it is queued and get_next has not taken it:
\* once, and under the priority it has, whatever calls about other tasks are under way
\* and although status, priority and index change in different sections.  Of two
\* overlapping changes of one task this is false (task_queue.rs:242): they bring the
\* index up to date in either order and leave an entry too many, or a queued task with
\* none, which get_next never finds.  So such tasks, `raced`, are excepted.
IndexExact ==
  \A t \in Tasks, p \in Priorities : Steady(t) =>
    /\ t \in Entries(p) <=> (t \in Queued \ taken /\ task[t].priority = p)
    /\ \A i, j \in DOMAIN index[p] : index[p][i] = t /\ index[p][j] = t => i = j

\* Concurrent adds go beyond the capacity they all checked, by one task for each caller
\* but the first and no more (task_queue.rs:122).
CapacityOverrun == Cardinality(Present) <= MaxCapacity + Cardinality(Callers) - 1

\* A task in the queue had all its dependencies completed (task_queue.rs:135).
DependenciesWereDone == \A t \in Present : DependsOn[t] \subseteq done

\* A clear has the map and waits for the index, a get_next has the index and waits for
\* the map (queries.rs:82, task_queue.rs:212).
Deadlocked ==
  \E z \in Clearers, k \in Takers :
    At(z, "clearing") /\ mapLock = z /\ At(k, "popped") /\ indexLock = k

\* Every call of the queue returns, however calls wait for each other's locks, until a
\* clear and a get_next meet half-way: that one deadlock the code has, and after it the
\* calls that need either lock hang with them.
CallsReturn == \A c \in Processes : call[c] # Idle ~> (call[c] = Idle \/ Deadlocked)

\* get_next takes the most urgent of the steady queued tasks, and among tasks of one
\* priority nobody overtakes: whoever is before a task that was in the list already was
\* before it there.  Tasks whose changes overlapped are excepted, as in IndexExact: one
\* can be listed twice, or under a priority it no longer has.
OrderKept ==
  [][/\ \A t, u \in Tasks :
          Steady(t) /\ Steady(u) /\ t \in taken' \ taken /\ u \in Queued \ taken =>
            task[u].priority <= task[t].priority
     /\ \A p \in Priorities : \A j \in DOMAIN index'[p] :
          index'[p][j] \in Entries(p) \ raced => \A i \in 1 .. j - 1 :
            \E a, b \in DOMAIN index[p] :
              a < b /\ index[p][a] = index'[p][i] /\ index[p][b] = index'[p][j]]_vars
================================================================================

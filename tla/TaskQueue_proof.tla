---------------------------- MODULE TaskQueue_proof ----------------------------
(***************************************************************************)
(* Proofs about the task queue.  TLC checks two callers and three tasks;   *)
(* here callers, tasks, dependencies, priorities and the capacity are      *)
(* arbitrary, and callers change whatever tasks they like.                 *)
(***************************************************************************)
EXTENDS TaskQueue, FiniteSetTheorems, TLAPS

\* The map, the calls and the two locks keep their shape.
Shape ==
  /\ task \in [Tasks -> TaskType \union {None}]
  /\ call \in [Processes -> CallType]
  /\ mapLock \in Clearers \union {None} /\ indexLock \in Takers \union {None}

\* A completed task that others depend on is on record as done.
CompletedIsDone ==
  \A t \in Present : task[t].status = "completed" /\ t \in UNION Range(DependsOn) => t \in done

Needs == Shape /\ CompletedIsDone /\ DependenciesWereDone

\* What a caller that is about to insert holds.
LEMMA InsertCall ==
  ASSUME Shape, NEW c \in Processes, At(c, "insert")
  PROVE  call[c].task \in Tasks /\ call[c].as \in TaskType
  BY DEF Shape, At, CallType, Idle

\* A call that has changed the map stores what the index needs.
LEMMA ToIndexTyped ==
  ASSUME NEW t \in Tasks, NEW p \in Priorities \union {None}, NEW q \in Priorities \union {None}
  PROVE  ToIndex(t, p, q) \in CallType
  BY DEF ToIndex, CallType

\* A caller without a call has the type of one.
LEMMA IdleTyped == Idle \in CallType
  BY DEF CallType

\* One more task in the map, or one changed: both facts about dependencies stay.
LEMMA MapKeeps ==
  ASSUME Needs, NEW t \in Tasks, NEW r \in TaskType,
         task' = [task EXCEPT ![t] = r],
         done' = NowDone(t, r.status),
         t \in Present \/ DependenciesMet(t)
  PROVE  CompletedIsDone' /\ DependenciesWereDone'
<1>1. done \subseteq done' /\ Present' \subseteq Present \union {t} /\ t \in Tasks
  BY DEF NowDone, Present, Needs, Shape
<1>2. DependsOn[t] \subseteq done
  <2>1. CASE t \in Present
    BY <2>1 DEF Needs, DependenciesWereDone
  <2>2. CASE DependenciesMet(t)
    <3>1. DependsOn[t] \subseteq UNION Range(DependsOn)
      BY QueueAssumption DEF Range
    <3> QED
      BY <2>2, <3>1 DEF DependenciesMet, Needs, CompletedIsDone
  <2> QED
    BY <2>1, <2>2
<1>3. DependenciesWereDone'
  BY <1>1, <1>2 DEF Needs, DependenciesWereDone
<1>4. ASSUME NEW u \in Present', task'[u].status = "completed", u \in UNION Range(DependsOn)
      PROVE  u \in done'
  <2>1. CASE u = t
    <3>1. task'[t] = r
      BY DEF Needs, Shape
    <3> QED
      BY <1>4, <2>1, <3>1 DEF NowDone
  <2>2. CASE u # t
    BY <1>1, <1>4, <2>2 DEF Needs, Shape, CompletedIsDone, Present
  <2> QED
    BY <2>1, <2>2
<1> QED
  BY <1>3, <1>4 DEF CompletedIsDone

\* A step that leaves the map and the record alone only has to keep the shape.
LEMMA CallKeeps ==
  ASSUME Needs, UNCHANGED <<task, done>>, call' \in [Processes -> CallType],
         mapLock' \in Clearers \union {None}, indexLock' \in Takers \union {None}
  PROVE  Needs'
<1>1. Shape'
  BY DEF Needs, Shape
<1>2. CompletedIsDone' /\ DependenciesWereDone'
  BY DEF Needs, CompletedIsDone, DependenciesWereDone, Present
<1> QED
  BY <1>1, <1>2 DEF Needs

\* A process goes on to something that is a call.
LEMMA Goes ==
  ASSUME Shape, NEW c \in Processes, NEW next \in CallType, Then(c, next)
  PROVE  call' \in [Processes -> CallType]
  BY DEF Shape, Then

\* Every step keeps what was needed.
LEMMA NeedsInductive == Needs /\ [Next]_vars => Needs'
<1> SUFFICES ASSUME Needs, [Next]_vars PROVE Needs'
  OBVIOUS
<1> USE DEF Needs
<1>0. Callers \subseteq Processes /\ Takers \subseteq Processes /\ Clearers \subseteq Processes
  BY DEF Processes
<1>1. ASSUME NEW c \in Callers, NEW t \in Tasks, NEW r \in TaskType, AddCheck(c, t, r) PROVE Needs'
  <2>1. [step |-> "insert", task |-> t, as |-> r] \in CallType
    BY DEF CallType
  <2>2. Then(c, [step |-> "insert", task |-> t, as |-> r]) /\ UNCHANGED <<task, done, mapLock, indexLock>>
    BY <1>1 DEF AddCheck, Begin, Then, queueVars, history, KeepHistory
  <2> QED
    BY <1>0, <2>1, <2>2, Goes, CallKeeps DEF Shape
<1>2. ASSUME NEW c \in Callers, NEW t \in Tasks, NEW s \in Statuses, UpdateStatus(c, t, s)
      PROVE  Needs'
  <2> DEFINE r == [task[t] EXCEPT !.status = s]
  <2>1. t \in Present /\ task[t] \in TaskType
    BY <1>2 DEF UpdateStatus, Present, Shape
  <2>2. r \in TaskType /\ r.status = s
    BY <2>1 DEF TaskType
  <2>3. task' = [task EXCEPT ![t] = r] /\ done' = NowDone(t, r.status)
    BY <1>2, <2>2 DEF UpdateStatus, WriteMap
  <2>4. [step |-> "updated", task |-> t, was |-> t \in Queued, is |-> s = "queued"] \in CallType
    <3>1. (t \in Queued) \in BOOLEAN /\ (s = "queued") \in BOOLEAN
      OBVIOUS
    <3> QED
      BY <3>1 DEF CallType
  <2>5. Shape'
    <3>1. PICK next \in CallType : Then(c, next)
      BY <1>2, <2>4, IdleTyped DEF UpdateStatus, Begin, Then
    <3>2. UNCHANGED <<mapLock, indexLock>>
      BY <1>2 DEF UpdateStatus
    <3> QED
      BY <1>0, <2>2, <2>3, <3>1, <3>2, Goes DEF Shape
  <2> HIDE DEF r
  <2> QED
    BY <2>1, <2>2, <2>3, <2>5, MapKeeps
<1>3. ASSUME NEW c \in Callers, NEW t \in Tasks, NEW p \in Priorities, Reprioritize(c, t, p)
      PROVE  Needs'
  <2> DEFINE r == [task[t] EXCEPT !.priority = p]
  <2>1. t \in Present /\ task[t] \in TaskType
    BY <1>3 DEF Reprioritize, Present, Shape
  <2>2. r \in TaskType /\ r.status = task[t].status /\ task[t].priority \in Priorities
    BY <2>1 DEF TaskType
  <2>3. task' = [task EXCEPT ![t] = r] /\ UNCHANGED done
    BY <1>3 DEF Reprioritize, WriteMap, history, KeepHistory
  <2>4. Shape'
    <3>1. PICK next \in CallType : Then(c, next)
      BY <1>3, <2>1, <2>2, IdleTyped, ToIndexTyped DEF Reprioritize, Begin, Then, Present
    <3>2. UNCHANGED <<mapLock, indexLock>>
      BY <1>3 DEF Reprioritize
    <3> QED
      BY <1>0, <2>2, <2>3, <3>1, <3>2, Goes DEF Shape
  <2> HIDE DEF r
  <2> QED
    BY <2>1, <2>2, <2>3, <2>4 DEF Shape, CompletedIsDone, DependenciesWereDone, Present
<1>4. ASSUME NEW c \in Callers, NEW t \in Tasks, RemoveTask(c, t) PROVE Needs'
  <2>1. t \in Present /\ task[t] \in TaskType /\ task[t].priority \in Priorities
    BY <1>4 DEF RemoveTask, Present, Shape, TaskType
  <2>2. task' = [task EXCEPT ![t] = None] /\ UNCHANGED done
    BY <1>4 DEF RemoveTask, WriteMap
  <2>3. Shape'
    <3>1. PICK next \in CallType : Then(c, next)
      BY <1>4, <2>1, IdleTyped, ToIndexTyped DEF RemoveTask, Begin, Then
    <3>2. UNCHANGED <<mapLock, indexLock>>
      BY <1>4 DEF RemoveTask
    <3> QED
      BY <1>0, <2>2, <3>1, <3>2, Goes DEF Shape
  <2> QED
    BY <2>1, <2>2, <2>3 DEF Shape, CompletedIsDone, DependenciesWereDone, Present
<1>5. ASSUME NEW c \in Callers, AddInsert(c) PROVE Needs'
  <2> DEFINE t == call[c].task
             r == call[c].as
  <2>1. t \in Tasks /\ r \in TaskType /\ r.priority \in Priorities
    BY <1>0, <1>5, InsertCall DEF AddInsert, TaskType
  <2>2. CASE UNCHANGED <<task, done>> /\ Then(c, Idle)
    BY <1>0, <1>5, <2>2, IdleTyped, Goes, CallKeeps DEF AddInsert, Shape
  <2>3. CASE /\ DependenciesMet(t)
             /\ task' = [task EXCEPT ![t] = r] /\ done' = NowDone(t, r.status)
             /\ Then(c, IF r.status = "queued" THEN ToIndex(t, None, r.priority) ELSE Idle)
    <3>1. Shape'
      <4>1. PICK next \in CallType : Then(c, next)
        BY <2>1, <2>3, IdleTyped, ToIndexTyped
      <4>2. UNCHANGED <<mapLock, indexLock>>
        BY <1>5 DEF AddInsert
      <4> QED
        BY <1>0, <2>1, <2>3, <4>1, <4>2, Goes DEF Shape
    <3> HIDE DEF t, r
    <3> QED
      BY <2>1, <2>3, <3>1, MapKeeps
  <2> QED
    BY <1>5, <2>2, <2>3 DEF AddInsert
<1>6. ASSUME NEW c \in Callers, ReadPriority(c) PROVE Needs'
  <2> DEFINE t == call[c].task
             listIf(b) == IF b THEN task[t].priority ELSE None
  <2>1. t \in Present => task[t] \in TaskType
    BY DEF Present, Shape
  <2>2. t \in Present => /\ t \in Tasks
                        /\ listIf(call[c].was) \in Priorities \union {None}
                        /\ listIf(call[c].is) \in Priorities \union {None}
    BY <2>1 DEF Present, TaskType
  <2>3. \/ Then(c, Idle)
        \/ t \in Present /\ Then(c, ToIndex(t, listIf(call[c].was), listIf(call[c].is)))
    BY <1>6 DEF ReadPriority
  <2> HIDE DEF t, listIf
  <2>4. \E next \in CallType : Then(c, next)
    BY <2>2, <2>3, IdleTyped, ToIndexTyped
  <2> QED
    BY <1>0, <1>6, <2>4, Goes, CallKeeps DEF ReadPriority, queueVars, history, KeepHistory, Shape
<1>7. ASSUME NEW c \in Callers, Reindex(c) PROVE Needs'
  BY <1>0, <1>7, IdleTyped, Goes, CallKeeps DEF Reindex, Shape
<1>8. ASSUME NEW c \in Takers, Pop(c) \/ Return(c) PROVE Needs'
  <2>1. PICK next \in CallType : Then(c, next)
    BY <1>8, IdleTyped DEF Pop, Return, Begin, Then, CallType
  <2>2. /\ UNCHANGED <<task, done, mapLock>>
        /\ indexLock' \in Takers \union {None}
    BY <1>8 DEF Pop, Return, queueVars, history, KeepHistory
  <2> QED
    BY <1>0, <2>1, <2>2, Goes, CallKeeps DEF Shape
<1>9. ASSUME NEW c \in Clearers, ClearMap(c) PROVE Needs'
  <2>1. Then(c, [step |-> "clearing"]) /\ [step |-> "clearing"] \in CallType
    BY <1>9 DEF ClearMap, Begin, Then, CallType
  <2>2. UNCHANGED <<task, done, indexLock>> /\ mapLock' = c
    BY <1>9 DEF ClearMap, queueVars, history, KeepHistory
  <2> QED
    BY <1>0, <2>1, <2>2, Goes, CallKeeps DEF Shape
<1>12. ASSUME NEW c \in Clearers, ClearBoth(c) PROVE Needs'
  <2>1. Then(c, Idle) /\ task' = [t \in Tasks |-> None] /\ mapLock' = None
        /\ UNCHANGED <<indexLock, done>>
    BY <1>12 DEF ClearBoth
  <2>2. Shape'
    BY <1>0, <2>1, IdleTyped, Goes DEF Shape
  <2>3. Present' = {}
    BY <2>1 DEF Present
  <2> QED
    BY <2>2, <2>3 DEF CompletedIsDone, DependenciesWereDone
<1>10. CASE UNCHANGED vars
  BY <1>10 DEF vars, queueVars, history, Shape, CompletedIsDone, DependenciesWereDone, Present
<1>11. \A c \in Callers : Serves[c] \subseteq Tasks
  BY QueueAssumption
<1> QED
  BY <1>1, <1>2, <1>3, <1>4, <1>5, <1>6, <1>7, <1>8, <1>9, <1>10, <1>11, <1>12 DEF Next

\* What was needed holds in every reachable state.
LEMMA NeedsHold == Spec => []Needs
<1>1. Init => Needs
  BY IdleTyped DEF Init, Needs, Shape, CompletedIsDone, DependenciesWereDone, Present
<1> QED
  BY <1>1, NeedsInductive, PTL DEF Spec

\* Every task in the queue had all its dependencies completed, whatever overlaps the
\* check and the insertion.
THEOREM DependenciesFirst == Spec => []DependenciesWereDone
<1>1. Needs => DependenciesWereDone
  BY DEF Needs
<1> QED
  BY <1>1, NeedsHold, PTL

---------------------------------------------------------------------------
\* Calls that were told there is room and have not inserted yet.
Inserting == {c \in Callers : At(c, "insert")}

\* Tasks and promises: those that were checked together share what was left.
Promised == Cardinality(Present) + Cardinality(Inserting) <= MaxCapacity + Cardinality(Callers) - 1

Finite == IsFiniteSet(Tasks) /\ IsFiniteSet(Callers) /\ Callers # {}

\* The sets that are counted are finite.
LEMMA Counts ==
  ASSUME Finite
  PROVE  /\ IsFiniteSet(Present) /\ IsFiniteSet(Inserting)
         /\ Cardinality(Present) \in Nat /\ Cardinality(Inserting) \in Nat
         /\ Cardinality(Callers) \in Nat \ {0} /\ Cardinality(Inserting) <= Cardinality(Callers)
<1>1. Present \subseteq Tasks /\ Inserting \subseteq Callers
  BY DEF Present, Inserting
<1>2. IsFiniteSet(Present) /\ IsFiniteSet(Inserting) /\ Cardinality(Inserting) <= Cardinality(Callers)
  BY <1>1, FS_Subset DEF Finite
<1> QED
  BY <1>2, FS_CardinalityType, FS_EmptySet DEF Finite

\* Without a new task and without a new promise the bound stays.
LEMMA NoMore ==
  ASSUME Finite, Promised, Present' \subseteq Present, Inserting' \subseteq Inserting
  PROVE  Promised'
<1>1. /\ Cardinality(Present') <= Cardinality(Present) /\ Cardinality(Present') \in Nat
      /\ Cardinality(Inserting') <= Cardinality(Inserting) /\ Cardinality(Inserting') \in Nat
  BY Counts, FS_Subset, FS_CardinalityType
<1>2. MaxCapacity \in Nat
  BY QueueAssumption
<1> QED
  BY <1>1, <1>2, Counts DEF Promised

\* A process that goes on to anything but an insertion makes no promise.
LEMMA NotInserting ==
  ASSUME Shape, NEW c \in Processes, NEW next, next.step # "insert", Then(c, next)
  PROVE  Inserting' \subseteq Inserting
  BY DEF Inserting, At, Then, Shape, Processes

\* Every step but the two of add_task.
LEMMA OthersPromiseNothing ==
  ASSUME Shape, [Next]_vars,
         ~\E c \in Callers : \/ AddInsert(c)
                           \/ \E t \in Serves[c], r \in TaskType : AddCheck(c, t, r)
  PROVE  Present' \subseteq Present /\ Inserting' \subseteq Inserting
<1>0. /\ Callers \subseteq Processes /\ Takers \subseteq Processes /\ Clearers \subseteq Processes
      /\ Idle.step # "insert" /\ \A t, p, q : ToIndex(t, p, q).step # "insert"
  BY DEF Processes, Idle, ToIndex
<1>1. ASSUME NEW c \in Callers, NEW t \in Tasks,
             \/ \E s \in Statuses : UpdateStatus(c, t, s)
             \/ \E p \in Priorities : Reprioritize(c, t, p)
             \/ RemoveTask(c, t)
      PROVE  Present' \subseteq Present /\ Inserting' \subseteq Inserting
  <2>1. PICK next : next.step # "insert" /\ Then(c, next)
    BY <1>0, <1>1 DEF UpdateStatus, Reprioritize, RemoveTask, Begin, Then
  <2>2. t \in Present /\ \E r : task' = [task EXCEPT ![t] = r]
    BY <1>1 DEF UpdateStatus, Reprioritize, RemoveTask, WriteMap
  <2>3. Present' \subseteq Present
    BY <2>2 DEF Present, Shape
  <2> QED
    BY <1>0, <2>1, <2>3, NotInserting
<1>2. ASSUME NEW c \in Callers, ReadPriority(c) \/ Reindex(c)
      PROVE  Present' \subseteq Present /\ Inserting' \subseteq Inserting
  <2>1. PICK next : next.step # "insert" /\ Then(c, next)
    BY <1>0, <1>2 DEF ReadPriority, Reindex
  <2>2. UNCHANGED task
    BY <1>2 DEF ReadPriority, Reindex, queueVars
  <2> QED
    BY <1>0, <2>1, <2>2, NotInserting DEF Present
<1>3. ASSUME NEW c \in Takers, Pop(c) \/ Return(c)
      PROVE  Present' \subseteq Present /\ Inserting' \subseteq Inserting
  <2>1. PICK next : next.step # "insert" /\ Then(c, next)
    BY <1>0, <1>3 DEF Pop, Return, Begin, Then
  <2>2. UNCHANGED task
    BY <1>3 DEF Pop, Return, queueVars
  <2> QED
    BY <1>0, <2>1, <2>2, NotInserting DEF Present
<1>4. ASSUME NEW c \in Clearers, ClearMap(c) \/ ClearBoth(c)
      PROVE  Present' \subseteq Present /\ Inserting' \subseteq Inserting
  <2>1. PICK next : next.step # "insert" /\ Then(c, next)
    BY <1>0, <1>4 DEF ClearMap, ClearBoth, Begin, Then
  <2>2. UNCHANGED task \/ Present' = {}
    BY <1>4 DEF ClearMap, ClearBoth, queueVars, Present
  <2> QED
    BY <1>0, <2>1, <2>2, NotInserting DEF Present
<1>5. CASE UNCHANGED vars
  BY <1>5 DEF vars, queueVars, Present, Inserting, At
<1>6. \A c \in Callers : Serves[c] \subseteq Tasks
  BY QueueAssumption
<1> QED
  BY <1>1, <1>2, <1>3, <1>4, <1>5, <1>6 DEF Next

\* Every step keeps the promised room.
LEMMA PromisedInductive ==
  ASSUME Finite PROVE Shape /\ Promised /\ [Next]_vars => Promised'
<1> SUFFICES ASSUME Shape, Promised, [Next]_vars PROVE Promised'
  OBVIOUS
<1>0. MaxCapacity \in Nat
  BY QueueAssumption
<1>1. ASSUME NEW c \in Callers, NEW t \in Tasks, NEW r \in TaskType, AddCheck(c, t, r)
      PROVE  Promised'
  <2>1. Cardinality(Present) < MaxCapacity /\ Present' = Present
    BY <1>1 DEF AddCheck, queueVars, Present
  <2>2. /\ Cardinality(Inserting') <= Cardinality(Callers)
        /\ Cardinality(Inserting') \in Nat
    <3>1. Inserting' \subseteq Callers
      BY DEF Inserting
    <3> QED
      BY <3>1, FS_Subset, FS_CardinalityType DEF Finite
  <2> QED
    BY <1>0, <2>1, <2>2, Counts DEF Promised
<1>2. ASSUME NEW c \in Callers, AddInsert(c) PROVE Promised'
  <2> DEFINE t == call[c].task
  <2>1. c \in Inserting /\ c \in Processes
    BY <1>2 DEF AddInsert, Inserting, Processes
  <2>2. PICK next : next.step # "insert" /\ Then(c, next)
    BY <1>2 DEF AddInsert, Idle, ToIndex
  <2>3. Inserting' \subseteq Inserting \ {c}
    BY <2>1, <2>2 DEF Inserting, At, Then, Shape
  <2>4. Present' \subseteq Present \union {t}
    BY <1>2 DEF AddInsert, Present, Shape
  <2>5. Cardinality(Inserting') <= Cardinality(Inserting) - 1 /\ Cardinality(Inserting') \in Nat
    <3>1. IsFiniteSet(Inserting \ {c}) /\ Cardinality(Inserting \ {c}) = Cardinality(Inserting) - 1
      BY <2>1, Counts, FS_RemoveElement
    <3> QED
      BY <2>3, <3>1, FS_Subset, FS_CardinalityType
  <2>6. Cardinality(Present') <= Cardinality(Present) + 1 /\ Cardinality(Present') \in Nat
    <3>1. /\ IsFiniteSet(Present \union {t})
          /\ Cardinality(Present \union {t}) <= Cardinality(Present) + 1
          /\ Cardinality(Present \union {t}) \in Nat
      <4>1. IsFiniteSet(Present) /\ Cardinality(Present) \in Nat
        BY Counts
      <4> HIDE DEF t
      <4>2. /\ IsFiniteSet(Present \union {t})
            /\ Cardinality(Present \union {t}) =
                 IF t \in Present THEN Cardinality(Present) ELSE Cardinality(Present) + 1
        BY <4>1, FS_AddElement
      <4>3. Cardinality(Present \union {t}) \in Nat
        BY <4>2, FS_CardinalityType
      <4> QED
        BY <4>1, <4>2, <4>3
    <3>2. Cardinality(Present') <= Cardinality(Present \union {t}) /\ Cardinality(Present') \in Nat
      BY <2>4, <3>1, FS_Subset, FS_CardinalityType
    <3> QED
      BY <3>1, <3>2, Counts
  <2> QED
    BY <1>0, <2>5, <2>6, Counts DEF Promised
<1>3. CASE ~\E c \in Callers : \/ AddInsert(c)
                              \/ \E t \in Serves[c], r \in TaskType : AddCheck(c, t, r)
  BY <1>3, OthersPromiseNothing, NoMore
<1>4. \A c \in Callers : Serves[c] \subseteq Tasks
  BY QueueAssumption
<1> QED
  BY <1>1, <1>2, <1>3, <1>4

\* Calls of add_task that overlap go beyond the capacity by at most one task for each
\* caller but the first, however checks, insertions and removals interleave.
THEOREM OverrunBounded ==
  ASSUME Finite PROVE Spec => []CapacityOverrun
<1>1. Init => Promised
  <2>1. SUFFICES ASSUME Init PROVE Promised
    OBVIOUS
  <2>2. Present = {} /\ Inserting = {}
    BY <2>1 DEF Init, Present, Inserting, At, Idle, Processes
  <2> QED
    BY <2>2, Counts, FS_EmptySet, QueueAssumption DEF Promised
<1>2. Promised => CapacityOverrun
  <2>1. SUFFICES ASSUME Promised PROVE CapacityOverrun
    OBVIOUS
  <2> QED
    BY <2>1, Counts, QueueAssumption DEF Promised, CapacityOverrun
<1>3. Needs => Shape
  BY DEF Needs
<1> QED
  BY <1>1, <1>2, <1>3, PromisedInductive, NeedsHold, PTL DEF Spec

\* How many places of K come no later than k.
Rank(K, k) == Cardinality({j \in K : j <= k})

\* The places of a finite set are counted from 1 without a gap, in their order.
LEMMA Ranks ==
  ASSUME NEW n \in Nat, NEW K \in SUBSET (1 .. n)
  PROVE  /\ Cardinality(K) \in Nat
         /\ \A k \in K : Rank(K, k) \in 1 .. Cardinality(K)
         /\ \A j, k \in K : j < k => Rank(K, j) < Rank(K, k)
         /\ \A m \in 1 .. Cardinality(K) : \E k \in K : Rank(K, k) = m
<1>1. IsFiniteSet(1 .. n)
  BY FS_Interval
<1>2. IsFiniteSet(K) /\ Cardinality(K) \in Nat
  BY <1>1, FS_Subset, FS_CardinalityType
<1> DEFINE upTo(k) == {j \in K : j <= k}
<1>0. \A k \in K : k \in Int
  OBVIOUS
<1>3. ASSUME NEW k \in K PROVE IsFiniteSet(upTo(k)) /\ Rank(K, k) \in 1 .. Cardinality(K)
  <2>1. upTo(k) \subseteq K /\ k \in upTo(k)
    BY <1>0
  <2>2. /\ IsFiniteSet(upTo(k)) /\ Cardinality(upTo(k)) \in Nat
        /\ Cardinality(upTo(k)) <= Cardinality(K)
    BY <1>2, <2>1, FS_Subset, FS_CardinalityType
  <2>3. Cardinality(upTo(k)) # 0
    BY <2>1, <2>2, FS_EmptySet
  <2> QED
    BY <1>2, <2>2, <2>3 DEF Rank
<1>4. ASSUME NEW j \in K, NEW k \in K, j < k PROVE Rank(K, j) < Rank(K, k)
  <2>1. upTo(j) \subseteq upTo(k) /\ k \in upTo(k) /\ k \notin upTo(j)
    <3>1. j \in Int /\ k \in Int
      BY <1>0
    <3>2. ASSUME NEW i \in K, i <= j PROVE i <= k
      <4>1. i \in Int
        BY <1>0
      <4> QED
        BY <1>4, <3>1, <3>2, <4>1
    <3>3. k <= k /\ ~ (k <= j)
      BY <1>4, <3>1
    <3> QED
      BY <3>2, <3>3, Zenon
  <2>2. Cardinality(upTo(j)) <= Cardinality(upTo(k)) /\ Cardinality(upTo(j)) # Cardinality(upTo(k))
    BY <1>3, <2>1, FS_Subset
  <2>3. Cardinality(upTo(j)) \in Nat /\ Cardinality(upTo(k)) \in Nat
    BY <1>3, FS_CardinalityType
  <2> QED
    BY <2>2, <2>3 DEF Rank
<1>a. \A k \in K : Rank(K, k) \in Int
  <2> HIDE DEF upTo
  <2> QED
    BY <1>2, <1>3
<1>5. ASSUME NEW m \in 1 .. Cardinality(K) PROVE \E k \in K : Rank(K, k) = m
  <2> DEFINE rank == [k \in K |-> Rank(K, k)]
             places == 1 .. Cardinality(K)
  <2>1. rank \in [K -> places]
    BY <1>3
  <2>2. ASSUME NEW j \in K, NEW k \in K, rank[j] = rank[k] PROVE j = k
    <3>1. Rank(K, j) = Rank(K, k) /\ Rank(K, j) \in Int
      BY <1>a, <2>2
    <3>2. ~ (j < k) /\ ~ (k < j)
      BY <1>4, <3>1
    <3> QED
      BY <1>0, <3>2
  <2>3. rank \in Injection(K, places)
    BY <2>1, <2>2 DEF Injection, IsInjective
  <2>4. IsFiniteSet(places) /\ Cardinality(places) = Cardinality(K)
    BY <1>2, FS_Interval
  <2>5. rank \in Surjection(K, places)
    BY <2>3, <2>4, FS_Injection
  <2> QED
    BY <2>5 DEF Surjection
<1> QED
  BY <1>2, <1>3, <1>4, <1>5

\* t holds what s holds at the places K: at says where each entry was.
KeptFrom(t, s, K, at) ==
    /\ at \in [1 .. Len(t) -> K]
    /\ \A m \in 1 .. Len(t) : t[m] = s[at[m]]
    /\ \A m, o \in 1 .. Len(t) : m < o => at[m] < at[o]
    /\ \A k \in K : \E m \in 1 .. Len(t) : at[m] = k

\* What retain leaves: every kept place once, in the order it had.
LEMMA Retained ==
  ASSUME NEW S, NEW s \in Seq(S), NEW K \in SUBSET (1 .. Len(s)), NEW t, t = Retain(s, K)
  PROVE  /\ t \in Seq(S)
         /\ \E at : KeptFrom(t, s, K, at)
<1> DEFINE c == Cardinality(K)
           at == [m \in 1 .. c |-> CHOOSE k \in K : Rank(K, k) = m]
<1>1. /\ c \in Nat
      /\ \A k \in K : k \in Int /\ Rank(K, k) \in 1 .. c
      /\ \A j, k \in K : j < k => Rank(K, j) < Rank(K, k)
      /\ \A m \in 1 .. c : \E k \in K : Rank(K, k) = m
  <2>1. Len(s) \in Nat /\ \A k \in K : k \in Int
    OBVIOUS
  <2> QED
    BY <2>1, Ranks
<1>2. \A m \in 1 .. c : at[m] \in K /\ Rank(K, at[m]) = m
  BY <1>1
<1>3. at \in [1 .. c -> K]
  BY <1>2
<1>4. t = [m \in 1 .. c |-> s[at[m]]]
  BY DEF Retain, Rank
<1> HIDE DEF at, c
<1>5. ASSUME NEW m \in 1 .. c PROVE s[at[m]] \in S
  <2>1. at[m] \in 1 .. Len(s)
    BY <1>2
  <2> QED
    BY <2>1
<1>6. t \in Seq(S) /\ Len(t) = c
  BY <1>1, <1>4, <1>5
<1>7. ASSUME NEW m \in 1 .. c, NEW o \in 1 .. c, m < o PROVE at[m] < at[o]
  <2>1. at[m] \in Int /\ at[o] \in Int /\ Rank(K, at[m]) = m /\ Rank(K, at[o]) = o
    BY <1>1, <1>2
  <2>2. at[m] # at[o] /\ ~ (at[o] < at[m])
    BY <1>1, <1>2, <1>7, <2>1
  <2> QED
    BY <2>1, <2>2
<1>8. ASSUME NEW k \in K PROVE at[Rank(K, k)] = k
  <2> DEFINE j == at[Rank(K, k)]
  <2>1. /\ Rank(K, k) \in 1 .. c /\ k \in Int
        /\ j \in K /\ j \in Int /\ Rank(K, j) = Rank(K, k)
    BY <1>1, <1>2
  <2>2. ~ (j < k) /\ ~ (k < j)
    <3> HIDE DEF j
    <3> QED
      BY <1>1, <2>1
  <2> QED
    BY <2>1, <2>2
<1>9. KeptFrom(t, s, K, at)
  BY <1>1, <1>3, <1>4, <1>6, <1>7, <1>8 DEF KeptFrom
<1> QED
  BY <1>6, <1>9

\* The task u is at most once in the list s.
Single(s, u) == \A i, j \in DOMAIN s : s[i] = u /\ s[j] = u => i = j

\* What the list of p is without the task t: no other task leaves it, and none
\* overtakes another.
LEMMA WithoutIs ==
  ASSUME NEW p \in Priorities, index[p] \in Seq(Tasks), NEW t, NEW w, w = Without(p, t)
  PROVE  /\ w \in Seq(Tasks)
         /\ {w[i] : i \in DOMAIN w} = Entries(p) \ {t}
         /\ \A u : Single(index[p], u) => Single(w, u)
         /\ \A i, j \in DOMAIN w : i < j =>
              \E a, b \in DOMAIN index[p] : a < b /\ index[p][a] = w[i] /\ index[p][b] = w[j]
<1> DEFINE s == index[p]
           K == {i \in DOMAIN s : s[i] # t}
<1>1. s \in Seq(Tasks) /\ K \in SUBSET (1 .. Len(s)) /\ w = Retain(s, K)
  BY DEF Without
<1>2. \A k \in K : k \in DOMAIN s /\ k \in Int /\ s[k] # t
  OBVIOUS
<1>3. \A k \in DOMAIN s : s[k] # t => k \in K
  OBVIOUS
<1>4. Entries(p) = {s[i] : i \in DOMAIN s}
  BY DEF Entries
<1> HIDE DEF K, s
<1>5. w \in Seq(Tasks) /\ DOMAIN w = 1 .. Len(w) /\ Len(w) \in Nat
  BY <1>1, Retained
<1>6. PICK at : KeptFrom(w, s, K, at)
  BY <1>1, Retained
<1>7. /\ \A m \in 1 .. Len(w) : at[m] \in K /\ w[m] = s[at[m]]
      /\ \A m, o \in 1 .. Len(w) : m < o => at[m] < at[o]
      /\ \A k \in K : \E m \in 1 .. Len(w) : at[m] = k
  BY <1>6 DEF KeptFrom
<1>8. {w[i] : i \in DOMAIN w} = Entries(p) \ {t}
  <2>1. ASSUME NEW m \in 1 .. Len(w) PROVE w[m] \in Entries(p) \ {t}
    BY <1>2, <1>4, <1>7
  <2>2. ASSUME NEW k \in DOMAIN s, s[k] # t PROVE s[k] \in {w[i] : i \in DOMAIN w}
    <3>1. PICK m \in 1 .. Len(w) : at[m] = k
      BY <1>3, <1>7, <2>2
    <3> QED
      BY <1>5, <1>7, <3>1
  <2> QED
    BY <1>4, <1>5, <2>1, <2>2
<1>9. ASSUME NEW u, Single(s, u), NEW m \in 1 .. Len(w), NEW o \in 1 .. Len(w), w[m] = u, w[o] = u
      PROVE  m = o
  <2>1. at[m] \in DOMAIN s /\ at[o] \in DOMAIN s /\ s[at[m]] = u /\ s[at[o]] = u
    BY <1>2, <1>7, <1>9
  <2>2. at[m] = at[o] /\ at[m] \in Int
    BY <1>2, <1>7, <1>9, <2>1 DEF Single
  <2>3. ~ (m < o) /\ ~ (o < m)
    BY <1>7, <2>2
  <2> QED
    BY <2>3
<1>10. ASSUME NEW i \in 1 .. Len(w), NEW j \in 1 .. Len(w), i < j
       PROVE  \E a, b \in DOMAIN s : a < b /\ s[a] = w[i] /\ s[b] = w[j]
  <2>1. at[i] \in DOMAIN s /\ at[j] \in DOMAIN s /\ at[i] < at[j]
    BY <1>2, <1>7, <1>10
  <2> QED
    BY <1>7, <2>1
<1>11. ASSUME NEW u, Single(s, u) PROVE Single(w, u)
  <2> SUFFICES ASSUME NEW i \in DOMAIN w, NEW j \in DOMAIN w, w[i] = u, w[j] = u PROVE i = j
    BY DEF Single
  <2>1. i \in 1 .. Len(w) /\ j \in 1 .. Len(w)
    BY <1>5
  <2> QED
    BY <1>9, <1>11, <2>1
<1>12. \A i, j \in DOMAIN w : i < j =>
         \E a, b \in DOMAIN s : a < b /\ s[a] = w[i] /\ s[b] = w[j]
  BY <1>5, <1>10
<1> QED
  BY <1>5, <1>8, <1>11, <1>12 DEF s

---------------------------------------------------------------------------
\* The index has lists of tasks.
Typed == Shape /\ index \in [Priorities -> Seq(Tasks)]

\* No list has the task twice.
Unique(t) == \A p \in Priorities : Single(index[p], t)

\* A task nobody changes is in the list it belongs to.
Settled(t) ==
  \A p \in Priorities : t \in Entries(p) <=> (t \in Queued \ taken /\ task[t].priority = p)

\* The map has the new status, the index still the old one.
Updated(c) ==
  /\ call[c].task \in Present /\ ~ (call[c].was /\ call[c].is)
  /\ call[c].is <=> task[call[c].task].status = "queued"
  /\ \A p \in Priorities : call[c].task \in Entries(p) =>
       call[c].was /\ p = task[call[c].task].priority

\* The task is in no list but the one it is to leave, and belongs to the other one.
Reindexed(c) ==
  /\ \A p \in Priorities : call[c].task \in Entries(p) => p = call[c].from
  /\ call[c].to = None => call[c].task \notin Queued
  /\ call[c].to # None =>
       /\ call[c].task \in Queued /\ task[call[c].task].priority = call[c].to
       /\ call[c].from # call[c].to

\* What is true of a task no two changes of which have overlapped: one caller at most is
\* changing it, and the index is as far behind the map as that call says.
Fit(t) ==
  /\ Unique(t)
  /\ (\A c \in Callers : ~ Changing(c, t)) => Settled(t)
  /\ \A c \in Callers : Changing(c, t) =>
       /\ \A d \in Callers : Changing(d, t) => d = c
       /\ At(c, "updated") => Updated(c)
       /\ At(c, "reindex") => Reindexed(c)

Lists == taken \subseteq Queued /\ \A t \in Tasks \ raced : Fit(t)

\* A step that is not about u leaves it fit.
LEMMA FitKept ==
  ASSUME NEW u \in Tasks, Fit(u), Unique(u)',
         task'[u] = task[u], u \in taken' <=> u \in taken,
         \A p \in Priorities : u \in Entries(p)' <=> u \in Entries(p),
         \A d \in Callers : \/ call'[d] = call[d]
                            \/ ~ Changing(d, u) /\ ~ Changing(d, u)'
  PROVE  Fit(u)'
<1>1. (u \in Queued' <=> u \in Queued) /\ (u \in Present' <=> u \in Present)
  BY DEF Queued, Present
<1>2. \A d \in Callers : Changing(d, u)' => Changing(d, u) /\ call'[d] = call[d]
  BY DEF Changing
<1>3. \A d \in Callers : Changing(d, u) => Changing(d, u)'
  BY DEF Changing
<1>4. (\A d \in Callers : ~ Changing(d, u)') => Settled(u)'
  <2> SUFFICES ASSUME \A d \in Callers : ~ Changing(d, u)' PROVE Settled(u)'
    OBVIOUS
  <2>1. Settled(u)
    BY <1>3 DEF Fit
  <2> QED
    BY <1>1, <2>1 DEF Settled
<1>5. ASSUME NEW c \in Callers, Changing(c, u)'
      PROVE  /\ \A d \in Callers : Changing(d, u)' => d = c
             /\ At(c, "updated")' => Updated(c)'
             /\ At(c, "reindex")' => Reindexed(c)'
  <2>1. Changing(c, u) /\ call'[c] = call[c] /\ call[c].task = u
    BY <1>2, <1>5 DEF Changing
  <2>2. /\ \A d \in Callers : Changing(d, u) => d = c
        /\ At(c, "updated") => Updated(c)
        /\ At(c, "reindex") => Reindexed(c)
    BY <2>1 DEF Fit
  <2>3. \A d \in Callers : Changing(d, u)' => d = c
    BY <1>2, <2>2
  <2>4. At(c, "updated")' => Updated(c)'
    BY <1>1, <2>1, <2>2 DEF At, Updated
  <2>5. At(c, "reindex")' => Reindexed(c)'
    BY <1>1, <2>1, <2>2 DEF At, Reindexed
  <2> QED
    BY <2>3, <2>4, <2>5
<1> QED
  BY <1>4, <1>5 DEF Fit

\* A step of the process c that is about the task t.
About(c, t) ==
  /\ \A d \in Callers \ {c} : call'[d] = call[d]
  /\ \A u \in Tasks \ {t} :
       /\ ~ Changing(c, u) /\ ~ Changing(c, u)'
       /\ task'[u] = task[u]
       /\ u \in taken' <=> u \in taken
       /\ \A p \in Priorities : u \in Entries(p)' <=> u \in Entries(p)
       /\ Unique(u) => Unique(u)'
  /\ taken' \subseteq Queued' /\ raced \subseteq raced'

\* It is enough to look at that one task.
LEMMA OneTask ==
  ASSUME Lists, NEW c, NEW t \in Tasks, About(c, t), t \notin raced' => Fit(t)'
  PROVE  Lists'
<1> SUFFICES ASSUME NEW u \in Tasks \ {t}, u \notin raced' PROVE Fit(u)'
  BY DEF Lists, About
<1>1. Fit(u)
  BY DEF Lists, About
<1>2. /\ Unique(u)' /\ task'[u] = task[u] /\ (u \in taken' <=> u \in taken)
      /\ \A p \in Priorities : u \in Entries(p)' <=> u \in Entries(p)
  BY <1>1 DEF About, Fit
<1>3. \A d \in Callers : \/ call'[d] = call[d]
                         \/ ~ Changing(d, u) /\ ~ Changing(d, u)'
  BY DEF About
<1> QED
  BY <1>1, <1>2, <1>3, FitKept

\* A call ends or begins for one process.
LEMMA Steps ==
  ASSUME Shape, NEW c \in Processes, NEW next, Then(c, next)
  PROVE  call'[c] = next /\ \A d \in Processes \ {c} : call'[d] = call[d]
  BY DEF Shape, Then

\* Whoever calls the queue is a process.
LEMMA AreProcesses ==
  Callers \subseteq Processes /\ Takers \subseteq Processes /\ Clearers \subseteq Processes
  BY DEF Processes

\* A call about a task names one.
LEMMA AboutTasks ==
  ASSUME Shape, NEW c \in Processes, call[c].step \in {"insert", "updated", "reindex"}
  PROVE  call[c].task \in Tasks
<1>1. call[c] \in CallType
  BY DEF Shape
<1> QED
  BY <1>1 DEF CallType, Idle

\* The type of the index is kept by every step.
LEMMA TypedInductive ==
  ASSUME Typed, Shape', [Next]_vars
  PROVE  Typed'
<1>1. index \in [Priorities -> Seq(Tasks)]
  BY DEF Typed
<1>2. CASE UNCHANGED index
  BY <1>1, <1>2 DEF Typed
<1>3. ASSUME NEW c \in Callers, Reindex(c) PROVE Typed'
  <2> DEFINE t == call[c].task
             kept(p) == IF p = call[c].from THEN Without(p, t) ELSE index[p]
  <2>1. /\ call[c].step = "reindex"
        /\ index' = [p \in Priorities |-> IF p = call[c].to THEN Append(kept(p), t) ELSE kept(p)]
    BY <1>3 DEF Reindex, At
  <2>2. t \in Tasks
    BY <2>1, AboutTasks, AreProcesses DEF Typed
  <2>3. ASSUME NEW p \in Priorities PROVE index'[p] \in Seq(Tasks)
    <3>1. Without(p, t) \in Seq(Tasks)
      BY <1>1, WithoutIs
    <3>2. kept(p) \in Seq(Tasks)
      BY <1>1, <3>1
    <3> HIDE DEF kept
    <3> QED
      BY <2>1, <2>2, <3>2
  <2>4. index' \in [Priorities -> Seq(Tasks)]
    <3> HIDE DEF kept
    <3> QED
      BY <2>1, <2>3
  <2> QED
    BY <2>4 DEF Typed
<1>4. ASSUME NEW c \in Takers, Pop(c) PROVE Typed'
  <2>1. PICK p \in Priorities : index[p] # <<>> /\ index' = [index EXCEPT ![p] = Tail(@)]
    BY <1>4 DEF Pop, Listed
  <2>2. Tail(index[p]) \in Seq(Tasks)
    BY <1>1, <2>1
  <2> QED
    BY <1>1, <2>1, <2>2 DEF Typed
<1>5. ASSUME NEW c \in Clearers, ClearBoth(c) PROVE Typed'
  <2>1. index' = [p \in Priorities |-> <<>>]
    BY <1>5 DEF ClearBoth
  <2> QED
    BY <1>1, <2>1 DEF Typed
<1> QED
  BY <1>2, <1>3, <1>4, <1>5 DEF Next, AddCheck, UpdateStatus, Reprioritize, RemoveTask, AddInsert,
     ReadPriority, Return, ClearMap, vars, queueVars

\* Steps that only change calls, and none that changes a task.
LEMMA CallsOnly ==
  ASSUME Lists, UNCHANGED <<task, index, taken, raced>>,
         \A c \in Callers : \/ call'[c] = call[c]
                            \/ call[c].step \notin {"updated", "reindex"}
                               /\ call'[c].step \notin {"updated", "reindex"}
  PROVE  Lists'
<1>1. UNCHANGED Queued /\ \A p \in Priorities : UNCHANGED Entries(p)
  BY DEF Queued, Present, Entries
<1>2. \A c \in Callers, u \in Tasks : \/ call'[c] = call[c]
                                      \/ ~ Changing(c, u) /\ ~ Changing(c, u)'
  BY DEF Changing
<1>3. ASSUME NEW u \in Tasks \ raced' PROVE Fit(u)'
  <2>1. Fit(u) /\ Unique(u)
    BY DEF Lists, Fit
  <2>2. Unique(u)'
    BY <2>1 DEF Unique
  <2> QED
    BY <1>1, <1>2, <2>1, <2>2, FitKept
<1> QED
  BY <1>1, <1>3 DEF Lists

\* A change of one task in the map, before the index knows of it.
LEMMA MapStep ==
  ASSUME Typed, Lists, NEW c \in Callers, NEW t \in Tasks,
         NEW next, Then(c, next), Note({t}),
         call[c].step \notin {"updated", "reindex"},
         next.step \in {"updated", "reindex"} => next.task = t,
         \A u \in Tasks \ {t} : task'[u] = task[u] /\ (u \in taken' <=> u \in taken),
         UNCHANGED index, taken' \subseteq Queued',
         Settled(t) =>
           /\ next.step = "updated" => Updated(c)'
           /\ next.step = "reindex" => Reindexed(c)'
           /\ next.step \notin {"updated", "reindex"} => Settled(t)'
  PROVE  Lists'
<1>1. call'[c] = next /\ \A d \in Callers \ {c} : call'[d] = call[d]
  BY AreProcesses, Steps DEF Typed
<1>2. \A u : Unique(u) => Unique(u)'
  BY DEF Unique
<1>3. /\ \A u : ~ Changing(c, u)
      /\ \A u : Changing(c, u)' => u = t
      /\ Changing(c, t)' <=> next.step \in {"updated", "reindex"}
  BY <1>1 DEF Changing
<1>4. About(c, t)
  BY <1>1, <1>2, <1>3 DEF About, Entries, Note
<1>5. ASSUME t \notin raced' PROVE Fit(t)'
  <2>1. t \notin raced /\ \A d \in Callers : ~ Changing(d, t)
    BY <1>5 DEF Note
  <2>2. Settled(t) /\ Unique(t)
    BY <2>1 DEF Lists, Fit
  <2>3. \A d \in Callers : Changing(d, t)' => d = c
    BY <1>1, <2>1 DEF Changing
  <2>4. At(c, "updated")' => Updated(c)'
    BY <1>1, <2>2 DEF At
  <2>5. At(c, "reindex")' => Reindexed(c)'
    BY <1>1, <2>2 DEF At
  <2>6. (\A d \in Callers : ~ Changing(d, t)') => Settled(t)'
    BY <1>3, <2>2
  <2>7. ASSUME NEW d \in Callers, Changing(d, t)'
        PROVE  /\ \A e \in Callers : Changing(e, t)' => e = d
               /\ At(d, "updated")' => Updated(d)'
               /\ At(d, "reindex")' => Reindexed(d)'
    <3>1. d = c
      BY <2>3, <2>7
    <3> QED
      BY <2>3, <2>4, <2>5, <3>1
  <2>8. Unique(t)'
    BY <1>2, <2>2
  <2> QED
    BY <2>6, <2>7, <2>8 DEF Fit
<1> QED
  BY <1>4, <1>5, OneTask

\* The caller that alone changes a task goes on: what is left to show is its next step.
LEMMA GoesOn ==
  ASSUME NEW c \in Callers, NEW t \in Tasks, Fit(t), Changing(c, t),
         \A d \in Callers \ {c} : call'[d] = call[d], Unique(t)',
         call'[c].step = "updated" => Updated(c)',
         call'[c].step = "reindex" => Reindexed(c)',
         ~ Changing(c, t)' => Settled(t)'
  PROVE  Fit(t)'
<1>1. \A d \in Callers : Changing(d, t)' => d = c
  BY DEF Fit, Changing
<1>2. ASSUME NEW d \in Callers, Changing(d, t)'
      PROVE  /\ \A e \in Callers : Changing(e, t)' => e = d
             /\ At(d, "updated")' => Updated(d)'
             /\ At(d, "reindex")' => Reindexed(d)'
  <2>1. d = c
    BY <1>1, <1>2
  <2> QED
    BY <1>1, <2>1 DEF At
<1> QED
  BY <1>2 DEF Fit

\* Each operation on the map, its index and the calls.
LEMMA ListsStep ==
  ASSUME Typed, Typed', Lists, [Next]_vars
  PROVE  Lists'
<1>1. /\ task \in [Tasks -> TaskType \union {None}] /\ task' \in [Tasks -> TaskType \union {None}]
      /\ \A c \in Callers : Serves[c] \subseteq Tasks
      /\ \A r \in TaskType : r # None
      /\ \A p \in Priorities : p # None
      /\ Callers \subseteq Processes
  BY QueueAssumption, NoneAssumption, AreProcesses DEF Typed, Shape
\* A task of the map after a step.
<1>2. ASSUME NEW t \in Tasks
      PROVE  /\ t \in Queued <=> task[t] # None /\ task[t].status = "queued"
             /\ t \in Queued' <=> task'[t] # None /\ task'[t].status = "queued"
             /\ t \in Present <=> task[t] # None
             /\ t \in Present' <=> task'[t] # None
  BY DEF Queued, Present
<1>3. taken \subseteq Queued /\ taken \subseteq Tasks
  BY DEF Lists, Queued, Present
<1>4. /\ Idle.step = "idle"
      /\ \A t, p, q : /\ ToIndex(t, p, q).step = "reindex" /\ ToIndex(t, p, q).task = t
                      /\ ToIndex(t, p, q).from = p /\ ToIndex(t, p, q).to = q
  BY DEF Idle, ToIndex
\* What taken may keep.
<1>5. ASSUME NEW t \in Tasks, \A u \in Tasks \ {t} : task'[u] = task[u],
             taken' \subseteq taken, t \in taken' => t \in Queued'
      PROVE  taken' \subseteq Queued'
  <2>1. ASSUME NEW u \in taken', u # t PROVE u \in Queued'
    BY <1>2, <1>3, <1>5, <2>1
  <2> QED
    BY <1>5, <2>1
<1>6. ASSUME NEW c \in Callers, NEW t \in Serves[c], NEW r \in TaskType, AddCheck(c, t, r)
      PROVE  Lists'
  <2> DEFINE next == [step |-> "insert", task |-> t, as |-> r]
  <2>1. /\ call[c] = Idle /\ Then(c, next) /\ next.step = "insert"
        /\ UNCHANGED <<task, index, taken, raced>>
    BY <1>6 DEF AddCheck, Begin, Then, queueVars, KeepHistory, history
  <2> HIDE DEF next
  <2>2. /\ call'[c] = next /\ \A d \in Callers \ {c} : call'[d] = call[d]
    BY <1>1, <2>1, Steps DEF Typed
  <2> QED
    BY <1>4, <2>1, <2>2, CallsOnly
<1>7. ASSUME NEW c \in Callers, NEW t \in Serves[c], NEW s \in Statuses, UpdateStatus(c, t, s)
      PROVE  Lists'
  <2> DEFINE was  == t \in Queued
             is   == s = "queued"
             up   == [step |-> "updated", task |-> t, was |-> was, is |-> is]
             next == IF task[t].status = s THEN Idle ELSE up
             r    == [task[t] EXCEPT !.status = s]
  <2>1. /\ call[c] = Idle /\ Then(c, next) /\ t \in Tasks /\ task[t] # None
        /\ task[t] \in TaskType
        /\ task' = [task EXCEPT ![t] = r]
        /\ taken' = IF s = "queued" THEN taken ELSE taken \ {t}
        /\ UNCHANGED index /\ Note({t})
    BY <1>1, <1>2, <1>7 DEF UpdateStatus, Begin, Then, WriteMap
  <2>2. /\ r \in TaskType /\ r.status = s /\ r.priority = task[t].priority
        /\ up.step = "updated" /\ up.task = t /\ up.was = was /\ up.is = is
    BY <2>1 DEF TaskType
  <2> HIDE DEF up, r
  <2>3. /\ task'[t] = r /\ r # None /\ \A u \in Tasks \ {t} : task'[u] = task[u]
    BY <1>1, <2>1, <2>2
  <2>4. taken' \subseteq Queued' /\ \A u \in Tasks \ {t} : u \in taken' <=> u \in taken
    BY <1>2, <1>5, <2>1, <2>2, <2>3
  <2>5. call'[c] = next /\ \A p \in Priorities : UNCHANGED Entries(p)
    BY <1>1, <2>1, Steps DEF Typed, Entries
  <2>6. CASE task[t].status = s
    <3>1. next = Idle
      BY <2>6
    <3>2. t \in Queued' \ taken' <=> t \in Queued \ taken
      BY <1>2, <1>3, <2>1, <2>2, <2>3, <2>6
    <3>3. Settled(t) => Settled(t)'
      BY <2>2, <2>3, <2>5, <3>2 DEF Settled
    <3> HIDE DEF next
    <3> QED
      BY <1>4, <2>1, <2>3, <2>4, <3>1, <3>3, MapStep
  <2>7. CASE task[t].status # s
    <3>1. next = up
      BY <2>7
    <3>2. Settled(t) => Updated(c)'
      <4>1. call'[c].task = t /\ call'[c].was = was /\ call'[c].is = is
        BY <2>2, <2>5, <3>1
      <4>2. t \in Present' /\ task'[t].status = s /\ task'[t].priority = task[t].priority
        BY <1>2, <2>1, <2>2, <2>3
      <4>3. Settled(t) => \A p \in Priorities : t \in Entries(p)' => was /\ p = task[t].priority
        BY <2>5 DEF Settled
      <4>4. ~ (was /\ is)
        BY <1>2, <2>1, <2>7
      <4> HIDE DEF was
      <4> QED
        BY <4>1, <4>2, <4>3, <4>4 DEF Updated
    <3> HIDE DEF next
    <3> QED
      BY <1>4, <2>1, <2>2, <2>3, <2>4, <3>1, <3>2, MapStep
  <2> QED
    BY <2>6, <2>7
<1>8. ASSUME NEW c \in Callers, NEW t \in Serves[c], NEW p \in Priorities, Reprioritize(c, t, p)
      PROVE  Lists'
  <2> DEFINE r    == [task[t] EXCEPT !.priority = p]
             next == IF t \in Queued THEN ToIndex(t, task[t].priority, p) ELSE Idle
  <2>1. /\ call[c] = Idle /\ Then(c, next) /\ t \in Tasks /\ task[t] # None
        /\ task[t] \in TaskType /\ task[t].priority # p
        /\ task' = [task EXCEPT ![t] = r]
        /\ UNCHANGED <<index, taken>> /\ Note({t})
    BY <1>1, <1>2, <1>8 DEF Reprioritize, Begin, Then, WriteMap
  <2>2. /\ r \in TaskType /\ r.status = task[t].status /\ r.priority = p
        /\ task[t].priority \in Priorities
    BY <2>1 DEF TaskType
  <2> HIDE DEF r
  <2>3. /\ task'[t] = r /\ r # None /\ \A u \in Tasks \ {t} : task'[u] = task[u]
        /\ t \in Queued' <=> t \in Queued
    BY <1>1, <1>2, <2>1, <2>2
  <2>4. taken' \subseteq Queued' /\ \A u \in Tasks \ {t} : u \in taken' <=> u \in taken
    BY <1>2, <1>3, <1>5, <2>1, <2>2, <2>3
  <2>5. call'[c] = next /\ \A q \in Priorities : UNCHANGED Entries(q)
    BY <1>1, <2>1, Steps DEF Typed, Entries
  <2>6. CASE t \in Queued
    <3>1. next = ToIndex(t, task[t].priority, p)
      BY <2>6
    <3> HIDE DEF next
    <3>2. Settled(t) => Reindexed(c)'
      <4>1. call'[c].task = t /\ call'[c].from = task[t].priority /\ call'[c].to = p
        BY <1>4, <2>5, <3>1
      <4>2. Settled(t) => \A q \in Priorities : t \in Entries(q)' => q = task[t].priority
        BY <2>5 DEF Settled
      <4>3. t \in Queued' /\ task'[t].priority = p /\ task[t].priority # p /\ p # None
        BY <1>1, <2>1, <2>2, <2>3, <2>6
      <4> QED
        BY <4>1, <4>2, <4>3 DEF Reindexed
    <3> QED
      BY <1>4, <2>1, <2>3, <2>4, <3>1, <3>2, MapStep
  <2>7. CASE t \notin Queued
    <3>1. next = Idle
      BY <2>7
    <3> HIDE DEF next
    <3>2. Settled(t) => Settled(t)'
      BY <2>3, <2>5, <2>7 DEF Settled
    <3> QED
      BY <1>4, <2>1, <2>3, <2>4, <3>1, <3>2, MapStep
  <2> QED
    BY <2>6, <2>7
<1>9. ASSUME NEW c \in Callers, NEW t \in Serves[c], RemoveTask(c, t) PROVE Lists'
  <2> DEFINE next == IF t \in Queued THEN ToIndex(t, task[t].priority, None) ELSE Idle
  <2>1. /\ call[c] = Idle /\ Then(c, next) /\ t \in Tasks
        /\ task' = [task EXCEPT ![t] = None] /\ taken' = taken \ {t}
        /\ UNCHANGED index /\ Note({t})
    BY <1>1, <1>9 DEF RemoveTask, Begin, Then, WriteMap
  <2>3. /\ t \notin Queued' /\ \A u \in Tasks \ {t} : task'[u] = task[u]
    BY <1>1, <1>2, <2>1
  <2>4. taken' \subseteq Queued' /\ \A u \in Tasks \ {t} : u \in taken' <=> u \in taken
    BY <1>5, <2>1, <2>3
  <2>5. call'[c] = next /\ \A q \in Priorities : UNCHANGED Entries(q)
    BY <1>1, <2>1, Steps DEF Typed, Entries
  <2>6. CASE t \in Queued
    <3>1. next = ToIndex(t, task[t].priority, None)
      BY <2>6
    <3> HIDE DEF next
    <3>2. Settled(t) => Reindexed(c)'
      <4>1. call'[c].task = t /\ call'[c].from = task[t].priority /\ call'[c].to = None
        BY <1>4, <2>5, <3>1
      <4>2. Settled(t) => \A q \in Priorities : t \in Entries(q)' => q = task[t].priority
        BY <2>5 DEF Settled
      <4> QED
        BY <2>3, <4>1, <4>2 DEF Reindexed
    <3> QED
      BY <1>4, <2>1, <2>3, <2>4, <3>1, <3>2, MapStep
  <2>7. CASE t \notin Queued
    <3>1. next = Idle
      BY <2>7
    <3> HIDE DEF next
    <3>2. Settled(t) => Settled(t)'
      BY <2>3, <2>5, <2>7 DEF Settled
    <3> QED
      BY <1>4, <2>1, <2>3, <2>4, <3>1, <3>2, MapStep
  <2> QED
    BY <2>6, <2>7
<1>10. ASSUME NEW c \in Callers, AddInsert(c) PROVE Lists'
  <2>a. call[c].step = "insert" /\ call[c].task \in Tasks /\ call[c].as \in TaskType
    BY <1>1, <1>10, InsertCall DEF AddInsert, At, Typed
  <2>0. PICK t \in Tasks, r \in TaskType : t = call[c].task /\ r = call[c].as
    BY <2>a
  <2>1. call[c].step = "insert" /\ t \in Tasks /\ r \in TaskType
    BY <2>0, <2>a
  <2>2. CASE Then(c, Idle) /\ UNCHANGED <<task, raced>>
    <3>1. UNCHANGED <<task, index, taken, raced>>
      BY <1>10, <2>2 DEF AddInsert
    <3>2. /\ call'[c] = Idle /\ \A d \in Callers \ {c} : call'[d] = call[d]
      BY <1>1, <2>2, Steps DEF Typed
    <3> QED
      BY <1>4, <2>1, <3>1, <3>2, CallsOnly
  <2>3. CASE ~ (t \in Present \/ ~ DependenciesMet(t))
    <3> DEFINE next == IF r.status = "queued" THEN ToIndex(t, None, r.priority) ELSE Idle
    <3>1. /\ task' = [task EXCEPT ![t] = r] /\ Then(c, next) /\ Note({t})
          /\ UNCHANGED <<index, taken>> /\ t \notin Queued
      BY <1>2, <1>10, <2>0, <2>1, <2>3 DEF AddInsert
    <3>2. r # None /\ r.priority \in Priorities /\ r.priority # None
      BY <1>1, <2>1 DEF TaskType
    <3>3. /\ call'[c] = next /\ \A q \in Priorities : UNCHANGED Entries(q)
      BY <1>1, <3>1, Steps DEF Typed, Entries
    <3> HIDE DEF next
    <3>4. task'[t] = r /\ \A u \in Tasks \ {t} : task'[u] = task[u]
      BY <1>1, <2>1, <3>1
    <3>5. taken' \subseteq Queued' /\ \A u \in Tasks \ {t} : u \in taken' <=> u \in taken
      BY <1>3, <1>5, <2>1, <3>1, <3>4
    <3>6. Settled(t) => \A q \in Priorities : t \notin Entries(q)'
      BY <3>1, <3>3 DEF Settled
    <3>7. CASE r.status = "queued"
      <4>1. next = ToIndex(t, None, r.priority)
        BY <3>7 DEF next
      <4>2. Settled(t) => Reindexed(c)'
        <5>1. call'[c].task = t /\ call'[c].from = None /\ call'[c].to = r.priority
          BY <1>4, <3>3, <4>1
        <5>3. t \in Queued' /\ task'[t].priority = r.priority
          BY <1>2, <2>1, <3>2, <3>4, <3>7
        <5> QED
          BY <3>2, <3>6, <5>1, <5>3 DEF Reindexed
      <4>3. next.step = "reindex" /\ next.task = t
        BY <1>4, <4>1
      <4>4. /\ Then(c, next) /\ Note({t}) /\ UNCHANGED index
            /\ call[c].step \notin {"updated", "reindex"}
            /\ \A u \in Tasks \ {t} : task'[u] = task[u] /\ (u \in taken' <=> u \in taken)
        BY <2>1, <3>1, <3>4, <3>5
      <4> HIDE DEF next
      <4> QED
        BY <2>1, <3>5, <4>2, <4>3, <4>4, MapStep
    <3>8. CASE r.status # "queued"
      <4>1. next = Idle
        BY <3>8 DEF next
      <4>2. Settled(t) => Settled(t)'
        <5>1. t \notin Queued'
          BY <1>2, <2>1, <3>4, <3>8
        <5> QED
          BY <3>6, <5>1 DEF Settled
      <4> QED
        BY <1>4, <2>1, <3>1, <3>4, <3>5, <4>1, <4>2, MapStep
    <3> QED
      BY <3>7, <3>8
  <2> QED
    BY <1>10, <2>0, <2>2, <2>3 DEF AddInsert
<1>11. ASSUME NEW c \in Callers, ReadPriority(c) PROVE Lists'
  <2>0. call[c].step = "updated" /\ call[c].task \in Tasks
    BY <1>1, <1>11, AboutTasks DEF ReadPriority, At, Typed
  <2>a. PICK was, is : was = call[c].was /\ is = call[c].is
    OBVIOUS
  <2>1. PICK t \in Tasks : t = call[c].task
    BY <2>0
  <2> DEFINE p    == task[t].priority
             from == IF was THEN p ELSE None
             to   == IF is THEN p ELSE None
  <2>2. /\ UNCHANGED <<task, index, taken, raced>>
        /\ Then(c, IF t \in Present THEN ToIndex(t, from, to) ELSE Idle)
    BY <1>11, <2>a, <2>1 DEF ReadPriority, queueVars, KeepHistory, history
  <2>3. /\ UNCHANGED Queued /\ \A q \in Priorities : UNCHANGED Entries(q)
        /\ \A u : Unique(u) => Unique(u)'
    BY <2>2 DEF Queued, Present, Entries, Unique
  <2>4. /\ call'[c] = IF t \in Present THEN ToIndex(t, from, to) ELSE Idle
        /\ \A d \in Callers \ {c} : call'[d] = call[d]
    BY <1>1, <2>2, Steps DEF Typed
  <2> HIDE DEF from, to
  <2>5. \A u : (Changing(c, u) => u = t) /\ (Changing(c, u)' => u = t)
    BY <1>4, <2>1, <2>4 DEF Changing
  <2>6. taken' \subseteq Queued'
    BY <1>3, <2>2, <2>3
  <2>7. About(c, t)
    BY <2>2, <2>3, <2>4, <2>5, <2>6 DEF About
  <2>8. ASSUME t \notin raced' PROVE Fit(t)'
    <3>1. Fit(t) /\ Changing(c, t)
      BY <2>0, <2>1, <2>2, <2>8 DEF Lists, Changing
    <3>2. Updated(c)
      BY <2>0, <3>1 DEF Fit, At
    <3>3. /\ t \in Present /\ (is <=> task[t].status = "queued") /\ ~ (was /\ is)
          /\ \A q \in Priorities : t \in Entries(q) => was /\ q = p
      BY <2>a, <2>1, <3>2 DEF Updated
    <3>4. /\ call'[c].task = t /\ call'[c].from = from /\ call'[c].to = to
          /\ call'[c].step = "reindex"
      BY <1>4, <2>4, <3>3
    <3>5. p # None /\ p = task'[t].priority /\ (is <=> t \in Queued')
      BY <1>1, <1>2, <2>2, <2>3, <3>3 DEF TaskType
    <3> HIDE DEF p
    <3>6. (was => from = p) /\ (is => to = p) /\ (~ is => to = None) /\ (~ was => from = None)
      BY DEF from, to
    <3>7. Reindexed(c)'
      <4>1. \A q \in Priorities : t \in Entries(q)' => q = from
        BY <2>3, <3>3, <3>6
      <4>2. to = None => t \notin Queued'
        BY <3>5, <3>6
      <4>3. to # None => t \in Queued' /\ task'[t].priority = to /\ from # to
        BY <3>3, <3>5, <3>6
      <4> QED
        BY <3>4, <4>1, <4>2, <4>3 DEF Reindexed
    <3>8. Changing(c, t)' /\ Unique(t)'
      BY <2>3, <3>1, <3>4 DEF Changing, Fit
    <3> QED
      BY <2>4, <3>1, <3>4, <3>7, <3>8, GoesOn
  <2> QED
    BY <2>7, <2>8, OneTask
<1>12. ASSUME NEW c \in Callers, Reindex(c) PROVE Lists'
  <2>0. call[c].step = "reindex" /\ call[c].task \in Tasks
    BY <1>1, <1>12, AboutTasks DEF Reindex, At, Typed
  <2>a. PICK from, to : from = call[c].from /\ to = call[c].to
    OBVIOUS
  <2>1. PICK t \in Tasks : t = call[c].task
    BY <2>0
  <2> DEFINE kept(p) == IF p = from THEN Without(p, t) ELSE index[p]
  <2>2. /\ Then(c, Idle) /\ UNCHANGED <<task, raced>>
        /\ index' = [p \in Priorities |-> IF p = to THEN Append(kept(p), t) ELSE kept(p)]
        /\ taken' = IF to = None THEN taken ELSE taken \ {t}
    BY <1>12, <2>a, <2>1 DEF Reindex
  <2>3. ASSUME NEW p \in Priorities
        PROVE  /\ \A u \in Tasks \ {t} : (u \in Entries(p)' <=> u \in Entries(p))
                                         /\ (Single(index[p], u) => Single(index'[p], u))
               /\ (t \in Entries(p) => p = from) =>
                    (t \in Entries(p)' <=> p = to) /\ Single(index'[p], t)
    <3>0. index[p] \in Seq(Tasks)
      BY DEF Typed
    <3>1. /\ kept(p) \in Seq(Tasks)
          /\ \A u : Single(index[p], u) => Single(kept(p), u)
          /\ \A u \in Tasks \ {t} : u \in {kept(p)[i] : i \in DOMAIN kept(p)} <=> u \in Entries(p)
          /\ (t \in Entries(p) => p = from) => t \notin {kept(p)[i] : i \in DOMAIN kept(p)}
      <4>1. CASE p = from
        <5>1. kept(p) = Without(p, t)
          BY <4>1
        <5> HIDE DEF kept
        <5>2. /\ kept(p) \in Seq(Tasks)
              /\ {kept(p)[i] : i \in DOMAIN kept(p)} = Entries(p) \ {t}
              /\ \A u : Single(index[p], u) => Single(kept(p), u)
          BY <3>0, <5>1, WithoutIs
        <5> QED
          BY <5>2
      <4>2. CASE p # from
        <5>1. kept(p) = index[p] /\ {index[p][i] : i \in DOMAIN index[p]} = Entries(p)
          BY <4>2 DEF Entries
        <5> QED
          BY <3>0, <4>2, <5>1
      <4> QED
        BY <4>1, <4>2
    <3>2. PICK k : k = kept(p)
      OBVIOUS
    <3>3. index'[p] = IF p = to THEN Append(k, t) ELSE k
      BY <2>2, <3>2
    <3> HIDE DEF kept
    <3>4. PICK held : held = {k[i] : i \in DOMAIN k}
      OBVIOUS
    <3>5. /\ k \in Seq(Tasks)
          /\ \A u : Single(index[p], u) => Single(k, u)
          /\ \A u \in Tasks \ {t} : u \in held <=> u \in Entries(p)
          /\ (t \in Entries(p) => p = from) => t \notin held
      BY <3>1, <3>2, <3>4
    <3>6. PICK w : w = index'[p]
      OBVIOUS
    <3>7. CASE p = to
      <4>1. /\ DOMAIN k = 1 .. Len(k) /\ DOMAIN w = 1 .. Len(k) + 1 /\ Len(k) \in Nat
            /\ w[Len(k) + 1] = t /\ \A i \in 1 .. Len(k) : w[i] = k[i]
        BY <2>1, <3>3, <3>5, <3>6, <3>7
      <4>2. DOMAIN w = DOMAIN k \union {Len(k) + 1}
        BY <4>1
      <4>3. {w[i] : i \in DOMAIN w} = held \union {t}
        BY <3>4, <4>1, <4>2
      <4>4. ASSUME NEW u, u # t, Single(k, u) PROVE Single(w, u)
        BY <4>1, <4>2, <4>4 DEF Single
      <4>5. t \notin held => Single(w, t)
        <5>1. t \notin held => \A i \in DOMAIN k : w[i] # t
          BY <3>4, <4>1
        <5> QED
          BY <4>2, <5>1 DEF Single
      <4>6. Entries(p)' = held \union {t}
        BY <3>6, <4>3 DEF Entries
      <4> QED
        BY <3>5, <3>6, <3>7, <4>4, <4>5, <4>6
    <3>8. CASE p # to
      <4>1. w = k /\ Entries(p)' = held
        BY <3>3, <3>4, <3>6, <3>8 DEF Entries
      <4>2. t \notin held => Single(k, t)
        BY <3>4 DEF Single
      <4> QED
        BY <3>5, <3>6, <3>8, <4>1, <4>2
    <3> QED
      BY <3>7, <3>8
  <2> HIDE DEF kept
  <2>4. UNCHANGED Queued
    BY <2>2 DEF Queued, Present
  <2>5. /\ call'[c] = Idle /\ \A d \in Callers \ {c} : call'[d] = call[d]
    BY <1>1, <2>2, Steps DEF Typed
  <2>6. \A u : (Changing(c, u) => u = t) /\ ~ Changing(c, u)'
    BY <1>4, <2>1, <2>5 DEF Changing
  <2>7. \A u \in Tasks \ {t} : Unique(u) => Unique(u)'
    BY <2>3 DEF Unique
  <2>8. taken' \subseteq Queued' /\ \A u \in Tasks \ {t} : u \in taken' <=> u \in taken
    BY <1>3, <2>2, <2>4
  <2>9. About(c, t)
    BY <2>2, <2>3, <2>5, <2>6, <2>7, <2>8 DEF About
  <2>10. ASSUME t \notin raced' PROVE Fit(t)'
    <3>1. Fit(t) /\ Changing(c, t)
      BY <2>0, <2>1, <2>2, <2>10 DEF Lists, Changing
    <3>2. Reindexed(c)
      BY <2>0, <3>1 DEF Fit, At
    <3>3. /\ \A p \in Priorities : t \in Entries(p) => p = from
          /\ to = None => t \notin Queued
          /\ to # None => t \in Queued /\ task[t].priority = to
      BY <2>a, <2>1, <3>2 DEF Reindexed
    <3>4. (\A p \in Priorities : t \in Entries(p)' <=> p = to) /\ Unique(t)'
      BY <2>3, <3>3 DEF Unique
    <3>5. t \in Queued' \ taken' <=> to # None
      BY <1>3, <2>2, <2>4, <3>3
    <3>6. \A p \in Priorities : p = to <=> (to # None /\ task'[t].priority = p)
      BY <1>1, <2>2, <3>3
    <3>7. Settled(t)'
      BY <3>4, <3>5, <3>6 DEF Settled
    <3> QED
      BY <1>4, <2>5, <3>1, <3>4, <3>7, GoesOn
  <2> QED
    BY <2>9, <2>10, OneTask
<1>13. ASSUME NEW c \in Takers, Pop(c) PROVE Lists'
  <2>1. PICK p \in Priorities :
          /\ index[p] # <<>> /\ index' = [index EXCEPT ![p] = Tail(@)]
          /\ taken' = IF Head(index[p]) \in Queued THEN taken \union {Head(index[p])} ELSE taken
    BY <1>13 DEF Pop, Listed
  <2>2. PICK s, t : s = index[p] /\ t = Head(s)
    OBVIOUS
  <2>3. /\ s \in Seq(Tasks) /\ s # <<>> /\ t \in Tasks
        /\ index' = [index EXCEPT ![p] = Tail(s)]
        /\ taken' = IF t \in Queued THEN taken \union {t} ELSE taken
    BY <2>1, <2>2 DEF Typed
  <2>4. PICK w : w = Tail(s)
    OBVIOUS
  <2>5. /\ Len(s) \in Nat /\ Len(s) >= 1 /\ DOMAIN s = 1 .. Len(s) /\ s[1] = t
        /\ DOMAIN w = 1 .. Len(s) - 1
        /\ \A i \in 1 .. Len(s) - 1 : w[i] = s[i + 1]
    BY <2>2, <2>3, <2>4
  <2>6. ASSUME NEW u, Single(s, u) PROVE Single(w, u)
    <3> SUFFICES ASSUME NEW i \in 1 .. Len(s) - 1, NEW j \in 1 .. Len(s) - 1, w[i] = u, w[j] = u
                 PROVE  i = j
      BY <2>5 DEF Single
    <3>1. i + 1 \in DOMAIN s /\ j + 1 \in DOMAIN s /\ s[i + 1] = u /\ s[j + 1] = u
      BY <2>5
    <3>2. i + 1 = j + 1
      BY <2>6, <3>1 DEF Single
    <3> QED
      BY <3>2
  <2>7. /\ index'[p] = w /\ index[p] = s
        /\ \A q \in Priorities \ {p} : index'[q] = index[q]
    BY <2>1, <2>2, <2>3, <2>4 DEF Typed
  <2>8. ASSUME NEW u, u # t PROVE u \in Entries(p)' <=> u \in Entries(p)
    <3>1. ASSUME NEW k \in 1 .. Len(s), s[k] = u PROVE \E i \in DOMAIN w : w[i] = u
      <4>1. k # 1
        BY <2>5, <2>8, <3>1
      <4>2. k - 1 \in 1 .. Len(s) - 1 /\ w[k - 1] = s[k]
        BY <2>5, <4>1
      <4> QED
        BY <2>5, <3>1, <4>2
    <3>2. ASSUME NEW i \in 1 .. Len(s) - 1, w[i] = u PROVE \E k \in DOMAIN s : s[k] = u
      BY <2>5, <3>2
    <3> QED
      BY <2>5, <2>7, <3>1, <3>2 DEF Entries
  <2>9. t \in Entries(p) /\ (Single(s, t) => t \notin Entries(p)')
    <3>1. 1 \in DOMAIN s
      BY <2>5
    <3>2. ASSUME Single(s, t), NEW i \in DOMAIN w, w[i] = t PROVE FALSE
      <4>1. i + 1 \in DOMAIN s /\ s[i + 1] = t /\ i + 1 # 1
        BY <2>5, <3>2
      <4> QED
        BY <2>5, <3>1, <3>2, <4>1 DEF Single
    <3> QED
      BY <2>5, <2>7, <3>1, <3>2 DEF Entries
  <2>10. \A q \in Priorities \ {p} : Entries(q)' = Entries(q)
    BY <2>7 DEF Entries
  <2>11. \A u : Unique(u) => Unique(u)'
    BY <2>6, <2>7 DEF Unique
  <2>12. \A q \in Priorities, u \in Tasks : u \in Entries(q)' => u \in Entries(q)
    BY <2>8, <2>9, <2>10
  <2>13. /\ UNCHANGED <<task, raced>> /\ UNCHANGED Queued /\ UNCHANGED Present
         /\ call[c] = Idle /\ Then(c, [step |-> "popped"])
    BY <1>13 DEF Pop, Begin, Then, Queued, Present
  <2>14. c \in Processes /\ call'[c].step = "popped" /\ \A d \in Callers \ {c} : call'[d] = call[d]
    BY <1>1, <2>13, Steps, AreProcesses DEF Typed
  <2>15. /\ \A u : ~ Changing(c, u) /\ ~ Changing(c, u)'
         /\ \A d \in Callers : \/ call'[d] = call[d]
                               \/ \A u : ~ Changing(d, u) /\ ~ Changing(d, u)'
    BY <1>4, <2>13, <2>14 DEF Changing
  <2>16. taken' \subseteq Queued' /\ \A u \in Tasks \ {t} : u \in taken' <=> u \in taken
    BY <1>3, <2>3, <2>13
  <2>17. About(c, t)
    <3>1. \A u \in Tasks \ {t}, q \in Priorities : u \in Entries(q)' <=> u \in Entries(q)
      BY <2>8, <2>10
    <3> QED
      BY <2>11, <2>13, <2>14, <2>15, <2>16, <3>1 DEF About
  <2>18. ASSUME t \notin raced' PROVE Fit(t)'
    <3>1. Fit(t) /\ Unique(t)'
      BY <2>3, <2>11, <2>13, <2>18 DEF Lists, Fit
    <3>2. ASSUME \A d \in Callers : ~ Changing(d, t)' PROVE Settled(t)'
      <4>1. \A d \in Callers : ~ Changing(d, t)
        BY <2>15, <3>2 DEF Changing
      <4>2. Settled(t) /\ Single(s, t)
        BY <2>7, <3>1, <4>1 DEF Fit, Unique
      <4>3. t \in Queued /\ task[t].priority = p
        BY <2>9, <4>2 DEF Settled
      <4>4. \A q \in Priorities : t \notin Entries(q)'
        BY <2>9, <2>10, <4>2, <4>3 DEF Settled
      <4>5. t \in taken'
        BY <2>3, <4>3
      <4> QED
        BY <4>4, <4>5 DEF Settled
    <3>3. ASSUME NEW d \in Callers, Changing(d, t)'
          PROVE  /\ \A e \in Callers : Changing(e, t)' => e = d
                 /\ At(d, "updated")' => Updated(d)'
                 /\ At(d, "reindex")' => Reindexed(d)'
      <4>1. call'[d] = call[d] /\ Changing(d, t) /\ call[d].task = t
        BY <2>15, <3>3 DEF Changing
      <4>2. /\ \A e \in Callers : Changing(e, t) => e = d
            /\ At(d, "updated") => Updated(d)
            /\ At(d, "reindex") => Reindexed(d)
        BY <3>1, <4>1 DEF Fit
      <4>3. \A e \in Callers : Changing(e, t)' => e = d
        BY <2>15, <4>2 DEF Changing
      <4>4. At(d, "updated")' => Updated(d)'
        BY <2>3, <2>12, <2>13, <4>1, <4>2 DEF At, Updated
      <4>5. At(d, "reindex")' => Reindexed(d)'
        BY <2>3, <2>12, <2>13, <4>1, <4>2 DEF At, Reindexed
      <4> QED
        BY <4>3, <4>4, <4>5
    <3> QED
      BY <3>1, <3>2, <3>3 DEF Fit
  <2> QED
    BY <2>3, <2>17, <2>18, OneTask
<1>14. ASSUME NEW c \in Takers, Return(c) PROVE Lists'
  <2>1. /\ call[c].step = "popped" /\ Then(c, Idle) /\ UNCHANGED <<task, index, taken, raced>>
    BY <1>14 DEF Return, At, queueVars, KeepHistory, history
  <2>2. \A d \in Callers : call'[d] = call[d] \/ (d = c /\ call'[d] = Idle)
    BY <1>1, <2>1, Steps, AreProcesses DEF Typed
  <2> QED
    BY <1>4, <2>1, <2>2, CallsOnly
<1>15. ASSUME NEW c \in Clearers, ClearMap(c) PROVE Lists'
  <2>1. /\ call[c] = Idle /\ Then(c, [step |-> "clearing"]) /\ UNCHANGED <<task, index, taken, raced>>
    BY <1>15 DEF ClearMap, Begin, Then, queueVars, KeepHistory, history
  <2>2. \A d \in Callers : call'[d] = call[d] \/ (d = c /\ call'[d].step = "clearing")
    BY <1>1, <2>1, Steps, AreProcesses DEF Typed
  <2> QED
    BY <1>4, <2>1, <2>2, CallsOnly
<1>16. ASSUME NEW c \in Clearers, ClearBoth(c) PROVE Lists'
  <2>1. /\ task' = [t \in Tasks |-> None] /\ index' = [p \in Priorities |-> <<>>]
        /\ taken' = {} /\ Then(c, Idle) /\ Note(Tasks)
    BY <1>16 DEF ClearBoth
  <2>2. \A d \in Callers : call'[d] = call[d] \/ call'[d] = Idle
    BY <1>1, <2>1, Steps, AreProcesses DEF Typed
  <2>3. Queued' = {} /\ \A p \in Priorities : Entries(p)' = {} /\ DOMAIN index'[p] = {}
    BY <2>1 DEF Queued, Present, Entries
  <2>4. ASSUME NEW u \in Tasks \ raced' PROVE Fit(u)'
    <3>1. \A d \in Callers : ~ Changing(d, u)'
      BY <1>4, <2>1, <2>2, <2>4 DEF Note, Changing
    <3>2. Settled(u)' /\ Unique(u)'
      BY <2>3 DEF Settled, Unique, Single
    <3> QED
      BY <3>1, <3>2 DEF Fit
  <2> QED
    BY <2>1, <2>4 DEF Lists
<1>17. CASE UNCHANGED vars
  <2>1. UNCHANGED <<task, index, taken, raced, call>>
    BY <1>17 DEF vars, queueVars, history
  <2> QED
    BY <2>1, CallsOnly
<1> QED
  BY <1>1, <1>6, <1>7, <1>8, <1>9, <1>10, <1>11, <1>12, <1>13, <1>14, <1>15, <1>16, <1>17 DEF Next

\* What is needed about the index is kept by every step.
Listing == Typed /\ Lists

\* It holds in every state.
LEMMA ListingHolds == Spec => []Listing
<1>1. Init => Listing
  <2> SUFFICES ASSUME Init PROVE Listing
    OBVIOUS
  <2>1. Typed
    BY IdleTyped DEF Init, Typed, Shape, Idle, Processes
  <2>2. /\ Queued = {} /\ taken = {}
        /\ \A p \in Priorities : Entries(p) = {} /\ DOMAIN index[p] = {}
    BY DEF Init, Queued, Present, Entries
  <2>3. \A c \in Callers : call[c].step = "idle"
    BY DEF Init, Processes, Idle
  <2>4. Lists
    BY <2>2, <2>3 DEF Lists, Fit, Changing, Settled, Unique, Single
  <2> QED
    BY <2>1, <2>4 DEF Listing
<1>2. Needs /\ Needs' /\ Listing /\ [Next]_vars => Listing'
  BY TypedInductive, ListsStep DEF Needs, Listing
<1> QED
  BY <1>1, <1>2, NeedsHold, PTL DEF Spec

\* The index holds a steady task exactly if it is queued and get_next has not taken it,
\* once and under its priority, although every operation changes the map in one critical
\* section and the index in a later one, and whoever else calls meanwhile.
THEOREM IndexFollows == Spec => []IndexExact
<1>1. Listing => IndexExact
  <2> SUFFICES ASSUME Listing, NEW t \in Tasks, NEW p \in Priorities, Steady(t)
               PROVE  /\ t \in Entries(p) <=> (t \in Queued \ taken /\ task[t].priority = p)
                      /\ \A i, j \in DOMAIN index[p] : index[p][i] = t /\ index[p][j] = t => i = j
    BY DEF IndexExact
  <2>1. Fit(t)
    BY DEF Listing, Lists, Steady
  <2>2. Settled(t) /\ Single(index[p], t)
    BY <2>1 DEF Fit, Steady, Unique
  <2> QED
    BY <2>2 DEF Settled, Single
<1> QED
  BY <1>1, ListingHolds, PTL

\* One list of the index after a step: whoever is before a task that was in the list, and
\* that overlapping changes have not listed twice, was before it.
NoneOvertakes(p) ==
  \A j \in DOMAIN index'[p] :
    index'[p][j] \in Entries(p) \ raced => \A i \in 1 .. j - 1 :
      \E a, b \in DOMAIN index[p] :
        a < b /\ index[p][a] = index'[p][i] /\ index[p][b] = index'[p][j]

\* A list that stays as it is.
LEMMA Unmoved ==
  ASSUME NEW p \in Priorities, index[p] \in Seq(Tasks), index'[p] = index[p]
  PROVE  NoneOvertakes(p)
<1>1. DOMAIN index[p] = 1 .. Len(index[p]) /\ Len(index[p]) \in Nat
  OBVIOUS
<1> SUFFICES ASSUME NEW j \in 1 .. Len(index[p]), NEW i \in 1 .. j - 1
             PROVE  \E a, b \in DOMAIN index[p] :
                      a < b /\ index[p][a] = index'[p][i] /\ index[p][b] = index'[p][j]
  BY <1>1 DEF NoneOvertakes
<1>2. i \in DOMAIN index[p] /\ j \in DOMAIN index[p] /\ i < j
  BY <1>1
<1> QED
  BY <1>2

\* A list that gets one task at its end, not in it before unless changes of it have
\* overlapped, and may lose others.
LEMMA Grown ==
  ASSUME NEW p \in Priorities, NEW t, t \notin Entries(p) \ raced, NEW w \in Seq(Tasks),
         \A i, j \in DOMAIN w : i < j =>
           \E a, b \in DOMAIN index[p] : a < b /\ index[p][a] = w[i] /\ index[p][b] = w[j],
         index'[p] = Append(w, t), t \in Tasks
  PROVE  NoneOvertakes(p)
<1>1. /\ Len(w) \in Nat /\ DOMAIN w = 1 .. Len(w) /\ DOMAIN index'[p] = 1 .. Len(w) + 1
      /\ index'[p][Len(w) + 1] = t /\ \A i \in 1 .. Len(w) : index'[p][i] = w[i]
  OBVIOUS
<1> SUFFICES ASSUME NEW j \in 1 .. Len(w) + 1, index'[p][j] \in Entries(p) \ raced, NEW i \in 1 .. j - 1
             PROVE  \E a, b \in DOMAIN index[p] :
                      a < b /\ index[p][a] = index'[p][i] /\ index[p][b] = index'[p][j]
  BY <1>1 DEF NoneOvertakes
<1>2. j # Len(w) + 1
  BY <1>1
<1>3. i \in 1 .. Len(w) /\ j \in 1 .. Len(w) /\ i < j
  BY <1>1, <1>2
<1> QED
  BY <1>1, <1>3

\* A list that loses tasks only.
LEMMA Shrunk ==
  ASSUME NEW p \in Priorities, NEW w \in Seq(Tasks),
         \A i, j \in DOMAIN w : i < j =>
           \E a, b \in DOMAIN index[p] : a < b /\ index[p][a] = w[i] /\ index[p][b] = w[j],
         index'[p] = w
  PROVE  NoneOvertakes(p)
<1>1. Len(w) \in Nat /\ DOMAIN w = 1 .. Len(w)
  OBVIOUS
<1> SUFFICES ASSUME NEW j \in 1 .. Len(w), NEW i \in 1 .. j - 1
             PROVE  \E a, b \in DOMAIN index[p] :
                      a < b /\ index[p][a] = index'[p][i] /\ index[p][b] = index'[p][j]
  BY <1>1 DEF NoneOvertakes
<1>2. i \in DOMAIN w /\ j \in DOMAIN w /\ i < j
  BY <1>1
<1> QED
  BY <1>2

\* Taking a task away keeps the order of the others, in whatever list it is looked for.
LEMMA WithoutKeepsOrder ==
  ASSUME NEW p \in Priorities, NEW t \in Tasks, index[p] \in Seq(Tasks)
  PROVE  /\ Without(p, t) \in Seq(Tasks)
         /\ \A i, j \in DOMAIN Without(p, t) : i < j =>
              \E a, b \in DOMAIN index[p] :
                a < b /\ index[p][a] = Without(p, t)[i] /\ index[p][b] = Without(p, t)[j]
  BY WithoutIs

\* In no step does a task overtake another one of its list.
LEMMA NobodyOvertakes ==
  ASSUME Typed, Lists, [Next]_vars, NEW p \in Priorities
  PROVE  NoneOvertakes(p)
<1>1. index[p] \in Seq(Tasks)
  BY DEF Typed
<1>2. CASE UNCHANGED index
  BY <1>1, <1>2, Unmoved
<1>3. ASSUME NEW c \in Callers, Reindex(c) PROVE NoneOvertakes(p)
  <2>1. PICK t, from, to : t = call[c].task /\ from = call[c].from /\ to = call[c].to
    OBVIOUS
  <2>2. t \in Tasks /\ At(c, "reindex") /\ Changing(c, t)
    BY <1>3, <2>1, AboutTasks, AreProcesses DEF Reindex, At, Typed, Changing
  <2>3. t \notin raced => Reindexed(c)
    BY <2>2 DEF Lists, Fit
  <2>4. t \notin raced => /\ \A q \in Priorities : t \in Entries(q) => q = from
                          /\ to # None => from # to
    BY <2>1, <2>3 DEF Reindexed
  <2> DEFINE kept == IF p = from THEN Without(p, t) ELSE index[p]
  <2>5. index'[p] = IF p = to THEN Append(kept, t) ELSE kept
    BY <1>3, <2>1 DEF Reindex
  <2>6. /\ kept \in Seq(Tasks)
        /\ \A i, j \in DOMAIN kept : i < j =>
             \E a, b \in DOMAIN index[p] :
               a < b /\ index[p][a] = kept[i] /\ index[p][b] = kept[j]
    <3>1. CASE p = from
      <4>1. kept = Without(p, t)
        BY <3>1
      <4> HIDE DEF kept
      <4> QED
        BY <1>1, <2>2, <4>1, WithoutKeepsOrder
    <3>2. CASE p # from
      BY <1>1, <3>2
    <3> QED
      BY <3>1, <3>2
  <2> HIDE DEF kept
  <2>7. CASE p = to
    <3>1. t \notin Entries(p) \ raced
      <4>1. p # None /\ to # None
        BY <2>7, NoneAssumption
      <4>2. ASSUME t \notin raced PROVE p # from /\ (t \in Entries(p) => p = from)
        <5>1. from # to /\ (t \in Entries(p) => p = from)
          BY <2>4, <4>1, <4>2
        <5> QED
          BY ONLY <2>7, <5>1
      <4> QED
        BY <4>2
    <3> QED
      BY <2>2, <2>5, <2>6, <2>7, <3>1, Grown
  <2>8. CASE p # to
    BY <2>5, <2>6, <2>8, Shrunk
  <2> QED
    BY <2>7, <2>8
<1>4. ASSUME NEW c \in Takers, Pop(c) PROVE NoneOvertakes(p)
  <2>1. PICK q \in Priorities : index[q] # <<>> /\ index' = [index EXCEPT ![q] = Tail(@)]
    BY <1>4 DEF Pop, Listed
  <2>2. CASE p = q
    <3> DEFINE w == Tail(index[p])
    <3>1. /\ w \in Seq(Tasks) /\ index'[p] = w /\ Len(index[p]) \in Nat
          /\ DOMAIN index[p] = 1 .. Len(index[p]) /\ DOMAIN w = 1 .. Len(index[p]) - 1
          /\ \A i \in DOMAIN w : w[i] = index[p][i + 1]
      BY <1>1, <2>1, <2>2 DEF Typed
    <3> HIDE DEF w
    <3>2. ASSUME NEW i \in DOMAIN w, NEW j \in DOMAIN w, i < j
          PROVE  \E a, b \in DOMAIN index[p] : a < b /\ index[p][a] = w[i] /\ index[p][b] = w[j]
      <4>1. i + 1 \in DOMAIN index[p] /\ j + 1 \in DOMAIN index[p] /\ i + 1 < j + 1
        BY <3>1, <3>2
      <4> QED
        BY <3>1, <4>1
    <3> QED
      BY <3>1, <3>2, Shrunk
  <2>3. CASE p # q
    BY <1>1, <2>1, <2>3, Unmoved DEF Typed
  <2> QED
    BY <2>2, <2>3
<1>5. ASSUME NEW c \in Clearers, ClearBoth(c) PROVE NoneOvertakes(p)
  <2>1. index'[p] = <<>> /\ DOMAIN index'[p] = {}
    BY <1>5 DEF ClearBoth
  <2> QED
    BY <2>1 DEF NoneOvertakes
<1> QED
  BY <1>2, <1>3, <1>4, <1>5 DEF Next, AddCheck, UpdateStatus, Reprioritize, RemoveTask, AddInsert,
     ReadPriority, Return, ClearMap, vars, queueVars

\* get_next takes from the most urgent of the steady tasks that wait.
LEMMA MostUrgent ==
  ASSUME IndexExact, Listing, Next, NEW t \in Tasks, NEW u \in Tasks, Steady(t), Steady(u),
         t \in taken' \ taken, u \in Queued \ taken
  PROVE  task[u].priority <= task[t].priority
<1>1. PICK c \in Takers : Pop(c)
  BY DEF Next, AddCheck, UpdateStatus, Reprioritize, RemoveTask, AddInsert, ReadPriority, Reindex,
     Return, ClearMap, ClearBoth, KeepHistory, history
<1>2. PICK p \in Listed : Foremost(p) /\ t = Head(index[p])
  BY <1>1 DEF Pop
<1>3. /\ p \in Priorities /\ index[p] \in Seq(Tasks) /\ index[p] # <<>>
      /\ 1 \in DOMAIN index[p] /\ t = index[p][1]
  BY <1>2 DEF Listed, Listing, Typed
<1>4. t \in Entries(p)
  BY <1>3 DEF Entries
<1>5. task[t].priority = p
  BY <1>3, <1>4 DEF IndexExact
<1>6. u \in Tasks /\ task[u] \in TaskType /\ task[u].priority \in Priorities
  BY DEF Queued, Present, Listing, Typed, Shape, TaskType
<1>7. u \in Entries(task[u].priority)
  BY <1>6 DEF IndexExact
<1>8. task[u].priority \in Listed
  BY <1>6, <1>7 DEF Entries, Listed
<1> QED
  BY <1>2, <1>5, <1>8 DEF Foremost

\* get_next takes the most urgent of the steady queued tasks, and none overtakes another
\* one of its priority, whoever changes tasks meanwhile.
THEOREM FirstComeFirstServed == Spec => OrderKept
<1>1. ASSUME Listing, IndexExact, [Next]_vars
      PROVE  [/\ \A t, u \in Tasks :
                   Steady(t) /\ Steady(u) /\ t \in taken' \ taken /\ u \in Queued \ taken =>
                     task[u].priority <= task[t].priority
              /\ \A p \in Priorities : \A j \in DOMAIN index'[p] :
                   index'[p][j] \in Entries(p) \ raced => \A i \in 1 .. j - 1 :
                     \E a, b \in DOMAIN index[p] :
                       a < b /\ index[p][a] = index'[p][i] /\ index[p][b] = index'[p][j]]_vars
  <2> SUFFICES ASSUME Next
               PROVE  /\ \A t, u \in Tasks :
                           Steady(t) /\ Steady(u) /\ t \in taken' \ taken /\ u \in Queued \ taken =>
                             task[u].priority <= task[t].priority
                      /\ \A p \in Priorities : NoneOvertakes(p)
    BY <1>1 DEF NoneOvertakes
  <2>1. ASSUME NEW t \in Tasks, NEW u \in Tasks, Steady(t), Steady(u),
               t \in taken' \ taken, u \in Queued \ taken
        PROVE  task[u].priority <= task[t].priority
    BY <1>1, <2>1, MostUrgent
  <2>2. ASSUME NEW p \in Priorities PROVE NoneOvertakes(p)
    BY <1>1, NobodyOvertakes DEF Listing
  <2> QED
    BY <2>1, <2>2
<1> QED
  BY <1>1, ListingHolds, IndexFollows, PTL DEF Spec, OrderKept
================================================================================

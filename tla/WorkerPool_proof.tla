---------------------------- MODULE WorkerPool_proof ----------------------------
(***************************************************************************)
(* Proofs about the worker pool.  TLC checks two workers and three callers; *)
(* here the callers, the workers and the capacity are arbitrary.            *)
(***************************************************************************)
EXTENDS WorkerPool, FiniteSetTheorems, TLAPS

\* The types of the worker records, the lease map and the callers' leases are kept
\* by every operation of the pool.
THEOREM TypeCorrect == Spec => []TypeOK
<1> USE DEF Statuses, Steps
<1>1. Init => TypeOK
  BY DEF Init, TypeOK
<1>2. TypeOK /\ [Next]_vars => TypeOK'
  <2> SUFFICES ASSUME TypeOK, [Next]_vars PROVE TypeOK'
    OBVIOUS
  <2> USE PoolAssumption DEF TypeOK, book, Goto, Return
  <2>1. ASSUME NEW w \in Ids, AddWorker(w) PROVE TypeOK'
    BY <2>1 DEF AddWorker
  <2>2. ASSUME NEW c \in Calls, Choose(c) PROVE TypeOK'
    BY <2>2 DEF Choose
  <2>3. ASSUME NEW c \in Calls, List(c) PROVE TypeOK'
    BY <2>3 DEF List
  <2>4. ASSUME NEW c \in Calls, ListNotFound(c) \/ FreeNotFound(c) PROVE TypeOK'
    BY <2>4 DEF ListNotFound, FreeNotFound
  <2>5. ASSUME NEW c \in Calls, Lease(c) PROVE TypeOK'
    BY <2>5 DEF Lease
  <2>6. ASSUME NEW c \in Calls, Free(c) PROVE TypeOK'
    BY <2>6 DEF Free, SameTask
  <2>7. ASSUME NEW c \in Calls, Unlease(c) PROVE TypeOK'
    BY <2>7 DEF Unlease
  <2>8. ASSUME NEW w \in Ids, RemoveWorker(w) \/ ResumeRead(w) PROVE TypeOK'
    BY <2>8 DEF RemoveWorker, ResumeRead
  <2>9. ASSUME NEW w \in Ids, NEW s \in Statuses, SetStatus(w, s) \/ ResumeWrite(w, s)
        PROVE TypeOK'
    BY <2>9 DEF SetStatus, ResumeWrite
  <2>10. CASE UNCHANGED vars
    BY <2>10 DEF vars
  <2> QED
    BY <2>1, <2>2, <2>3, <2>4, <2>5, <2>6, <2>7, <2>8, <2>9, <2>10
       DEF Next, Acquire, Release, Admin
<1> QED
  BY <1>1, <1>2, PTL DEF Spec

---------------------------------------------------------------------------
\* A worker that was never added has no task and was chosen by nobody; without
\* this, adding it could start with a wrong list.
NewIsUnused ==
  /\ \A w \in Ids : status[w] = "new" => running[w] = {}
  /\ \A c \in Calls : pc[c] # "idle" => status[worker[c]] # "new"

Distinct == \A c, d \in Calls : TaskOf[c] = TaskOf[d] => c = d

\* A worker lists exactly the calls that hold it, through every interleaving of the
\* sections of acquire and release with each other and with removals, pauses and
\* resumes, when no two callers are about one task.
THEOREM Accounting ==
  ASSUME Distinct PROVE Spec => []AccountingExact
<1> DEFINE IInv == TypeOK /\ NewIsUnused /\ AccountingExact
<1>1. Init => IInv
  BY DEF Init, TypeOK, NewIsUnused, AccountingExact, Present, Statuses, Steps
<1>2. IInv /\ TypeOK' /\ [Next]_vars => IInv'
  <2> SUFFICES ASSUME TypeOK, TypeOK', NewIsUnused, AccountingExact, [Next]_vars
               PROVE NewIsUnused' /\ AccountingExact'
    OBVIOUS
  <2> USE PoolAssumption
      DEF TypeOK, book, Goto, Return, NewIsUnused, AccountingExact, Users, Present,
          Statuses, Steps
  <2>1. ASSUME NEW w \in Ids, AddWorker(w) PROVE NewIsUnused' /\ AccountingExact'
    BY <2>1 DEF AddWorker
  <2>2. ASSUME NEW c \in Calls, Choose(c) PROVE NewIsUnused' /\ AccountingExact'
    BY <2>2 DEF Choose, CanAccept
  <2>3. ASSUME NEW c \in Calls, List(c) PROVE NewIsUnused' /\ AccountingExact'
    BY <2>3 DEF List
  <2>4. ASSUME NEW c \in Calls, ListNotFound(c) \/ FreeNotFound(c)
        PROVE NewIsUnused' /\ AccountingExact'
    BY <2>4 DEF ListNotFound, FreeNotFound
  <2>5. ASSUME NEW c \in Calls, Lease(c) PROVE NewIsUnused' /\ AccountingExact'
    BY <2>5 DEF Lease
  <2>6. ASSUME NEW c \in Calls, Free(c) PROVE NewIsUnused' /\ AccountingExact'
    <3>1. SameTask(c) = {c}
      BY Distinct DEF Distinct, SameTask
    <3> QED
      BY <2>6, <3>1 DEF Free
  <2>7. ASSUME NEW c \in Calls, Unlease(c) PROVE NewIsUnused' /\ AccountingExact'
    BY <2>7 DEF Unlease
  <2>8. ASSUME NEW w \in Ids, RemoveWorker(w) \/ ResumeRead(w)
        PROVE NewIsUnused' /\ AccountingExact'
    BY <2>8 DEF RemoveWorker, ResumeRead
  <2>9. ASSUME NEW w \in Ids, NEW s \in Statuses, SetStatus(w, s) \/ ResumeWrite(w, s)
        PROVE NewIsUnused' /\ AccountingExact'
    BY <2>9 DEF SetStatus, ResumeWrite
  <2>10. CASE UNCHANGED vars
    BY <2>10 DEF vars
  <2> QED
    BY <2>1, <2>2, <2>3, <2>4, <2>5, <2>6, <2>7, <2>8, <2>9, <2>10
       DEF Next, Acquire, Release, Admin
<1> QED
  BY <1>1, <1>2, TypeCorrect, PTL DEF Spec

---------------------------------------------------------------------------
\* What the two tests on the length of current_tasks rest on: adding a task never
\* makes the list shorter, and filtering it never makes it longer.
LEMMA Shorter ==
  ASSUME NEW S \in SUBSET Calls, NEW T \in SUBSET S
  PROVE  /\ Cardinality(S) \in Nat /\ Cardinality(T) \in Nat
         /\ Cardinality(T) <= Cardinality(S)
<1>1. IsFiniteSet(S)
  BY PoolAssumption, FS_Subset
<1> QED
  BY <1>1, FS_Subset, FS_CardinalityType

\* A worker nobody manages is Busy exactly while it is full, for any capacity, even
\* when two runs are about one task or a worker was given more than it has room for.
THEOREM StatusFollowsLoad == Spec => []StatusExact
<1> DEFINE IInv == TypeOK /\ NewIsUnused /\ StatusExact
<1>1. Init => IInv
  BY DEF Init, TypeOK, NewIsUnused, StatusExact, Present, Statuses, Steps
<1>2. IInv /\ TypeOK' /\ [Next]_vars => IInv'
  <2> SUFFICES ASSUME TypeOK, TypeOK', NewIsUnused, StatusExact, [Next]_vars
               PROVE NewIsUnused' /\ StatusExact'
    OBVIOUS
  <2> USE PoolAssumption
      DEF TypeOK, book, Goto, Return, NewIsUnused, StatusExact, Present, Statuses, Steps
  <2>1. ASSUME NEW w \in Ids, AddWorker(w) PROVE NewIsUnused' /\ StatusExact'
    <3>1. running[w] = {}
      BY <2>1 DEF AddWorker
    <3>2. Cardinality(running[w]) = 0
      BY <3>1, FS_EmptySet
    <3> QED
      BY <2>1, <3>2 DEF AddWorker
  <2>2. ASSUME NEW c \in Calls, Choose(c) PROVE NewIsUnused' /\ StatusExact'
    BY <2>2 DEF Choose, CanAccept
  <2>3. ASSUME NEW c \in Calls, List(c) PROVE NewIsUnused' /\ StatusExact'
    <3> DEFINE w == worker[c]
    <3>1. w \in Ids /\ running[w] \in SUBSET running'[w] /\ running'[w] \in SUBSET Calls
      BY <2>3 DEF List
    <3>2. /\ Cardinality(running[w]) \in Nat /\ Cardinality(running'[w]) \in Nat
          /\ Cardinality(running[w]) <= Cardinality(running'[w])
      BY <3>1, Shorter
    <3>3. \A v \in Ids \ {w} : running'[v] = running[v] /\ status'[v] = status[v]
      BY <2>3 DEF List
    <3>4. Present(w) /\ status'[w] = IF Cardinality(running'[w]) >= Capacity
                                    THEN "busy" ELSE status[w]
      BY <2>3, <3>1 DEF List
    <3>5. StatusExact'
      BY <3>1, <3>2, <3>3, <3>4
    <3>6. NewIsUnused'
      BY <2>3, <3>3, <3>4 DEF List
    <3> QED
      BY <3>5, <3>6
  <2>4. ASSUME NEW c \in Calls, Lease(c) \/ Unlease(c) \/ ListNotFound(c) \/ FreeNotFound(c)
        PROVE NewIsUnused' /\ StatusExact'
    BY <2>4 DEF Lease, Unlease, ListNotFound, FreeNotFound
  <2>5. ASSUME NEW c \in Calls, Free(c) PROVE NewIsUnused' /\ StatusExact'
    <3> DEFINE w == worker[c]
    <3>1. w \in Ids /\ running'[w] \in SUBSET running[w] /\ running[w] \in SUBSET Calls
      BY <2>5 DEF Free, SameTask
    <3>2. /\ Cardinality(running[w]) \in Nat /\ Cardinality(running'[w]) \in Nat
          /\ Cardinality(running'[w]) <= Cardinality(running[w])
      BY <3>1, Shorter
    <3>3. \A v \in Ids \ {w} : running'[v] = running[v] /\ status'[v] = status[v]
      BY <2>5 DEF Free
    <3>4. Present(w) /\ status'[w] = IF Cardinality(running'[w]) < Capacity
                                    THEN "available" ELSE status[w]
      BY <2>5, <3>1 DEF Free
    <3>5. StatusExact'
      BY <3>1, <3>2, <3>3, <3>4
    <3>6. NewIsUnused'
      BY <2>5, <3>3, <3>4 DEF Free
    <3> QED
      BY <3>5, <3>6
  <2>6. ASSUME NEW w \in Managed, Admin(w) PROVE NewIsUnused' /\ StatusExact'
    <3>0. w \in Ids
      OBVIOUS
    <3>1. \A v \in Ids \ {w} : status'[v] = status[v] /\ running'[v] = running[v]
      BY <3>0, <2>6 DEF Admin, RemoveWorker, ResumeRead, SetStatus, ResumeWrite
    <3>2. pc' = pc /\ worker' = worker
      BY <2>6 DEF Admin, RemoveWorker, ResumeRead, SetStatus, ResumeWrite
    <3>3. \/ status[w] # "new" /\ status'[w] # "new"
          \/ UNCHANGED <<status, running>>
      BY <3>0, <2>6 DEF Admin, RemoveWorker, ResumeRead, SetStatus, ResumeWrite
    <3>4. StatusExact'
      BY <3>1
    <3>5. NewIsUnused'
      BY <3>1, <3>2, <3>3
    <3> QED
      BY <3>4, <3>5
  <2>7. CASE UNCHANGED vars
    BY <2>7 DEF vars
  <2> QED
    BY <2>1, <2>2, <2>3, <2>4, <2>5, <2>6, <2>7 DEF Next, Acquire, Release
<1> QED
  BY <1>1, <1>2, TypeCorrect, PTL DEF Spec

---------------------------------------------------------------------------
\* No lease names a worker that was never added: adding it would start with a lease
\* that nobody holds.
LeaseNotNew == \A t \in Tasks : leases[t] \in Ids => status[leases[t]] # "new"

\* Between acquire_worker and release_worker the lease map names the caller's worker,
\* and it names nothing else but workers removed in between: although a lease is
\* recorded and dropped in sections of their own, no interleaving with removals, with
\* resumes or with the calls about other tasks leaves a wrong entry.
THEOREM LeaseIndex ==
  ASSUME Distinct PROVE Spec => []LeaseIndexExact
<1> DEFINE IInv == TypeOK /\ NewIsUnused /\ LeaseNotNew /\ LeaseIndexExact
           Goal == NewIsUnused /\ LeaseNotNew /\ LeaseIndexExact
           Holds(t, w) == \E c \in Calls : /\ TaskOf[c] = t /\ worker[c] = w
                                           /\ pc[c] \in {"leased", "freed"}
<1>1. Init => IInv
  BY PoolAssumption
     DEF Init, TypeOK, NewIsUnused, LeaseNotNew, LeaseIndexExact, Present, Statuses, Steps
<1>2. IInv /\ TypeOK' /\ [Next]_vars => IInv'
  <2> SUFFICES ASSUME TypeOK, TypeOK', NewIsUnused, LeaseNotNew, LeaseIndexExact, [Next]_vars
               PROVE Goal'
    OBVIOUS
  <2> USE PoolAssumption
      DEF TypeOK, book, Goto, Return, NewIsUnused, LeaseNotNew, LeaseIndexExact, Present,
          Statuses, Steps
  <2>1. ASSUME NEW w \in Ids, AddWorker(w) PROVE Goal'
    BY <2>1 DEF AddWorker
  <2>2. ASSUME NEW c \in Calls, Choose(c) PROVE Goal'
    BY <2>2 DEF Choose, CanAccept
  <2>3. ASSUME NEW c \in Calls, List(c) PROVE Goal'
    BY <2>3 DEF List
  <2>4. ASSUME NEW c \in Calls, ListNotFound(c) \/ FreeNotFound(c) PROVE Goal'
    BY <2>4 DEF ListNotFound, FreeNotFound
  <2>5. ASSUME NEW c \in Calls, Lease(c) PROVE Goal'
    <3>1. /\ worker' = worker /\ status' = status /\ running' = running
          /\ leases' = [leases EXCEPT ![TaskOf[c]] = worker[c]]
          /\ pc[c] = "listed" /\ pc' = [pc EXCEPT ![c] = "leased"]
      BY <2>5 DEF Lease
    <3>2. \A d \in Calls : TaskOf[d] = TaskOf[c] => d = c
      BY Distinct DEF Distinct
    <3>3. NewIsUnused' /\ LeaseNotNew'
      BY <3>1
    <3>4. ASSUME NEW t \in Tasks, NEW w \in Ids, Present(w)
          PROVE  leases'[t] = w <=> Holds(t, w)'
      <4>0. \A d \in Calls \ {c} : pc'[d] = pc[d] /\ worker'[d] = worker[d]
        BY <3>1
      <4>1. CASE t # TaskOf[c]
        <5>1. leases'[t] = leases[t]
          BY <3>1, <4>1
        <5>2. Holds(t, w)' <=> Holds(t, w)
          BY <4>0, <4>1
        <5>3. leases[t] = w <=> Holds(t, w)
          BY <3>4
        <5> QED
          BY <5>1, <5>2, <5>3
      <4>2. CASE t = TaskOf[c]
        <5>1. leases'[t] = worker[c] /\ pc'[c] = "leased" /\ worker'[c] = worker[c]
          BY <3>1, <4>2
        <5>2. Holds(t, w)' <=> worker[c] = w
          BY <3>2, <4>2, <5>1
        <5> QED
          BY <5>1, <5>2
      <4> QED
        BY <4>1, <4>2
    <3>5. LeaseIndexExact'
      BY <3>1, <3>4
    <3> QED
      BY <3>3, <3>5
  <2>6. ASSUME NEW c \in Calls, Free(c) PROVE Goal'
    BY <2>6 DEF Free
  <2>7. ASSUME NEW c \in Calls, Unlease(c) PROVE Goal'
    <3>1. /\ worker' = [worker EXCEPT ![c] = None] /\ status' = status /\ running' = running
          /\ leases' = [leases EXCEPT ![TaskOf[c]] = None]
          /\ pc[c] = "freed" /\ pc' = [pc EXCEPT ![c] = "idle"]
      BY <2>7 DEF Unlease
    <3>2. \A d \in Calls : TaskOf[d] = TaskOf[c] => d = c
      BY Distinct DEF Distinct
    <3>3. NewIsUnused' /\ LeaseNotNew'
      BY <3>1
    <3>4. ASSUME NEW t \in Tasks, NEW w \in Ids, Present(w)
          PROVE  leases'[t] = w <=> Holds(t, w)'
      <4>0. \A d \in Calls \ {c} : pc'[d] = pc[d] /\ worker'[d] = worker[d]
        BY <3>1
      <4>1. CASE t # TaskOf[c]
        <5>1. leases'[t] = leases[t]
          BY <3>1, <4>1
        <5>2. Holds(t, w)' <=> Holds(t, w)
          BY <4>0, <4>1
        <5>3. leases[t] = w <=> Holds(t, w)
          BY <3>4
        <5> QED
          BY <5>1, <5>2, <5>3
      <4>2. CASE t = TaskOf[c]
        <5>1. leases'[t] # w
          BY <3>1, <4>2
        <5>2. ~Holds(t, w)'
          BY <3>1, <3>2, <4>2
        <5> QED
          BY <5>1, <5>2
      <4> QED
        BY <4>1, <4>2
    <3>5. LeaseIndexExact'
      BY <3>1, <3>4
    <3> QED
      BY <3>3, <3>5
  <2>8. ASSUME NEW w \in Ids, RemoveWorker(w) \/ ResumeRead(w) PROVE Goal'
    BY <2>8 DEF RemoveWorker, ResumeRead
  <2>9. ASSUME NEW w \in Ids, NEW s \in Statuses, SetStatus(w, s) \/ ResumeWrite(w, s)
        PROVE Goal'
    BY <2>9 DEF SetStatus, ResumeWrite
  <2>10. CASE UNCHANGED vars
    BY <2>10 DEF vars
  <2> QED
    BY <2>1, <2>2, <2>3, <2>4, <2>5, <2>6, <2>7, <2>8, <2>9, <2>10
       DEF Next, Acquire, Release, Admin
<1> QED
  BY <1>1, <1>2, TypeCorrect, PTL DEF Spec
=================================================================================

------------------------- MODULE TaskRecords_proof -------------------------
(***************************************************************************)
(* Proofs about the records of a task.  TLC checks one task number, two    *)
(* lives and one failed file operation; here all three are arbitrary.      *)
(***************************************************************************)
EXTENDS TaskRecords, FiniteSetTheorems, TLAPS

\* A number that has not been issued yet has left no trace in this life.
FreshIsUnused ==
    \A id \in Ids : id >= counter => queue[id] = None /\ id \notin deleted

\* A task is not cancelled while it is created, and it reaches the queue with its
\* own file on disk.
CreatedIsOwn ==
    \A c \in Clients : call[c].pc \in {"save", "enqueue"} =>
        /\ call[c].id < counter
        /\ call[c].id \notin deleted
        /\ At(c, "enqueue") =>
             disk[call[c].id] # None /\ disk[call[c].id].life = life

\* Every other call is about a task that has been created, and only a cancelled
\* task's file is deleted.
Busy == {"load", "read", "push", "update", "delete", "picked", "run"}

CallsAreIssued ==
    \A c \in Clients :
        /\ call[c].pc \in Busy => call[c].id < counter
        /\ At(c, "delete") => call[c].id \in deleted

IInv ==
    FreshIsUnused /\ CreatedIsOwn /\ CallsAreIssued /\ QueuedHasCheckpoint

Nexts == {"idle", "run", "recover"}

\* What a client's record becomes is a client's record.
LEMMA Retarget ==
  ASSUME NEW r \in Calls, NEW pc \in Pcs, NEW id \in Ids, NEW s \in Status, NEW next \in Nexts
  PROVE  [r EXCEPT !.pc = pc, !.id = id, !.held = s, !.next = next] \in Calls
BY DEF Calls, Nexts

\* A call that goes on stays a call.
LEMMA Moving ==
  ASSUME NEW r \in Calls, NEW pc \in Pcs
  PROVE  [r EXCEPT !.pc = pc] \in Calls
BY DEF Calls

\* What listing the directory starts.
LEMMA Listing ==
  ASSUME NEW r \in Calls, NEW pc \in Pcs, NEW todo \in SUBSET Ids, NEW listed \in SUBSET Ids
  PROVE  [r EXCEPT !.pc = pc, !.todo = todo, !.listed = listed] \in Calls
BY DEF Calls

\* What the recovery does with a listed task.
LEMMA Recovering ==
  ASSUME NEW r \in Calls, NEW pc \in Pcs, NEW id \in Ids, NEW s \in Status, NEW next \in Nexts
  PROVE  [r EXCEPT !.pc = pc, !.id = id, !.held = s, !.next = next, !.todo = @ \ {id}] \in Calls
BY DEF Calls, Nexts

\* What looking up a cached checkpoint gives.
LEMMA Finding ==
  ASSUME NEW r \in Calls, NEW pc \in Pcs, NEW f \in Files
  PROVE  [r EXCEPT !.pc = pc, !.found = f] \in Calls
BY DEF Calls

\* The records other than the cache keep their shape through every operation, failed
\* file writes and restarts.
THEOREM RecordTypesCorrect == Spec => []RecordTypes
<1> USE ClientsAssumption, BoundsAssumption, NoneAssumption
    DEF Ids, Lives, Status
<1>1. Init => RecordTypes
  BY DEF Init, RecordTypes, Idle, Calls, Pcs
<1>2. RecordTypes /\ [Next]_vars => RecordTypes'
  <2> SUFFICES ASSUME RecordTypes, [Next]_vars PROVE RecordTypes'
    OBVIOUS
  <2> USE DEF RecordTypes, Files
  <2> DEFINE Typed == call' \in [Clients -> Calls]
  \* What the operators that move a client do to its record.
  <2>a. Idle \in Calls
    BY DEF Idle, Calls, Pcs
  <2>b. ASSUME NEW c \in Clients, NEW new \in Calls, Goto(c, new) PROVE Typed
    BY <2>b DEF Goto
  <2>c. ASSUME NEW c \in Clients, NEW pc \in Pcs PROVE [call[c] EXCEPT !.pc = pc] \in Calls
    <3>1. call[c] \in Calls
      OBVIOUS
    <3> QED
      BY <3>1, Moving
  <2>d. ASSUME NEW c \in Clients, NEW pc \in Pcs, Step(c, pc) PROVE Typed
    BY <2>d, <2>c, <2>b DEF Step
  <2>e. ASSUME NEW c \in Clients, Return(c) PROVE Typed
    BY <2>e, <2>a, <2>b DEF Return
  <2>f. ASSUME NEW c \in Clients, NEW id \in Ids, NEW s \in Status,
               NEW next \in {"idle", "run", "recover"}, Checkpointing(c, id, s, next)
        PROVE Typed
    <3>1. [call[c] EXCEPT !.pc = "load", !.id = id, !.held = s, !.next = next] \in Calls
      <4>1. call[c] \in Calls /\ "load" \in Pcs /\ next \in Nexts
        BY DEF Pcs, Nexts
      <4> QED
        BY <4>1, Retarget
    <3> QED
      BY <2>f, <2>b, <3>1 DEF Checkpointing
  <2>g. ASSUME NEW c \in Clients, NEW id \in Ids, NEW pc \in Pcs
        PROVE [Idle EXCEPT !.pc = pc, !.id = id] \in Calls
    BY <2>a DEF Calls
  <2>h. ASSUME NEW id, NEW s \in Status, SetStatus(id, s)
        PROVE queue' \in [Ids -> Status \cup {None}]
    BY <2>h DEF SetStatus
  <2>i. \A c \in Clients : call[c] \in Calls /\ call[c].id \in Ids
                           /\ call[c].held \in Status /\ call[c].found \in Files \cup {None}
                           /\ call[c].next \in {"idle", "run", "recover"}
    BY DEF Calls
  <2>j. ASSUME NEW id, NEW s \in Status, Written(id, File(s)) \/ NotWritten(id)
        PROVE disk' \in [Ids -> Files \cup {None}] /\ faults' \in 0 .. MaxFaults
    BY <2>j DEF Written, NotWritten, File
  <2>k. ASSUME NEW c \in Clients, Continue(c) PROVE Typed
    BY <2>k, <2>d, <2>e, <2>i DEF Continue, Pcs
  <2>1. ASSUME NEW c \in Clients, Submit(c) PROVE RecordTypes'
    <3>1. Typed
      BY <2>1, <2>b, <2>g DEF Submit, Pcs
    <3> QED
      BY <2>1, <3>1 DEF Submit
  <2>2. ASSUME NEW c \in Clients, SaveNew(c) PROVE RecordTypes'
    <3>1. Typed
      BY <2>2, <2>d, <2>e DEF SaveNew, Pcs
    <3> QED
      BY <2>2, <3>1, <2>j DEF SaveNew
  <2>3. ASSUME NEW c \in Clients, Enqueue(c) PROVE RecordTypes'
    <3>1. Typed
      BY <2>3, <2>e DEF Enqueue
    <3> QED
      BY <2>3, <3>1 DEF Enqueue
  <2>4. ASSUME NEW c \in Clients, NEW id \in Ids, NEW s \in Status, Transition(c, id, s)
        PROVE RecordTypes'
    <3>1. Typed
      BY <2>4, <2>f DEF Transition
    <3> QED
      BY <2>4, <3>1, <2>h DEF Transition
  <2>5. ASSUME NEW c \in Clients, NEW id \in Ids, Patch(c, id) PROVE RecordTypes'
    <3>1. Typed
      BY <2>5, <2>f DEF Patch
    <3> QED
      BY <2>5, <3>1 DEF Patch
  <2>6. ASSUME NEW c \in Clients, Load(c) PROVE RecordTypes'
    <3>1. Typed
      BY <2>6, <2>d DEF Load, Pcs
    <3> QED
      BY <2>6, <3>1 DEF Load
  <2>7. ASSUME NEW c \in Clients, ReadFile(c) PROVE RecordTypes'
    <3>1. CASE Continue(c)
      <4>1. faults' \in 0 .. MaxFaults
        BY <2>7 DEF ReadFile
      <4> QED
        BY <2>7, <3>1, <4>1, <2>k DEF ReadFile
    <3>2. CASE ~ Continue(c)
      <4>1. /\ disk[call[c].id] # None
            /\ Goto(c, [call[c] EXCEPT !.pc = "push", !.found = disk[call[c].id]])
            /\ UNCHANGED <<life, counter, queue, cache, disk, faults, torn, deleted>>
        BY <2>7, <3>2 DEF ReadFile
      <4>2. [call[c] EXCEPT !.pc = "push", !.found = disk[call[c].id]] \in Calls
        BY <4>1, <2>i, Finding DEF Pcs
      <4> QED
        BY <4>1, <4>2, <2>b
    <3> QED
      BY <3>1, <3>2
  <2>8. ASSUME NEW c \in Clients, Push(c) PROVE RecordTypes'
    <3>1. Typed
      BY <2>8, <2>d DEF Push, Pcs
    <3> QED
      BY <2>8, <3>1 DEF Push
  <2>9. ASSUME NEW c \in Clients, Update(c) PROVE RecordTypes'
    <3>1. Typed
      BY <2>9, <2>k DEF Update
    <3>2. disk' \in [Ids -> Files \cup {None}] /\ faults' \in 0 .. MaxFaults
      BY <2>9, <2>i, <2>j DEF Update
    <3> QED
      BY <2>9, <3>1, <3>2 DEF Update
  <2>10. ASSUME NEW c \in Clients, NEW id \in Ids, Cancel(c, id) PROVE RecordTypes'
    <3>1. Typed
      BY <2>10, <2>b, <2>g DEF Cancel, Pcs
    <3> QED
      BY <2>10, <3>1, <2>h DEF Cancel
  <2>11. ASSUME NEW c \in Clients, Delete(c) PROVE RecordTypes'
    <3>1. Typed
      BY <2>11, <2>e DEF Delete
    <3>2. disk' \in [Ids -> Files \cup {None}] /\ faults' \in 0 .. MaxFaults
      <4>1. \/ disk' = [disk EXCEPT ![call[c].id] = None] /\ faults' = faults
            \/ disk' = disk /\ faults < MaxFaults /\ faults' = faults + 1
        BY <2>11 DEF Delete
      <4>2. disk' \in [Ids -> Files \cup {None}]
        BY <4>1
      <4>3. faults' \in 0 .. MaxFaults
        BY <4>1
      <4> QED
        BY <4>2, <4>3
    <3> QED
      BY <2>11, <3>1, <3>2 DEF Delete
  <2>12. ASSUME NEW c \in Clients, NEW id \in Ids, Pick(c, id) PROVE RecordTypes'
    <3>1. Typed
      BY <2>12, <2>b, <2>g DEF Pick, Pcs
    <3> QED
      BY <2>12, <3>1 DEF Pick
  <2>13. ASSUME NEW c \in Clients, RunStart(c) PROVE RecordTypes'
    <3>1. call[c].id \in Ids /\ "run" \in Pcs /\ "InProgress" \in Status
      BY <2>i DEF Pcs
    <3>2. Typed
      BY <2>13, <3>1, <2>d, <2>f DEF RunStart
    <3> QED
      BY <2>13, <3>1, <3>2, <2>h DEF RunStart
  <2>14. ASSUME NEW c \in Clients, NEW s \in Status, RunEnd(c, s)
         PROVE RecordTypes'
    <3>1. call[c].id \in Ids
      BY <2>i
    <3>2. Typed
      BY <2>14, <3>1, <2>e, <2>f DEF RunEnd
    <3> QED
      BY <2>14, <3>1, <3>2, <2>h DEF RunEnd
  <2>15. ASSUME NEW id \in Ids, NEW s \in Status, React(id, s) PROVE RecordTypes'
    BY <2>15, <2>h DEF React
  <2>16. ASSUME NEW c \in Clients, Recover(c) PROVE RecordTypes'
    <3>1. Resumable \in SUBSET Ids /\ Interrupted \in SUBSET Ids
      BY DEF Resumable, Interrupted
    <3>2. [call[c] EXCEPT !.pc = "recover", !.todo = Resumable, !.listed = Interrupted]
            \in Calls
      BY <3>1, Listing DEF Pcs
    <3>3. Typed
      BY <2>16, <3>2, <2>b DEF Recover
    <3> QED
      BY <2>16, <3>3 DEF Recover
  <2>17. ASSUME NEW c \in Clients, NEW id \in Ids, RecoverTask(c, id) PROVE RecordTypes'
    <3>1. [call[c] EXCEPT !.pc = "load", !.id = id, !.held = "Queued", !.next = "recover",
                          !.todo = @ \ {id}] \in Calls
      BY Recovering DEF Pcs, Nexts
    <3>2. Typed
      BY <2>17, <3>1, <2>b DEF RecoverTask
    <3> QED
      BY <2>17, <3>2, <2>h DEF RecoverTask
  <2>18. ASSUME NEW c \in Clients, RecoverFails(c) \/ RecoverDone(c) PROVE RecordTypes'
    <3>1. Typed
      BY <2>18, <2>e DEF RecoverFails, RecoverDone
    <3> QED
      BY <2>18, <3>1 DEF RecoverFails, RecoverDone
  <2>19. CASE Restart
    <3>1. [Idle EXCEPT !.pc = "boot", !.boot = TRUE] \in Calls
      BY <2>a DEF Calls, Pcs
    <3>2. Typed
      BY <2>19, <3>1, <2>a DEF Restart
    <3> QED
      BY <2>19, <3>2 DEF Restart
  <2>20. CASE UNCHANGED vars
    BY <2>20 DEF vars
  <2> QED
    BY <2>1, <2>2, <2>3, <2>4, <2>5, <2>6, <2>7, <2>8, <2>9, <2>10, <2>11, <2>12,
       <2>13, <2>14, <2>15, <2>16, <2>17, <2>18, <2>19, <2>20
       DEF Next, ClientStep
<1> QED
  BY <1>1, <1>2, PTL DEF Spec

---------------------------------------------------------------------------
\* The numbers, the calls and the files stay consistent through every operation.
LEMMA FilesFollow == Spec => []IInv
<1> USE ClientsAssumption, BoundsAssumption DEF Ids
<1>1. Init => IInv
  BY DEF Init, IInv, FreshIsUnused, CreatedIsOwn, CallsAreIssued, QueuedHasCheckpoint,
         Idle, Busy, At
<1>2. IInv /\ RecordTypes /\ RecordTypes' /\ [Next]_vars => IInv'
  <2> SUFFICES ASSUME IInv, RecordTypes, RecordTypes', [Next]_vars PROVE IInv'
    OBVIOUS
  <2> USE DEF Busy, At
  <2>a. /\ counter \in Int /\ call \in [Clients -> Calls]
        /\ queue \in [Ids -> Status \cup {None}] /\ disk \in [Ids -> Files \cup {None}]
        /\ \A c \in Clients : call[c].id \in Ids
    BY DEF RecordTypes, Calls
  <2>j. /\ \A c \in Clients : call[c].pc \in Busy => call[c].id < counter
        /\ \A c \in Clients : call[c].pc = "delete" => call[c].id \in deleted
        /\ \A id \in Ids : queue[id] # None => id < counter
    BY <2>a DEF IInv, CallsAreIssued, FreshIsUnused
  \* A step of c leaves the other clients where they are.
  <2>b. ASSUME NEW c \in Clients, NEW new, Goto(c, new)
        PROVE  call'[c] = new /\ \A d \in Clients \ {c} : call'[d] = call[d]
    BY <2>a, <2>b DEF Goto
  <2>c. ASSUME NEW c \in Clients, Return(c)
        PROVE  call'[c].pc = "idle" /\ \A d \in Clients \ {c} : call'[d] = call[d]
    BY <2>b, <2>c DEF Return, Idle
  <2>d. ASSUME NEW c \in Clients, NEW pc, Step(c, pc)
        PROVE  /\ call'[c].pc = pc /\ call'[c].id = call[c].id
               /\ \A d \in Clients \ {c} : call'[d] = call[d]
    <3>1. [call[c] EXCEPT !.pc = pc].pc = pc /\ [call[c] EXCEPT !.pc = pc].id = call[c].id
      BY <2>a DEF Calls
    <3> QED
      BY <2>d, <2>b, <3>1 DEF Step
  <2>e. ASSUME NEW c \in Clients, NEW id, NEW s, NEW next, Checkpointing(c, id, s, next)
        PROVE  /\ call'[c].pc = "load" /\ call'[c].id = id
               /\ \A d \in Clients \ {c} : call'[d] = call[d]
    <3> DEFINE new == [call[c] EXCEPT !.pc = "load", !.id = id, !.held = s, !.next = next]
    <3>1. new.pc = "load" /\ new.id = id
      BY <2>a DEF Calls
    <3> QED
      BY <2>e, <2>b, <3>1 DEF Checkpointing
  <2>f. ASSUME NEW c \in Clients, Continue(c)
        PROVE  /\ \/ call'[c].pc = "idle"
                  \/ call'[c].pc = call[c].next /\ call'[c].id = call[c].id
               /\ \A d \in Clients \ {c} : call'[d] = call[d]
    BY <2>f, <2>c, <2>d DEF Continue
  <2>g. \A c \in Clients : call[c].next \in {"idle", "run", "recover"}
    BY <2>a DEF Calls
  \* A status is only changed where there was one.
  <2>h. ASSUME NEW id, NEW s, SetStatus(id, s)
        PROVE  \A i \in Ids : queue'[i] # None => queue[i] # None
    BY <2>a, <2>h DEF SetStatus
  <2>i. ASSUME NEW id \in Ids, NEW s \in Status, Written(id, File(s))
        PROVE  \A i \in Ids : \/ disk'[i] = disk[i]
                              \/ disk'[i] # None /\ disk'[i].life = life
    <3>1. File(s).life = life
      BY DEF File
    <3>2. File(s) # None
      BY NoneAssumption DEF File, RecordTypes
    <3> QED
      BY <2>a, <2>i, <3>1, <3>2 DEF Written
  \* A step that creates nothing, cancels nothing and takes no file of a task that
  \* nobody cancelled.
  <2>q. ASSUME NEW c \in Clients,
               \A d \in Clients \ {c} : call'[d] = call[d],
               call'[c].pc \notin {"save", "enqueue", "delete"},
               call'[c].pc \in Busy => call'[c].id < counter,
               UNCHANGED <<life, counter, deleted>>,
               \A i \in Ids : queue'[i] # None => queue[i] # None,
               \A i \in Ids \ deleted :
                 disk'[i] = disk[i] \/ (disk'[i] # None /\ disk'[i].life = life)
        PROVE  IInv'
    <3>1. FreshIsUnused' /\ QueuedHasCheckpoint'
      BY <2>q, <2>a DEF IInv, FreshIsUnused, QueuedHasCheckpoint
    <3>2. CreatedIsOwn'
      BY <2>q, <2>a DEF IInv, CreatedIsOwn
    <3>3. CallsAreIssued'
      BY <2>q, <2>a DEF IInv, CallsAreIssued
    <3> QED
      BY <3>1, <3>2, <3>3 DEF IInv
  <2>1. ASSUME NEW c \in Clients, Submit(c) PROVE IInv'
    <3>1. /\ call'[c].pc = "save" /\ call'[c].id = counter
          /\ \A d \in Clients \ {c} : call'[d] = call[d]
      <4> DEFINE new == [Idle EXCEPT !.pc = "save", !.id = counter]
      <4>1. new.pc = "save" /\ new.id = counter
        BY DEF Idle
      <4>2. Goto(c, new)
        BY <2>1 DEF Submit
      <4> HIDE DEF new
      <4> QED
        BY <4>1, <4>2, <2>b
    <3> QED
      BY <2>1, <2>a, <3>1 DEF Submit,
         IInv, FreshIsUnused, CreatedIsOwn, CallsAreIssued, QueuedHasCheckpoint
  <2>2. ASSUME NEW c \in Clients, SaveNew(c) PROVE IInv'
    <3>1. /\ \A d \in Clients \ {c} : call'[d] = call[d]
          /\ call'[c].pc = "idle" \/ (call'[c].pc = "enqueue" /\ call'[c].id = call[c].id)
      BY <2>2, <2>c, <2>d DEF SaveNew
    <3>2. \A i \in Ids : disk'[i] = disk[i] \/ (disk'[i] # None /\ disk'[i].life = life)
      BY <2>2, <2>a, <2>i DEF SaveNew, NotWritten, Status
    <3>3. call'[c].pc = "enqueue" =>
            disk'[call[c].id] # None /\ disk'[call[c].id].life = life
      <4>1. CASE Written(call[c].id, File("Backlog"))
        <5>1. disk'[call[c].id] = File("Backlog")
          BY <4>1, <2>a DEF Written
        <5>2. File("Backlog") # None /\ File("Backlog").life = life
          BY NoneAssumption DEF File, RecordTypes, Status
        <5> QED
          BY <5>1, <5>2
      <4>2. CASE Return(c)
        BY <4>2, <2>c
      <4> QED
        BY <2>2, <4>1, <4>2 DEF SaveNew
    <3>4. call[c].pc = "save" /\ UNCHANGED <<life, counter, queue, deleted>>
      BY <2>2 DEF SaveNew
    <3>5. FreshIsUnused' /\ QueuedHasCheckpoint'
      BY <2>a, <3>2, <3>4 DEF IInv, FreshIsUnused, QueuedHasCheckpoint
    <3>6. CreatedIsOwn'
      BY <2>a, <3>1, <3>2, <3>3, <3>4 DEF IInv, CreatedIsOwn
    <3>7. CallsAreIssued'
      BY <2>a, <3>1, <3>4 DEF IInv, CallsAreIssued, Busy
    <3> QED
      BY <3>5, <3>6, <3>7 DEF IInv
  <2>3. ASSUME NEW c \in Clients, Enqueue(c) PROVE IInv'
    <3>1. /\ call[c].pc = "enqueue" /\ call'[c].pc = "idle"
          /\ \A d \in Clients \ {c} : call'[d] = call[d]
          /\ UNCHANGED <<life, counter, disk, deleted>>
      BY <2>3, <2>c DEF Enqueue
    <3>2. \A i \in Ids \ {call[c].id} : queue'[i] = queue[i]
      BY <2>3, <2>a DEF Enqueue
    <3>3. FreshIsUnused' /\ QueuedHasCheckpoint'
      BY <2>a, <3>1, <3>2 DEF IInv, FreshIsUnused, QueuedHasCheckpoint, CreatedIsOwn
    <3>4. CreatedIsOwn'
      BY <2>a, <3>1 DEF IInv, CreatedIsOwn
    <3>5. CallsAreIssued'
      BY <2>a, <3>1 DEF IInv, CallsAreIssued
    <3> QED
      BY <3>3, <3>4, <3>5 DEF IInv
  <2>4. ASSUME NEW c \in Clients, NEW id \in Ids, NEW s \in Status, Transition(c, id, s)
        PROVE IInv'
    <3>1. /\ queue[id] # None /\ SetStatus(id, s) /\ Checkpointing(c, id, s, "idle")
          /\ UNCHANGED <<life, counter, disk, deleted>>
      BY <2>4 DEF Transition
    <3>2. id < counter
      BY <2>j, <3>1
    <3> QED
      BY <2>e, <2>h, <2>q, <3>1, <3>2
  <2>5. ASSUME NEW c \in Clients, NEW id \in Ids, Patch(c, id) PROVE IInv'
    <3>1. /\ queue[id] # None /\ Checkpointing(c, id, queue[id], "idle")
          /\ UNCHANGED <<life, counter, queue, disk, deleted>>
      BY <2>5 DEF Patch
    <3>2. id < counter
      BY <2>j, <3>1
    <3> QED
      BY <2>e, <2>q, <3>1, <3>2
  <2>6. ASSUME NEW c \in Clients, Load(c) PROVE IInv'
    <3>1. /\ call[c].pc = "load"
          /\ Step(c, "update") \/ Step(c, "read")
          /\ UNCHANGED <<life, counter, queue, disk, deleted>>
      BY <2>6 DEF Load
    <3>2. call'[c].pc \in {"update", "read"} /\ call'[c].id < counter
      BY <2>d, <2>j, <3>1
    <3> QED
      BY <2>d, <2>q, <3>1, <3>2
  <2>7. ASSUME NEW c \in Clients, ReadFile(c) PROVE IInv'
    <3>1. call[c].pc = "read" /\ UNCHANGED <<life, counter, queue, disk, deleted>>
      BY <2>7 DEF ReadFile
    <3>2. CASE Continue(c)
      BY <2>f, <2>g, <2>j, <2>q, <3>1, <3>2
    <3>3. CASE ~ Continue(c)
      <4> DEFINE new == [call[c] EXCEPT !.pc = "push", !.found = disk[call[c].id]]
      <4>1. new.pc = "push" /\ new.id = call[c].id
        BY <2>a DEF Calls
      <4>2. Goto(c, new)
        BY <2>7, <3>3 DEF ReadFile
      <4> HIDE DEF new
      <4> QED
        BY <2>b, <2>j, <2>q, <3>1, <4>1, <4>2
    <3> QED
      BY <3>2, <3>3
  <2>8. ASSUME NEW c \in Clients, Push(c) PROVE IInv'
    <3>1. /\ call[c].pc = "push" /\ Step(c, "update")
          /\ UNCHANGED <<life, counter, queue, disk, deleted>>
      BY <2>8 DEF Push
    <3> QED
      BY <2>d, <2>j, <2>q, <3>1
  <2>9. ASSUME NEW c \in Clients, Update(c) PROVE IInv'
    <3>1. call[c].held \in Status
      BY <2>a DEF Calls
    <3>2. \A i \in Ids : disk'[i] = disk[i] \/ (disk'[i] # None /\ disk'[i].life = life)
      BY <2>9, <2>a, <2>i, <3>1 DEF Update, NotWritten
    <3>3. /\ call[c].pc = "update" /\ Continue(c)
          /\ UNCHANGED <<life, counter, queue, deleted>>
      BY <2>9 DEF Update
    <3> QED
      BY <2>f, <2>g, <2>j, <2>q, <3>2, <3>3
  <2>10. ASSUME NEW c \in Clients, NEW id \in Ids, Cancel(c, id) PROVE IInv'
    <3>1. /\ call'[c].pc = "delete" /\ call'[c].id = id
          /\ \A d \in Clients \ {c} : call'[d] = call[d]
      <4> DEFINE new == [Idle EXCEPT !.pc = "delete", !.id = id]
      <4>1. new.pc = "delete" /\ new.id = id
        BY DEF Idle
      <4>2. Goto(c, new)
        BY <2>10 DEF Cancel
      <4> HIDE DEF new
      <4> QED
        BY <4>1, <4>2, <2>b
    <3>2. /\ id < counter /\ ~ Creating(id) /\ SetStatus(id, "Failed")
          /\ deleted' = deleted \cup {id}
          /\ UNCHANGED <<life, counter, disk>>
      BY <2>10 DEF Cancel, Issued
    <3>3. \A i \in Ids : queue'[i] # None => queue[i] # None
      BY <2>h, <3>2
    <3>4. FreshIsUnused' /\ QueuedHasCheckpoint'
      BY <2>a, <3>2, <3>3 DEF IInv, FreshIsUnused, QueuedHasCheckpoint
    <3>5. CreatedIsOwn'
      BY <2>a, <3>1, <3>2 DEF IInv, CreatedIsOwn, Creating
    <3>6. CallsAreIssued'
      BY <2>a, <3>1, <3>2 DEF IInv, CallsAreIssued
    <3> QED
      BY <3>4, <3>5, <3>6 DEF IInv
  <2>11. ASSUME NEW c \in Clients, Delete(c) PROVE IInv'
    <3>1. \A i \in Ids \ deleted : disk'[i] = disk[i]
      BY <2>11, <2>a, <2>j DEF Delete
    <3>2. Return(c) /\ UNCHANGED <<life, counter, queue, deleted>>
      BY <2>11 DEF Delete
    <3> QED
      BY <2>c, <2>q, <3>1, <3>2
  <2>12. ASSUME NEW c \in Clients, NEW id \in Ids, Pick(c, id) PROVE IInv'
    <3> DEFINE new == [Idle EXCEPT !.pc = "picked", !.id = id]
    <3>1. new.pc = "picked" /\ new.id = id
      BY DEF Idle
    <3>2. Goto(c, new) /\ UNCHANGED <<life, counter, queue, disk, deleted>>
      BY <2>12 DEF Pick
    <3>3. id < counter
      BY <2>12, <2>j, NoneAssumption DEF Pick, Status
    <3> HIDE DEF new
    <3> QED
      BY <2>b, <2>q, <3>1, <3>2, <3>3
  <2>13. ASSUME NEW c \in Clients, RunStart(c) PROVE IInv'
    <3>1. /\ call[c].pc = "picked" /\ SetStatus(call[c].id, "InProgress")
          /\ \/ Step(c, "run")
             \/ Checkpointing(c, call[c].id, "InProgress", "run")
          /\ UNCHANGED <<life, counter, disk, deleted>>
      BY <2>13 DEF RunStart
    <3> QED
      BY <2>d, <2>e, <2>h, <2>j, <2>q, <3>1
  <2>14. ASSUME NEW c \in Clients, NEW s \in Status, RunEnd(c, s) PROVE IInv'
    <3>1. /\ call[c].pc = "run" /\ SetStatus(call[c].id, s)
          /\ Return(c) \/ Checkpointing(c, call[c].id, s, "idle")
          /\ UNCHANGED <<life, counter, disk, deleted>>
      BY <2>14 DEF RunEnd
    <3> QED
      BY <2>c, <2>e, <2>h, <2>j, <2>q, <3>1
  <2>15. ASSUME NEW id \in Ids, NEW s \in Status, React(id, s) PROVE IInv'
    BY <2>15, <2>a, <2>h DEF React,
       IInv, FreshIsUnused, CreatedIsOwn, CallsAreIssued, QueuedHasCheckpoint
  <2>16. ASSUME NEW c \in Clients, Recover(c) PROVE IInv'
    <3> DEFINE new == [call[c] EXCEPT !.pc = "recover", !.todo = Resumable,
                                      !.listed = Interrupted]
    <3>1. new.pc = "recover"
      BY <2>a DEF Calls
    <3>2. Goto(c, new) /\ UNCHANGED <<life, counter, queue, disk, deleted>>
      BY <2>16 DEF Recover
    <3> HIDE DEF new
    <3> QED
      BY <2>b, <2>q, <3>1, <3>2
  <2>17. ASSUME NEW c \in Clients, NEW id \in Ids, RecoverTask(c, id) PROVE IInv'
    <3> DEFINE new == [call[c] EXCEPT !.pc = "load", !.id = id, !.held = "Queued",
                                      !.next = "recover", !.todo = @ \ {id}]
    <3>1. new.pc = "load" /\ new.id = id
      BY <2>a DEF Calls
    <3>2. /\ queue[id] # None /\ SetStatus(id, "Queued") /\ Goto(c, new)
          /\ UNCHANGED <<life, counter, disk, deleted>>
      BY <2>17 DEF RecoverTask
    <3>3. id < counter
      BY <2>j, <3>2
    <3> HIDE DEF new
    <3> QED
      BY <2>b, <2>h, <2>q, <3>1, <3>2, <3>3
  <2>18. ASSUME NEW c \in Clients, RecoverFails(c) \/ RecoverDone(c) PROVE IInv'
    <3>1. Return(c) /\ UNCHANGED <<life, counter, queue, disk, deleted>>
      BY <2>18 DEF RecoverFails, RecoverDone
    <3> QED
      BY <2>c, <2>q, <3>1
  <2>19. CASE Restart
    <3>1. \A c \in Clients : call'[c].pc \in {"idle", "boot"}
      BY <2>19 DEF Restart, Idle
    <3> QED
      BY <2>19, <3>1 DEF Restart,
         IInv, FreshIsUnused, CreatedIsOwn, CallsAreIssued, QueuedHasCheckpoint
  <2>20. CASE UNCHANGED vars
    BY <2>20 DEF vars,
       IInv, FreshIsUnused, CreatedIsOwn, CallsAreIssued, QueuedHasCheckpoint
  <2> QED
    BY <2>1, <2>2, <2>3, <2>4, <2>5, <2>6, <2>7, <2>8, <2>9, <2>10, <2>11, <2>12,
       <2>13, <2>14, <2>15, <2>16, <2>17, <2>18, <2>19, <2>20
       DEF Next, ClientStep
<1> QED
  BY <1>1, <1>2, RecordTypesCorrect, PTL DEF Spec

\* Whatever is created, moved, cancelled, run and recovered at the same time, and
\* wherever the process stops, a queued task that nobody cancelled has a checkpoint
\* file, and the file is its own.
THEOREM CheckpointFirst == Spec => []QueuedHasCheckpoint
  BY FilesFollow, PTL DEF IInv

---------------------------------------------------------------------------
(* Sequences of entries: their places, what retain leaves and what a search finds. *)

\* How many places of K come no later than k.
Rank(K, k) == Cardinality({j \in K : j <= k})

\* The places of a finite set are counted from 1 without a gap, in their order.
LEMMA Ranks ==
  ASSUME NEW n \in Nat, NEW K \in SUBSET (1 .. n)
  PROVE  /\ Cardinality(K) \in Nat
         /\ \A k \in K : Rank(K, k) \in 1 .. Cardinality(K)
         /\ \A j, k \in K : j < k => Rank(K, j) < Rank(K, k)
         /\ \A m \in 1 .. Cardinality(K) : \E k \in K : Rank(K, k) = m
<1>1. IsFiniteSet(1 .. n)
  BY FS_Interval
<1>2. IsFiniteSet(K) /\ Cardinality(K) \in Nat
  BY <1>1, FS_Subset, FS_CardinalityType
<1> DEFINE upTo(k) == {j \in K : j <= k}
<1>0. \A k \in K : k \in Int
  OBVIOUS
<1>3. ASSUME NEW k \in K PROVE IsFiniteSet(upTo(k)) /\ Rank(K, k) \in 1 .. Cardinality(K)
  <2>1. upTo(k) \subseteq K /\ k \in upTo(k)
    BY <1>0
  <2>2. /\ IsFiniteSet(upTo(k)) /\ Cardinality(upTo(k)) \in Nat
        /\ Cardinality(upTo(k)) <= Cardinality(K)
    BY <1>2, <2>1, FS_Subset, FS_CardinalityType
  <2>3. Cardinality(upTo(k)) # 0
    BY <2>1, <2>2, FS_EmptySet
  <2> QED
    BY <1>2, <2>2, <2>3 DEF Rank
<1>4. ASSUME NEW j \in K, NEW k \in K, j < k PROVE Rank(K, j) < Rank(K, k)
  <2>1. upTo(j) \subseteq upTo(k) /\ k \in upTo(k) /\ k \notin upTo(j)
    <3>1. j \in Int /\ k \in Int
      BY <1>0
    <3>2. ASSUME NEW i \in K, i <= j PROVE i <= k
      <4>1. i \in Int
        BY <1>0
      <4> QED
        BY <1>4, <3>1, <3>2, <4>1
    <3>3. k <= k /\ ~ (k <= j)
      BY <1>4, <3>1
    <3> QED
      BY <3>2, <3>3, Zenon
  <2>2. Cardinality(upTo(j)) <= Cardinality(upTo(k)) /\ Cardinality(upTo(j)) # Cardinality(upTo(k))
    BY <1>3, <2>1, FS_Subset
  <2>3. Cardinality(upTo(j)) \in Nat /\ Cardinality(upTo(k)) \in Nat
    BY <1>3, FS_CardinalityType
  <2> QED
    BY <2>2, <2>3 DEF Rank
<1>a. \A k \in K : Rank(K, k) \in Int
  <2> HIDE DEF upTo
  <2> QED
    BY <1>2, <1>3
<1>5. ASSUME NEW m \in 1 .. Cardinality(K) PROVE \E k \in K : Rank(K, k) = m
  <2> DEFINE rank == [k \in K |-> Rank(K, k)]
             places == 1 .. Cardinality(K)
  <2>1. rank \in [K -> places]
    BY <1>3
  <2>2. ASSUME NEW j \in K, NEW k \in K, rank[j] = rank[k] PROVE j = k
    <3>1. Rank(K, j) = Rank(K, k) /\ Rank(K, j) \in Int
      BY <1>a, <2>2
    <3>2. ~ (j < k) /\ ~ (k < j)
      BY <1>4, <3>1
    <3> QED
      BY <1>0, <3>2
  <2>3. rank \in Injection(K, places)
    BY <2>1, <2>2 DEF Injection, IsInjective
  <2>4. IsFiniteSet(places) /\ Cardinality(places) = Cardinality(K)
    BY <1>2, FS_Interval
  <2>5. rank \in Surjection(K, places)
    BY <2>3, <2>4, FS_Injection
  <2> QED
    BY <2>5 DEF Surjection
<1> QED
  BY <1>2, <1>3, <1>4, <1>5

\* A set of places that is not empty has a first one.
LEMMA FirstPlace ==
  ASSUME NEW n \in Nat, NEW K \in SUBSET (1 .. n), K # {}
  PROVE  \E k \in K : \A j \in K : k <= j
<1>1. Cardinality(K) \in Nat /\ Cardinality(K) # 0
  <2>1. IsFiniteSet(1 .. n)
    BY FS_Interval
  <2>2. IsFiniteSet(K)
    BY <2>1, FS_Subset
  <2>3. Cardinality(K) # 0
    BY <2>2, FS_EmptySet
  <2>4. Cardinality(K) \in Nat
    BY <2>2, FS_CardinalityType
  <2> QED
    BY <2>3, <2>4
<1>2. PICK k \in K : Rank(K, k) = 1
  <2>1. \A m \in 1 .. Cardinality(K) : \E k \in K : Rank(K, k) = m
    BY Ranks
  <2>2. 1 \in 1 .. Cardinality(K)
    BY <1>1
  <2> QED
    BY <2>1, <2>2
<1>3. ASSUME NEW j \in K, j < k PROVE FALSE
  <2>1. Rank(K, j) < Rank(K, k) /\ Rank(K, j) \in 1 .. Cardinality(K)
    BY <1>3, Ranks
  <2> QED
    BY <1>1, <1>2, <2>1
<1> QED
  BY <1>3
\* t holds what s holds at the places K: at says where each entry was.
KeptFrom(t, s, K, at) ==
    /\ at \in [1 .. Len(t) -> K]
    /\ \A m \in 1 .. Len(t) : t[m] = s[at[m]]
    /\ \A m, o \in 1 .. Len(t) : m < o => at[m] < at[o]
    /\ \A k \in K : \E m \in 1 .. Len(t) : at[m] = k

\* What retain leaves: every kept place once, in the order it had.
LEMMA Retained ==
  ASSUME NEW S, NEW s \in Seq(S), NEW K \in SUBSET (1 .. Len(s)), NEW t, t = Retain(s, K)
  PROVE  /\ t \in Seq(S)
         /\ \E at : KeptFrom(t, s, K, at)
<1> DEFINE c == Cardinality(K)
           at == [m \in 1 .. c |-> CHOOSE k \in K : Rank(K, k) = m]
<1>1. /\ c \in Nat
      /\ \A k \in K : k \in Int /\ Rank(K, k) \in 1 .. c
      /\ \A j, k \in K : j < k => Rank(K, j) < Rank(K, k)
      /\ \A m \in 1 .. c : \E k \in K : Rank(K, k) = m
  <2>1. Len(s) \in Nat /\ \A k \in K : k \in Int
    OBVIOUS
  <2> QED
    BY <2>1, Ranks
<1>2. \A m \in 1 .. c : at[m] \in K /\ Rank(K, at[m]) = m
  BY <1>1
<1>3. at \in [1 .. c -> K]
  BY <1>2
<1>4. t = [m \in 1 .. c |-> s[at[m]]]
  BY DEF Retain, Rank
<1> HIDE DEF at, c
<1>5. ASSUME NEW m \in 1 .. c PROVE s[at[m]] \in S
  <2>1. at[m] \in 1 .. Len(s)
    BY <1>2
  <2> QED
    BY <2>1
<1>6. t \in Seq(S) /\ Len(t) = c
  BY <1>1, <1>4, <1>5
<1>7. ASSUME NEW m \in 1 .. c, NEW o \in 1 .. c, m < o PROVE at[m] < at[o]
  <2>1. at[m] \in Int /\ at[o] \in Int /\ Rank(K, at[m]) = m /\ Rank(K, at[o]) = o
    BY <1>1, <1>2
  <2>2. at[m] # at[o] /\ ~ (at[o] < at[m])
    BY <1>1, <1>2, <1>7, <2>1
  <2> QED
    BY <2>1, <2>2
<1>8. ASSUME NEW k \in K PROVE at[Rank(K, k)] = k
  <2> DEFINE j == at[Rank(K, k)]
  <2>1. /\ Rank(K, k) \in 1 .. c /\ k \in Int
        /\ j \in K /\ j \in Int /\ Rank(K, j) = Rank(K, k)
    BY <1>1, <1>2
  <2>2. ~ (j < k) /\ ~ (k < j)
    <3> HIDE DEF j
    <3> QED
      BY <1>1, <2>1
  <2> QED
    BY <2>1, <2>2
<1>9. KeptFrom(t, s, K, at)
  BY <1>1, <1>3, <1>4, <1>6, <1>7, <1>8 DEF KeptFrom
<1> QED
  BY <1>6, <1>9

\* The places that hold a task in a sequence of entries, and what a search from the
\* front answers.
PlacesOf(s, id) == {i \in 1 .. Len(s) : s[i].id = id}
Answer(s, id) ==
    IF PlacesOf(s, id) = {} THEN None
    ELSE s[CHOOSE i \in PlacesOf(s, id) : \A j \in PlacesOf(s, id) : i <= j].file

\* A search stops at the first place that holds the task, and there is one.
LEMMA AnswerIs ==
  ASSUME NEW s \in Seq(Entries), NEW id
  PROVE  /\ PlacesOf(s, id) \subseteq 1 .. Len(s)
         /\ \A i \in PlacesOf(s, id) :
              (\A j \in PlacesOf(s, id) : i <= j) => Answer(s, id) = s[i].file
         /\ PlacesOf(s, id) # {} =>
              \E i \in PlacesOf(s, id) : \A j \in PlacesOf(s, id) : i <= j
         /\ Answer(s, id) = None <=> PlacesOf(s, id) = {}
<1> DEFINE P == PlacesOf(s, id)
<1>1. P \in SUBSET (1 .. Len(s)) /\ Len(s) \in Nat
  BY DEF PlacesOf
<1>2. P # {} => \E i \in P : \A j \in P : i <= j
  BY <1>1, FirstPlace
<1>3. ASSUME NEW i \in P, \A j \in P : i <= j PROVE Answer(s, id) = s[i].file
  <2> DEFINE f == CHOOSE k \in P : \A j \in P : k <= j
  <2>1. f \in P /\ \A j \in P : f <= j
    BY <1>3
  <2> HIDE DEF f
  <2>2. f = i
    BY <1>1, <1>3, <2>1
  <2> QED
    BY <1>3, <2>2 DEF Answer, f
<1>4. ASSUME NEW i \in P PROVE s[i].file # None
  <2>1. s[i] \in Entries
    BY <1>1
  <2> QED
    BY <2>1, NoneAssumption DEF Entries, Files
<1> HIDE DEF P
<1>5. Answer(s, id) = None <=> P = {}
  <2>1. P = {} => Answer(s, id) = None
    BY DEF Answer, P
  <2> QED
    BY <1>2, <1>3, <1>4, <2>1
<1> QED
  BY <1>1, <1>2, <1>3, <1>5 DEF P

\* A search finds the last entry only if there was none before.
LEMMA AnswerAppended ==
  ASSUME NEW s \in Seq(Entries), NEW e \in Entries, NEW id
  PROVE  Answer(Append(s, e), id) =
           IF e.id = id /\ Answer(s, id) = None THEN e.file ELSE Answer(s, id)
<1> DEFINE t == Append(s, e)
           n == Len(s) + 1
<1>1. /\ t \in Seq(Entries) /\ Len(t) = n /\ Len(s) \in Nat
      /\ t[n] = e /\ \A i \in 1 .. Len(s) : t[i] = s[i]
  OBVIOUS
<1> HIDE DEF t
<1>2. /\ PlacesOf(s, id) \subseteq 1 .. Len(s)
      /\ PlacesOf(t, id) = PlacesOf(s, id) \cup {i \in {n} : e.id = id}
  BY <1>1 DEF PlacesOf
<1>3. CASE PlacesOf(s, id) # {}
  <2>1. PICK i \in PlacesOf(s, id) : \A j \in PlacesOf(s, id) : i <= j
    BY <1>3, AnswerIs
  <2>2. i \in 1 .. Len(s) /\ i \in PlacesOf(t, id) /\ i <= n
    BY <1>1, <1>2
  <2>3. \A j \in PlacesOf(t, id) : i <= j
    BY <1>2, <2>1, <2>2
  <2>4. Answer(t, id) = t[i].file /\ Answer(s, id) = s[i].file
    BY <1>1, <2>1, <2>2, <2>3, AnswerIs
  <2>5. Answer(s, id) # None
    BY <1>3, AnswerIs
  <2> QED
    BY <1>1, <2>2, <2>4, <2>5 DEF t
<1>4. CASE PlacesOf(s, id) = {}
  <2>1. Answer(s, id) = None
    BY <1>4, AnswerIs
  <2>2. CASE e.id = id
    <3>1. PlacesOf(t, id) = {n} /\ n \in Nat
      BY <1>1, <1>2, <1>4, <2>2
    <3>2. Answer(t, id) = t[n].file
      <4>1. n \in PlacesOf(t, id) /\ \A j \in PlacesOf(t, id) : n <= j
        BY <3>1
      <4> QED
        BY <1>1, <4>1, AnswerIs
    <3> QED
      BY <1>1, <2>1, <2>2, <3>2 DEF t
  <2>3. CASE e.id # id
    <3>1. PlacesOf(t, id) = {}
      BY <1>2, <1>4, <2>3
    <3>2. Answer(t, id) = None
      BY <1>1, <3>1, AnswerIs
    <3> QED
      BY <2>1, <2>3, <3>2 DEF t
  <2> QED
    BY <2>2, <2>3
<1> QED
  BY <1>3, <1>4

\* Writing the entry a search finds changes what is found for its task, and for no other.
LEMMA AnswerWritten ==
  ASSUME NEW s \in Seq(Entries), NEW e \in Entries, NEW i \in PlacesOf(s, e.id),
         \A j \in PlacesOf(s, e.id) : i <= j, NEW id
  PROVE  /\ [s EXCEPT ![i] = e] \in Seq(Entries)
         /\ Answer([s EXCEPT ![i] = e], id) = IF e.id = id THEN e.file ELSE Answer(s, id)
<1> DEFINE t == [s EXCEPT ![i] = e]
<1>0. i \in 1 .. Len(s) /\ s[i].id = e.id /\ Len(s) \in Nat
  BY DEF PlacesOf
<1>1. /\ t \in Seq(Entries) /\ Len(t) = Len(s)
      /\ t[i] = e /\ \A j \in 1 .. Len(s) : j # i => t[j] = s[j]
  BY <1>0
<1> HIDE DEF t
<1>2. PlacesOf(t, id) = PlacesOf(s, id)
  BY <1>0, <1>1 DEF PlacesOf
<1>3. CASE PlacesOf(s, id) = {}
  <2>1. e.id # id
    BY <1>3
  <2>2. Answer(s, id) = None /\ Answer(t, id) = None
    BY <1>1, <1>2, <1>3, AnswerIs
  <2> QED
    BY <1>1, <2>1, <2>2 DEF t
<1>4. CASE PlacesOf(s, id) # {}
  <2>1. PICK k \in PlacesOf(s, id) : \A j \in PlacesOf(s, id) : k <= j
    BY <1>4, AnswerIs
  <2>2. Answer(s, id) = s[k].file /\ Answer(t, id) = t[k].file
    BY <1>1, <1>2, <2>1, AnswerIs
  <2>3. k \in 1 .. Len(s) /\ s[k].id = id
    BY DEF PlacesOf
  <2>4. CASE e.id = id
    <3>1. k = i
      BY <1>0, <2>1, <2>3, <2>4
    <3> QED
      BY <1>1, <2>2, <2>4, <3>1 DEF t
  <2>5. CASE e.id # id
    <3>1. t[k] = s[k]
      BY <1>0, <1>1, <2>3, <2>5
    <3> QED
      BY <1>1, <2>2, <2>5, <3>1 DEF t
  <2> QED
    BY <2>4, <2>5
<1> QED
  BY <1>3, <1>4

\* Retaining the entries of the other tasks leaves what a search finds for them.
LEMMA AnswerRetained ==
  ASSUME NEW s \in Seq(Entries), NEW gone, NEW id,
         NEW t, t = Retain(s, (1 .. Len(s)) \ PlacesOf(s, gone))
  PROVE  /\ t \in Seq(Entries)
         /\ Answer(t, id) = IF id = gone THEN None ELSE Answer(s, id)
<1> DEFINE K == (1 .. Len(s)) \ PlacesOf(s, gone)
<1>0. K \in SUBSET (1 .. Len(s)) /\ Len(s) \in Nat /\ \A k \in K : k \in Int /\ s[k].id # gone
  BY DEF PlacesOf
<1> HIDE DEF K
<1>a. t = Retain(s, K)
  BY DEF K
<1>1. t \in Seq(Entries) /\ Len(t) \in Nat
  BY <1>0, <1>a, Retained
<1>b. PICK at : KeptFrom(t, s, K, at)
  BY <1>0, <1>a, Retained
<1>2. /\ \A m \in 1 .. Len(t) : at[m] \in K /\ t[m] = s[at[m]]
      /\ \A m, o \in 1 .. Len(t) : m < o => at[m] < at[o]
      /\ \A k \in K : \E m \in 1 .. Len(t) : at[m] = k
  BY <1>b DEF KeptFrom
<1>3. CASE id = gone
  <2>1. ASSUME NEW m \in 1 .. Len(t) PROVE t[m].id # id
    <3>1. at[m] \in K /\ t[m] = s[at[m]]
      BY <1>2
    <3> QED
      BY <1>0, <1>3, <3>1
  <2>2. PlacesOf(t, id) = {}
    BY <2>1 DEF PlacesOf
  <2> QED
    BY <1>1, <1>3, <2>2, AnswerIs
<1>4. CASE id # gone
  <2>1. \A k \in PlacesOf(s, id) : k \in K
    BY <1>4 DEF K, PlacesOf
  <2>2. CASE PlacesOf(s, id) = {}
    <3>1. PlacesOf(t, id) = {}
      <4>1. ASSUME NEW m \in PlacesOf(t, id) PROVE FALSE
        <5>1. m \in 1 .. Len(t) /\ t[m].id = id
          BY DEF PlacesOf
        <5>2. at[m] \in 1 .. Len(s) /\ s[at[m]].id = id
          BY <1>0, <1>2, <5>1
        <5> QED
          BY <2>2, <5>2 DEF PlacesOf
      <4> QED
        BY <4>1
    <3> QED
      BY <1>1, <1>4, <2>2, <3>1, AnswerIs
  <2>3. CASE PlacesOf(s, id) # {}
    <3>1. PICK k \in PlacesOf(s, id) : \A j \in PlacesOf(s, id) : k <= j
      BY <2>3, AnswerIs
    <3>2. PICK m \in 1 .. Len(t) : at[m] = k
      BY <1>2, <2>1
    <3>3. m \in PlacesOf(t, id)
      BY <1>2, <3>1, <3>2 DEF PlacesOf
    <3>4. ASSUME NEW o \in PlacesOf(t, id) PROVE m <= o
      <4>1. o \in 1 .. Len(t) /\ t[o].id = id
        BY DEF PlacesOf
      <4>2. at[o] \in 1 .. Len(s) /\ at[o] \in Int /\ s[at[o]].id = id
        BY <1>0, <1>2, <4>1
      <4>3. k <= at[o] /\ k \in Int
        BY <1>0, <2>1, <3>1, <4>2 DEF PlacesOf
      <4>4. ~ (o < m)
        <5>1. o < m => at[o] < k
          BY <1>2, <3>2, <4>1
        <5> QED
          BY <4>2, <4>3, <5>1
      <4> QED
        BY <1>1, <4>1, <4>4
    <3>5. Answer(t, id) = t[m].file /\ Answer(s, id) = s[k].file
      BY <1>1, <3>1, <3>3, <3>4, AnswerIs
    <3>6. t[m] = s[k]
      BY <1>2, <3>2
    <3> QED
      BY <1>1, <1>4, <3>5, <3>6
  <2> QED
    BY <2>2, <2>3
<1> QED
  BY <1>1, <1>3, <1>4

---------------------------------------------------------------------------
(* The cache beside the files. *)

\* A client that appends what it read has read a file.
FoundIsFile == \A c \in Clients : At(c, "push") => call[c].found # None

\* The cache has nothing of a number before the checkpoint is created under it, and
\* until then nobody else works on it.
UnsavedIsUncached ==
    /\ \A id \in Ids : id >= counter => Answer(cache, id) = None
    /\ \A c \in Clients : At(c, "save") =>
         /\ queue[call[c].id] = None
         /\ Answer(cache, call[c].id) = None
         /\ \A d \in Clients \ {c} :
              call[d].pc \in Busy \cup {"save", "enqueue"} => call[d].id # call[c].id

\* CacheAgreesWithDisk of what a search of the cache answers.
AnswerAgrees ==
    \A id \in Ids \ torn :
        /\ Answer(cache, id) # None
        /\ \A c \in Clients : ~ (call[c].id = id /\ At(c, "update"))
        => Answer(cache, id) = disk[id]

CacheInv ==
    /\ torn \subseteq Ids /\ cache \in Seq(Entries)
    /\ FoundIsFile /\ UnsavedIsUncached /\ AnswerAgrees

\* The parts of a step that leave the cache and the files alone: the client c that
\* moves is not about to update, and keeps away from the numbers under creation.
LEMMA CacheSpared ==
  ASSUME CacheInv, RecordTypes, NEW c \in Clients,
         \A d \in Clients \ {c} : call'[d] = call[d],
         UNCHANGED <<cache, disk, torn>>, counter' \in Int, counter' >= counter,
         call[c].pc # "update", call'[c].pc # "save",
         call'[c].pc = "push" => call'[c].found # None,
         \A d \in Clients \ {c} : At(d, "save") =>
           /\ queue'[call[d].id] = None
           /\ call'[c].pc \in Busy \cup {"enqueue"} => call'[c].id # call[d].id
  PROVE  CacheInv'
<1> USE DEF CacheInv, At
<1>1. counter \in Int /\ \A id \in Ids : id \in Int
  BY DEF RecordTypes, Ids
<1>2. FoundIsFile'
  BY DEF FoundIsFile
<1>3. UnsavedIsUncached'
  <2>1. \A id \in Ids : id >= counter' => Answer(cache, id)' = None
    BY <1>1 DEF UnsavedIsUncached
  <2>2. ASSUME NEW d \in Clients, call'[d].pc = "save"
        PROVE  /\ queue'[call'[d].id] = None /\ Answer(cache', call'[d].id) = None
               /\ \A e \in Clients \ {d} :
                    call'[e].pc \in Busy \cup {"save", "enqueue"} => call'[e].id # call'[d].id
    BY <2>2 DEF UnsavedIsUncached
  <2> QED
    BY <2>1, <2>2 DEF UnsavedIsUncached
<1>4. AnswerAgrees'
  <2>1. ASSUME NEW id \in Ids, NEW d \in Clients, call[d].id = id, call[d].pc = "update"
        PROVE  call'[d].id = id /\ call'[d].pc = "update"
    BY <2>1
  <2> QED
    BY <2>1 DEF AnswerAgrees
<1> QED
  BY <1>2, <1>3, <1>4

\* The parts of a step that change the cache and the file of the number c works on,
\* and of no other.
LEMMA CacheChanged ==
  ASSUME CacheInv, IInv, RecordTypes, NEW c \in Clients, NEW id, id = call[c].id,
         call[c].pc \in Busy \cup {"save"},
         \A d \in Clients \ {c} : call'[d] = call[d],
         call'[c].pc \notin {"save", "push"},
         call'[c].pc \in Busy \cup {"enqueue"} => call'[c].id = id,
         UNCHANGED <<queue, counter>>,
         cache' \in Seq(Entries), torn' \subseteq Ids, torn' \ {id} = torn \ {id},
         \A x \in Ids \ {id} : Answer(cache', x) = Answer(cache, x) /\ disk'[x] = disk[x],
         /\ id \notin torn' /\ Answer(cache', id) # None
         /\ \A d \in Clients : ~ (call'[d].id = id /\ call'[d].pc = "update")
         => Answer(cache', id) = disk'[id]
  PROVE  CacheInv'
<1> USE DEF CacheInv, At
<1>1. /\ counter \in Int /\ id \in Ids /\ id \in Int /\ id < counter
      /\ \A x \in Ids : x \in Int /\ \A d \in Clients : call[d].id \in Ids
  BY DEF RecordTypes, Ids, Calls, IInv, CreatedIsOwn, CallsAreIssued
<1>2. FoundIsFile'
  BY DEF FoundIsFile
<1>3. UnsavedIsUncached'
  <2>1. ASSUME NEW x \in Ids, x >= counter' PROVE Answer(cache', x) = None
    <3>1. x # id
      BY <1>1, <2>1
    <3>2. Answer(cache', x) = Answer(cache, x)
      BY <3>1
    <3> QED
      BY <2>1, <3>2 DEF UnsavedIsUncached
  <2>2. ASSUME NEW d \in Clients, call'[d].pc = "save"
        PROVE  /\ queue'[call'[d].id] = None /\ Answer(cache', call'[d].id) = None
               /\ \A e \in Clients \ {d} :
                    call'[e].pc \in Busy \cup {"save", "enqueue"} => call'[e].id # call'[d].id
    <3>1. d # c /\ call'[d] = call[d] /\ call[d].pc = "save" /\ call[d].id \in Ids
      BY <1>1, <2>2
    <3>2. call[d].id # id /\ queue[call[d].id] = None /\ Answer(cache, call[d].id) = None
      BY <3>1 DEF UnsavedIsUncached
    <3>3. ASSUME NEW e \in Clients \ {d}, call'[e].pc \in Busy \cup {"save", "enqueue"}
          PROVE  call'[e].id # call[d].id
      BY <3>1, <3>2, <3>3 DEF UnsavedIsUncached
    <3> QED
      BY <3>1, <3>2, <3>3
  <2> QED
    BY <2>1, <2>2 DEF UnsavedIsUncached
<1>4. AnswerAgrees'
  <2>1. ASSUME NEW x \in Ids \ {id}, NEW d \in Clients, call[d].id = x, call[d].pc = "update"
        PROVE  call'[d].id = x /\ call'[d].pc = "update"
    BY <2>1
  <2>2. ASSUME NEW x \in Ids, x \notin torn', Answer(cache', x) # None,
               \A d \in Clients : ~ (call'[d].id = x /\ call'[d].pc = "update")
        PROVE  Answer(cache', x) = disk'[x]
    <3>1. CASE x = id
      BY <2>2, <3>1
    <3>2. CASE x # id
      BY <2>1, <2>2, <3>2 DEF AnswerAgrees
    <3> QED
      BY <3>1, <3>2
  <2> QED
    BY <2>2 DEF AnswerAgrees
<1> QED
  BY <1>2, <1>3, <1>4

\* What moving a client does to its record.
LEMMA Moves ==
  ASSUME RecordTypes, NEW c \in Clients
  PROVE  /\ call[c] \in Calls /\ call[c].id \in Ids /\ call[c].held \in Status
         /\ call[c].next \in Nexts
         /\ \A new : Goto(c, new) =>
              call'[c] = new /\ \A d \in Clients \ {c} : call'[d] = call[d]
         /\ Return(c) => call'[c].pc = "idle"
         /\ \A pc : Step(c, pc) => call'[c].pc = pc /\ call'[c].id = call[c].id
         /\ \A id, s, next : Checkpointing(c, id, s, next) =>
              call'[c].pc = "load" /\ call'[c].id = id
<1> DEFINE r == call[c]
<1>1. r \in Calls /\ call \in [Clients -> Calls]
  BY DEF RecordTypes
<1>2. r.id \in Ids /\ r.held \in Status /\ r.next \in Nexts
  BY <1>1 DEF Calls, Nexts
<1>3. ASSUME NEW new, Goto(c, new)
      PROVE  call'[c] = new /\ \A d \in Clients \ {c} : call'[d] = call[d]
  BY <1>1, <1>3 DEF Goto
<1>4. Return(c) => call'[c].pc = "idle"
  BY <1>3 DEF Return, Idle
<1>5. ASSUME NEW pc, Step(c, pc) PROVE call'[c].pc = pc /\ call'[c].id = r.id
  <2>1. [r EXCEPT !.pc = pc].pc = pc /\ [r EXCEPT !.pc = pc].id = r.id
    BY <1>1 DEF Calls
  <2> QED
    BY <1>3, <1>5, <2>1 DEF Step
<1>6. ASSUME NEW id, NEW s, NEW next, Checkpointing(c, id, s, next)
      PROVE  call'[c].pc = "load" /\ call'[c].id = id
  <2> DEFINE new == [r EXCEPT !.pc = "load", !.id = id, !.held = s, !.next = next]
  <2>1. new.pc = "load" /\ new.id = id
    BY <1>1 DEF Calls
  <2>2. Goto(c, new)
    BY <1>6 DEF Checkpointing
  <2> HIDE DEF new
  <2> QED
    BY <1>3, <2>1, <2>2
<1> QED
  BY <1>1, <1>2, <1>3, <1>4, <1>5, <1>6

\* A client that moves leaves the others where they are.
LEMMA Alone ==
  ASSUME RecordTypes, NEW c \in Clients,
         \/ \E new : Goto(c, new)
         \/ Return(c) \/ Continue(c)
         \/ \E pc : Step(c, pc)
         \/ \E id, s, next : Checkpointing(c, id, s, next)
  PROVE  \A d \in Clients \ {c} : call'[d] = call[d]
<1>1. \E new : Goto(c, new)
  BY Zenon DEF Return, Continue, Step, Checkpointing
<1> QED
  BY <1>1, Moves

\* The operations that change the cache.
LEMMA CacheOperations ==
  ASSUME CacheInv, IInv, RecordTypes, RecordTypes', NEW c \in Clients,
         SaveNew(c) \/ Push(c) \/ Update(c) \/ Delete(c)
  PROVE  CacheInv'
<1> DEFINE id == call[c].id
<1>1. /\ id \in Ids /\ id \in Int /\ disk \in [Ids -> Files \cup {None}] /\ call[c].next \in Nexts
      /\ torn \subseteq Ids /\ cache \in Seq(Entries) /\ life \in Lives
  BY Moves DEF RecordTypes, CacheInv, Ids
<1>2. \A s \in Status : /\ File(s) \in Files /\ File(s) # None
                        /\ Entry(id, File(s)) \in Entries
  BY <1>1, NoneAssumption DEF File, Files, Entry, Entries
<1>3. \A f : Entry(id, f).id = id /\ Entry(id, f).file = f
  BY DEF Entry
<1>4. CASE SaveNew(c)
  <2> DEFINE e == Entry(id, File("Backlog"))
  <2>1. /\ call[c].pc = "save" /\ cache' = Append(cache, e)
        /\ Written(id, File("Backlog")) \/ NotWritten(id)
        /\ Step(c, "enqueue") \/ Return(c)
        /\ UNCHANGED <<queue, counter>>
    BY <1>4 DEF SaveNew, At
  <2>2. Answer(cache, id) = None
    BY <2>1 DEF CacheInv, UnsavedIsUncached, At
  <2>3. e \in Entries /\ e.id = id /\ e.file = File("Backlog")
    BY <1>2, <1>3 DEF Status
  <2> HIDE DEF e
  <2>4. /\ cache' \in Seq(Entries)
        /\ Answer(cache', id) = File("Backlog")
        /\ \A x \in Ids \ {id} : Answer(cache', x) = Answer(cache, x)
    <3>1. cache' \in Seq(Entries)
      BY <1>1, <2>1, <2>3
    <3> QED
      BY <1>1, <2>1, <2>2, <2>3, <3>1, AnswerAppended
  <2>5. /\ torn' \subseteq Ids /\ torn' \ {id} = torn \ {id}
        /\ \A x \in Ids \ {id} : disk'[x] = disk[x]
        /\ id \notin torn' => disk'[id] = File("Backlog")
    BY <1>1, <2>1 DEF Written, NotWritten
  <2>6. /\ \A d \in Clients \ {c} : call'[d] = call[d]
        /\ call'[c].pc = "idle" \/ (call'[c].pc = "enqueue" /\ call'[c].id = id)
    BY <2>1, Moves, Alone
  <2> QED
    BY <2>1, <2>4, <2>5, <2>6, CacheChanged DEF Busy
<1>5. CASE Push(c)
  <2> DEFINE e == Entry(id, call[c].found)
  <2>1. /\ call[c].pc = "push" /\ cache' = Append(cache, e) /\ Step(c, "update")
        /\ UNCHANGED <<queue, counter, disk, torn>>
    BY <1>5 DEF Push, At
  <2>2. call[c].found \in Files
    BY <2>1, Moves DEF CacheInv, FoundIsFile, At, Calls
  <2>3. e \in Entries /\ e.id = id
    BY <1>1, <1>3, <2>2 DEF Entry, Entries
  <2> HIDE DEF e
  <2>4. /\ cache' \in Seq(Entries)
        /\ \A x \in Ids \ {id} : Answer(cache', x) = Answer(cache, x)
    <3>1. cache' \in Seq(Entries)
      BY <1>1, <2>1, <2>3
    <3> QED
      BY <1>1, <2>1, <2>3, <3>1, AnswerAppended
  <2>5. /\ \A d \in Clients \ {c} : call'[d] = call[d]
        /\ call'[c].pc = "update" /\ call'[c].id = id
    BY <2>1, Moves, Alone
  <2> QED
    BY <1>1, <2>1, <2>4, <2>5, CacheChanged DEF Busy
<1>6. CASE Update(c)
  <2> DEFINE f == File(call[c].held)
             e == Entry(id, f)
  <2>1. /\ call[c].pc = "update"
        /\ cache' = IF Cached(id) = {} THEN cache ELSE [cache EXCEPT ![First(id)] = e]
        /\ Written(id, f) \/ NotWritten(id)
        /\ Continue(c) /\ UNCHANGED <<queue, counter>>
    BY <1>6 DEF Update, At
  <2>2. f \in Files /\ f # None /\ e \in Entries /\ e.id = id /\ e.file = f
    BY <1>2, <1>3, Moves
  <2> HIDE DEF e, f
  <2>3. Cached(id) = PlacesOf(cache, id)
    BY DEF Cached, PlacesOf
  <2>4. /\ cache' \in Seq(Entries)
        /\ Answer(cache', id) # None => Answer(cache', id) = f
        /\ \A x \in Ids \ {id} : Answer(cache', x) = Answer(cache, x)
    <3>1. CASE Cached(id) = {}
      BY <1>1, <2>1, <2>3, <3>1, AnswerIs
    <3>2. CASE Cached(id) # {}
      <4>1. \E i \in PlacesOf(cache, id) : \A j \in PlacesOf(cache, id) : i <= j
        BY <1>1, <2>3, <3>2, AnswerIs
      <4>2. First(id) \in PlacesOf(cache, id)
            /\ \A j \in PlacesOf(cache, id) : First(id) <= j
        BY <2>3, <4>1 DEF First
      <4>3. cache' = [cache EXCEPT ![First(id)] = e]
        BY <2>1, <3>2
      <4>4. /\ cache' \in Seq(Entries)
            /\ \A x : Answer(cache', x) = IF e.id = x THEN e.file ELSE Answer(cache, x)
        <5>1. PICK i \in PlacesOf(cache, e.id) :
                cache' = [cache EXCEPT ![i] = e] /\ \A j \in PlacesOf(cache, e.id) : i <= j
          <6>1. PICK k : k = First(id)
            OBVIOUS
          <6>2. k \in PlacesOf(cache, id) /\ \A j \in PlacesOf(cache, id) : k <= j
            BY <4>2, <6>1
          <6>3. cache' = [cache EXCEPT ![k] = e] /\ e.id = id
            BY <2>2, <4>3, <6>1
          <6> QED
            BY <6>2, <6>3, Zenon
        <5>2. cache \in Seq(Entries) /\ e \in Entries
          BY <1>1, <2>2
        <5>3. /\ [cache EXCEPT ![i] = e] \in Seq(Entries)
              /\ \A x : Answer([cache EXCEPT ![i] = e], x)
                         = IF e.id = x THEN e.file ELSE Answer(cache, x)
          BY <5>1, <5>2, AnswerWritten
        <5> QED
          BY <5>1, <5>3, Zenon
      <4> QED
        BY <2>2, <4>4
    <3> QED
      BY <3>1, <3>2
  <2>5. /\ torn' \subseteq Ids /\ torn' \ {id} = torn \ {id}
        /\ \A x \in Ids \ {id} : disk'[x] = disk[x]
        /\ id \notin torn' => disk'[id] = f
    BY <1>1, <2>1 DEF Written, NotWritten
  <2>6. /\ \A d \in Clients \ {c} : call'[d] = call[d]
        /\ \/ call'[c].pc = "idle"
           \/ call'[c].pc \in {"run", "recover"} /\ call'[c].id = id
    BY <1>1, <2>1, Moves, Alone DEF Continue, Nexts
  <2> QED
    BY <2>1, <2>4, <2>5, <2>6, CacheChanged DEF Busy
<1>7. CASE Delete(c)
  <2>1. /\ call[c].pc = "delete" /\ Return(c) /\ UNCHANGED <<queue, counter>>
        /\ cache' = Retain(cache, (1 .. Len(cache)) \ Cached(id))
        /\ torn' = torn \ {id}
        /\ \A x \in Ids \ {id} : disk'[x] = disk[x]
    BY <1>1, <1>7 DEF Delete, At
  <2>2. Cached(id) = PlacesOf(cache, id)
    BY DEF Cached, PlacesOf
  <2>3. /\ cache' \in Seq(Entries) /\ Answer(cache', id) = None
        /\ \A x \in Ids \ {id} : Answer(cache', x) = Answer(cache, x)
    BY <1>1, <2>1, <2>2, AnswerRetained
  <2>4. call'[c].pc = "idle" /\ \A d \in Clients \ {c} : call'[d] = call[d]
    BY <2>1, Moves, Alone
  <2>5. /\ torn' \subseteq Ids /\ torn' \ {id} = torn \ {id}
        /\ call[c].pc \in Busy /\ call'[c].pc \notin Busy \cup {"save", "enqueue"}
    BY <1>1, <2>1, <2>4 DEF Busy
  <2> HIDE DEF id
  <2> QED
    BY <2>1, <2>3, <2>4, <2>5, CacheChanged DEF Busy, id
<1> QED
  BY <1>4, <1>5, <1>6, <1>7

\* The cache stays consistent with the files through every operation and restart.
LEMMA CacheInductive ==
  ASSUME CacheInv, IInv, RecordTypes, RecordTypes', [Next]_vars
  PROVE  CacheInv'
<1> USE DEF At, Busy, Nexts
<1>1. /\ counter \in Int /\ counter' \in Int
      /\ queue \in [Ids -> Status \cup {None}]
      /\ \A c \in Clients : call[c].id \in Ids
      /\ \A id \in Ids : id \in Int
  BY Moves DEF RecordTypes, Ids
\* Who is under creation, seen by another client.
<1>2. ASSUME NEW c \in Clients, NEW d \in Clients \ {c}, call[d].pc = "save"
      PROVE  /\ queue[call[d].id] = None
             /\ call[c].pc \in Busy \cup {"save", "enqueue"} => call[c].id # call[d].id
  BY <1>2 DEF CacheInv, UnsavedIsUncached
<1>3. ASSUME NEW id, NEW s, SetStatus(id, s)
      PROVE  \A i \in Ids : queue[i] = None => queue'[i] = None
  BY <1>1, <1>3 DEF SetStatus
<1>4. ASSUME NEW c \in Clients, Submit(c) PROVE CacheInv'
  <2> DEFINE new == [Idle EXCEPT !.pc = "save", !.id = counter]
  <2>1. new.pc = "save" /\ new.id = counter
    BY DEF Idle
  <2>2. /\ call[c].pc = "idle" /\ counter \in Ids /\ counter' = counter + 1
        /\ Goto(c, new)
        /\ UNCHANGED <<queue, cache, disk, torn>>
    BY <1>4 DEF Submit
  <2> HIDE DEF new
  <2>3. /\ call'[c].pc = "save" /\ call'[c].id = counter
        /\ \A d \in Clients \ {c} : call'[d] = call[d]
    BY <2>1, <2>2, Moves
  <2>4. /\ queue[counter] = None /\ Answer(cache, counter) = None
        /\ \A d \in Clients : call[d].pc \in Busy \cup {"save", "enqueue"} => call[d].id < counter
    BY <1>1, <2>2 DEF IInv, FreshIsUnused, CreatedIsOwn, CallsAreIssued, CacheInv,
                      UnsavedIsUncached
  <2>5. FoundIsFile'
    BY <2>3 DEF CacheInv, FoundIsFile
  <2>6. UnsavedIsUncached'
    <3>1. \A id \in Ids : id >= counter' => Answer(cache', id) = None
      BY <1>1, <2>2 DEF CacheInv, UnsavedIsUncached
    <3>2. ASSUME NEW d \in Clients, call'[d].pc = "save"
          PROVE  /\ queue'[call'[d].id] = None /\ Answer(cache', call'[d].id) = None
                 /\ \A e \in Clients \ {d} :
                      call'[e].pc \in Busy \cup {"save", "enqueue"} => call'[e].id # call'[d].id
      <4>1. CASE d = c
        BY <1>1, <2>2, <2>3, <2>4, <4>1
      <4>2. CASE d # c
        <5>1. call'[d] = call[d] /\ call[d].pc = "save" /\ call[d].id # counter
          BY <1>1, <2>3, <2>4, <3>2, <4>2
        <5> QED
          BY <2>2, <2>3, <4>2, <5>1 DEF CacheInv, UnsavedIsUncached
      <4> QED
        BY <4>1, <4>2
    <3> QED
      BY <3>1, <3>2 DEF UnsavedIsUncached
  <2>7. AnswerAgrees'
    <3>1. \A d \in Clients : call[d].pc = "update" => call'[d] = call[d]
      BY <2>2, <2>3
    <3> QED
      BY <2>2, <3>1 DEF CacheInv, AnswerAgrees
  <2> QED
    BY <2>2, <2>5, <2>6, <2>7 DEF CacheInv
<1>5. ASSUME NEW c \in Clients, Enqueue(c) PROVE CacheInv'
  <2>1. /\ call[c].pc = "enqueue" /\ Return(c)
        /\ \A i \in Ids \ {call[c].id} : queue'[i] = queue[i]
        /\ UNCHANGED <<counter, cache, disk, torn>>
    BY <1>1, <1>5 DEF Enqueue
  <2>2. call'[c].pc = "idle" /\ \A d \in Clients \ {c} : call'[d] = call[d]
    BY <2>1, Moves, Alone
  <2> QED
    BY <1>1, <1>2, <2>1, <2>2, CacheSpared
\* A call about a task that is in the queue.
<1>6. ASSUME NEW c \in Clients, NEW id \in Ids, queue[id] # None,
             call[c].pc # "update", \A d \in Clients \ {c} : call'[d] = call[d],
             call'[c].pc \in {"load", "picked"}, call'[c].id = id,
             \A i \in Ids : queue[i] = None => queue'[i] = None,
             UNCHANGED <<counter, cache, disk, torn>>
      PROVE  CacheInv'
  BY <1>1, <1>2, <1>6, CacheSpared
\* A call that goes on with its task, or that ends.
<1>7. ASSUME NEW c \in Clients, call[c].pc # "update",
             \A d \in Clients \ {c} : call'[d] = call[d],
             \/ call'[c].pc \in {"idle", "recover"}
             \/ /\ call[c].pc \in Busy /\ call'[c].pc \in Busy /\ call'[c].id = call[c].id
                /\ call'[c].pc = "push" => call'[c].found # None,
             \A i \in Ids : queue[i] = None => queue'[i] = None,
             UNCHANGED <<counter, cache, disk, torn>>
      PROVE  CacheInv'
  BY <1>1, <1>2, <1>7, CacheSpared
<1>8. ASSUME NEW c \in Clients, NEW id \in Ids, NEW s \in Status, Transition(c, id, s)
      PROVE CacheInv'
  <2>1. /\ call[c].pc = "idle" /\ queue[id] # None
        /\ SetStatus(id, s) /\ Checkpointing(c, id, s, "idle")
        /\ UNCHANGED <<counter, cache, disk, torn>>
    BY <1>8 DEF Transition
  <2> QED
    BY <1>3, <1>6, <2>1, Moves, Alone
<1>9. ASSUME NEW c \in Clients, NEW id \in Ids, Patch(c, id) PROVE CacheInv'
  <2>1. /\ call[c].pc = "idle" /\ queue[id] # None
        /\ Checkpointing(c, id, queue[id], "idle")
        /\ UNCHANGED <<counter, queue, cache, disk, torn>>
    BY <1>9 DEF Patch
  <2> QED
    BY <1>6, <2>1, Moves, Alone
<1>10. ASSUME NEW c \in Clients, Load(c) PROVE CacheInv'
  <2>1. /\ call[c].pc = "load"
        /\ Step(c, "update") \/ Step(c, "read")
        /\ UNCHANGED <<counter, queue, cache, disk, torn>>
    BY <1>10 DEF Load
  <2> QED
    BY <1>7, <2>1, Moves, Alone
<1>11. ASSUME NEW c \in Clients, ReadFile(c) PROVE CacheInv'
  <2>1. call[c].pc = "read" /\ UNCHANGED <<counter, queue, cache, disk, torn>>
    BY <1>11 DEF ReadFile
  <2>2. CASE Continue(c)
    <3>1. call'[c].pc \in {"idle", "recover"}
            \/ (call'[c].pc = "run" /\ call'[c].id = call[c].id)
      BY <2>2, Moves DEF Continue
    <3> QED
      BY <1>7, <2>1, <2>2, <3>1, Alone
  <2>3. CASE ~ Continue(c)
    <3> DEFINE f == disk[call[c].id]
               new == [call[c] EXCEPT !.pc = "push", !.found = f]
    <3>1. new.pc = "push" /\ new.id = call[c].id /\ new.found = f
      BY Moves DEF Calls
    <3>2. Goto(c, new) /\ f # None
      BY <1>11, <2>3 DEF ReadFile
    <3> HIDE DEF new, f
    <3>3. /\ call'[c].pc = "push" /\ call'[c].id = call[c].id /\ call'[c].found # None
          /\ \A d \in Clients \ {c} : call'[d] = call[d]
      BY <3>1, <3>2, Moves
    <3> QED
      BY <1>7, <2>1, <3>3
  <2> QED
    BY <1>11, <2>2, <2>3 DEF ReadFile
<1>12. ASSUME NEW c \in Clients, NEW id \in Ids, Cancel(c, id) PROVE CacheInv'
  <2> DEFINE new == [Idle EXCEPT !.pc = "delete", !.id = id]
  <2>1. new.pc = "delete" /\ new.id = id
    BY DEF Idle
  <2>2. /\ call[c].pc = "idle" /\ ~ Creating(id) /\ SetStatus(id, "Failed") /\ Goto(c, new)
        /\ UNCHANGED <<counter, cache, disk, torn>>
    BY <1>12 DEF Cancel, Issued
  <2> HIDE DEF new
  <2>3. /\ call'[c].pc = "delete" /\ call'[c].id = id
        /\ \A d \in Clients \ {c} : call'[d] = call[d]
    BY <2>1, <2>2, Moves
  <2>4. \A d \in Clients : call[d].pc = "save" => call[d].id # id
    BY <2>2 DEF Creating
  <2> QED
    BY <1>1, <1>2, <1>3, <2>2, <2>3, <2>4, CacheSpared
<1>13. ASSUME NEW c \in Clients, NEW id \in Ids, Pick(c, id) PROVE CacheInv'
  <2> DEFINE new == [Idle EXCEPT !.pc = "picked", !.id = id]
  <2>1. new.pc = "picked" /\ new.id = id
    BY DEF Idle
  <2>2. /\ call[c].pc = "idle" /\ queue[id] # None /\ Goto(c, new)
        /\ UNCHANGED <<counter, queue, cache, disk, torn>>
    BY <1>13, NoneAssumption DEF Pick, Status
  <2> HIDE DEF new
  <2>3. /\ call'[c].pc = "picked" /\ call'[c].id = id
        /\ \A d \in Clients \ {c} : call'[d] = call[d]
    BY <2>1, <2>2, Moves
  <2> QED
    BY <1>6, <2>2, <2>3
<1>14. ASSUME NEW c \in Clients, RunStart(c) PROVE CacheInv'
  <2>1. /\ call[c].pc = "picked" /\ SetStatus(call[c].id, "InProgress")
        /\ Step(c, "run") \/ Checkpointing(c, call[c].id, "InProgress", "run")
        /\ UNCHANGED <<counter, cache, disk, torn>>
    BY <1>14 DEF RunStart
  <2> QED
    BY <1>3, <1>7, <2>1, Moves, Alone
<1>15. ASSUME NEW c \in Clients, NEW s \in Status, RunEnd(c, s) PROVE CacheInv'
  <2>1. /\ call[c].pc = "run" /\ SetStatus(call[c].id, s)
        /\ Return(c) \/ Checkpointing(c, call[c].id, s, "idle")
        /\ UNCHANGED <<counter, cache, disk, torn>>
    BY <1>15 DEF RunEnd
  <2> QED
    BY <1>3, <1>7, <2>1, Moves, Alone
<1>16. ASSUME NEW c \in Clients, Recover(c) PROVE CacheInv'
  <2> DEFINE new == [call[c] EXCEPT !.pc = "recover", !.todo = Resumable, !.listed = Interrupted]
  <2>1. new.pc = "recover"
    BY Moves DEF Calls
  <2>2. /\ call[c].pc \in {"idle", "boot"} /\ Goto(c, new)
        /\ UNCHANGED <<counter, queue, cache, disk, torn>>
    BY <1>16 DEF Recover
  <2> HIDE DEF new
  <2>3. call'[c].pc = "recover" /\ \A d \in Clients \ {c} : call'[d] = call[d]
    BY <2>1, <2>2, Moves
  <2> QED
    BY <1>7, <2>2, <2>3
<1>17. ASSUME NEW c \in Clients, NEW id \in Ids, RecoverTask(c, id) PROVE CacheInv'
  <2> DEFINE new == [call[c] EXCEPT !.pc = "load", !.id = id, !.held = "Queued",
                                    !.next = "recover", !.todo = @ \ {id}]
  <2>1. new.pc = "load" /\ new.id = id
    BY Moves DEF Calls
  <2>2. /\ call[c].pc = "recover" /\ queue[id] # None /\ SetStatus(id, "Queued")
        /\ Goto(c, new) /\ UNCHANGED <<counter, cache, disk, torn>>
    BY <1>17 DEF RecoverTask
  <2> HIDE DEF new
  <2>3. /\ call'[c].pc = "load" /\ call'[c].id = id
        /\ \A d \in Clients \ {c} : call'[d] = call[d]
    BY <2>1, <2>2, Moves
  <2> QED
    BY <1>3, <1>6, <2>2, <2>3
<1>18. ASSUME NEW c \in Clients, RecoverFails(c) \/ RecoverDone(c) PROVE CacheInv'
  <2>1. /\ call[c].pc = "recover" /\ Return(c)
        /\ UNCHANGED <<counter, queue, cache, disk, torn>>
    BY <1>18 DEF RecoverFails, RecoverDone
  <2> QED
    BY <1>7, <2>1, Moves, Alone
<1>19. ASSUME UNCHANGED <<call, counter, cache, disk, torn>>,
              \A i \in Ids : queue[i] = None => queue'[i] = None
       PROVE  CacheInv'
  BY <1>1, <1>19 DEF CacheInv, FoundIsFile, UnsavedIsUncached, AnswerAgrees
<1>20. ASSUME NEW id \in Ids, NEW s \in Status, React(id, s) PROVE CacheInv'
  BY <1>3, <1>19, <1>20 DEF React
<1>21. CASE Restart
  <2>1. /\ \A c \in Clients : call'[c].pc \in {"idle", "boot"}
        /\ cache' = <<>> /\ torn' = {}
    BY <1>21 DEF Restart, Idle
  <2>2. \A id : Answer(cache', id) = None
    BY <2>1 DEF Answer, PlacesOf
  <2> QED
    BY <2>1, <2>2 DEF CacheInv, FoundIsFile, UnsavedIsUncached, AnswerAgrees
<1>22. CASE UNCHANGED vars
  BY <1>19, <1>22 DEF vars
<1> QED
  BY <1>4, <1>5, <1>8, <1>9, <1>10, <1>11, <1>12, <1>13, <1>14, <1>15, <1>16, <1>17,
     <1>18, <1>20, <1>21, <1>22, CacheOperations DEF Next, ClientStep

\* In every reachable state the cache and the files are consistent.
LEMMA CacheFollows == Spec => []CacheInv
<1>1. Init => CacheInv
  BY DEF Init, CacheInv, FoundIsFile, UnsavedIsUncached, AnswerAgrees, Answer, PlacesOf, Idle, At
<1>2. RecordTypes /\ RecordTypes' /\ IInv /\ CacheInv /\ [Next]_vars => CacheInv'
  BY CacheInductive
<1> QED
  BY <1>1, <1>2, RecordTypesCorrect, FilesFollow, PTL DEF Spec

\* Every record keeps the shape the code gives it, the cache too: what is appended to
\* it, written into it and retained of it are entries.
THEOREM TypeCorrect == Spec => []TypeOK
<1>1. RecordTypes /\ CacheInv => TypeOK
  BY DEF CacheInv, TypeOK
<1> QED
  BY <1>1, RecordTypesCorrect, CacheFollows, PTL

\* The cache and the checkpoint files agree, although a load reads the file without the
\* lock and appends what it read when others have written or deleted the file since.
THEOREM CacheMatchesDisk == Spec => []CacheAgreesWithDisk
<1>1. CacheInv => CacheAgreesWithDisk
  <2> SUFFICES ASSUME CacheInv, NEW id \in Ids \ torn, Cached(id) # {},
                      \A c \in Clients : ~ (call[c].id = id /\ At(c, "update"))
               PROVE  cache[First(id)].file = disk[id]
    BY DEF CacheAgreesWithDisk
  <2>1. Answer(cache, id) = cache[First(id)].file
    BY DEF Answer, First, Cached, PlacesOf
  <2>2. Answer(cache, id) # None
    BY AnswerIs DEF CacheInv, Cached, PlacesOf
  <2> QED
    BY <2>1, <2>2 DEF CacheInv, AnswerAgrees
<1> QED
  BY <1>1, CacheFollows, PTL
=============================================================================

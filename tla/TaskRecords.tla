---------------------------- MODULE TaskRecords ----------------------------
(***************************************************************************)
(* The three records the pipeline keeps of a task, and what a restart of   *)
(* the process does to them: the entry of the in-memory TaskQueue, the     *)
(* entry of CheckpointManager's in-memory cache, and the checkpoint file.  *)
(*                                                                         *)
(* Tokio tasks (Clients) run QueueManager and TaskFactory calls; each step *)
(* below is what one call does between two awaits that give up its locks.  *)
(* CheckpointManager holds the cache's write lock while it writes or       *)
(* deletes the file, so a cache entry and its file change in one step.     *)
(*                                                                         *)
(* A task is known by its number, which TaskIntake counts from 1 in every  *)
(* process, and by the life of the process that created it: the number     *)
(* alone does not identify it.  Completed phases, metadata and priorities  *)
(* are left out; the order of the queue is, too, because dispatch reads    *)
(* the queue by status.                                                    *)
(***************************************************************************)
EXTENDS Integers, Sequences, SequencesExt, FiniteSets

CONSTANTS
    Clients,   \* concurrent tokio tasks of the process
    Main,      \* the client that starts the process and, in a daemon, recovers
    MaxId,     \* bound on the tasks created in one life
    MaxLives,  \* bound on the lives of the process
    MaxFaults, \* bound on the file operations that fail
    None       \* "no entry", "no file"

ASSUME ClientsAssumption == Main \in Clients
ASSUME BoundsAssumption  == MaxId \in Nat \ {0} /\ MaxLives \in Nat \ {0} /\ MaxFaults \in Nat

Ids    == 1 .. MaxId
Lives  == 1 .. MaxLives
\* No operation of the pipeline sets Cancelled or Unknown.
Status == {"Backlog", "Queued", "InProgress", "Completed", "Failed"}

ASSUME NoneAssumption ==
    None \notin Status /\ None \notin [life : Lives, status : Status]

VARIABLES
    life,    \* which life of the process this is
    counter, \* TaskIntake::counter
    queue,   \* TaskQueue::tasks: the status of each task, or None
    cache,   \* CheckpointManager::cache, a Vec searched from the front
    disk,    \* checkpoint-<id>.json, or None
    call,    \* what each client is doing
    faults,  \* file operations that have failed
    torn,    \* history: the ids whose file missed the last write of the cache
    deleted  \* history: the ids whose checkpoint this life has set out to delete

vars == <<life, counter, queue, cache, disk, call, faults, torn, deleted>>

File(s)        == [life |-> life, status |-> s]
Entry(id, file) == [id |-> id, file |-> file]

IsTerminal(s) == s \in {"Completed", "Failed"}

(***************************************************************************)
(* A client's local state: where it is, the task it works on, the copy of  *)
(* the task it took from the queue and of the file it read, where it goes  *)
(* after it has updated the checkpoint, and for a recovery what it has yet *)
(* to do, what it listed, and whether it runs at the start of a daemon.    *)
(* A field means something only while pc says so.                          *)
(***************************************************************************)
Idle == [pc |-> "idle", id |-> 1, held |-> "Backlog", found |-> None,
         next |-> "idle", todo |-> {}, listed |-> {}, boot |-> FALSE]

At(c, pc)       == call[c].pc = pc
Goto(c, new)    == call' = [call EXCEPT ![c] = new]
Step(c, pc)     == Goto(c, [call[c] EXCEPT !.pc = pc])
Return(c)       == Goto(c, Idle)

(* A daemon takes no other work before its recovery has returned. *)
Ready == ~ call[Main].boot

Creating(id) == \E c \in Clients : call[c].id = id /\ call[c].pc \in {"save", "enqueue"}
Issued       == {id \in Ids : id < counter /\ ~ Creating(id)}

(* The copy of the task goes into the checkpoint; then the client continues
   at next. *)
Checkpointing(c, id, s, next) ==
    Goto(c, [call[c] EXCEPT !.pc = "load", !.id = id, !.held = s, !.next = next])

(* save_checkpoint renames a complete temporary file over the old one, or
   fails and leaves the old one. *)
Written(id, file) ==
    /\ disk' = [disk EXCEPT ![id] = file]
    /\ torn' = torn \ {id}
    /\ UNCHANGED faults
NotWritten(id) ==
    /\ faults < MaxFaults
    /\ faults' = faults + 1
    /\ torn' = torn \cup {id}
    /\ UNCHANGED disk

SetStatus(id, s) == queue' = [queue EXCEPT ![id] = IF @ = None THEN None ELSE s]

----------------------------------------------------------------------------
(* TaskFactory::create_from_intake *)

Submit(c) ==
    /\ At(c, "idle") /\ Ready
    /\ counter \in Ids
    /\ counter' = counter + 1
    /\ Goto(c, [Idle EXCEPT !.pc = "save", !.id = counter])
    /\ UNCHANGED <<life, queue, cache, disk, faults, torn, deleted>>

(* Mutant of SaveNew: a failed checkpoint does not stop the creation. *)
SaveNewIgnored(c) ==
    /\ At(c, "save")
    /\ cache' = Append(cache, Entry(call[c].id, File("Backlog")))
    /\ Written(call[c].id, File("Backlog")) \/ NotWritten(call[c].id)
    /\ Step(c, "enqueue")
    /\ UNCHANGED <<life, counter, queue, deleted>>

(* create_checkpoint: the cache gets the entry even when the file does not.
   A task whose mode needs no record stops here. *)
SaveNew(c) ==
    /\ At(c, "save")
    /\ cache' = Append(cache, Entry(call[c].id, File("Backlog")))
    /\ \/ /\ Written(call[c].id, File("Backlog"))
          /\ Step(c, "enqueue") \/ Return(c)
       \/ /\ NotWritten(call[c].id)
          /\ Return(c)
    /\ UNCHANGED <<life, counter, queue, deleted>>

(* TaskQueue::add_task *)
Enqueue(c) ==
    /\ At(c, "enqueue")
    /\ queue' = [queue EXCEPT ![call[c].id] = IF @ = None THEN "Backlog" ELSE @]
    /\ Return(c)
    /\ UNCHANGED <<life, counter, cache, disk, faults, torn, deleted>>

----------------------------------------------------------------------------
(* QueueManager: transition_task and patch_task_metadata *)

Transition(c, id, s) ==
    /\ At(c, "idle") /\ Ready
    /\ queue[id] # None
    /\ SetStatus(id, s)
    /\ Checkpointing(c, id, s, "idle")
    /\ UNCHANGED <<life, counter, cache, disk, faults, torn, deleted>>

Patch(c, id) ==
    /\ At(c, "idle") /\ Ready
    /\ queue[id] # None
    /\ Checkpointing(c, id, queue[id], "idle")
    /\ UNCHANGED <<life, counter, queue, cache, disk, faults, torn, deleted>>

(* load_checkpoint: the cache under its read lock, then the file without it,
   then the cache again to keep what the file held. A file that is not there
   and one that cannot be read or parsed both end the update. *)
Cached(id) == {i \in 1 .. Len(cache) : cache[i].id = id}
First(id)  == CHOOSE i \in Cached(id) : \A j \in Cached(id) : i <= j

Continue(c) ==
    IF call[c].next = "idle"
    THEN Return(c)
    ELSE Step(c, call[c].next)

Load(c) ==
    /\ At(c, "load")
    /\ Step(c, IF Cached(call[c].id) # {} THEN "update" ELSE "read")
    /\ UNCHANGED <<life, counter, queue, cache, disk, faults, torn, deleted>>

(* Mutant of ReadFile: it does not look whether there is a file. *)
ReadFileBlind(c) ==
    /\ At(c, "read")
    /\ Goto(c, [call[c] EXCEPT !.pc = "push", !.found = disk[call[c].id]])
    /\ UNCHANGED <<life, counter, queue, cache, disk, faults, torn, deleted>>

ReadFile(c) ==
    /\ At(c, "read")
    /\ \/ /\ disk[call[c].id] = None
          /\ Continue(c)
          /\ UNCHANGED faults
       \/ /\ disk[call[c].id] # None
          /\ Goto(c, [call[c] EXCEPT !.pc = "push", !.found = disk[call[c].id]])
          /\ UNCHANGED faults
       \/ /\ disk[call[c].id] # None
          /\ faults < MaxFaults
          /\ faults' = faults + 1
          /\ Continue(c)
    /\ UNCHANGED <<life, counter, queue, cache, disk, torn, deleted>>

Push(c) ==
    /\ At(c, "push")
    /\ cache' = Append(cache, Entry(call[c].id, call[c].found))
    /\ Step(c, "update")
    /\ UNCHANGED <<life, counter, queue, disk, faults, torn, deleted>>

(* update_checkpoint: the first entry of the cache, if there is one, and the
   file in any case; the callers ignore a failed write. *)
Update(c) ==
    LET id   == call[c].id
        file == File(call[c].held)
    IN  /\ At(c, "update")
        /\ cache' = IF Cached(id) = {} THEN cache
                    ELSE [cache EXCEPT ![First(id)] = Entry(id, file)]
        /\ Written(id, file) \/ NotWritten(id)
        /\ Continue(c)
        /\ UNCHANGED <<life, counter, queue, deleted>>

----------------------------------------------------------------------------
(* QueueManager::cancel_task: the status, then delete_checkpoint *)

Cancel(c, id) ==
    /\ At(c, "idle") /\ Ready
    /\ id \in Issued
    /\ SetStatus(id, "Failed")
    /\ deleted' = deleted \cup {id}
    /\ Goto(c, [Idle EXCEPT !.pc = "delete", !.id = id])
    /\ UNCHANGED <<life, counter, cache, disk, faults, torn>>

(* Mutant of Delete: it drops the first entry it finds and no other. *)
DeleteFirst(c) ==
    /\ At(c, "delete")
    /\ cache' = IF Cached(call[c].id) = {} THEN cache
                ELSE RemoveAt(cache, First(call[c].id))
    /\ disk' = [disk EXCEPT ![call[c].id] = None]
    /\ torn' = torn \ {call[c].id}
    /\ Return(c)
    /\ UNCHANGED <<life, counter, queue, faults, deleted>>

(* Vec::retain: what s holds at the places K, in its order. *)
Retain(s, K) ==
    [n \in 1 .. Cardinality(K) |->
       s[CHOOSE k \in K : Cardinality({j \in K : j <= k}) = n]]

Delete(c) ==
    /\ At(c, "delete")
    /\ cache' = Retain(cache, (1 .. Len(cache)) \ Cached(call[c].id))
    /\ \/ /\ disk' = [disk EXCEPT ![call[c].id] = None]
          /\ UNCHANGED faults
       \/ /\ disk[call[c].id] # None
          /\ faults < MaxFaults
          /\ faults' = faults + 1
          /\ UNCHANGED disk
    /\ torn' = torn \ {call[c].id}
    /\ Return(c)
    /\ UNCHANGED <<life, counter, queue, deleted>>

----------------------------------------------------------------------------
(* TaskScheduler::dispatch_parallel writes the queue only; the checkpoint is
   touched when the GitHub integration returns metadata to keep. *)

Pick(c, id) ==
    /\ At(c, "idle") /\ Ready
    /\ queue[id] = "Queued"
    /\ Goto(c, [Idle EXCEPT !.pc = "picked", !.id = id])
    /\ UNCHANGED <<life, counter, queue, cache, disk, faults, torn, deleted>>

RunStart(c) ==
    LET id == call[c].id
    IN  /\ At(c, "picked")
        /\ SetStatus(id, "InProgress")
        /\ \/ Step(c, "run")
           \/ Checkpointing(c, id, "InProgress", "run")
        /\ UNCHANGED <<life, counter, cache, disk, faults, torn, deleted>>

RunEnd(c, s) ==
    LET id == call[c].id
    IN  /\ At(c, "run")
        /\ s \in {"Completed", "Failed"}
        /\ SetStatus(id, s)
        /\ Return(c) \/ Checkpointing(c, id, s, "idle")
        /\ UNCHANGED <<life, counter, cache, disk, faults, torn, deleted>>

(* PipelineOrchestrator: requeue_task and pause_all, cancel_task *)
React(id, s) ==
    /\ Ready
    /\ queue[id] # None
    /\ s \in {"Queued", "Failed"}
    /\ SetStatus(id, s)
    /\ UNCHANGED <<life, counter, cache, disk, call, faults, torn, deleted>>

----------------------------------------------------------------------------
(* QueueManager::recover_interrupted_tasks *)

Resumable == {id \in Ids : disk[id] # None /\ ~ IsTerminal(disk[id].status)}

(* History: the listed tasks that were waiting to run or running. *)
Interrupted == {id \in Resumable : disk[id].status \in {"Queued", "InProgress"}}

Recover(c) ==
    /\ (At(c, "idle") /\ Ready) \/ At(c, "boot")
    /\ Goto(c, [call[c] EXCEPT !.pc = "recover", !.todo = Resumable,
                               !.listed = Interrupted])
    /\ UNCHANGED <<life, counter, queue, cache, disk, faults, torn, deleted>>

RecoverTask(c, id) ==
    /\ At(c, "recover")
    /\ id \in call[c].todo
    /\ queue[id] # None
    /\ SetStatus(id, "Queued")
    /\ Goto(c, [call[c] EXCEPT !.pc = "load", !.id = id, !.held = "Queued",
                               !.next = "recover", !.todo = @ \ {id}])
    /\ UNCHANGED <<life, counter, cache, disk, faults, torn, deleted>>

(* The first task that the queue does not hold ends the recovery. *)
RecoverFails(c) ==
    /\ At(c, "recover")
    /\ \E id \in call[c].todo : queue[id] = None
    /\ Return(c)
    /\ UNCHANGED <<life, counter, queue, cache, disk, faults, torn, deleted>>

RecoverDone(c) ==
    /\ At(c, "recover")
    /\ call[c].todo = {}
    /\ Return(c)
    /\ UNCHANGED <<life, counter, queue, cache, disk, faults, torn, deleted>>

----------------------------------------------------------------------------
(* The process stops, at any point, and another one starts on the same
   directory: a daemon, which recovers first, or one that does not. *)
Restart ==
    /\ life < MaxLives
    /\ life'    = life + 1
    /\ counter' = 1
    /\ queue'   = [id \in Ids |-> None]
    /\ cache'   = <<>>
    /\ torn'    = {}
    /\ deleted' = {}
    /\ \E daemon \in BOOLEAN :
         call' = [c \in Clients |->
                    IF daemon /\ c = Main
                    THEN [Idle EXCEPT !.pc = "boot", !.boot = TRUE]
                    ELSE Idle]
    /\ UNCHANGED <<disk, faults>>

----------------------------------------------------------------------------
Init ==
    /\ life    = 1
    /\ counter = 1
    /\ queue   = [id \in Ids |-> None]
    /\ cache   = <<>>
    /\ disk    = [id \in Ids |-> None]
    /\ call    = [c \in Clients |-> Idle]
    /\ faults  = 0
    /\ torn    = {}
    /\ deleted = {}

ClientStep(c) ==
    \/ Submit(c) \/ SaveNew(c) \/ Enqueue(c)
    \/ Load(c) \/ ReadFile(c) \/ Push(c) \/ Update(c)
    \/ Delete(c) \/ RunStart(c)
    \/ Recover(c) \/ RecoverFails(c) \/ RecoverDone(c)
    \/ \E s \in Status : RunEnd(c, s)
    \/ \E id \in Ids :
          \/ \E s \in Status : Transition(c, id, s)
          \/ Patch(c, id) \/ Cancel(c, id) \/ Pick(c, id)
          \/ RecoverTask(c, id)

Next ==
    \/ \E c \in Clients : ClientStep(c)
    \/ \E id \in Ids, s \in Status : React(id, s)
    \/ Restart

Spec == Init /\ [][Next]_vars

----------------------------------------------------------------------------
Files   == [life : Lives, status : Status]
Entries == [id : Ids, file : Files]

Pcs == {"idle", "save", "enqueue", "load", "read", "push", "update", "delete",
        "picked", "run", "boot", "recover"}

Calls == [pc : Pcs, id : Ids, held : Status, found : Files \cup {None},
          next : {"idle", "run", "recover"},
          todo : SUBSET Ids, listed : SUBSET Ids, boot : BOOLEAN]

(* The records that decide what is queued and what is on disk. *)
RecordTypes ==
    /\ life \in Lives
    /\ counter \in 1 .. MaxId + 1
    /\ queue \in [Ids -> Status \cup {None}]
    /\ disk \in [Ids -> Files \cup {None}]
    /\ call \in [Clients -> Calls]
    /\ faults \in 0 .. MaxFaults
    /\ deleted \subseteq Ids

(* Every record keeps the shape the code gives it. *)
TypeOK == RecordTypes /\ torn \subseteq Ids /\ cache \in Seq(Entries)

(* A task is in the queue only when its checkpoint is on disk, and the file is
   its own, not that of the task which had its number before the restart: a
   crash at any moment leaves a file for every task it takes from the queue.
   Only a cancel may take the file away. *)
QueuedHasCheckpoint ==
    \A id \in Ids :
        queue[id] # None /\ id \notin deleted
            => disk[id] # None /\ disk[id].life = life

(* What the cache answers for a task is what the file says, whatever loads,
   updates and deletions overlapped: once no client is about to update it, and
   unless the last write of the file failed, the first entry of the Vec is not
   older than the file and does not outlive it. *)
CacheAgreesWithDisk ==
    \A id \in Ids \ torn :
        /\ Cached(id) # {}
        /\ \A c \in Clients : ~ (call[c].id = id /\ At(c, "update"))
        => cache[First(id)].file = disk[id]

(* A daemon that has run its recovery has every task that the lives before it
   left queued or in progress in its queue, as README.md's "Crash recovery on startup re-enqueues
   interrupted work" says. *)
InterruptedIsRequeued ==
    [][\A c \in Clients :
         call[c].boot /\ ~ call'[c].boot /\ life' = life
           => \A id \in call[c].listed : queue'[id] = "Queued"]_vars
=============================================================================

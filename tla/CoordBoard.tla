------------------------------- MODULE CoordBoard -------------------------------
(***************************************************************************)
(* The shared task board of src/src/coordination: a directory that several *)
(* agent processes read and write with no server between them.  A task is *)
(* one JSON file, rewritten by an atomic rename, plus a sibling claim file *)
(* made with O_CREAT|O_EXCL.  Every file system call is one step, so two   *)
(* calls of the board interleave wherever the operating system lets them,  *)
(* and a process may die between any two of its calls.                     *)
(*                                                                         *)
(* What an agent does is the documented discipline: it finishes a task it  *)
(* was told it owns.  Adders call add_task and Cancellers call cancel_task *)
(* (neither is an agent tool: the coordinator makes those calls).          *)
(***************************************************************************)
EXTENDS Naturals, FiniteSets

CONSTANTS
  Agents,      \* agent ids (ToolContext.session_id)
  Tasks,       \* task ids
  Deps,        \* Deps[t]: the depends_on of task t
  Adders,      \* agents that add tasks
  Cancellers,  \* agents that cancel any task
  None,        \* Option::None; also the argument of an agent with no call
  MaxFaults    \* bound: how many calls may be cut short

ASSUME CoordAssumption ==
  /\ Deps \in [Tasks -> SUBSET Tasks]
  /\ Adders \subseteq Agents
  /\ Cancellers \subseteq Agents
  /\ None \notin Agents /\ None \notin Tasks
  /\ MaxFaults \in Nat

VARIABLES
  entry,     \* entry[t]: the contents of <t>.json
  claim,     \* claim[t]: the agent whose create_new made <t>.claim, or None
  stamped,   \* the tasks whose claim file already holds the agent's id
  pc,        \* pc[a]: the step of a's call of the board
  arg,       \* arg[a]: the task that call is about
  todo,      \* todo[a]: the dependencies claim_task has still to read
  local,     \* local[a]: the copy of the task that a call read and will write
  mine,      \* mine[a]: tasks a was told it owns and has not finished
  faults,    \* calls cut short so far
  done       \* history: the tasks that have ever been Completed

vars == <<entry, claim, stamped, pc, arg, todo, local, mine, faults, done>>
files == <<entry, claim, stamped>>

Someone == Agents \union {None}
Terminal == {"completed", "failed", "cancelled"}
Status == {"absent", "pending", "claimed"} \union Terminal
\* The result is a payload: the agent that supplied it stands for its text.
Entries == [status : Status, owner : Someone, result : Someone]
NoEntry == [status |-> "absent", owner |-> None, result |-> None]
Fresh   == [status |-> "pending", owner |-> None, result |-> None]
Steps   == {"idle", "add", "deps", "stamp", "publish", "beaten", "finish", "unlink"}

TypeOK ==
  /\ entry \in [Tasks -> Entries]
  /\ claim \in [Tasks -> Someone]
  /\ stamped \subseteq Tasks
  /\ pc \in [Agents -> Steps]
  /\ arg \in [Agents -> Tasks \union {None}]
  /\ \A a \in Agents : pc[a] # "idle" => arg[a] \in Tasks
  /\ todo \in [Agents -> SUBSET Tasks]
  /\ local \in [Agents -> Entries]
  /\ mine \in [Agents -> SUBSET Tasks]
  /\ faults \in Nat
  /\ done \subseteq Tasks

Init ==
  /\ entry = [t \in Tasks |-> NoEntry]
  /\ claim = [t \in Tasks |-> None]
  /\ stamped = {}
  /\ pc = [a \in Agents |-> "idle"]
  /\ arg = [a \in Agents |-> None]
  /\ todo = [a \in Agents |-> {}]
  /\ local = [a \in Agents |-> NoEntry]
  /\ mine = [a \in Agents |-> {}]
  /\ faults = 0
  /\ done = {}

---------------------------------------------------------------------------
\* The bookkeeping of one call: it begins, moves on, and returns.

Begin(a, t, step, copy, deps) ==
  /\ pc[a] = "idle"
  /\ pc' = [pc EXCEPT ![a] = step]
  /\ arg' = [arg EXCEPT ![a] = t]
  /\ todo' = [todo EXCEPT ![a] = deps]
  /\ local' = [local EXCEPT ![a] = copy]

Move(a, from, to) ==
  /\ pc[a] = from
  /\ pc' = [pc EXCEPT ![a] = to]
  /\ UNCHANGED <<arg, todo, local>>

Return(a) ==
  /\ pc' = [pc EXCEPT ![a] = "idle"]
  /\ arg' = [arg EXCEPT ![a] = None]
  /\ todo' = [todo EXCEPT ![a] = {}]
  /\ local' = [local EXCEPT ![a] = NoEntry]

Leave(a, from) == pc[a] = from /\ Return(a)

\* rename(2) of the finished temporary file over the task file.
WriteEntry(t, e) ==
  /\ entry' = [entry EXCEPT ![t] = e]
  /\ done' = IF e.status = "completed" THEN done \union {t} ELSE done

---------------------------------------------------------------------------
\* add_task: path.exists(), then the write.

\* Variant: no check that the task exists.
AddCheckBlind(a, t) ==
  /\ a \in Adders
  /\ Begin(a, t, "add", Fresh, {})
  /\ UNCHANGED <<files, mine, faults, done>>

AddCheck(a, t) ==
  /\ a \in Adders
  /\ entry[t].status = "absent"
  /\ Begin(a, t, "add", Fresh, {})
  /\ UNCHANGED <<files, mine, faults, done>>

AddWrite(a) ==
  /\ Leave(a, "add")
  /\ WriteEntry(arg[a], local[a])
  /\ UNCHANGED <<claim, stamped, mine, faults>>

---------------------------------------------------------------------------
\* claim_task: read the task, read each dependency, create the claim file
\* exclusively, write the agent's id in it, rewrite the task as Claimed.

\* Variant: the claim file is created before the checks of the call.
ClaimReadAfterCreate(a, t) ==
  /\ entry[t].status = "pending"
  /\ claim[t] = None
  /\ claim' = [claim EXCEPT ![t] = a]
  /\ Begin(a, t, "deps", entry[t], Deps[t])
  /\ UNCHANGED <<entry, stamped, mine, faults, done>>

ClaimRead(a, t) ==
  /\ entry[t].status = "pending"
  /\ Begin(a, t, "deps", entry[t], Deps[t])
  /\ UNCHANGED <<files, mine, faults, done>>

\* Variant: any terminal dependency counts as resolved.
DepReadTerminal(a, d) ==
  /\ pc[a] = "deps" /\ d \in todo[a]
  /\ IF entry[d].status \in Terminal
     THEN /\ todo' = [todo EXCEPT ![a] = @ \ {d}]
          /\ UNCHANGED <<pc, arg, local>>
     ELSE Return(a)
  /\ UNCHANGED <<files, mine, faults, done>>

\* unresolved_deps reads the dependencies one file at a time; one that is not
\* Completed when it is read makes the call return NotReady.
DepRead(a, d) ==
  /\ pc[a] = "deps" /\ d \in todo[a]
  /\ IF entry[d].status = "completed"
     THEN /\ todo' = [todo EXCEPT ![a] = @ \ {d}]
          /\ UNCHANGED <<pc, arg, local>>
     ELSE Return(a)
  /\ UNCHANGED <<files, mine, faults, done>>

\* Variant: the file is opened without create_new.
CreateShared(a) ==
  /\ todo[a] = {}
  /\ Move(a, "deps", "stamp")
  /\ claim' = [claim EXCEPT ![arg[a]] = a]
  /\ UNCHANGED <<entry, stamped, mine, faults, done>>

Create(a) ==
  /\ todo[a] = {}
  /\ Move(a, "deps", "stamp")
  /\ claim[arg[a]] = None
  /\ claim' = [claim EXCEPT ![arg[a]] = a]
  /\ UNCHANGED <<entry, stamped, mine, faults, done>>

\* Variant: the answer of create_exclusive is ignored.
CreateLosesUnnoticed(a) ==
  /\ todo[a] = {}
  /\ Move(a, "deps", "stamp")
  /\ claim[arg[a]] # None
  /\ UNCHANGED <<files, mine, faults, done>>

CreateLoses(a) ==
  /\ todo[a] = {}
  /\ Move(a, "deps", "beaten")
  /\ claim[arg[a]] # None
  /\ UNCHANGED <<files, mine, faults, done>>

\* The loser reads the claim file for the owner it reports, and returns
\* AlreadyClaimed whatever it finds.
ReadWinner(a) ==
  /\ Leave(a, "beaten")
  /\ UNCHANGED <<files, mine, faults, done>>

\* write_all goes to the file this call created; when a finish unlinked it in
\* the meantime, no name leads to the text any more.
Stamp(a) ==
  /\ Move(a, "stamp", "publish")
  /\ stamped' = IF claim[arg[a]] = a THEN stamped \union {arg[a]} ELSE stamped
  /\ UNCHANGED <<entry, claim, mine, faults, done>>

\* Variant: id and agent_id are swapped.
PublishSwapped(a) ==
  /\ Leave(a, "publish")
  /\ WriteEntry(arg[a], [local[a] EXCEPT !.status = "claimed", !.owner = arg[a]])
  /\ mine' = [mine EXCEPT ![a] = @ \union {arg[a]}]
  /\ UNCHANGED <<claim, stamped, faults>>

\* The write is computed from the copy read at the start of the call.
Publish(a) ==
  /\ Leave(a, "publish")
  /\ WriteEntry(arg[a], [local[a] EXCEPT !.status = "claimed", !.owner = a])
  /\ mine' = [mine EXCEPT ![a] = @ \union {arg[a]}]
  /\ UNCHANGED <<claim, stamped, faults>>

---------------------------------------------------------------------------
\* finish, behind complete_task, fail_task and cancel_task: read the task,
\* refuse a terminal one, write the new status, unlink the claim file.

MayFinish(a, t, status) ==
  \/ t \in mine[a] /\ status \in {"completed", "failed"}
  \/ a \in Cancellers /\ status = "cancelled"

\* The copy that finish will write back.
Finished(a, t, status) ==
  [entry[t] EXCEPT !.status = status,
                   !.result = IF status = "cancelled" THEN None ELSE a]

\* Variant: the claim file is unlinked before the task is written.
FinishReadUnlinks(a, t, status) ==
  /\ MayFinish(a, t, status)
  /\ entry[t].status \notin Terminal \union {"absent"}
  /\ Begin(a, t, "finish", Finished(a, t, status), {})
  /\ claim' = [claim EXCEPT ![t] = None]
  /\ stamped' = stamped \ {t}
  /\ UNCHANGED <<entry, mine, faults, done>>

\* Variant: only a pending task may be finished.
FinishReadPendingOnly(a, t, status) ==
  /\ MayFinish(a, t, status)
  /\ entry[t].status = "pending"
  /\ Begin(a, t, "finish", Finished(a, t, status), {})
  /\ UNCHANGED <<files, mine, faults, done>>

FinishRead(a, t, status) ==
  /\ MayFinish(a, t, status)
  /\ entry[t].status \notin Terminal \union {"absent"}
  /\ Begin(a, t, "finish", Finished(a, t, status), {})
  /\ UNCHANGED <<files, mine, faults, done>>

\* InvalidTransition: the agent learns that its task is already over.
FinishRefused(a, t) ==
  /\ pc[a] = "idle" /\ t \in mine[a]
  /\ entry[t].status \in Terminal
  /\ mine' = [mine EXCEPT ![a] = @ \ {t}]
  /\ UNCHANGED <<files, pc, arg, todo, local, faults, done>>

FinishWrite(a) ==
  /\ Move(a, "finish", "unlink")
  /\ WriteEntry(arg[a], local[a])
  /\ UNCHANGED <<claim, stamped, mine, faults>>

FinishUnlink(a) ==
  /\ Leave(a, "unlink")
  /\ claim' = [claim EXCEPT ![arg[a]] = None]
  /\ stamped' = stamped \ {arg[a]}
  /\ mine' = [mine EXCEPT ![a] = @ \ {arg[a]}]
  /\ UNCHANGED <<entry, faults, done>>

---------------------------------------------------------------------------
\* Faults.

Fault == faults < MaxFaults /\ faults' = faults + 1

\* The process dies, between any two calls of the file system, and comes back
\* under the same id remembering nothing.
Crash(a) ==
  /\ Fault
  /\ pc[a] # "idle" \/ mine[a] # {}
  /\ Return(a)
  /\ mine' = [mine EXCEPT ![a] = {}]
  /\ UNCHANGED <<files, done>>

\* A write fails (disk full, quota): the call returns Err where it stands.
WriteError(a) ==
  /\ Fault
  /\ pc[a] \in {"add", "stamp", "publish", "finish"}
  /\ Return(a)
  /\ UNCHANGED <<files, mine, done>>

\* The unlink fails: its result is ignored and the call returns Ok.
UnlinkError(a) ==
  /\ Fault
  /\ Leave(a, "unlink")
  /\ mine' = [mine EXCEPT ![a] = @ \ {arg[a]}]
  /\ UNCHANGED <<files, done>>

\* A restarted agent reads the task and finds itself its owner.
Resume(a, t) ==
  /\ pc[a] = "idle"
  /\ entry[t].status = "claimed" /\ entry[t].owner = a
  /\ t \notin mine[a]
  /\ mine' = [mine EXCEPT ![a] = @ \union {t}]
  /\ UNCHANGED <<files, pc, arg, todo, local, faults, done>>

---------------------------------------------------------------------------
AddTask(a)    == (\E t \in Tasks : AddCheck(a, t)) \/ AddWrite(a)
ClaimTask(a)  == \/ \E t \in Tasks : ClaimRead(a, t) \/ DepRead(a, t)
                 \/ Create(a) \/ CreateLoses(a) \/ ReadWinner(a)
                 \/ Stamp(a) \/ Publish(a)
FinishTask(a) == \/ \E t \in Tasks, s \in Terminal : FinishRead(a, t, s)
                 \/ \E t \in Tasks : FinishRefused(a, t)
                 \/ FinishWrite(a) \/ FinishUnlink(a)
Faulty(a)     == \/ Crash(a) \/ WriteError(a) \/ UnlinkError(a)
                 \/ \E t \in Tasks : Resume(a, t)

Next == \E a \in Agents : AddTask(a) \/ ClaimTask(a) \/ FinishTask(a) \/ Faulty(a)

Spec == Init /\ [][Next]_vars

(***************************************************************************)
(* Fairness.  The operating system runs a call that has begun to its end,  *)
(* and agents follow the prompt: one that can claim a pending task again   *)
(* and again eventually tries, and one that owns a task finishes it.       *)
(***************************************************************************)
InCall(a) == \/ \E t \in Tasks : DepRead(a, t)
             \/ AddWrite(a) \/ Create(a) \/ CreateLoses(a) \/ ReadWinner(a)
             \/ Stamp(a) \/ Publish(a) \/ FinishWrite(a) \/ FinishUnlink(a)

Fairness ==
  \A a \in Agents :
    /\ WF_vars(InCall(a))
    /\ \A t \in Tasks :
         /\ SF_vars(ClaimRead(a, t))
         /\ SF_vars(FinishRead(a, t, "completed") \/ FinishRead(a, t, "failed"))
         /\ SF_vars(FinishRefused(a, t))

FairSpec == Spec /\ Fairness

---------------------------------------------------------------------------
\* Properties.

\* Agent a behaves as the owner of task t: it is past the exclusive create of a
\* claim, or was told it owns t and has not returned from finishing it.
Holds(a, t) == t \in mine[a] \/ (pc[a] \in {"stamp", "publish"} /\ arg[a] = t)

Ready(t) == entry[t].status = "pending"
            /\ \A d \in Deps[t] : entry[d].status = "completed"

\* Two agents never work on one task at a time, and the claim file names the one
\* that does, through crashes, failed writes and racing adders (claim_task and
\* finish, when nobody cancels).
ExclusiveWork ==
  \A a \in Agents, t \in Tasks : Holds(a, t) => claim[t] = a

\* Whoever reads that a task is Claimed can trust its owner field: the claim file
\* is that agent's (the JSON file and its .claim sibling agree).
OwnerHasClaimFile ==
  \A t \in Tasks :
    entry[t].status = "claimed" => entry[t].owner \in Agents /\ claim[t] = entry[t].owner

\* A write replaces what its call read: an add finds no task, a finish finds the claimed
\* task it read, and a claim finds the pending task it read or one that is over, never
\* another agent's claim (one adder, nobody cancels).  A task that is over is the one
\* update a claim does wipe out: a call that read it before it was claimed, finished and
\* released by another agent creates the claim file and reopens it (board.rs:183).
CopiesAreCurrent ==
  \A a \in Agents :
    LET now == entry[arg[a]] IN
    /\ pc[a] = "add" => now.status = "absent"
    /\ pc[a] = "finish" => now = [local[a] EXCEPT !.status = "claimed", !.result = None]
    /\ pc[a] \in {"stamp", "publish"} => now = local[a] \/ now.status \in Terminal

\* Work on a task starts only after each of its dependencies has been Completed,
\* though claim_task reads them one at a time, and even when tasks are cancelled.
DepsFirst ==
  \A t \in Tasks :
    entry[t].status = "claimed" \/ (\E a \in Agents : Holds(a, t)) => Deps[t] \subseteq done

\* A task that list_ready_tasks shows, and that no call is about, has no claim file,
\* so an agent that tries to claim it gets it (board.rs:118 "what can I claim
\* right now?"; prompt.rs:22 "tasks available to claim right now").
ReadyIsClaimable ==
  \A t \in Tasks :
    Ready(t) /\ (\A a \in Agents : arg[a] # t) => claim[t] = None

\* A ready task does not stay on the board for ever: it is claimed, or the agents
\* see one of its dependencies change (claim_task under fair, fault-free agents).
ReadyIsTaken ==
  \A t \in Tasks : Ready(t) ~> ~Ready(t)

\* Everything that was claimed is eventually over.
ClaimedIsFinished ==
  \A t \in Tasks : entry[t].status = "claimed" ~> entry[t].status \in Terminal

\* The board implements the ownership protocol of BoardLock.
Lock == INSTANCE BoardLock
          WITH owner <- claim,
               working <- [t \in Tasks |-> {a \in Agents : t \in mine[a]}]
LockSpec == Lock!Spec
===============================================================================

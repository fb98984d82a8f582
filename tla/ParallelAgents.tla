----------------------------- MODULE ParallelAgents -----------------------------
(***************************************************************************)
(* Batches of parallel agents in the terminal interface.  The tool         *)
(* spawn_parallel_agents sends a SpawnParallel event and waits for the     *)
(* batch's report with no timeout; the event loop registers the batch,     *)
(* queues its tasks, starts those whose dependencies have completed while  *)
(* fewer than MaxConcurrent run, and on the Done event of an agent marks   *)
(* its child, answers the tool if the batch is complete, and starts more.  *)
(* The handlers run one at a time; events of different senders reach them  *)
(* in any order, so an event in the channel is a state of its sender.      *)
(* Ordinary sub-agents (/spawn, SubAgentSpawn) share the Done handler.     *)
(* Results, reports, inline panes, task rows and worktrees are left out.   *)
(***************************************************************************)
EXTENDS Naturals, FiniteSets, Sequences

CONSTANTS
  Batches,        \* the calls of the tool
  Subtasks,       \* Subtasks[b]: sequence of [key, deps], 2 to 5 of them
  Ordinary,       \* sub-agents that are in no batch
  MayFail,        \* the agents whose run may end without a Done event
  MaxConcurrent,  \* MAX_CONCURRENT_AGENTS
  None

Tasks == UNION {{b} \X DOMAIN Subtasks[b] : b \in Batches}
Key(b, i)  == Subtasks[b][i].key
Deps(b, i) == Subtasks[b][i].deps

ASSUME BatchesAssumption ==
  /\ \A b \in Batches : Subtasks[b] \in Seq([key : STRING, deps : SUBSET STRING])
  /\ \A b \in Batches : Len(Subtasks[b]) \in 2 .. 5
  /\ Ordinary \cap Tasks = {} /\ None \notin Tasks \union Ordinary
  /\ MayFail \subseteq Tasks \union Ordinary
  /\ MaxConcurrent \in Nat \ {0}

VARIABLES
  provider,  \* whether the application has a provider; it keeps it or lacks it
  call,      \* call[b]: where the tool call is
  children,  \* children[b]: parallel_batches[b].children, empty if not registered
  queue,     \* pending_agent_queue
  running,   \* running_parallel_agents
  agent,     \* agent[a]: the run of agent a; that of a task is named after it
  stolen     \* how often the Done of an ordinary sub-agent lowered `running`

vars == <<provider, call, children, queue, running, agent, stolen>>

Agents == Tasks \union Ordinary
AgentStates == {"none", "working", "done", "handled", "failed"}
ChildType == [status : {"Pending", "Running", "Completed"}, agent : Tasks \union {None}]

TypeOK ==
  /\ provider \in BOOLEAN
  /\ call \in [Batches -> {"idle", "sent", "waiting", "answered"}]
  /\ children \in [Batches -> Seq(ChildType)]
  /\ queue \in Seq(Tasks)
  /\ running \in Nat /\ stolen \in Nat
  /\ agent \in [Agents -> AgentStates]

Init ==
  /\ provider \in BOOLEAN
  /\ call = [b \in Batches |-> "idle"]
  /\ children = [b \in Batches |-> <<>>]
  /\ queue = <<>>
  /\ running = 0
  /\ agent = [a \in Agents |-> "none"]
  /\ stolen = 0

-----------------------------------------------------------------------------
(* Starting tasks *)

\* Mutant: a dependency that has started counts as met.
CompletedKeys_M(cs, b) == {Key(b, j) : j \in {k \in DOMAIN cs[b] : cs[b][k].status # "Pending"}}
CompletedKeys(cs, b) == {Key(b, j) : j \in {k \in DOMAIN cs[b] : cs[b][k].status = "Completed"}}

Runnable(cs, t) == Deps(t[1], t[2]) \subseteq CompletedKeys(cs, t[1])
Ready(cs, q)    == {k \in DOMAIN q : Runnable(cs, q[k])}

\* k is the Rank(K, k)-th of the places K.
Rank(K, k) == Cardinality({j \in K : j <= k})

\* Mutant: the limit is not looked at.
Taken_M(cs, q, count) == Ready(cs, q)
\* The places the loop takes: the first that are ready, while there is room.  What it
\* starts makes nothing else ready.
Taken(cs, q, count) ==
  {k \in Ready(cs, q) : count + Rank(Ready(cs, q), k) <= MaxConcurrent}

\* Keys are not checked for repetition: an agent is noted at the first child of its
\* key that is free, so the n-th to start is noted at the n-th.
Free(cs, b, x) == {j \in DOMAIN cs[b] :
  Key(b, j) = x /\ cs[b][j].agent = None /\ cs[b][j].status = "Pending"}
Rivals(q, K, b, x) == {k \in K : q[k][1] = b /\ Key(b, q[k][2]) = x}
NotedAt(cs, q, K, b, j) ==
  LET x == Key(b, j)
  IN  {k \in Rivals(q, K, b, x) :
         j \in Free(cs, b, x) /\ Rank(Rivals(q, K, b, x), k) = Rank(Free(cs, b, x), j)}
NoteStarts(cs, q, K) ==
  [b \in Batches |-> [j \in DOMAIN cs[b] |->
     IF NotedAt(cs, q, K, b, j) = {} THEN cs[b][j]
     ELSE [status |-> "Running", agent |-> q[CHOOSE k \in NotedAt(cs, q, K, b, j) : TRUE]]]]

\* What a list holds at the places K, in its order.
Retain(s, K) == [n \in 1 .. Cardinality(K) |-> s[CHOOSE k \in K : Rank(K, k) = n]]

\* spawn_ready_parallel_tasks, called with the state the handler has reached.
SpawnReady(cs, q, count, ags) ==
  LET taken == Taken(cs, q, count)
      started == {q[k] : k \in taken}
  IN  /\ children' = NoteStarts(cs, q, taken)
      /\ queue' = Retain(q, DOMAIN q \ taken)
      /\ running' = count + Cardinality(taken)
      /\ agent' = [a \in Agents |-> IF a \in started THEN "working" ELSE ags[a]]

-----------------------------------------------------------------------------
(* The tool, the agents and the handlers *)

Call(b) ==
  /\ call[b] = "idle"
  /\ call' = [call EXCEPT ![b] = "sent"]
  /\ UNCHANGED <<provider, children, queue, running, agent, stolen>>

\* Without a provider the batch stays registered and nothing is queued.
HandleSpawnParallel(b) ==
  /\ call[b] = "sent"
  /\ call' = [call EXCEPT ![b] = "waiting"]
  /\ LET new == [i \in DOMAIN Subtasks[b] |-> [status |-> "Pending", agent |-> None]]
         cs  == [children EXCEPT ![b] = new]
         all == [i \in DOMAIN Subtasks[b] |-> <<b, i>>]
     IN  IF provider THEN SpawnReady(cs, queue \o all, running, agent)
         ELSE children' = cs /\ UNCHANGED <<queue, running, agent>>
  /\ UNCHANGED <<provider, stolen>>

SpawnOrdinary(a) ==
  /\ provider /\ agent[a] = "none"
  /\ agent' = [agent EXCEPT ![a] = "working"]
  /\ UNCHANGED <<provider, call, children, queue, running, stolen>>

\* The run returns Ok, also when a guard stops it, and Done is in the channel.
Finish(a) ==
  /\ agent[a] = "working"
  /\ agent' = [agent EXCEPT ![a] = "done"]
  /\ UNCHANGED <<provider, call, children, queue, running, stolen>>

\* The run returns an error or panics: neither Done nor Finished is emitted.
Fail(a) ==
  /\ a \in MayFail /\ agent[a] = "working"
  /\ agent' = [agent EXCEPT ![a] = "failed"]
  /\ UNCHANGED <<provider, call, children, queue, running, stolen>>

Updated(a) ==
  [b \in Batches |-> [j \in DOMAIN children[b] |->
     IF children[b][j].agent = a THEN [children[b][j] EXCEPT !.status = "Completed"]
     ELSE children[b][j]]]

\* Mutant: a batch is complete when no child runs any more.
IsComplete_M(cs, b) == \A j \in DOMAIN cs[b] : cs[b][j].status # "Running"
IsComplete(cs, b) == \A j \in DOMAIN cs[b] : cs[b][j].status = "Completed"

\* finalize_parallel_batch runs for the batch whose child was updated; the
\* sender of the report is taken, so it answers once.
Answered(cs, a) ==
  [b \in Batches |->
     IF (\E j \in DOMAIN cs[b] : cs[b][j].agent = a) /\ IsComplete(cs, b)
     THEN "answered" ELSE call[b]]

\* Mutant: the slot is freed and nothing is started in it.
CountDone_M(cs, a, ags) ==
  /\ running' = IF running > 0 THEN running - 1 ELSE 0
  /\ stolen' = stolen
  /\ children' = cs /\ agent' = ags /\ UNCHANGED queue

\* The count falls for any sub-agent, and only if it falls are tasks started.
CountDone(cs, a, ags) ==
  IF running > 0
  THEN /\ stolen' = IF a \in Ordinary THEN stolen + 1 ELSE stolen
       /\ SpawnReady(cs, queue, running - 1, ags)
  ELSE /\ children' = cs /\ agent' = ags
       /\ UNCHANGED <<queue, running, stolen>>

HandleDone(a) ==
  /\ agent[a] = "done"
  /\ LET cs == Updated(a) IN
       /\ call' = Answered(cs, a)
       /\ CountDone(cs, a, [agent EXCEPT ![a] = "handled"])
  /\ UNCHANGED provider

Handle == \/ \E b \in Batches : HandleSpawnParallel(b)
          \/ \E a \in Agents : HandleDone(a)

Next ==
  \/ Handle
  \/ \E b \in Batches : Call(b)
  \/ \E a \in Ordinary : SpawnOrdinary(a)
  \/ \E a \in Agents : Finish(a) \/ Fail(a)

Spec == Init /\ [][Next]_vars

\* The loop handles every event of its channel, and a run is bounded by its
\* maximum of iterations.
FairSpec ==
  /\ Spec
  /\ \A b \in Batches : WF_vars(HandleSpawnParallel(b))
  /\ \A a \in Agents : WF_vars(HandleDone(a)) /\ WF_vars(Finish(a) \/ Fail(a))

-----------------------------------------------------------------------------
(* Properties *)

Queued == {queue[k] : k \in DOMAIN queue}
Live == {t \in Tasks : agent[t] \in {"working", "done", "failed"}}

\* The tool is answered exactly when the loop has handled the Done of the agent
\* of each of the batch's subtasks: not while one runs or waits, and not never.
AnswerIsComplete == \A b \in Batches :
  call[b] = "answered" <=> \A i \in DOMAIN Subtasks[b] : agent[<<b, i>>] = "handled"

\* No agent is started before, for each key its subtask depends on, the agent of
\* a subtask with that key has sent Done, whatever ends in between.
DependentsWait == \A t \in Tasks : agent[t] # "none" =>
  \A d \in Deps(t[1], t[2]) : \E i \in DOMAIN Subtasks[t[1]] :
    Key(t[1], i) = d /\ agent[<<t[1], i>>] = "handled"

\* The count never exceeds the agents that were started and have not been handled
\* (so no slot is lost while none has failed), and falls short of them only by
\* what ordinary sub-agents took: it is exact without them.
CountCovers ==
  /\ running <= MaxConcurrent
  /\ running <= Cardinality(Live)
  /\ Cardinality(Live) <= running + stolen

\* The dependencies of a batch can be met in some order.
Satisfiable(b) == \E rank \in [DOMAIN Subtasks[b] -> DOMAIN Subtasks[b]] :
  \A i \in DOMAIN Subtasks[b] : \A d \in Deps(b, i) :
    \E j \in DOMAIN Subtasks[b] : Key(b, j) = d /\ rank[j] < rank[i]

\* A tool call whose dependencies can be met is answered, unless there is no
\* provider, an agent has failed or an ordinary sub-agent has lowered the count.
BatchAnswered == \A b \in Batches : Satisfiable(b) =>
  (call[b] = "sent" ~> \/ call[b] = "answered"
                       \/ ~provider \/ stolen > 0
                       \/ \E a \in Tasks : agent[a] = "failed")

\* A subtask whose dependencies have completed does not stay queued while fewer
\* agents than the limit run.
ReadyIsStarted == \A t \in Tasks :
  (t \in Queued /\ Runnable(children, t) /\ Cardinality(Live) < MaxConcurrent)
    ~> t \notin Queued
=================================================================================

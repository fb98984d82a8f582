------------------------------- MODULE PhaseLoop -------------------------------
(***************************************************************************)
(* The engine of src/src/pipeline/engine: it takes a copy of a task        *)
(* through the phases, one handler at a time, with a timeout for each and  *)
(* a budget of retries for all.  The handlers of Review, Implement and     *)
(* Docs work on the quality loop (module QALoop) of the task's metadata;   *)
(* every handler of one run sees the metadata the run started with, and    *)
(* what it makes of it is in its result only.  Around the engine: the      *)
(* dispatcher, which records the outcome of a run, and callers that put a  *)
(* result's loop into the metadata and run again.                          *)
(***************************************************************************)
EXTENDS QALoop, Sequences

CONSTANTS
  None,
  MaxRetries,   \* Task.max_retries
  PhaseLists,   \* arguments of run_phases
  Reports,      \* findings a review may report, without their ids
  MaxRuns       \* bound: runs of the engine

ASSUME EngineAssumption == MaxRetries \in Nat /\ MaxRuns \in Nat
ASSUME NoneAssumption == None \notin [success : BOOLEAN, loop : Loops \union {None}]

VARIABLES
  stored,     \* the queue's task: phase, status, the loop of its metadata or None
  engine,     \* what the engine is doing: the run, its agent, the list it has left
  task,       \* the engine's copy: phase, status, retry_count
  results,    \* phase_results: None, or success and the loop in the metadata
  reviews,    \* history: reviews answered
  runs        \* history: runs started

vars == <<stored, engine, task, results, reviews, runs>>

Order == <<"research", "ideation", "plan", "draft", "review", "implement", "docs">>
Phases == {Order[i] : i \in DOMAIN Order}
Position(p) == CHOOSE i \in DOMAIN Order : Order[i] = p
\* Mutant of NextPhase: the review is skipped.
NextPhase_M(p) == IF p = "draft" THEN "implement" ELSE Order[Position(p) + 1]
NextPhase(p) == Order[Position(p) + 1]
IsFinal(p) == p = "docs"

\* The type of run_phases' argument, &[Phase].
ASSUME ListsAssumption == PhaseLists \subseteq Seq(Phases)

Terminal == {"completed", "failed", "cancelled"}
Statuses == {"queued", "in_progress"} \union Terminal
Idle == [doing |-> "nothing", call |-> "run", agent |-> FALSE, left |-> <<>>]
NoResults == [p \in Phases |-> None]

TypeOK ==
  /\ stored \in [phase : Phases, status : Statuses, loop : Loops \union {None}]
  /\ engine \in [doing : {"nothing", "running", "succeeded", "failed", "error"},
                 call : {"run", "run_phases"}, agent : BOOLEAN, left : Seq(Phases)]
  /\ task \in [phase : Phases, status : Statuses, retry : 0..MaxRetries]
  /\ results \in [Phases -> {None} \union [success : BOOLEAN, loop : Loops \union {None}]]
  /\ reviews \in Nat /\ runs \in 0..MaxRuns

\* A task may be created with any phase (TaskIntakeInput.initial_phase).
Init ==
  /\ \E phase \in Phases : stored = [phase |-> phase, status |-> "queued", loop |-> None]
  /\ engine = Idle
  /\ task = [phase |-> "research", status |-> "queued", retry |-> 0]
  /\ results = NoResults
  /\ reviews = 0 /\ runs = 0

---------------------------------------------------------------------------
\* The engine returns, with a result or an error.
Return(how) == engine' = [engine EXCEPT !.doing = how]

SetStatus(status) == task' = [task EXCEPT !.status = status]

\* A run begins: the engine's copy is in progress.
Begin(call, phase, agent, left) ==
  /\ engine.doing = "nothing" /\ runs < MaxRuns
  /\ engine' = [doing |-> "running", call |-> call, agent |-> agent, left |-> left]
  /\ task' = [phase |-> phase, status |-> "in_progress", retry |-> 0]
  /\ results' = NoResults
  /\ runs' = runs + 1
  /\ UNCHANGED reviews

\* run, run_with_agent: refused for a terminal task, from the task's phase on.  The
\* engine advances its copy; the phase of the queue's task stays what it was.
Run(agent) ==
  /\ stored.status \notin Terminal
  /\ Begin("run", stored.phase, agent, <<>>)
  /\ stored' = [stored EXCEPT !.status = "in_progress"]

\* run_phases does not look at the status; an empty list is a success as it is.
RunPhases(list, agent) ==
  /\ list # <<>>
  /\ Begin("run_phases", Head(list), agent, list)
  /\ UNCHANGED stored

RunNoPhases(list) ==
  /\ list = <<>> /\ engine.doing = "nothing" /\ runs < MaxRuns
  /\ runs' = runs + 1
  /\ engine' = [Idle EXCEPT !.doing = "succeeded", !.call = "run_phases"]
  /\ results' = NoResults
  /\ UNCHANGED <<stored, task, reviews>>

---------------------------------------------------------------------------
Running == engine.doing = "running"
Phase   == task.phase

\* A handler came back with a result: it is kept, and the run goes on or ends.
Advance ==
  \/ /\ engine.call = "run" /\ ~IsFinal(Phase)
     /\ task' = [task EXCEPT !.phase = NextPhase(Phase)]
     /\ UNCHANGED engine
  \/ /\ engine.call = "run_phases" /\ Len(engine.left) > 1
     /\ task' = [task EXCEPT !.phase = engine.left[2]]
     /\ engine' = [engine EXCEPT !.left = Tail(@)]
  \/ /\ IF engine.call = "run" THEN IsFinal(Phase) ELSE Len(engine.left) = 1
     /\ SetStatus("completed") /\ Return("succeeded")

Result(success, loop) ==
  /\ results' = [results EXCEPT ![Phase] = [success |-> success, loop |-> loop]]
  /\ \/ success /\ Advance
     \/ /\ ~success
        /\ SetStatus("failed") /\ Return("failed")

Calls == Running /\ UNCHANGED <<stored, runs>>

\* Without an agent every handler prepares its instruction and succeeds.
DryRun ==
  /\ Calls /\ ~engine.agent
  /\ Result(TRUE, IF Phase \notin {"review", "implement", "docs"} THEN None
                  ELSE IF Phase = "review" /\ stored.loop = None THEN NewLoop ELSE stored.loop)
  /\ UNCHANGED reviews

\* The handlers of Research, Ideation, Plan and Draft.
Plain ==
  /\ Calls /\ engine.agent /\ Phase \notin {"review", "implement", "docs"}
  /\ Result(TRUE, None)
  /\ UNCHANGED reviews

WithIds(report) == {[id |-> <<reviews + 1, f>>, severe |-> f.severe,
                     category |-> f.category, resolved |-> f.resolved] : f \in report}

\* The review handler: a loop of its own if the task carries none.
Review(report, verdict) ==
  /\ Calls /\ engine.agent /\ Phase = "review"
  /\ reviews' = reviews + 1
  /\ LET old == IF stored.loop = None THEN NewLoop ELSE stored.loop
         new == ReviewLoop(old, WithIds(report), verdict)
     IN Result(new.state = "approved", new)

Implement(validation) ==
  /\ Calls /\ engine.agent /\ Phase = "implement"
  /\ Result(TRUE, IF stored.loop = None THEN None ELSE ImplementLoop(stored.loop, validation))
  /\ UNCHANGED reviews

Docs(docs) ==
  /\ Calls /\ engine.agent /\ Phase = "docs"
  /\ Result(TRUE, IF stored.loop = None THEN None ELSE DocsLoop(stored.loop, docs))
  /\ UNCHANGED reviews

\* A handler error: the phase is tried again while the budget of the task
\* lasts; run_phases hands it on at once, and tells nobody.
\* Mutant of Retry: a retry starts the run over and is not counted.
Retry_M == task.retry < MaxRetries /\ task' = [task EXCEPT !.phase = "research"] /\ UNCHANGED engine
Retry == task.retry < MaxRetries /\ task' = [task EXCEPT !.retry = @ + 1] /\ UNCHANGED engine
GiveUp == /\ task.retry >= MaxRetries
          /\ SetStatus("failed") /\ Return("error")
HandOn == engine.call = "run_phases" /\ Return("error") /\ UNCHANGED task
Fails == /\ Calls
         /\ \/ engine.call = "run" /\ (Retry \/ GiveUp)
            \/ HandOn
         /\ UNCHANGED <<results, reviews>>
Error == engine.agent /\ Fails

\* A guard stops the agent: an error, except in Ideation, which does not ask.
SafetyStop ==
  /\ engine.agent
  /\ \/ Phase # "ideation" /\ Fails
     \/ Phase = "ideation" /\ Calls /\ Result(TRUE, None) /\ UNCHANGED reviews

\* A timeout is not retried.
Timeout ==
  /\ Calls /\ engine.agent
  /\ \/ engine.call = "run" /\ SetStatus("failed") /\ Return("error")
     \/ HandOn
  /\ UNCHANGED <<results, reviews>>

Execute ==
  \/ DryRun \/ Plain
  \/ \E report \in Reports, verdict \in BOOLEAN : Review(report, verdict)
  \/ \E v \in {"none", "low", "ok"} : Implement(v)
  \/ \E d \in {"missing", "ok"} : Docs(d)
  \/ Error \/ SafetyStop \/ Timeout

---------------------------------------------------------------------------
\* The dispatcher writes how the run ended, from its success alone.
Record ==
  /\ engine.doing \in {"succeeded", "failed", "error"}
  /\ stored' = [stored EXCEPT !.status = IF engine.doing = "succeeded" THEN "completed" ELSE "failed"]
  /\ engine' = Idle
  /\ UNCHANGED <<task, results, reviews, runs>>

\* A caller queues the task again; it may first patch the metadata with the
\* loop of a result, which is how a handler is meant to find it.
Resubmit(p) ==
  /\ engine.doing = "nothing" /\ runs > 0 /\ runs < MaxRuns
  /\ stored.status \in Terminal
  /\ stored' = [stored EXCEPT !.status = "queued",
                              !.loop = IF results[p] # None /\ results[p].loop # None
                                       THEN results[p].loop ELSE @]
  /\ UNCHANGED <<engine, task, results, reviews, runs>>

Next ==
  \/ \E agent \in BOOLEAN : Run(agent) \/ \E list \in PhaseLists : RunPhases(list, agent)
  \/ \E list \in PhaseLists : RunNoPhases(list)
  \/ Execute \/ Record
  \/ \E p \in Phases : Resubmit(p)

\* The engine is a future that is polled until it returns.
Spec == Init /\ [][Next]_vars
LiveSpec == Spec /\ WF_vars(Execute)

---------------------------------------------------------------------------
\* Every loop that a handler may be given.
AllLoops == ({stored.loop} \union {results[p].loop : p \in {q \in Phases : results[q] # None}}) \ {None}

\* A loop that waits for a fix names what to fix, and an approved one names
\* nothing: Implement's fix mode (handlers/implement.rs) never finds an empty
\* list, however reviews, fixes and validations follow each other.
FixHasWork ==
  \A l \in AllLoops : /\ l.state \in {"awaiting_fix", "in_fix"} => l.pending # {}
                      /\ l.state \in {"approved", "escalated"} => l.pending = {}

\* Once a loop was reviewed the merge gate says ready only while that review
\* approved, also when a validation or the documentation is evaluated after it
\* (MergeGate::evaluate over last_review, which outlives the review's result).
ReadyIsApproved ==
  \A l \in AllLoops : l.readiness = "ready" /\ l.review # "none" =>
                        l.state = "approved" /\ l.review = "approved"

\* A phase that went well in this run: a review only if it approved.
Passed(p) == /\ results[p] # None /\ results[p].success
             /\ p = "review" => results[p].loop.state = "approved"

\* A task that run took to Completed with an agent passed, in this very run and
\* whatever was retried, each phase from the one it was created with, an approving
\* review among them, and no other.  A task created beyond Review is Completed
\* without any.
DeliveredWasReviewed ==
  engine.doing = "succeeded" /\ engine.call = "run" /\ engine.agent =>
    \A p \in Phases : IF Position(stored.phase) <= Position(p) THEN Passed(p)
                      ELSE results[p] = None

\* A run ends: errors are retried on one budget for all phases, so however the
\* handlers fail, the loop of the engine comes to an end.
RunEnds == Running ~> ~Running

=============================================================================

---------------------------- MODULE PhaseLoop_proof ----------------------------
(***************************************************************************)
(* Proofs about the quality loop under the engine.  TLC checks reviews     *)
(* with at most two findings and three runs; here findings, runs, retries, *)
(* review cycles and lists of phases are arbitrary.                        *)
(***************************************************************************)
EXTENDS PhaseLoop, TLAPS

\* What a review reports becomes findings with ids of that review.
ReportsAreFindings ==
  \A report \in Reports : \A f \in report :
    /\ f.severe \in BOOLEAN /\ f.category \in BOOLEAN /\ f.resolved \in BOOLEAN
    /\ \A n \in Nat : <<n + 1, f>> \in Ids

\* What every loop that is kept satisfies: it waits for a fix exactly while
\* something is pending, an approving review is that of an approved loop, and no
\* gate calls a rejected loop ready.
Sound(l) ==
  /\ l \in Loops
  /\ l.state \in {"pending", "awaiting_fix", "in_fix", "approved", "escalated"}
  /\ l.pending # {} <=> l.state \in {"awaiting_fix", "in_fix"}
  /\ l.review = "approved" => l.state = "approved"
  /\ l.readiness = "ready" /\ l.review # "none" => l.review = "approved"

\* The loop of a first review starts sound.
LEMMA NewLoopSound == Sound(NewLoop)
  BY DEF Sound, NewLoop, Loops, States

\* The findings of a review are findings, and none of category is left
\* unresolved unless a severe one is.
LEMMA SummaryFacts ==
  ASSUME NEW fs \in SUBSET Findings, NEW verdict \in BOOLEAN
  PROVE  /\ Summary(fs, verdict) \in SUBSET Findings
         /\ Blocking(Summary(fs, verdict)) = {} =>
              Reasons(Summary(fs, verdict)) = {} /\ Finalized(Summary(fs, verdict)) = "approved"
         /\ Blocking(Summary(fs, verdict)) # {} =>
              /\ IdsOf(Blocking(Summary(fs, verdict))) \in Reasons(Summary(fs, verdict))
              /\ Finalized(Summary(fs, verdict)) = "rejected"
<1> DEFINE s == Summary(fs, verdict)
<1>1. s \in SUBSET Findings
  <2>1. CASE fs = {}
    BY <2>1, LoopAssumption DEF Summary, Findings
  <2>2. CASE fs # {}
    BY <2>2 DEF Summary, Findings
  <2> QED
    BY <2>1, <2>2
<1>2. Blocking(s) = {} => \A f \in s : ~(f.category /\ ~f.resolved)
  <2>1. CASE fs = {}
    BY <2>1 DEF Summary
  <2>2. CASE fs # {} /\ ReviewOutcome(fs, verdict)
    <3>1. s = {[f EXCEPT !.resolved = TRUE] : f \in fs}
      BY <2>2 DEF Summary
    <3>2. \A f \in fs : [f EXCEPT !.resolved = TRUE].resolved = TRUE
      BY DEF Findings
    <3> QED
      BY <3>1, <3>2
  <2>3. CASE fs # {} /\ ~ReviewOutcome(fs, verdict)
    BY <2>3 DEF Summary, ReviewOutcome
  <2> QED
    BY <2>1, <2>2, <2>3
<1>3. Blocking(s) = {} => Reasons(s) = {} /\ Finalized(s) = "approved"
  BY <1>2 DEF Reasons, Finalized
<1>4. Blocking(s) # {} => IdsOf(Blocking(s)) \in Reasons(s) /\ Finalized(s) = "rejected"
  BY DEF Reasons, Finalized
<1> QED
  BY <1>1, <1>3, <1>4

\* The ids of findings are ids.
LEMMA IdsAreIds ==
  ASSUME NEW fs \in SUBSET Findings PROVE IdsOf(fs) \in SUBSET Ids
  BY DEF IdsOf, Findings

\* A review leaves a sound loop.
LEMMA ReviewSound ==
  ASSUME NEW qa, Sound(qa), NEW fs \in SUBSET Findings, NEW verdict \in BOOLEAN
  PROVE  Sound(ReviewLoop(qa, fs, verdict))
<1> DEFINE s == Summary(fs, verdict)
           again == qa.state \in {"awaiting_fix", "in_fix"}
           started == IF again THEN StartRereview(qa) ELSE StartReview(qa)
           recorded == RecordReview(started, s)
           next == IF again THEN HandleRereview(recorded, s) ELSE CheckAndTransition(recorded, s)
<1>1. /\ s \in SUBSET Findings /\ Blocking(s) \in SUBSET Findings
      /\ IdsOf(Blocking(s)) \in SUBSET Ids
      /\ Blocking(s) # {} => IdsOf(Blocking(s)) # {}
  <2>1. s \in SUBSET Findings
    BY SummaryFacts
  <2>2. Blocking(s) \in SUBSET Findings
    BY <2>1 DEF Blocking
  <2> QED
    BY <2>1, <2>2, IdsAreIds DEF IdsOf
<1>2. /\ started \in Loops /\ started.pending = qa.pending
      /\ again => started.state = "re_review"
      /\ ~again => started.state = "in_review" /\ started.pending = {}
  <2>1. qa \in Loops /\ (qa.pending # {} <=> qa.state \in {"awaiting_fix", "in_fix"})
    BY DEF Sound
  <2>2. CASE again
    BY <2>1, <2>2 DEF Loops, States, StartRereview
  <2>3. CASE ~again
    <3>1. started = StartReview(qa) /\ qa.pending = {}
      BY <2>1, <2>3
    <3>2. /\ StartReview(qa) \in Loops /\ StartReview(qa).pending = qa.pending
          /\ StartReview(qa).state = "in_review"
      <4> DEFINE n == qa.iteration + 1
      <4>1. n \in Nat
        BY <2>1 DEF Loops
      <4>2. StartReview(qa) = [qa EXCEPT !.state = "in_review", !.iteration = n]
        BY DEF StartReview
      <4> HIDE DEF n
      <4> QED
        BY <2>1, <4>1, <4>2 DEF Loops, States
    <3> QED
      BY <2>3, <3>1, <3>2
  <2> QED
    BY <2>2, <2>3
<1>3. /\ recorded \in Loops /\ recorded.pending = started.pending
      /\ recorded.state = started.state
      /\ recorded.review = Finalized(s)
      /\ recorded.readiness = IF Reasons(s) = {} THEN "ready" ELSE "blocked"
  <2> DEFINE ready == IF Reasons(s) = {} THEN "ready" ELSE "blocked"
  <2>1. Finalized(s) \in {"approved", "rejected"} /\ ready \in {"ready", "blocked"}
    BY DEF Finalized
  <2>2. recorded = [started EXCEPT !.review = Finalized(s), !.readiness = ready]
    BY DEF RecordReview
  <2> HIDE DEF ready, started, recorded
  <2>3. /\ recorded \in Loops /\ recorded.pending = started.pending
        /\ recorded.state = started.state /\ recorded.review = Finalized(s)
        /\ recorded.readiness = ready
    BY <1>2, <2>1, <2>2 DEF Loops
  <2> QED
    BY <2>3 DEF ready
<1>4. CASE Blocking(s) = {}
  <2>1. Reasons(s) = {} /\ Finalized(s) = "approved"
    BY <1>4, SummaryFacts
  <2>2. next = [recorded EXCEPT !.state = "approved", !.pending = {}]
    <3>1. CASE again
      <4> DEFINE cleared == [recorded EXCEPT !.pending = @ \ ResolvedIds(recorded, s)]
      <4>1. HandleRereview(recorded, s) = [cleared EXCEPT !.state = "approved", !.pending = {}]
        BY <2>1 DEF HandleRereview
      <4>2. [cleared EXCEPT !.state = "approved", !.pending = {}]
              = [recorded EXCEPT !.state = "approved", !.pending = {}]
        BY <1>3 DEF Loops
      <4> QED
        BY <3>1, <4>1, <4>2
    <3>2. CASE ~again
      BY <3>2, <1>2, <1>3, <2>1 DEF CheckAndTransition, Loops
    <3> QED
      BY <3>1, <3>2
  <2>3. ReviewLoop(qa, fs, verdict) = next
    BY <2>2, <1>3 DEF ReviewLoop, Loops
  <2> HIDE DEF next, recorded, s
  <2>4. recorded.review = "approved" /\ recorded.readiness = "ready"
    BY <1>3, <2>1
  <2>5. /\ next \in Loops /\ next.state = "approved" /\ next.pending = {}
        /\ next.review = "approved" /\ next.readiness = "ready"
    BY <1>3, <2>2, <2>4 DEF Loops, States
  <2> QED
    BY <2>3, <2>5 DEF Sound
<1>5. CASE Blocking(s) # {}
  <2>1. /\ IdsOf(Blocking(s)) \in Reasons(s) /\ Reasons(s) # {}
        /\ Finalized(s) = "rejected"
    BY <1>5, SummaryFacts
  <2>2. \/ next.state = "awaiting_fix"
        \/ next = [recorded EXCEPT !.state = "escalated"] /\ recorded.pending = {}
    <3>1. CASE again
      <4>1. StillBlocking(recorded, s) = {} =>
              IdsOf(Blocking(s)) \in {r \in Reasons(s) : r \intersect StillBlocking(recorded, s) = {}}
        BY <2>1
      <4>2. HandleRereview(recorded, s)
              = [[recorded EXCEPT !.pending = @ \ ResolvedIds(recorded, s)]
                  EXCEPT !.state = "awaiting_fix"]
        BY <2>1, <4>1 DEF HandleRereview
      <4>3. HandleRereview(recorded, s).state = "awaiting_fix"
        BY <4>2, <1>3 DEF Loops
      <4> QED
        BY <3>1, <4>3
    <3>2. CASE ~again
      <4>1. \/ next = [recorded EXCEPT !.state = "escalated"]
            \/ next = [recorded EXCEPT !.state = "awaiting_fix",
                                       !.pending = @ \union UNION Reasons(s)]
        BY <3>2, <2>1 DEF CheckAndTransition
      <4> QED
        BY <3>2, <4>1, <1>2, <1>3 DEF Loops
    <3> QED
      BY <3>1, <3>2
  <2>3. next \in [state : States, iteration : Nat, pending : SUBSET UNION {Ids, UNION Reasons(s)},
                  review : {"rejected"}, validation : {"none", "low", "ok"},
                  docs : {"none", "missing", "ok"}, readiness : {"blocked"}]
    <3>1. CASE again
      <4> DEFINE kept == recorded.pending \ ResolvedIds(recorded, s)
      <4>1. \E q \in {"awaiting_fix", "escalated", "approved"} :
              HandleRereview(recorded, s) = [recorded EXCEPT !.pending = kept, !.state = q]
        <5>1. \E q \in {"awaiting_fix", "escalated", "approved"} :
                HandleRereview(recorded, s)
                  = [[recorded EXCEPT !.pending = @ \ ResolvedIds(recorded, s)] EXCEPT !.state = q]
          BY <2>1 DEF HandleRereview
        <5> QED
          BY <5>1, <1>3 DEF Loops
      <4>2. kept \in SUBSET Ids
        BY <1>3 DEF Loops
      <4>3. recorded.review = "rejected" /\ recorded.readiness = "blocked"
        BY <1>3, <2>1
      <4> HIDE DEF kept, recorded, s
      <4>4. PICK q \in {"awaiting_fix", "escalated", "approved"} :
              HandleRereview(recorded, s) = [recorded EXCEPT !.pending = kept, !.state = q]
        BY <4>1
      <4>5. recorded \in Loops
        BY <1>3
      <4> DEFINE l == [recorded EXCEPT !.pending = kept, !.state = q]
      <4>6. /\ l \in Loops /\ l.pending = kept
            /\ l.review = recorded.review /\ l.readiness = recorded.readiness
        BY <4>2, <4>5 DEF Loops, States
      <4> HIDE DEF l
      <4>7. l \in [state : States, iteration : Nat, pending : SUBSET UNION {Ids, UNION Reasons(s)},
                   review : {"rejected"}, validation : {"none", "low", "ok"},
                   docs : {"none", "missing", "ok"}, readiness : {"blocked"}]
        BY <4>2, <4>3, <4>6 DEF Loops
      <4> QED
        BY <3>1, <4>4, <4>7 DEF l
    <3>2. CASE ~again
      <4> DEFINE more == recorded.pending \union UNION Reasons(s)
      <4>1. \/ next = [recorded EXCEPT !.state = "escalated"]
            \/ next = [recorded EXCEPT !.state = "awaiting_fix", !.pending = more]
        BY <3>2, <2>1 DEF CheckAndTransition
      <4>2. /\ recorded \in Loops /\ recorded.review = "rejected"
            /\ recorded.readiness = "blocked"
            /\ recorded.pending \subseteq UNION {Ids, UNION Reasons(s)}
            /\ more \subseteq UNION {Ids, UNION Reasons(s)}
        BY <1>3, <2>1 DEF Loops
      <4> HIDE DEF more, next, recorded, s, again
      <4>3. CASE next = [recorded EXCEPT !.state = "escalated"]
        BY <4>2, <4>3 DEF Loops, States
      <4>4. CASE next = [recorded EXCEPT !.state = "awaiting_fix", !.pending = more]
        BY <4>2, <4>4 DEF Loops, States
      <4> QED
        BY <4>1, <4>3, <4>4
    <3> QED
      BY <3>1, <3>2
  <2>4. CASE next.state = "awaiting_fix"
    <3>1. ReviewLoop(qa, fs, verdict) = [next EXCEPT !.pending = IdsOf(Blocking(s))]
      BY <2>4 DEF ReviewLoop
    <3> QED
      BY <3>1, <2>3, <2>4, <1>1, <1>5 DEF Sound, Loops, States
  <2>5. CASE next.state # "awaiting_fix"
    <3>1. next = [recorded EXCEPT !.state = "escalated"] /\ recorded.pending = {}
      BY <2>2, <2>5
    <3>2. ReviewLoop(qa, fs, verdict) = next
      BY <2>5 DEF ReviewLoop
    <3> QED
      BY <3>1, <3>2, <1>3, <2>1 DEF Sound, Loops, States
  <2> QED
    BY <2>4, <2>5
<1> QED
  BY <1>4, <1>5

\* A fix leaves a sound loop.
LEMMA ImplementSound ==
  ASSUME NEW qa, Sound(qa), NEW v \in {"none", "low", "ok"}
  PROVE  Sound(ImplementLoop(qa, v))
<1>1. CASE ~FixMode(qa)
  BY <1>1 DEF ImplementLoop
<1>2. CASE FixMode(qa)
  <2> DEFINE fixed == [qa EXCEPT !.state = "in_fix",
                                 !.validation = IF v = "none" THEN @ ELSE v]
  <2>1. /\ fixed \in Loops /\ fixed.review = qa.review /\ fixed.review # "approved"
        /\ fixed.pending = qa.pending /\ fixed.pending # {} /\ fixed.state = "in_fix"
    BY <1>2 DEF FixMode, Sound, Loops, States
  <2>2. /\ MergeReadiness(fixed) \in {"ready", "blocked"}
        /\ MergeReadiness(fixed) = "ready" => fixed.review # "rejected"
    BY DEF MergeReadiness
  <2>3. ImplementLoop(qa, v)
          = [fixed EXCEPT !.readiness = MergeReadiness(fixed),
                          !.state = IF v = "low" THEN "awaiting_fix" ELSE @]
    BY <1>2 DEF ImplementLoop, RecordFix
  <2> HIDE DEF fixed
  <2>4. PICK r \in {"ready", "blocked"}, q \in {"awaiting_fix", "in_fix"} :
          /\ ImplementLoop(qa, v) = [fixed EXCEPT !.readiness = r, !.state = q]
          /\ r = "ready" => fixed.review # "rejected"
    BY <2>1, <2>2, <2>3
  <2> DEFINE l == [fixed EXCEPT !.readiness = r, !.state = q]
  <2>5. /\ l \in Loops /\ l.state = q /\ l.readiness = r
        /\ l.review = fixed.review /\ l.pending = fixed.pending
    BY <2>1 DEF Loops, States
  <2>6. fixed.review \in {"none", "rejected"}
    BY <2>1 DEF Loops
  <2> HIDE DEF l
  <2>7. Sound(l)
    BY <2>1, <2>4, <2>5, <2>6 DEF Sound
  <2> QED
    BY <2>4, <2>7 DEF l
<1> QED
  BY <1>1, <1>2

\* A documentation result leaves a sound loop.
LEMMA DocsSound ==
  ASSUME NEW qa, Sound(qa), NEW d \in {"missing", "ok"}
  PROVE  Sound(DocsLoop(qa, d))
<1> DEFINE told == [qa EXCEPT !.docs = d]
<1>1. /\ told \in Loops /\ told.review = qa.review /\ told.state = qa.state
      /\ told.pending = qa.pending
  BY DEF Sound, Loops
<1>2. /\ MergeReadiness(told) \in {"ready", "blocked"}
      /\ MergeReadiness(told) = "ready" => told.review # "rejected"
  BY DEF MergeReadiness
<1>3. DocsLoop(qa, d) = [told EXCEPT !.readiness = MergeReadiness(told)]
  BY DEF DocsLoop
<1> HIDE DEF told
<1> QED
  BY <1>1, <1>2, <1>3 DEF Sound, Loops

---------------------------------------------------------------------------
\* The loops in the task's metadata and in the results of its last run are sound.
KeptLoops ==
  /\ reviews \in Nat
  /\ stored \in [phase : Phases, status : Statuses, loop : Loops \union {None}]
  /\ results \in [Phases -> {None} \union [success : BOOLEAN, loop : Loops \union {None}]]
  /\ stored.loop # None => Sound(stored.loop)
  /\ \A p \in Phases : results[p] # None /\ results[p].loop # None => Sound(results[p].loop)

\* A handler that returns no loop or a sound one leaves the kept loops sound.
LEMMA ResultKeeps ==
  ASSUME KeptLoops, NEW success \in BOOLEAN, NEW loop, loop = None \/ Sound(loop),
         Result(success, loop), UNCHANGED stored, reviews' \in Nat
  PROVE  KeptLoops'
<1>1. loop \in Loops \union {None}
  BY DEF Sound
<1>2. results' = [results EXCEPT ![Phase] = [success |-> success, loop |-> loop]]
  BY DEF Result
<1>3. [success |-> success, loop |-> loop].loop = loop
  OBVIOUS
<1>4. results' \in [Phases -> {None} \union [success : BOOLEAN, loop : Loops \union {None}]]
  BY <1>1, <1>2 DEF KeptLoops
<1>5. ASSUME NEW p \in Phases, results'[p] # None, results'[p].loop # None
      PROVE  Sound(results'[p].loop)
  <2>1. CASE p = Phase
    BY <1>2, <1>3, <1>5, <2>1 DEF KeptLoops
  <2>2. CASE p # Phase
    BY <1>2, <1>5, <2>2 DEF KeptLoops
  <2> QED
    BY <2>1, <2>2
<1> QED
  BY <1>4, <1>5 DEF KeptLoops

\* No step of the engine, the dispatcher or a caller makes a kept loop unsound.
LEMMA KeptInductive ==
  ASSUME ReportsAreFindings PROVE KeptLoops /\ [Next]_vars => KeptLoops'
<1> SUFFICES ASSUME KeptLoops, [Next]_vars PROVE KeptLoops'
  OBVIOUS
<1>0. stored.loop # None => Sound(stored.loop)
  BY DEF KeptLoops
<1>1. ASSUME NEW agent \in BOOLEAN, Run(agent) PROVE KeptLoops'
  BY <1>1 DEF Run, Begin, NoResults, KeptLoops, Statuses
<1>2. ASSUME NEW agent \in BOOLEAN, NEW list \in PhaseLists, RunPhases(list, agent)
      PROVE KeptLoops'
  BY <1>2 DEF RunPhases, Begin, NoResults, KeptLoops
<1>3. ASSUME NEW list \in PhaseLists, RunNoPhases(list) PROVE KeptLoops'
  BY <1>3 DEF RunNoPhases, NoResults, KeptLoops
<1>4. CASE DryRun
  <2>1. PICK loop : (loop = None \/ Sound(loop)) /\ Result(TRUE, loop)
    BY <1>0, <1>4, NewLoopSound DEF DryRun
  <2> QED
    BY <1>4, <2>1, ResultKeeps DEF DryRun, Calls, KeptLoops
<1>5. CASE Plain
  BY <1>5, ResultKeeps DEF Plain, Calls, KeptLoops
<1>6. ASSUME NEW report \in Reports, NEW verdict \in BOOLEAN, Review(report, verdict)
      PROVE KeptLoops'
  <2> DEFINE old == IF stored.loop = None THEN NewLoop ELSE stored.loop
             new == ReviewLoop(old, WithIds(report), verdict)
  <2>1. Sound(old)
    BY <1>0, NewLoopSound
  <2>2. WithIds(report) \in SUBSET Findings
    BY ReportsAreFindings DEF WithIds, Findings, ReportsAreFindings, KeptLoops
  <2>3. Sound(new)
    BY <2>1, <2>2, ReviewSound
  <2>4. Result(new.state = "approved", new) /\ UNCHANGED stored /\ reviews' \in Nat
    BY <1>6 DEF Review, Calls, KeptLoops
  <2> HIDE DEF new
  <2> QED
    BY <2>3, <2>4, ResultKeeps
<1>7. ASSUME NEW v \in {"none", "low", "ok"}, Implement(v) PROVE KeptLoops'
  <2> DEFINE loop == IF stored.loop = None THEN None ELSE ImplementLoop(stored.loop, v)
  <2>1. loop = None \/ Sound(loop)
    BY <1>0, ImplementSound
  <2>2. Result(TRUE, loop) /\ UNCHANGED stored /\ reviews' \in Nat
    BY <1>7 DEF Implement, Calls, KeptLoops
  <2> HIDE DEF loop
  <2> QED
    BY <2>1, <2>2, ResultKeeps
<1>8. ASSUME NEW d \in {"missing", "ok"}, Docs(d) PROVE KeptLoops'
  <2> DEFINE loop == IF stored.loop = None THEN None ELSE DocsLoop(stored.loop, d)
  <2>1. loop = None \/ Sound(loop)
    BY <1>0, DocsSound
  <2>2. Result(TRUE, loop) /\ UNCHANGED stored /\ reviews' \in Nat
    BY <1>8 DEF Docs, Calls, KeptLoops
  <2> HIDE DEF loop
  <2> QED
    BY <2>1, <2>2, ResultKeeps
<1>9. CASE Error \/ Timeout
  BY <1>9 DEF Error, Fails, Timeout, Calls, KeptLoops
<1>10. CASE SafetyStop
  <2>1. CASE Fails
    BY <2>1 DEF Fails, Calls, KeptLoops
  <2>2. CASE Calls /\ Result(TRUE, None) /\ UNCHANGED reviews
    BY <2>2, ResultKeeps DEF Calls, KeptLoops
  <2> QED
    BY <1>10, <2>1, <2>2 DEF SafetyStop
<1>11. CASE Record
  BY <1>11 DEF Record, KeptLoops, Statuses, Terminal
<1>12. ASSUME NEW p \in Phases, Resubmit(p) PROVE KeptLoops'
  BY <1>12 DEF Resubmit, KeptLoops, Statuses
<1>13. CASE UNCHANGED vars
  BY <1>13 DEF vars, KeptLoops
<1> QED
  BY <1>1, <1>2, <1>3, <1>4, <1>5, <1>6, <1>7, <1>8, <1>9, <1>10, <1>11, <1>12, <1>13
     DEF Next, Execute

\* Every loop that a handler may ever be given is sound.
THEOREM KeptLoopsSound ==
  ASSUME ReportsAreFindings PROVE Spec => []KeptLoops
<1>1. Init => KeptLoops
  BY DEF Init, NoResults, KeptLoops, Statuses
<1> QED
  BY <1>1, KeptInductive, PTL DEF Spec

\* However reviews, fixes, validations and runs follow each other, a loop that waits
\* for a fix names what to fix and a loop that is over names nothing.
THEOREM FixesNameWork ==
  ASSUME ReportsAreFindings PROVE Spec => []FixHasWork
<1>1. KeptLoops => FixHasWork
  BY DEF KeptLoops, FixHasWork, AllLoops, Sound
<1> QED
  BY <1>1, KeptLoopsSound, PTL

\* The merge gate, asked again by every handler about signals it keeps, never calls
\* a reviewed loop ready unless its last review approved it.
THEOREM ReadyMeansApproved ==
  ASSUME ReportsAreFindings PROVE Spec => []ReadyIsApproved
<1>1. KeptLoops => ReadyIsApproved
  BY DEF KeptLoops, ReadyIsApproved, AllLoops, Sound
<1> QED
  BY <1>1, KeptLoopsSound, PTL

---------------------------------------------------------------------------
\* The order of the phases.

\* A phase has one position, and NextPhase is the one after it.
LEMMA PhaseOrder ==
  /\ DOMAIN Order = 1..7 /\ Order[1] = "research" /\ Order[5] = "review"
  /\ \A i \in 1..7 : Order[i] \in Phases /\ (IsFinal(Order[i]) <=> i = 7) /\ Position(Order[i]) = i
  /\ \A p \in Phases : Position(p) \in 1..7 /\ Order[Position(p)] = p
  /\ \A i \in 1..6 : NextPhase(Order[i]) = Order[i + 1]
<1>1. DOMAIN Order = 1..7
  BY DEF Order
<1>2. \A i, j \in 1..7 : Order[i] = Order[j] => i = j
  BY DEF Order
<1>3. ASSUME NEW i \in 1..7 PROVE Position(Order[i]) = i
  <2>1. \E j \in 1..7 : Order[j] = Order[i]
    BY <1>3
  <2>2. Position(Order[i]) \in 1..7 /\ Order[Position(Order[i])] = Order[i]
    BY <1>1, <2>1 DEF Position
  <2> QED
    BY <1>2, <1>3, <2>2
<1>4. \A i \in 1..7 : Order[i] \in Phases
  BY <1>1 DEF Phases
<1>5. \A i \in 1..7 : IsFinal(Order[i]) <=> i = 7
  BY DEF Order, IsFinal
<1>6. \A i \in 1..6 : NextPhase(Order[i]) = Order[i + 1]
  BY <1>3 DEF NextPhase
<1>7. Order[1] = "research" /\ Order[5] = "review"
  BY DEF Order
<1>8. \A p \in Phases : Position(p) \in 1..7 /\ Order[Position(p)] = p
  BY <1>1, <1>3 DEF Phases
<1> QED
  BY <1>1, <1>3, <1>4, <1>5, <1>6, <1>7, <1>8

\* The engine and its copy of the task have their types.
EngineTyped ==
  /\ engine \in [doing : {"nothing", "running", "succeeded", "failed", "error"},
                 call : {"run", "run_phases"}, agent : BOOLEAN, left : Seq(Phases)]
  /\ task \in [phase : Phases, status : Statuses, retry : Nat]

\* The position of the phase a run starts at.
First == Position(stored.phase)

\* Runs stay within the phases from the task's own on: one with an agent stands at a
\* phase whose predecessors from there it all passed, has executed none before them,
\* and succeeded only after all of them.
OnTrack ==
  engine.call = "run" /\ engine.agent =>
    /\ Running => \E k \in First..7 : task.phase = Order[k] /\ \A i \in First..(k - 1) : Passed(Order[i])
    /\ engine.doing = "succeeded" => \A i \in First..7 : Passed(Order[i])
    /\ Running \/ engine.doing = "succeeded" => \A i \in 1..(First - 1) : results[Order[i]] = None

\* A handler's result keeps the types.
LEMMA AdvanceTyped ==
  ASSUME EngineTyped, NEW success, NEW loop, Result(success, loop) PROVE EngineTyped'
<1> USE DEF EngineTyped
<1>1. CASE engine.call = "run" /\ ~IsFinal(Phase) /\ task' = [task EXCEPT !.phase = NextPhase(Phase)]
           /\ UNCHANGED engine
  <2>1. PICK k \in 1..7 : Phase = Order[k]
    BY PhaseOrder DEF Phases, Phase
  <2>2. k \in 1..6
    BY <1>1, <2>1, PhaseOrder
  <2>3. NextPhase(Phase) \in Phases
    BY <2>1, <2>2, PhaseOrder
  <2> QED
    BY <1>1, <2>3
<1>2. CASE engine.call = "run_phases" /\ Len(engine.left) > 1
           /\ task' = [task EXCEPT !.phase = engine.left[2]]
           /\ engine' = [engine EXCEPT !.left = Tail(@)]
  <2>1. engine.left \in Seq(Phases) /\ engine.left[2] \in Phases /\ Tail(engine.left) \in Seq(Phases)
    BY <1>2
  <2> QED
    BY <1>2, <2>1
<1>3. CASE \E status \in {"completed", "failed"}, how \in {"succeeded", "failed"} :
              SetStatus(status) /\ Return(how)
  BY <1>3 DEF SetStatus, Return, Statuses, Terminal
<1> QED
  BY <1>1, <1>2, <1>3 DEF Result, Advance

\* No step puts the engine or its copy of the task out of their types.
LEMMA TypedInductive == KeptLoops /\ EngineTyped /\ [Next]_vars => EngineTyped'
<1> SUFFICES ASSUME KeptLoops, EngineTyped, [Next]_vars PROVE EngineTyped'
  OBVIOUS
<1> USE DEF EngineTyped
<1>0. stored.phase \in Phases
  BY DEF KeptLoops
<1>1. ASSUME NEW agent \in BOOLEAN, Run(agent) PROVE EngineTyped'
  BY <1>0, <1>1 DEF Run, Begin, Statuses
<1>2. ASSUME NEW agent \in BOOLEAN, NEW list \in PhaseLists, RunPhases(list, agent)
      PROVE EngineTyped'
  <2>1. list \in Seq(Phases) /\ Head(list) \in Phases
    BY <1>2, ListsAssumption DEF RunPhases
  <2> QED
    BY <1>2, <2>1 DEF RunPhases, Begin, Statuses
<1>3. ASSUME NEW list \in PhaseLists, RunNoPhases(list) PROVE EngineTyped'
  <2>1. <<>> \in Seq(Phases)
    OBVIOUS
  <2> QED
    BY <1>3, <2>1 DEF RunNoPhases, Idle
<1>4. CASE DryRun \/ Plain
  BY <1>4, AdvanceTyped DEF DryRun, Plain
<1>5. ASSUME NEW report \in Reports, NEW verdict \in BOOLEAN, Review(report, verdict)
      PROVE EngineTyped'
  BY <1>5, AdvanceTyped DEF Review
<1>6. ASSUME NEW v \in {"none", "low", "ok"}, Implement(v) PROVE EngineTyped'
  BY <1>6, AdvanceTyped DEF Implement
<1>7. ASSUME NEW d \in {"missing", "ok"}, Docs(d) PROVE EngineTyped'
  BY <1>7, AdvanceTyped DEF Docs
<1>8. CASE Fails \/ Timeout
  BY <1>8 DEF Fails, Timeout, Retry, GiveUp, HandOn, SetStatus, Return, Statuses, Terminal
<1>9. CASE SafetyStop
  BY <1>8, <1>9, AdvanceTyped DEF SafetyStop
<1>10. CASE Record
  BY <1>10 DEF Record, Idle
<1>11. ASSUME NEW p \in Phases, Resubmit(p) PROVE EngineTyped'
  BY <1>11 DEF Resubmit
<1>12. CASE UNCHANGED vars
  BY <1>12 DEF vars
<1> QED
  BY <1>1, <1>2, <1>3, <1>4, <1>5, <1>6, <1>7, <1>8, <1>9, <1>10, <1>11, <1>12
     DEF Next, Execute, Error

\* A result brings the engine one phase further, or ends the run.
LEMMA ResultOnTrack ==
  ASSUME KeptLoops, EngineTyped, OnTrack, Running, NEW success \in BOOLEAN, NEW loop,
         loop \in Loops \union {None},
         Phase = "review" /\ success => loop.state = "approved", Result(success, loop),
         stored' = stored
  PROVE  OnTrack'
<1> SUFFICES ASSUME engine.call = "run", engine.agent, success
             PROVE  OnTrack'
  <2>1. engine'.call = engine.call /\ engine'.agent = engine.agent
    BY DEF Result, Advance, Return, EngineTyped
  <2>2. ~success => ~Running' /\ engine'.doing # "succeeded"
    BY DEF Result, Return, EngineTyped, Running
  <2> QED
    BY <2>1, <2>2 DEF OnTrack
<1>0. First \in 1..7 /\ First' = First
  BY PhaseOrder DEF KeptLoops, First
<1>1. PICK k \in First..7 : task.phase = Order[k] /\ \A i \in First..(k - 1) : Passed(Order[i])
  BY DEF OnTrack
<1>k. k \in 1..7
  BY <1>0
<1>2. results' = [results EXCEPT ![Phase] = [success |-> success, loop |-> loop]]
  BY DEF Result
<1>3. Passed(Order[k])'
  <2>1. [success |-> success, loop |-> loop] \in [success : BOOLEAN, loop : Loops \union {None}]
    OBVIOUS
  <2>2. Order[k] \in Phases /\ Phase = Order[k]
    BY <1>k, <1>1, PhaseOrder DEF Phase
  <2>3. results'[Order[k]] = [success |-> success, loop |-> loop]
    BY <1>2, <2>2 DEF KeptLoops
  <2>4. results'[Order[k]] # None
    BY <2>1, <2>3, NoneAssumption
  <2> QED
    BY <2>2, <2>3, <2>4 DEF Passed
<1>4. ASSUME NEW i \in First..(k - 1) PROVE Passed(Order[i])'
  <2>1. i \in 1..7 /\ Order[i] \in Phases
    BY <1>0, <1>k, PhaseOrder
  <2>2. CASE Order[i] = Order[k]
    BY <1>3, <2>2
  <2>3. CASE Order[i] # Order[k]
    <3>1. results'[Order[i]] = results[Order[i]]
      BY <1>1, <1>2, <2>1, <2>3 DEF KeptLoops, Phase
    <3> QED
      BY <1>1, <3>1 DEF Passed
  <2> QED
    BY <2>2, <2>3
<1>n. \A i \in 1..(First - 1) : results'[Order[i]] = None
  <2>1. \A i \in 1..(First - 1) : i \in 1..7 /\ i # k
    BY <1>0
  <2>2. \A i \in 1..(First - 1) : Order[i] # Phase /\ Order[i] \in Phases
    BY <2>1, <1>k, <1>1, PhaseOrder DEF Phase
  <2> QED
    BY <1>2, <2>2 DEF OnTrack, KeptLoops
<1>5. CASE ~IsFinal(Phase) /\ task' = [task EXCEPT !.phase = NextPhase(Phase)] /\ UNCHANGED engine
  <2>1. k \in 1..6 /\ NextPhase(Phase) = Order[k + 1]
    BY <1>k, <1>1, <1>5, PhaseOrder DEF Phase
  <2>2. task'.phase = Order[k + 1] /\ k + 1 \in First..7
    BY <1>0, <1>5, <2>1 DEF EngineTyped
  <2>3. \A i \in First..((k + 1) - 1) : i = k \/ i \in First..(k - 1)
    BY <1>0, <2>1
  <2>4. \A i \in First..((k + 1) - 1) : Passed(Order[i])'
    BY <1>3, <1>4, <2>3
  <2> QED
    BY <1>0, <1>5, <1>n, <2>2, <2>4 DEF OnTrack, Running
<1>6. CASE IsFinal(Phase) /\ Return("succeeded")
  <2>1. k = 7
    BY <1>k, <1>1, <1>6, PhaseOrder DEF Phase
  <2>2. ASSUME NEW i \in First..7 PROVE Passed(Order[i])'
    <3>1. i = k \/ i \in First..(k - 1)
      BY <1>0, <2>1
    <3> QED
      BY <1>3, <1>4, <3>1
  <2>3. engine'.doing = "succeeded"
    BY <1>6 DEF Return, EngineTyped
  <2> QED
    BY <1>0, <1>n, <2>2, <2>3 DEF OnTrack, Running
<1> QED
  BY <1>5, <1>6 DEF Result, Advance

\* No step of the engine, the dispatcher or a caller takes a run off its track: an
\* error is retried in the same phase, and a run that begins has passed nothing.
LEMMA OnTrackInductive ==
  ASSUME ReportsAreFindings, KeptLoops, EngineTyped, EngineTyped', OnTrack, [Next]_vars
  PROVE  OnTrack'
<1>1. ASSUME NEW agent \in BOOLEAN, Run(agent) PROVE OnTrack'
  <2>1. First \in 1..7 /\ First' = First /\ Order[First] = stored.phase
    BY <1>1, PhaseOrder DEF KeptLoops, First, Run
  <2>2. engine'.doing = "running" /\ task'.phase = Order[First] /\ results' = NoResults
    BY <1>1, <2>1 DEF Run, Begin
  <2>3. \A i \in First..(First - 1) : FALSE
    BY <2>1
  <2>4. \A i \in 1..(First - 1) : Order[i] \in Phases
    BY <2>1, PhaseOrder
  <2> QED
    BY <2>1, <2>2, <2>3, <2>4 DEF OnTrack, Running, NoResults
<1>2. ASSUME NEW agent \in BOOLEAN, NEW list \in PhaseLists, RunPhases(list, agent)
      PROVE OnTrack'
  BY <1>2 DEF RunPhases, Begin, OnTrack
<1>3. ASSUME NEW list \in PhaseLists, RunNoPhases(list) PROVE OnTrack'
  BY <1>3 DEF RunNoPhases, Idle, OnTrack
<1>4. CASE DryRun
  <2>1. ~engine'.agent
    BY <1>4 DEF DryRun, Result, Advance, Return, EngineTyped
  <2> QED
    BY <2>1 DEF OnTrack
<1>5. CASE Plain
  BY <1>5, ResultOnTrack DEF Plain, Calls
<1>6. ASSUME NEW report \in Reports, NEW verdict \in BOOLEAN, Review(report, verdict)
      PROVE OnTrack'
  <2> DEFINE old == IF stored.loop = None THEN NewLoop ELSE stored.loop
             new == ReviewLoop(old, WithIds(report), verdict)
  <2>1. Sound(old)
    BY NewLoopSound DEF KeptLoops
  <2>2. WithIds(report) \in SUBSET Findings
    BY ReportsAreFindings DEF WithIds, Findings, ReportsAreFindings, KeptLoops
  <2>3. new \in Loops
    BY <2>1, <2>2, ReviewSound DEF Sound
  <2>4. Result(new.state = "approved", new) /\ Running /\ stored' = stored
    BY <1>6 DEF Review, Calls
  <2> HIDE DEF new
  <2> QED
    BY <2>3, <2>4, ResultOnTrack
<1>7. ASSUME NEW v \in {"none", "low", "ok"}, Implement(v) PROVE OnTrack'
  <2> DEFINE loop == IF stored.loop = None THEN None ELSE ImplementLoop(stored.loop, v)
  <2>1. loop \in Loops \union {None}
    BY ImplementSound DEF KeptLoops, Sound
  <2>2. Result(TRUE, loop) /\ Running /\ Phase # "review" /\ stored' = stored
    BY <1>7 DEF Implement, Calls
  <2> HIDE DEF loop
  <2> QED
    BY <2>1, <2>2, ResultOnTrack
<1>8. ASSUME NEW d \in {"missing", "ok"}, Docs(d) PROVE OnTrack'
  <2> DEFINE loop == IF stored.loop = None THEN None ELSE DocsLoop(stored.loop, d)
  <2>1. loop \in Loops \union {None}
    BY DocsSound DEF KeptLoops, Sound
  <2>2. Result(TRUE, loop) /\ Running /\ Phase # "review" /\ stored' = stored
    BY <1>8 DEF Docs, Calls
  <2> HIDE DEF loop
  <2> QED
    BY <2>1, <2>2, ResultOnTrack
<1>9. CASE Fails \/ Timeout
  <2>0. stored' = stored
    BY <1>9 DEF Fails, Timeout, Calls
  <2>1. CASE engine' = engine /\ task'.phase = task.phase /\ results' = results
    BY <2>0, <2>1 DEF OnTrack, Running, Passed, First
  <2>2. CASE engine'.doing = "error"
    BY <2>2 DEF OnTrack, Running
  <2> QED
    BY <1>9, <2>1, <2>2
       DEF Fails, Timeout, Retry, GiveUp, HandOn, Return, EngineTyped, Calls
<1>10. CASE SafetyStop
  <2>1. CASE Fails
    BY <1>9, <2>1
  <2>2. CASE Phase = "ideation" /\ Calls /\ Result(TRUE, None)
    BY <2>2, ResultOnTrack DEF Calls
  <2> QED
    BY <1>10, <2>1, <2>2 DEF SafetyStop
<1>11. CASE Record
  BY <1>11 DEF Record, Idle, OnTrack, Running
<1>12. CASE (\E p \in Phases : Resubmit(p)) \/ UNCHANGED vars
  <2>1. UNCHANGED <<engine, task, results>> /\ stored'.phase = stored.phase
    BY <1>12 DEF Resubmit, vars, KeptLoops
  <2> QED
    BY <2>1 DEF OnTrack, Running, Passed, First
<1> QED
  BY <1>1, <1>2, <1>3, <1>4, <1>5, <1>6, <1>7, <1>8, <1>9, <1>10, <1>11, <1>12
     DEF Next, Execute, Error

\* A task that run took to Completed with an agent passed in that very run each phase
\* from the one it was created with, and no other, and its review, if that is among
\* them, approved; for any budget of retries, any findings and any lists given to
\* run_phases in between.
THEOREM DeliveryWasReviewed ==
  ASSUME ReportsAreFindings PROVE Spec => []DeliveredWasReviewed
<1> DEFINE Inv == KeptLoops /\ EngineTyped /\ OnTrack
<1>1. Init => Inv
  <2>1. <<>> \in Seq(Phases) /\ "research" \in Phases
    BY PhaseOrder
  <2> QED
    BY <2>1 DEF Init, NoResults, KeptLoops, Statuses, EngineTyped, OnTrack, Idle, Running
<1>2. Inv /\ [Next]_vars => Inv'
  BY KeptInductive, TypedInductive, OnTrackInductive
<1>3. Inv => DeliveredWasReviewed
  <2> SUFFICES ASSUME KeptLoops, OnTrack, NEW p \in Phases,
                      engine.doing = "succeeded", engine.call = "run", engine.agent
               PROVE  IF First <= Position(p) THEN Passed(p) ELSE results[p] = None
    BY DEF DeliveredWasReviewed, First
  <2>1. First \in 1..7 /\ Position(p) \in 1..7 /\ Order[Position(p)] = p
    BY PhaseOrder DEF KeptLoops, First
  <2>2. CASE First <= Position(p)
    <3>1. Position(p) \in First..7
      BY <2>1, <2>2
    <3> QED
      BY <2>1, <2>2, <3>1 DEF OnTrack
  <2>3. CASE ~(First <= Position(p))
    <3>1. Position(p) \in 1..(First - 1)
      BY <2>1, <2>3
    <3> QED
      BY <2>1, <2>3, <3>1 DEF OnTrack
  <2> QED
    BY <2>2, <2>3
<1> QED
  BY <1>1, <1>2, <1>3, PTL DEF Spec
=============================================================================

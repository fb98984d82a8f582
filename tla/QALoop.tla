--------------------------------- MODULE QALoop ---------------------------------
(***************************************************************************)
(* The quality loop of src/src/pipeline: a record that the handlers of the *)
(* phases Review, Implement and Docs take from the metadata of a task,     *)
(* change, and give back with their result; with it what decides: the      *)
(* review, the review gate and the merge gate.  Titles, locations and      *)
(* durations are left out.  A finding is its id and what the gates ask of  *)
(* it: severe (critical or high), category (one of those the gate blocks   *)
(* on) and resolved.                                                       *)
(***************************************************************************)
EXTENDS Naturals, FiniteSets

CONSTANTS
  MaxCycles,   \* QAConfig.max_retries
  Synthetic,   \* the id "review-<task>" of the finding made of a bare verdict
  Ids          \* ids of findings, fresh in every review; Synthetic among them

ASSUME LoopAssumption == MaxCycles \in Nat /\ Synthetic \in Ids

States == {"pending", "in_review", "awaiting_fix", "in_fix", "re_review", "approved", "escalated"}
Loops == [state : States, iteration : Nat, pending : SUBSET Ids,
          review : {"none", "approved", "rejected"}, validation : {"none", "low", "ok"},
          docs : {"none", "missing", "ok"}, readiness : {"none", "ready", "blocked"}]
Findings == [id : Ids, severe : BOOLEAN, category : BOOLEAN, resolved : BOOLEAN]

NewLoop == [state |-> "pending", iteration |-> 0, pending |-> {}, review |-> "none",
            validation |-> "none", docs |-> "none", readiness |-> "none"]

IdsOf(fs)    == {f.id : f \in fs}
Blocking(fs) == {f \in fs : f.severe /\ ~f.resolved}

---------------------------------------------------------------------------
\* What the reviewer's answer comes to: its findings and, if it has none, a verdict.
ReviewOutcome(fs, verdict) == Blocking(fs) = {} /\ (fs = {} => verdict)

\* An approval resolves every finding; a bare verdict becomes a finding.
Summary(fs, verdict) ==
  IF fs = {}
  THEN {[id |-> Synthetic, severe |-> ~verdict, category |-> FALSE, resolved |-> verdict]}
  ELSE IF ReviewOutcome(fs, verdict) THEN {[f EXCEPT !.resolved = TRUE] : f \in fs} ELSE fs

Finalized(fs) == IF Blocking(fs) # {} THEN "rejected" ELSE "approved"

\* The review gate: each reason is the set of ids it names; no reason is ready.
Reasons(fs) ==
  (IF Finalized(fs) = "rejected" THEN {IdsOf(Blocking(fs))} ELSE {})
    \union {{f.id} : f \in {g \in fs : g.category /\ ~g.resolved}}

\* Mutant of MergeReadiness: a gate that forgets the review.
MergeReadiness_M(qa) == IF qa.validation # "low" /\ qa.docs # "missing" THEN "ready" ELSE "blocked"

\* The merge gate over the signals there are: one that is missing does not block.
MergeReadiness(qa) ==
  IF qa.review # "rejected" /\ qa.validation # "low" /\ qa.docs # "missing"
  THEN "ready" ELSE "blocked"

ShouldEscalate(qa) == qa.iteration >= MaxCycles /\ qa.state # "approved"

StartReview(qa)   == [qa EXCEPT !.state = "in_review", !.iteration = @ + 1]
StartRereview(qa) == [qa EXCEPT !.state = "re_review"]

\* record_review_result takes the readiness from the review gate alone.
RecordReview(qa, fs) ==
  [qa EXCEPT !.review = Finalized(fs),
             !.readiness = IF Reasons(fs) = {} THEN "ready" ELSE "blocked"]

CheckAndTransition(qa, fs) ==
  IF Reasons(fs) = {}
  THEN [qa EXCEPT !.state = "approved",
                  !.pending = IF qa.state = "re_review" THEN {} ELSE @]
  ELSE IF ShouldEscalate(qa) THEN [qa EXCEPT !.state = "escalated"]
  ELSE [qa EXCEPT !.state = "awaiting_fix", !.pending = @ \union UNION Reasons(fs)]

\* Pending findings that the new review names unresolved and severe; those it
\* names otherwise, or no longer, are resolved, save a mild unresolved one.
StillBlocking(qa, fs) == qa.pending \intersect IdsOf(Blocking(fs))
ResolvedIds(qa, fs)   == qa.pending \ IdsOf({f \in fs : ~f.resolved})

HandleRereview(qa, fs) ==
  LET still == StillBlocking(qa, fs)
      newBlockers == {r \in Reasons(fs) : r \intersect still = {}}
      cleared == [qa EXCEPT !.pending = @ \ ResolvedIds(qa, fs)]
  IN IF Reasons(fs) = {} THEN [cleared EXCEPT !.state = "approved", !.pending = {}]
     ELSE IF still = {} /\ newBlockers = {}
          THEN [cleared EXCEPT !.state = IF ShouldEscalate(qa) THEN "escalated" ELSE "approved"]
          ELSE [cleared EXCEPT !.state = "awaiting_fix"]

---------------------------------------------------------------------------
\* Mutant of ReviewLoop: the findings to fix are not taken from the new review.
ReviewLoop_M(qa, fs, verdict) ==
  LET summary == Summary(fs, verdict)
  IN CheckAndTransition(RecordReview(StartReview(qa), summary), summary)

\* The handlers, given the loop of the task's metadata and what they were told.
\* Review, after the agent answered with findings fs or with a bare verdict.
ReviewLoop(qa, fs, verdict) ==
  LET summary == Summary(fs, verdict)
      again == qa.state \in {"awaiting_fix", "in_fix"}
      started == IF again THEN StartRereview(qa) ELSE StartReview(qa)
      recorded == RecordReview(started, summary)
      next == IF again THEN HandleRereview(recorded, summary)
                       ELSE CheckAndTransition(recorded, summary)
  IN IF next.state = "awaiting_fix"
     THEN [next EXCEPT !.pending = IdsOf(Blocking(summary))] ELSE next

FixMode(qa) == qa.state = "awaiting_fix" /\ qa.pending # {}

\* Implement records a fix; validation is "none" when no check applies.
RecordFix(qa, validation) ==
  LET fixed == [qa EXCEPT !.state = "in_fix",
                          !.validation = IF validation = "none" THEN @ ELSE validation]
  IN [fixed EXCEPT !.readiness = MergeReadiness(fixed),
                   !.state = IF validation = "low" THEN "awaiting_fix" ELSE @]
ImplementLoop(qa, validation) == IF FixMode(qa) THEN RecordFix(qa, validation) ELSE qa

\* Docs records how complete the documentation is.
DocsLoop(qa, docs) ==
  LET told == [qa EXCEPT !.docs = docs]
  IN [told EXCEPT !.readiness = MergeReadiness(told)]
=============================================================================

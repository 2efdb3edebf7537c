----------------------------- MODULE CritiqueLoop -----------------------------
(***************************************************************************)
(* crew/critique_loop.py: one run of ComplianceCriticLoop.  The writer     *)
(* agent drafts, the draft is checked against the policy checklist, and a  *)
(* draft that fails is sent back until it passes or the cap is reached.    *)
(* A step ends where the code waits for an agent, because the agent may    *)
(* raise there instead of answering.                                       *)
(***************************************************************************)
EXTENDS ReportParsing, PolicyChecklist, MockLLM

CONSTANTS
  RequestedCaps,   \* the values callers pass as max_iterations
  HostedOutputs    \* what a hosted model may answer as report writer

ASSUME RequestedCapsAssumption == RequestedCaps \subseteq Int
ASSUME HostedOutputsAssumption == HostedOutputs \subseteq Text

VARIABLES
  pc,              \* where run() is: "drafting", "reviewing", "revising",
                   \* "returned" or "raised"
  llm,             \* the model behind the agents: "mock" or "hosted"
  findings,        \* the findings the loop was constructed with
  max_iterations,  \* self._max_iterations
  iteration,       \* 0 until the first draft is there
  draft,           \* the current WriterDraft
  review,          \* the last ComplianceReviewResult
  prompt,          \* the last prompt given to the writer
  trail            \* the audit entries of this run, in order

vars == <<pc, llm, findings, max_iterations, iteration, draft, review, prompt,
          trail>>
configuration == <<llm, findings, max_iterations>>

------------------------------------------------------------------------------
\* Values.

Drafts == [summary : Text, recommended_next_step : Text, raw : Text]

NoDraft == [summary |-> << >>, recommended_next_step |-> << >>, raw |-> << >>]

Notes == {"proceed to human review", "returning to the report writer",
          "hosted commentary"}

Reviews == [iteration : Nat, passed : BOOLEAN, checklist : Checklist,
            feedback : SUBSET ChecklistItems, reviewer_notes : Notes,
            escalated : BOOLEAN]

\* Before the first review; no review has iteration 0.
NoReview == [iteration |-> 0, passed |-> FALSE,
             checklist |-> [item \in ChecklistItems |-> FALSE], feedback |-> {},
             reviewer_notes |-> "hosted commentary", escalated |-> FALSE]

Prompts == [revision : BOOLEAN, feedback : SUBSET ChecklistItems, previous : Text]

NoPrompt == [revision |-> FALSE, feedback |-> {}, previous |-> << >>]

\* The two kinds of audit entry the loop records.
ChecklistEvaluated(i, passed, escalated) ==
  [actor |-> "ComplianceReviewerAgent", action |-> "checklist_evaluated",
   iteration |-> i, passed |-> passed, escalated |-> escalated]

DraftRevised(i) ==
  [actor |-> "CaseReportWriterAgent", action |-> "draft_revised",
   iteration |-> i, passed |-> FALSE, escalated |-> FALSE]

AuditEntries ==
  [actor : {"ComplianceReviewerAgent", "CaseReportWriterAgent"},
   action : {"checklist_evaluated", "draft_revised"},
   iteration : Nat, passed : BOOLEAN, escalated : BOOLEAN]

------------------------------------------------------------------------------
\* The helpers of the class.

\* Mutant: no defence against a cap of zero.
UnclampedCap(requested) == requested

ClampCap(requested) == IF requested < 1 THEN 1 ELSE requested

\* Mutant: the marker and the feedback are left out of the prompt.
PromptWithoutFeedback(feedback, previous) == NoPrompt

WriterPrompt(feedback, previous) ==
  IF feedback = {} THEN NoPrompt
  ELSE [revision |-> TRUE, feedback |-> feedback, previous |-> previous.raw]

WriterOutputs(p) ==
  IF llm = "mock" THEN {ReportWriter(p.revision, findings)} ELSE HostedOutputs

WriterDraft(raw) ==
  LET parsed == ParseWriterOutput(raw, DefaultNextStep(findings))
  IN  [summary |-> parsed.summary,
       recommended_next_step |-> parsed.recommended_next_step, raw |-> raw]

ReviewerNotes(passed) ==
  IF llm = "mock" THEN {ComplianceCommentary(passed)} ELSE {"hosted commentary"}

\* Mutant: one iteration too many.
IsFinalTooLate(i) == i > max_iterations

IsFinal(i) == i >= max_iterations

------------------------------------------------------------------------------
\* The steps of run().

Init ==
  /\ pc = "drafting"
  /\ llm \in {"mock", "hosted"}
  /\ findings \in Findings
  /\ \E requested \in RequestedCaps : max_iterations = ClampCap(requested)
  /\ iteration = 0
  /\ draft = NoDraft
  /\ review = NoReview
  /\ prompt = NoPrompt
  /\ trail = << >>

FirstDraft ==
  /\ pc = "drafting"
  /\ prompt' = WriterPrompt({}, NoDraft)
  /\ \E raw \in WriterOutputs(prompt') : draft' = WriterDraft(raw)
  /\ iteration' = 1
  /\ pc' = "reviewing"
  /\ UNCHANGED <<configuration, review, trail>>

ReviewOf(d, i, notes) ==
  LET checklist == EvaluateChecklist(d, findings)
      passed    == AllPassed(checklist)
  IN  [iteration |-> i, passed |-> passed, checklist |-> checklist,
       feedback |-> FailedItems(checklist), reviewer_notes |-> notes,
       escalated |-> ~passed /\ IsFinal(i)]

Review ==
  /\ pc = "reviewing"
  /\ \E notes \in ReviewerNotes(AllPassed(EvaluateChecklist(draft, findings))) :
       review' = ReviewOf(draft, iteration, notes)
  /\ trail' = Append(trail,
                     ChecklistEvaluated(iteration, review'.passed, review'.escalated))
  /\ pc' = IF review'.passed \/ IsFinal(iteration) THEN "returned" ELSE "revising"
  /\ UNCHANGED <<configuration, iteration, draft, prompt>>

\* Mutant: the cap is tested after the revision, whose draft is returned as is.
ReviseThenTestTheCap ==
  /\ pc = "revising"
  /\ prompt' = WriterPrompt(review.feedback, draft)
  /\ \E raw \in WriterOutputs(prompt') : draft' = WriterDraft(raw)
  /\ trail' = Append(trail, DraftRevised(iteration + 1))
  /\ iteration' = iteration + 1
  /\ pc' = IF iteration + 1 >= max_iterations THEN "returned" ELSE "reviewing"
  /\ UNCHANGED <<configuration, review>>

\* Mutant: the audit entry carries the iteration before its increment.
ReviseLoggedEarly ==
  /\ pc = "revising"
  /\ prompt' = WriterPrompt(review.feedback, draft)
  /\ \E raw \in WriterOutputs(prompt') : draft' = WriterDraft(raw)
  /\ trail' = Append(trail, DraftRevised(iteration))
  /\ iteration' = iteration + 1
  /\ pc' = "reviewing"
  /\ UNCHANGED <<configuration, review>>

\* Mutant: the last permitted revision is never started.
ReviseStopsShort ==
  /\ pc = "revising"
  /\ iteration < max_iterations - 1
  /\ prompt' = WriterPrompt(review.feedback, draft)
  /\ \E raw \in WriterOutputs(prompt') : draft' = WriterDraft(raw)
  /\ trail' = Append(trail, DraftRevised(iteration + 1))
  /\ iteration' = iteration + 1
  /\ pc' = "reviewing"
  /\ UNCHANGED <<configuration, review>>

Revise ==
  /\ pc = "revising"
  /\ prompt' = WriterPrompt(review.feedback, draft)
  /\ \E raw \in WriterOutputs(prompt') : draft' = WriterDraft(raw)
  /\ trail' = Append(trail, DraftRevised(iteration + 1))
  /\ iteration' = iteration + 1
  /\ pc' = "reviewing"
  /\ UNCHANGED <<configuration, review>>

\* A hosted model's error outlives the retries of ResilientLLM and leaves
\* run() through the agent call it is waiting for.
AgentRaises ==
  /\ llm = "hosted"
  /\ pc \in {"drafting", "reviewing", "revising"}
  /\ pc' = "raised"
  /\ UNCHANGED <<configuration, iteration, draft, review, prompt, trail>>

Next == FirstDraft \/ Review \/ Revise \/ AgentRaises

SafetySpec == Init /\ [][Next]_vars

\* Every call to an agent is bounded by its timeout and its retries, so a run
\* that can take a step takes one.
Spec == SafetySpec /\ WF_vars(Next)

------------------------------------------------------------------------------
\* Properties.

TypeOK ==
  /\ pc \in {"drafting", "reviewing", "revising", "returned", "raised"}
  /\ llm \in {"mock", "hosted"}
  /\ findings \in Findings
  /\ max_iterations \in Nat \ {0}
  /\ iteration \in Nat
  /\ draft \in Drafts
  /\ review \in Reviews
  /\ prompt \in Prompts
  /\ trail \in Seq(AuditEntries)

(***************************************************************************)
(* The draft that run() returns is the draft the returned review is about: *)
(* the review was made in the last iteration, of this very draft, never of *)
(* the one before a revision (run_investigation puts both in one report).  *)
(***************************************************************************)
ReturnedDraftWasReviewed ==
  pc = "returned" =>
    /\ review.iteration = iteration
    /\ review.checklist = EvaluateChecklist(draft, findings)
    /\ review.feedback = FailedItems(EvaluateChecklist(draft, findings))
    /\ review.passed <=> review.feedback = {}

(***************************************************************************)
(* A run ends with exactly one of two verdicts, within the cap: passed, or *)
(* escalated, and the latter only when every permitted review has failed.  *)
(* A negative or zero cap still gets one review (critique_loop.py:81-83).  *)
(***************************************************************************)
VerdictWithinCap ==
  /\ iteration <= max_iterations
  /\ pc = "returned" => review.passed # review.escalated
  /\ review.escalated => iteration = max_iterations

(***************************************************************************)
(* The audit entries of a run tell its whole history: one entry per review *)
(* held and one per revision made, alternating, each with the number of    *)
(* the iteration it belongs to; every review but the last one failed       *)
(* without being escalated.  The first draft has no entry.                 *)
(***************************************************************************)
TrailMatchesRun ==
  /\ iteration > 0 => Len(trail) = review.iteration + iteration - 1
  /\ \A k \in 1 .. review.iteration :
       trail[2 * k - 1] =
         IF k = review.iteration
         THEN ChecklistEvaluated(k, review.passed, review.escalated)
         ELSE ChecklistEvaluated(k, FALSE, FALSE)
  /\ \A k \in 2 .. iteration : trail[2 * k - 2] = DraftRevised(k)

(***************************************************************************)
(* Whenever a draft is replaced, the writer was given the failed items of  *)
(* that very draft, at least one, and the draft itself: the feedback a     *)
(* review computes is neither lost nor stale when the revision starts.     *)
(***************************************************************************)
RevisionAnswersTheReview ==
  [][ iteration > 0 /\ iteration' # iteration =>
        /\ prompt'.revision
        /\ prompt'.feedback = FailedItems(EvaluateChecklist(draft, findings))
        /\ prompt'.feedback # {}
        /\ prompt'.previous = draft.raw ]_vars

(***************************************************************************)
(* Offline the loop goes through its cycle as the README promises: the     *)
(* terse first draft fails, the revision passes, and the run is escalated  *)
(* only when the cap leaves no room for that revision.                     *)
(***************************************************************************)
OfflineRunPassesOnRevision ==
  pc = "returned" /\ llm = "mock" =>
    IF max_iterations = 1 THEN review.escalated
                          ELSE review.passed /\ iteration = 2

(***************************************************************************)
(* A next step the program itself words, the fallback for a missing        *)
(* section or the offline model's, recommends escalation exactly when      *)
(* structuring is suspected or a watchlist hit was found, in every run     *)
(* that ends with a passing review.                                        *)
(***************************************************************************)
GeneratedNextStepFollowsFindings ==
  /\ pc = "returned" /\ review.passed
  /\ llm = "mock" \/ NextStepLabel \notin ToSet(draft.raw)
  => ("escalate" \in ToSet(draft.recommended_next_step)
        <=> findings.structuring_suspected \/ findings.any_hits)

(***************************************************************************)
(* Every run ends: it returns a verdict or leaves with an agent's error    *)
(* (critique_loop.py:139-142, "Hard termination condition").               *)
(***************************************************************************)
Terminates == <>(pc \in {"returned", "raised"})

\* The abstract view of a run: its reviews and its outcome.
Outcome ==
  IF pc = "returned" THEN IF review.passed THEN "passed" ELSE "escalated"
  ELSE IF pc = "raised" THEN "raised" ELSE "pending"

RC == INSTANCE ReviewContract
        WITH cap <- max_iterations, rounds <- review.iteration, outcome <- Outcome

(***************************************************************************)
(* The loop implements the contract its caller relies on, which knows      *)
(* nothing of drafts, prompts or agents: reviews are held one at a time    *)
(* until one passes or the cap escalates, and the caller gets an outcome.  *)
(***************************************************************************)
ImplementsContract == RC!Spec

------------------------------------------------------------------------------
\* What the documentation says and the code does not do.

(***************************************************************************)
(* report_parsing.py:10-12: an answer without a next-step section makes    *)
(* the checklist flag the next step, and the loop request a revision.      *)
(***************************************************************************)
MissingSectionIsFlagged ==
  /\ review.iteration = iteration /\ iteration > 0
  /\ NextStepLabel \notin ToSet(draft.raw)
  => "next_step_actionable" \in review.feedback

(***************************************************************************)
(* policy_checklist.py:61-63: a flagged structuring or velocity pattern is *)
(* named in a summary that passes, so that a human never has to infer a    *)
(* material flag from silence.                                             *)
(***************************************************************************)
EachRaisedFlagIsDisclosed ==
  pc = "returned" /\ review.passed =>
    /\ findings.structuring_suspected => "structuring" \in ToSet(draft.summary)
    /\ findings.velocity_flag => "velocity" \in ToSet(draft.summary)
==============================================================================

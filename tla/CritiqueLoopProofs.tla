-------------------------- MODULE CritiqueLoopProofs --------------------------
(***************************************************************************)
(* What the runs check of CritiqueLoop on small instances, proved for      *)
(* every set of requested caps and of hosted answers.                      *)
(***************************************************************************)
EXTENDS CritiqueLoop, TextsProofs

(***************************************************************************)
(* The inductive invariant.  None of the safety properties is inductive:   *)
(* they speak of the returned state, or of the trail, and say nothing of   *)
(* how the iteration counter and the last review move together on the way  *)
(* there.  Counters says that for each place run() can be at, and          *)
(* ReviewIsOfDraft ties the stored review to the stored draft as long as   *)
(* both belong to the same iteration.                                      *)
(***************************************************************************)
Counters ==
  /\ pc = "drafting"  => /\ iteration = 0
                         /\ review = NoReview
                         /\ trail = << >>
  /\ pc = "reviewing" => /\ iteration \in 1 .. max_iterations
                         /\ review.iteration = iteration - 1
  /\ pc = "revising"  => /\ iteration \in 1 .. (max_iterations - 1)
                         /\ review.iteration = iteration
  /\ pc = "returned"  => /\ iteration \in 1 .. max_iterations
                         /\ review.iteration = iteration
                         /\ review.passed # review.escalated
                         /\ review.escalated => iteration = max_iterations
  /\ pc = "raised"    => /\ iteration \in 0 .. max_iterations
                         /\ review.iteration \in 0 .. iteration
  /\ pc # "returned"  => ~review.passed /\ ~review.escalated

ReviewIsOfDraft ==
  review.iteration = iteration /\ iteration > 0 =>
    review = ReviewOf(draft, iteration, review.reviewer_notes)

Inv == TypeOK /\ Counters /\ ReviewIsOfDraft /\ TrailMatchesRun

\* The draft parsed from any answer the writer can give is a draft.
LEMMA WriterDraftType ==
  ASSUME TypeOK, NEW p \in Prompts, NEW raw \in WriterOutputs(p)
  PROVE  WriterDraft(raw) \in Drafts
<1>1. findings \in Findings /\ p.revision \in BOOLEAN
  BY DEF TypeOK, Prompts
<1>2. raw \in Text
  BY <1>1, GeneratedTexts, HostedOutputsAssumption DEF WriterOutputs
<1>3. DefaultNextStep(findings) \in Text
  BY <1>1, GeneratedTexts
<1> QED BY <1>2, <1>3, ParseType DEF WriterDraft, Drafts

\* A prompt built from any feedback and draft is a prompt.
LEMMA PromptType ==
  ASSUME NEW feedback \in SUBSET ChecklistItems, NEW d \in Drafts
  PROVE  WriterPrompt(feedback, d) \in Prompts
<1>1. << >> \in Text
  BY DEF Text
<1> QED BY <1>1 DEF WriterPrompt, Prompts, NoPrompt, Drafts

\* A review of any draft is a review, and passes when nothing failed.
LEMMA ReviewType ==
  ASSUME TypeOK, NEW d, NEW i \in Nat, NEW notes \in Notes
  PROVE  /\ ReviewOf(d, i, notes) \in Reviews
         /\ ReviewOf(d, i, notes).passed
              <=> ReviewOf(d, i, notes).feedback = {}
<1> DEFINE checklist == EvaluateChecklist(d, findings)
<1>1. checklist \in Checklist
  BY ChecklistType DEF TypeOK
<1> HIDE DEF checklist
<1>2. AllPassed(checklist) \in BOOLEAN /\ FailedItems(checklist) \in SUBSET ChecklistItems
  BY DEF AllPassed, FailedItems
<1>3. AllPassed(checklist) <=> FailedItems(checklist) = {}
  BY DEF AllPassed, FailedItems
<1>4. ReviewOf(d, i, notes)
      = [iteration |-> i, passed |-> AllPassed(checklist), checklist |-> checklist,
         feedback |-> FailedItems(checklist), reviewer_notes |-> notes,
         escalated |-> ~AllPassed(checklist) /\ IsFinal(i)]
  BY DEF ReviewOf, checklist
<1>5. IsFinal(i) \in BOOLEAN
  BY DEF IsFinal
<1> QED BY <1>1, <1>2, <1>3, <1>4, <1>5 DEF Reviews

\* The initial states satisfy the invariant; the cap is clamped to at least 1.
LEMMA InitInv == Init => Inv
<1> SUFFICES ASSUME Init PROVE Inv
  OBVIOUS
<1> USE DEF Init
<1>1. max_iterations \in Nat \ {0}
  BY RequestedCapsAssumption DEF ClampCap
<1>2. << >> \in Text /\ NoDraft \in Drafts /\ NoPrompt \in Prompts
  <2>1. << >> \in Text
    BY DEF Text
  <2> QED BY <2>1 DEF NoDraft, Drafts, NoPrompt, Prompts
<1>3. NoReview \in Reviews
  BY DEF NoReview, Reviews, Checklist, Notes
<1>4. TypeOK
  BY <1>1, <1>2, <1>3 DEF TypeOK
<1>5. review.iteration = 0 /\ ~review.passed /\ ~review.escalated
  BY DEF NoReview
<1>6. pc = "drafting" /\ iteration = 0 /\ review = NoReview /\ trail = << >>
  OBVIOUS
<1> HIDE DEF Init
<1>7. Counters
  BY <1>5, <1>6 DEF Counters
<1>8. ReviewIsOfDraft
  BY <1>6 DEF ReviewIsOfDraft
<1>9. TrailMatchesRun
  BY <1>5, <1>6 DEF TrailMatchesRun
<1> QED BY <1>4, <1>7, <1>8, <1>9 DEF Inv

\* The first draft: only its type and the counters are at stake.
LEMMA FirstDraftInv == Inv /\ FirstDraft => Inv'
<1> SUFFICES ASSUME Inv, FirstDraft PROVE Inv'
  OBVIOUS
<1> USE DEF Inv, FirstDraft, configuration
<1>1. prompt' \in Prompts
  BY DEF WriterPrompt, NoPrompt, TypeOK, Prompts, Text
<1>2. draft' \in Drafts
  BY <1>1, WriterDraftType
<1>3. TypeOK'
  BY <1>1, <1>2 DEF TypeOK
<1>4. /\ pc' = "reviewing" /\ iteration' = 1 /\ review' = NoReview
      /\ trail' = << >> /\ max_iterations' \in Nat \ {0}
  BY <1>3 DEF Counters, TypeOK
<1>5. review'.iteration = 0 /\ ~review'.passed /\ ~review'.escalated
  <2> HIDE DEF FirstDraft, Inv
  <2> QED BY <1>4 DEF NoReview
<1> HIDE DEF FirstDraft, Inv
<1>6. Counters'
  BY <1>4, <1>5 DEF Counters
<1>7. ReviewIsOfDraft'
  BY <1>4, <1>5 DEF ReviewIsOfDraft
<1>8. TrailMatchesRun'
  BY <1>4, <1>5 DEF TrailMatchesRun
<1> QED BY <1>3, <1>6, <1>7, <1>8 DEF Inv

\* A review: the new review is of the current draft, and its entry is the
\* last of the trail.
LEMMA ReviewInv == Inv /\ Review => Inv'
<1> SUFFICES ASSUME Inv, Review PROVE Inv'
  OBVIOUS
<1> USE DEF Inv
<1>1. PICK notes \in Notes : review' = ReviewOf(draft, iteration, notes)
  BY DEF Review, ReviewerNotes, ComplianceCommentary, Notes
<1>2. /\ pc = "reviewing"
      /\ trail' = Append(trail, ChecklistEvaluated(iteration, review'.passed,
                                                   review'.escalated))
      /\ pc' = IF review'.passed \/ IsFinal(iteration) THEN "returned" ELSE "revising"
      /\ UNCHANGED <<llm, findings, max_iterations, iteration, draft, prompt>>
  BY DEF Review, configuration
<1>3. /\ iteration \in 1 .. max_iterations
      /\ review.iteration = iteration - 1
      /\ ~review.passed /\ ~review.escalated
  BY <1>2 DEF Counters
<1>4. /\ iteration \in Nat /\ max_iterations \in Nat \ {0}
      /\ review \in Reviews /\ trail \in Seq(AuditEntries)
  BY DEF TypeOK
<1>5. review' \in Reviews
  BY <1>1, <1>4, ReviewType
<1>6. /\ review'.iteration = iteration
      /\ review'.reviewer_notes = notes
      /\ review'.escalated = (~review'.passed /\ IsFinal(iteration))
  BY <1>1 DEF ReviewOf
<1>7. TypeOK'
  <2>1. ChecklistEvaluated(iteration, review'.passed, review'.escalated)
          \in AuditEntries
    BY <1>4, <1>5 DEF ChecklistEvaluated, AuditEntries, Reviews
  <2>2. trail' \in Seq(AuditEntries)
    BY <1>2, <1>4, <2>1
  <2> QED BY <1>2, <1>5, <2>2 DEF TypeOK
<1>8. Counters'
  <2>1. review'.passed \in BOOLEAN /\ review'.escalated \in BOOLEAN
    BY <1>5 DEF Reviews
  <2>2. IsFinal(iteration) <=> iteration = max_iterations
    BY <1>3, <1>4 DEF IsFinal
  <2>3. CASE review'.passed
    <3>1. pc' = "returned" /\ ~review'.escalated
      BY <1>2, <1>6, <2>3
    <3> QED BY <1>2, <1>3, <1>6, <2>3, <3>1 DEF Counters
  <2>4. CASE ~review'.passed /\ IsFinal(iteration)
    <3>1. pc' = "returned" /\ review'.escalated
      BY <1>2, <1>6, <2>4
    <3> QED BY <1>2, <1>3, <1>6, <2>2, <2>4, <3>1 DEF Counters
  <2>5. CASE ~review'.passed /\ ~IsFinal(iteration)
    <3>1. pc' = "revising" /\ ~review'.escalated
      BY <1>2, <1>6, <2>5
    <3>2. iteration < max_iterations
      BY <1>3, <1>4, <2>2, <2>5
    <3> QED BY <1>2, <1>3, <1>4, <1>6, <2>5, <3>1, <3>2 DEF Counters
  <2> QED BY <2>3, <2>4, <2>5
<1>9. ReviewIsOfDraft'
  <2>1. IsFinal(iteration)' = IsFinal(iteration)
    BY <1>2 DEF IsFinal
  <2>2. ReviewOf(draft, iteration, notes)' = ReviewOf(draft, iteration, notes)
    BY <1>2, <2>1 DEF ReviewOf
  <2> QED BY <1>1, <1>2, <1>6, <2>2 DEF ReviewIsOfDraft
<1>10. TrailMatchesRun'
  <2>1. Len(trail) = 2 * iteration - 2
    BY <1>3, <1>4 DEF TrailMatchesRun
  <2>2. /\ Len(trail') = 2 * iteration - 1
        /\ trail'[2 * iteration - 1]
             = ChecklistEvaluated(iteration, review'.passed, review'.escalated)
        /\ \A j \in 1 .. (2 * iteration - 2) : trail'[j] = trail[j]
    BY <1>2, <1>4, <2>1
  <2>3. ASSUME NEW k \in 1 .. (iteration - 1)
        PROVE  trail'[2 * k - 1] = ChecklistEvaluated(k, FALSE, FALSE)
    <3>1. trail'[2 * k - 1] = trail[2 * k - 1]
      BY <1>4, <2>2
    <3>2. /\ k \in 1 .. review.iteration
          /\ review.passed = FALSE /\ review.escalated = FALSE
      BY <1>3, <1>4 DEF Reviews
    <3> QED BY <3>1, <3>2 DEF TrailMatchesRun
  <2>4. ASSUME NEW k \in 2 .. iteration
        PROVE  trail'[2 * k - 2] = DraftRevised(k)
    <3>1. trail'[2 * k - 2] = trail[2 * k - 2]
      BY <1>4, <2>2
    <3> QED BY <3>1 DEF TrailMatchesRun
  <2>5. Len(trail') = review'.iteration + iteration' - 1
    BY <1>2, <1>4, <1>6, <2>2
  <2>6. ASSUME NEW k \in 1 .. review'.iteration
        PROVE  trail'[2 * k - 1] =
                 IF k = review'.iteration
                 THEN ChecklistEvaluated(k, review'.passed, review'.escalated)
                 ELSE ChecklistEvaluated(k, FALSE, FALSE)
    <3>1. review'.iteration = iteration /\ iteration \in Nat
      BY <1>4, <1>6
    <3>2. CASE k = iteration
      BY <2>2, <3>1, <3>2
    <3>3. CASE k # iteration
      <4>1. k \in 1 .. (iteration - 1)
        BY <3>1, <3>3
      <4> QED BY <2>3, <3>1, <3>3, <4>1
    <3> QED BY <3>2, <3>3
  <2> HIDE DEF Inv
  <2> QED BY <1>2, <2>4, <2>5, <2>6 DEF TrailMatchesRun
<1> QED BY <1>7, <1>8, <1>9, <1>10

\* A revision: the counter moves past the review, and its entry follows the
\* review's.
LEMMA ReviseInv == Inv /\ Revise => Inv'
<1> SUFFICES ASSUME Inv, Revise PROVE Inv'
  OBVIOUS
<1> USE DEF Inv
<1>1. /\ pc = "revising" /\ pc' = "reviewing"
      /\ prompt' = WriterPrompt(review.feedback, draft)
      /\ \E raw \in WriterOutputs(prompt') : draft' = WriterDraft(raw)
      /\ trail' = Append(trail, DraftRevised(iteration + 1))
      /\ iteration' = iteration + 1
      /\ UNCHANGED <<llm, findings, max_iterations, review>>
  BY DEF Revise, configuration
<1>2. /\ iteration \in 1 .. (max_iterations - 1)
      /\ review.iteration = iteration
      /\ ~review.passed /\ ~review.escalated
  BY <1>1 DEF Counters
<1>3. /\ iteration \in Nat /\ max_iterations \in Nat \ {0}
      /\ review \in Reviews /\ draft \in Drafts /\ trail \in Seq(AuditEntries)
  BY DEF TypeOK
<1>4. TypeOK'
  <2>1. prompt' \in Prompts
    BY <1>1, <1>3, PromptType DEF Reviews
  <2>2. draft' \in Drafts
    BY <1>1, <2>1, WriterDraftType
  <2>3. DraftRevised(iteration + 1) \in AuditEntries
    BY <1>3 DEF DraftRevised, AuditEntries
  <2>4. trail' \in Seq(AuditEntries)
    BY <1>1, <1>3, <2>3
  <2> QED BY <1>1, <1>3, <2>1, <2>2, <2>4 DEF TypeOK
<1>5. Counters'
  BY <1>1, <1>2, <1>3 DEF Counters
<1>6. ReviewIsOfDraft'
  BY <1>1, <1>2, <1>3 DEF ReviewIsOfDraft
<1>7. TrailMatchesRun'
  <2>1. Len(trail) = 2 * iteration - 1
    BY <1>2, <1>3 DEF TrailMatchesRun
  <2>2. /\ Len(trail') = 2 * iteration
        /\ trail'[2 * iteration] = DraftRevised(iteration + 1)
        /\ \A j \in 1 .. (2 * iteration - 1) : trail'[j] = trail[j]
    BY <1>1, <1>3, <2>1
  <2>3. ASSUME NEW k \in 1 .. review.iteration
        PROVE  trail'[2 * k - 1] = trail[2 * k - 1]
    BY <1>2, <1>3, <2>2
  <2>4. ASSUME NEW k \in 2 .. (iteration + 1)
        PROVE  trail'[2 * k - 2] = DraftRevised(k)
    <3>1. CASE k = iteration + 1
      BY <1>3, <2>2, <3>1
    <3>2. CASE k # iteration + 1
      <4>1. k \in 2 .. iteration /\ trail'[2 * k - 2] = trail[2 * k - 2]
        BY <1>3, <2>2, <3>2
      <4> QED BY <4>1 DEF TrailMatchesRun
    <3> QED BY <3>1, <3>2
  <2>5. Len(trail') = review'.iteration + iteration' - 1
    BY <1>1, <1>2, <1>3, <2>2
  <2>6. ASSUME NEW k \in 1 .. review.iteration
        PROVE  trail'[2 * k - 1] =
                 IF k = review.iteration
                 THEN ChecklistEvaluated(k, review.passed, review.escalated)
                 ELSE ChecklistEvaluated(k, FALSE, FALSE)
    BY <2>3 DEF TrailMatchesRun
  <2> HIDE DEF Inv
  <2> QED BY <1>1, <2>4, <2>5, <2>6 DEF TrailMatchesRun
<1> QED BY <1>4, <1>5, <1>6, <1>7

\* An agent that raises changes nothing but the place run() is at.
LEMMA AgentRaisesInv == Inv /\ AgentRaises => Inv'
<1> SUFFICES ASSUME Inv, AgentRaises PROVE Inv'
  OBVIOUS
<1>1. /\ pc \in {"drafting", "reviewing", "revising"} /\ pc' = "raised"
      /\ UNCHANGED <<llm, findings, max_iterations, iteration, draft, review,
                    prompt, trail>>
  BY DEF AgentRaises, configuration
<1>2. TypeOK'
  BY <1>1 DEF Inv, TypeOK
<1>3. Counters'
  <2>1. iteration \in Nat /\ max_iterations \in Nat \ {0}
    BY DEF Inv, TypeOK
  <2>2. /\ iteration \in 0 .. max_iterations
        /\ review.iteration \in 0 .. iteration
        /\ ~review.passed /\ ~review.escalated
    <3>1. CASE pc = "drafting"
      <4>1. iteration = 0 /\ review = NoReview
        BY <3>1 DEF Inv, Counters
      <4>2. review.iteration = 0 /\ ~review.passed /\ ~review.escalated
        BY <4>1 DEF NoReview
      <4> QED BY <2>1, <4>1, <4>2
    <3>2. CASE pc = "reviewing"
      BY <2>1, <3>2 DEF Inv, Counters
    <3>3. CASE pc = "revising"
      BY <2>1, <3>3 DEF Inv, Counters
    <3> QED BY <1>1, <3>1, <3>2, <3>3
  <2> QED BY <1>1, <2>2 DEF Counters
<1>4. ReviewIsOfDraft'
  <2>1. ReviewOf(draft, iteration, review.reviewer_notes)'
        = ReviewOf(draft, iteration, review.reviewer_notes)
    BY <1>1 DEF ReviewOf, IsFinal
  <2> QED BY <1>1, <2>1 DEF Inv, ReviewIsOfDraft
<1>5. TrailMatchesRun'
  BY <1>1 DEF Inv, TrailMatchesRun
<1> QED BY <1>2, <1>3, <1>4, <1>5 DEF Inv

\* A step that changes no variable.
LEMMA StutterInv == Inv /\ UNCHANGED vars => Inv'
<1> SUFFICES ASSUME Inv, UNCHANGED vars PROVE Inv'
  OBVIOUS
<1>1. UNCHANGED <<pc, llm, findings, max_iterations, iteration, draft, review,
                  prompt, trail>>
  BY DEF vars
<1>2. TypeOK' /\ Counters'
  BY <1>1 DEF Inv, TypeOK, Counters
<1>3. ReviewIsOfDraft'
  BY <1>1 DEF Inv, ReviewIsOfDraft, ReviewOf, IsFinal
<1>4. TrailMatchesRun'
  BY <1>1 DEF Inv, TrailMatchesRun
<1> QED BY <1>2, <1>3, <1>4 DEF Inv

\* The invariant holds in every state of every run.
THEOREM Invariance == SafetySpec => []Inv
<1>1. Init => Inv
  BY InitInv
<1>2. Inv /\ [Next]_vars => Inv'
  BY FirstDraftInv, ReviewInv, ReviseInv, AgentRaisesInv, StutterInv DEF Next
<1> QED BY <1>1, <1>2, PTL DEF SafetySpec

(***************************************************************************)
(* Every variable keeps its type: in particular the parser, the checklist  *)
(* and the prompt are total on whatever a hosted model answers.            *)
(***************************************************************************)
THEOREM TypeCorrect == Spec => []TypeOK
<1>1. Inv => TypeOK
  BY DEF Inv
<1> QED BY <1>1, Invariance, PTL DEF Spec

\* What a review of the current draft says of it.
LEMMA ReviewedFields ==
  ASSUME Inv, review.iteration = iteration, iteration > 0
  PROVE  /\ review.checklist = EvaluateChecklist(draft, findings)
         /\ review.feedback = FailedItems(EvaluateChecklist(draft, findings))
         /\ review.passed <=> review.feedback = {}
<1>1. review = ReviewOf(draft, iteration, review.reviewer_notes)
  BY DEF Inv, ReviewIsOfDraft
<1>2. TypeOK /\ iteration \in Nat /\ review.reviewer_notes \in Notes
  BY DEF Inv, TypeOK, Reviews
<1>3. review.passed <=> review.feedback = {}
  BY <1>1, <1>2, ReviewType
<1>4. /\ ReviewOf(draft, iteration, review.reviewer_notes).checklist
           = EvaluateChecklist(draft, findings)
      /\ ReviewOf(draft, iteration, review.reviewer_notes).feedback
           = FailedItems(EvaluateChecklist(draft, findings))
  BY DEF ReviewOf
<1> QED BY <1>1, <1>3, <1>4

(***************************************************************************)
(* Whatever the cap, the findings and the model, run() never returns a     *)
(* draft together with the review of another one.                          *)
(***************************************************************************)
THEOREM ReturnsTheReviewedDraft == Spec => []ReturnedDraftWasReviewed
<1>1. Inv => ReturnedDraftWasReviewed
  <2> SUFFICES ASSUME Inv, pc = "returned"
               PROVE  /\ review.iteration = iteration
                      /\ review.checklist = EvaluateChecklist(draft, findings)
                      /\ review.feedback
                           = FailedItems(EvaluateChecklist(draft, findings))
                      /\ review.passed <=> review.feedback = {}
    BY DEF ReturnedDraftWasReviewed
  <2>1. review.iteration = iteration /\ iteration > 0
    BY DEF Inv, Counters, TypeOK
  <2> QED BY <2>1, ReviewedFields
<1> QED BY <1>1, Invariance, PTL DEF Spec

(***************************************************************************)
(* The run ends with exactly one verdict and never holds more reviews than *)
(* the cap, which is at least one whatever the caller asked for.           *)
(***************************************************************************)
THEOREM VerdictsAreWithinTheCap == Spec => []VerdictWithinCap
<1>1. Inv => VerdictWithinCap
  <2> SUFFICES ASSUME Inv PROVE VerdictWithinCap
    OBVIOUS
  <2>1. iteration \in Nat /\ max_iterations \in Nat \ {0}
    BY DEF Inv, TypeOK
  <2>2. iteration <= max_iterations
    <3>1. pc \in {"drafting", "reviewing", "revising", "returned", "raised"}
      BY DEF Inv, TypeOK
    <3> QED BY <2>1, <3>1 DEF Inv, Counters
  <2>3. pc = "returned" => review.passed # review.escalated
    BY DEF Inv, Counters
  <2>4. review.escalated => iteration = max_iterations
    BY DEF Inv, Counters
  <2> QED BY <2>2, <2>3, <2>4 DEF VerdictWithinCap
<1> QED BY <1>1, Invariance, PTL DEF Spec

(***************************************************************************)
(* At every moment the audit entries of a run are its exact history.       *)
(***************************************************************************)
THEOREM TrailIsTheHistory == Spec => []TrailMatchesRun
<1>1. Inv => TrailMatchesRun
  BY DEF Inv
<1> QED BY <1>1, Invariance, PTL DEF Spec

(***************************************************************************)
(* The writer is never asked to revise with another draft's feedback.      *)
(***************************************************************************)
THEOREM FeedbackIsNotStale == Spec => RevisionAnswersTheReview
<1> DEFINE Answered ==
      iteration > 0 /\ iteration' # iteration =>
        /\ prompt'.revision
        /\ prompt'.feedback = FailedItems(EvaluateChecklist(draft, findings))
        /\ prompt'.feedback # {}
        /\ prompt'.previous = draft.raw
<1>1. Inv /\ [Next]_vars => Answered
  <2> SUFFICES ASSUME Inv, [Next]_vars, iteration > 0, iteration' # iteration
               PROVE  /\ prompt'.revision
                      /\ prompt'.feedback
                           = FailedItems(EvaluateChecklist(draft, findings))
                      /\ prompt'.feedback # {}
                      /\ prompt'.previous = draft.raw
    OBVIOUS
  <2>1. Revise
    <3>1. ~FirstDraft
      BY DEF FirstDraft, Inv, Counters
    <3>2. ~Review /\ ~AgentRaises /\ ~UNCHANGED vars
      BY DEF Review, AgentRaises, vars
    <3> QED BY <3>1, <3>2 DEF Next
  <2>2. prompt' = WriterPrompt(review.feedback, draft) /\ pc = "revising"
    BY <2>1 DEF Revise
  <2>3. review.iteration = iteration /\ ~review.passed
    BY <2>2 DEF Inv, Counters
  <2>4. /\ review.feedback = FailedItems(EvaluateChecklist(draft, findings))
        /\ review.feedback # {}
    BY <2>3, ReviewedFields
  <2> QED BY <2>2, <2>4 DEF WriterPrompt
<1>2. Spec => [][Answered]_vars
  BY <1>1, Invariance, PTL DEF Spec, SafetySpec
<1> QED BY <1>2 DEF RevisionAnswersTheReview

------------------------------------------------------------------------------
\* The loop implements the abstract contract, fairness aside.

\* An initial state of the loop is one of the contract.
LEMMA InitRefines == Init => RC!Init
<1> SUFFICES ASSUME Init PROVE RC!Init
  OBVIOUS
<1>1. TypeOK
  BY InitInv DEF Inv
<1>2. review.iteration = 0
  <2>1. review = NoReview
    BY DEF Init
  <2> QED BY <2>1 DEF NoReview
<1>3. Outcome = "pending"
  BY DEF Init, Outcome
<1> QED BY <1>1, <1>2, <1>3 DEF TypeOK, RC!Init

\* A draft or a revision is invisible to the contract, a review is one of its
\* three verdicts, and an agent's error is its Raise.
LEMMA StepRefines == Inv /\ [Next]_vars => [RC!Next]_(RC!vars)
<1> SUFFICES ASSUME Inv, [Next]_vars PROVE [RC!Next]_(RC!vars)
  OBVIOUS
<1>1. CASE FirstDraft
  <2>1. UNCHANGED <<max_iterations, review, Outcome>>
    BY <1>1 DEF FirstDraft, configuration, Outcome
  <2> QED BY <2>1 DEF RC!vars
<1>2. CASE Revise
  <2>1. UNCHANGED <<max_iterations, review, Outcome>>
    BY <1>2 DEF Revise, configuration, Outcome
  <2> QED BY <2>1 DEF RC!vars
<1>3. CASE AgentRaises
  <2>1. Outcome = "pending" /\ Outcome' = "raised"
    BY <1>3 DEF AgentRaises, Outcome
  <2>2. UNCHANGED <<max_iterations, review>>
    BY <1>3 DEF AgentRaises, configuration
  <2> QED BY <2>1, <2>2 DEF RC!Next, RC!Raise
<1>4. CASE Review
  <2>1. /\ pc = "reviewing" /\ max_iterations' = max_iterations
        /\ pc' = IF review'.passed \/ IsFinal(iteration)
                 THEN "returned" ELSE "revising"
        /\ iteration' = iteration
    BY <1>4 DEF Review, configuration
  <2>2. /\ iteration \in 1 .. max_iterations /\ max_iterations \in Nat
        /\ review.iteration = iteration - 1
    BY <2>1 DEF Inv, Counters, TypeOK
  <2>3. review'.iteration = iteration
    BY <1>4 DEF Review, ReviewOf
  <2>4. Outcome = "pending"
    BY <2>1 DEF Outcome
  <2>5. IsFinal(iteration) <=> iteration = max_iterations
    BY <2>2 DEF IsFinal
  <2>6. CASE review'.passed
    <3>1. Outcome' = "passed"
      BY <2>1, <2>6 DEF Outcome
    <3> QED BY <2>1, <2>2, <2>3, <2>4, <3>1 DEF RC!Next, RC!Pass
  <2>7. CASE ~review'.passed /\ IsFinal(iteration)
    <3>1. Outcome' = "escalated"
      BY <2>1, <2>7 DEF Outcome
    <3> QED BY <2>1, <2>2, <2>3, <2>4, <2>5, <2>7, <3>1 DEF RC!Next, RC!Escalate
  <2>8. CASE ~review'.passed /\ ~IsFinal(iteration)
    <3>1. Outcome' = "pending"
      BY <2>1, <2>8 DEF Outcome
    <3> QED BY <2>1, <2>2, <2>3, <2>4, <2>5, <2>8, <3>1
            DEF RC!Next, RC!AskForRevision
  <2> QED BY <2>6, <2>7, <2>8
<1>5. CASE UNCHANGED vars
  <2>1. UNCHANGED <<max_iterations, review, Outcome>>
    BY <1>5 DEF vars, Outcome
  <2> QED BY <2>1 DEF RC!vars
<1> QED BY <1>1, <1>2, <1>3, <1>4, <1>5 DEF Next

(***************************************************************************)
(* Every run of the loop is, seen through its reviews and its outcome, a   *)
(* run of the contract run_investigation relies on: at most cap reviews,   *)
(* acceptance on the first pass, escalation only after the last failure.   *)
(***************************************************************************)
THEOREM LoopRefinesContract == Spec => RC!SafetySpec
<1> QED BY InitRefines, StepRefines, Invariance, PTL DEF Spec, SafetySpec, RC!SafetySpec

------------------------------------------------------------------------------
\* What the loop's outcome says of the texts that went through it.

(***************************************************************************)
(* Inv says nothing of where a draft comes from.  DraftIsWritten does: it  *)
(* is what the parser made of its raw answer, and offline that answer is   *)
(* the terse one in the first iteration and the revision in the second.    *)
(* That there is no third one is part of it, since a run that revises      *)
(* offline is in its first iteration.                                      *)
(***************************************************************************)
DraftIsWritten ==
  /\ iteration > 0 => draft = WriterDraft(draft.raw)
  /\ llm = "mock" =>
       /\ iteration \in 0 .. 2
       /\ iteration = 1 => draft.raw = FirstDraftText
       /\ iteration = 2 => draft.raw = RevisedText(findings)
       /\ pc = "revising" => iteration = 1

\* Offline, and with the draft the invariant ties to the iteration, a review
\* fails the first draft and passes the revision.
LEMMA OfflineReviews ==
  ASSUME TypeOK, DraftIsWritten, llm = "mock"
  PROVE  /\ iteration = 1 => ~AllPassed(EvaluateChecklist(draft, findings))
         /\ iteration = 2 => /\ AllPassed(EvaluateChecklist(draft, findings))
                             /\ draft.recommended_next_step = DefaultNextStep(findings)
<1> DEFINE parsed == ParseWriterOutput(draft.raw, DefaultNextStep(findings))
<1>1. findings \in Findings
  BY DEF TypeOK
<1>2. iteration \in {1, 2} =>
        /\ draft.summary = parsed.summary
        /\ draft.recommended_next_step = parsed.recommended_next_step
  <2>1. iteration \in {1, 2} => draft = WriterDraft(draft.raw)
    BY DEF DraftIsWritten
  <2>2. /\ WriterDraft(draft.raw).summary = parsed.summary
        /\ WriterDraft(draft.raw).recommended_next_step = parsed.recommended_next_step
    BY DEF WriterDraft
  <2> QED BY <2>1, <2>2
<1>3. CASE iteration = 1
  <2>1. draft.raw = FirstDraftText
    BY <1>3 DEF DraftIsWritten
  <2>2. WordCount(draft.summary) = 2
    BY <1>2, <1>3, <2>1, FirstDraftIsTooShort
  <2>3. ~(WordCount(draft.summary) >= MinSummaryWords)
    BY <2>2 DEF MinSummaryWords
  <2> QED BY <1>1, <1>3, <2>3, ShortDraftFails
<1>4. CASE iteration = 2
  <2>1. draft.raw = RevisedText(findings)
    BY <1>4 DEF DraftIsWritten
  <2> QED BY <1>1, <1>2, <1>4, <2>1, RevisionPasses
<1> QED BY <1>3, <1>4

\* A review is of the current draft and says whether it passed.
LEMMA ReviewSaysWhetherPassed ==
  ASSUME Inv, review.iteration = iteration, iteration > 0
  PROVE  review.passed = AllPassed(EvaluateChecklist(draft, findings))
<1>1. review = ReviewOf(draft, iteration, review.reviewer_notes)
  BY DEF Inv, ReviewIsOfDraft
<1>2. ReviewOf(draft, iteration, review.reviewer_notes).passed
      = AllPassed(EvaluateChecklist(draft, findings))
  BY DEF ReviewOf
<1> QED BY <1>1, <1>2

\* What the writer is given decides, offline, what it answers.
LEMMA DraftAfterWriter ==
  ASSUME TypeOK, UNCHANGED configuration, NEW p \in Prompts,
         NEW raw \in WriterOutputs(p), draft' = WriterDraft(raw)
  PROVE  /\ draft' = WriterDraft(draft.raw)'
         /\ llm = "mock" => draft'.raw = ReportWriter(p.revision, findings)
<1>1. findings' = findings /\ draft'.raw = raw
  BY DEF configuration, WriterDraft
<1>2. WriterDraft(draft.raw)' = WriterDraft(raw)
  BY <1>1 DEF WriterDraft
<1> QED BY <1>1, <1>2 DEF WriterOutputs

LEMMA DraftIsWrittenStep ==
  Inv /\ DraftIsWritten /\ [Next]_vars => DraftIsWritten'
<1> SUFFICES ASSUME Inv, DraftIsWritten, [Next]_vars PROVE DraftIsWritten'
  OBVIOUS
<1>0. TypeOK /\ iteration \in Nat
  BY DEF Inv, TypeOK
<1>1. CASE FirstDraft
  <2>1. /\ prompt' = NoPrompt /\ iteration' = 1 /\ pc' = "reviewing"
        /\ UNCHANGED configuration
    BY <1>1 DEF FirstDraft, WriterPrompt
  <2>2. PICK raw \in WriterOutputs(prompt') : draft' = WriterDraft(raw)
    BY <1>1 DEF FirstDraft
  <2>3. NoPrompt \in Prompts /\ NoPrompt.revision = FALSE
    BY DEF NoPrompt, Prompts, Text
  <2>4. /\ draft' = WriterDraft(draft.raw)'
        /\ llm = "mock" => draft'.raw = ReportWriter(FALSE, findings)
    BY <1>0, <2>1, <2>2, <2>3, DraftAfterWriter
  <2> QED BY <2>1, <2>4 DEF DraftIsWritten, ReportWriter, configuration
<1>2. CASE Review
  <2>1. /\ pc = "reviewing" /\ UNCHANGED <<configuration, iteration, draft>>
        /\ pc' = IF review'.passed \/ IsFinal(iteration) THEN "returned" ELSE "revising"
        /\ review'.passed = AllPassed(EvaluateChecklist(draft, findings))
    BY <1>2 DEF Review, ReviewOf
  <2>2. iteration > 0
    BY <2>1 DEF Inv, Counters
  <2>3. WriterDraft(draft.raw)' = WriterDraft(draft.raw)
    BY <2>1 DEF WriterDraft, configuration
  <2>4. llm = "mock" /\ pc' = "revising" => iteration = 1
    <3> SUFFICES ASSUME llm = "mock", pc' = "revising" PROVE iteration = 1
      OBVIOUS
    <3>1. ~AllPassed(EvaluateChecklist(draft, findings))
      BY <2>1
    <3>2. iteration # 2 /\ iteration \in 0 .. 2
      BY <1>0, <3>1, OfflineReviews DEF DraftIsWritten
    <3> QED BY <2>2, <3>2
  <2> QED BY <2>1, <2>3, <2>4 DEF DraftIsWritten, configuration
<1>3. CASE Revise
  <2>1. /\ pc = "revising" /\ prompt' = WriterPrompt(review.feedback, draft)
        /\ iteration' = iteration + 1 /\ pc' = "reviewing" /\ UNCHANGED configuration
    BY <1>3 DEF Revise
  <2>2. PICK raw \in WriterOutputs(prompt') : draft' = WriterDraft(raw)
    BY <1>3 DEF Revise
  <2>3. prompt' \in Prompts /\ prompt'.revision = TRUE
    <3>1. review.iteration = iteration /\ iteration > 0 /\ ~review.passed
      BY <2>1 DEF Inv, Counters
    <3>2. review.feedback # {}
      BY <3>1, ReviewedFields
    <3>3. review.feedback \in SUBSET ChecklistItems /\ draft \in Drafts
      BY <1>0 DEF TypeOK, Reviews
    <3> QED BY <2>1, <3>2, <3>3, PromptType DEF WriterPrompt
  <2>4. /\ draft' = WriterDraft(draft.raw)'
        /\ llm = "mock" => draft'.raw = ReportWriter(TRUE, findings)
    BY <1>0, <2>1, <2>2, <2>3, DraftAfterWriter
  <2>5. llm = "mock" => iteration' = 2
    BY <2>1 DEF DraftIsWritten
  <2> QED BY <2>1, <2>4, <2>5 DEF DraftIsWritten, ReportWriter, configuration
<1>4. CASE AgentRaises
  <2>1. /\ llm = "hosted" /\ pc' = "raised"
        /\ UNCHANGED <<configuration, iteration, draft>>
    BY <1>4 DEF AgentRaises
  <2>2. WriterDraft(draft.raw)' = WriterDraft(draft.raw)
    BY <2>1 DEF WriterDraft, configuration
  <2> QED BY <2>1, <2>2 DEF DraftIsWritten, configuration
<1>5. CASE UNCHANGED vars
  <2>1. UNCHANGED <<pc, llm, findings, iteration, draft>>
    BY <1>5 DEF vars
  <2>2. WriterDraft(draft.raw)' = WriterDraft(draft.raw)
    BY <2>1 DEF WriterDraft
  <2> QED BY <2>1, <2>2 DEF DraftIsWritten
<1> QED BY <1>1, <1>2, <1>3, <1>4, <1>5 DEF Next

LEMMA DraftsAreWritten == SafetySpec => []DraftIsWritten
<1>1. Init => DraftIsWritten
  BY DEF Init, DraftIsWritten
<1> QED BY <1>1, DraftIsWrittenStep, Invariance, PTL DEF SafetySpec

\* What holds of a run that has returned.
LEMMA AtTheReturn ==
  ASSUME Inv, pc = "returned"
  PROVE  /\ iteration \in 1 .. max_iterations /\ max_iterations \in Nat
         /\ review.passed # review.escalated
         /\ review.escalated => iteration = max_iterations
         /\ review.passed = AllPassed(EvaluateChecklist(draft, findings))
<1>1. max_iterations \in Nat
  BY DEF Inv, TypeOK
<1>2. /\ iteration \in 1 .. max_iterations /\ review.iteration = iteration
      /\ review.passed # review.escalated
      /\ review.escalated => iteration = max_iterations
  BY DEF Inv, Counters
<1> QED BY <1>1, <1>2, ReviewSaysWhetherPassed

(***************************************************************************)
(* Offline the terse first draft always fails and its revision always      *)
(* passes, for every combination of findings and every cap: the run passes *)
(* in its second iteration, or is escalated where the cap allows only one. *)
(***************************************************************************)
THEOREM OfflineRunsPass == Spec => []OfflineRunPassesOnRevision
<1>1. Inv /\ DraftIsWritten => OfflineRunPassesOnRevision
  <2> SUFFICES ASSUME Inv, DraftIsWritten, pc = "returned", llm = "mock"
               PROVE  IF max_iterations = 1 THEN review.escalated
                                            ELSE review.passed /\ iteration = 2
    BY DEF OfflineRunPassesOnRevision
  <2>1. /\ iteration \in 1 .. max_iterations /\ max_iterations \in Nat
        /\ review.passed # review.escalated
        /\ review.escalated => iteration = max_iterations
        /\ review.passed = AllPassed(EvaluateChecklist(draft, findings))
    BY AtTheReturn
  <2>2. review.passed \in BOOLEAN /\ review.escalated \in BOOLEAN
    BY DEF Inv, TypeOK, Reviews
  <2>3. iteration = 1 \/ iteration = 2
    BY <2>1 DEF DraftIsWritten
  <2>4. /\ iteration = 1 => ~review.passed
        /\ iteration = 2 => review.passed
    BY <2>1, OfflineReviews DEF Inv
  <2>5. CASE iteration = 1
    <3>1. review.escalated
      BY <2>1, <2>2, <2>4, <2>5
    <3> QED BY <2>1, <2>5, <3>1
  <2>6. CASE iteration = 2
    BY <2>1, <2>4, <2>6
  <2> QED BY <2>3, <2>5, <2>6
<1> QED BY <1>1, Invariance, DraftsAreWritten, PTL DEF Spec

(***************************************************************************)
(* Whatever a hosted model answers, as long as it leaves the next-step     *)
(* section out, and whatever the findings offline: the recommendation of a *)
(* report that passed asks for escalation exactly when there is something  *)
(* to escalate.                                                            *)
(***************************************************************************)
THEOREM GeneratedStepsFollowFindings == Spec => []GeneratedNextStepFollowsFindings
<1>1. Inv /\ DraftIsWritten => GeneratedNextStepFollowsFindings
  <2> SUFFICES ASSUME Inv, DraftIsWritten, pc = "returned", review.passed,
                      llm = "mock" \/ NextStepLabel \notin ToSet(draft.raw)
               PROVE  "escalate" \in ToSet(draft.recommended_next_step)
                        <=> findings.structuring_suspected \/ findings.any_hits
    BY DEF GeneratedNextStepFollowsFindings
  <2>1. /\ iteration \in 1 .. max_iterations /\ max_iterations \in Nat
        /\ review.passed = AllPassed(EvaluateChecklist(draft, findings))
    BY AtTheReturn
  <2>2. findings \in Findings /\ TypeOK
    BY DEF Inv, TypeOK
  <2>3. draft.recommended_next_step = DefaultNextStep(findings)
    <3>1. CASE llm = "mock"
      <4>1. iteration = 1 \/ iteration = 2
        BY <2>1, <3>1 DEF DraftIsWritten
      <4> QED BY <2>1, <2>2, <3>1, <4>1, OfflineReviews
    <3>2. CASE NextStepLabel \notin ToSet(draft.raw)
      <4>1. draft = WriterDraft(draft.raw)
        BY <2>1 DEF DraftIsWritten
      <4>2. WriterDraft(draft.raw).recommended_next_step = DefaultNextStep(findings)
        BY <3>2 DEF WriterDraft, ParseWriterOutput
      <4> QED BY <4>1, <4>2
    <3> QED BY <3>1, <3>2
  <2> QED BY <2>2, <2>3, GeneratedSteps
<1> QED BY <1>1, Invariance, DraftsAreWritten, PTL DEF Spec
==============================================================================

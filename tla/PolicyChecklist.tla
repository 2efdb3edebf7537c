--------------------------- MODULE PolicyChecklist ---------------------------
(***************************************************************************)
(* crew/policy_checklist.py: the deterministic checklist a draft has to    *)
(* pass, and ComplianceCriticLoop._default_next_step, the next step used   *)
(* when the writer's answer has none.                                      *)
(***************************************************************************)
EXTENDS Texts

\* What PatternFindings and WatchlistScreeningResult tell the checklist.
Findings == [structuring_suspected : BOOLEAN, velocity_flag : BOOLEAN,
             any_hits : BOOLEAN]

MinSummaryWords  == 15
MinNextStepChars == 15

\* strip().lower().rstrip(".") is in _PLACEHOLDER_NEXT_STEPS.
Placeholders == {<< >>, <<Tbd>>, <<PaddedTbd>>}

ChecklistItems == {"summary_substantive", "summary_references_account",
                   "pattern_findings_disclosed", "watchlist_findings_disclosed",
                   "next_step_actionable"}

Checklist == [ChecklistItems -> BOOLEAN]

WatchlistDisclosed(summary, findings) ==
  findings.any_hits => Mentions(summary, WatchlistKeywords)

PatternDisclosed(summary, findings) ==
  findings.structuring_suspected \/ findings.velocity_flag
    => Mentions(summary, PatternKeywords)

NextStepActionable(next_step) ==
  /\ CharCount(Strip(next_step)) >= MinNextStepChars
  /\ Strip(next_step) \notin Placeholders

EvaluateChecklist(draft, findings) ==
  [ item \in ChecklistItems |->
      CASE item = "summary_substantive" ->
             WordCount(draft.summary) >= MinSummaryWords
        [] item = "summary_references_account" ->
             Mentions(draft.summary, {Account})
        [] item = "pattern_findings_disclosed" ->
             PatternDisclosed(draft.summary, findings)
        [] item = "watchlist_findings_disclosed" ->
             WatchlistDisclosed(draft.summary, findings)
        [] item = "next_step_actionable" ->
             NextStepActionable(draft.recommended_next_step) ]

AllPassed(checklist)   == \A item \in ChecklistItems : checklist[item]
FailedItems(checklist) == {item \in ChecklistItems : ~checklist[item]}

DefaultNextStep(findings) ==
  IF findings.structuring_suspected \/ findings.any_hits
  THEN <<"escalate", Passage>>
  ELSE <<"close", Passage>>
==============================================================================

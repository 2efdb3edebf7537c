------------------------------- MODULE MockLLM -------------------------------
(***************************************************************************)
(* infrastructure/llm.py, MockLLM: the offline stand-in for a hosted       *)
(* model.  Its answers are functions of the facts in the prompt.  For the  *)
(* two fact-finding roles a prompt is a function from the labels of its    *)
(* lines to their values; the two roles of the critique loop get the       *)
(* findings behind those lines.                                            *)
(***************************************************************************)
EXTENDS Texts

\* _bool_fact: no such line counts as False.
BoolFact(label, prompt) == label \in DOMAIN prompt /\ prompt[label]

\* _pattern_narrative, by the flags it names.
PatternNarrative(prompt) ==
  {f \in {"structuring", "velocity"} :
     BoolFact(IF f = "structuring" THEN "Structuring pattern suspected"
                                   ELSE "Velocity flag", prompt)}

\* _watchlist_narrative.
WatchlistNarrative(prompt) ==
  IF BoolFact("Any hits", prompt) THEN "potential match" ELSE "no matches"

FirstDraftText == <<SummaryLabel, Word, Word, LineBreak, NextStepLabel, Tbd>>

FindingsNote(findings) ==
  IF findings.structuring_suspected THEN <<"structuring", "pattern">>
                                    ELSE <<"no", "structuring", "pattern">>

WatchlistNote(findings) ==
  IF findings.any_hits THEN <<"watchlist">> ELSE <<"no", "watchlist">>

\* Mutant: the recommendation looks at the pattern findings only.
MockNextStepPatternOnly(findings) ==
  IF findings.structuring_suspected THEN <<"escalate", Passage>>
                                    ELSE <<"close", Passage>>

MockNextStep(findings) ==
  IF findings.structuring_suspected \/ findings.any_hits
  THEN <<"escalate", Passage>>
  ELSE <<"close", Passage>>

RevisedText(findings) ==
  <<SummaryLabel, Word, Account>> \o FindingsNote(findings)
    \o WatchlistNote(findings) \o <<"watch register", Passage, LineBreak>>
    \o <<NextStepLabel>> \o MockNextStep(findings)

\* _report_writer: terse until the prompt carries the revision marker.
ReportWriter(revision, findings) ==
  IF revision THEN RevisedText(findings) ELSE FirstDraftText

\* _compliance_commentary: it only knows whether the checklist passes.
ComplianceCommentary(passed) ==
  IF passed THEN "proceed to human review" ELSE "returning to the report writer"
==============================================================================

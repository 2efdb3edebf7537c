---------------------------- MODULE ReportParsing ----------------------------
(***************************************************************************)
(* crew/report_parsing.py: how the raw answer of the report writer is      *)
(* split into a summary and a recommended next step.  The two regular      *)
(* expressions are modelled by the text they match.                        *)
(***************************************************************************)
EXTENDS Texts

\* re.search: where the label first occurs, 0 if nowhere.
Find(raw, label) == SelectInSeq(raw, LAMBDA t : t = label)

\* The line break at i is followed, blank lines aside, by a next-step label.
NextStepLineAt(raw, i) ==
  /\ raw[i] = LineBreak
  /\ \E j \in (i + 1) .. Len(raw) :
       /\ raw[j] = NextStepLabel
       /\ \A k \in i .. (j - 1) : raw[k] = LineBreak

\* Mutant: the pattern has no end of section.
SummaryRunsOn(raw) == Trimmed(raw, Find(raw, SummaryLabel) + 1, Len(raw))

\* The body of the first SUMMARY section.  The blanks after its label are
\* consumed before the end of the section is looked for, so a next-step label
\* that directly follows the summary label does not end it.
Summary(raw) ==
  LET ink   == {i \in (Find(raw, SummaryLabel) + 1) .. Len(raw) : raw[i] # LineBreak}
      start == IF ink = {} THEN Len(raw) + 1 ELSE Min(ink)
      ends  == {i \in start .. Len(raw) : NextStepLineAt(raw, i)}
  IN  Trimmed(raw, start, IF ends = {} THEN Len(raw) ELSE Min(ends) - 1)

\* Mutant: the pattern is compiled without DOTALL.
NextStepFirstLineOnly(raw) ==
  LET first == Find(raw, NextStepLabel) + 1
      ends  == {i \in first .. Len(raw) : raw[i] = LineBreak}
  IN  Trimmed(raw, first, IF ends = {} THEN Len(raw) ELSE Min(ends) - 1)

\* Everything after the first next-step label, later lines and labels included.
NextStep(raw) == Trimmed(raw, Find(raw, NextStepLabel) + 1, Len(raw))

ParseWriterOutput(raw, fallback_next_step) ==
  [ summary               |-> IF SummaryLabel \in ToSet(raw)
                              THEN Summary(raw) ELSE Strip(raw),
    recommended_next_step |-> IF NextStepLabel \in ToSet(raw)
                              THEN NextStep(raw) ELSE fallback_next_step ]
==============================================================================

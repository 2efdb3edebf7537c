---------------------------- MODULE MCCritiqueLoop ----------------------------
(***************************************************************************)
(* An instance of CritiqueLoop for TLC.  The hosted answers are chosen so  *)
(* that each checklist item fails for some of them and each way the parser *)
(* can go is taken: both sections, sections on one line, no labels, no     *)
(* next step, an empty answer.                                             *)
(***************************************************************************)
EXTENDS CritiqueLoop

MCRequestedCaps == {-1, 0, 1, 2, 3, 4}

Full(next_step) ==
  <<SummaryLabel, Account, "structuring", "watchlist", Passage, LineBreak,
    NextStepLabel>> \o next_step

MCHostedOutputs ==
  { Full(<<"close", Word, Word>>),                  \* 15 characters
    Full(<<PaddedTbd>>),                            \* a padded placeholder
    << >>,                                          \* an empty answer
    <<Account, Passage>>,                           \* no label at all
    <<SummaryLabel, Passage, LineBreak, Account, "velocity", "watch register">>,
    <<SummaryLabel, Passage, NextStepLabel, "escalate", Passage>>,
    <<SummaryLabel, LineBreak, NextStepLabel, "escalate", Passage>> }
==============================================================================

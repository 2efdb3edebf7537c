-------------------------------- MODULE Texts --------------------------------
(***************************************************************************)
(* The texts that flow between the writer agent, the parser and the        *)
(* checklist.  A text is a sequence of tokens: the two section labels, a   *)
(* line break, the keywords the checklist looks for, and neutral prose     *)
(* that only has a length.  Letter case is abstracted away because every   *)
(* search in the code is case-insensitive.                                 *)
(***************************************************************************)
EXTENDS Integers, SequencesExt

LineBreak     == "line break"
SummaryLabel  == "SUMMARY:"
NextStepLabel == "RECOMMENDED_NEXT_STEP:"

Account   == "account"      \* the id of the account under investigation
Passage   == "passage"      \* neutral prose of 14 words, one short of the limit
Word      == "word"         \* a neutral word of 4 characters
Tbd       == "tbd"          \* any placeholder shorter than 15 characters
PaddedTbd == "tbd......"    \* a placeholder padded with full stops to 15

PatternKeywords   == {"structuring", "velocity", "pattern"}
WatchlistKeywords == {"watchlist", "watch register"}

Tokens == {LineBreak, SummaryLabel, NextStepLabel, Account, Passage, Word,
           Tbd, PaddedTbd, "no", "escalate", "close"}
          \cup PatternKeywords \cup WatchlistKeywords

Text == Seq(Tokens)

\* What len(text.split()) and len(text) see of one token.
WordsOf ==
  [t \in Tokens |->
     CASE t = LineBreak        -> 0
       [] t = Passage          -> 14
       [] t = "watch register" -> 2
       [] OTHER                -> 1]

CharsOf ==
  [t \in Tokens |->
     CASE t = LineBreak        -> 0
       [] t = Passage          -> 80
       [] t = NextStepLabel    -> 22
       [] t = PaddedTbd        -> 15
       [] t = "watch register" -> 14
       [] t = "structuring"    -> 11
       [] t = Account          -> 10
       [] t = "watchlist"      -> 9
       [] t \in {SummaryLabel, "velocity", "escalate"} -> 8
       [] t = "pattern"        -> 7
       [] t = "close"          -> 5
       [] t = Tbd              -> 3
       [] t = "no"             -> 2
       [] OTHER                -> 4]

Total(s, weight) ==
  LET upTo[i \in 0 .. Len(s)] ==
        IF i = 0 THEN 0 ELSE upTo[i - 1] + weight[s[i]]
  IN  upTo[Len(s)]

WordCount(s) == Total(s, WordsOf)

\* Tokens are joined by one blank.
CharCount(s) == IF s = << >> THEN 0 ELSE Total(s, CharsOf) + Len(s) - 1

\* s[from..to] without the line breaks around it; str.strip() of the whole.
Trimmed(s, from, to) ==
  LET ink == {i \in from .. to : s[i] # LineBreak}
  IN  IF ink = {} THEN << >> ELSE SubSeq(s, Min(ink), Max(ink))

Strip(s) == Trimmed(s, 1, Len(s))

Mentions(s, keywords) == ToSet(s) \cap keywords # {}
==============================================================================

-------------------------- MODULE WatchlistScreening --------------------------
(***************************************************************************)
(* tools/watchlist_tool.py: screening names against the register.  A name  *)
(* is what it scores against each entry: the ratio of SequenceMatcher in   *)
(* ten-thousandths, which is 10000 exactly for an entry that is equal to   *)
(* it, blanks around and letter case aside.                                *)
(***************************************************************************)
EXTENDS Integers, SequencesExt

FUZZY_MATCH_THRESHOLD == 8500
Equal == 10000

\* round(score, 3), in thousandths.
Shown(score) == (score + 5) \div 10

\* matched_entry is the position in the register, 0 for None.
Match(entry, shown, kind) ==
  [matched_entry |-> entry, match_score |-> shown, is_match |-> kind # "none",
   match_type |-> kind]

\* Mutant: the best score is never updated.
BetterThanNothing(score, best) == score > 0

Better(score, best) == score > best

\* The candidate the loop ends with, if it ends: 0 for None.
BestEntry(scores) ==
  LET best[i \in 0 .. Len(scores)] ==
        IF i = 0 THEN 0
        ELSE LET b == best[i - 1]
             IN  IF Better(scores[i], IF b = 0 THEN 0 ELSE scores[b]) THEN i ELSE b
  IN  best[Len(scores)]

\* Mutant: the loop stops at the first entry that is similar enough.
FirstSimilarEntry(scores) ==
  LET hits == {i \in DOMAIN scores : scores[i] >= FUZZY_MATCH_THRESHOLD}
  IN  IF hits = {} THEN Match(0, Shown(0), "none")
      ELSE LET i == Min(hits)
           IN  Match(i, Shown(scores[i]), IF scores[i] = Equal THEN "exact" ELSE "fuzzy")

\* An equal entry ends the loop at once, whatever similar ones precede it.
ScreenName(scores) ==
  LET exact == SelectInSeq(scores, LAMBDA s : s = Equal)
      best  == BestEntry(scores)
      score == IF best = 0 THEN 0 ELSE scores[best]
  IN  IF exact # 0 THEN Match(exact, Shown(Equal), "exact")
      ELSE IF best # 0 /\ score >= FUZZY_MATCH_THRESHOLD
           THEN Match(best, Shown(score), "fuzzy")
           ELSE Match(0, Shown(score), "none")

\* All names of a case, each with its scores.
ComputeWatchlistScreening(names) ==
  LET matches == [n \in DOMAIN names |-> ScreenName(names[n])]
  IN  [matches  |-> matches,
       any_hits |-> \E n \in DOMAIN matches : matches[n].is_match]

\* The labelled line of the prompt that other code looks for.
FormatWatchlistResultText(result) == [label \in {"Any hits"} |-> result.any_hits]
==============================================================================

---------------------------- MODULE MCPureFunctions ----------------------------
(***************************************************************************)
(* The pure functions of the program against what a reader expects of      *)
(* them, over all bounded inputs: answers of the report writer, ledgers,   *)
(* and the scores of two names against a register.  A behaviour lets one   *)
(* input grow, as a model streams an answer, transactions are posted or    *)
(* entries are added to the register.                                      *)
(***************************************************************************)
EXTENDS ReportParsing, PatternFindings, WatchlistScreening, MockLLM

CONSTANTS
  MaxLength,     \* bound on the length of an answer
  MaxPosted,     \* bound on the transactions posted to a ledger
  MaxEntries     \* bound on the entries of the register

VARIABLES
  raw,           \* an answer of the report writer
  posted,        \* the number of transactions posted
  ledger,
  names          \* the scores of each name against the entries so far

vars == <<raw, posted, ledger, names>>

Prose  == {Account, Word, Passage}
Labels == {SummaryLabel, NextStepLabel}

\* Transactions are posted around the two windows that reach back to the
\* second seeded one, with amounts around the two limits.
PostedAt ==
  {Ts(1, 11, 40) + age :
     age \in {0, VELOCITY_LOOKBACK, VELOCITY_LOOKBACK + 1,
              STRUCTURING_LOOKBACK, STRUCTURING_LOOKBACK + 1}}

Postable ==
  {Transaction("cash", amount, timestamp) :
     amount \in {NEAR_THRESHOLD_FLOOR - 1, NEAR_THRESHOLD_FLOOR,
                 REPORTING_THRESHOLD - 1, REPORTING_THRESHOLD},
     timestamp \in PostedAt}
  \cup {Transaction("wire", REPORTING_THRESHOLD - 1, timestamp) :
          timestamp \in PostedAt}

\* Below and at the threshold, below it although it is shown as 0.85, equal.
Scores == {0, 8494, 8499, 8500, 9990, Equal}

Init ==
  /\ raw = << >>
  /\ posted = 0
  /\ ledger \in {<< >>, TRANSACTIONS_0001, TRANSACTIONS_0002}
  /\ names = << << >>, << >> >>

Stream ==
  /\ Len(raw) < MaxLength /\ ledger = << >> /\ names[1] = << >>
  /\ \E t \in Prose \cup Labels \cup {LineBreak} : raw' = Append(raw, t)
  /\ UNCHANGED <<posted, ledger, names>>

Post ==
  /\ posted < MaxPosted /\ raw = << >> /\ names[1] = << >>
  /\ \E t \in Postable : ledger' = Append(ledger, t)
  /\ posted' = posted + 1
  /\ UNCHANGED <<raw, names>>

Register ==
  /\ Len(names[1]) < MaxEntries /\ raw = << >> /\ ledger = << >>
  /\ \E a, b \in Scores : names' = << Append(names[1], a), Append(names[2], b) >>
  /\ UNCHANGED <<raw, posted, ledger>>

Next == Stream \/ Post \/ Register

Spec == Init /\ [][Next]_vars

------------------------------------------------------------------------------
\* The parser of the writer's answer.

Parsed == ParseWriterOutput(raw, <<"close">>)

(***************************************************************************)
(* Nothing the writer says after its first label is dropped: every word    *)
(* after it is in the summary or in the next step.                         *)
(***************************************************************************)
NothingLostAfterALabel ==
  \A i, j \in DOMAIN raw :
    raw[i] \in Labels /\ i < j /\ raw[j] \in Prose =>
      raw[j] \in ToSet(Parsed.summary) \cup ToSet(Parsed.recommended_next_step)

\* The answer has the two labelled sections the prompt asks for, in order,
\* each label once and on a line of its own, and the first is not empty.
InTheRequestedFormat(j) ==
  /\ raw[1] = SummaryLabel /\ raw[j] = NextStepLabel /\ raw[j - 1] = LineBreak
  /\ \A i \in DOMAIN raw : raw[i] \in Labels => i \in {1, j}
  /\ Strip(SubSeq(raw, 2, j - 1)) # << >>

(***************************************************************************)
(* An answer in the requested format is split into exactly its two         *)
(* sections, whatever lines the sections are made of.                      *)
(***************************************************************************)
RequestedFormatIsSplit ==
  \A j \in 3 .. Len(raw) :
    InTheRequestedFormat(j) =>
      /\ Parsed.summary = Strip(SubSeq(raw, 2, j - 1))
      /\ Parsed.recommended_next_step = Strip(SubSeq(raw, j + 1, Len(raw)))

------------------------------------------------------------------------------
\* The analysis of the ledger.

Pattern == ComputePatternFindings(ledger)

\* Nothing in the ledger is younger than the transaction by more than that.
InTheWindow(t, lookback) == \A u \in ToSet(ledger) : u.timestamp - t.timestamp <= lookback

(***************************************************************************)
(* Three transactions or more of 9000 to 9999.99 in cash, none of them     *)
(* over a week older than anything in the ledger, are a suspected          *)
(* structuring; then all such transactions are flagged, and nothing else   *)
(* ever is.  Four transactions of the last five days raise the velocity    *)
(* flag.  The order of the ledger plays no part, and the flagged amount is *)
(* one that so many transactions of the band can have.                     *)
(***************************************************************************)
ClustersAreFlaggedWhole ==
  LET cluster == {i \in DOMAIN ledger : /\ ledger[i].channel = "cash"
                                        /\ ledger[i].amount \in 900000 .. 999999
                                        /\ InTheWindow(ledger[i], 7 * Day)}
      recent  == {i \in DOMAIN ledger : InTheWindow(ledger[i], 5 * Day)}
      n       == Cardinality(Pattern.flagged)
  IN  /\ Pattern.structuring_suspected <=> Cardinality(cluster) >= 3
      /\ Pattern.flagged = IF Pattern.structuring_suspected THEN cluster ELSE {}
      /\ Pattern.velocity_flag <=> Cardinality(recent) >= 4
      /\ Pattern.total_flagged_amount \in 900000 * n .. 999999 * n

(***************************************************************************)
(* A transaction that is posted late, with a time stamp no later than that *)
(* of another, never clears a flag: it can only add to what is flagged.    *)
(* (One with a later time stamp moves both windows, and may.)              *)
(***************************************************************************)
LatePostingsClearNothing ==
  [][ /\ ledger' # ledger
      /\ \E t \in ToSet(ledger) : Last(ledger').timestamp <= t.timestamp
      => /\ Pattern.flagged \subseteq Pattern'.flagged
         /\ Pattern.velocity_flag => Pattern'.velocity_flag ]_vars

------------------------------------------------------------------------------
\* The screening of names.

Screening == ComputeWatchlistScreening(names)

(***************************************************************************)
(* A name is matched with an entry exactly if one reaches the threshold,   *)
(* then with the first of those that score best, and the match is exact if *)
(* and only if an entry is equal, wherever it is in the register.  There   *)
(* are hits exactly if one of the names has a match.                       *)
(***************************************************************************)
BestEntryIsMatched ==
  /\ \A n \in DOMAIN names :
       LET s == names[n]
           m == Screening.matches[n]
       IN  /\ m.is_match <=> \E i \in DOMAIN s : s[i] >= FUZZY_MATCH_THRESHOLD
           /\ m.match_type = "exact" <=> Equal \in ToSet(s)
           /\ IF m.is_match
              THEN /\ \A i \in DOMAIN s : s[i] <= s[m.matched_entry]
                   /\ \A i \in 1 .. m.matched_entry - 1 : s[i] < s[m.matched_entry]
              ELSE m.matched_entry = 0
  /\ Screening.any_hits <=> \E n \in DOMAIN names : Screening.matches[n].is_match

(***************************************************************************)
(* A register that grows never loses a hit, nor lowers the score that is   *)
(* shown for a name.                                                       *)
(***************************************************************************)
HitsSurviveNewEntries ==
  [][ \A n \in DOMAIN names :
        LET before == Screening.matches[n]
            after  == Screening'.matches[n]
        IN  /\ before.is_match => after.is_match
            /\ after.match_score >= before.match_score ]_vars

------------------------------------------------------------------------------
\* The offline model's words about both.

(***************************************************************************)
(* The offline narratives name exactly the flags that were raised and the  *)
(* hits that were found, though all they know of them are labelled lines   *)
(* of a prompt that another file words (crew_definition.py:54-67, "Do not  *)
(* invent new flags; only explain what is reported").                      *)
(***************************************************************************)
NarrativesTellTheFindings ==
  /\ LET told == PatternNarrative(FormatPatternFindingsText(Pattern))
     IN  /\ "structuring" \in told <=> Pattern.flagged # {}
         /\ "velocity" \in told <=> Pattern.velocity_flag
  /\ WatchlistNarrative(FormatWatchlistResultText(Screening)) = "potential match"
       <=> \E n \in DOMAIN names : Screening.matches[n].matched_entry # 0
==============================================================================

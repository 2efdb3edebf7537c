-------------------------- MODULE PureFunctionsProofs --------------------------
(***************************************************************************)
(* What the run of MCPureFunctions checks on bounded inputs, proved for    *)
(* answers, ledgers and registers of any length.                           *)
(***************************************************************************)
EXTENDS MCPureFunctions, TextsProofs, FiniteSetTheorems

------------------------------------------------------------------------------
\* The inputs.

\* The answer is a text, the ledger a list of transactions, and each of the two
\* names has as many scores as the register has entries.
Transactions == [channel : Channels, amount : Nat, timestamp : Int]

InputsOK ==
  /\ raw \in Text
  /\ ledger \in Seq(Transactions)
  /\ \E a, b \in Seq(0 .. Equal) : names = <<a, b>>

LEMMA InitInputs == Init => InputsOK
<1> SUFFICES ASSUME Init PROVE InputsOK
  OBVIOUS
<1>1. raw \in Text
  BY DEF Init, Text
<1>2. << >> \in Seq(0 .. Equal) /\ names = << << >>, << >> >>
  BY DEF Init
<1>3. ledger \in Seq(Transactions)
  <2>1. ASSUME NEW c \in {"cash", "card", "ach"}, NEW a \in Nat, NEW ts \in Int
        PROVE  Transaction(c, a, ts) \in Transactions
    BY DEF Transaction, Transactions, Channels
  <2>2. TRANSACTIONS_0001 \in Seq(Transactions)
    <3>1. Transaction("cash", 980000, Ts(0, 10, 5)) \in Transactions
      BY <2>1, SMT DEF Ts, Day
    <3>2. Transaction("cash", 965000, Ts(1, 11, 40)) \in Transactions
      BY <2>1, SMT DEF Ts, Day
    <3>3. Transaction("cash", 940000, Ts(2, 9, 50)) \in Transactions
      BY <2>1, SMT DEF Ts, Day
    <3>4. Transaction("cash", 992500, Ts(3, 14, 10)) \in Transactions
      BY <2>1, SMT DEF Ts, Day
    <3>5. Transaction("card", 25000, Ts(4, 8, 30)) \in Transactions
      BY <2>1, SMT DEF Ts, Day
    <3> QED BY <3>1, <3>2, <3>3, <3>4, <3>5, SMT DEF TRANSACTIONS_0001
  <2>3. TRANSACTIONS_0002 \in Seq(Transactions)
    <3>1. Transaction("ach", 120000, Ts(0, 9, 0)) \in Transactions
      BY <2>1, SMT DEF Ts, Day
    <3>2. Transaction("ach", 8550, Ts(2, 17, 30)) \in Transactions
      BY <2>1, SMT DEF Ts, Day
    <3>3. Transaction("card", 34000, Ts(4, 12, 0)) \in Transactions
      BY <2>1, SMT DEF Ts, Day
    <3> QED BY <3>1, <3>2, <3>3, SMT DEF TRANSACTIONS_0002
  <2>4. << >> \in Seq(Transactions)
    OBVIOUS
  <2> QED BY <2>2, <2>3, <2>4 DEF Init
<1> QED BY <1>1, <1>2, <1>3 DEF InputsOK

\* What is posted is a transaction.
LEMMA PostableIsTransaction == Postable \subseteq Transactions
<1>1. PostedAt \subseteq Int
  BY SMT DEF PostedAt, Ts, Day, VELOCITY_LOOKBACK, STRUCTURING_LOOKBACK
<1>2. {NEAR_THRESHOLD_FLOOR - 1, NEAR_THRESHOLD_FLOOR, REPORTING_THRESHOLD - 1,
       REPORTING_THRESHOLD} \subseteq Nat
  BY SMT DEF NEAR_THRESHOLD_FLOOR, REPORTING_THRESHOLD
<1>3. "cash" \in Channels /\ "wire" \in Channels
  BY DEF Channels
<1> QED BY <1>1, <1>2, <1>3 DEF Postable, Transaction, Transactions

LEMMA InputsStep == InputsOK /\ [Next]_vars => InputsOK'
<1> SUFFICES ASSUME InputsOK, [Next]_vars PROVE InputsOK'
  OBVIOUS
<1>1. CASE Stream
  <2>1. PICK t \in Prose \cup Labels \cup {LineBreak} : raw' = Append(raw, t)
    BY <1>1 DEF Stream
  <2>2. t \in Tokens
    BY DEF Prose, Labels, Tokens
  <2>3. raw' \in Text
    BY <2>1, <2>2 DEF InputsOK, Text
  <2> QED BY <1>1, <2>3 DEF Stream, InputsOK
<1>2. CASE Post
  <2>1. PICK t \in Transactions : ledger' = Append(ledger, t)
    BY <1>2, PostableIsTransaction DEF Post
  <2>2. ledger' \in Seq(Transactions)
    BY <2>1 DEF InputsOK
  <2> QED BY <1>2, <2>2 DEF Post, InputsOK
<1>3. CASE Register
  <2>1. PICK a \in Scores, b \in Scores : names' = <<Append(names[1], a), Append(names[2], b)>>
    BY <1>3 DEF Register
  <2>2. PICK s \in Seq(0 .. Equal), t \in Seq(0 .. Equal) : names = <<s, t>>
    BY DEF InputsOK
  <2>3. a \in 0 .. Equal /\ b \in 0 .. Equal
    BY SMT DEF Scores, Equal
  <2>4. Append(s, a) \in Seq(0 .. Equal) /\ Append(t, b) \in Seq(0 .. Equal)
    BY <2>3
  <2>5. names' = <<Append(s, a), Append(t, b)>>
    BY <2>1, <2>2
  <2> QED BY <1>3, <2>4, <2>5 DEF Register, InputsOK
<1>4. CASE UNCHANGED vars
  BY <1>4 DEF vars, InputsOK
<1> QED BY <1>1, <1>2, <1>3, <1>4 DEF Next

LEMMA InputsAreOK == Spec => []InputsOK
<1> QED BY InitInputs, InputsStep, PTL DEF Spec

------------------------------------------------------------------------------
\* The parser of the writer's answer.

(***************************************************************************)
(* An answer of any length that is in the requested format comes back as   *)
(* its two sections, blank lines around them aside.                        *)
(***************************************************************************)
THEOREM AnswersAreSplit == Spec => []RequestedFormatIsSplit
<1>1. InputsOK => RequestedFormatIsSplit
  <2> SUFFICES ASSUME InputsOK, NEW j \in 3 .. Len(raw), InTheRequestedFormat(j)
               PROVE  /\ Parsed.summary = Strip(SubSeq(raw, 2, j - 1))
                      /\ Parsed.recommended_next_step = Strip(SubSeq(raw, j + 1, Len(raw)))
    BY DEF RequestedFormatIsSplit
  <2>1. raw \in Text /\ Len(raw) \in Nat /\ DOMAIN raw = 1 .. Len(raw)
    BY DEF InputsOK, Text
  <2>2. /\ raw[1] = SummaryLabel /\ raw[j] = NextStepLabel /\ raw[j - 1] = LineBreak
        /\ \A i \in 1 .. Len(raw) : raw[i] \in {SummaryLabel, NextStepLabel} => i \in {1, j}
        /\ Strip(SubSeq(raw, 2, j - 1)) # << >>
    BY <2>1 DEF InTheRequestedFormat, Labels
  <2>3. PICK b \in Int, c \in Int : b = j - 1 /\ c = j + 1
    BY <2>1
  <2>4. /\ b \in 0 .. Len(raw) /\ 2 \in 1 .. Len(raw) + 1 /\ 2 <= b + 1
        /\ c \in 1 .. Len(raw) + 1 /\ c <= Len(raw) + 1 /\ Len(raw) \in 0 .. Len(raw)
    BY <2>1, <2>3
  <2>5. /\ Strip(SubSeq(raw, 2, b)) = Trimmed(raw, 2, b)
        /\ Strip(SubSeq(raw, 2, b)) = << >> <=> \A k \in 2 .. b : raw[k] = LineBreak
    BY <2>1, <2>4, StripOfSection
  <2>6. Strip(SubSeq(raw, c, Len(raw))) = Trimmed(raw, c, Len(raw))
    BY <2>1, <2>4, StripOfSection
  <2>7. PICK ink \in 2 .. j - 1 : raw[ink] # LineBreak
    BY <2>2, <2>3, <2>5
  <2>8. /\ Parsed.summary = Trimmed(raw, 2, j - 1)
        /\ Parsed.recommended_next_step = Trimmed(raw, j + 1, Len(raw))
    BY <2>1, <2>2, <2>7, AnswerIsSplit DEF Parsed
  <2> QED BY <2>3, <2>5, <2>6, <2>8
<1> QED BY <1>1, InputsAreOK, PTL

\* After a summary label, and before any next-step label, every word is in the
\* summary: no next-step line the pattern stops at can come before it.
LEMMA SummaryKeepsWords ==
  ASSUME NEW s \in Text, NEW i \in 1 .. Len(s), NEW j \in 1 .. Len(s), i < j,
         s[i] = SummaryLabel, s[j] # LineBreak,
         \A q \in 1 .. Len(s) : s[q] = NextStepLabel => j < q
  PROVE  s[j] \in ToSet(Summary(s))
<1>1. Len(s) \in Nat
  BY DEF Text
<1>2. Find(s, SummaryLabel) \in 1 .. Len(s) /\ Find(s, SummaryLabel) <= i
  BY FindsTheFirst DEF Text
<1>3. j \in SummaryInk(s)
  BY <1>1, <1>2 DEF SummaryInk
<1> DEFINE from == SummaryFrom(s)
           to   == SummaryTo(s)
<1>4. from \in Nat \ {0} /\ to \in 0 .. Len(s) /\ from <= j
  BY <1>3, SummaryBounds
<1>5. j <= to
  <2>1. CASE SummaryEnds(s) = {}
    BY <2>1, SummaryBounds
  <2>2. CASE SummaryEnds(s) # {}
    <3>1. to + 1 \in SummaryEnds(s)
      BY <2>2, SummaryBounds
    <3>2. to + 1 \in from .. Len(s) /\ NextStepLineAt(s, to + 1)
      BY <3>1 DEF SummaryEnds
    <3> HIDE DEF from, to
    <3>3. to + 1 \in 1 .. Len(s)
      BY <1>1, <1>4, <3>2
    <3>4. PICK q \in (to + 1 + 1) .. Len(s) :
            s[q] = NextStepLabel /\ \A k \in to + 1 .. (q - 1) : s[k] = LineBreak
      BY <3>2, <3>3, SectionEnd
    <3>5. j < q
      BY <1>1, <1>4, <3>4
    <3>6. ~(j \in to + 1 .. (q - 1))
      BY <3>4
    <3> QED BY <1>1, <1>4, <3>4, <3>5, <3>6
  <2> QED BY <2>1, <2>2
<1>6. Summary(s) = Trimmed(s, from, to)
  BY SummaryIsTrimmed
<1> HIDE DEF from, to
<1>7. j \in from .. to
  BY <1>1, <1>4, <1>5
<1> QED BY <1>4, <1>6, <1>7, TrimmedKeepsInk

(***************************************************************************)
(* Whatever a model answers, and however often it repeats the labels: what *)
(* follows the first label reaches the report.                             *)
(***************************************************************************)
THEOREM NoWordIsLost == Spec => []NothingLostAfterALabel
<1>1. InputsOK => NothingLostAfterALabel
  <2> SUFFICES ASSUME InputsOK, NEW i \in DOMAIN raw, NEW j \in DOMAIN raw,
                      raw[i] \in Labels, i < j, raw[j] \in Prose
               PROVE  raw[j] \in ToSet(Parsed.summary)
                                   \cup ToSet(Parsed.recommended_next_step)
    BY DEF NothingLostAfterALabel
  <2>1. /\ raw \in Text /\ Len(raw) \in Nat
        /\ i \in 1 .. Len(raw) /\ j \in 1 .. Len(raw)
    BY DEF InputsOK, Text
  <2>2. raw[j] \notin {LineBreak, SummaryLabel, NextStepLabel}
    BY DEF Prose, Account, Word, Passage, LineBreak, SummaryLabel, NextStepLabel
  <2> DEFINE n == Find(raw, NextStepLabel)
  <2>3. CASE n # 0 /\ n < j
    <3>1. NextStepLabel \in ToSet(raw) /\ n \in 1 .. Len(raw)
      BY <2>1, <2>3, FindsTheFirst DEF Text
    <3>2. Parsed.recommended_next_step = Trimmed(raw, n + 1, Len(raw))
      BY <3>1 DEF Parsed, ParseWriterOutput, NextStep
    <3> HIDE DEF n
    <3>3. n + 1 \in Nat \ {0} /\ Len(raw) \in 0 .. Len(raw) /\ j \in n + 1 .. Len(raw)
      BY <2>1, <2>3, <3>1
    <3>4. raw[j] \in ToSet(Trimmed(raw, n + 1, Len(raw)))
      BY <2>1, <2>2, <3>3, TrimmedKeepsInk
    <3> QED BY <3>2, <3>4
  <2>4. CASE ~(n # 0 /\ n < j)
    <3>1. ASSUME NEW q \in 1 .. Len(raw), raw[q] = NextStepLabel PROVE j < q
      <4>1. n # 0 /\ n <= q /\ n \in 1 .. Len(raw) /\ raw[n] = NextStepLabel
        BY <2>1, <3>1, FindsTheFirst DEF Text
      <4>2. n # j
        BY <2>2, <4>1
      <4> HIDE DEF n
      <4> QED BY <2>1, <2>4, <4>1, <4>2
    <3>2. raw[i] = SummaryLabel
      <4>1. raw[i] # NextStepLabel
        BY <2>1, <3>1
      <4> QED BY <4>1 DEF Labels
    <3>3. raw[j] \in ToSet(Summary(raw))
      BY <2>1, <2>2, <3>1, <3>2, SummaryKeepsWords
    <3>4. SummaryLabel \in ToSet(raw)
      BY <2>1, <3>2, FindsTheFirst DEF Text
    <3> QED BY <3>3, <3>4 DEF Parsed, ParseWriterOutput
  <2> QED BY <2>3, <2>4
<1> QED BY <1>1, InputsAreOK, PTL

------------------------------------------------------------------------------
\* The screening of names.

\* What the proofs need of the two constants of the scores, which are too large
\* to be expanded.
LEMMA ScoreConstants ==
  /\ Equal \in Nat /\ FUZZY_MATCH_THRESHOLD \in Nat
  /\ 0 < FUZZY_MATCH_THRESHOLD /\ FUZZY_MATCH_THRESHOLD <= Equal
BY SMT DEF Equal, FUZZY_MATCH_THRESHOLD

\* The recursion of BestEntry, as far as n.
Beating(f, s, n) ==
  f = [i \in 0 .. n |->
         IF i = 0 THEN 0
         ELSE IF Better(s[i], IF f[i - 1] = 0 THEN 0 ELSE s[f[i - 1]])
              THEN i ELSE f[i - 1]]

LEMMA BeatingStep ==
  ASSUME NEW f, NEW s, NEW n \in Nat, Beating(f, s, n)
  PROVE  /\ f[0] = 0
         /\ \A i \in 1 .. n :
              f[i] = IF Better(s[i], IF f[i - 1] = 0 THEN 0 ELSE s[f[i - 1]])
                     THEN i ELSE f[i - 1]
<1>1. f[0] = 0
  BY DEF Beating
<1>2. ASSUME NEW i \in 1 .. n
      PROVE  f[i] = IF Better(s[i], IF f[i - 1] = 0 THEN 0 ELSE s[f[i - 1]])
                    THEN i ELSE f[i - 1]
  <2>1. i \in 0 .. n /\ i # 0
    OBVIOUS
  <2>2. f[i] = IF i = 0 THEN 0
               ELSE IF Better(s[i], IF f[i - 1] = 0 THEN 0 ELSE s[f[i - 1]])
                    THEN i ELSE f[i - 1]
    BY <2>1, Zenon DEF Beating
  <2> QED BY <2>1, <2>2, Zenon
<1> QED BY <1>1, <1>2

LEMMA BeatingExists ==
  ASSUME NEW s, NEW n \in Nat
  PROVE  \E f : Beating(f, s, n)
<1> DEFINE S == {k \in Nat : \E f : Beating(f, s, k)}
<1>1. 0 \in S
  <2> DEFINE f == [i \in 0 .. 0 |-> 0]
  <2>1. Beating(f, s, 0)
    BY DEF Beating
  <2> QED BY <2>1
<1>2. ASSUME NEW k \in Nat, k \in S PROVE k + 1 \in S
  <2>1. PICK f : Beating(f, s, k)
    BY <1>2
  <2> DEFINE last == IF Better(s[k + 1], IF f[k] = 0 THEN 0 ELSE s[f[k]]) THEN k + 1 ELSE f[k]
             g    == [i \in 0 .. k + 1 |-> IF i # k + 1 THEN f[i] ELSE last]
  <2>2. ASSUME NEW i \in 0 .. k + 1
        PROVE  g[i] = IF i = 0 THEN 0
                      ELSE IF Better(s[i], IF g[i - 1] = 0 THEN 0 ELSE s[g[i - 1]])
                           THEN i ELSE g[i - 1]
    <3>1. CASE i = k + 1
      <4>1. i # 0 /\ i - 1 = k /\ k # k + 1 /\ k \in 0 .. k + 1
        BY <3>1
      <4>2. g[k] = f[k] /\ g[i] = last
        BY <3>1, <4>1
      <4> HIDE DEF g
      <4> QED BY <3>1, <4>1, <4>2, Zenon
    <3>2. CASE i # k + 1
      <4>1. i \in 0 .. k /\ g[i] = f[i]
        BY <3>2
      <4>2. i # 0 => g[i - 1] = f[i - 1]
        BY <3>2
      <4>3. f[i] = IF i = 0 THEN 0
                   ELSE IF Better(s[i], IF f[i - 1] = 0 THEN 0 ELSE s[f[i - 1]])
                        THEN i ELSE f[i - 1]
        BY <2>1, <4>1, Zenon DEF Beating
      <4> HIDE DEF g
      <4> QED BY <4>1, <4>2, <4>3
    <3> QED BY <3>1, <3>2
  <2>3. Beating(g, s, k + 1)
    BY <2>2 DEF Beating
  <2> HIDE DEF g
  <2> QED BY <2>3
<1>3. n \in S
  <2> HIDE DEF S
  <2> QED BY <1>1, <1>2, NaturalsByInduction
<1> QED BY <1>3

\* The candidate is the first of the entries that score best, unless nothing
\* scores above 0.
LEMMA BestEntryIsFirstBest ==
  ASSUME NEW s \in Seq(Nat)
  PROVE  /\ BestEntry(s) \in 0 .. Len(s)
         /\ BestEntry(s) = 0 => \A i \in 1 .. Len(s) : s[i] = 0
         /\ BestEntry(s) # 0 =>
              /\ \A i \in 1 .. Len(s) : s[i] <= s[BestEntry(s)]
              /\ \A i \in 1 .. BestEntry(s) - 1 : s[i] < s[BestEntry(s)]
<1> DEFINE f == CHOOSE f : Beating(f, s, Len(s))
<1>1. Len(s) \in Nat /\ \A i \in 1 .. Len(s) : s[i] \in Nat
  OBVIOUS
<1>2. Beating(f, s, Len(s))
  BY <1>1, BeatingExists
<1>3. BestEntry(s) = f[Len(s)]
  BY DEF BestEntry, Beating
<1> HIDE DEF f
<1>4. /\ f[0] = 0
      /\ \A i \in 1 .. Len(s) :
           f[i] = IF Better(s[i], IF f[i - 1] = 0 THEN 0 ELSE s[f[i - 1]])
                  THEN i ELSE f[i - 1]
  BY <1>1, <1>2, BeatingStep
<1> DEFINE Good(k, b) == /\ b \in 0 .. k
                         /\ b = 0 => \A i \in 1 .. k : s[i] = 0
                         /\ b # 0 => /\ \A i \in 1 .. k : s[i] <= s[b]
                                     /\ \A i \in 1 .. b - 1 : s[i] < s[b]
           S == {k \in Nat : k <= Len(s) => Good(k, f[k])}
<1>5. 0 \in S
  BY <1>4
<1>6. ASSUME NEW k \in Nat, k \in S PROVE k + 1 \in S
  <2> SUFFICES ASSUME k + 1 <= Len(s) PROVE Good(k + 1, f[k + 1])
    OBVIOUS
  <2>1. k + 1 \in 1 .. Len(s) /\ k + 1 - 1 = k /\ k <= Len(s)
    BY <1>1
  <2>2. Good(k, f[k])
    BY <1>6, <2>1
  <2>3. PICK b \in 0 .. k : b = f[k]
    BY <2>2
  <2>4. f[k + 1] = IF Better(s[k + 1], IF f[k + 1 - 1] = 0 THEN 0 ELSE s[f[k + 1 - 1]])
                   THEN k + 1 ELSE f[k + 1 - 1]
    BY <1>4, <2>1
  <2>5. f[k + 1] = IF s[k + 1] > (IF b = 0 THEN 0 ELSE s[b]) THEN k + 1 ELSE b
    BY <2>1, <2>3, <2>4 DEF Better
  <2>6. s[k + 1] \in Nat /\ b \in Nat /\ (b # 0 => s[b] \in Nat)
        /\ \A i \in 1 .. k : s[i] \in Nat
    BY <1>1, <2>1
  <2>7. /\ b = 0 => \A i \in 1 .. k : s[i] = 0
        /\ b # 0 => /\ \A i \in 1 .. k : s[i] <= s[b]
                    /\ \A i \in 1 .. b - 1 : s[i] < s[b]
    BY <2>2, <2>3
  <2>8. \A i \in 1 .. k + 1 : i \in 1 .. k \/ i = k + 1
    OBVIOUS
  <2>9. CASE s[k + 1] > (IF b = 0 THEN 0 ELSE s[b])
    <3>1. f[k + 1] = k + 1
      BY <2>5, <2>9
    <3>2. \A i \in 1 .. k : s[i] < s[k + 1]
      <4>1. CASE b = 0
        BY <2>6, <2>7, <2>9, <4>1
      <4>2. CASE b # 0
        BY <2>6, <2>7, <2>9, <4>2
      <4> QED BY <4>1, <4>2
    <3>3. Good(k + 1, k + 1)
      BY <2>6, <2>8, <3>2
    <3> QED BY <3>1, <3>3
  <2>10. CASE ~(s[k + 1] > (IF b = 0 THEN 0 ELSE s[b]))
    <3>1. f[k + 1] = b
      BY <2>5, <2>10
    <3>2. b = 0 => s[k + 1] = 0
      BY <2>6, <2>10
    <3>3. b # 0 => s[k + 1] <= s[b]
      BY <2>6, <2>10
    <3>4. Good(k + 1, b)
      BY <2>3, <2>6, <2>7, <2>8, <3>2, <3>3
    <3> QED BY <3>1, <3>4
  <2> QED BY <2>9, <2>10
<1>7. Len(s) \in S
  <2> HIDE DEF S
  <2> QED BY <1>1, <1>5, <1>6, NaturalsByInduction
<1> QED BY <1>1, <1>3, <1>7

\* What screen_name returns depends on the scores only through the best of them:
\* 0 if there is none.
Screened(s, m, top) ==
  /\ \A i \in 1 .. Len(s) : s[i] <= top
  /\ top # 0 => \E i \in 1 .. Len(s) : s[i] = top
  /\ m.match_score = Shown(top)
  /\ m.is_match <=> top >= FUZZY_MATCH_THRESHOLD
  /\ m.match_type = "exact" <=> top = Equal
  /\ IF top >= FUZZY_MATCH_THRESHOLD
     THEN /\ m.matched_entry \in 1 .. Len(s) /\ s[m.matched_entry] = top
          /\ \A i \in 1 .. m.matched_entry - 1 : s[i] < top
     ELSE m.matched_entry = 0

LEMMA MatchFields ==
  ASSUME NEW entry, NEW shown, NEW kind
  PROVE  /\ Match(entry, shown, kind).matched_entry = entry
         /\ Match(entry, shown, kind).match_score = shown
         /\ Match(entry, shown, kind).match_type = kind
         /\ Match(entry, shown, kind).is_match <=> kind # "none"
BY DEF Match

LEMMA ScreenedByBest ==
  ASSUME NEW s \in Seq(0 .. Equal)
  PROVE  \E top \in 0 .. Equal : Screened(s, ScreenName(s), top)
<1>1. /\ Len(s) \in Nat /\ s \in Seq(Nat)
      /\ \A i \in 1 .. Len(s) : s[i] \in Nat /\ s[i] <= Equal
  <2>1. Len(s) \in Nat /\ \A i \in 1 .. Len(s) : s[i] \in 0 .. Equal
    BY LenProperties, ElementOfSeq, Zenon
  <2>2. 0 .. Equal \subseteq Nat
    OBVIOUS
  <2>3. s \in Seq(Nat)
    BY <2>2, SeqMonotonic
  <2> QED BY <2>1, <2>3, ScoreConstants
<1> DEFINE exact == Find(s, Equal)
           best  == BestEntry(s)
           score == IF best = 0 THEN 0 ELSE s[best]
<1>2. ScreenName(s)
      = IF exact # 0 THEN Match(exact, Shown(Equal), "exact")
        ELSE IF best # 0 /\ score >= FUZZY_MATCH_THRESHOLD
             THEN Match(best, Shown(score), "fuzzy")
             ELSE Match(0, Shown(score), "none")
  BY DEF ScreenName, Find
<1>3. /\ exact # 0 => exact \in 1 .. Len(s) /\ s[exact] = Equal
      /\ \A i \in 1 .. Len(s) : s[i] = Equal => exact # 0 /\ exact <= i
  BY FindsTheFirst
<1>4. /\ best \in 0 .. Len(s)
      /\ best = 0 => \A i \in 1 .. Len(s) : s[i] = 0
      /\ best # 0 => /\ \A i \in 1 .. Len(s) : s[i] <= s[best]
                     /\ \A i \in 1 .. best - 1 : s[i] < s[best]
  BY <1>1, BestEntryIsFirstBest
<1> HIDE DEF exact, best
<1>5. CASE exact # 0
  <2>1. exact \in 1 .. Len(s) /\ s[exact] = Equal
    BY <1>3, <1>5
  <2>2. \A i \in 1 .. exact - 1 : s[i] < Equal
    <3> SUFFICES ASSUME NEW i \in 1 .. exact - 1 PROVE s[i] < Equal
      OBVIOUS
    <3>1. i \in 1 .. Len(s) /\ i < exact /\ i \in Int
      BY <1>1, <2>1
    <3>2. s[i] # Equal
      BY <1>3, <2>1, <3>1
    <3> QED BY <1>1, <3>1, <3>2, ScoreConstants
  <2> DEFINE m == ScreenName(s)
  <2>3. /\ m.matched_entry = exact /\ m.match_score = Shown(Equal)
        /\ m.match_type = "exact" /\ m.is_match
    BY <1>2, <1>5, MatchFields
  <2> HIDE DEF m
  <2>4. Screened(s, m, Equal)
    BY <1>1, <2>1, <2>2, <2>3, ScoreConstants DEF Screened
  <2> QED BY <2>4, ScoreConstants DEF m
<1>6. CASE exact = 0
  <2>1. /\ score \in 0 .. Equal /\ score # Equal /\ best \in Nat
        /\ \A i \in 1 .. Len(s) : s[i] <= score
        /\ score # 0 => best \in 1 .. Len(s) /\ s[best] = score
        /\ best = 0 => score = 0
        /\ best # 0 => \A i \in 1 .. best - 1 : s[i] < score
    <3>1. CASE best = 0
      <4>1. score = 0 /\ \A i \in 1 .. Len(s) : s[i] <= 0
        BY <1>1, <1>4, <3>1
      <4>2. 0 \in 0 .. Equal /\ 0 # Equal
        BY ScoreConstants
      <4> HIDE DEF score
      <4> QED BY <3>1, <4>1, <4>2
    <3>2. CASE best # 0
      <4>1. best \in 1 .. Len(s) /\ score = s[best] /\ best \in Nat
        BY <1>1, <1>4, <3>2
      <4>2. s[best] # Equal
        BY <1>3, <1>6, <4>1
      <4>3. score \in 0 .. Equal /\ score # Equal
        BY <1>1, <4>1, <4>2, ScoreConstants
      <4> HIDE DEF score
      <4> QED BY <1>4, <3>2, <4>1, <4>3
    <3> QED BY <3>1, <3>2
  <2> HIDE DEF score
  <2> DEFINE m == ScreenName(s)
  <2>3. CASE best # 0 /\ score >= FUZZY_MATCH_THRESHOLD
    <3>1. score # 0
      BY <2>1, <2>3, ScoreConstants
    <3>2. /\ m.matched_entry = best /\ m.match_score = Shown(score)
          /\ m.match_type = "fuzzy" /\ m.is_match
      BY <1>2, <1>6, <2>3, MatchFields
    <3> HIDE DEF m
    <3>3. Screened(s, m, score)
      BY <1>1, <2>1, <2>3, <3>1, <3>2 DEF Screened
    <3> QED BY <2>1, <3>3 DEF m
  <2>4. CASE ~(best # 0 /\ score >= FUZZY_MATCH_THRESHOLD)
    <3>1. ~(score >= FUZZY_MATCH_THRESHOLD)
      BY <2>1, <2>4, ScoreConstants
    <3>2. /\ m.matched_entry = 0 /\ m.match_score = Shown(score)
          /\ m.match_type = "none" /\ ~m.is_match
      BY <1>2, <1>6, <2>4, MatchFields
    <3> HIDE DEF m
    <3>3. Screened(s, m, score)
      BY <1>1, <2>1, <3>1, <3>2 DEF Screened
    <3> QED BY <2>1, <3>3 DEF m
  <2> QED BY <2>3, <2>4
<1> QED BY <1>5, <1>6

\* The matches of two names.
LEMMA NamesAreScreened ==
  ASSUME NEW a \in Seq(0 .. Equal), NEW b \in Seq(0 .. Equal), NEW two, two = <<a, b>>
  PROVE  /\ DOMAIN two = {1, 2}
         /\ \A n \in {1, 2} :
              /\ two[n] \in Seq(0 .. Equal)
              /\ \E top \in 0 .. Equal :
                   Screened(two[n], ComputeWatchlistScreening(two).matches[n], top)
         /\ ComputeWatchlistScreening(two).any_hits
              <=> \E n \in {1, 2} : ComputeWatchlistScreening(two).matches[n].is_match
<1>1. DOMAIN two = {1, 2} /\ two[1] = a /\ two[2] = b
  OBVIOUS
<1> DEFINE matches == [n \in DOMAIN two |-> ScreenName(two[n])]
<1>2. /\ ComputeWatchlistScreening(two).matches = matches
      /\ ComputeWatchlistScreening(two).any_hits
           = \E n \in DOMAIN matches : matches[n].is_match
  BY DEF ComputeWatchlistScreening
<1>3. DOMAIN matches = {1, 2} /\ \A n \in {1, 2} : matches[n] = ScreenName(two[n])
  BY <1>1
<1> HIDE DEF matches
<1>4. \A n \in {1, 2} : two[n] \in Seq(0 .. Equal)
  BY <1>1
<1>5. ASSUME NEW n \in {1, 2}
      PROVE  \E top \in 0 .. Equal : Screened(two[n], matches[n], top)
  BY <1>3, <1>4, ScreenedByBest
<1> QED BY <1>1, <1>2, <1>3, <1>4, <1>5

(***************************************************************************)
(* However long the register, and wherever in it the entries are: a name   *)
(* is matched with the first of its best entries, or with none when none   *)
(* reaches the threshold.                                                  *)
(***************************************************************************)
THEOREM BestEntriesAreMatched == Spec => []BestEntryIsMatched
<1>1. InputsOK => BestEntryIsMatched
  <2> SUFFICES ASSUME InputsOK PROVE BestEntryIsMatched
    OBVIOUS
  <2>0. PICK a \in Seq(0 .. Equal), b \in Seq(0 .. Equal) : names = <<a, b>>
    BY DEF InputsOK
  <2>1. /\ DOMAIN names = {1, 2}
        /\ \A n \in {1, 2} :
             /\ names[n] \in Seq(0 .. Equal)
             /\ \E top \in 0 .. Equal : Screened(names[n], Screening.matches[n], top)
        /\ Screening.any_hits <=> \E n \in {1, 2} : Screening.matches[n].is_match
    BY <2>0, NamesAreScreened DEF Screening
  <2> DEFINE Right(s, m) ==
        /\ m.is_match <=> \E i \in DOMAIN s : s[i] >= FUZZY_MATCH_THRESHOLD
        /\ m.match_type = "exact" <=> Equal \in ToSet(s)
        /\ IF m.is_match
           THEN /\ \A i \in DOMAIN s : s[i] <= s[m.matched_entry]
                /\ \A i \in 1 .. m.matched_entry - 1 : s[i] < s[m.matched_entry]
           ELSE m.matched_entry = 0
  <2>2. ASSUME NEW s \in Seq(0 .. Equal), NEW m, NEW top \in 0 .. Equal,
               Screened(s, m, top)
        PROVE  Right(s, m)
    <3>1. /\ DOMAIN s = 1 .. Len(s) /\ Len(s) \in Nat /\ top \in Nat /\ top <= Equal
          /\ \A i \in 1 .. Len(s) : s[i] \in Nat /\ s[i] <= Equal
      BY ScoreConstants
    <3>2. Equal \in ToSet(s) <=> \E i \in 1 .. Len(s) : s[i] = Equal
      BY <3>1 DEF ToSet
    <3>3. /\ \A i \in 1 .. Len(s) : s[i] <= top
          /\ top # 0 => \E i \in 1 .. Len(s) : s[i] = top
          /\ m.is_match <=> top >= FUZZY_MATCH_THRESHOLD
          /\ m.match_type = "exact" <=> top = Equal
      BY <2>2 DEF Screened
    <3>4. m.is_match <=> \E i \in DOMAIN s : s[i] >= FUZZY_MATCH_THRESHOLD
      <4>1. CASE top >= FUZZY_MATCH_THRESHOLD
        <5>1. top # 0
          BY <4>1, ScoreConstants
        <5>2. PICK i \in 1 .. Len(s) : s[i] = top
          BY <3>3, <5>1
        <5> QED BY <3>1, <3>3, <4>1, <5>2
      <4>2. CASE ~(top >= FUZZY_MATCH_THRESHOLD)
        <5>1. \A i \in 1 .. Len(s) : ~(s[i] >= FUZZY_MATCH_THRESHOLD)
          BY <3>1, <3>3, <4>2, ScoreConstants
        <5> QED BY <3>1, <3>3, <4>2, <5>1
      <4> QED BY <4>1, <4>2
    <3>5. (\E i \in 1 .. Len(s) : s[i] = Equal) <=> top = Equal
      BY <3>1, <3>3, ScoreConstants
    <3>6. CASE m.is_match
      <4>1. s[m.matched_entry] = top /\ \A i \in 1 .. m.matched_entry - 1 : s[i] < top
        BY <2>2, <3>3, <3>6 DEF Screened
      <4> QED BY <3>1, <3>2, <3>3, <3>4, <3>5, <3>6, <4>1
    <3>7. CASE ~m.is_match
      <4>1. m.matched_entry = 0
        BY <2>2, <3>3, <3>7 DEF Screened
      <4> QED BY <3>2, <3>3, <3>4, <3>5, <3>7, <4>1
    <3> QED BY <3>6, <3>7
  <2> HIDE DEF Right
  <2>3. \A n \in {1, 2} : Right(names[n], Screening.matches[n])
    BY <2>1, <2>2
  <2> QED BY <2>1, <2>3 DEF BestEntryIsMatched, Right
<1> QED BY <1>1, InputsAreOK, PTL

\* round() keeps the order of the scores.
LEMMA ShownKeepsOrder ==
  ASSUME NEW a \in Nat, NEW b \in Nat, a <= b
  PROVE  Shown(a) <= Shown(b) /\ Shown(a) \in Nat /\ Shown(b) \in Nat
BY SMT DEF Shown

\* A register that only grows keeps every score.
LEMMA RegisterStep ==
  ASSUME InputsOK, [Next]_vars, NEW n \in {1, 2}
  PROVE  /\ Len(names[n]) <= Len(names'[n])
         /\ \A i \in 1 .. Len(names[n]) : names'[n][i] = names[n][i]
<1>1. PICK s \in Seq(0 .. Equal), t \in Seq(0 .. Equal) : names = <<s, t>>
  BY DEF InputsOK
<1>2. CASE Register
  <2>1. PICK a \in Scores, b \in Scores : names' = <<Append(names[1], a), Append(names[2], b)>>
    BY <1>2 DEF Register
  <2>2. PICK e \in 0 .. Equal : names'[n] = Append(names[n], e)
    <3>1. a \in 0 .. Equal /\ b \in 0 .. Equal
      BY SMT DEF Scores, Equal
    <3>2. names'[1] = Append(names[1], a) /\ names'[2] = Append(names[2], b)
      BY <2>1
    <3> QED BY <3>1, <3>2
  <2>3. names[n] \in Seq(0 .. Equal)
    BY <1>1
  <2>4. \A u \in Seq(0 .. Equal) :
          /\ Len(u) <= Len(Append(u, e))
          /\ \A i \in 1 .. Len(u) : Append(u, e)[i] = u[i]
    OBVIOUS
  <2> QED BY <2>2, <2>3, <2>4
<1>3. CASE ~Register
  <2>1. names' = names
    BY <1>3 DEF Next, Stream, Post, vars
  <2>2. Len(names[n]) \in Nat
    BY <1>1
  <2> QED BY <2>1, <2>2
<1> QED BY <1>2, <1>3

(***************************************************************************)
(* Adding an entry to a register, of any length, never takes a hit away    *)
(* nor lowers the score that is shown, though the loop over the entries    *)
(* may end at another one.                                                 *)
(***************************************************************************)
THEOREM HitsSurvive == Spec => HitsSurviveNewEntries
<1> DEFINE Survives ==
      \A n \in DOMAIN names :
        LET before == Screening.matches[n]
            after  == Screening'.matches[n]
        IN  /\ before.is_match => after.is_match
            /\ after.match_score >= before.match_score
<1>1. InputsOK /\ InputsOK' /\ [Next]_vars => Survives
  <2> SUFFICES ASSUME InputsOK, InputsOK', [Next]_vars PROVE Survives
    OBVIOUS
  <2>a. PICK s \in Seq(0 .. Equal), t \in Seq(0 .. Equal) : names = <<s, t>>
    BY DEF InputsOK
  <2>b. PICK s2 \in Seq(0 .. Equal), t2 \in Seq(0 .. Equal) : names' = <<s2, t2>>
    BY DEF InputsOK
  <2>c. Screening' = ComputeWatchlistScreening(names')
    BY DEF Screening
  <2>d. DOMAIN names = {1, 2}
    BY <2>a
  <2> SUFFICES ASSUME NEW n \in {1, 2}
               PROVE  /\ Screening.matches[n].is_match => Screening'.matches[n].is_match
                      /\ Screening'.matches[n].match_score >= Screening.matches[n].match_score
    BY <2>d
  <2>1. PICK top \in 0 .. Equal : Screened(names[n], Screening.matches[n], top)
    BY <2>a, NamesAreScreened DEF Screening
  <2>2. PICK top2 \in 0 .. Equal : Screened(names'[n], Screening'.matches[n], top2)
    BY <2>b, <2>c, NamesAreScreened
  <2>3. /\ Len(names[n]) <= Len(names'[n])
        /\ \A i \in 1 .. Len(names[n]) : names'[n][i] = names[n][i]
    BY RegisterStep
  <2>4. Len(names[n]) \in Nat /\ Len(names'[n]) \in Nat
    BY <2>a, <2>b
  <2>5. top \in Nat /\ top2 \in Nat /\ top <= top2
    <3>1. top \in Nat /\ top2 \in Nat
      BY ScoreConstants
    <3>2. CASE top # 0
      <4>1. PICK i \in 1 .. Len(names[n]) : names[n][i] = top
        BY <2>1, <3>2 DEF Screened
      <4>2. i \in 1 .. Len(names'[n]) /\ names'[n][i] = top
        BY <2>3, <2>4, <4>1
      <4>3. names'[n][i] <= top2
        BY <2>2, <4>2 DEF Screened
      <4> QED BY <3>1, <4>2, <4>3
    <3> QED BY <3>1, <3>2
  <2>6. /\ Screening.matches[n].match_score = Shown(top)
        /\ Screening'.matches[n].match_score = Shown(top2)
        /\ Screening.matches[n].is_match <=> top >= FUZZY_MATCH_THRESHOLD
        /\ Screening'.matches[n].is_match <=> top2 >= FUZZY_MATCH_THRESHOLD
    BY <2>1, <2>2 DEF Screened
  <2>7. Shown(top) <= Shown(top2) /\ Shown(top) \in Nat /\ Shown(top2) \in Nat
    BY <2>5, ShownKeepsOrder
  <2> QED BY <2>5, <2>6, <2>7, ScoreConstants
<1>2. Spec => [][Survives]_vars
  BY <1>1, InputsAreOK, PTL DEF Spec
<1> QED BY <1>2 DEF HitsSurviveNewEntries

------------------------------------------------------------------------------
\* The analysis of the ledger.

\* A ledger that is not empty has a latest transaction, and LatestTs, a CHOOSE,
\* is its time stamp.
LEMMA LatestIs ==
  ASSUME NEW l \in Seq(Transactions), l # << >>
  PROVE  /\ LatestTs(l) \in Int
         /\ \E i \in 1 .. Len(l) : l[i].timestamp = LatestTs(l)
         /\ \A i \in 1 .. Len(l) : l[i].timestamp <= LatestTs(l)
<1>1. /\ Len(l) \in Nat /\ Len(l) # 0 /\ DOMAIN l = 1 .. Len(l)
      /\ \A i \in 1 .. Len(l) : l[i].timestamp \in Int
  <2>1. \A i \in 1 .. Len(l) : l[i] \in Transactions
    BY ElementOfSeq, Zenon
  <2>2. \A t \in Transactions : t.timestamp \in Int
    BY DEF Transactions
  <2>3. Len(l) \in Nat /\ DOMAIN l = 1 .. Len(l)
    BY LenProperties, Zenon
  <2>4. Len(l) # 0
    BY EmptySeq, Zenon
  <2> QED BY <2>1, <2>2, <2>3, <2>4
<1> DEFINE at(i) == l[i].timestamp
           S == {k \in Nat : k + 1 <= Len(l) =>
                   \E m \in 1 .. k + 1 : \A i \in 1 .. k + 1 : at(i) <= at(m)}
<1>2. \A i \in 1 .. Len(l) : at(i) \in Int
  BY <1>1
<1> HIDE DEF at
<1>3. 0 \in S
  <2> SUFFICES ASSUME 1 <= Len(l) PROVE \E m \in 1 .. 1 : \A i \in 1 .. 1 : at(i) <= at(m)
    OBVIOUS
  <2>1. at(1) <= at(1)
    BY <1>1, <1>2
  <2> QED BY <2>1
<1>4. ASSUME NEW k \in Nat, k \in S PROVE k + 1 \in S
  <2> SUFFICES ASSUME k + 1 + 1 <= Len(l)
               PROVE  \E m \in 1 .. k + 1 + 1 : \A i \in 1 .. k + 1 + 1 : at(i) <= at(m)
    OBVIOUS
  <2>1. PICK m \in 1 .. k + 1 : \A i \in 1 .. k + 1 : at(i) <= at(m)
    BY <1>1, <1>4
  <2>2. at(m) \in Int /\ at(k + 1 + 1) \in Int /\ \A i \in 1 .. k + 1 : at(i) \in Int
    BY <1>1, <1>2
  <2>3. \A i \in 1 .. k + 1 + 1 : i \in 1 .. k + 1 \/ i = k + 1 + 1
    OBVIOUS
  <2>4. CASE at(k + 1 + 1) <= at(m)
    <3>1. \A i \in 1 .. k + 1 + 1 : at(i) <= at(m)
      BY <2>1, <2>3, <2>4
    <3>2. m \in 1 .. k + 1 + 1
      OBVIOUS
    <3> QED BY <3>1, <3>2
  <2>5. CASE ~(at(k + 1 + 1) <= at(m))
    <3>1. \A i \in 1 .. k + 1 + 1 : at(i) <= at(k + 1 + 1)
      BY <2>1, <2>2, <2>3, <2>5
    <3>2. k + 1 + 1 \in 1 .. k + 1 + 1
      OBVIOUS
    <3> QED BY <3>1, <3>2
  <2> QED BY <2>4, <2>5
<1>5. Len(l) - 1 \in Nat /\ Len(l) - 1 + 1 = Len(l)
  BY <1>1
<1>6. Len(l) - 1 \in S
  <2> HIDE DEF S
  <2> QED BY <1>3, <1>4, <1>5, NaturalsByInduction
<1>7. PICK m \in 1 .. Len(l) : \A i \in 1 .. Len(l) : at(i) <= at(m)
  BY <1>5, <1>6
<1> DEFINE stamps == {l[i].timestamp : i \in DOMAIN l}
<1>8. /\ stamps \in SUBSET Int /\ at(m) \in stamps
      /\ \A y \in stamps : at(m) >= y
  BY <1>1, <1>7 DEF at
<1> HIDE DEF stamps
<1>9. Max(stamps) = at(m)
  BY <1>8, MaxIs
<1>10. LatestTs(l) = at(m)
  BY <1>9 DEF LatestTs, stamps
<1> QED BY <1>2, <1>7, <1>10 DEF at

\* The sets of positions, and the sum, the findings are computed from.
ClusterOf(l) == {i \in Within(l, STRUCTURING_LOOKBACK) : NearThresholdCash(l[i])}
RecentOf(l)  == Within(l, VELOCITY_LOOKBACK)

SumOf(l, S)  == MapThenSumSet(LAMBDA i : l[i].amount, S)

LEMMA LedgerSets ==
  ASSUME NEW l \in Seq(Transactions), NEW lookback
  PROVE  /\ IsFiniteSet(ClusterOf(l)) /\ IsFiniteSet(Within(l, lookback))
         /\ ClusterOf(l) \subseteq 1 .. Len(l) /\ Within(l, lookback) \subseteq 1 .. Len(l)
         /\ Cardinality(ClusterOf(l)) \in Nat /\ Cardinality(Within(l, lookback)) \in Nat
<1>1. DOMAIN l = 1 .. Len(l) /\ Len(l) \in Nat
  OBVIOUS
<1>2. ClusterOf(l) \subseteq 1 .. Len(l) /\ Within(l, lookback) \subseteq 1 .. Len(l)
  BY <1>1 DEF ClusterOf, Within
<1>3. IsFiniteSet(1 .. Len(l))
  BY <1>1, FS_Interval
<1> QED BY <1>2, <1>3, FS_Subset, FS_CardinalityType

\* What the findings of a ledger that is not empty are.
LEMMA FindingsAre ==
  ASSUME NEW l \in Seq(Transactions), l # << >>
  PROVE  /\ ComputePatternFindings(l).structuring_suspected
              = (Cardinality(ClusterOf(l)) >= STRUCTURING_MIN_CLUSTER)
         /\ ComputePatternFindings(l).velocity_flag
              = (Cardinality(RecentOf(l)) >= VELOCITY_MIN_TRANSACTIONS)
         /\ ComputePatternFindings(l).flagged
              = IF Cardinality(ClusterOf(l)) >= STRUCTURING_MIN_CLUSTER
                THEN ClusterOf(l) ELSE {}
         /\ ComputePatternFindings(l).total_flagged_amount
              = SumOf(l, ComputePatternFindings(l).flagged)
<1>1. ComputePatternFindings(l) = FindingsOf(l)
  BY DEF ComputePatternFindings
<1> DEFINE f == IF Cardinality(ClusterOf(l)) >= STRUCTURING_MIN_CLUSTER
                THEN ClusterOf(l) ELSE {}
           n == SumOf(l, f)
<1>2. FindingsOf(l)
        = [transactions_reviewed |-> Len(l),
           structuring_suspected |-> Cardinality(ClusterOf(l)) >= STRUCTURING_MIN_CLUSTER,
           velocity_flag |-> Cardinality(RecentOf(l)) >= VELOCITY_MIN_TRANSACTIONS,
           total_flagged_amount |-> n,
           flagged |-> f]
  BY DEF FindingsOf, ClusterOf, RecentOf, SumOf
<1>3. ComputePatternFindings(l).flagged = f
  BY <1>1, <1>2
<1>4. ComputePatternFindings(l).total_flagged_amount = n
  <2> HIDE DEF n, f
  <2> QED BY <1>1, <1>2
<1>5. ComputePatternFindings(l).total_flagged_amount
        = SumOf(l, ComputePatternFindings(l).flagged)
  BY <1>3, <1>4
<1>6. /\ ComputePatternFindings(l).structuring_suspected
           = (Cardinality(ClusterOf(l)) >= STRUCTURING_MIN_CLUSTER)
      /\ ComputePatternFindings(l).velocity_flag
           = (Cardinality(RecentOf(l)) >= VELOCITY_MIN_TRANSACTIONS)
  <2> HIDE DEF n, f
  <2> QED BY <1>1, <1>2
<1> QED BY <1>3, <1>5, <1>6

\* The findings of an empty one.
LEMMA NoFindingsAre ==
  /\ ~ComputePatternFindings(<< >>).structuring_suspected
  /\ ~ComputePatternFindings(<< >>).velocity_flag
  /\ ComputePatternFindings(<< >>).flagged = {}
  /\ ComputePatternFindings(<< >>).total_flagged_amount = 0
BY DEF ComputePatternFindings, NoFindings

------------------------------------------------------------------------------
\* The sum over a set of positions of the ledger.

\* The community module sums with a recursive function over the subsets; a
\* recursive function is a CHOOSE, so that it has to be shown to exist before
\* anything can be said of it.
Summing(g, l, S) ==
  \A s \in SUBSET S :
    g[s] = IF s = {} THEN 0
           ELSE l[CHOOSE x \in s : TRUE].amount + g[s \ {CHOOSE x \in s : TRUE}]

IsSumOver(g, l, S) ==
  g = [s \in SUBSET S |->
         IF s = {} THEN 0
         ELSE l[CHOOSE x \in s : TRUE].amount + g[s \ {CHOOSE x \in s : TRUE}]]

LEMMA SummingStep ==
  ASSUME NEW s, NEW n \in Nat, IsFiniteSet(s), s # {}, Cardinality(s) <= n + 1
  PROVE  LET x == CHOOSE x \in s : TRUE
         IN  /\ x \in s /\ IsFiniteSet(s \ {x})
             /\ Cardinality(s \ {x}) = Cardinality(s) - 1
             /\ Cardinality(s \ {x}) <= n
<1> DEFINE x == CHOOSE x \in s : TRUE
<1>1. x \in s
  OBVIOUS
<1> HIDE DEF x
<1>2. IsFiniteSet(s \ {x}) /\ Cardinality(s \ {x}) = Cardinality(s) - 1
  BY <1>1, FS_RemoveElement
<1>3. Cardinality(s) \in Nat
  BY FS_CardinalityType
<1>4. Cardinality(s \ {x}) <= n
  BY <1>2, <1>3
<1> QED BY <1>1, <1>2, <1>4 DEF x

LEMMA SummingExists ==
  ASSUME NEW l, NEW S, IsFiniteSet(S)
  PROVE  \E g : IsSumOver(g, l, S)
<1> DEFINE pick(s) == CHOOSE x \in s : TRUE
           sum(g, s) == IF s = {} THEN 0 ELSE l[pick(s)].amount + g[s \ {pick(s)}]
           Upto(g, k) == \A s \in SUBSET S : Cardinality(s) <= k => g[s] = sum(g, s)
           T == {k \in Nat : \E g : Upto(g, k)}
<1>1. \A s \in SUBSET S : IsFiniteSet(s) /\ Cardinality(s) \in Nat
  BY FS_Subset, FS_CardinalityType
<1>2. \A s \in SUBSET S, n \in Nat :
        s # {} /\ Cardinality(s) <= n + 1 =>
          pick(s) \in s /\ Cardinality(s \ {pick(s)}) <= n
  BY <1>1, SummingStep
<1>3. \A s \in SUBSET S : s # {} => Cardinality(s) # 0
  BY <1>1, FS_EmptySet
<1> HIDE DEF pick
<1>4. 0 \in T
  <2> DEFINE g == [s \in SUBSET S |-> 0]
  <2>1. \A s \in SUBSET S : Cardinality(s) <= 0 => s = {}
    BY <1>1, <1>3
  <2>2. Upto(g, 0)
    BY <2>1
  <2> HIDE DEF g
  <2>3. \E h : Upto(h, 0)
    BY <2>2
  <2> HIDE DEF Upto
  <2> QED BY <2>3
<1>5. ASSUME NEW k \in Nat, k \in T PROVE k + 1 \in T
  <2>1. PICK g : Upto(g, k)
    BY <1>5
  <2> DEFINE h == [s \in SUBSET S |-> IF Cardinality(s) <= k THEN g[s] ELSE sum(g, s)]
  <2>2. \A s \in SUBSET S : h[s] = sum(g, s)
    BY <2>1
  <2>3. \A s \in SUBSET S : Cardinality(s) <= k => h[s] = g[s]
    BY <2>1
  <2> HIDE DEF h
  <2>4. ASSUME NEW s \in SUBSET S, Cardinality(s) <= k + 1
        PROVE  h[s] = sum(h, s)
    <3>1. CASE s = {}
      BY <2>2, <3>1
    <3>2. CASE s # {}
      <4>1. s \ {pick(s)} \in SUBSET S /\ Cardinality(s \ {pick(s)}) <= k
        BY <1>2, <2>4, <3>2
      <4>2. h[s \ {pick(s)}] = g[s \ {pick(s)}]
        BY <2>3, <4>1
      <4>3. h[s] = l[pick(s)].amount + g[s \ {pick(s)}]
        BY <2>2, <3>2
      <4> QED BY <3>2, <4>2, <4>3
    <3> QED BY <3>1, <3>2
  <2>5. Upto(h, k + 1)
    BY <2>4
  <2> HIDE DEF Upto
  <2> QED BY <2>5
<1>6. Cardinality(S) \in T
  <2> HIDE DEF T
  <2> QED BY <1>1, <1>4, <1>5, NaturalsByInduction
<1>7. PICK g : Upto(g, Cardinality(S))
  BY <1>6
<1>8. \A s \in SUBSET S : Cardinality(s) <= Cardinality(S)
  BY FS_Subset
<1>9. \A s \in SUBSET S : g[s] = sum(g, s)
  BY <1>7, <1>8
<1> DEFINE h == [s \in SUBSET S |-> g[s]]
<1>10. \A s \in SUBSET S : h[s] = sum(h, s)
  <2> SUFFICES ASSUME NEW s \in SUBSET S PROVE h[s] = sum(h, s)
    OBVIOUS
  <2>1. s \ {pick(s)} \in SUBSET S
    OBVIOUS
  <2>2. h[s] = g[s] /\ h[s \ {pick(s)}] = g[s \ {pick(s)}]
    BY <2>1
  <2> HIDE DEF h
  <2> QED BY <1>9, <2>2
<1>11. h = [s \in SUBSET S |-> h[s]]
  OBVIOUS
<1> HIDE DEF h, sum
<1>12. h = [s \in SUBSET S |-> sum(h, s)]
  <2>1. [s \in SUBSET S |-> h[s]] = [s \in SUBSET S |-> sum(h, s)]
    BY <1>10
  <2> QED BY <1>11, <2>1
<1>13. IsSumOver(h, l, S)
  BY <1>12, Zenon DEF sum, pick, IsSumOver
<1> QED BY <1>13

LEMMA SumIsSolution ==
  ASSUME NEW l, NEW S, IsFiniteSet(S)
  PROVE  \E g : Summing(g, l, S) /\ SumOf(l, S) = g[S]
<1> DEFINE g == CHOOSE g : IsSumOver(g, l, S)
<1>1. SumOf(l, S) = g[S]
  BY Zenon DEF SumOf, MapThenSumSet, MapThenFoldSet, IsSumOver
<1>2. IsSumOver(g, l, S)
  BY SummingExists, Zenon
<1> HIDE DEF g
<1>3. Summing(g, l, S)
  BY <1>2 DEF Summing, IsSumOver
<1> QED BY <1>1, <1>3

\* As many amounts of a range add up to as many times its bounds.
LEMMA SumIsBetween ==
  ASSUME NEW l, NEW S, IsFiniteSet(S), NEW low \in Nat, NEW high \in Nat,
         \A i \in S : l[i].amount \in low .. high
  PROVE  SumOf(l, S)
           \in low * Cardinality(S) .. high * Cardinality(S)
<1>1. PICK g : Summing(g, l, S) /\ SumOf(l, S) = g[S]
  BY SumIsSolution
<1> DEFINE T == {k \in Nat : \A s \in SUBSET S : Cardinality(s) = k =>
                   g[s] \in low * k .. high * k}
<1>2. \A s \in SUBSET S : IsFiniteSet(s) /\ Cardinality(s) \in Nat
  BY FS_Subset, FS_CardinalityType
<1>3. 0 \in T
  <2>1. \A s \in SUBSET S : Cardinality(s) = 0 => s = {}
    BY <1>2, FS_EmptySet
  <2>2. g[{}] = 0
    BY <1>1 DEF Summing
  <2>3. 0 \in low * 0 .. high * 0
    OBVIOUS
  <2> QED BY <2>1, <2>2, <2>3
<1>4. ASSUME NEW k \in Nat, k \in T PROVE k + 1 \in T
  <2> SUFFICES ASSUME NEW s \in SUBSET S, Cardinality(s) = k + 1
               PROVE  g[s] \in low * (k + 1) .. high * (k + 1)
    OBVIOUS
  <2>1. s # {}
    <3>1. Cardinality({}) = 0 /\ k + 1 # 0
      BY FS_EmptySet
    <3> QED BY <3>1
  <2>2. PICK x : x = CHOOSE y \in s : TRUE
    OBVIOUS
  <2>3. x \in s /\ Cardinality(s \ {x}) = k
    <3>1. IsFiniteSet(s) /\ Cardinality(s) <= k + 1
      BY <1>2
    <3>2. x \in s /\ Cardinality(s \ {x}) = Cardinality(s) - 1
      BY <2>1, <2>2, <3>1, SummingStep, Zenon
    <3> QED BY <3>2
  <2>4. g[s] = l[x].amount + g[s \ {x}]
    BY <1>1, <2>1, <2>2 DEF Summing
  <2>5. g[s \ {x}] \in low * k .. high * k
    BY <1>4, <2>3
  <2>6. l[x].amount \in low .. high
    BY <2>3
  <2>7. \A n \in Nat : n * (k + 1) = n * k + n /\ n * k \in Nat
    OBVIOUS
  <2> QED BY <2>4, <2>5, <2>6, <2>7
<1>5. Cardinality(S) \in T
  <2> HIDE DEF T
  <2> QED BY <1>2, <1>3, <1>4, NaturalsByInduction
<1> QED BY <1>1, <1>5

\* The band just below the limit, and the other limits, in numbers.
Least    == 900000
Greatest == 999999

LEMMA LedgerConstants ==
  /\ STRUCTURING_LOOKBACK = 7 * Day /\ VELOCITY_LOOKBACK = 5 * Day
  /\ STRUCTURING_MIN_CLUSTER = 3 /\ VELOCITY_MIN_TRANSACTIONS = 4
  /\ Day \in Nat /\ Least \in Nat /\ Greatest \in Nat
BY SMT DEF STRUCTURING_LOOKBACK, VELOCITY_LOOKBACK, STRUCTURING_MIN_CLUSTER,
  VELOCITY_MIN_TRANSACTIONS, Day, Least, Greatest

LEMMA BandIs ==
  \A a \in Nat : a >= NEAR_THRESHOLD_FLOOR /\ a < REPORTING_THRESHOLD
                   <=> a \in Least .. Greatest
BY SMT DEF NEAR_THRESHOLD_FLOOR, REPORTING_THRESHOLD, Least, Greatest

LEMMA LedgerElements ==
  ASSUME NEW l \in Seq(Transactions)
  PROVE  /\ Len(l) \in Nat /\ DOMAIN l = 1 .. Len(l)
         /\ \A i \in 1 .. Len(l) : /\ l[i] \in Transactions
                                   /\ l[i].amount \in Nat /\ l[i].timestamp \in Int
<1>1. \A i \in 1 .. Len(l) : l[i] \in Transactions
  BY ElementOfSeq, Zenon
<1>2. \A t \in Transactions : t.timestamp \in Int /\ t.amount \in Nat
  BY DEF Transactions
<1>3. Len(l) \in Nat /\ DOMAIN l = 1 .. Len(l)
  BY LenProperties, Zenon
<1> QED BY <1>1, <1>2, <1>3

\* A window reaches back from the latest transaction: what is in it is not too
\* old for any transaction.
LEMMA WindowIs ==
  ASSUME NEW l \in Seq(Transactions), l # << >>, NEW lookback \in Int
  PROVE  Within(l, lookback)
           = {i \in 1 .. Len(l) :
                \A j \in 1 .. Len(l) : l[j].timestamp - l[i].timestamp <= lookback}
<1>1. /\ DOMAIN l = 1 .. Len(l) /\ LatestTs(l) \in Int
      /\ \A i \in 1 .. Len(l) : l[i].timestamp \in Int /\ l[i].timestamp <= LatestTs(l)
      /\ \E j \in 1 .. Len(l) : l[j].timestamp = LatestTs(l)
  BY LatestIs, LedgerElements
<1>2. PICK m \in 1 .. Len(l) : l[m].timestamp = LatestTs(l)
  BY <1>1
<1>3. ASSUME NEW i \in 1 .. Len(l)
      PROVE  LatestTs(l) - l[i].timestamp <= lookback
               <=> \A j \in 1 .. Len(l) : l[j].timestamp - l[i].timestamp <= lookback
  <2>1. ASSUME LatestTs(l) - l[i].timestamp <= lookback, NEW j \in 1 .. Len(l)
        PROVE  l[j].timestamp - l[i].timestamp <= lookback
    <3>1. PICK a \in Int, b \in Int : a = l[j].timestamp /\ b = l[i].timestamp
      BY <1>1
    <3>2. a <= LatestTs(l) /\ LatestTs(l) - b <= lookback
      BY <1>1, <2>1, <3>1
    <3>3. a - b <= lookback
      BY <1>1, <3>2
    <3> QED BY <3>1, <3>3
  <2> QED BY <1>2, <2>1
<1> QED BY <1>1, <1>3 DEF Within

\* What the findings of the ledger are, in the words of the property.
LEMMA ClusterIsFlagged ==
  ASSUME InputsOK, ledger # << >>
  PROVE  LET cluster == {i \in DOMAIN ledger : /\ ledger[i].channel = "cash"
                                               /\ ledger[i].amount \in Least .. Greatest
                                               /\ InTheWindow(ledger[i], 7 * Day)}
             recent  == {i \in DOMAIN ledger : InTheWindow(ledger[i], 5 * Day)}
         IN  ClusterOf(ledger) = cluster /\ RecentOf(ledger) = recent
<1> DEFINE cluster == {i \in DOMAIN ledger : /\ ledger[i].channel = "cash"
                                             /\ ledger[i].amount \in Least .. Greatest
                                             /\ InTheWindow(ledger[i], 7 * Day)}
           recent  == {i \in DOMAIN ledger : InTheWindow(ledger[i], 5 * Day)}
           inside(lookback) == {i \in DOMAIN ledger : InTheWindow(ledger[i], lookback)}
<1>1. ledger \in Seq(Transactions)
  BY DEF InputsOK
<1>2. /\ DOMAIN ledger = 1 .. Len(ledger)
      /\ \A i \in 1 .. Len(ledger) : ledger[i].amount \in Nat
  BY <1>1, LedgerElements
<1>3. ToSet(ledger) = {ledger[j] : j \in 1 .. Len(ledger)}
  BY <1>2 DEF ToSet
<1>4. ASSUME NEW lookback \in Int PROVE Within(ledger, lookback) = inside(lookback)
  <2>1. \A i \in 1 .. Len(ledger) :
          InTheWindow(ledger[i], lookback)
            <=> \A j \in 1 .. Len(ledger) : ledger[j].timestamp - ledger[i].timestamp <= lookback
    BY <1>3, Zenon DEF InTheWindow
  <2>2. Within(ledger, lookback)
           = {i \in 1 .. Len(ledger) :
                \A j \in 1 .. Len(ledger) : ledger[j].timestamp - ledger[i].timestamp <= lookback}
    BY <1>1, WindowIs
  <2> QED BY <1>2, <2>1, <2>2, Zenon
<1>5. 7 * Day \in Int /\ 5 * Day \in Int
  BY LedgerConstants
<1>6. \A i \in 1 .. Len(ledger) :
        NearThresholdCash(ledger[i])
          <=> ledger[i].channel = "cash" /\ ledger[i].amount \in Least .. Greatest
  <2> SUFFICES ASSUME NEW i \in 1 .. Len(ledger)
               PROVE  NearThresholdCash(ledger[i])
                        <=> ledger[i].channel = "cash" /\ ledger[i].amount \in Least .. Greatest
    OBVIOUS
  <2>1. PICK a \in Nat : a = ledger[i].amount
    BY <1>2
  <2>2. (a >= NEAR_THRESHOLD_FLOOR /\ a < REPORTING_THRESHOLD) <=> a \in Least .. Greatest
    BY BandIs
  <2> QED BY <2>1, <2>2 DEF NearThresholdCash
<1>7. ClusterOf(ledger) = {i \in inside(7 * Day) : NearThresholdCash(ledger[i])}
  BY <1>4, <1>5, LedgerConstants DEF ClusterOf
<1>8. ClusterOf(ledger) = cluster
  <2>1. \A i : i \in {j \in inside(7 * Day) : NearThresholdCash(ledger[j])} <=> i \in cluster
    BY <1>2, <1>6
  <2> QED BY <1>7, <2>1
<1>9. RecentOf(ledger) = recent
  BY <1>4, <1>5, LedgerConstants DEF RecentOf
<1> QED BY <1>8, <1>9

(***************************************************************************)
(* However long the ledger, and in whatever order: the findings are the    *)
(* clusters of the two windows, whole, and the flagged amount is one that  *)
(* so many transactions of the band can have.                              *)
(***************************************************************************)
THEOREM ClustersAreFlagged == Spec => []ClustersAreFlaggedWhole
<1> DEFINE cluster == {i \in DOMAIN ledger : /\ ledger[i].channel = "cash"
                                             /\ ledger[i].amount \in Least .. Greatest
                                             /\ InTheWindow(ledger[i], 7 * Day)}
           recent  == {i \in DOMAIN ledger : InTheWindow(ledger[i], 5 * Day)}
           n       == Cardinality(Pattern.flagged)
           Whole ==
             /\ Pattern.structuring_suspected <=> Cardinality(cluster) >= 3
             /\ Pattern.flagged = IF Pattern.structuring_suspected THEN cluster ELSE {}
             /\ Pattern.velocity_flag <=> Cardinality(recent) >= 4
             /\ Pattern.total_flagged_amount \in Least * n .. Greatest * n
<1>1. ASSUME InputsOK, ledger = << >> PROVE Whole
  <2>1. cluster = {} /\ recent = {}
    <3>1. DOMAIN ledger = {}
      BY <1>1
    <3> QED BY <3>1
  <2>2. Cardinality({}) = 0
    BY FS_EmptySet
  <2>3. /\ ~Pattern.structuring_suspected /\ ~Pattern.velocity_flag
        /\ Pattern.flagged = {} /\ Pattern.total_flagged_amount = 0
    BY <1>1, NoFindingsAre DEF Pattern
  <2>4. 0 \in Least * 0 .. Greatest * 0
    BY LedgerConstants
  <2>5. Cardinality(cluster) = 0 /\ Cardinality(recent) = 0 /\ n = 0
    BY <2>1, <2>2, <2>3
  <2> HIDE DEF cluster, recent, n
  <2> QED BY <2>3, <2>4, <2>5
<1>2. ASSUME InputsOK, ledger # << >> PROVE Whole
  <2>1. ledger \in Seq(Transactions)
    BY <1>2 DEF InputsOK
  <2>2. ClusterOf(ledger) = cluster /\ RecentOf(ledger) = recent
    BY <1>2, ClusterIsFlagged
  <2>3. \A i \in cluster : ledger[i].amount \in Least .. Greatest
    OBVIOUS
  <2> HIDE DEF cluster, recent
  <2>4. /\ Pattern.structuring_suspected = (Cardinality(cluster) >= 3)
        /\ Pattern.velocity_flag = (Cardinality(recent) >= 4)
        /\ Pattern.flagged = IF Cardinality(cluster) >= 3 THEN cluster ELSE {}
        /\ Pattern.total_flagged_amount = SumOf(ledger, Pattern.flagged)
    BY <1>2, <2>1, <2>2, FindingsAre, LedgerConstants DEF Pattern
  <2>5. /\ IsFiniteSet(Pattern.flagged)
        /\ \A i \in Pattern.flagged : ledger[i].amount \in Least .. Greatest
    BY <2>1, <2>2, <2>3, <2>4, LedgerSets, FS_EmptySet
  <2>6. Pattern.total_flagged_amount \in Least * n .. Greatest * n
    BY <2>4, <2>5, SumIsBetween, LedgerConstants
  <2> HIDE DEF n
  <2> QED BY <2>4, <2>6
<1>3. InputsOK => Whole
  BY <1>1, <1>2
<1>4. Whole = ClustersAreFlaggedWhole
  BY SMT DEF ClustersAreFlaggedWhole, Least, Greatest
<1> HIDE DEF Whole
<1>5. InputsOK => ClustersAreFlaggedWhole
  BY <1>3, <1>4
<1> QED BY <1>5, InputsAreOK, PTL

\* A transaction that is posted late moves no window: what was in one still is.
LEMMA LatePosting ==
  ASSUME NEW l \in Seq(Transactions), NEW t \in Transactions, NEW k, k = Append(l, t),
         NEW u \in 1 .. Len(l), t.timestamp <= l[u].timestamp
  PROVE  /\ k \in Seq(Transactions) /\ l # << >> /\ k # << >>
         /\ ClusterOf(l) \subseteq ClusterOf(k) /\ RecentOf(l) \subseteq RecentOf(k)
<1>1. /\ k \in Seq(Transactions) /\ l # << >> /\ k # << >>
      /\ Len(l) \in Nat /\ Len(k) = Len(l) + 1 /\ k[Len(l) + 1] = t
      /\ \A i \in 1 .. Len(l) : k[i] = l[i]
  OBVIOUS
<1>2. /\ \A i \in 1 .. Len(l) : l[i].timestamp \in Int
      /\ \A i \in 1 .. Len(k) : k[i].timestamp \in Int
  BY <1>1, LedgerElements
<1>3. t.timestamp \in Int
  BY DEF Transactions
<1>4. ASSUME NEW lookback \in Int PROVE Within(l, lookback) \subseteq Within(k, lookback)
  <2> SUFFICES ASSUME NEW i \in Within(l, lookback) PROVE i \in Within(k, lookback)
    OBVIOUS
  <2>1. i \in 1 .. Len(l) /\ \A j \in 1 .. Len(l) : l[j].timestamp - l[i].timestamp <= lookback
    BY <1>1, WindowIs
  <2>2. i \in 1 .. Len(k)
    BY <1>1, <2>1
  <2>3. ASSUME NEW j \in 1 .. Len(k) PROVE k[j].timestamp - k[i].timestamp <= lookback
    <3>1. CASE j \in 1 .. Len(l)
      BY <1>1, <2>1, <3>1
    <3>2. CASE j = Len(l) + 1
      <4>1. PICK a \in Int, b \in Int, c \in Int :
              a = t.timestamp /\ b = l[u].timestamp /\ c = l[i].timestamp
        BY <1>2, <1>3, <2>1
      <4>2. a <= b /\ b - c <= lookback
        BY <2>1, <4>1
      <4>3. a - c <= lookback
        BY <4>2
      <4> QED BY <1>1, <2>1, <3>2, <4>1, <4>3
    <3>3. j \in 1 .. Len(l) \/ j = Len(l) + 1
      BY <1>1
    <3> QED BY <3>1, <3>2, <3>3
  <2> QED BY <1>1, <2>2, <2>3, WindowIs
<1>5. STRUCTURING_LOOKBACK \in Int /\ VELOCITY_LOOKBACK \in Int
  BY LedgerConstants
<1>6. RecentOf(l) \subseteq RecentOf(k)
  BY <1>4, <1>5 DEF RecentOf
<1>7. ClusterOf(l) \subseteq ClusterOf(k)
  <2>1. ASSUME NEW i \in ClusterOf(l) PROVE k[i] = l[i]
    BY <1>1, LedgerSets
  <2> QED BY <1>4, <1>5, <2>1 DEF ClusterOf
<1> QED BY <1>1, <1>6, <1>7

\* More positions flag no less.
LEMMA MoreIsFlagged ==
  ASSUME NEW l \in Seq(Transactions), NEW k \in Seq(Transactions), l # << >>, k # << >>,
         ClusterOf(l) \subseteq ClusterOf(k), RecentOf(l) \subseteq RecentOf(k)
  PROVE  /\ ComputePatternFindings(l).flagged \subseteq ComputePatternFindings(k).flagged
         /\ ComputePatternFindings(l).velocity_flag => ComputePatternFindings(k).velocity_flag
<1>1. /\ Cardinality(ClusterOf(l)) <= Cardinality(ClusterOf(k))
      /\ Cardinality(RecentOf(l)) <= Cardinality(RecentOf(k))
  BY LedgerSets, FS_Subset DEF RecentOf
<1>2. /\ Cardinality(ClusterOf(l)) \in Nat /\ Cardinality(ClusterOf(k)) \in Nat
      /\ Cardinality(RecentOf(l)) \in Nat /\ Cardinality(RecentOf(k)) \in Nat
  BY LedgerSets DEF RecentOf
<1>3. /\ ComputePatternFindings(l).flagged
           = IF Cardinality(ClusterOf(l)) >= 3 THEN ClusterOf(l) ELSE {}
      /\ ComputePatternFindings(k).flagged
           = IF Cardinality(ClusterOf(k)) >= 3 THEN ClusterOf(k) ELSE {}
      /\ ComputePatternFindings(l).velocity_flag = (Cardinality(RecentOf(l)) >= 4)
      /\ ComputePatternFindings(k).velocity_flag = (Cardinality(RecentOf(k)) >= 4)
  BY FindingsAre, LedgerConstants
<1>4. /\ Cardinality(ClusterOf(l)) >= 3 => Cardinality(ClusterOf(k)) >= 3
      /\ Cardinality(RecentOf(l)) >= 4 => Cardinality(RecentOf(k)) >= 4
  BY <1>1, <1>2
<1> QED BY <1>3, <1>4

(***************************************************************************)
(* A transaction that is posted late clears no flag, whatever the ledger.  *)
(***************************************************************************)
THEOREM LatePostingsAreHarmless == Spec => LatePostingsClearNothing
<1> DEFINE Kept == /\ ledger' # ledger
                   /\ \E t \in ToSet(ledger) : Last(ledger').timestamp <= t.timestamp
                   => /\ Pattern.flagged \subseteq Pattern'.flagged
                      /\ Pattern.velocity_flag => Pattern'.velocity_flag
<1>1. ASSUME InputsOK, [Next]_vars PROVE Kept
  <2> SUFFICES ASSUME ledger' # ledger,
                      \E t \in ToSet(ledger) : Last(ledger').timestamp <= t.timestamp
               PROVE  /\ Pattern.flagged \subseteq Pattern'.flagged
                      /\ Pattern.velocity_flag => Pattern'.velocity_flag
    OBVIOUS
  <2>1. Post
    BY <1>1 DEF Next, Stream, Register, vars
  <2>2. PICK t \in Transactions : ledger' = Append(ledger, t)
    BY <2>1, PostableIsTransaction DEF Post
  <2>3. ledger \in Seq(Transactions)
    BY <1>1 DEF InputsOK
  <2>4. Last(ledger') = t
    <3>1. \A l \in Seq(Transactions) : Append(l, t)[Len(Append(l, t))] = t
      OBVIOUS
    <3> QED BY <2>2, <2>3, <3>1 DEF Last
  <2>5. PICK u \in 1 .. Len(ledger) : t.timestamp <= ledger[u].timestamp
    BY <1>1, <2>3, <2>4, LedgerElements DEF ToSet
  <2>6. /\ ledger' \in Seq(Transactions) /\ ledger # << >> /\ ledger' # << >>
        /\ ClusterOf(ledger) \subseteq ClusterOf(ledger')
        /\ RecentOf(ledger) \subseteq RecentOf(ledger')
    BY <2>2, <2>3, <2>5, LatePosting
  <2>7. Pattern = ComputePatternFindings(ledger) /\ Pattern' = ComputePatternFindings(ledger')
    BY DEF Pattern
  <2> QED BY <2>3, <2>6, <2>7, MoreIsFlagged
<1>2. Spec => [][Kept]_vars
  BY <1>1, InputsAreOK, PTL DEF Spec
<1> QED BY <1>2 DEF LatePostingsClearNothing

------------------------------------------------------------------------------
\* The words of the offline model.

(***************************************************************************)
(* The offline narratives tell of the findings what is true of them: the   *)
(* labels they look for are those the prompts have.                        *)
(***************************************************************************)
THEOREM NarrativesAreTrue == Spec => []NarrativesTellTheFindings
<1>1. ASSUME NEW findings
      PROVE  LET told == PatternNarrative(FormatPatternFindingsText(findings))
             IN  /\ "structuring" \in told <=> findings.structuring_suspected
                 /\ "velocity" \in told <=> findings.velocity_flag
  BY DEF PatternNarrative, FormatPatternFindingsText, BoolFact
<1>2. ASSUME NEW result
      PROVE  WatchlistNarrative(FormatWatchlistResultText(result)) = "potential match"
               <=> result.any_hits
  BY DEF WatchlistNarrative, FormatWatchlistResultText, BoolFact
<1>3. ASSUME InputsOK PROVE Pattern.structuring_suspected <=> Pattern.flagged # {}
  <2>1. CASE ledger = << >>
    BY <2>1, NoFindingsAre DEF Pattern
  <2>2. CASE ledger # << >>
    <3>1. ledger \in Seq(Transactions)
      BY <1>3 DEF InputsOK
    <3>2. /\ Pattern.structuring_suspected = (Cardinality(ClusterOf(ledger)) >= 3)
          /\ Pattern.flagged
               = IF Cardinality(ClusterOf(ledger)) >= 3 THEN ClusterOf(ledger) ELSE {}
      BY <2>2, <3>1, FindingsAre, LedgerConstants DEF Pattern
    <3>3. Cardinality(ClusterOf(ledger)) >= 3 => ClusterOf(ledger) # {}
      <4>1. Cardinality({}) = 0 /\ ~(0 >= 3)
        BY FS_EmptySet
      <4> QED BY <4>1
    <3> QED BY <3>2, <3>3
  <2> QED BY <2>1, <2>2
<1>4. ASSUME InputsOK
      PROVE  Screening.any_hits <=> \E n \in DOMAIN names : Screening.matches[n].matched_entry # 0
  <2>1. PICK a \in Seq(0 .. Equal), b \in Seq(0 .. Equal) : names = <<a, b>>
    BY <1>4 DEF InputsOK
  <2>2. /\ DOMAIN names = {1, 2}
        /\ \A n \in {1, 2} :
             /\ names[n] \in Seq(0 .. Equal)
             /\ \E top \in 0 .. Equal : Screened(names[n], Screening.matches[n], top)
        /\ Screening.any_hits <=> \E n \in {1, 2} : Screening.matches[n].is_match
    BY <2>1, NamesAreScreened DEF Screening
  <2>3. ASSUME NEW n \in {1, 2}
        PROVE  Screening.matches[n].is_match <=> Screening.matches[n].matched_entry # 0
    <3>1. PICK top \in 0 .. Equal : Screened(names[n], Screening.matches[n], top)
      BY <2>2
    <3> QED BY <3>1 DEF Screened
  <2> QED BY <2>2, <2>3
<1>5. InputsOK => NarrativesTellTheFindings
  <2> SUFFICES ASSUME InputsOK PROVE NarrativesTellTheFindings
    OBVIOUS
  <2> HIDE DEF Pattern, Screening
  <2> QED BY <1>1, <1>2, <1>3, <1>4 DEF NarrativesTellTheFindings
<1> QED BY <1>5, InputsAreOK, PTL
==============================================================================

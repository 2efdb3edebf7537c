------------------------------ MODULE TextsProofs ------------------------------
(***************************************************************************)
(* Facts about texts, the parser, the checklist and the generated texts    *)
(* that the proofs about the critique loop rest on.                        *)
(***************************************************************************)
EXTENDS ReportParsing, PolicyChecklist, MockLLM, WellFoundedInduction,
        SequenceTheorems, TLAPS

\* A nonempty set of naturals has a least element, so that Min, which is
\* a CHOOSE, denotes it.  The least-number principle comes from the library's
\* proof that < is well-founded on the naturals.
LEMMA MinOfNaturals ==
  ASSUME NEW S \in SUBSET Nat, S # {}
  PROVE  Min(S) \in S /\ \A y \in S : Min(S) <= y
<1> DEFINE R == OpToRel(<, Nat)
<1>1. PICK x \in S : \A y \in S : <<y, x>> \notin R
  <2>1. IsWellFoundedOn(R, Nat)
    BY NatLessThanWellFounded
  <2> HIDE DEF R
  <2> QED BY <2>1, WFMin
<1>2. \A y \in S : x <= y
  <2> SUFFICES ASSUME NEW y \in S PROVE x <= y
    OBVIOUS
  <2>1. <<y, x>> \notin OpToRel(<, Nat)
    BY <1>1
  <2>2. <<y, x>> \in Nat \X Nat /\ <<y,x>>[1] = y /\ <<y,x>>[2] = x
    OBVIOUS
  <2>3. ~ (y < x)
    BY <2>1, <2>2 DEF OpToRel
  <2> QED BY <2>3
<1> QED BY <1>2 DEF Min

\* Dually for Max and bounded sets, by reflection.
LEMMA MaxOfNaturals ==
  ASSUME NEW n \in Nat, NEW S \in SUBSET (0 .. n), S # {}
  PROVE  Max(S) \in S /\ \A y \in S : Max(S) >= y
<1> DEFINE T == {n - x : x \in S}
<1>1. T \in SUBSET Nat /\ T # {}
  <2>1. \A x \in S : n - x \in Nat
    OBVIOUS
  <2>2. T \subseteq Nat
    BY <2>1
  <2>3. PICK x \in S : TRUE
    OBVIOUS
  <2>4. n - x \in T
    BY <2>3
  <2> QED BY <2>2, <2>4
<1>2. Min(T) \in T /\ \A y \in T : Min(T) <= y
  <2> HIDE DEF T
  <2> QED BY <1>1, MinOfNaturals
<1>3. PICK x \in S : Min(T) = n - x
  BY <1>2
<1>4. \A y \in S : x >= y
  BY <1>2, <1>3
<1> QED BY <1>4 DEF Max

\* Trimming a text yields a text (str.strip and the section patterns).
LEMMA TrimmedType ==
  ASSUME NEW s \in Text, NEW from \in Nat \ {0}, NEW to \in 0 .. Len(s)
  PROVE  Trimmed(s, from, to) \in Text
<1> DEFINE ink == {i \in from .. to : s[i] # LineBreak}
<1>1. CASE ink = {}
  BY <1>1 DEF Trimmed, Text
<1>2. CASE ink # {}
  <2>1. ink \in SUBSET Nat /\ ink \in SUBSET (0 .. Len(s)) /\ Len(s) \in Nat
    BY DEF Text
  <2>2. Min(ink) \in ink /\ Max(ink) \in ink
    <3> HIDE DEF ink
    <3> QED BY <1>2, <2>1, MinOfNaturals, MaxOfNaturals
  <2>3. /\ Min(ink) \in Int /\ Max(ink) \in Int
        /\ \A i \in Min(ink) .. Max(ink) : s[i] \in Tokens
    <3>1. \A i \in ink : i \in Int /\ from <= i /\ i <= to
      OBVIOUS
    <3>2. s \in Seq(Tokens) /\ Len(s) \in Nat
      BY DEF Text
    <3>3. \A i \in from .. to : s[i] \in Tokens
      BY <3>2
    <3> HIDE DEF ink
    <3> QED BY <2>2, <3>1, <3>3
  <2>4. SubSeq(s, Min(ink), Max(ink)) \in Seq(Tokens)
    <3> HIDE DEF ink
    <3> QED BY <2>3, SubSeqProperties
  <2> QED BY <1>2, <2>4 DEF Trimmed, Text
<1> QED BY <1>1, <1>2

\* A label is found at a position of the text, or nowhere.
LEMMA FindType ==
  ASSUME NEW raw \in Text, NEW label
  PROVE  Find(raw, label) \in 0 .. Len(raw)
<1> DEFINE places == {i \in 1 .. Len(raw) : raw[i] = label}
<1>1. Len(raw) \in Nat
  BY DEF Text
<1>2. places # {} => Min(places) \in places
  <2>1. places \in SUBSET Nat
    BY <1>1
  <2> HIDE DEF places
  <2> QED BY <2>1, MinOfNaturals
<1>3. Find(raw, label) = IF places # {} THEN Min(places) ELSE 0
  BY DEF Find, SelectInSeq
<1> QED BY <1>1, <1>2, <1>3

\* parse_writer_output turns every text into two texts: it is total, and
\* a malformed answer never makes it fail.
LEMMA ParseType ==
  ASSUME NEW raw \in Text, NEW fallback \in Text
  PROVE  /\ ParseWriterOutput(raw, fallback).summary \in Text
         /\ ParseWriterOutput(raw, fallback).recommended_next_step \in Text
<1>1. Len(raw) \in Nat
  BY DEF Text
<1>2. Strip(raw) \in Text
  BY <1>1, TrimmedType DEF Strip
<1>3. NextStep(raw) \in Text
  BY <1>1, FindType, TrimmedType DEF NextStep
<1>4. Summary(raw) \in Text
  <2> DEFINE ink   == {i \in (Find(raw, SummaryLabel) + 1) .. Len(raw) : raw[i] # LineBreak}
             start == IF ink = {} THEN Len(raw) + 1 ELSE Min(ink)
             ends  == {i \in start .. Len(raw) : NextStepLineAt(raw, i)}
             last  == IF ends = {} THEN Len(raw) ELSE Min(ends) - 1
  <2>1. ink \in SUBSET Nat /\ \A i \in ink : i >= 1
    BY <1>1, FindType
  <2>2. start \in Nat \ {0}
    <3>1. ink # {} => Min(ink) \in ink
      <4> HIDE DEF ink
      <4> QED BY <2>1, MinOfNaturals
    <3>2. ink # {} => Min(ink) \in Nat /\ Min(ink) >= 1
      <4> HIDE DEF ink
      <4> QED BY <2>1, <3>1
    <3> HIDE DEF ink
    <3> QED BY <1>1, <3>2 DEF start
  <2>3. ends \in SUBSET Nat /\ \A i \in ends : 1 <= i /\ i <= Len(raw)
    <3> HIDE DEF start
    <3> QED BY <1>1, <2>2
  <2>4. last \in 0 .. Len(raw)
    <3>1. ends # {} => Min(ends) \in ends
      <4> HIDE DEF ends
      <4> QED BY <2>3, MinOfNaturals
    <3>2. ends # {} => Min(ends) \in Nat /\ 1 <= Min(ends) /\ Min(ends) <= Len(raw)
      <4> HIDE DEF ends
      <4> QED BY <2>3, <3>1
    <3> HIDE DEF ends
    <3> QED BY <1>1, <3>2 DEF last
  <2>5. Summary(raw) = Trimmed(raw, start, last)
    BY DEF Summary
  <2> HIDE DEF start, last
  <2> QED BY <2>2, <2>4, <2>5, TrimmedType
<1> QED BY <1>2, <1>3, <1>4 DEF ParseWriterOutput

\* evaluate_checklist gives a verdict on each item, whatever the draft.
LEMMA ChecklistType ==
  ASSUME NEW d, NEW findings \in Findings
  PROVE  EvaluateChecklist(d, findings) \in Checklist
BY DEF EvaluateChecklist, Checklist, ChecklistItems, PatternDisclosed,
       WatchlistDisclosed, NextStepActionable, Mentions

\* Texts of one to three tokens, and the concatenation of texts.
LEMMA ShortTexts ==
  /\ \A a \in Tokens : <<a>> \in Text
  /\ \A a, b \in Tokens : <<a, b>> \in Text
  /\ \A a, b, c \in Tokens : <<a, b, c>> \in Text
  /\ \A s, t \in Text : s \o t \in Text
<1>1. \A s, t \in Text : s \o t \in Text
  BY ConcatProperties DEF Text
<1>2. /\ \A a \in Tokens : <<a>> \in Text
      /\ \A a, b \in Tokens : <<a, b>> \in Text
      /\ \A a, b, c \in Tokens : <<a, b, c>> \in Text
  BY DEF Text
<1> QED BY <1>1, <1>2

\* The fallback next step and the offline model's answers are texts.
LEMMA GeneratedTexts ==
  ASSUME NEW findings \in Findings
  PROVE  /\ DefaultNextStep(findings) \in Text
         /\ \A revision \in BOOLEAN : ReportWriter(revision, findings) \in Text
<1>1. {LineBreak, SummaryLabel, NextStepLabel, Account, Passage, Word, Tbd, "no",
       "escalate", "close", "structuring", "pattern", "watchlist",
       "watch register"} \subseteq Tokens
  BY DEF Tokens, PatternKeywords, WatchlistKeywords
<1>2. DefaultNextStep(findings) \in Text /\ MockNextStep(findings) \in Text
  BY <1>1, ShortTexts DEF DefaultNextStep, MockNextStep
<1>3. FindingsNote(findings) \in Text /\ WatchlistNote(findings) \in Text
  BY <1>1, ShortTexts DEF FindingsNote, WatchlistNote
<1>4. FirstDraftText \in Text
  <2>1. <<SummaryLabel, Word, Word>> \o <<LineBreak, NextStepLabel, Tbd>> \in Text
    BY <1>1, ShortTexts
  <2>2. FirstDraftText
        = <<SummaryLabel, Word, Word>> \o <<LineBreak, NextStepLabel, Tbd>>
    BY DEF FirstDraftText
  <2> QED BY <2>1, <2>2
<1>5. RevisedText(findings) \in Text
  <2>1. /\ <<SummaryLabel, Word, Account>> \in Text
        /\ <<"watch register", Passage, LineBreak>> \in Text
        /\ <<NextStepLabel>> \in Text
    BY <1>1, ShortTexts
  <2> QED BY <1>2, <1>3, <2>1, ShortTexts DEF RevisedText
<1> QED BY <1>2, <1>4, <1>5 DEF ReportWriter

------------------------------------------------------------------------------
\* What the words and the characters of a text add up to.

\* Induction over the naturals, for a set instead of a predicate: the library's
\* theorem takes an operator, which cannot be instantiated.
LEMMA NaturalsByInduction ==
  ASSUME NEW S, 0 \in S, \A n \in Nat : n \in S => n + 1 \in S
  PROVE  Nat \subseteq S
<1> DEFINE T == Nat \ S
<1> SUFFICES ASSUME T # {} PROVE FALSE
  OBVIOUS
<1>1. Min(T) \in T /\ \A y \in T : Min(T) <= y
  BY MinOfNaturals
<1>2. PICK x \in T : \A y \in T : x <= y
  BY <1>1
<1>3. x \in Nat /\ x # 0 /\ x - 1 \in Nat /\ x - 1 + 1 = x
  OBVIOUS
<1>4. x - 1 \in S
  BY <1>2, <1>3
<1> QED BY <1>3, <1>4

\* The recursion of Total, as far as n.
Weighing(f, s, weight, n) ==
  f = [i \in 0 .. n |-> IF i = 0 THEN 0 ELSE f[i - 1] + weight[s[i]]]

LEMMA WeighingStep ==
  ASSUME NEW f, NEW s, NEW weight, NEW n \in Nat, Weighing(f, s, weight, n)
  PROVE  f[0] = 0 /\ \A i \in 1 .. n : f[i] = f[i - 1] + weight[s[i]]
<1>1. f[0] = 0
  BY DEF Weighing
<1>2. ASSUME NEW i \in 1 .. n PROVE f[i] = f[i - 1] + weight[s[i]]
  <2>1. i \in 0 .. n /\ i # 0
    OBVIOUS
  <2>2. f[i] = IF i = 0 THEN 0 ELSE f[i - 1] + weight[s[i]]
    BY <2>1, Zenon DEF Weighing
  <2> QED BY <2>1, <2>2, Zenon
<1> QED BY <1>1, <1>2

\* It has a solution, so that the function Total defines satisfies its equation.
LEMMA WeighingExists ==
  ASSUME NEW s, NEW weight, NEW n \in Nat
  PROVE  \E f : Weighing(f, s, weight, n)
<1> DEFINE S == {k \in Nat : \E f : Weighing(f, s, weight, k)}
<1>1. 0 \in S
  <2> DEFINE f == [i \in 0 .. 0 |-> 0]
  <2>1. Weighing(f, s, weight, 0)
    BY DEF Weighing
  <2> QED BY <2>1
<1>2. ASSUME NEW k \in Nat, k \in S PROVE k + 1 \in S
  <2>1. PICK f : Weighing(f, s, weight, k)
    BY <1>2
  <2> DEFINE g == [i \in 0 .. k + 1 |->
                     IF i # k + 1 THEN f[i] ELSE f[k] + weight[s[i]]]
  <2>2. ASSUME NEW i \in 0 .. k + 1
        PROVE  g[i] = IF i = 0 THEN 0 ELSE g[i - 1] + weight[s[i]]
    <3>1. CASE i = k + 1
      <4>1. i # 0 /\ i - 1 = k /\ k # k + 1 /\ k \in 0 .. k + 1
        BY <3>1
      <4>2. g[k] = f[k]
        BY <4>1
      <4> QED BY <3>1, <4>1, <4>2
    <3>2. CASE i # k + 1
      <4>1. i \in 0 .. k /\ g[i] = f[i]
        BY <3>2
      <4>2. i # 0 => g[i - 1] = f[i - 1]
        BY <3>2
      <4>3. f[i] = IF i = 0 THEN 0 ELSE f[i - 1] + weight[s[i]]
        BY <2>1, <4>1, Zenon DEF Weighing
      <4> HIDE DEF g
      <4> QED BY <4>1, <4>2, <4>3
    <3> QED BY <3>1, <3>2
  <2>3. Weighing(g, s, weight, k + 1)
    BY <2>2 DEF Weighing
  <2> HIDE DEF g
  <2> QED BY <2>3
<1>3. n \in S
  <2> HIDE DEF S
  <2> QED BY <1>1, <1>2, NaturalsByInduction
<1> QED BY <1>3

LEMMA TotalIsSolution ==
  ASSUME NEW s, NEW weight, Len(s) \in Nat
  PROVE  \E f : /\ f[0] = 0
                /\ \A i \in 1 .. Len(s) : f[i] = f[i - 1] + weight[s[i]]
                /\ Total(s, weight) = f[Len(s)]
<1> DEFINE f == CHOOSE f : Weighing(f, s, weight, Len(s))
<1>1. Weighing(f, s, weight, Len(s))
  BY WeighingExists
<1>2. Total(s, weight) = f[Len(s)]
  BY DEF Total, Weighing
<1> HIDE DEF f
<1> QED BY <1>1, <1>2, WeighingStep

\* A text weighs what its two tokens weigh, or at least what any two of them do.
LEMMA TotalOfPair ==
  ASSUME NEW a \in Tokens, NEW b \in Tokens, NEW weight \in [Tokens -> Nat]
  PROVE  Total(<<a, b>>, weight) = weight[a] + weight[b]
<1> DEFINE s == <<a, b>>
<1>1. Len(s) = 2 /\ s[1] = a /\ s[2] = b
  OBVIOUS
<1> HIDE DEF s
<1>2. PICK f : /\ f[0] = 0
               /\ \A i \in 1 .. Len(s) : f[i] = f[i - 1] + weight[s[i]]
               /\ Total(s, weight) = f[Len(s)]
  BY <1>1, TotalIsSolution
<1>3. f[1] = f[1 - 1] + weight[s[1]] /\ f[2] = f[2 - 1] + weight[s[2]]
  BY <1>1, <1>2
<1>4. 1 - 1 = 0 /\ 2 - 1 = 1 /\ weight[a] \in Nat /\ weight[b] \in Nat
  OBVIOUS
<1>5. f[2] = weight[a] + weight[b]
  BY <1>1, <1>2, <1>3, <1>4
<1> QED BY <1>1, <1>2, <1>5 DEF s

LEMMA TotalIsAtLeast ==
  ASSUME NEW s \in Text, NEW weight \in [Tokens -> Nat],
         NEW i \in 1 .. Len(s), NEW j \in 1 .. Len(s), i < j
  PROVE  Total(s, weight) \in Nat /\ Total(s, weight) >= weight[s[i]] + weight[s[j]]
<1>1. Len(s) \in Nat /\ \A k \in 1 .. Len(s) : weight[s[k]] \in Nat
  BY DEF Text
<1>2. PICK f : /\ f[0] = 0
               /\ \A k \in 1 .. Len(s) : f[k] = f[k - 1] + weight[s[k]]
               /\ Total(s, weight) = f[Len(s)]
  BY <1>1, TotalIsSolution
<1> DEFINE S == {k \in Nat : k <= Len(s) =>
                   /\ f[k] \in Nat
                   /\ i <= k => f[k] >= weight[s[i]]
                   /\ j <= k => f[k] >= weight[s[i]] + weight[s[j]]}
<1>3. 0 \in S
  BY <1>2
<1>4. ASSUME NEW k \in Nat, k \in S PROVE k + 1 \in S
  <2> SUFFICES ASSUME k + 1 <= Len(s)
               PROVE  /\ f[k + 1] \in Nat
                      /\ i <= k + 1 => f[k + 1] >= weight[s[i]]
                      /\ j <= k + 1 => f[k + 1] >= weight[s[i]] + weight[s[j]]
    OBVIOUS
  <2>1. k + 1 \in 1 .. Len(s) /\ k + 1 - 1 = k /\ k <= Len(s)
    BY <1>1
  <2>2. f[k + 1] = f[k + 1 - 1] + weight[s[k + 1]]
    BY <1>2, <2>1
  <2>3. f[k + 1] = f[k] + weight[s[k + 1]] /\ weight[s[k + 1]] \in Nat
    BY <1>1, <2>1, <2>2
  <2>4. /\ f[k] \in Nat
        /\ i <= k => f[k] >= weight[s[i]]
        /\ j <= k => f[k] >= weight[s[i]] + weight[s[j]]
    BY <1>4, <2>1
  <2>5. weight[s[i]] \in Nat /\ weight[s[j]] \in Nat /\ i \in Nat /\ j \in Nat
    BY <1>1
  <2>6. CASE j <= k
    BY <2>3, <2>4, <2>5, <2>6
  <2>7. CASE ~(j <= k)
    <3>1. j <= k + 1 => j = k + 1 /\ i <= k
      BY <2>5, <2>7
    <3>2. i <= k + 1 => i <= k \/ i = k + 1
      BY <2>5
    <3> QED BY <2>3, <2>4, <2>5, <3>1, <3>2
  <2> QED BY <2>6, <2>7
<1>5. Len(s) \in S
  <2> HIDE DEF S
  <2> QED BY <1>1, <1>3, <1>4, NaturalsByInduction
<1> QED BY <1>1, <1>2, <1>5

------------------------------------------------------------------------------
\* What the parser makes of an answer.

\* The least and the greatest element of a set of integers.
LEMMA MinIs ==
  ASSUME NEW S \in SUBSET Int, NEW m \in S, \A y \in S : m <= y
  PROVE  Min(S) = m
<1>1. \A x \in S : (\A y \in S : x <= y) => x = m
  OBVIOUS
<1> QED BY <1>1 DEF Min

LEMMA MaxIs ==
  ASSUME NEW S \in SUBSET Int, NEW m \in S, \A y \in S : m >= y
  PROVE  Max(S) = m
<1>1. \A x \in S : (\A y \in S : x >= y) => x = m
  OBVIOUS
<1> QED BY <1>1 DEF Max

\* re.search finds the first place of a label, and finds every label there is.
LEMMA FindsTheFirst ==
  ASSUME NEW E, NEW raw \in Seq(E), NEW label
  PROVE  /\ label \in ToSet(raw) <=> Find(raw, label) # 0
         /\ Find(raw, label) # 0 => /\ Find(raw, label) \in 1 .. Len(raw)
                                    /\ raw[Find(raw, label)] = label
         /\ \A i \in 1 .. Len(raw) :
              raw[i] = label => Find(raw, label) # 0 /\ Find(raw, label) <= i
<1> DEFINE places == {i \in 1 .. Len(raw) : raw[i] = label}
<1>1. Len(raw) \in Nat /\ places \in SUBSET Nat /\ DOMAIN raw = 1 .. Len(raw)
  OBVIOUS
<1>2. label \in ToSet(raw) <=> places # {}
  BY <1>1 DEF ToSet
<1>3. Find(raw, label) = IF places # {} THEN Min(places) ELSE 0
  BY DEF Find, SelectInSeq
<1>4. places # {} => Min(places) \in places /\ \A i \in places : Min(places) <= i
  <2> HIDE DEF places
  <2> QED BY <1>1, MinOfNaturals
<1>5. \A i \in places : i \in 1 .. Len(raw) /\ i # 0 /\ raw[i] = label
  BY <1>1
<1>6. \A i \in 1 .. Len(raw) : raw[i] = label => i \in places
  OBVIOUS
<1> HIDE DEF places
<1>7. CASE places = {}
  BY <1>2, <1>3, <1>6, <1>7
<1>8. CASE places # {}
  <2>1. Find(raw, label) \in places /\ \A i \in places : Find(raw, label) <= i
    BY <1>3, <1>4, <1>8
  <2> QED BY <1>2, <1>5, <1>6, <1>8, <2>1
<1> QED BY <1>7, <1>8

\* Trimming keeps every token between two that it keeps, and all of the ink.
LEMMA TrimmedKeepsInk ==
  ASSUME NEW s \in Text, NEW from \in Nat \ {0}, NEW to \in 0 .. Len(s),
         NEW i \in from .. to, s[i] # LineBreak
  PROVE  s[i] \in ToSet(Trimmed(s, from, to))
<1> DEFINE ink == {k \in from .. to : s[k] # LineBreak}
<1>1. Len(s) \in Nat /\ i \in ink /\ ink \in SUBSET Nat /\ ink \in SUBSET (0 .. Len(s))
  BY DEF Text
<1>2. ink # {} /\ Trimmed(s, from, to) = SubSeq(s, Min(ink), Max(ink))
  BY <1>1 DEF Trimmed
<1>3. /\ Min(ink) \in ink /\ Max(ink) \in ink
      /\ Min(ink) <= i /\ i <= Max(ink)
  <2> HIDE DEF ink
  <2> QED BY <1>1, <1>2, MinOfNaturals, MaxOfNaturals
<1>4. /\ Min(ink) \in 1 .. Len(s) /\ Max(ink) \in 1 .. Len(s)
      /\ Min(ink) <= i /\ i <= Max(ink)
  BY <1>1, <1>3
<1> DEFINE a == Min(ink)
           b == Max(ink)
<1> HIDE DEF ink, a, b
<1>5. a \in 1 .. Len(s) /\ b \in 1 .. Len(s) /\ a <= i /\ i <= b
  BY <1>4 DEF a, b
<1>6. \A k \in a .. b : s[k] \in Tokens
  BY <1>1, <1>5 DEF Text
<1>7. /\ SubSeq(s, a, b) \in Seq(Tokens) /\ Len(SubSeq(s, a, b)) = b - a + 1
      /\ SubSeq(s, a, b)[i - a + 1] = s[a + (i - a + 1) - 1]
  BY <1>1, <1>5, <1>6, SubSeqProperties
<1>8. i - a + 1 \in 1 .. Len(SubSeq(s, a, b)) /\ a + (i - a + 1) - 1 = i
  BY <1>1, <1>5, <1>7
<1>9. i - a + 1 \in DOMAIN SubSeq(s, a, b) /\ SubSeq(s, a, b)[i - a + 1] = s[i]
  BY <1>7, <1>8
<1> QED BY <1>2, <1>9 DEF a, b, ToSet

\* Trimming does not look beyond the line breaks it trims.
LEMMA TrimmedToInk ==
  ASSUME NEW s, NEW from \in Nat, NEW to \in Int, NEW a \in Nat, NEW b \in Int,
         from <= a, b <= to,
         \A k \in from .. to : s[k] # LineBreak => a <= k /\ k <= b
  PROVE  Trimmed(s, from, to) = Trimmed(s, a, b)
<1>1. {k \in from .. to : s[k] # LineBreak} = {k \in a .. b : s[k] # LineBreak}
  OBVIOUS
<1> QED BY <1>1 DEF Trimmed

\* A stretch of a text with ink at both ends is left as it is.
LEMMA TrimmedNothing ==
  ASSUME NEW s, NEW from \in Nat, NEW to \in Nat, from <= to,
         s[from] # LineBreak, s[to] # LineBreak
  PROVE  Trimmed(s, from, to) = SubSeq(s, from, to)
<1> DEFINE ink == {k \in from .. to : s[k] # LineBreak}
<1>1. /\ ink \in SUBSET Int /\ from \in ink /\ to \in ink
      /\ \A k \in ink : from <= k /\ to >= k
  OBVIOUS
<1>2. Trimmed(s, from, to) = IF ink = {} THEN << >> ELSE SubSeq(s, Min(ink), Max(ink))
  BY DEF Trimmed
<1> HIDE DEF ink
<1>3. Min(ink) = from /\ Max(ink) = to
  BY <1>1, MinIs, MaxIs
<1> QED BY <1>1, <1>2, <1>3

\* Where the next-step section begins for the pattern of the summary: at a line
\* break, with nothing but line breaks before the label.
LEMMA SectionEnd ==
  ASSUME NEW raw \in Text, NEW e \in 1 .. Len(raw), NextStepLineAt(raw, e)
  PROVE  \E q \in (e + 1) .. Len(raw) :
           raw[q] = NextStepLabel /\ \A k \in e .. (q - 1) : raw[k] = LineBreak
BY DEF NextStepLineAt

\* The stretch of an answer that Summary trims.
SummaryInk(raw)  == {i \in (Find(raw, SummaryLabel) + 1) .. Len(raw) : raw[i] # LineBreak}
SummaryFrom(raw) == IF SummaryInk(raw) = {} THEN Len(raw) + 1 ELSE Min(SummaryInk(raw))
SummaryEnds(raw) == {i \in SummaryFrom(raw) .. Len(raw) : NextStepLineAt(raw, i)}
SummaryTo(raw)   == IF SummaryEnds(raw) = {} THEN Len(raw) ELSE Min(SummaryEnds(raw)) - 1

LEMMA SummaryIsTrimmed ==
  ASSUME NEW raw
  PROVE  Summary(raw) = Trimmed(raw, SummaryFrom(raw), SummaryTo(raw))
BY DEF Summary, SummaryInk, SummaryFrom, SummaryEnds, SummaryTo

LEMMA SummaryBounds ==
  ASSUME NEW raw \in Text
  PROVE  /\ SummaryFrom(raw) \in Nat \ {0} /\ SummaryTo(raw) \in 0 .. Len(raw)
         /\ \A i \in SummaryInk(raw) : /\ SummaryFrom(raw) \in SummaryInk(raw)
                                       /\ SummaryFrom(raw) <= i
         /\ \A i \in SummaryEnds(raw) : /\ SummaryTo(raw) + 1 \in SummaryEnds(raw)
                                        /\ SummaryTo(raw) + 1 <= i
         /\ SummaryEnds(raw) = {} => SummaryTo(raw) = Len(raw)
<1>1. Len(raw) \in Nat /\ Find(raw, SummaryLabel) \in 0 .. Len(raw)
  BY FindType DEF Text
<1>2. SummaryInk(raw) \in SUBSET Nat /\ \A i \in SummaryInk(raw) : i >= 1
  BY <1>1 DEF SummaryInk
<1>3. SummaryInk(raw) # {} => /\ Min(SummaryInk(raw)) \in SummaryInk(raw)
                              /\ \A i \in SummaryInk(raw) : Min(SummaryInk(raw)) <= i
  BY <1>2, MinOfNaturals
<1>4. SummaryFrom(raw) \in Nat \ {0}
  BY <1>1, <1>2, <1>3 DEF SummaryFrom
<1>5. /\ SummaryEnds(raw) \in SUBSET Nat
      /\ \A i \in SummaryEnds(raw) : 1 <= i /\ i <= Len(raw)
  BY <1>1, <1>4 DEF SummaryEnds
<1>6. SummaryEnds(raw) # {} => /\ Min(SummaryEnds(raw)) \in SummaryEnds(raw)
                               /\ \A i \in SummaryEnds(raw) : Min(SummaryEnds(raw)) <= i
  BY <1>5, MinOfNaturals
<1>7. SummaryTo(raw) \in 0 .. Len(raw)
  BY <1>1, <1>5, <1>6 DEF SummaryTo
<1>8. \A i \in SummaryInk(raw) : SummaryFrom(raw) \in SummaryInk(raw) /\ SummaryFrom(raw) <= i
  BY <1>3 DEF SummaryFrom
<1>9. \A i \in SummaryEnds(raw) :
        SummaryTo(raw) + 1 \in SummaryEnds(raw) /\ SummaryTo(raw) + 1 <= i
  <2> SUFFICES ASSUME NEW i \in SummaryEnds(raw)
               PROVE  SummaryTo(raw) + 1 \in SummaryEnds(raw) /\ SummaryTo(raw) + 1 <= i
    OBVIOUS
  <2>1. SummaryTo(raw) = Min(SummaryEnds(raw)) - 1 /\ Min(SummaryEnds(raw)) \in Nat
    BY <1>5, <1>6 DEF SummaryTo
  <2>2. SummaryTo(raw) + 1 = Min(SummaryEnds(raw))
    BY <2>1
  <2> QED BY <1>6, <2>2
<1> QED BY <1>4, <1>7, <1>8, <1>9 DEF SummaryTo

(***************************************************************************)
(* An answer that has the two labels once each, the second one on a line   *)
(* of its own after a section that is not blank, is split at it.           *)
(***************************************************************************)
LEMMA AnswerIsSplit ==
  ASSUME NEW raw \in Text, NEW fallback, NEW j \in 3 .. Len(raw),
         raw[1] = SummaryLabel, raw[j] = NextStepLabel, raw[j - 1] = LineBreak,
         \A i \in 1 .. Len(raw) : raw[i] \in {SummaryLabel, NextStepLabel} => i \in {1, j},
         NEW ink \in 2 .. j - 1, raw[ink] # LineBreak
  PROVE  /\ ParseWriterOutput(raw, fallback).summary = Trimmed(raw, 2, j - 1)
         /\ ParseWriterOutput(raw, fallback).recommended_next_step
              = Trimmed(raw, j + 1, Len(raw))
<1>1. Len(raw) \in Nat /\ j \in Nat /\ 1 \in 1 .. Len(raw) /\ j \in 1 .. Len(raw)
  BY DEF Text
<1>2. SummaryLabel # NextStepLabel /\ SummaryLabel # LineBreak /\ NextStepLabel # LineBreak
  BY DEF SummaryLabel, NextStepLabel, LineBreak
<1>3. \A i \in 1 .. Len(raw) : /\ raw[i] = SummaryLabel => i = 1
                               /\ raw[i] = NextStepLabel => i = j
  BY <1>1, <1>2
<1>4. Find(raw, SummaryLabel) = 1 /\ SummaryLabel \in ToSet(raw)
  BY <1>1, <1>3, FindsTheFirst DEF Text
<1>5. Find(raw, NextStepLabel) = j /\ NextStepLabel \in ToSet(raw)
  BY <1>1, <1>3, FindsTheFirst DEF Text
<1>6. NextStep(raw) = Trimmed(raw, j + 1, Len(raw))
  BY <1>5 DEF NextStep
<1> DEFINE from == SummaryFrom(raw)
           to   == SummaryTo(raw)
<1>7. /\ from \in 2 .. ink /\ raw[from] # LineBreak
      /\ \A k \in 2 .. from - 1 : raw[k] = LineBreak
  <2>1. SummaryInk(raw) = {i \in 2 .. Len(raw) : raw[i] # LineBreak}
    BY <1>4 DEF SummaryInk
  <2>2. ink \in SummaryInk(raw)
    BY <1>1, <2>1
  <2>3. from \in SummaryInk(raw) /\ \A i \in SummaryInk(raw) : from <= i
    BY <2>2, SummaryBounds
  <2> HIDE DEF from
  <2> QED BY <1>1, <2>1, <2>2, <2>3
<1>8. /\ to + 1 \in from .. j - 1 /\ to \in Nat
      /\ \A k \in to + 1 .. j - 1 : raw[k] = LineBreak
  <2>1. NextStepLineAt(raw, j - 1)
    BY <1>1 DEF NextStepLineAt
  <2>2. j - 1 \in SummaryEnds(raw)
    BY <1>1, <1>7, <2>1 DEF SummaryEnds
  <2>3. to + 1 \in SummaryEnds(raw) /\ to + 1 <= j - 1 /\ to \in 0 .. Len(raw)
    BY <2>2, SummaryBounds
  <2> HIDE DEF to
  <2>4. to + 1 \in from .. Len(raw) /\ NextStepLineAt(raw, to + 1)
    BY <2>3 DEF SummaryEnds
  <2> HIDE DEF from
  <2>5. to + 1 \in 1 .. Len(raw)
    BY <1>1, <1>7, <2>3, <2>4
  <2>6. PICK q \in (to + 1 + 1) .. Len(raw) :
          raw[q] = NextStepLabel /\ \A k \in to + 1 .. (q - 1) : raw[k] = LineBreak
    BY <2>4, <2>5, SectionEnd
  <2>7. q = j
    BY <1>1, <1>3, <2>5, <2>6
  <2> QED BY <1>1, <2>3, <2>4, <2>6, <2>7
<1>9. Trimmed(raw, 2, j - 1) = Trimmed(raw, from, to)
  <2> HIDE DEF from, to
  <2>1. from \in Nat /\ to \in Int /\ 2 <= from /\ to <= j - 1 /\ j - 1 \in Int
    BY <1>1, <1>7, <1>8
  <2>2. ASSUME NEW k \in 2 .. j - 1, raw[k] # LineBreak PROVE from <= k /\ k <= to
    <3>1. ~(k \in 2 .. from - 1) /\ ~(k \in to + 1 .. j - 1)
      BY <1>7, <1>8, <2>2
    <3> QED BY <1>1, <2>1, <3>1
  <2> QED BY <2>1, <2>2, TrimmedToInk
<1>10. Summary(raw) = Trimmed(raw, 2, j - 1)
  BY <1>9, SummaryIsTrimmed
<1> QED BY <1>4, <1>5, <1>6, <1>10 DEF ParseWriterOutput

\* str.strip() of a section is the section trimmed in place.
LEMMA StripOfSection ==
  ASSUME NEW raw \in Text, NEW a \in 1 .. Len(raw) + 1, NEW b \in 0 .. Len(raw), a <= b + 1
  PROVE  /\ Strip(SubSeq(raw, a, b)) = Trimmed(raw, a, b)
         /\ Strip(SubSeq(raw, a, b)) = << >>
              <=> \A k \in a .. b : raw[k] = LineBreak
<1> DEFINE s == SubSeq(raw, a, b)
           n == b - a + 1
<1>1. Len(raw) \in Nat /\ \A k \in a .. b : raw[k] \in Tokens
  BY DEF Text
<1>2. s \in Seq(Tokens) /\ Len(s) = n /\ \A i \in 1 .. n : s[i] = raw[a + i - 1]
  BY <1>1, SubSeqProperties
<1> HIDE DEF s
<1> DEFINE inkS == {i \in 1 .. n : s[i] # LineBreak}
           inkR == {k \in a .. b : raw[k] # LineBreak}
<1>3. Strip(s) = IF inkS = {} THEN << >> ELSE SubSeq(s, Min(inkS), Max(inkS))
  BY <1>2 DEF Strip, Trimmed
<1>4. Trimmed(raw, a, b) = IF inkR = {} THEN << >> ELSE SubSeq(raw, Min(inkR), Max(inkR))
  BY DEF Trimmed
<1>5. /\ \A i \in inkS : a + i - 1 \in inkR
      /\ \A k \in inkR : k - a + 1 \in inkS
  <2>1. \A i \in 1 .. n : a + i - 1 \in a .. b
    BY <1>1
  <2>2. ASSUME NEW k \in a .. b
        PROVE  k - a + 1 \in 1 .. n /\ s[k - a + 1] = raw[k]
    <3>1. k - a + 1 \in 1 .. n /\ a + (k - a + 1) - 1 = k
      BY <1>1
    <3> QED BY <1>2, <3>1
  <2> QED BY <1>2, <2>1, <2>2
<1>6. inkS = {} <=> inkR = {}
  BY <1>5
<1>7. CASE inkR # {}
  <2>1. /\ inkR \in SUBSET Nat /\ inkR \in SUBSET (0 .. Len(raw)) /\ inkS \in SUBSET Int
        /\ \A k \in inkR : a <= k /\ k <= b
    BY <1>1
  <2>2. Min(inkR) \in inkR /\ Max(inkR) \in inkR
        /\ \A k \in inkR : Min(inkR) <= k /\ Max(inkR) >= k
    <3> HIDE DEF inkR
    <3> QED BY <1>1, <1>7, <2>1, MinOfNaturals, MaxOfNaturals
  <2>3. PICK lo \in inkR, hi \in inkR :
          /\ lo = Min(inkR) /\ hi = Max(inkR)
          /\ \A k \in inkR : lo <= k /\ hi >= k
    BY <2>2
  <2>4. lo \in Nat /\ hi \in Nat /\ a <= lo /\ hi <= b /\ lo <= hi
    <3> HIDE DEF inkR
    <3> QED BY <2>1, <2>3
  <2>5. Min(inkS) = lo - a + 1 /\ Max(inkS) = hi - a + 1
    <3>1. lo - a + 1 \in inkS /\ hi - a + 1 \in inkS
      BY <1>5
    <3>2. ASSUME NEW i \in inkS PROVE lo - a + 1 <= i /\ hi - a + 1 >= i
      <4>1. lo <= a + i - 1 /\ hi >= a + i - 1 /\ i \in Int
        BY <1>5, <2>3, <2>1
      <4> HIDE DEF inkS
      <4> QED BY <1>1, <2>4, <4>1
    <3> HIDE DEF inkS
    <3> QED BY <2>1, <3>1, <3>2, MinIs, MaxIs
  <2>6. SubSeq(s, lo - a + 1, hi - a + 1) = SubSeq(raw, lo, hi)
    <3>1. \A i \in lo - a + 1 .. hi - a + 1 : s[i] \in Tokens
      BY <1>1, <1>2, <2>4
    <3>2. \A k \in lo .. hi : raw[k] \in Tokens
      BY <1>1, <2>4
    <3>3. /\ SubSeq(s, lo - a + 1, hi - a + 1) \in Seq(Tokens)
          /\ Len(SubSeq(s, lo - a + 1, hi - a + 1)) = hi - lo + 1
          /\ \A i \in 1 .. hi - lo + 1 :
               SubSeq(s, lo - a + 1, hi - a + 1)[i] = s[lo - a + 1 + i - 1]
      <4>1. /\ lo - a + 1 \in Int /\ hi - a + 1 \in Int /\ lo - a + 1 <= hi - a + 1
            /\ (hi - a + 1) - (lo - a + 1) + 1 = hi - lo + 1
        BY <1>1, <2>4
      <4>2. PICK p \in Int, q \in Int : p = lo - a + 1 /\ q = hi - a + 1
        BY <4>1
      <4>3. /\ SubSeq(s, p, q) \in Seq(Tokens)
            /\ Len(SubSeq(s, p, q)) = IF p <= q THEN q - p + 1 ELSE 0
            /\ \A i \in 1 .. q - p + 1 : SubSeq(s, p, q)[i] = s[p + i - 1]
        BY <3>1, <4>2, SubSeqProperties
      <4>4. p <= q /\ q - p + 1 = hi - lo + 1
        BY <4>1, <4>2
      <4> QED BY <4>2, <4>3, <4>4
    <3>4. /\ SubSeq(raw, lo, hi) \in Seq(Tokens)
          /\ Len(SubSeq(raw, lo, hi)) = hi - lo + 1
          /\ \A i \in 1 .. hi - lo + 1 : SubSeq(raw, lo, hi)[i] = raw[lo + i - 1]
      BY <2>4, <3>2, SubSeqProperties
    <3>5. ASSUME NEW i \in 1 .. hi - lo + 1
          PROVE  s[lo - a + 1 + i - 1] = raw[lo + i - 1]
      <4>1. /\ lo - a + 1 + i - 1 \in 1 .. n
            /\ a + (lo - a + 1 + i - 1) - 1 = lo + i - 1
        BY <1>1, <2>4
      <4> QED BY <1>2, <4>1
    <3>6. \A i \in 1 .. hi - lo + 1 :
            SubSeq(s, lo - a + 1, hi - a + 1)[i] = SubSeq(raw, lo, hi)[i]
      BY <3>3, <3>4, <3>5
    <3> QED BY <3>3, <3>4, <3>6, SeqEqual
  <2>7. Strip(s) # << >>
    <3>1. Len(SubSeq(raw, lo, hi)) = hi - lo + 1
      BY <1>1, <2>4, SubSeqProperties
    <3>2. SubSeq(raw, lo, hi) # << >>
      BY <2>4, <3>1
    <3> QED BY <1>3, <1>6, <1>7, <2>5, <2>6, <3>2
  <2> QED BY <1>3, <1>4, <1>6, <1>7, <2>3, <2>5, <2>6, <2>7 DEF s
<1>8. CASE inkR = {}
  BY <1>3, <1>4, <1>6, <1>8 DEF s
<1> QED BY <1>7, <1>8

------------------------------------------------------------------------------
\* What the checklist makes of the texts that the program itself words.

\* The weights of the tokens they are judged by.
LEMMA Weights ==
  /\ WordsOf \in [Tokens -> Nat] /\ CharsOf \in [Tokens -> Nat]
  /\ {Word, Account, Passage, "escalate", "close"} \subseteq Tokens
  /\ WordsOf[Word] = 1 /\ WordsOf[Account] = 1 /\ WordsOf[Passage] = 14
  /\ CharsOf[Passage] = 80
<1>1. {Word, Account, Passage, "escalate", "close"} \subseteq Tokens
  BY DEF Tokens
<1>2. WordsOf \in [Tokens -> Nat] /\ CharsOf \in [Tokens -> Nat]
  BY DEF WordsOf, CharsOf
<1>3. WordsOf[Word] = 1 /\ WordsOf[Account] = 1 /\ WordsOf[Passage] = 14
  BY <1>1 DEF WordsOf, Word, Account, Passage, LineBreak
<1>4. CharsOf[Passage] = 80
  BY <1>1 DEF CharsOf, Passage, LineBreak, NextStepLabel, SummaryLabel, PaddedTbd,
              Account, Tbd
<1> QED BY <1>1, <1>2, <1>3, <1>4

\* The tokens of two texts that are joined.
LEMMA Joined ==
  ASSUME NEW u \in Text, NEW v \in Text
  PROVE  /\ u \o v \in Text /\ Len(u) \in Nat /\ Len(v) \in Nat
         /\ Len(u \o v) = Len(u) + Len(v)
         /\ \A i \in 1 .. Len(u) : (u \o v)[i] = u[i]
         /\ \A i \in 1 .. Len(v) : (u \o v)[Len(u) + i] = v[i]
<1>1. /\ u \o v \in Seq(Tokens) /\ Len(u) \in Nat /\ Len(v) \in Nat
      /\ Len(u \o v) = Len(u) + Len(v)
      /\ \A i \in 1 .. Len(u) + Len(v) :
           (u \o v)[i] = IF i <= Len(u) THEN u[i] ELSE v[i - Len(u)]
  BY ConcatProperties DEF Text
<1>2. ASSUME NEW i \in 1 .. Len(v) PROVE (u \o v)[Len(u) + i] = v[i]
  <2>1. /\ Len(u) + i \in 1 .. Len(u) + Len(v) /\ ~(Len(u) + i <= Len(u))
        /\ Len(u) + i - Len(u) = i
    BY <1>1
  <2> QED BY <1>1, <2>1
<1>3. ASSUME NEW i \in 1 .. Len(u) PROVE (u \o v)[i] = u[i]
  <2>1. i \in 1 .. Len(u) + Len(v) /\ i <= Len(u)
    BY <1>1
  <2> QED BY <1>1, <2>1
<1> QED BY <1>1, <1>2, <1>3 DEF Text

\* A pair of tokens is what it is at its two places.
LEMMA PairIs ==
  ASSUME NEW s \in Text, Len(s) = 2
  PROVE  s = <<s[1], s[2]>>
<1>1. s[1] \in Tokens /\ s[2] \in Tokens
  BY DEF Text
<1> DEFINE t == <<s[1], s[2]>>
<1>2. t \in Seq(Tokens) /\ Len(t) = 2 /\ t[1] = s[1] /\ t[2] = s[2]
  BY <1>1
<1> HIDE DEF t
<1>3. \A i \in 1 .. Len(s) : s[i] = t[i]
  BY <1>2
<1>4. s = t
  BY <1>2, <1>3, SeqEqual DEF Text
<1> QED BY <1>4 DEF t

\* A passage of prose makes a next step long enough, and is no placeholder.
LEMMA GeneratedStepIsActionable ==
  ASSUME NEW t \in {"escalate", "close"}
  PROVE  NextStepActionable(<<t, Passage>>)
<1> DEFINE s == <<t, Passage>>
<1>1. t \in Tokens /\ Passage \in Tokens
  BY Weights
<1>2. s \in Text /\ Len(s) = 2 /\ s[1] = t /\ s[2] = Passage /\ s # << >>
  BY <1>1 DEF Text
<1>3. s \notin Placeholders
  <2>1. Len(<< >>) # 2 /\ Len(<<Tbd>>) # 2 /\ Len(<<PaddedTbd>>) # 2
    OBVIOUS
  <2> HIDE DEF s
  <2> QED BY <1>2, <2>1 DEF Placeholders
<1>4. Total(s, CharsOf) = CharsOf[t] + CharsOf[Passage]
  BY <1>1, Weights, TotalOfPair
<1> HIDE DEF s
<1>5. SubSeq(s, 1, 2) = s
  <2>1. \A i \in 1 .. 2 : s[i] \in Tokens
    BY <1>1, <1>2
  <2>2. /\ SubSeq(s, 1, 2) \in Seq(Tokens) /\ Len(SubSeq(s, 1, 2)) = 2
        /\ \A i \in 1 .. 2 : SubSeq(s, 1, 2)[i] = s[1 + i - 1]
    BY <2>1, SubSeqProperties
  <2>3. \A i \in 1 .. 2 : SubSeq(s, 1, 2)[i] = s[i]
    BY <2>2
  <2> QED BY <1>2, <2>2, <2>3, SeqEqual DEF Text
<1>6. Strip(s) = s
  <2>1. s[1] # LineBreak /\ s[2] # LineBreak
    BY <1>2 DEF LineBreak, Passage
  <2> QED BY <1>2, <1>5, <2>1, TrimmedNothing DEF Strip
<1>7. CharCount(s) >= 15
  <2>1. CharsOf[t] \in Nat /\ CharsOf[Passage] = 80
    BY <1>1, Weights
  <2> QED BY <1>2, <1>4, <2>1 DEF CharCount
<1> QED BY <1>3, <1>6, <1>7 DEF NextStepActionable, MinNextStepChars, s

LEMMA GeneratedSteps ==
  ASSUME NEW findings \in Findings
  PROVE  /\ MockNextStep(findings) = DefaultNextStep(findings)
         /\ NextStepActionable(DefaultNextStep(findings))
         /\ "escalate" \in ToSet(DefaultNextStep(findings))
              <=> findings.structuring_suspected \/ findings.any_hits
<1>1. MockNextStep(findings) = DefaultNextStep(findings)
  BY DEF MockNextStep, DefaultNextStep
<1>2. NextStepActionable(DefaultNextStep(findings))
  BY GeneratedStepIsActionable DEF DefaultNextStep
<1>3. ASSUME NEW t PROVE ToSet(<<t, Passage>>) = {t, Passage}
  <2> DEFINE s == <<t, Passage>>
  <2>1. DOMAIN s = 1 .. 2 /\ s[1] = t /\ s[2] = Passage
    OBVIOUS
  <2> HIDE DEF s
  <2>2. ToSet(s) = {s[1], s[2]}
    BY <2>1 DEF ToSet
  <2> QED BY <2>1, <2>2 DEF s
<1>4. "escalate" # "close" /\ "escalate" # Passage
  BY DEF Passage
<1>5. CASE findings.structuring_suspected \/ findings.any_hits
  <2>1. DefaultNextStep(findings) = <<"escalate", Passage>>
    BY <1>5 DEF DefaultNextStep
  <2> QED BY <1>1, <1>2, <1>3, <1>5, <2>1
<1>6. CASE ~(findings.structuring_suspected \/ findings.any_hits)
  <2>1. DefaultNextStep(findings) = <<"close", Passage>>
    BY <1>6 DEF DefaultNextStep
  <2> QED BY <1>1, <1>2, <1>3, <1>4, <1>6, <2>1
<1> QED BY <1>5, <1>6

\* The offline model's first draft is too short to pass, whatever the findings.
LEMMA FirstDraftIsTooShort ==
  ASSUME NEW fallback
  PROVE  WordCount(ParseWriterOutput(FirstDraftText, fallback).summary) = 2
<1> DEFINE raw == FirstDraftText
<1>1. raw \in Text
  <2>1. ReportWriter(FALSE, [structuring_suspected |-> FALSE, velocity_flag |-> FALSE,
                             any_hits |-> FALSE]) \in Text
    BY GeneratedTexts DEF Findings
  <2> QED BY <2>1 DEF ReportWriter
<1>2. /\ Len(raw) = 6 /\ raw[1] = SummaryLabel /\ raw[2] = Word /\ raw[3] = Word
      /\ raw[4] = LineBreak /\ raw[5] = NextStepLabel /\ raw[6] = Tbd
  BY DEF FirstDraftText
<1>3. Word # LineBreak /\ {Word, Tbd, LineBreak} \cap {SummaryLabel, NextStepLabel} = {}
  BY DEF Word, LineBreak, Tbd, SummaryLabel, NextStepLabel
<1> HIDE DEF raw
<1>4. \A i \in 1 .. Len(raw) : raw[i] \in {SummaryLabel, NextStepLabel} => i \in {1, 5}
  <2> SUFFICES ASSUME NEW i \in 1 .. 6, i \notin {1, 5}
               PROVE  raw[i] \notin {SummaryLabel, NextStepLabel}
    BY <1>2
  <2>1. i \in {2, 3, 4, 6}
    OBVIOUS
  <2>2. raw[i] \in {Word, Tbd, LineBreak}
    BY <1>2, <2>1
  <2> QED BY <1>3, <2>2
<1>5. ParseWriterOutput(raw, fallback).summary = Trimmed(raw, 2, 4)
  <2>1. 5 \in 3 .. Len(raw) /\ raw[5 - 1] = LineBreak /\ 2 \in 2 .. 5 - 1 /\ 5 - 1 = 4
    BY <1>2
  <2> QED BY <1>1, <1>2, <1>3, <1>4, <2>1, AnswerIsSplit
<1>6. Trimmed(raw, 2, 4) = Trimmed(raw, 2, 3)
  <2>1. \A k \in 2 .. 4 : raw[k] # LineBreak => 2 <= k /\ k <= 3
    BY <1>2
  <2> QED BY <2>1, TrimmedToInk
<1>7. Trimmed(raw, 2, 3) = SubSeq(raw, 2, 3)
  <2>1. raw[2] # LineBreak /\ raw[3] # LineBreak
    BY <1>2, <1>3
  <2>2. 2 \in Nat /\ 3 \in Nat /\ 2 <= 3
    OBVIOUS
  <2> QED BY <2>1, <2>2, TrimmedNothing, Zenon
<1>8. SubSeq(raw, 2, 3) = <<Word, Word>>
  <2>1. \A i \in 2 .. 3 : raw[i] \in Tokens
    BY <1>1, <1>2 DEF Text
  <2>2. /\ SubSeq(raw, 2, 3) \in Seq(Tokens) /\ Len(SubSeq(raw, 2, 3)) = 2
        /\ \A i \in 1 .. 2 : SubSeq(raw, 2, 3)[i] = raw[2 + i - 1]
    BY <2>1, SubSeqProperties
  <2>3. SubSeq(raw, 2, 3)[1] = Word /\ SubSeq(raw, 2, 3)[2] = Word
    BY <1>2, <2>2
  <2> QED BY <2>2, <2>3, PairIs DEF Text
<1>9. WordCount(<<Word, Word>>) = 2
  BY Weights, TotalOfPair DEF WordCount
<1>10. ParseWriterOutput(raw, fallback).summary = <<Word, Word>>
  BY <1>5, <1>6, <1>7, <1>8
<1>11. WordCount(ParseWriterOutput(raw, fallback).summary) = 2
  BY <1>9, <1>10
<1> QED BY <1>11 DEF raw

\* The places of the offline model's revision: m tokens up to its notes, then the
\* reference to the register, the passage and the next-step section.
LEMMA RevisionShape ==
  ASSUME NEW findings \in Findings
  PROVE  \E m \in Nat :
           LET raw == RevisedText(findings)
           IN  /\ raw \in Text /\ m >= 5 /\ Len(raw) = m + 6
               /\ raw[1] = SummaryLabel /\ raw[3] = Account
               /\ \E k \in 2 .. m : raw[k] \in PatternKeywords
               /\ raw[m + 1] \in WatchlistKeywords /\ raw[m + 2] = Passage
               /\ raw[m + 3] = LineBreak /\ raw[m + 4] = NextStepLabel
               /\ raw[m + 5] = MockNextStep(findings)[1]
               /\ raw[m + 6] = MockNextStep(findings)[2]
               /\ \A i \in 2 .. m + 2 :
                    raw[i] \notin {LineBreak, SummaryLabel, NextStepLabel}
<1> DEFINE Marks == {LineBreak, SummaryLabel, NextStepLabel}
           a  == <<SummaryLabel, Word, Account>>
           b  == FindingsNote(findings)
           c  == WatchlistNote(findings)
           d  == <<"watch register", Passage, LineBreak>>
           e  == <<NextStepLabel>>
           f  == MockNextStep(findings)
           u1 == a \o b
           u2 == u1 \o c
           u3 == u2 \o d
           u4 == u3 \o e
           raw == u4 \o f
<1>1. RevisedText(findings) = raw
  BY DEF RevisedText
<1>2. ({"structuring", "pattern", "no", "watchlist", "watch register", Word, Account,
        Passage, "escalate", "close"} \cup WatchlistKeywords) \cap Marks = {}
  BY DEF Word, Account, Passage, LineBreak, SummaryLabel, NextStepLabel, WatchlistKeywords
<1>3. a \in Text /\ Len(a) = 3 /\ a[1] = SummaryLabel /\ a[2] = Word /\ a[3] = Account
  BY DEF Text, Tokens
<1>4. /\ b \in Text /\ Len(b) \in {2, 3} /\ b[Len(b)] \in PatternKeywords
      /\ \A i \in 1 .. Len(b) : b[i] \notin Marks
  <2>0. "pattern" \in PatternKeywords
    BY DEF PatternKeywords
  <2>1. b = <<"structuring", "pattern">> \/ b = <<"no", "structuring", "pattern">>
    BY DEF FindingsNote
  <2>2. {"structuring", "pattern", "no"} \subseteq Tokens
    BY DEF Tokens, PatternKeywords
  <2> HIDE DEF b, Marks
  <2>3. CASE b = <<"structuring", "pattern">>
    <3>1. Len(b) = 2 /\ b[1] = "structuring" /\ b[2] = "pattern"
      BY <2>3
    <3>2. b \in Text
      BY <2>2, <2>3, ShortTexts
    <3>3. \A i \in 1 .. 2 : i = 1 \/ i = 2
      OBVIOUS
    <3> QED BY <1>2, <2>0, <3>1, <3>2, <3>3
  <2>4. CASE b = <<"no", "structuring", "pattern">>
    <3>1. Len(b) = 3 /\ b[1] = "no" /\ b[2] = "structuring" /\ b[3] = "pattern"
      BY <2>4
    <3>2. b \in Text
      BY <2>2, <2>4, ShortTexts
    <3>3. \A i \in 1 .. 3 : i = 1 \/ i = 2 \/ i = 3
      OBVIOUS
    <3> QED BY <1>2, <2>0, <3>1, <3>2, <3>3
  <2> QED BY <2>1, <2>3, <2>4
<1>5. c \in Text /\ Len(c) \in {1, 2} /\ \A i \in 1 .. Len(c) : c[i] \notin Marks
  <2>1. c = <<"watchlist">> \/ c = <<"no", "watchlist">>
    BY DEF WatchlistNote
  <2>2. {"watchlist", "no"} \subseteq Tokens
    BY DEF Tokens, WatchlistKeywords
  <2> HIDE DEF c, Marks
  <2>3. CASE c = <<"watchlist">>
    <3>1. Len(c) = 1 /\ c[1] = "watchlist" /\ c \in Text
      BY <2>2, <2>3, ShortTexts
    <3>2. \A i \in 1 .. 1 : i = 1
      OBVIOUS
    <3> QED BY <1>2, <3>1, <3>2
  <2>4. CASE c = <<"no", "watchlist">>
    <3>1. Len(c) = 2 /\ c[1] = "no" /\ c[2] = "watchlist" /\ c \in Text
      BY <2>2, <2>4, ShortTexts
    <3>2. \A i \in 1 .. 2 : i = 1 \/ i = 2
      OBVIOUS
    <3> QED BY <1>2, <3>1, <3>2
  <2> QED BY <2>1, <2>3, <2>4
<1>6. /\ d \in Text /\ Len(d) = 3
      /\ d[1] \in WatchlistKeywords /\ d[2] = Passage /\ d[3] = LineBreak
  BY DEF Text, Tokens, WatchlistKeywords
<1>7. e \in Text /\ Len(e) = 1 /\ e[1] = NextStepLabel
  BY DEF Text, Tokens
<1>8. f \in Text /\ Len(f) = 2
  <2>1. f = <<"escalate", Passage>> \/ f = <<"close", Passage>>
    BY DEF MockNextStep
  <2>2. {"escalate", "close", Passage} \subseteq Tokens
    BY DEF Tokens
  <2> QED BY <2>1, <2>2, ShortTexts
<1> HIDE DEF a, b, c, d, e, f
<1>9. /\ u1 \in Text /\ Len(u1) = 3 + Len(b)
      /\ \A i \in 1 .. 3 : u1[i] = a[i]
      /\ \A i \in 1 .. Len(b) : u1[3 + i] = b[i]
  <2>1. /\ u1 \in Text /\ Len(u1) = Len(a) + Len(b)
        /\ \A i \in 1 .. Len(a) : u1[i] = a[i]
        /\ \A i \in 1 .. Len(b) : u1[Len(a) + i] = b[i]
    BY <1>3, <1>4, Joined
  <2> HIDE DEF u1
  <2> QED BY <1>3, <2>1
<1> HIDE DEF u1
<1>10. /\ u2 \in Text /\ Len(u2) = Len(u1) + Len(c)
       /\ \A i \in 1 .. Len(u1) : u2[i] = u1[i]
       /\ \A i \in 1 .. Len(c) : u2[Len(u1) + i] = c[i]
  BY <1>5, <1>9, Joined
<1> HIDE DEF u2
<1> DEFINE m == Len(u2)
<1>11. m \in Nat /\ m >= 6 /\ Len(u1) \in {5, 6} /\ m - Len(u1) = Len(c)
  <2>1. Len(u2) = Len(u1) + Len(c) /\ Len(u1) = 3 + Len(b)
    BY <1>9, <1>10
  <2>2. Len(b) \in {2, 3} /\ Len(c) \in {1, 2}
    BY <1>4, <1>5
  <2>3. PICK n \in {2, 3}, k \in {1, 2} : n = Len(b) /\ k = Len(c)
    BY <2>2
  <2>4. Len(u1) = 3 + n /\ m = 3 + n + k
    BY <2>1, <2>3
  <2>5. m \in Nat /\ m >= 6
    BY <2>4
  <2>6. Len(u1) \in {5, 6}
    BY <2>4
  <2>7. m - Len(u1) = k
    BY <2>4
  <2> QED BY <2>3, <2>5, <2>6, <2>7
<1>12. ASSUME NEW i \in 2 .. m PROVE u2[i] \notin Marks
  <2>1. CASE i <= 3
    <3>1. u2[i] = a[i] /\ (i = 2 \/ i = 3)
      BY <1>9, <1>10, <1>11, <2>1
    <3> QED BY <1>2, <1>3, <3>1
  <2>2. CASE 3 < i /\ i <= Len(u1)
    <3>1. i - 3 \in 1 .. Len(b) /\ 3 + (i - 3) = i /\ i \in 1 .. Len(u1)
      BY <1>4, <1>9, <2>2
    <3>2. u2[i] = b[i - 3]
      BY <1>9, <1>10, <3>1
    <3> QED BY <1>4, <3>1, <3>2
  <2>3. CASE Len(u1) < i
    <3>1. i - Len(u1) \in 1 .. Len(c) /\ Len(u1) + (i - Len(u1)) = i
      BY <1>5, <1>11, <2>3
    <3>2. u2[i] = c[i - Len(u1)]
      BY <1>10, <3>1
    <3> QED BY <1>5, <3>1, <3>2
  <2> QED BY <1>11, <2>1, <2>2, <2>3
<1>13. u2[1] = SummaryLabel /\ u2[3] = Account /\ \E k \in 2 .. m : u2[k] \in PatternKeywords
  <2>1. Len(u1) = 3 + Len(b) /\ Len(b) \in 1 .. Len(b) /\ Len(u1) \in 2 .. m
    <3>1. Len(b) \in {2, 3}
      BY <1>4
    <3>2. Len(u1) = 3 + Len(b)
      BY <1>9
    <3>3. Len(c) \in {1, 2}
      BY <1>5
    <3> QED BY <1>11, <3>1, <3>2, <3>3
  <2>2. u2[Len(u1)] \in PatternKeywords
    BY <1>4, <1>9, <1>10, <2>1
  <2> QED BY <1>3, <1>9, <1>10, <1>11, <2>1, <2>2
<1>14. /\ u3 \in Text /\ Len(u3) = m + 3
       /\ \A i \in 1 .. m : u3[i] = u2[i]
       /\ \A i \in 1 .. 3 : u3[m + i] = d[i]
  <2>1. /\ u3 \in Text /\ Len(u3) = m + Len(d)
        /\ \A i \in 1 .. m : u3[i] = u2[i]
        /\ \A i \in 1 .. Len(d) : u3[m + i] = d[i]
    BY <1>6, <1>10, Joined
  <2> HIDE DEF u3, m
  <2> QED BY <1>6, <2>1
<1> HIDE DEF u3
<1>15. /\ u4 \in Text /\ Len(u4) = m + 3 + 1
       /\ \A i \in 1 .. m + 3 : u4[i] = u3[i]
       /\ \A i \in 1 .. 1 : u4[m + 3 + i] = e[i]
  <2>1. /\ u4 \in Text /\ Len(u4) = Len(u3) + Len(e)
        /\ \A i \in 1 .. Len(u3) : u4[i] = u3[i]
        /\ \A i \in 1 .. Len(e) : u4[Len(u3) + i] = e[i]
    BY <1>7, <1>14, Joined
  <2> HIDE DEF u4, m
  <2> QED BY <1>7, <1>14, <2>1
<1> HIDE DEF u4
<1>16. /\ raw \in Text /\ Len(raw) = m + 6
       /\ \A i \in 1 .. m + 4 : raw[i] = u4[i]
       /\ \A i \in 1 .. 2 : raw[m + 4 + i] = f[i]
  <2>1. Len(u4) = m + 4
    BY <1>11, <1>15
  <2>2. /\ raw \in Text /\ Len(raw) = Len(u4) + Len(f)
        /\ \A i \in 1 .. Len(u4) : raw[i] = u4[i]
        /\ \A i \in 1 .. Len(f) : raw[Len(u4) + i] = f[i]
    BY <1>8, <1>15, Joined
  <2> QED BY <1>8, <1>11, <2>1, <2>2
<1> HIDE DEF raw, m
<1>17. \A i \in 1 .. m : raw[i] = u2[i]
  BY <1>11, <1>14, <1>15, <1>16
<1>18. /\ raw[m + 1] \in WatchlistKeywords /\ raw[m + 2] = Passage
       /\ raw[m + 3] = LineBreak
  <2>1. raw[m + 1] = d[1] /\ raw[m + 2] = d[2] /\ raw[m + 3] = d[3]
    BY <1>11, <1>14, <1>15, <1>16
  <2> QED BY <1>6, <2>1
<1>19. raw[m + 4] = NextStepLabel /\ raw[m + 5] = f[1] /\ raw[m + 6] = f[2]
  <2>1. raw[m + 4] = e[1]
    BY <1>11, <1>15, <1>16
  <2>2. raw[m + 4 + 1] = f[1] /\ raw[m + 4 + 2] = f[2] /\ m + 4 + 1 = m + 5 /\ m + 4 + 2 = m + 6
    BY <1>11, <1>16
  <2> QED BY <1>7, <2>1, <2>2
<1>20. ASSUME NEW i \in 2 .. m + 2 PROVE raw[i] \notin Marks
  <2>1. CASE i \in 2 .. m
    BY <1>11, <1>12, <1>17, <2>1
  <2>2. CASE i = m + 1 \/ i = m + 2
    BY <1>2, <1>18, <2>2
  <2> QED BY <1>11, <2>1, <2>2
<1>21. raw[1] = SummaryLabel /\ raw[3] = Account /\ \E k \in 2 .. m : raw[k] \in PatternKeywords
  BY <1>11, <1>13, <1>17
<1>22. /\ raw \in Text /\ m >= 5 /\ Len(raw) = m + 6
       /\ raw[m + 5] = MockNextStep(findings)[1]
       /\ raw[m + 6] = MockNextStep(findings)[2]
  BY <1>11, <1>16, <1>19 DEF f
<1> HIDE DEF Marks
<1>23. /\ RevisedText(findings) = raw /\ m \in Nat
       /\ \A i \in 2 .. m + 2 : raw[i] \notin Marks
  BY <1>1, <1>11, <1>20
<1> QED BY <1>18, <1>19, <1>21, <1>22, <1>23, Zenon DEF Marks

\* The offline model's revision passes every item of the checklist, whatever the
\* findings, and its next step is the one the program words.
LEMMA RevisionPasses ==
  ASSUME NEW findings \in Findings, NEW fallback, NEW d,
         d.summary = ParseWriterOutput(RevisedText(findings), fallback).summary,
         d.recommended_next_step
           = ParseWriterOutput(RevisedText(findings), fallback).recommended_next_step
  PROVE  /\ AllPassed(EvaluateChecklist(d, findings))
         /\ d.recommended_next_step = DefaultNextStep(findings)
<1> DEFINE raw == RevisedText(findings)
<1>1. PICK m \in Nat :
        /\ raw \in Text /\ m >= 5 /\ Len(raw) = m + 6
        /\ raw[1] = SummaryLabel /\ raw[3] = Account
        /\ \E k \in 2 .. m : raw[k] \in PatternKeywords
        /\ raw[m + 1] \in WatchlistKeywords /\ raw[m + 2] = Passage
        /\ raw[m + 3] = LineBreak /\ raw[m + 4] = NextStepLabel
        /\ raw[m + 5] = MockNextStep(findings)[1]
        /\ raw[m + 6] = MockNextStep(findings)[2]
        /\ \A i \in 2 .. m + 2 : raw[i] \notin {LineBreak, SummaryLabel, NextStepLabel}
  BY RevisionShape
<1> HIDE DEF raw
<1>2. PICK t \in {"escalate", "close"} : MockNextStep(findings) = <<t, Passage>>
  BY DEF MockNextStep
<1>3. raw[m + 5] = t /\ raw[m + 6] = Passage
  BY <1>1, <1>2
<1>4. {"escalate", "close", Passage, LineBreak} \cap {SummaryLabel, NextStepLabel} = {}
      /\ LineBreak \notin {"escalate", "close", Passage}
  BY DEF Passage, LineBreak, SummaryLabel, NextStepLabel
<1>5. ASSUME NEW i \in 1 .. Len(raw), raw[i] \in {SummaryLabel, NextStepLabel}
      PROVE  i \in {1, m + 4}
  <2>1. ~(i \in 2 .. m + 2)
    BY <1>1, <1>5
  <2>2. i # m + 3 /\ i # m + 5 /\ i # m + 6
    BY <1>1, <1>3, <1>4, <1>5
  <2> QED BY <1>1, <2>1, <2>2
<1>6. raw[3] # LineBreak /\ raw[2] # LineBreak /\ raw[m + 2] # LineBreak
  <2>1. 2 \in 2 .. m + 2 /\ 3 \in 2 .. m + 2 /\ m + 2 \in 2 .. m + 2
    BY <1>1
  <2> QED BY <1>1, <2>1
<1>7. /\ ParseWriterOutput(raw, fallback).summary = Trimmed(raw, 2, m + 3)
      /\ ParseWriterOutput(raw, fallback).recommended_next_step
           = Trimmed(raw, m + 5, m + 6)
  <2>1. PICK j \in Int : j = m + 4
    BY <1>1
  <2>2. /\ j \in 3 .. Len(raw) /\ 3 \in 2 .. j - 1 /\ raw[j] = NextStepLabel
        /\ raw[j - 1] = LineBreak
        /\ \A i \in 1 .. Len(raw) : raw[i] \in {SummaryLabel, NextStepLabel} => i \in {1, j}
    <3>1. j - 1 = m + 3
      BY <2>1
    <3> QED BY <1>1, <1>5, <2>1, <3>1
  <2>3. /\ ParseWriterOutput(raw, fallback).summary = Trimmed(raw, 2, j - 1)
        /\ ParseWriterOutput(raw, fallback).recommended_next_step
             = Trimmed(raw, j + 1, Len(raw))
    BY <1>1, <1>6, <2>2, AnswerIsSplit
  <2>4. j - 1 = m + 3 /\ j + 1 = m + 5
    BY <2>1
  <2> QED BY <1>1, <2>3, <2>4
<1> DEFINE summary == SubSeq(raw, 2, m + 2)
<1>8. Trimmed(raw, 2, m + 3) = summary
  <2>1. PICK to \in Int, b \in Int : to = m + 3 /\ b = m + 2
    BY <1>1
  <2>2. ASSUME NEW k \in 2 .. to, raw[k] # LineBreak PROVE 2 <= k /\ k <= b
    BY <1>1, <2>1, <2>2
  <2>3. 2 \in Nat /\ 2 <= 2 /\ b <= to /\ b \in Nat /\ 2 <= b /\ raw[b] # LineBreak
    BY <1>1, <1>6, <2>1
  <2>4. Trimmed(raw, 2, to) = Trimmed(raw, 2, b)
    <3>1. {k \in 2 .. to : raw[k] # LineBreak} = {k \in 2 .. b : raw[k] # LineBreak}
      <4>1. ASSUME NEW k \in Int PROVE k \in 2 .. to /\ raw[k] # LineBreak <=>
                                       k \in 2 .. b /\ raw[k] # LineBreak
        BY <2>2, <2>3
      <4> QED BY <4>1
    <3> QED BY <3>1, Zenon DEF Trimmed
  <2>5. Trimmed(raw, 2, b) = SubSeq(raw, 2, b)
    BY <1>6, <2>3, TrimmedNothing
  <2> QED BY <2>1, <2>4, <2>5
<1>9. d.summary = summary
  BY <1>7, <1>8 DEF raw
<1>10. /\ summary \in Text /\ Len(summary) = m + 1
       /\ \A i \in 1 .. m + 1 : summary[i] = raw[i + 1]
  <2>1. PICK n \in Int : n = m + 2
    BY <1>1
  <2>2. \A i \in 2 .. n : raw[i] \in Tokens
    BY <1>1, <2>1 DEF Text
  <2>3. /\ SubSeq(raw, 2, n) \in Seq(Tokens)
        /\ Len(SubSeq(raw, 2, n)) = IF 2 <= n THEN n - 2 + 1 ELSE 0
        /\ \A i \in 1 .. n - 2 + 1 : SubSeq(raw, 2, n)[i] = raw[2 + i - 1]
    BY <2>2, SubSeqProperties
  <2>4. n - 2 + 1 = m + 1 /\ 2 <= n /\ \A i \in 1 .. m + 1 : 2 + i - 1 = i + 1
    BY <1>1, <2>1
  <2> QED BY <2>1, <2>3, <2>4 DEF Text
<1> HIDE DEF summary
<1>11. DOMAIN summary = 1 .. m + 1
  BY <1>10 DEF Text
<1>12. ASSUME NEW k \in 2 .. m + 2 PROVE raw[k] \in ToSet(summary)
  <2>1. k - 1 \in 1 .. m + 1 /\ k - 1 + 1 = k
    BY <1>1
  <2> QED BY <1>10, <1>11, <2>1 DEF ToSet
<1>13. WordCount(summary) >= 15
  <2>1. summary[2] = Account /\ summary[m + 1] = Passage
    BY <1>1, <1>10
  <2>2. 2 \in 1 .. Len(summary) /\ m + 1 \in 1 .. Len(summary) /\ 2 < m + 1
    BY <1>1, <1>10
  <2>3. Total(summary, WordsOf) >= WordsOf[summary[2]] + WordsOf[summary[m + 1]]
    BY <1>10, <2>2, Weights, TotalIsAtLeast
  <2>4. Total(summary, WordsOf) >= 1 + 14
    BY <2>1, <2>3, Weights
  <2>5. Total(summary, WordsOf) \in Nat
    BY <1>10, <2>2, Weights, TotalIsAtLeast
  <2> QED BY <2>4, <2>5 DEF WordCount
<1>14. /\ Account \in ToSet(summary) /\ ToSet(summary) \cap PatternKeywords # {}
       /\ ToSet(summary) \cap WatchlistKeywords # {}
  <2>1. PICK k \in 2 .. m : raw[k] \in PatternKeywords
    BY <1>1
  <2>2. 3 \in 2 .. m + 2 /\ k \in 2 .. m + 2 /\ m + 1 \in 2 .. m + 2
    BY <1>1
  <2> QED BY <1>1, <1>12, <2>1, <2>2
<1>15. Trimmed(raw, m + 5, m + 6) = <<t, Passage>>
  <2>1. PICK a \in Nat, b \in Nat : a = m + 5 /\ b = m + 6
    OBVIOUS
  <2>2. /\ a <= b /\ raw[a] # LineBreak /\ raw[b] # LineBreak
        /\ b - a + 1 = 2 /\ a + 1 - 1 = a /\ a + 2 - 1 = b
    BY <1>3, <1>4, <2>1
  <2>3. Trimmed(raw, a, b) = SubSeq(raw, a, b)
    BY <2>2, TrimmedNothing
  <2>4. \A i \in a .. b : raw[i] \in Tokens
    BY <1>1, <2>1 DEF Text
  <2>5. /\ SubSeq(raw, a, b) \in Seq(Tokens)
        /\ Len(SubSeq(raw, a, b)) = IF a <= b THEN b - a + 1 ELSE 0
        /\ \A i \in 1 .. b - a + 1 : SubSeq(raw, a, b)[i] = raw[a + i - 1]
    BY <2>4, SubSeqProperties
  <2>6. /\ SubSeq(raw, a, b)[1] = raw[a] /\ SubSeq(raw, a, b)[2] = raw[b]
        /\ Len(SubSeq(raw, a, b)) = 2
    BY <2>2, <2>5
  <2> QED BY <1>3, <2>1, <2>3, <2>5, <2>6, PairIs DEF Text
<1>16. d.recommended_next_step = DefaultNextStep(findings)
  <2>1. d.recommended_next_step = <<t, Passage>>
    BY <1>7, <1>15 DEF raw
  <2> QED BY <1>2, <2>1, GeneratedSteps
<1>17. NextStepActionable(d.recommended_next_step)
  BY <1>16, GeneratedSteps
<1>18. ASSUME NEW item \in ChecklistItems PROVE EvaluateChecklist(d, findings)[item]
  <2>1. Mentions(d.summary, {Account})
    BY <1>9, <1>14 DEF Mentions
  <2>2. PatternDisclosed(d.summary, findings)
    BY <1>9, <1>14 DEF Mentions, PatternDisclosed
  <2>3. WatchlistDisclosed(d.summary, findings)
    BY <1>9, <1>14 DEF Mentions, WatchlistDisclosed
  <2>4. WordCount(d.summary) >= MinSummaryWords
    BY <1>9, <1>13 DEF MinSummaryWords
  <2> QED BY <1>17, <2>1, <2>2, <2>3, <2>4 DEF EvaluateChecklist, ChecklistItems
<1> QED BY <1>16, <1>18 DEF AllPassed

\* A draft whose summary is too short does not pass.
LEMMA ShortDraftFails ==
  ASSUME NEW findings \in Findings, NEW d, ~(WordCount(d.summary) >= MinSummaryWords)
  PROVE  ~AllPassed(EvaluateChecklist(d, findings))
<1>1. "summary_substantive" \in ChecklistItems
  BY DEF ChecklistItems
<1>2. ~EvaluateChecklist(d, findings)["summary_substantive"]
  BY <1>1 DEF EvaluateChecklist
<1> QED BY <1>1, <1>2 DEF AllPassed
==============================================================================

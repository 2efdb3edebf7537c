-------------------------- MODULE InvestigationProofs --------------------------
(***************************************************************************)
(* Runs of Investigation keep the contract of the critique loop and leave  *)
(* their whole history in the shared log, proved for any number of runs    *)
(* and of cases, any cap and any number of tool calls.                     *)
(***************************************************************************)
EXTENDS Investigation, FiniteSetTheorems, WellFoundedInduction, TLAPS

(***************************************************************************)
(* The inductive invariant, for each run: where its stage puts it in the   *)
(* critique loop.                                                          *)
(***************************************************************************)
Final == {"passed", "escalated"}

LoopAgrees(r) ==
  /\ verdict[r] \in Final <=> stage[r] \in {"assembling", "returned"}
  /\ stage[r] \in {"new", "analysing", "screening", "explaining", "drafting"} =>
       reviewed[r] = 0
  /\ stage[r] = "reviewing" => reviewed[r] + 1 = iteration[r]
  /\ stage[r] = "revising" => reviewed[r] = iteration[r] /\ iteration[r] < Cap

IInv == TypeOK /\ \A r \in Runs : LoopAgrees(r)

\* The values of a run.
LEMMA ValuesOfRun ==
  ASSUME TypeOK, NEW r \in Runs
  PROVE  /\ target[r] \in Cases /\ target[r] \in CaseIds
         /\ iteration[r] \in 0 .. Cap /\ iteration[r] \in Nat
         /\ reviewed[r] \in Nat /\ reviewed[r] <= Cap /\ iteration[r] <= Cap
         /\ verdict[r] \in Verdicts /\ called \in 0 .. MaxToolCalls /\ log \in Seq(Entries)
         /\ Cap \in Nat \ {0} /\ MaxToolCalls \in Nat
BY CapAssumption, ToolCallsAssumption DEF TypeOK, CaseIds

LEMMA InitIInv == Init => IInv
<1> SUFFICES ASSUME Init PROVE IInv
  OBVIOUS
<1>1. TypeOK
  <2>1. 0 \in 0 .. Cap /\ 0 \in 0 .. MaxToolCalls
    BY CapAssumption, ToolCallsAssumption
  <2>2. log \in Seq(Entries)
    BY DEF Init
  <2> QED BY <2>1, <2>2 DEF Init, TypeOK, Stages, Verdicts
<1>2. ASSUME NEW r \in Runs PROVE LoopAgrees(r)
  BY DEF Init, LoopAgrees, Final
<1> QED BY <1>1, <1>2 DEF IInv

LEMMA RecordKeepsTypes ==
  ASSUME log \in Seq(Entries), NEW r \in Runs, NEW c \in CaseIds, NEW what \in Actions,
         NEW i \in Nat, NEW result \in Verdicts
  PROVE  Append(log, Entry(r, c, what, i, result)) \in Seq(Entries)
<1>1. Entry(r, c, what, i, result) \in Entries
  BY DEF Entry, Entries
<1> QED BY <1>1

\* A step of a run keeps the types of Investigation.
LEMMA RunKeepsTypes ==
  ASSUME TypeOK, NEW r \in Runs, stage[r] = "revising" => iteration[r] < Cap, Run(r)
  PROVE  TypeOK'
<1>0. TypeOK
  OBVIOUS
<1>a. /\ target[r] \in CaseIds /\ iteration[r] \in 0 .. Cap /\ iteration[r] \in Nat
      /\ verdict[r] \in Verdicts /\ called \in 0 .. MaxToolCalls /\ log \in Seq(Entries)
      /\ Cap \in Nat /\ MaxToolCalls \in Nat
  BY <1>0, ValuesOfRun
<1>b. "none" \in Verdicts /\ {"failed", "passed", "escalated"} \subseteq Verdicts
  BY DEF Verdicts
<1>1. CASE Start(r)
  <2>1. log' \in Seq(Entries)
    BY <1>1, <1>a, <1>b, RecordKeepsTypes DEF Start, Record, Actions
  <2> QED BY <1>0, <1>1, <2>1 DEF TypeOK, Start, GoTo, Stages, loop
<1>2. CASE AnalysePatterns(r)
  <2>1. log' \in Seq(Entries)
    BY <1>2, <1>a, <1>b, RecordKeepsTypes DEF AnalysePatterns, Record, Actions
  <2> QED BY <1>0, <1>2, <2>1 DEF TypeOK, AnalysePatterns, GoTo, Stages, loop
<1>3. CASE ScreenNames(r)
  <2>1. log' \in Seq(Entries)
    BY <1>3, <1>a, <1>b, RecordKeepsTypes DEF ScreenNames, Record, Actions
  <2> QED BY <1>0, <1>3, <2>1 DEF TypeOK, ScreenNames, GoTo, Stages, loop
<1>4. CASE CallTool(r)
  <2>1. PICK c \in CaseIds, what \in ToolActions : log' = Append(log, Entry(r, c, what, 0, "none"))
    BY <1>4 DEF CallTool
  <2>2. what \in Actions
    BY DEF ToolActions, Actions
  <2>3. log' \in Seq(Entries)
    BY <1>a, <1>b, <2>1, <2>2, RecordKeepsTypes
  <2>4. called' \in 0 .. MaxToolCalls
    BY <1>4, <1>a DEF CallTool
  <2> QED BY <1>0, <1>4, <2>3, <2>4 DEF TypeOK, CallTool, loop
<1>5. CASE CompleteFacts(r)
  <2>1. log' \in Seq(Entries)
    BY <1>5, <1>a, <1>b, RecordKeepsTypes DEF CompleteFacts, Record, Actions
  <2> QED BY <1>0, <1>5, <2>1 DEF TypeOK, CompleteFacts, GoTo, Stages, loop
<1>6. CASE FirstDraft(r)
  <2>1. 1 \in 0 .. Cap
    BY CapAssumption
  <2> QED BY <1>0, <1>6, <2>1 DEF TypeOK, FirstDraft, GoTo, Stages
<1>7. CASE Review(r)
  <2>1. PICK passed \in BOOLEAN :
          /\ verdict' = [verdict EXCEPT ![r] = VerdictOf(passed, iteration[r])]
          /\ Record(r, "checklist_evaluated", iteration[r], verdict'[r])
          /\ GoTo(r, IF verdict'[r] = "failed" THEN "revising" ELSE "assembling")
    BY <1>7 DEF Review
  <2>2. VerdictOf(passed, iteration[r]) \in Verdicts
    BY <1>b DEF VerdictOf
  <2>3. verdict' \in [Runs -> Verdicts] /\ verdict'[r] \in Verdicts
    BY <1>0, <2>1, <2>2 DEF TypeOK
  <2>4. log' \in Seq(Entries)
    BY <1>a, <2>1, <2>3, RecordKeepsTypes DEF Record, Actions
  <2>5. stage' \in [Runs -> Stages]
    BY <1>0, <2>1 DEF TypeOK, GoTo, Stages
  <2> QED BY <1>0, <1>7, <1>a, <2>3, <2>4, <2>5 DEF TypeOK, Review
<1>8. CASE Revise(r)
  <2>1. iteration[r] + 1 \in 0 .. Cap /\ iteration[r] + 1 \in Nat
    BY <1>8, <1>a DEF Revise
  <2>2. log' \in Seq(Entries)
    BY <1>8, <1>a, <1>b, <2>1, RecordKeepsTypes DEF Revise, Record, Actions
  <2> QED BY <1>0, <1>8, <2>1, <2>2 DEF TypeOK, Revise, GoTo, Stages
<1>9. CASE Complete(r)
  <2>1. log' \in Seq(Entries)
    BY <1>9, <1>a, <1>b, RecordKeepsTypes DEF Complete, Record, Actions
  <2> QED BY <1>0, <1>9, <2>1 DEF TypeOK, Complete, GoTo, Stages, loop
<1>10. CASE AgentRaises(r)
  BY <1>0, <1>10 DEF TypeOK, AgentRaises, GoTo, Stages, loop
<1> QED BY <1>1, <1>2, <1>3, <1>4, <1>5, <1>6, <1>7, <1>8, <1>9, <1>10 DEF Run

------------------------------------------------------------------------------
\* What a step does to the critique loop of its run and of the others.

LEMMA OtherRunsStay ==
  ASSUME TypeOK, NEW r \in Runs, Run(r), NEW q \in Runs, q # r
  PROVE  /\ stage'[q] = stage[q] /\ iteration'[q] = iteration[q]
         /\ reviewed'[q] = reviewed[q] /\ verdict'[q] = verdict[q]
BY DEF Run, Start, AnalysePatterns, ScreenNames, CallTool, CompleteFacts, FirstDraft,
       Review, Revise, Complete, AgentRaises, GoTo, loop, TypeOK

\* The steps outside the loop.
LEMMA FactsAndReport ==
  ASSUME TypeOK, NEW r \in Runs,
         \/ Start(r) \/ AnalysePatterns(r) \/ ScreenNames(r) \/ CallTool(r)
         \/ CompleteFacts(r) \/ Complete(r)
  PROVE  /\ iteration' = iteration /\ reviewed' = reviewed /\ verdict' = verdict
         /\ \/ /\ stage[r] \in {"new", "analysing", "screening", "explaining"}
               /\ stage'[r] \in {"analysing", "screening", "explaining", "drafting"}
            \/ stage[r] = "assembling" /\ stage'[r] = "returned"
<1>1. iteration' = iteration /\ reviewed' = reviewed /\ verdict' = verdict
  BY DEF Start, AnalysePatterns, ScreenNames, CallTool, CompleteFacts, Complete, loop
<1>2. ASSUME NEW next, GoTo(r, next) PROVE stage'[r] = next
  BY <1>2 DEF GoTo, TypeOK
<1>3. \/ stage[r] = "new" /\ GoTo(r, "analysing")
      \/ stage[r] = "analysing" /\ GoTo(r, "screening")
      \/ stage[r] = "screening" /\ GoTo(r, "explaining")
      \/ stage[r] = "explaining" /\ stage' = stage
      \/ stage[r] = "explaining" /\ GoTo(r, "drafting")
      \/ stage[r] = "assembling" /\ GoTo(r, "returned")
  BY DEF Start, AnalysePatterns, ScreenNames, CallTool, CompleteFacts, Complete
<1> QED BY <1>1, <1>2, <1>3

\* The verdict of a review and where the run goes with it.
LEMMA ReviewDecides ==
  ASSUME TypeOK, NEW r \in Runs, Review(r)
  PROVE  /\ stage[r] = "reviewing"
         /\ iteration'[r] = iteration[r] /\ reviewed'[r] = iteration[r]
         /\ \/ verdict'[r] = "passed" /\ stage'[r] = "assembling"
            \/ verdict'[r] = "escalated" /\ stage'[r] = "assembling" /\ iteration[r] >= Cap
            \/ verdict'[r] = "failed" /\ stage'[r] = "revising" /\ ~(iteration[r] >= Cap)
<1>1. stage[r] = "reviewing" /\ iteration'[r] = iteration[r] /\ reviewed'[r] = iteration[r]
  BY DEF Review, TypeOK
<1>2. PICK passed \in BOOLEAN :
        /\ verdict' = [verdict EXCEPT ![r] = VerdictOf(passed, iteration[r])]
        /\ GoTo(r, IF verdict'[r] = "failed" THEN "revising" ELSE "assembling")
  BY DEF Review
<1>3. verdict'[r] = VerdictOf(passed, iteration[r])
  BY <1>2 DEF TypeOK
<1>4. stage'[r] = IF verdict'[r] = "failed" THEN "revising" ELSE "assembling"
  BY <1>2 DEF GoTo, TypeOK
<1>5. \/ verdict'[r] = "passed"
      \/ verdict'[r] = "escalated" /\ iteration[r] >= Cap
      \/ verdict'[r] = "failed" /\ ~(iteration[r] >= Cap)
  BY <1>3 DEF VerdictOf
<1> QED BY <1>1, <1>4, <1>5

LEMMA StepKeepsLoop ==
  ASSUME TypeOK, NEW r \in Runs, LoopAgrees(r), Run(r)
  PROVE  LoopAgrees(r)'
<1>0. /\ iteration[r] \in Nat /\ reviewed[r] \in Nat /\ iteration[r] <= Cap
      /\ verdict[r] \in Verdicts /\ Cap \in Nat \ {0}
  BY ValuesOfRun
<1>1. CASE \/ Start(r) \/ AnalysePatterns(r) \/ ScreenNames(r) \/ CallTool(r)
           \/ CompleteFacts(r) \/ Complete(r)
  BY <1>1, FactsAndReport DEF LoopAgrees
<1>2. CASE FirstDraft(r)
  <2>1. /\ stage[r] = "drafting" /\ stage'[r] = "reviewing"
        /\ iteration'[r] = 1 /\ reviewed'[r] = reviewed[r] /\ verdict'[r] = verdict[r]
    BY <1>2 DEF FirstDraft, GoTo, TypeOK
  <2> QED BY <1>0, <2>1 DEF LoopAgrees
<1>3. CASE Review(r)
  BY <1>0, <1>3, ReviewDecides DEF LoopAgrees, Final
<1>4. CASE Revise(r)
  <2>1. /\ stage[r] = "revising" /\ stage'[r] = "reviewing"
        /\ iteration'[r] = iteration[r] + 1 /\ reviewed'[r] = reviewed[r]
        /\ verdict'[r] = verdict[r]
    BY <1>4 DEF Revise, GoTo, TypeOK
  <2> QED BY <1>0, <2>1 DEF LoopAgrees
<1>5. CASE AgentRaises(r)
  <2>1. /\ stage[r] \in {"explaining", "drafting", "reviewing", "revising"}
        /\ stage'[r] = "raised" /\ verdict'[r] = verdict[r]
    BY <1>5 DEF AgentRaises, GoTo, TypeOK, loop
  <2> QED BY <2>1 DEF LoopAgrees
<1> QED BY <1>1, <1>2, <1>3, <1>4, <1>5 DEF Run

LEMMA StepKeepsIInv == IInv /\ [Next]_vars => IInv'
<1> SUFFICES ASSUME IInv, [Next]_vars PROVE IInv'
  OBVIOUS
<1>1. ASSUME NEW r \in Runs, Run(r) PROVE IInv'
  <2>1. TypeOK /\ LoopAgrees(r)
    BY DEF IInv
  <2>2. TypeOK'
    BY <1>1, <2>1, RunKeepsTypes DEF LoopAgrees
  <2>3. LoopAgrees(r)'
    BY <1>1, <2>1, StepKeepsLoop
  <2>4. ASSUME NEW q \in Runs, q # r PROVE LoopAgrees(q)'
    BY <1>1, <2>1, <2>4, OtherRunsStay DEF IInv, LoopAgrees
  <2> QED BY <2>2, <2>3, <2>4 DEF IInv
<1>2. CASE UNCHANGED vars
  BY <1>2 DEF IInv, TypeOK, LoopAgrees, vars
<1> QED BY <1>1, <1>2 DEF Next

LEMMA Invariance == Spec => []IInv
BY InitIInv, StepKeepsIInv, PTL DEF Spec

(***************************************************************************)
(* The state of the runs and of the log keeps its types; in particular no  *)
(* iteration exceeds the cap (crew_definition.py).                         *)
(***************************************************************************)
THEOREM TypeCorrect == Spec => []TypeOK
<1>1. IInv => TypeOK
  BY DEF IInv
<1> QED BY Invariance, <1>1, PTL

------------------------------------------------------------------------------
\* The contract of the critique loop.

Outcome(r) ==
  IF verdict[r] \in {"passed", "escalated"} THEN verdict[r]
  ELSE IF stage[r] = "raised" THEN "raised" ELSE "pending"

LEMMA StepKeepsContract ==
  ASSUME TypeOK, NEW r \in Runs, LoopAgrees(r), Run(r)
  PROVE  Contract(r)!Next \/ UNCHANGED Contract(r)!vars
<1>0. /\ iteration[r] \in Nat /\ reviewed[r] \in Nat /\ iteration[r] <= Cap
      /\ verdict[r] \in Verdicts /\ Cap \in Nat \ {0}
  BY ValuesOfRun
<1>1. CASE \/ Start(r) \/ AnalysePatterns(r) \/ ScreenNames(r) \/ CallTool(r)
           \/ CompleteFacts(r) \/ Complete(r)
  <2>1. reviewed'[r] = reviewed[r] /\ Outcome(r)' = Outcome(r)
    BY <1>1, FactsAndReport DEF Outcome
  <2> QED BY <2>1 DEF Contract!vars, Outcome
<1>2. CASE FirstDraft(r) \/ Revise(r)
  <2>1. reviewed'[r] = reviewed[r] /\ Outcome(r)' = Outcome(r)
    BY <1>2 DEF Outcome, FirstDraft, Revise, GoTo, TypeOK
  <2> QED BY <2>1 DEF Contract!vars, Outcome
<1>3. CASE Review(r)
  <2>1. Outcome(r) = "pending" /\ reviewed[r] + 1 = iteration[r]
    BY <1>3, ReviewDecides DEF Outcome, LoopAgrees, Final
  <2>2. reviewed'[r] = reviewed[r] + 1
    BY <1>3, <2>1, ReviewDecides
  <2>3. \/ Outcome(r)' = "passed"
        \/ Outcome(r)' = "escalated" /\ reviewed[r] + 1 = Cap
        \/ Outcome(r)' = "pending" /\ reviewed[r] + 1 < Cap
    BY <1>0, <1>3, <2>1, ReviewDecides DEF Outcome
  <2> QED BY <1>0, <2>1, <2>2, <2>3
             DEF Outcome, Contract!Next, Contract!Pass, Contract!AskForRevision, Contract!Escalate
<1>4. CASE AgentRaises(r)
  <2>1. /\ Outcome(r) = "pending" /\ Outcome(r)' = "raised"
        /\ reviewed'[r] = reviewed[r]
    BY <1>4 DEF Outcome, LoopAgrees, Final, AgentRaises, GoTo, TypeOK, loop
  <2> QED BY <2>1 DEF Outcome, Contract!Next, Contract!Raise
<1> QED BY <1>1, <1>2, <1>3, <1>4 DEF Run

LEMMA ContractStep ==
  IInv /\ [Next]_vars => [\A r \in Runs : Contract(r)!Next \/ UNCHANGED Contract(r)!vars]_vars
<1> SUFFICES ASSUME IInv, NEW q \in Runs, Run(q), NEW r \in Runs
             PROVE  Contract(r)!Next \/ UNCHANGED Contract(r)!vars
  BY DEF Next
<1>1. TypeOK /\ LoopAgrees(r)
  BY DEF IInv
<1>2. CASE q = r
  BY <1>1, <1>2, StepKeepsContract
<1>3. CASE q # r
  <2>1. /\ stage'[r] = stage[r] /\ reviewed'[r] = reviewed[r] /\ verdict'[r] = verdict[r]
    BY <1>1, <1>3, OtherRunsStay
  <2> QED BY <2>1 DEF Contract!vars
<1> QED BY <1>2, <1>3

(***************************************************************************)
(* The critique stage of every run implements ReviewContract, as           *)
(* CritiqueLoop does, whatever runs interleave and agents raise            *)
(* (critique_loop.py:87-160).                                              *)
(***************************************************************************)
THEOREM ContractIsKept == Spec => LoopsKeepTheContract
<1>1. Init => \A r \in Runs : Contract(r)!Init
  BY CapAssumption DEF Init, Contract!Init
<1> QED BY Invariance, ContractStep, <1>1, PTL DEF Spec, LoopsKeepTheContract

------------------------------------------------------------------------------
\* Induction over the naturals, for a set instead of a predicate: the library's
\* theorem takes an operator, which cannot be instantiated.
LEMMA NaturalsByInduction ==
  ASSUME NEW S, 0 \in S, \A n \in Nat : n \in S => n + 1 \in S
  PROVE  Nat \subseteq S
<1> DEFINE R == OpToRel(<, Nat)
           T == Nat \ S
<1> SUFFICES ASSUME T # {} PROVE FALSE
  OBVIOUS
<1>1. PICK x \in T : \A y \in T : <<y, x>> \notin R
  <2>1. IsWellFoundedOn(R, Nat)
    BY NatLessThanWellFounded
  <2> HIDE DEF R
  <2> QED BY <2>1, WFMin
<1>2. x \in Nat /\ x # 0 /\ x - 1 \in Nat /\ x - 1 + 1 = x
  OBVIOUS
<1>3. <<x - 1, x>> \in R
  BY <1>2 DEF OpToRel
<1>4. x - 1 \in S
  BY <1>1, <1>2, <1>3
<1> QED BY <1>2, <1>4

\* The recursion of Picked, as far as n.
Picking(f, s, P, n) ==
  f = [k \in 0 .. n |-> IF k = 0 THEN << >>
                        ELSE IF k \in P THEN Append(f[k - 1], s[k]) ELSE f[k - 1]]

LEMMA PickingStep ==
  ASSUME NEW f, NEW s, NEW P, NEW n \in Nat, Picking(f, s, P, n), NEW k \in 1 .. n
  PROVE  f[k] = IF k \in P THEN Append(f[k - 1], s[k]) ELSE f[k - 1]
<1>1. k \in 0 .. n /\ k # 0
  OBVIOUS
<1>2. f[k] = IF k = 0 THEN << >>
             ELSE IF k \in P THEN Append(f[k - 1], s[k]) ELSE f[k - 1]
  BY <1>1, Zenon DEF Picking
<1> QED BY <1>1, <1>2, Zenon

\* It has a solution, so that the function Picked defines satisfies its equation.
LEMMA PickingExists ==
  ASSUME NEW s, NEW P, NEW n \in Nat
  PROVE  \E f : Picking(f, s, P, n)
<1> DEFINE S == {k \in Nat : \E f : Picking(f, s, P, k)}
<1>1. 0 \in S
  <2> DEFINE f == [k \in 0 .. 0 |-> << >>]
  <2>1. Picking(f, s, P, 0)
    BY DEF Picking
  <2> QED BY <2>1
<1>2. ASSUME NEW k \in Nat, k \in S PROVE k + 1 \in S
  <2>1. PICK f : Picking(f, s, P, k)
    BY <1>2
  <2> DEFINE g == [i \in 0 .. k + 1 |->
                     IF i # k + 1 THEN f[i]
                     ELSE IF i \in P THEN Append(f[k], s[i]) ELSE f[k]]
  <2>2. ASSUME NEW i \in 0 .. k + 1
        PROVE  g[i] = IF i = 0 THEN << >>
                      ELSE IF i \in P THEN Append(g[i - 1], s[i]) ELSE g[i - 1]
    <3>1. CASE i = k + 1
      <4>1. i # 0 /\ i - 1 = k /\ k # k + 1 /\ k \in 0 .. k + 1
        BY <3>1
      <4>2. g[k] = f[k]
        BY <4>1
      <4> QED BY <3>1, <4>1, <4>2
    <3>2. CASE i # k + 1
      <4>1. i \in 0 .. k /\ g[i] = f[i]
        BY <3>2
      <4>2. i # 0 => g[i - 1] = f[i - 1]
        BY <3>2
      <4>3. f[i] = IF i = 0 THEN << >>
                   ELSE IF i \in P THEN Append(f[i - 1], s[i]) ELSE f[i - 1]
        BY <2>1, <4>1 DEF Picking
      <4> HIDE DEF g
      <4> QED BY <4>1, <4>2, <4>3
    <3> QED BY <3>1, <3>2
  <2>3. Picking(g, s, P, k + 1)
    BY <2>2 DEF Picking
  <2> HIDE DEF g
  <2> QED BY <2>3
<1>3. n \in S
  <2> HIDE DEF S
  <2> QED BY <1>1, <1>2, NaturalsByInduction
<1> QED BY <1>3

LEMMA PickedIsSolution ==
  ASSUME NEW s, NEW P, Len(s) \in Nat
  PROVE  \E f : Picking(f, s, P, Len(s)) /\ Picked(s, P) = f[Len(s)]
<1> DEFINE f == CHOOSE f : Picking(f, s, P, Len(s))
<1>1. Picking(f, s, P, Len(s))
  BY PickingExists
<1>2. Picked(s, P) = f[Len(s)]
  BY DEF Picked, Picking
<1> HIDE DEF f
<1> QED BY <1>1, <1>2

\* Solutions for sequences and sets that agree up to n are equal up to n.
LEMMA PickingsAgree ==
  ASSUME NEW s, NEW P, NEW t, NEW Q, NEW m \in Nat, NEW n \in Nat, m <= n,
         \A k \in 1 .. m : t[k] = s[k] /\ (k \in Q <=> k \in P),
         NEW f, Picking(f, s, P, m), NEW g, Picking(g, t, Q, n)
  PROVE  f[m] = g[m]
<1> DEFINE S == {k \in Nat : k <= m => f[k] = g[k]}
<1>1. 0 \in S
  BY DEF Picking
<1>2. ASSUME NEW k \in Nat, k \in S PROVE k + 1 \in S
  <2> SUFFICES ASSUME k + 1 <= m PROVE f[k + 1] = g[k + 1]
    OBVIOUS
  <2>1. /\ k + 1 \in 1 .. m /\ k + 1 \in 1 .. n /\ k + 1 - 1 = k /\ k <= m
    OBVIOUS
  <2>2. f[k + 1] = IF k + 1 \in P THEN Append(f[k + 1 - 1], s[k + 1]) ELSE f[k + 1 - 1]
    BY <2>1, PickingStep
  <2>3. g[k + 1] = IF k + 1 \in Q THEN Append(g[k + 1 - 1], t[k + 1]) ELSE g[k + 1 - 1]
    BY <2>1, PickingStep
  <2>4. f[k] = g[k]
    BY <1>2, <2>1
  <2> QED BY <2>1, <2>2, <2>3, <2>4
<1>3. m \in S
  <2> HIDE DEF S
  <2> QED BY <1>1, <1>2, NaturalsByInduction
<1> QED BY <1>3

\* What Picked returns of no entries, and once an entry has been appended.
LEMMA PickedOfNone ==
  ASSUME NEW P
  PROVE  Picked(<< >>, P) = << >>
<1>1. Len(<< >>) = 0
  OBVIOUS
<1>2. PICK f : Picking(f, << >>, P, 0) /\ Picked(<< >>, P) = f[0]
  BY <1>1, PickedIsSolution
<1> QED BY <1>2 DEF Picking

LEMMA PickedAfterAppend ==
  ASSUME NEW E, NEW s \in Seq(E), NEW e \in E, NEW P, NEW Q,
         \A k \in 1 .. Len(s) : k \in Q <=> k \in P
  PROVE  Picked(Append(s, e), Q)
         = IF Len(s) + 1 \in Q THEN Append(Picked(s, P), e) ELSE Picked(s, P)
<1> DEFINE t == Append(s, e)
           n == Len(s)
<1>1. /\ n \in Nat /\ Len(t) = n + 1 /\ t[n + 1] = e
      /\ \A k \in 1 .. n : t[k] = s[k]
  OBVIOUS
<1> HIDE DEF t, n
<1>2. PICK f : Picking(f, s, P, n) /\ Picked(s, P) = f[n]
  BY <1>1, PickedIsSolution DEF n
<1>3. PICK g : Picking(g, t, Q, n + 1) /\ Picked(t, Q) = g[n + 1]
  BY <1>1, PickedIsSolution
<1>4. g[n] = f[n]
  BY <1>1, <1>2, <1>3, PickingsAgree DEF n
<1>5. ASSUME NEW m \in Nat, m = n + 1
      PROVE  g[m] = IF m \in Q THEN Append(g[n], t[m]) ELSE g[n]
  <2>1. Picking(g, t, Q, m) /\ m \in 1 .. m /\ m - 1 = n
    BY <1>1, <1>3, <1>5
  <2>2. g[m] = IF m \in Q THEN Append(g[m - 1], t[m]) ELSE g[m - 1]
    BY <2>1, PickingStep
  <2> QED BY <2>1, <2>2
<1>6. n + 1 \in Nat /\ g[n + 1] = IF n + 1 \in Q THEN Append(g[n], t[n + 1]) ELSE g[n]
  BY <1>1, <1>5
<1> QED BY <1>1, <1>2, <1>3, <1>4, <1>6 DEF t, n

------------------------------------------------------------------------------
\* The histories of runs.

(***************************************************************************)
(* What the history h of a run is at each stage, with the iteration and    *)
(* the verdict it has reached.  The reviews before the last one held have  *)
(* failed, so that the loop went on.                                       *)
(***************************************************************************)
FactsUpTo(h, n) ==
  /\ n >= Len(Facts)
  /\ \A k \in 1 .. Len(Facts) : h[k].action = Facts[k]
  /\ \A k \in Len(Facts) + 1 .. n : h[k].action \in ToolActions

Says(h, k, what, i, result) ==
  h[k].action = what /\ h[k].iteration = i /\ h[k].result = result

LoopUpTo(h, start, reviews, drafts, last) ==
  /\ FactsUpTo(h, start - 1)
  /\ h[start].action = "fact_gathering_complete"
  /\ \A i \in 1 .. reviews :
       Says(h, start + 2 * i - 1, "checklist_evaluated", i,
            IF i = reviews THEN last ELSE "failed")
  /\ \A i \in 2 .. drafts : Says(h, start + 2 * i - 2, "draft_revised", i, "none")

HistoryAgrees(h, at, i, last) ==
  LET n == Len(h)
  IN  /\ at = "new" => n = 0
      /\ at = "analysing" => n = 1 /\ h[1].action = Facts[1]
      /\ at = "screening" => n = 2 /\ h[1].action = Facts[1] /\ h[2].action = Facts[2]
      /\ at = "explaining" => FactsUpTo(h, n)
      /\ at = "drafting" => LoopUpTo(h, n, 0, 1, "failed")
      /\ at = "reviewing" => LoopUpTo(h, n + 2 - 2 * i, i - 1, i, "failed")
      /\ at = "revising" => last = "failed"
      /\ at \in {"revising", "assembling"} => LoopUpTo(h, n + 1 - 2 * i, i, i, last)
      /\ at = "returned" =>
           /\ LoopUpTo(h, n - 2 * i, i, i, last)
           /\ Says(h, n, "investigation_complete", i, last)

HistoryKept(r) ==
  /\ OfRun(r) \in Seq(Entries)
  /\ stage[r] \in {"revising", "assembling"} => iteration[r] >= 1
  /\ HistoryAgrees(OfRun(r), stage[r], iteration[r], verdict[r])

HInv == IInv /\ \A r \in Runs : HistoryKept(r)

\* A longer history still says what it said before.
LEMMA FactsStay ==
  ASSUME NEW h \in Seq(Entries), NEW e \in Entries, NEW n \in 0 .. Len(h), FactsUpTo(h, n)
  PROVE  FactsUpTo(Append(h, e), n)
<1>1. \A k \in 1 .. Len(h) : Append(h, e)[k] = h[k]
  OBVIOUS
<1>2. Len(Facts) = 3 /\ Len(h) \in Nat
  BY DEF Facts
<1> QED BY <1>1, <1>2 DEF FactsUpTo

LEMMA LoopStays ==
  ASSUME NEW h \in Seq(Entries), NEW e \in Entries, NEW start \in Int,
         NEW reviews \in Nat, NEW drafts \in Nat \ {0}, NEW last,
         start + 2 * reviews - 1 <= Len(h), start + 2 * drafts - 2 <= Len(h),
         LoopUpTo(h, start, reviews, drafts, last)
  PROVE  LoopUpTo(Append(h, e), start, reviews, drafts, last)
<1>0. Len(h) \in Nat /\ Len(Facts) = 3 /\ start - 1 >= 3 /\ start <= Len(h)
  BY DEF LoopUpTo, FactsUpTo, Facts
<1>1. \A k \in 1 .. Len(h) : Append(h, e)[k] = h[k]
  OBVIOUS
<1>2. FactsUpTo(Append(h, e), start - 1)
  <2>1. start - 1 \in 0 .. Len(h)
    BY <1>0
  <2> QED BY <2>1, FactsStay DEF LoopUpTo
<1>3. Append(h, e)[start] = h[start]
  BY <1>0, <1>1
<1>4. ASSUME NEW i \in 1 .. reviews
      PROVE  Append(h, e)[start + 2 * i - 1] = h[start + 2 * i - 1]
  <2>1. start + 2 * i - 1 \in 1 .. Len(h)
    BY <1>0
  <2> QED BY <1>1, <2>1
<1>5. ASSUME NEW i \in 2 .. drafts
      PROVE  Append(h, e)[start + 2 * i - 2] = h[start + 2 * i - 2]
  <2>1. start + 2 * i - 2 \in 1 .. Len(h)
    BY <1>0
  <2> QED BY <1>1, <2>1
<1> DEFINE g == Append(h, e)
<1> HIDE DEF g
<1>6. ASSUME NEW i \in 1 .. reviews
      PROVE  Says(g, start + 2 * i - 1, "checklist_evaluated", i,
                  IF i = reviews THEN last ELSE "failed")
  <2>1. Says(h, start + 2 * i - 1, "checklist_evaluated", i,
             IF i = reviews THEN last ELSE "failed")
    BY DEF LoopUpTo
  <2>2. g[start + 2 * i - 1] = h[start + 2 * i - 1]
    BY <1>4 DEF g
  <2> QED BY <2>1, <2>2, Zenon DEF Says
<1>7. ASSUME NEW i \in 2 .. drafts
      PROVE  Says(g, start + 2 * i - 2, "draft_revised", i, "none")
  <2>1. Says(h, start + 2 * i - 2, "draft_revised", i, "none")
    BY DEF LoopUpTo
  <2>2. g[start + 2 * i - 2] = h[start + 2 * i - 2]
    BY <1>5 DEF g
  <2> QED BY <2>1, <2>2, Zenon DEF Says
<1>8. g[start].action = "fact_gathering_complete"
  BY <1>3 DEF LoopUpTo, g
<1> QED BY <1>2, <1>6, <1>7, <1>8 DEF LoopUpTo, g

\* How the history grows, entry by entry.

\* The three computed facts, and the entries of the agents' tools.
LEMMA FactsAreRecorded ==
  ASSUME NEW h \in Seq(Entries), NEW e \in Entries, NEW i, NEW last, NEW at, NEW next,
         HistoryAgrees(h, at, i, last),
         \/ at = "new" /\ next = "analysing" /\ e.action = "investigation_started"
         \/ at = "analysing" /\ next = "screening" /\ e.action = "pattern_analysis_computed"
         \/ at = "screening" /\ next = "explaining" /\ e.action = "watchlist_screening_computed"
         \/ at = "explaining" /\ next = "explaining" /\ e.action \in ToolActions
  PROVE  HistoryAgrees(Append(h, e), next, i, last)
<1> DEFINE g == Append(h, e)
           n == Len(h)
<1>1. /\ n \in Nat /\ Len(g) = n + 1 /\ g[n + 1] = e
      /\ \A k \in 1 .. n : g[k] = h[k]
  OBVIOUS
<1>2. /\ Len(Facts) = 3 /\ Facts[1] = "investigation_started"
      /\ Facts[2] = "pattern_analysis_computed" /\ Facts[3] = "watchlist_screening_computed"
  BY DEF Facts
<1> HIDE DEF g, n
<1>3. CASE at = "new"
  <2>1. n = 0
    BY <1>3 DEF HistoryAgrees, n
  <2> QED BY <1>1, <1>2, <1>3, <2>1 DEF HistoryAgrees, g
<1>4. CASE at = "analysing"
  <2>1. n = 1 /\ h[1].action = Facts[1]
    BY <1>4 DEF HistoryAgrees, n
  <2>2. Len(g) = 2 /\ g[1] = h[1] /\ g[2] = e
    BY <1>1, <2>1
  <2> QED BY <1>2, <1>4, <2>1, <2>2 DEF HistoryAgrees, g
<1>5. CASE at = "screening"
  <2>1. n = 2 /\ h[1].action = Facts[1] /\ h[2].action = Facts[2]
    BY <1>5 DEF HistoryAgrees, n
  <2>2. Len(g) = 3 /\ g[1] = h[1] /\ g[2] = h[2] /\ g[3] = e
    BY <1>1, <2>1
  <2>3. FactsUpTo(g, 3)
    BY <1>2, <1>5, <2>1, <2>2 DEF FactsUpTo
  <2> QED BY <1>5, <2>2, <2>3 DEF HistoryAgrees, g
<1>6. CASE at = "explaining"
  <2>1. FactsUpTo(h, n)
    BY <1>6 DEF HistoryAgrees, n
  <2>2. FactsUpTo(g, n) /\ n >= 3
    BY <1>1, <1>2, <2>1, FactsStay DEF g, n, FactsUpTo
  <2>3. FactsUpTo(g, n + 1)
    BY <1>1, <1>2, <1>6, <2>2 DEF FactsUpTo
  <2> QED BY <1>1, <1>6, <2>3 DEF HistoryAgrees, g
<1> QED BY <1>3, <1>4, <1>5, <1>6

LEMMA FactsAreClosed ==
  ASSUME NEW h \in Seq(Entries), NEW e \in Entries, NEW i, NEW last,
         HistoryAgrees(h, "explaining", i, last), e.action = "fact_gathering_complete"
  PROVE  HistoryAgrees(Append(h, e), "drafting", i, last)
<1> DEFINE g == Append(h, e)
           n == Len(h)
<1>1. n \in Nat /\ Len(g) = n + 1 /\ g[n + 1] = e
  OBVIOUS
<1>2. FactsUpTo(g, n)
  <2>1. FactsUpTo(h, n)
    BY DEF HistoryAgrees
  <2> QED BY <1>1, <2>1, FactsStay
<1>3. LoopUpTo(g, n + 1, 0, 1, "failed")
  <2>1. n + 1 - 1 = n
    BY <1>1
  <2> HIDE DEF g, n
  <2> QED BY <1>1, <1>2, <2>1 DEF LoopUpTo
<1> QED BY <1>1, <1>3 DEF HistoryAgrees

\* The review of a draft.
LEMMA ReviewIsRecorded ==
  ASSUME NEW h \in Seq(Entries), NEW e \in Entries, NEW i \in Nat \ {0}, NEW before,
         NEW last, NEW next \in {"revising", "assembling"},
         HistoryAgrees(h, "reviewing", i, before),
         Says(<<e>>, 1, "checklist_evaluated", i, last),
         next = "revising" => last = "failed"
  PROVE  HistoryAgrees(Append(h, e), next, i, last)
<1> DEFINE g == Append(h, e)
           n == Len(h)
           start == n + 2 - 2 * i
<1>1. n \in Nat /\ Len(g) = n + 1 /\ g[n + 1] = e /\ start \in Int
  OBVIOUS
<1>2. LoopUpTo(h, start, i - 1, i, "failed")
  BY DEF HistoryAgrees
<1>3. LoopUpTo(g, start, i - 1, i, "failed")
  BY <1>1, <1>2, LoopStays
<1>4. Says(g, start + 2 * i - 1, "checklist_evaluated", i, last)
  <2>1. start + 2 * i - 1 = n + 1
    BY <1>1
  <2>2. <<e>>[1] = e
    OBVIOUS
  <2> HIDE DEF g, n, start
  <2> QED BY <1>1, <2>1, <2>2 DEF Says
<1>5. LoopUpTo(g, start, i, i, last)
  <2> HIDE DEF g, start
  <2>1. \A k \in 1 .. i - 1 : Says(g, start + 2 * k - 1, "checklist_evaluated", k, "failed")
    BY <1>3 DEF LoopUpTo
  <2>2. ASSUME NEW k \in 1 .. i
        PROVE  Says(g, start + 2 * k - 1, "checklist_evaluated", k,
                    IF k = i THEN last ELSE "failed")
    <3>1. CASE k = i
      BY <1>4, <3>1
    <3>2. CASE k # i
      <4>1. k \in 1 .. i - 1
        BY <3>2
      <4> QED BY <2>1, <3>2, <4>1
    <3> QED BY <3>1, <3>2
  <2> QED BY <1>3, <2>2 DEF LoopUpTo
<1>6. start = Len(g) + 1 - 2 * i
  BY <1>1
<1> HIDE DEF g, start
<1> QED BY <1>5, <1>6 DEF HistoryAgrees, g

\* A revision of the draft.
LEMMA RevisionIsRecorded ==
  ASSUME NEW h \in Seq(Entries), NEW e \in Entries, NEW i \in Nat \ {0}, NEW last,
         HistoryAgrees(h, "revising", i, last),
         Says(<<e>>, 1, "draft_revised", i + 1, "none")
  PROVE  HistoryAgrees(Append(h, e), "reviewing", i + 1, last)
<1> DEFINE g == Append(h, e)
           n == Len(h)
           start == n + 1 - 2 * i
<1>1. n \in Nat /\ Len(g) = n + 1 /\ g[n + 1] = e /\ start \in Int
  OBVIOUS
<1>2. LoopUpTo(h, start, i, i, "failed")
  BY DEF HistoryAgrees
<1>3. LoopUpTo(g, start, i, i, "failed")
  BY <1>1, <1>2, LoopStays
<1>4. Says(g, start + 2 * (i + 1) - 2, "draft_revised", i + 1, "none")
  <2>1. start + 2 * (i + 1) - 2 = n + 1
    BY <1>1
  <2>2. <<e>>[1] = e
    OBVIOUS
  <2> HIDE DEF g, n, start
  <2> QED BY <1>1, <2>1, <2>2 DEF Says
<1>5. LoopUpTo(g, start, i + 1 - 1, i + 1, "failed")
  <2> HIDE DEF g, start
  <2>1. \A k \in 2 .. i : Says(g, start + 2 * k - 2, "draft_revised", k, "none")
    BY <1>3 DEF LoopUpTo
  <2>2. ASSUME NEW k \in 2 .. i + 1
        PROVE  Says(g, start + 2 * k - 2, "draft_revised", k, "none")
    <3>1. CASE k = i + 1
      BY <1>4, <3>1
    <3>2. CASE k # i + 1
      <4>1. k \in 2 .. i
        BY <3>2
      <4> QED BY <2>1, <4>1
    <3> QED BY <3>1, <3>2
  <2>3. i + 1 - 1 = i
    OBVIOUS
  <2> QED BY <1>3, <2>2, <2>3 DEF LoopUpTo
<1>6. start = Len(g) + 2 - 2 * (i + 1)
  BY <1>1
<1> HIDE DEF g, start
<1> QED BY <1>5, <1>6 DEF HistoryAgrees, g

\* The closing entry.
LEMMA CompletionIsRecorded ==
  ASSUME NEW h \in Seq(Entries), NEW e \in Entries, NEW i \in Nat \ {0}, NEW last,
         HistoryAgrees(h, "assembling", i, last),
         Says(<<e>>, 1, "investigation_complete", i, last)
  PROVE  HistoryAgrees(Append(h, e), "returned", i, last)
<1> DEFINE g == Append(h, e)
           n == Len(h)
           start == n + 1 - 2 * i
<1>1. n \in Nat /\ Len(g) = n + 1 /\ g[n + 1] = e /\ start \in Int
  OBVIOUS
<1>2. LoopUpTo(h, start, i, i, last)
  BY DEF HistoryAgrees
<1>3. LoopUpTo(g, start, i, i, last)
  BY <1>1, <1>2, LoopStays
<1>4. Says(g, Len(g), "investigation_complete", i, last)
  <2>1. <<e>>[1] = e
    OBVIOUS
  <2> QED BY <1>1, <2>1 DEF Says
<1>5. start = Len(g) - 2 * i
  BY <1>1
<1> HIDE DEF g, start
<1> QED BY <1>3, <1>4, <1>5 DEF HistoryAgrees, g

------------------------------------------------------------------------------
\* A step of a run adds at most one entry, of that run, at the end.

LEMMA EntryIsAdded ==
  ASSUME log \in Seq(Entries), NEW e \in Entries, log' = Append(log, e), NEW q
  PROVE  OfRun(q)' = IF e.run = q THEN Append(OfRun(q), e) ELSE OfRun(q)
<1> DEFINE P == {k \in DOMAIN log : log[k].run = q}
           Q == {k \in DOMAIN log' : log'[k].run = q}
           n == Len(log)
<1>1. /\ n \in Nat /\ DOMAIN log = 1 .. n /\ DOMAIN log' = 1 .. n + 1
      /\ log'[n + 1] = e /\ \A k \in 1 .. n : log'[k] = log[k]
  OBVIOUS
<1>2. (\A k \in 1 .. n : k \in Q <=> k \in P) /\ (n + 1 \in Q <=> e.run = q)
  <2> HIDE DEF n
  <2> QED BY <1>1
<1>3. Picked(log', Q) = IF n + 1 \in Q THEN Append(Picked(log, P), e) ELSE Picked(log, P)
  <2> HIDE DEF P, Q
  <2> QED BY <1>2, PickedAfterAppend
<1>4. OfRun(q)' = Picked(log', Q) /\ OfRun(q) = Picked(log, P)
  BY DEF OfRun
<1> HIDE DEF P, Q, n
<1> QED BY <1>2, <1>3, <1>4

\* Whose entry it is.
LEMMA StepRecords ==
  ASSUME TypeOK, NEW r \in Runs, Run(r), stage[r] = "revising" => iteration[r] < Cap
  PROVE  /\ target' = target /\ stage'[r] # "new"
         /\ \/ log' = log
            \/ \E e \in Entries :
                 /\ log' = Append(log, e) /\ e.run = r
                 /\ e.action \notin ToolActions => e.case_id = target[r]
<1>0. TypeOK
  OBVIOUS
<1>a. /\ target[r] \in CaseIds /\ iteration[r] \in Nat /\ verdict[r] \in Verdicts
  BY ValuesOfRun
<1>b. /\ "none" \in Verdicts /\ 0 \in Nat
      /\ \A x \in {"investigation_started", "pattern_analysis_computed",
                   "watchlist_screening_computed", "fact_gathering_complete",
                   "checklist_evaluated", "draft_revised",
                   "investigation_complete"} : x \in Actions
  BY DEF Verdicts, Actions
<1>c. ASSUME NEW next, GoTo(r, next) PROVE stage'[r] = next
  BY <1>0, <1>c DEF GoTo, TypeOK
<1>d. ASSUME NEW what \in Actions, NEW i \in Nat, NEW result \in Verdicts,
             Record(r, what, i, result)
      PROVE  \E e \in Entries : log' = Append(log, e) /\ e.run = r /\ e.case_id = target[r]
  <2>1. PICK e : e = Entry(r, target[r], what, i, result)
    OBVIOUS
  <2>2. log' = Append(log, e)
    BY <1>d, <2>1 DEF Record
  <2>3. e \in Entries /\ e.run = r /\ e.case_id = target[r]
    BY <1>a, <2>1 DEF Entry, Entries
  <2> QED BY <2>2, <2>3
<1>1. CASE Start(r) \/ AnalysePatterns(r) \/ ScreenNames(r) \/ CompleteFacts(r)
  <2>1. /\ target' = target
        /\ \E next \in {"analysing", "screening", "explaining", "drafting"} : GoTo(r, next)
        /\ \E what \in Actions : Record(r, what, 0, "none")
    BY <1>1, <1>b DEF Start, AnalysePatterns, ScreenNames, CompleteFacts
  <2> QED BY <2>1, <1>b, <1>c, <1>d
<1>2. CASE CallTool(r)
  <2>1. PICK c \in CaseIds, what \in ToolActions : log' = Append(log, Entry(r, c, what, 0, "none"))
    BY <1>2 DEF CallTool
  <2>2. what \in Actions
    BY DEF ToolActions, Actions
  <2>3. \E e \in Entries : log' = Append(log, e) /\ e.run = r /\ e.action \in ToolActions
    <3>1. PICK e : e = Entry(r, c, what, 0, "none")
      OBVIOUS
    <3>2. log' = Append(log, e)
      BY <2>1, <3>1
    <3>3. e \in Entries /\ e.run = r /\ e.action = what
      BY <1>b, <2>2, <3>1 DEF Entry, Entries
    <3> QED BY <3>2, <3>3
  <2>4. target' = target /\ stage'[r] = "explaining"
    BY <1>2 DEF CallTool
  <2> QED BY <2>3, <2>4
<1>3. CASE FirstDraft(r) \/ AgentRaises(r)
  BY <1>3, <1>c DEF FirstDraft, AgentRaises, loop
<1>4. CASE Review(r)
  <2>1. /\ target' = target
        /\ \E next \in {"revising", "assembling"} : GoTo(r, next)
    BY <1>4 DEF Review
  <2>2. verdict'[r] \in Verdicts
    BY <1>0, <1>4, ReviewDecides DEF Verdicts
  <2>3. \E e \in Entries : log' = Append(log, e) /\ e.run = r /\ e.case_id = target[r]
    BY <1>4, <1>a, <1>b, <1>d, <2>2 DEF Review
  <2> QED BY <2>1, <2>3, <1>c
<1>5. CASE Revise(r)
  <2>1. /\ target' = target /\ GoTo(r, "reviewing")
        /\ Record(r, "draft_revised", iteration[r] + 1, "none")
    BY <1>5 DEF Revise
  <2>2. iteration[r] + 1 \in Nat
    BY <1>a
  <2> QED BY <2>1, <2>2, <1>b, <1>c, <1>d
<1>6. CASE Complete(r)
  <2>1. /\ target' = target /\ GoTo(r, "returned")
        /\ Record(r, "investigation_complete", iteration[r], verdict[r])
    BY <1>6 DEF Complete, loop
  <2> QED BY <2>1, <1>a, <1>b, <1>c, <1>d
<1> QED BY <1>1, <1>2, <1>3, <1>4, <1>5, <1>6 DEF Run

LEMMA OtherHistoriesStay ==
  ASSUME IInv, NEW r \in Runs, Run(r), NEW q \in Runs, q # r, HistoryKept(q)
  PROVE  HistoryKept(q)'
<1>1. TypeOK /\ LoopAgrees(r) /\ log \in Seq(Entries)
  BY DEF IInv, TypeOK
<1>2. OfRun(q)' = OfRun(q)
  <2>1. CASE log' = log
    BY <2>1 DEF OfRun
  <2>2. CASE \E e \in Entries : log' = Append(log, e) /\ e.run = r
    BY <1>1, <2>2, EntryIsAdded
  <2> QED BY <1>1, <2>1, <2>2, StepRecords DEF LoopAgrees
<1>3. stage'[q] = stage[q] /\ iteration'[q] = iteration[q] /\ verdict'[q] = verdict[q]
  BY <1>1, OtherRunsStay
<1> QED BY <1>2, <1>3 DEF HistoryKept

LEMMA StepKeepsHistory ==
  ASSUME IInv, NEW r \in Runs, HistoryKept(r), Run(r)
  PROVE  HistoryKept(r)'
<1> DEFINE h == OfRun(r)
<1>0. TypeOK /\ LoopAgrees(r) /\ log \in Seq(Entries)
  BY DEF IInv, TypeOK
<1>a. /\ target[r] \in CaseIds /\ iteration[r] \in Nat /\ verdict[r] \in Verdicts
      /\ "none" \in Verdicts /\ 0 \in Nat
  BY <1>0, ValuesOfRun DEF Verdicts
<1>b. \A x \in {"investigation_started", "pattern_analysis_computed",
                "watchlist_screening_computed", "fact_gathering_complete",
                "checklist_evaluated", "draft_revised",
                "investigation_complete"} : x \in Actions
  BY DEF Actions
<1>c. ASSUME NEW next, GoTo(r, next) PROVE stage'[r] = next
  BY <1>0, <1>c DEF GoTo, TypeOK
<1>d. h \in Seq(Entries) /\ HistoryAgrees(h, stage[r], iteration[r], verdict[r])
  BY DEF HistoryKept
\* The entry of a step, and what is left to show of it.
<1>e. ASSUME NEW c \in CaseIds, NEW what \in Actions, NEW i \in Nat, NEW result \in Verdicts,
             log' = Append(log, Entry(r, c, what, i, result)),
             stage'[r] \in {"revising", "assembling"} => iteration'[r] >= 1,
             \A e \in Entries :
               Says(<<e>>, 1, what, i, result) /\ e.action = what =>
                 HistoryAgrees(Append(h, e), stage'[r], iteration'[r], verdict'[r])
      PROVE  HistoryKept(r)'
  <2> DEFINE e == Entry(r, c, what, i, result)
  <2>1. e \in Entries /\ e.run = r /\ e.action = what /\ Says(<<e>>, 1, what, i, result)
    BY DEF Entry, Entries, Says
  <2>2. (h)' = Append(h, e)
    <3> HIDE DEF e
    <3> QED BY <1>0, <1>e, <2>1, EntryIsAdded DEF e
  <2>3. HistoryAgrees(Append(h, e), stage'[r], iteration'[r], verdict'[r])
    <3> HIDE DEF e, h
    <3> QED BY <1>e, <2>1
  <2>4. Append(h, e) \in Seq(Entries)
    <3> HIDE DEF e, h
    <3> QED BY <1>d, <2>1
  <2> HIDE DEF e
  <2> QED BY <1>e, <2>2, <2>3, <2>4 DEF HistoryKept
<1> HIDE DEF h
<1>1. CASE Start(r) \/ AnalysePatterns(r) \/ ScreenNames(r)
  <2>1. PICK at \in {"new", "analysing", "screening"},
             next \in {"analysing", "screening", "explaining"}, what \in Actions :
          /\ stage[r] = at /\ GoTo(r, next) /\ Record(r, what, 0, "none")
          /\ \/ at = "new" /\ next = "analysing" /\ what = "investigation_started"
             \/ at = "analysing" /\ next = "screening" /\ what = "pattern_analysis_computed"
             \/ at = "screening" /\ next = "explaining" /\ what = "watchlist_screening_computed"
    BY <1>1, <1>b DEF Start, AnalysePatterns, ScreenNames
  <2>2. stage'[r] = next /\ iteration' = iteration /\ verdict' = verdict
    BY <1>1, <1>c, <2>1 DEF Start, AnalysePatterns, ScreenNames, loop
  <2>3. ASSUME NEW e \in Entries, e.action = what
        PROVE  HistoryAgrees(Append(h, e), next, iteration[r], verdict[r])
    BY <1>d, <2>1, <2>3, FactsAreRecorded
  <2> QED BY <1>a, <1>e, <2>1, <2>2, <2>3 DEF Record
<1>2. CASE CallTool(r)
  <2>1. PICK c \in CaseIds, what \in ToolActions : log' = Append(log, Entry(r, c, what, 0, "none"))
    BY <1>2 DEF CallTool
  <2>2. /\ stage[r] = "explaining" /\ stage' = stage
        /\ iteration' = iteration /\ verdict' = verdict /\ what \in Actions
    BY <1>2 DEF CallTool, loop, ToolActions, Actions
  <2>3. ASSUME NEW e \in Entries, e.action = what
        PROVE  HistoryAgrees(Append(h, e), "explaining", iteration[r], verdict[r])
    BY <1>d, <2>2, <2>3, FactsAreRecorded
  <2> QED BY <1>a, <1>e, <2>1, <2>2, <2>3
<1>3. CASE CompleteFacts(r)
  <2>1. /\ stage[r] = "explaining" /\ stage'[r] = "drafting"
        /\ iteration' = iteration /\ verdict' = verdict
        /\ Record(r, "fact_gathering_complete", 0, "none")
    BY <1>3, <1>c DEF CompleteFacts, loop
  <2>2. ASSUME NEW e \in Entries, e.action = "fact_gathering_complete"
        PROVE  HistoryAgrees(Append(h, e), "drafting", iteration[r], verdict[r])
    BY <1>d, <2>1, <2>2, FactsAreClosed
  <2> QED BY <1>a, <1>b, <1>e, <2>1, <2>2 DEF Record
<1>4. CASE FirstDraft(r)
  <2>1. /\ stage[r] = "drafting" /\ stage'[r] = "reviewing" /\ iteration'[r] = 1
        /\ verdict' = verdict /\ (h)' = h
    BY <1>0, <1>4, <1>c DEF FirstDraft, TypeOK, h, OfRun
  <2>2. LoopUpTo(h, Len(h), 0, 1, "failed") /\ Len(h) \in Nat
    BY <1>d, <2>1 DEF HistoryAgrees
  <2>3. HistoryAgrees(h, "reviewing", 1, verdict[r])
    <3>1. Len(h) + 2 - 2 * 1 = Len(h) /\ 1 - 1 = 0
      BY <2>2
    <3> QED BY <2>2, <3>1 DEF HistoryAgrees
  <2> QED BY <1>d, <2>1, <2>3 DEF HistoryKept, h
<1>5. CASE Review(r)
  <2>1. /\ stage[r] = "reviewing" /\ iteration' = iteration
        /\ Record(r, "checklist_evaluated", iteration[r], verdict'[r])
    BY <1>5 DEF Review
  <2>2. /\ verdict'[r] \in Verdicts /\ stage'[r] \in {"revising", "assembling"}
        /\ stage'[r] = "revising" => verdict'[r] = "failed"
    BY <1>0, <1>5, ReviewDecides DEF Verdicts
  <2>3. iteration[r] \in Nat \ {0}
    BY <1>0, <1>a, <2>1, ValuesOfRun DEF LoopAgrees
  <2>4. ASSUME NEW e \in Entries,
               Says(<<e>>, 1, "checklist_evaluated", iteration[r], verdict'[r])
        PROVE  HistoryAgrees(Append(h, e), stage'[r], iteration[r], verdict'[r])
    BY <1>d, <2>1, <2>2, <2>3, <2>4, ReviewIsRecorded
  <2> QED BY <1>a, <1>b, <1>e, <2>1, <2>2, <2>3, <2>4 DEF Record
<1>6. CASE Revise(r)
  <2>1. /\ stage[r] = "revising" /\ stage'[r] = "reviewing" /\ verdict' = verdict
        /\ iteration'[r] = iteration[r] + 1
        /\ Record(r, "draft_revised", iteration[r] + 1, "none")
    BY <1>0, <1>6, <1>c DEF Revise, TypeOK
  <2>2. iteration[r] \in Nat \ {0} /\ iteration[r] + 1 \in Nat
    BY <1>a, <2>1 DEF HistoryKept
  <2>3. ASSUME NEW e \in Entries,
               Says(<<e>>, 1, "draft_revised", iteration[r] + 1, "none")
        PROVE  HistoryAgrees(Append(h, e), "reviewing", iteration[r] + 1, verdict[r])
    BY <1>d, <2>1, <2>2, <2>3, RevisionIsRecorded
  <2> QED BY <1>a, <1>b, <1>e, <2>1, <2>2, <2>3 DEF Record
<1>7. CASE Complete(r)
  <2>1. /\ stage[r] = "assembling" /\ stage'[r] = "returned"
        /\ iteration' = iteration /\ verdict' = verdict
        /\ Record(r, "investigation_complete", iteration[r], verdict[r])
    BY <1>7, <1>c DEF Complete, loop
  <2>2. iteration[r] \in Nat \ {0}
    BY <1>a, <2>1 DEF HistoryKept
  <2>3. ASSUME NEW e \in Entries,
               Says(<<e>>, 1, "investigation_complete", iteration[r], verdict[r])
        PROVE  HistoryAgrees(Append(h, e), "returned", iteration[r], verdict[r])
    BY <1>d, <2>1, <2>2, <2>3, CompletionIsRecorded
  <2> QED BY <1>a, <1>b, <1>e, <2>1, <2>2, <2>3 DEF Record
<1>8. CASE AgentRaises(r)
  <2>1. stage'[r] = "raised" /\ (h)' = h
    BY <1>8, <1>c DEF AgentRaises, h, OfRun
  <2>2. HistoryAgrees(h, "raised", iteration'[r], verdict'[r])
    BY DEF HistoryAgrees
  <2> QED BY <1>d, <2>1, <2>2 DEF HistoryKept, h
<1> QED BY <1>1, <1>2, <1>3, <1>4, <1>5, <1>6, <1>7, <1>8 DEF Run

LEMMA StepKeepsHInv == HInv /\ [Next]_vars => HInv'
<1> SUFFICES ASSUME HInv, [Next]_vars PROVE HInv'
  OBVIOUS
<1>1. IInv'
  BY StepKeepsIInv DEF HInv
<1>2. ASSUME NEW r \in Runs, Run(r) PROVE HInv'
  <2>1. HistoryKept(r)'
    BY <1>2, StepKeepsHistory DEF HInv
  <2>2. ASSUME NEW q \in Runs, q # r PROVE HistoryKept(q)'
    BY <1>2, <2>2, OtherHistoriesStay DEF HInv
  <2> QED BY <1>1, <2>1, <2>2 DEF HInv
<1>3. CASE UNCHANGED vars
  <2>1. ASSUME NEW r \in Runs PROVE HistoryKept(r)'
    BY <1>3 DEF HInv, HistoryKept, OfRun, vars
  <2> QED BY <1>1, <2>1 DEF HInv
<1> QED BY <1>2, <1>3 DEF Next

LEMMA InitHInv == Init => HInv
<1> SUFFICES ASSUME Init PROVE HInv
  OBVIOUS
<1>1. ASSUME NEW r \in Runs PROVE HistoryKept(r)
  <2>1. OfRun(r) = << >> /\ stage[r] = "new"
    BY PickedOfNone DEF Init, OfRun
  <2>2. << >> \in Seq(Entries) /\ Len(<< >>) = 0
    OBVIOUS
  <2>3. HistoryAgrees(<< >>, "new", iteration[r], verdict[r])
    BY <2>2 DEF HistoryAgrees
  <2> QED BY <2>1, <2>2, <2>3 DEF HistoryKept
<1> QED BY <1>1, InitIInv DEF HInv

LEMMA HistoryInvariance == Spec => []HInv
BY InitHInv, StepKeepsHInv, PTL DEF Spec

\* The history of a run that has returned is complete.
LEMMA ReturnedIsComplete ==
  ASSUME IInv, NEW r \in Runs, HistoryKept(r), stage[r] = "returned"
  PROVE  IsCompleteHistory(OfRun(r), r)
<1> DEFINE h == OfRun(r)
           n == Len(h)
           i == iteration[r]
           start == n - 2 * i
<1>1. /\ LoopUpTo(h, start, i, i, verdict[r])
      /\ Says(h, n, "investigation_complete", i, verdict[r])
  BY DEF HistoryKept, HistoryAgrees
<1>2. n \in Nat /\ i \in Nat /\ start \in Int /\ Len(Facts) = 3
  BY ValuesOfRun DEF HistoryKept, IInv, Facts
<1>3. start > Len(Facts) /\ start - 1 \in Int
  BY <1>1, <1>2 DEF LoopUpTo, FactsUpTo
<1> HIDE DEF h, n, i, start
<1> QED BY <1>1, <1>2, <1>3 DEF IsCompleteHistory, LoopUpTo, FactsUpTo, Says, h, n, i, start

(***************************************************************************)
(* Every report that is returned has its complete history in the audit     *)
(* log, for any number of runs that record at the same time, any cap and   *)
(* any use of tools (crew_definition.py:97-209).                           *)
(***************************************************************************)
THEOREM ReportsAreLogged == Spec => []ReturnedRunsAreLogged
<1>1. HInv => ReturnedRunsAreLogged
  BY ReturnedIsComplete DEF HInv, ReturnedRunsAreLogged
<1> QED BY HistoryInvariance, <1>1, PTL

------------------------------------------------------------------------------
\* The trail of a run: its entries that are not of a tool.

TrailOf(r) ==
  Picked(log, {k \in DOMAIN log : log[k].run = r /\ log[k].action \notin ToolActions})

(***************************************************************************)
(* Whose entries there are: none of a run that has not started, and none   *)
(* but those of tools about another case than that of the run.             *)
(***************************************************************************)
EntriesAreOwned ==
  \A k \in DOMAIN log :
    /\ stage[log[k].run] # "new"
    /\ log[k].action \notin ToolActions => log[k].case_id = target[log[k].run]

(***************************************************************************)
(* The trail t of a run is its history h without the entries of tools,     *)
(* which all come after the first one and before the facts are complete;   *)
(* and how long the trail is at each stage.                                *)
(***************************************************************************)
Mirrors(t, h) ==
  /\ Len(t) \in 1 .. Len(h)
  /\ t[1] = h[1]
  /\ \A k \in 2 .. Len(t) : t[k] = h[k + (Len(h) - Len(t))]

TrailAgrees(t, h, at, i) ==
  LET n == Len(t)
  IN  /\ IF at = "new" THEN n = 0 ELSE Mirrors(t, h)
      /\ at \in {"analysing", "screening", "explaining"} => n = 1
      /\ at = "drafting" => n = 2
      /\ at = "reviewing" => n = 2 * i
      /\ at \in {"revising", "assembling"} => n = 2 * i + 1
      /\ at = "returned" => n = 2 * i + 2

TrailKept(r) ==
  /\ TrailOf(r) \in Seq(Entries)
  /\ TrailAgrees(TrailOf(r), OfRun(r), stage[r], iteration[r])

LEMMA MirrorsGrow ==
  ASSUME NEW t \in Seq(Entries), NEW h \in Seq(Entries), NEW e \in Entries
  PROVE  /\ Mirrors(t, h) => Mirrors(Append(t, e), Append(h, e))
         /\ Mirrors(t, h) /\ Len(t) = 1 => Mirrors(t, Append(h, e))
         /\ Len(t) = 0 /\ Len(h) = 0 => Mirrors(Append(t, e), Append(h, e))
<1> DEFINE u == Append(t, e)
           g == Append(h, e)
           m == Len(t)
           n == Len(h)
<1>1. /\ m \in Nat /\ n \in Nat /\ Len(u) = m + 1 /\ Len(g) = n + 1
      /\ u[m + 1] = e /\ g[n + 1] = e
      /\ \A k \in 1 .. m : u[k] = t[k]
      /\ \A k \in 1 .. n : g[k] = h[k]
  OBVIOUS
<1> HIDE DEF u, g, m, n
<1>2. ASSUME Mirrors(t, h) PROVE Mirrors(u, g)
  <2>1. m \in 1 .. n /\ t[1] = h[1] /\ \A k \in 2 .. m : t[k] = h[k + (n - m)]
    BY <1>2 DEF Mirrors, m, n
  <2>2. ASSUME NEW k \in 2 .. m + 1 PROVE u[k] = g[k + (n - m)]
    <3>1. CASE k = m + 1
      <4>1. k + (n - m) = n + 1
        BY <1>1, <3>1
      <4> QED BY <1>1, <3>1, <4>1
    <3>2. CASE k # m + 1
      <4>1. k \in 2 .. m /\ k \in 1 .. m /\ k + (n - m) \in 1 .. n
        BY <1>1, <2>1, <3>2
      <4> QED BY <1>1, <2>1, <4>1
    <3> QED BY <3>1, <3>2
  <2>3. u[1] = g[1] /\ Len(u) \in 1 .. Len(g) /\ Len(g) - Len(u) = n - m
    BY <1>1, <2>1
  <2> QED BY <1>1, <2>2, <2>3 DEF Mirrors
<1>3. ASSUME Mirrors(t, h), m = 1 PROVE Mirrors(t, g)
  <2>1. t[1] = h[1] /\ n >= 1
    BY <1>3 DEF Mirrors, m, n
  <2> QED BY <1>1, <1>3, <2>1 DEF Mirrors, m
<1>4. ASSUME m = 0, n = 0 PROVE Mirrors(u, g)
  <2>1. Len(u) = 1 /\ Len(g) = 1 /\ u[1] = e /\ g[1] = e
    BY <1>1, <1>4
  <2> QED BY <2>1 DEF Mirrors
<1> QED BY <1>2, <1>3, <1>4 DEF u, g, m, n

\* How a trail grows with the history.
LEMMA TrailGrows ==
  ASSUME NEW t \in Seq(Entries), NEW h \in Seq(Entries), NEW e \in Entries,
         NEW at, NEW next, NEW i \in Nat, NEW j \in Nat,
         TrailAgrees(t, h, at, i), at = "new" => Len(h) = 0,
         \/ at = "new" /\ next = "analysing"
         \/ at = "explaining" /\ next = "drafting"
         \/ at = "reviewing" /\ next \in {"revising", "assembling"} /\ j = i
         \/ at = "revising" /\ next = "reviewing" /\ j = i + 1
         \/ at = "assembling" /\ next = "returned" /\ j = i
  PROVE  TrailAgrees(Append(t, e), Append(h, e), next, j)
<1>1. Len(t) \in Nat /\ Len(Append(t, e)) = Len(t) + 1
  OBVIOUS
<1>2. IF at = "new" THEN Len(t) = 0 /\ Len(h) = 0 ELSE Mirrors(t, h)
  BY DEF TrailAgrees
<1>3. Mirrors(Append(t, e), Append(h, e))
  BY <1>2, MirrorsGrow
<1> DEFINE u == Append(t, e)
           n == Len(t)
<1> HIDE DEF u, n
<1>4. CASE at = "new"
  BY <1>1, <1>2, <1>3, <1>4 DEF TrailAgrees, u, n
<1>5. CASE at = "explaining"
  <2>1. n = 1 /\ next = "drafting"
    BY <1>5 DEF TrailAgrees, n
  <2>2. Len(u) = 2
    BY <1>1, <2>1 DEF u, n
  <2> QED BY <1>3, <2>1, <2>2 DEF TrailAgrees, u
<1>6. CASE at = "reviewing"
  BY <1>1, <1>3, <1>6 DEF TrailAgrees, u, n
<1>7. CASE at = "revising"
  BY <1>1, <1>3, <1>7 DEF TrailAgrees, u, n
<1>8. CASE at = "assembling"
  BY <1>1, <1>3, <1>8 DEF TrailAgrees, u, n
<1> QED BY <1>4, <1>5, <1>6, <1>7, <1>8

LEMMA TrailStays ==
  ASSUME NEW t \in Seq(Entries), NEW h \in Seq(Entries), NEW e \in Entries,
         NEW at \in {"analysing", "screening", "explaining"},
         NEW next \in {"analysing", "screening", "explaining"}, NEW i, NEW j,
         TrailAgrees(t, h, at, i)
  PROVE  TrailAgrees(t, Append(h, e), next, j)
<1>1. Len(t) = 1 /\ Mirrors(t, h)
  BY DEF TrailAgrees
<1>2. Mirrors(t, Append(h, e))
  BY <1>1, MirrorsGrow
<1> QED BY <1>1, <1>2 DEF TrailAgrees

LEMMA TrailEntryIsAdded ==
  ASSUME log \in Seq(Entries), NEW e \in Entries, log' = Append(log, e), NEW q
  PROVE  TrailOf(q)' = IF e.run = q /\ e.action \notin ToolActions
                       THEN Append(TrailOf(q), e) ELSE TrailOf(q)
<1> DEFINE P == {k \in DOMAIN log : log[k].run = q /\ log[k].action \notin ToolActions}
           Q == {k \in DOMAIN log' : log'[k].run = q /\ log'[k].action \notin ToolActions}
           n == Len(log)
<1>1. /\ n \in Nat /\ DOMAIN log = 1 .. n /\ DOMAIN log' = 1 .. n + 1
      /\ log'[n + 1] = e /\ \A k \in 1 .. n : log'[k] = log[k]
  OBVIOUS
<1>2. /\ \A k \in 1 .. n : k \in Q <=> k \in P
      /\ n + 1 \in Q <=> e.run = q /\ e.action \notin ToolActions
  <2> HIDE DEF n
  <2> QED BY <1>1
<1>3. Picked(log', Q) = IF n + 1 \in Q THEN Append(Picked(log, P), e) ELSE Picked(log, P)
  <2> HIDE DEF P, Q
  <2> QED BY <1>2, PickedAfterAppend
<1>4. TrailOf(q)' = Picked(log', Q) /\ TrailOf(q) = Picked(log, P)
  BY DEF TrailOf
<1> HIDE DEF P, Q, n
<1> QED BY <1>2, <1>3, <1>4

LEMMA OtherTrailsStay ==
  ASSUME IInv, NEW r \in Runs, Run(r), NEW q \in Runs, q # r, TrailKept(q)
  PROVE  TrailKept(q)'
<1>1. TypeOK /\ LoopAgrees(r) /\ log \in Seq(Entries)
  BY DEF IInv, TypeOK
<1>2. OfRun(q)' = OfRun(q) /\ TrailOf(q)' = TrailOf(q)
  <2>1. CASE log' = log
    BY <2>1 DEF OfRun, TrailOf
  <2>2. CASE \E e \in Entries : log' = Append(log, e) /\ e.run = r
    BY <1>1, <2>2, EntryIsAdded, TrailEntryIsAdded
  <2> QED BY <1>1, <2>1, <2>2, StepRecords DEF LoopAgrees
<1>3. stage'[q] = stage[q] /\ iteration'[q] = iteration[q]
  BY <1>1, OtherRunsStay
<1> QED BY <1>2, <1>3 DEF TrailKept

LEMMA StepKeepsTrail ==
  ASSUME IInv, NEW r \in Runs, HistoryKept(r), TrailKept(r), Run(r)
  PROVE  TrailKept(r)'
<1> DEFINE h == OfRun(r)
           t == TrailOf(r)
<1>0. /\ TypeOK /\ log \in Seq(Entries) /\ iteration[r] \in Nat /\ iteration[r] + 1 \in Nat
      /\ target[r] \in CaseIds /\ verdict[r] \in Verdicts /\ "none" \in Verdicts
  BY ValuesOfRun DEF IInv, TypeOK, Verdicts
<1>a. /\ h \in Seq(Entries) /\ t \in Seq(Entries)
      /\ TrailAgrees(t, h, stage[r], iteration[r])
      /\ stage[r] = "new" => Len(h) = 0
  BY DEF TrailKept, HistoryKept, HistoryAgrees
<1>b. ASSUME NEW next, GoTo(r, next) PROVE stage'[r] = next
  BY <1>0, <1>b DEF GoTo, TypeOK
\* The entry of a step, and what is left to show of it.
<1>c. ASSUME NEW c \in CaseIds, NEW what \in Actions, NEW i \in Nat, NEW result \in Verdicts,
             log' = Append(log, Entry(r, c, what, i, result)),
             \A e \in Entries :
               TrailAgrees(IF what \in ToolActions THEN t ELSE Append(t, e), Append(h, e),
                           stage'[r], iteration'[r])
      PROVE  TrailKept(r)'
  <2>1. PICK e : e = Entry(r, c, what, i, result)
    OBVIOUS
  <2>2. e \in Entries /\ e.run = r /\ e.action = what
    BY <2>1 DEF Entry, Entries
  <2>3. log' = Append(log, e)
    BY <1>c, <2>1
  <2>4. (h)' = Append(h, e) /\ (t)' = IF what \in ToolActions THEN t ELSE Append(t, e)
    BY <1>0, <2>2, <2>3, EntryIsAdded, TrailEntryIsAdded
  <2> HIDE DEF h, t
  <2>5. Append(t, e) \in Seq(Entries)
    BY <1>a, <2>2
  <2> QED BY <1>a, <1>c, <2>2, <2>4, <2>5 DEF TrailKept, h, t
<1> HIDE DEF h, t
<1>1. CASE Start(r)
  <2>1. /\ stage[r] = "new" /\ stage'[r] = "analysing" /\ iteration' = iteration
        /\ Record(r, "investigation_started", 0, "none")
    BY <1>1, <1>b DEF Start, loop
  <2>2. \A e \in Entries : TrailAgrees(Append(t, e), Append(h, e), "analysing", iteration[r])
    BY <1>0, <1>a, <2>1, TrailGrows
  <2>3. "investigation_started" \in Actions \ ToolActions
    BY DEF Actions, ToolActions
  <2> QED BY <1>0, <1>c, <2>1, <2>2, <2>3 DEF Record
<1>2. CASE AnalysePatterns(r) \/ ScreenNames(r) \/ CallTool(r)
  <2>1. /\ stage[r] \in {"analysing", "screening", "explaining"}
        /\ stage'[r] \in {"analysing", "screening", "explaining"}
        /\ iteration' = iteration
    BY <1>2, <1>b DEF AnalysePatterns, ScreenNames, CallTool, loop
  <2>2. PICK c \in CaseIds, what \in ToolActions :
          log' = Append(log, Entry(r, c, what, 0, "none"))
    BY <1>0, <1>2 DEF AnalysePatterns, ScreenNames, CallTool, Record, ToolActions
  <2>3. \A e \in Entries : TrailAgrees(t, Append(h, e), stage'[r], iteration'[r])
    BY <1>a, <2>1, TrailStays
  <2>4. what \in Actions
    BY DEF Actions, ToolActions
  <2> QED BY <1>0, <1>c, <2>2, <2>3, <2>4
<1>3. CASE CompleteFacts(r)
  <2>1. /\ stage[r] = "explaining" /\ stage'[r] = "drafting" /\ iteration' = iteration
        /\ Record(r, "fact_gathering_complete", 0, "none")
    BY <1>3, <1>b DEF CompleteFacts, loop
  <2>2. \A e \in Entries : TrailAgrees(Append(t, e), Append(h, e), "drafting", iteration[r])
    BY <1>0, <1>a, <2>1, TrailGrows
  <2>3. "fact_gathering_complete" \in Actions \ ToolActions
    BY DEF Actions, ToolActions
  <2> QED BY <1>0, <1>c, <2>1, <2>2, <2>3 DEF Record
<1>4. CASE FirstDraft(r)
  <2>1. /\ stage[r] = "drafting" /\ stage'[r] = "reviewing" /\ iteration'[r] = 1
        /\ (h)' = h /\ (t)' = t
    BY <1>0, <1>4, <1>b DEF FirstDraft, TypeOK, h, t, OfRun, TrailOf
  <2>2. Len(t) = 2 /\ Mirrors(t, h)
    BY <1>a, <2>1 DEF TrailAgrees
  <2>3. TrailAgrees(t, h, "reviewing", 1)
    BY <2>2 DEF TrailAgrees
  <2> QED BY <1>a, <2>1, <2>3 DEF TrailKept, h, t
<1>5. CASE Review(r)
  <2>1. /\ stage[r] = "reviewing" /\ iteration' = iteration
        /\ Record(r, "checklist_evaluated", iteration[r], verdict'[r])
    BY <1>5 DEF Review
  <2>2. verdict'[r] \in Verdicts /\ stage'[r] \in {"revising", "assembling"}
    BY <1>0, <1>5, ReviewDecides DEF Verdicts
  <2>3. \A e \in Entries : TrailAgrees(Append(t, e), Append(h, e), stage'[r], iteration[r])
    BY <1>0, <1>a, <2>1, <2>2, TrailGrows
  <2>4. "checklist_evaluated" \in Actions \ ToolActions
    BY DEF Actions, ToolActions
  <2> QED BY <1>0, <1>c, <2>1, <2>2, <2>3, <2>4 DEF Record
<1>6. CASE Revise(r)
  <2>1. /\ stage[r] = "revising" /\ stage'[r] = "reviewing"
        /\ iteration'[r] = iteration[r] + 1
        /\ Record(r, "draft_revised", iteration[r] + 1, "none")
    BY <1>0, <1>6, <1>b DEF Revise, TypeOK
  <2>2. \A e \in Entries :
          TrailAgrees(Append(t, e), Append(h, e), "reviewing", iteration[r] + 1)
    BY <1>0, <1>a, <2>1, TrailGrows
  <2>3. "draft_revised" \in Actions \ ToolActions
    BY DEF Actions, ToolActions
  <2> QED BY <1>0, <1>c, <2>1, <2>2, <2>3 DEF Record
<1>7. CASE Complete(r)
  <2>1. /\ stage[r] = "assembling" /\ stage'[r] = "returned" /\ iteration' = iteration
        /\ Record(r, "investigation_complete", iteration[r], verdict[r])
    BY <1>7, <1>b DEF Complete, loop
  <2>2. \A e \in Entries : TrailAgrees(Append(t, e), Append(h, e), "returned", iteration[r])
    BY <1>0, <1>a, <2>1, TrailGrows
  <2>3. "investigation_complete" \in Actions \ ToolActions
    BY DEF Actions, ToolActions
  <2> QED BY <1>0, <1>c, <2>1, <2>2, <2>3 DEF Record
<1>8. CASE AgentRaises(r)
  <2>1. stage[r] # "new" /\ stage'[r] = "raised" /\ (h)' = h /\ (t)' = t
    BY <1>8, <1>b DEF AgentRaises, h, t, OfRun, TrailOf
  <2>2. TrailAgrees(t, h, "raised", iteration'[r])
    BY <1>a, <2>1 DEF TrailAgrees
  <2> QED BY <1>a, <2>1, <2>2 DEF TrailKept, h, t
<1> QED BY <1>1, <1>2, <1>3, <1>4, <1>5, <1>6, <1>7, <1>8 DEF Run

LEMMA StepKeepsOwners ==
  ASSUME IInv, EntriesAreOwned, NEW r \in Runs, Run(r)
  PROVE  EntriesAreOwned'
<1>1. TypeOK /\ LoopAgrees(r) /\ log \in Seq(Entries)
  BY DEF IInv, TypeOK
<1>2. /\ target' = target /\ stage'[r] # "new"
      /\ \/ log' = log
         \/ \E e \in Entries :
              /\ log' = Append(log, e) /\ e.run = r
              /\ e.action \notin ToolActions => e.case_id = target[r]
  BY <1>1, StepRecords DEF LoopAgrees
<1>3. ASSUME NEW q \in Runs, stage[q] # "new" PROVE stage'[q] # "new"
  BY <1>1, <1>2, <1>3, OtherRunsStay
<1>4. ASSUME NEW k \in DOMAIN log PROVE log[k].run \in Runs
  <2>1. log[k] \in Entries
    BY <1>1
  <2> QED BY <2>1 DEF Entries
<1>5. ASSUME NEW k \in DOMAIN log
      PROVE  /\ stage'[log[k].run] # "new"
             /\ log[k].action \notin ToolActions => log[k].case_id = target[log[k].run]
  BY <1>2, <1>3, <1>4 DEF EntriesAreOwned
<1>6. CASE log' = log
  BY <1>2, <1>5, <1>6 DEF EntriesAreOwned
<1>7. CASE \E e \in Entries :
             /\ log' = Append(log, e) /\ e.run = r
             /\ e.action \notin ToolActions => e.case_id = target[r]
  <2>1. PICK e \in Entries : /\ log' = Append(log, e) /\ e.run = r
                             /\ e.action \notin ToolActions => e.case_id = target[r]
    BY <1>7
  <2>2. ASSUME NEW k \in DOMAIN log'
        PROVE  (k \in DOMAIN log /\ log'[k] = log[k]) \/ log'[k] = e
    BY <1>1, <2>1
  <2> QED BY <1>2, <1>5, <2>1, <2>2 DEF EntriesAreOwned
<1> QED BY <1>2, <1>6, <1>7

\* The trail of a run that has returned.
LEMMA ReturnedTrailIsWhole ==
  ASSUME IInv, NEW r \in Runs, HistoryKept(r), TrailKept(r), stage[r] = "returned"
  PROVE  IsTrail(TrailOf(r), r)
<1> DEFINE h == OfRun(r)
           t == TrailOf(r)
           n == Len(h)
           i == iteration[r]
           start == n - 2 * i
<1>1. /\ LoopUpTo(h, start, i, i, verdict[r])
      /\ Says(h, n, "investigation_complete", i, verdict[r])
  BY DEF HistoryKept, HistoryAgrees
<1>2. Len(t) = 2 * i + 2 /\ Mirrors(t, h)
  BY DEF TrailKept, TrailAgrees
<1>3. n \in Nat /\ i \in Nat
  BY ValuesOfRun DEF HistoryKept, IInv
<1> HIDE DEF h, t, n, i
<1>4. t[1].action = "investigation_started"
  <2>1. h[1].action = Facts[1]
    BY <1>1 DEF LoopUpTo, FactsUpTo, Facts
  <2> QED BY <1>2, <2>1 DEF Mirrors, Facts
<1>5. ASSUME NEW k \in 2 .. 2 * i + 2 PROVE t[k] = h[k + (start - 2)]
  <2>1. Len(h) - Len(t) = start - 2
    BY <1>2, <1>3 DEF n
  <2>2. k \in 2 .. Len(t)
    BY <1>2
  <2> QED BY <1>2, <2>1, <2>2 DEF Mirrors
<1>6. t[2].action = "fact_gathering_complete"
  <2>1. 2 \in 2 .. 2 * i + 2 /\ 2 + (start - 2) = start
    BY <1>3
  <2>2. t[2] = h[start]
    BY <1>5, <2>1
  <2> QED BY <1>1, <2>2 DEF LoopUpTo
<1>7. ASSUME NEW k \in 1 .. i
      PROVE  Says(t, 2 * k + 1, "checklist_evaluated", k, IF k = i THEN verdict[r] ELSE "failed")
  <2>1. 2 * k + 1 \in 2 .. 2 * i + 2 /\ 2 * k + 1 + (start - 2) = start + 2 * k - 1
    BY <1>3
  <2>2. t[2 * k + 1] = h[start + 2 * k - 1]
    BY <1>5, <2>1
  <2>3. Says(h, start + 2 * k - 1, "checklist_evaluated", k,
             IF k = i THEN verdict[r] ELSE "failed")
    BY <1>1 DEF LoopUpTo
  <2> QED BY <2>2, <2>3, Zenon DEF Says
<1>8. ASSUME NEW k \in 2 .. i PROVE Says(t, 2 * k, "draft_revised", k, "none")
  <2>1. 2 * k \in 2 .. 2 * i + 2 /\ 2 * k + (start - 2) = start + 2 * k - 2
    BY <1>3
  <2>2. t[2 * k] = h[start + 2 * k - 2]
    BY <1>5, <2>1
  <2>3. Says(h, start + 2 * k - 2, "draft_revised", k, "none")
    BY <1>1 DEF LoopUpTo
  <2> QED BY <2>2, <2>3, Zenon DEF Says
<1>9. Says(t, Len(t), "investigation_complete", i, verdict[r])
  <2>1. 2 * i + 2 \in 2 .. 2 * i + 2 /\ 2 * i + 2 + (start - 2) = n
    BY <1>3
  <2>2. t[Len(t)] = h[n]
    BY <1>2, <1>5, <2>1
  <2> QED BY <1>1, <2>2, Zenon DEF Says
<1> HIDE DEF start
<1> QED BY <1>2, <1>4, <1>6, <1>7, <1>8, <1>9 DEF IsTrail, Says, t, i

\* The milestones of a case that has had only one run are the trail of that run.
LEMMA MilestonesOfOneRun ==
  ASSUME log \in Seq(Entries), EntriesAreOwned, NEW r \in Runs,
         \A q \in Runs \ {r} : target[q] = target[r] => stage[q] = "new"
  PROVE  Milestones(target[r]) = TrailOf(r)
<1>1. ASSUME NEW k \in DOMAIN log, log[k].action \notin ToolActions
      PROVE  log[k].case_id = target[r] <=> log[k].run = r
  <2>1. log[k] \in Entries
    OBVIOUS
  <2>2. log[k].run \in Runs
    BY <2>1 DEF Entries
  <2>3. stage[log[k].run] # "new" /\ log[k].case_id = target[log[k].run]
    BY <1>1 DEF EntriesAreOwned
  <2> QED BY <2>2, <2>3
<1>2. {k \in DOMAIN log : log[k].case_id = target[r] /\ log[k].action \notin ToolActions}
      = {k \in DOMAIN log : log[k].run = r /\ log[k].action \notin ToolActions}
  BY <1>1
<1> QED BY <1>2 DEF Milestones, TrailOf

------------------------------------------------------------------------------
\* Entries that account for runs.

(***************************************************************************)
(* The entries and the runs of one case, iteration and verdict that are    *)
(* compared, and which of the stages follow an entry of an action.         *)
(***************************************************************************)
IsAbout(e, what, c, i, result) ==
  e.action = what /\ e.case_id = c /\ e.iteration = i /\ e.result = result

HasReached(r, stages, c, i, result) ==
  /\ stage[r] \in stages
  /\ target[r] = c /\ iteration[r] = i /\ verdict[r] = result

Filed(what, c, i, result) == {k \in DOMAIN log : IsAbout(log[k], what, c, i, result)}

RunsAt(stages, c, i, result) == {r \in Runs : HasReached(r, stages, c, i, result)}

Follows(stages, what) ==
  \/ what = "checklist_evaluated" /\ stages = {"assembling", "returned"}
  \/ what = "investigation_complete" /\ stages = {"returned"}

SameSize(S, T) ==
  IsFiniteSet(S) /\ IsFiniteSet(T) /\ Cardinality(S) = Cardinality(T)

Accounted ==
  \A what, stages, c, i, result :
    Follows(stages, what) /\ result \in Final =>
      SameSize(Filed(what, c, i, result), RunsAt(stages, c, i, result))

LEMMA BothGrow ==
  ASSUME NEW S, NEW T, NEW x, NEW y, SameSize(S, T), x \notin S, y \notin T
  PROVE  SameSize(S \cup {x}, T \cup {y})
BY FS_AddElement DEF SameSize

\* The entry of a step, if it is one that is counted, brings its run to the stages
\* that are counted, and no other step does.
LEMMA StepCounts ==
  ASSUME IInv, NEW r \in Runs, Run(r), NEW what, NEW stages, Follows(stages, what),
         NEW c, NEW i, NEW result \in Final
  PROVE  \/ /\ log' = log
            /\ HasReached(r, stages, c, i, result)' <=> HasReached(r, stages, c, i, result)
         \/ \E e \in Entries :
              /\ log' = Append(log, e)
              /\ IF IsAbout(e, what, c, i, result)
                 THEN /\ ~HasReached(r, stages, c, i, result)
                      /\ HasReached(r, stages, c, i, result)'
                 ELSE HasReached(r, stages, c, i, result)'
                      <=> HasReached(r, stages, c, i, result)
<1>0. /\ TypeOK /\ LoopAgrees(r) /\ iteration[r] \in Nat /\ iteration[r] + 1 \in Nat
      /\ target[r] \in CaseIds /\ verdict[r] \in Verdicts /\ "none" \in Verdicts
      /\ 0 \in Nat
  BY ValuesOfRun DEF IInv, TypeOK, Verdicts
<1>a. target' = target
  BY <1>0, StepRecords DEF LoopAgrees
<1>b. ASSUME NEW next, GoTo(r, next) PROVE stage'[r] = next
  BY <1>0, <1>b DEF GoTo, TypeOK
<1>c. ASSUME NEW x \in CaseIds, NEW done \in Actions, NEW j \in Nat, NEW v \in Verdicts,
             log' = Append(log, Entry(r, x, done, j, v))
      PROVE  \E e \in Entries :
               /\ log' = Append(log, e)
               /\ e.case_id = x /\ e.action = done /\ e.iteration = j /\ e.result = v
  <2>1. PICK e : e = Entry(r, x, done, j, v)
    OBVIOUS
  <2>2. /\ e \in Entries
        /\ e.case_id = x /\ e.action = done /\ e.iteration = j /\ e.result = v
    BY <2>1 DEF Entry, Entries
  <2> QED BY <1>c, <2>1, <2>2
\* Stages that are not counted.
<1>d. ASSUME NEW at, at \notin {"assembling", "returned"} PROVE at \notin stages
  BY <1>d DEF Follows
<1>1. CASE \/ Start(r) \/ AnalysePatterns(r) \/ ScreenNames(r) \/ CallTool(r)
           \/ CompleteFacts(r) \/ Revise(r)
  <2>1. /\ stage[r] \notin {"assembling", "returned"}
        /\ stage'[r] \notin {"assembling", "returned"}
    <3>1. CASE CallTool(r)
      BY <3>1 DEF CallTool
    <3> QED BY <1>1, <1>b, <3>1
            DEF Start, AnalysePatterns, ScreenNames, CompleteFacts, Revise
  <2>2. \E x \in CaseIds, j \in Nat, done \in Actions \ {"checklist_evaluated",
                                                      "investigation_complete"} :
          log' = Append(log, Entry(r, x, done, j, "none"))
    BY <1>0, <1>1 DEF Start, AnalysePatterns, ScreenNames, CallTool, CompleteFacts, Revise,
                      Record, Actions, ToolActions
  <2>3. PICK e \in Entries : /\ log' = Append(log, e)
                             /\ e.action \notin {"checklist_evaluated", "investigation_complete"}
    BY <1>0, <1>c, <2>2
  <2>4. ~IsAbout(e, what, c, i, result)
    BY <2>3 DEF IsAbout, Follows
  <2> QED BY <1>d, <2>1, <2>3, <2>4 DEF HasReached
<1>2. CASE FirstDraft(r) \/ AgentRaises(r)
  <2>1. /\ stage[r] \notin {"assembling", "returned"} /\ log' = log
        /\ stage'[r] \notin {"assembling", "returned"}
    BY <1>2, <1>b DEF FirstDraft, AgentRaises
  <2> QED BY <1>d, <2>1 DEF HasReached
<1>3. CASE Review(r)
  <2>1. /\ stage[r] = "reviewing" /\ iteration' = iteration
        /\ Record(r, "checklist_evaluated", iteration[r], verdict'[r])
    BY <1>3 DEF Review
  <2>2. /\ verdict'[r] \in Verdicts
        /\ stage'[r] = IF verdict'[r] \in Final THEN "assembling" ELSE "revising"
    BY <1>0, <1>3, ReviewDecides DEF Verdicts, Final
  <2>3. PICK e \in Entries :
          /\ log' = Append(log, e)
          /\ e.case_id = target[r] /\ e.action = "checklist_evaluated"
          /\ e.iteration = iteration[r] /\ e.result = verdict'[r]
    <3>1. "checklist_evaluated" \in Actions
      BY DEF Actions
    <3> QED BY <1>0, <1>c, <2>1, <2>2, <3>1 DEF Record
  <2>4. ~HasReached(r, stages, c, i, result)
    BY <1>d, <2>1 DEF HasReached
  <2>5. CASE what = "checklist_evaluated"
    <3>1. stages = {"assembling", "returned"}
      BY <2>5 DEF Follows
    <3>2. IsAbout(e, what, c, i, result)
          <=> target[r] = c /\ iteration[r] = i /\ verdict'[r] = result
      BY <2>3, <2>5 DEF IsAbout
    <3>3. HasReached(r, stages, c, i, result)'
          <=> target[r] = c /\ iteration[r] = i /\ verdict'[r] = result
      BY <1>a, <2>1, <2>2, <3>1 DEF HasReached
    <3> QED BY <2>3, <2>4, <3>2, <3>3
  <2>6. CASE what = "investigation_complete"
    <3>1. ~HasReached(r, stages, c, i, result)'
      BY <2>2, <2>6 DEF HasReached, Follows
    <3>2. ~IsAbout(e, what, c, i, result)
      BY <2>3, <2>6 DEF IsAbout
    <3> QED BY <2>3, <2>4, <3>1, <3>2
  <2> QED BY <2>5, <2>6 DEF Follows
<1>4. CASE Complete(r)
  <2>1. /\ stage[r] = "assembling" /\ stage'[r] = "returned"
        /\ iteration' = iteration /\ verdict' = verdict
        /\ Record(r, "investigation_complete", iteration[r], verdict[r])
    BY <1>4, <1>b DEF Complete, loop
  <2>2. PICK e \in Entries :
          /\ log' = Append(log, e)
          /\ e.case_id = target[r] /\ e.action = "investigation_complete"
          /\ e.iteration = iteration[r] /\ e.result = verdict[r]
    <3>1. "investigation_complete" \in Actions
      BY DEF Actions
    <3> QED BY <1>0, <1>c, <2>1, <3>1 DEF Record
  <2>3. CASE what = "checklist_evaluated"
    <3>1. HasReached(r, stages, c, i, result)' <=> HasReached(r, stages, c, i, result)
      BY <1>a, <2>1, <2>3 DEF HasReached, Follows
    <3>2. ~IsAbout(e, what, c, i, result)
      BY <2>2, <2>3 DEF IsAbout
    <3> QED BY <2>2, <3>1, <3>2
  <2>4. CASE what = "investigation_complete"
    <3>1. stages = {"returned"}
      BY <2>4 DEF Follows
    <3>2. ~HasReached(r, stages, c, i, result)
      BY <2>1, <3>1 DEF HasReached
    <3>3. IsAbout(e, what, c, i, result) <=> HasReached(r, stages, c, i, result)'
      BY <1>a, <2>1, <2>2, <2>4, <3>1 DEF IsAbout, HasReached
    <3> QED BY <2>2, <3>2, <3>3
  <2> QED BY <2>3, <2>4 DEF Follows
<1> QED BY <1>1, <1>2, <1>3, <1>4 DEF Run

\* The two sets after a step.
LEMMA StepKeepsAccounts ==
  ASSUME IInv, Accounted, NEW r \in Runs, Run(r)
  PROVE  Accounted'
<1> SUFFICES ASSUME NEW what, NEW stages, NEW c, NEW i, NEW result \in Final,
                    Follows(stages, what)
             PROVE  SameSize(Filed(what, c, i, result), RunsAt(stages, c, i, result))'
  BY DEF Accounted
<1> DEFINE S == Filed(what, c, i, result)
           T == RunsAt(stages, c, i, result)
           Now == HasReached(r, stages, c, i, result)
           n == Len(log)
<1>0. log \in Seq(Entries) /\ TypeOK /\ SameSize(S, T)
  BY DEF IInv, TypeOK, Accounted
<1>1. \A q \in Runs \ {r} :
        HasReached(q, stages, c, i, result)' <=> HasReached(q, stages, c, i, result)
  <2>1. target' = target
    BY <1>0, StepRecords DEF IInv, LoopAgrees
  <2> QED BY <1>0, <2>1, OtherRunsStay DEF HasReached
<1>2. /\ (Now' <=> Now) => (T)' = T
      /\ ~Now /\ Now' => (T)' = T \cup {r} /\ r \notin T
  BY <1>1 DEF RunsAt
<1>3. CASE log' = log /\ (Now' <=> Now)
  <2>1. (S)' = S
    BY <1>3 DEF Filed
  <2> QED BY <1>0, <1>2, <1>3, <2>1 DEF SameSize
<1>4. ASSUME NEW e \in Entries, log' = Append(log, e),
             IF IsAbout(e, what, c, i, result) THEN ~Now /\ Now' ELSE Now' <=> Now
      PROVE  SameSize(S, T)'
  <2>1. /\ n \in Nat /\ DOMAIN log = 1 .. n /\ DOMAIN log' = 1 .. n + 1
        /\ log'[n + 1] = e /\ \A k \in 1 .. n : log'[k] = log[k]
    BY <1>0, <1>4
  <2>2. n + 1 \notin S /\ DOMAIN log' = DOMAIN log \cup {n + 1}
    BY <2>1 DEF Filed
  <2>3. (S)' = IF IsAbout(e, what, c, i, result) THEN S \cup {n + 1} ELSE S
    <3> HIDE DEF n
    <3> QED BY <2>1, <2>2 DEF Filed
  <2> HIDE DEF S, T, Now
  <2>4. CASE IsAbout(e, what, c, i, result)
    <3>1. SameSize(S \cup {n + 1}, T \cup {r})
      BY <1>0, <1>2, <1>4, <2>2, <2>4, BothGrow
    <3> QED BY <1>2, <1>4, <2>3, <2>4, <3>1 DEF SameSize
  <2>5. CASE ~IsAbout(e, what, c, i, result)
    BY <1>0, <1>2, <1>4, <2>3, <2>5 DEF SameSize
  <2> QED BY <2>4, <2>5
<1> QED BY <1>3, <1>4, StepCounts

(***************************************************************************)
(* The invariant of what is filed under the cases.                         *)
(***************************************************************************)
CaseInv ==
  HInv /\ EntriesAreOwned /\ Accounted /\ \A r \in Runs : TrailKept(r)

LEMMA StepKeepsCaseInv == CaseInv /\ [Next]_vars => CaseInv'
<1> SUFFICES ASSUME CaseInv, [Next]_vars PROVE CaseInv'
  OBVIOUS
<1>1. HInv'
  BY StepKeepsHInv DEF CaseInv
<1>2. ASSUME NEW r \in Runs, Run(r) PROVE CaseInv'
  <2>1. EntriesAreOwned' /\ Accounted' /\ TrailKept(r)'
    BY <1>2, StepKeepsOwners, StepKeepsAccounts, StepKeepsTrail DEF CaseInv, HInv
  <2>2. ASSUME NEW q \in Runs, q # r PROVE TrailKept(q)'
    BY <1>2, <2>2, OtherTrailsStay DEF CaseInv, HInv
  <2> QED BY <1>1, <2>1, <2>2 DEF CaseInv
<1>3. CASE UNCHANGED vars
  <2>1. EntriesAreOwned'
    BY <1>3 DEF CaseInv, EntriesAreOwned, vars
  <2>2. Accounted'
    <3>1. ASSUME NEW what, NEW stages, NEW c, NEW i, NEW result
          PROVE  /\ Filed(what, c, i, result)' = Filed(what, c, i, result)
                 /\ RunsAt(stages, c, i, result)' = RunsAt(stages, c, i, result)
      BY <1>3 DEF Filed, RunsAt, HasReached, vars
    <3> QED BY <3>1 DEF CaseInv, Accounted, SameSize
  <2>3. ASSUME NEW r \in Runs PROVE TrailKept(r)'
    BY <1>3 DEF CaseInv, TrailKept, TrailOf, OfRun, vars
  <2> QED BY <1>1, <2>1, <2>2, <2>3 DEF CaseInv
<1> QED BY <1>2, <1>3 DEF Next

LEMMA InitCaseInv == Init => CaseInv
<1> SUFFICES ASSUME Init PROVE CaseInv
  OBVIOUS
<1>1. log = << >> /\ DOMAIN log = {} /\ \A r \in Runs : stage[r] = "new"
  BY DEF Init
<1>2. EntriesAreOwned
  BY <1>1 DEF EntriesAreOwned
<1>3. ASSUME NEW what, NEW stages, NEW c, NEW i, NEW result, Follows(stages, what)
      PROVE  SameSize(Filed(what, c, i, result), RunsAt(stages, c, i, result))
  <2>1. Filed(what, c, i, result) = {}
    BY <1>1 DEF Filed
  <2>2. RunsAt(stages, c, i, result) = {}
    BY <1>1, <1>3 DEF RunsAt, HasReached, Follows
  <2> QED BY <2>1, <2>2, FS_EmptySet DEF SameSize
<1>4. ASSUME NEW r \in Runs PROVE TrailKept(r)
  <2>1. TrailOf(r) = << >>
    BY <1>1, PickedOfNone DEF TrailOf
  <2>2. << >> \in Seq(Entries) /\ Len(<< >>) = 0
    OBVIOUS
  <2>3. TrailAgrees(<< >>, OfRun(r), "new", iteration[r])
    BY <2>2 DEF TrailAgrees
  <2> QED BY <1>1, <2>1, <2>2, <2>3 DEF TrailKept
<1> QED BY <1>2, <1>3, <1>4, InitHInv DEF CaseInv, Accounted

LEMMA CaseInvariance == Spec => []CaseInv
BY InitCaseInv, StepKeepsCaseInv, PTL DEF Spec

(***************************************************************************)
(* The run of a case that has had only one can be read off the entries     *)
(* filed under the case, tools apart, whatever other runs and the agents   *)
(* of all runs record in between: for any number of runs and cases, any    *)
(* cap and any use of tools (crew_definition.py:17-18).                    *)
(***************************************************************************)
THEOREM AloneCasesAreReconstructable == Spec => []AloneIsReconstructable
<1>1. ASSUME CaseInv, NEW r \in Runs, stage[r] = "returned",
             \A q \in Runs \ {r} : target[q] = target[r] => stage[q] = "new"
      PROVE  IsTrail(Milestones(target[r]), r)
  <2>1. Milestones(target[r]) = TrailOf(r)
    BY <1>1, MilestonesOfOneRun DEF CaseInv, HInv, IInv, TypeOK
  <2>2. IsTrail(TrailOf(r), r)
    BY <1>1, ReturnedTrailIsWhole DEF CaseInv, HInv
  <2> QED BY <2>1, <2>2
<1>2. CaseInv => AloneIsReconstructable
  BY <1>1 DEF AloneIsReconstructable
<1> QED BY CaseInvariance, <1>2, PTL

(***************************************************************************)
(* For any number of runs, of one case or of several, what is filed under  *)
(* a case has a closing entry for every report, with its verdict, and for  *)
(* nothing else, and a deciding review for every verdict                   *)
(* (crew_definition.py:196-206, critique_loop.py:125-141).                 *)
(***************************************************************************)
THEOREM CasesAccountForReports == Spec => []ReportsAreAccountedFor
<1>1. ASSUME Accounted, NEW what, NEW stages, Follows(stages, what)
      PROVE  AccountFor(EntriesOf(what), Reached(stages))
  <2> SUFFICES ASSUME NEW c \in Cases, NEW result \in {"passed", "escalated"}, NEW i \in 1 .. Cap
               PROVE  Cardinality({k \in EntriesAbout(EntriesOf(what), c, result) :
                                     log[k].iteration = i})
                      = Cardinality({r \in RunsAbout(Reached(stages), c, result) :
                                       iteration[r] = i})
    BY Zenon DEF AccountFor
  <2>1. {k \in EntriesAbout(EntriesOf(what), c, result) : log[k].iteration = i}
        = Filed(what, c, i, result)
    BY DEF EntriesAbout, EntriesOf, Filed, IsAbout
  <2>2. {r \in RunsAbout(Reached(stages), c, result) : iteration[r] = i}
        = RunsAt(stages, c, i, result)
    BY DEF RunsAbout, Reached, RunsAt, HasReached
  <2>3. Cardinality(Filed(what, c, i, result)) = Cardinality(RunsAt(stages, c, i, result))
    BY <1>1 DEF Accounted, SameSize, Final
  <2> QED BY <2>1, <2>2, <2>3
<1>2. CaseInv => ReportsAreAccountedFor
  BY <1>1 DEF CaseInv, ReportsAreAccountedFor, Follows
<1> QED BY CaseInvariance, <1>2, PTL
================================================================================

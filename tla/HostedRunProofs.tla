---------------------------- MODULE HostedRunProofs ----------------------------
(***************************************************************************)
(* The retries, the latency and the history of runs over a hosted model,   *)
(* proved for any number of runs, any cap, any settings of retries and     *)
(* time-out, and any number of tool calls.                                 *)
(***************************************************************************)
EXTENDS HostedRun, InvestigationProofs

(***************************************************************************)
(* The inductive invariant, for each run: its counters agree with its      *)
(* stage, so that the calls it has made can be counted; what a call under  *)
(* way has cost is bounded by its failed attempts.                         *)
(***************************************************************************)
StageAgrees(r) ==
  /\ stage[r] \in {"new", "analysing", "screening", "explaining", "drafting"} =>
       iteration[r] = 0 /\ reviewed[r] = 0
  /\ stage[r] \in {"new", "analysing", "screening"} => explained[r] = 0
  /\ stage[r] = "explaining" => explained[r] <= 2
  /\ stage[r] = "reviewing" => iteration[r] >= 1 /\ reviewed[r] + 1 = iteration[r]
  /\ stage[r] = "revising" => iteration[r] < Cap /\ reviewed[r] = iteration[r]
  /\ stage[r] = "raised" => explained[r] + iteration[r] + reviewed[r] + 1 <= 3 + 2 * Cap

AttemptsAgree(r) ==
  /\ streak[r] = attempts[r]
  /\ IF stage[r] = "raised" THEN attempts[r] = Permitted ELSE attempts[r] < Permitted
  /\ ~Waiting(r) => stage[r] = "raised" \/ attempts[r] = 0

Answers(r) == explained[r] + called + iteration[r] + reviewed[r]

\* The most that the call under way may have cost.
Charge(r) ==
  IF stage[r] = "raised" THEN CallBudget ELSE attempts[r] * (Timeout + 15)

Latency(r) == elapsed[r] <= Answers(r) * CallBudget + Charge(r)

RunInv(r) == StageAgrees(r) /\ AttemptsAgree(r) /\ Latency(r)

Inv == HostedTypeOK /\ \A r \in Runs : RunInv(r)

------------------------------------------------------------------------------
\* Arithmetic of the budget.

LEMMA Settings ==
  ASSUME HostedTypeOK
  PROVE  /\ max_retries \in Nat /\ Permitted \in Nat \ {0} /\ max_retries <= Permitted
         /\ Timeout \in Nat /\ CallBudget \in Nat
<1>1. max_retries \in Nat /\ Timeout \in Nat
  BY RetrySettingsAssumption, TimeoutAssumption DEF HostedTypeOK
<1>2. Permitted \in Nat \ {0} /\ max_retries <= Permitted
  BY <1>1 DEF Permitted
<1>3. CallBudget \in Nat
  <2>1. ASSUME NEW p \in Nat \ {0}, NEW t \in Nat PROVE p * t + (p - 1) * 15 \in Nat
    OBVIOUS
  <2> QED BY <1>1, <1>2, <2>1 DEF CallBudget
<1> QED BY <1>1, <1>2, <1>3

\* The attempts of one call, the last one included, fit its budget.
LEMMA AttemptsFitBudget ==
  ASSUME HostedTypeOK, NEW k \in Nat, k < Permitted
  PROVE  k * (Timeout + 15) + Timeout <= CallBudget
<1>1. ASSUME NEW p \in Nat, NEW t \in Nat, k < p
      PROVE  k * (t + 15) + t <= p * t + (p - 1) * 15
  <2>1. PICK d \in Nat : p = k + 1 + d
    <3>1. p - k - 1 \in Nat /\ p = k + 1 + (p - k - 1)
      BY <1>1
    <3> QED BY <3>1
  <2>2. p * t = (k + 1) * t + d * t
    BY <2>1
  <2>3. d * t \in Nat /\ k * t \in Nat
    OBVIOUS
  <2>4. (k + 1) * t = k * t + t /\ k * (t + 15) = k * t + k * 15
    OBVIOUS
  <2> QED BY <2>1, <2>2, <2>3, <2>4
<1> QED BY <1>1, Settings DEF CallBudget

LEMMA BackoffIsCapped ==
  ASSUME NEW k \in Nat \ {0}
  PROVE  Backoff(k) \in 0 .. 15
<1>1. k > 4 \/ k = 1 \/ k = 2 \/ k = 3 \/ k = 4
  OBVIOUS
<1> QED BY <1>1 DEF Backoff

------------------------------------------------------------------------------
\* Types.

LEMMA InitInv == HostedInit => Inv
<1> SUFFICES ASSUME HostedInit PROVE Inv
  OBVIOUS
<1>1. HostedTypeOK
  <2>1. TypeOK
    <3>1. 0 \in 0 .. Cap /\ 0 \in 0 .. MaxToolCalls
      BY CapAssumption, ToolCallsAssumption
    <3>2. log \in Seq(Entries)
      BY DEF HostedInit, Init
    <3> QED BY <3>1, <3>2 DEF HostedInit, Init, TypeOK, Stages, Verdicts
  <2> QED BY <2>1 DEF HostedInit, HostedTypeOK
<1>2. ASSUME NEW r \in Runs PROVE RunInv(r)
  <2>1. /\ stage[r] = "new" /\ iteration[r] = 0 /\ reviewed[r] = 0 /\ explained[r] = 0
        /\ attempts[r] = 0 /\ streak[r] = 0 /\ elapsed[r] = 0 /\ called = 0
    BY DEF HostedInit, Init
  <2>2. StageAgrees(r) /\ AttemptsAgree(r)
    BY <1>1, <2>1, Settings DEF StageAgrees, AttemptsAgree
  <2>3. Latency(r)
    <3>1. Answers(r) = 0 /\ Charge(r) = 0
      BY <2>1, TimeoutAssumption DEF Answers, Charge
    <3> QED BY <1>1, <2>1, <3>1, Settings DEF Latency
  <2> QED BY <2>2, <2>3 DEF RunInv
<1> QED BY <1>1, <1>2 DEF Inv

\* The values of a run, as integers.
LEMMA RunValues ==
  ASSUME HostedTypeOK, NEW r \in Runs
  PROVE  /\ iteration[r] \in Nat /\ iteration[r] <= Cap
         /\ reviewed[r] \in Nat /\ reviewed[r] <= Cap
         /\ explained[r] \in Nat /\ explained[r] <= 3
         /\ attempts[r] \in Nat /\ streak[r] \in Nat /\ elapsed[r] \in Nat
         /\ called \in Nat /\ Cap \in Nat \ {0}
         /\ Duration \in Nat /\ Duration <= Timeout
<1>1. /\ iteration[r] \in 0 .. Cap /\ reviewed[r] \in 0 .. Cap /\ called \in 0 .. MaxToolCalls
      /\ explained[r] \in 0 .. 3
  BY DEF HostedTypeOK, TypeOK
<1>2. attempts[r] \in Nat /\ streak[r] \in Nat /\ elapsed[r] \in Nat
  BY DEF HostedTypeOK
<1>3. Duration \in Nat /\ Duration <= Timeout
  BY TimeoutAssumption DEF Duration
<1> QED BY <1>1, <1>2, <1>3, CapAssumption, ToolCallsAssumption

\* What a step of a run leaves alone.
LEMMA Frame ==
  ASSUME HostedTypeOK, NEW r \in Runs, HostedStep(r), NEW q \in Runs, q # r
  PROVE  /\ stage'[q] = stage[q] /\ iteration'[q] = iteration[q]
         /\ reviewed'[q] = reviewed[q] /\ explained'[q] = explained[q]
         /\ attempts'[q] = attempts[q] /\ streak'[q] = streak[q] /\ elapsed'[q] = elapsed[q]
         /\ max_retries' = max_retries /\ called' \in {called, called + 1}
<1> USE DEF HostedTypeOK, TypeOK
<1>1. CASE Compute(r)
  BY <1>1 DEF Compute, Start, AnalysePatterns, ScreenNames, Complete, GoTo, loop, calls
<1>2. CASE Explain(r)
  BY <1>2 DEF Explain, CompleteFacts, Answered, Spend, GoTo, loop, vars
<1>3. CASE UseTool(r)
  BY <1>3 DEF UseTool, CallTool, AskForUnknownCase, Answered, Spend, loop
<1>4. CASE Critique(r)
  BY <1>4 DEF Critique, FirstDraft, Review, Revise, Answered, Spend, GoTo
<1>5. CASE Retry(r)
  BY <1>5 DEF Retry, Failure, Spend, vars
<1>6. CASE GiveUp(r)
  BY <1>6 DEF GiveUp, Failure, AgentRaises, Spend, GoTo, loop
<1> QED BY <1>1, <1>2, <1>3, <1>4, <1>5, <1>6 DEF HostedStep

LEMMA StepKeepsTypes ==
  ASSUME Inv, NEW r \in Runs, HostedStep(r)
  PROVE  HostedTypeOK'
<1>0. HostedTypeOK /\ RunInv(r) /\ StageAgrees(r)
  BY DEF Inv, RunInv
<1>1. TypeOK'
  <2>0. TypeOK
    BY <1>0 DEF HostedTypeOK
  <2>1. CASE Run(r)
    BY <1>0, <2>0, <2>1, RunKeepsTypes DEF StageAgrees
  <2>2. CASE AskForUnknownCase(r)
    <3>1. called' \in 0 .. MaxToolCalls
      BY <2>0, <2>2, ValuesOfRun DEF AskForUnknownCase
    <3> QED BY <2>0, <2>2, <3>1 DEF TypeOK, AskForUnknownCase, loop
  <2>3. CASE UNCHANGED vars
    BY <2>0, <2>3 DEF TypeOK, vars
  <2>4. Run(r) \/ AskForUnknownCase(r) \/ UNCHANGED vars
    BY DEF HostedStep, Compute, Explain, UseTool, Critique, Retry, GiveUp, Run
  <2> QED BY <2>1, <2>2, <2>3, <2>4
<1>2. max_retries' = max_retries
  BY DEF HostedStep, Compute, Explain, UseTool, Critique, Retry, GiveUp, Answered
<1>3. explained' \in [Runs -> 0 .. 3]
  <2>1. CASE Explain(r)
    <3>1. explained[r] + 1 \in 0 .. 3
      BY <1>0, <2>1, RunValues DEF Explain, StageAgrees
    <3> QED BY <1>0, <2>1, <3>1 DEF Explain, HostedTypeOK
  <2>2. CASE ~Explain(r)
    BY <1>0, <2>2 DEF HostedStep, Compute, UseTool, Critique, Retry, GiveUp, HostedTypeOK
  <2> QED BY <2>1, <2>2
<1>4. attempts' \in [Runs -> Nat] /\ streak' \in [Runs -> Nat]
  <2>1. attempts[r] + 1 \in Nat /\ streak[r] + 1 \in Nat
    BY <1>0, RunValues
  <2> QED BY <1>0, <2>1 DEF HostedStep, Compute, Explain, UseTool, Critique, Retry, GiveUp,
                            Answered, Failure, HostedTypeOK, calls
<1>5. elapsed' \in [Runs -> Nat]
  <2>1. elapsed[r] + Duration \in Nat
    BY <1>0, RunValues
  <2>2. elapsed[r] + (Duration + Backoff(attempts[r] + 1)) \in Nat
    <3>1. attempts[r] + 1 \in Nat \ {0}
      BY <1>0, RunValues
    <3>2. Backoff(attempts[r] + 1) \in 0 .. 15
      BY <3>1, BackoffIsCapped
    <3> QED BY <1>0, <3>2, RunValues
  <2>3. CASE Retry(r)
    BY <1>0, <2>2, <2>3 DEF Retry, Spend, HostedTypeOK
  <2>4. CASE ~Retry(r)
    BY <1>0, <2>1, <2>4 DEF HostedStep, Compute, Explain, UseTool, Critique, GiveUp,
                            Answered, Spend, HostedTypeOK, calls
  <2> QED BY <2>3, <2>4
<1> QED BY <1>0, <1>1, <1>2, <1>3, <1>4, <1>5 DEF HostedTypeOK

------------------------------------------------------------------------------
\* The runs a step leaves alone.

LEMMA OthersKeepInv ==
  ASSUME Inv, NEW r \in Runs, HostedStep(r), NEW q \in Runs, q # r
  PROVE  RunInv(q)'
<1>0. HostedTypeOK /\ RunInv(q)
  BY DEF Inv
<1>1. /\ stage'[q] = stage[q] /\ iteration'[q] = iteration[q]
      /\ reviewed'[q] = reviewed[q] /\ explained'[q] = explained[q]
      /\ attempts'[q] = attempts[q] /\ streak'[q] = streak[q] /\ elapsed'[q] = elapsed[q]
      /\ max_retries' = max_retries /\ called' \in {called, called + 1}
  BY <1>0, Frame
<1>2. StageAgrees(q)'
  BY <1>0, <1>1 DEF RunInv, StageAgrees
<1>3. AttemptsAgree(q)'
  BY <1>0, <1>1 DEF RunInv, AttemptsAgree, Permitted, Waiting
<1>4. Latency(q)'
  <2>1. CallBudget' = CallBudget /\ Charge(q)' = Charge(q)
    BY <1>1 DEF CallBudget, Permitted, Charge
  <2>2. Answers(q) \in Nat /\ Answers(q)' \in {Answers(q), Answers(q) + 1}
    BY <1>0, <1>1, RunValues DEF Answers
  <2>3. CallBudget \in Nat /\ Charge(q) \in Nat /\ elapsed[q] \in Nat
    BY <1>0, Settings, RunValues DEF Charge
  <2>4. elapsed[q] <= Answers(q) * CallBudget + Charge(q)
    BY <1>0 DEF RunInv, Latency
  <2>5. Answers(q) * CallBudget <= Answers(q)' * CallBudget
    <3>1. ASSUME NEW a \in Nat, NEW b \in Nat PROVE a * b <= (a + 1) * b
      OBVIOUS
    <3> QED BY <2>2, <2>3, <3>1
  <2>6. elapsed[q] <= Answers(q)' * CallBudget + Charge(q)
    <3>1. Answers(q) * CallBudget \in Nat /\ Answers(q)' * CallBudget \in Nat
      BY <2>2, <2>3
    <3> QED BY <2>3, <2>4, <2>5, <3>1
  <2> QED BY <1>1, <2>1, <2>6 DEF Latency
<1> QED BY <1>2, <1>3, <1>4 DEF RunInv

------------------------------------------------------------------------------
\* The run that takes the step.

\* A step that asks no model.
LEMMA ComputeKeepsInv ==
  ASSUME Inv, NEW r \in Runs, Compute(r)
  PROVE  RunInv(r)'
<1>0. HostedTypeOK /\ RunInv(r) /\ TypeOK
  BY DEF Inv, HostedTypeOK
<1>1. /\ iteration'[r] = iteration[r] /\ reviewed'[r] = reviewed[r]
      /\ explained'[r] = explained[r] /\ called' = called /\ max_retries' = max_retries
      /\ attempts'[r] = attempts[r] /\ streak'[r] = streak[r] /\ elapsed'[r] = elapsed[r]
  BY DEF Compute, Start, AnalysePatterns, ScreenNames, Complete, loop, calls
<1>2. \/ stage[r] = "new" /\ stage'[r] = "analysing"
      \/ stage[r] = "analysing" /\ stage'[r] = "screening"
      \/ stage[r] = "screening" /\ stage'[r] = "explaining"
      \/ stage[r] = "assembling" /\ stage'[r] = "returned"
  <2>1. ASSUME NEW next, GoTo(r, next) PROVE stage'[r] = next
    BY <1>0, <2>1 DEF GoTo, TypeOK
  <2>2. \/ stage[r] = "new" /\ GoTo(r, "analysing")
        \/ stage[r] = "analysing" /\ GoTo(r, "screening")
        \/ stage[r] = "screening" /\ GoTo(r, "explaining")
        \/ stage[r] = "assembling" /\ GoTo(r, "returned")
    BY DEF Compute, Start, AnalysePatterns, ScreenNames, Complete
  <2> QED BY <2>1, <2>2, Zenon
<1>3. StageAgrees(r)'
  BY <1>0, <1>1, <1>2 DEF RunInv, StageAgrees
<1>4. AttemptsAgree(r)'
  BY <1>0, <1>1, <1>2 DEF RunInv, AttemptsAgree, Permitted, Waiting
<1>5. Latency(r)'
  BY <1>0, <1>1, <1>2 DEF RunInv, Latency, Answers, Charge, CallBudget, Permitted
<1> QED BY <1>3, <1>4, <1>5 DEF RunInv

\* An answer: the run goes on, and the call stays within its budget.
LEMMA AnswersKeepInv ==
  ASSUME Inv, NEW r \in Runs, Explain(r) \/ UseTool(r) \/ Critique(r)
  PROVE  RunInv(r)'
<1>0. HostedTypeOK /\ RunInv(r) /\ TypeOK
  BY DEF Inv, HostedTypeOK
<1>1. Answered(r)
  BY DEF Explain, UseTool, Critique
<1>2. /\ attempts'[r] = 0 /\ streak'[r] = 0 /\ elapsed'[r] = elapsed[r] + Duration
      /\ max_retries' = max_retries
  BY <1>0, <1>1 DEF Answered, Spend, HostedTypeOK
<1>3. /\ stage[r] # "raised" /\ stage'[r] # "raised"
      /\ StageAgrees(r)'
      /\ Answers(r)' = Answers(r) + 1
  <2>0. /\ iteration[r] \in Nat /\ reviewed[r] \in Nat /\ explained[r] \in Nat /\ called \in Nat
        /\ Cap \in Nat \ {0} /\ iteration[r] <= Cap /\ StageAgrees(r)
    BY <1>0, RunValues DEF RunInv
  <2>1. CASE Explain(r) /\ explained[r] # 2
    <3>1. /\ stage[r] = "explaining" /\ stage'[r] = "explaining"
          /\ iteration'[r] = iteration[r] /\ reviewed'[r] = reviewed[r] /\ called' = called
          /\ explained'[r] = explained[r] + 1
      BY <1>0, <2>1 DEF Explain, vars, HostedTypeOK
    <3> QED BY <2>0, <2>1, <3>1 DEF StageAgrees, Answers
  <2>2. CASE Explain(r) /\ explained[r] = 2
    <3>1. /\ stage[r] = "explaining" /\ stage'[r] = "drafting"
          /\ iteration'[r] = iteration[r] /\ reviewed'[r] = reviewed[r] /\ called' = called
          /\ explained'[r] = explained[r] + 1
      BY <1>0, <2>2 DEF Explain, CompleteFacts, GoTo, loop, HostedTypeOK, TypeOK
    <3> QED BY <2>0, <2>2, <3>1 DEF StageAgrees, Answers
  <2>3. CASE UseTool(r)
    <3>1. /\ stage[r] = "explaining" /\ stage'[r] = "explaining"
          /\ iteration'[r] = iteration[r] /\ reviewed'[r] = reviewed[r] /\ called' = called + 1
          /\ explained'[r] = explained[r]
      BY <2>3 DEF UseTool, CallTool, AskForUnknownCase, loop
    <3> QED BY <2>0, <3>1 DEF StageAgrees, Answers
  <2>4. CASE Critique(r) /\ FirstDraft(r)
    <3>1. /\ stage[r] = "drafting" /\ stage'[r] = "reviewing"
          /\ iteration'[r] = 1 /\ reviewed'[r] = reviewed[r] /\ called' = called
          /\ explained'[r] = explained[r]
      BY <1>0, <2>4 DEF Critique, FirstDraft, GoTo, TypeOK
    <3> QED BY <2>0, <3>1 DEF StageAgrees, Answers
  <2>5. CASE Critique(r) /\ Review(r)
    <3>1. /\ stage[r] = "reviewing" /\ stage'[r] \in {"revising", "assembling"}
          /\ iteration'[r] = iteration[r] /\ reviewed'[r] = iteration[r] /\ called' = called
          /\ explained'[r] = explained[r]
      BY <1>0, <2>5 DEF Critique, Review, GoTo, TypeOK
    <3>2. stage'[r] = "revising" => iteration[r] < Cap
      <4>1. PICK passed \in BOOLEAN :
              /\ verdict' = [verdict EXCEPT ![r] = VerdictOf(passed, iteration[r])]
              /\ GoTo(r, IF verdict'[r] = "failed" THEN "revising" ELSE "assembling")
        BY <2>5 DEF Review
      <4>2. verdict'[r] = VerdictOf(passed, iteration[r])
        BY <1>0, <4>1 DEF TypeOK
      <4>3. stage'[r] = IF verdict'[r] = "failed" THEN "revising" ELSE "assembling"
        BY <1>0, <4>1 DEF GoTo, TypeOK
      <4>4. ~(iteration[r] >= Cap) \/ verdict'[r] # "failed"
        BY <4>2 DEF VerdictOf
      <4> QED BY <2>0, <4>3, <4>4
    <3> QED BY <2>0, <3>1, <3>2 DEF StageAgrees, Answers
  <2>6. CASE Critique(r) /\ Revise(r)
    <3>1. /\ stage[r] = "revising" /\ stage'[r] = "reviewing"
          /\ iteration'[r] = iteration[r] + 1 /\ reviewed'[r] = reviewed[r] /\ called' = called
          /\ explained'[r] = explained[r]
      BY <1>0, <2>6 DEF Critique, Revise, GoTo, TypeOK
    <3> QED BY <2>0, <3>1 DEF StageAgrees, Answers
  <2> QED BY <2>1, <2>2, <2>3, <2>4, <2>5, <2>6 DEF Critique
<1>4. AttemptsAgree(r)'
  <2>1. Permitted' = Permitted /\ 0 < Permitted
    BY <1>0, <1>2, Settings DEF Permitted
  <2> QED BY <1>2, <1>3, <2>1 DEF AttemptsAgree
<1>5. Latency(r)'
  <2>1. CallBudget' = CallBudget /\ Charge(r)' = 0
    BY <1>2, <1>3, TimeoutAssumption DEF CallBudget, Permitted, Charge
  <2>2. attempts[r] * (Timeout + 15) + Timeout <= CallBudget
    BY <1>0, <1>3, RunValues, AttemptsFitBudget DEF RunInv, AttemptsAgree
  <2>3. elapsed[r] <= Answers(r) * CallBudget + attempts[r] * (Timeout + 15)
    BY <1>0, <1>3 DEF RunInv, Latency, Charge
  <2>4. /\ CallBudget \in Nat /\ Answers(r) \in Nat /\ elapsed[r] \in Nat /\ Duration \in Nat
        /\ Duration <= Timeout /\ Timeout \in Nat /\ attempts[r] * (Timeout + 15) \in Nat
    BY <1>0, Settings, RunValues DEF Answers
  <2>5. (Answers(r) + 1) * CallBudget = Answers(r) * CallBudget + CallBudget
        /\ Answers(r) * CallBudget \in Nat
    BY <2>4
  <2>6. elapsed[r] + Duration <= (Answers(r) + 1) * CallBudget
    BY <2>2, <2>3, <2>4, <2>5
  <2>7. elapsed'[r] <= Answers(r)' * CallBudget' + Charge(r)'
    <3>1. (Answers(r) + 1) * CallBudget \in Nat
      BY <2>4
    <3> QED BY <1>2, <1>3, <2>1, <2>6, <3>1
  <2> QED BY <2>7 DEF Latency
<1> QED BY <1>3, <1>4, <1>5 DEF RunInv

\* A failed attempt, repeated or the last one.
LEMMA FailuresKeepInv ==
  ASSUME Inv, NEW r \in Runs, Retry(r) \/ GiveUp(r)
  PROVE  RunInv(r)'
<1>0. HostedTypeOK /\ RunInv(r) /\ TypeOK
  BY DEF Inv, HostedTypeOK
<1>1. /\ Waiting(r) /\ stage[r] # "raised"
      /\ attempts'[r] = attempts[r] + 1 /\ streak'[r] = streak[r] + 1
      /\ Duration = Timeout
  BY <1>0 DEF Retry, GiveUp, Failure, Waiting, HostedTypeOK, Duration
<1>2. /\ iteration' = iteration /\ reviewed' = reviewed /\ explained' = explained
      /\ called' = called /\ max_retries' = max_retries
  BY DEF Retry, GiveUp, AgentRaises, vars, loop
<1>3. /\ max_retries \in Nat /\ Permitted \in Nat \ {0} /\ Timeout \in Nat
      /\ CallBudget \in Nat /\ Answers(r) \in Nat /\ elapsed[r] \in Nat
      /\ attempts[r] \in Nat /\ streak[r] = attempts[r] /\ attempts[r] < Permitted
      /\ Permitted' = Permitted /\ CallBudget' = CallBudget /\ Answers(r)' = Answers(r)
  BY <1>0, <1>1, <1>2, Settings, RunValues
     DEF RunInv, AttemptsAgree, Answers, CallBudget, Permitted
<1>4. elapsed[r] <= Answers(r) * CallBudget + attempts[r] * (Timeout + 15)
  BY <1>0, <1>1 DEF RunInv, Latency, Charge
<1>5. CASE Retry(r)
  <2>1. stage' = stage
    BY <1>5 DEF Retry, vars
  <2>2. StageAgrees(r)'
    BY <1>0, <1>2, <2>1 DEF RunInv, StageAgrees
  <2>3. attempts[r] + 1 < max_retries
    BY <1>3, <1>5 DEF Retry, IsLastAttempt
  <2>4. AttemptsAgree(r)'
    <3>1. attempts[r] + 1 < Permitted
      BY <1>0, <1>3, <2>3, Settings
    <3> QED BY <1>1, <1>3, <2>1, <3>1 DEF AttemptsAgree, Waiting
  <2>5. Latency(r)'
    <3>1. elapsed'[r] = elapsed[r] + (Timeout + Backoff(attempts[r] + 1))
      BY <1>0, <1>1, <1>5 DEF Retry, Spend, HostedTypeOK
    <3>2. Backoff(attempts[r] + 1) \in 0 .. 15
      BY <1>3, BackoffIsCapped
    <3>3. (attempts[r] + 1) * (Timeout + 15) = attempts[r] * (Timeout + 15) + Timeout + 15
          /\ attempts[r] * (Timeout + 15) \in Nat /\ Answers(r) * CallBudget \in Nat
      BY <1>3
    <3>4. elapsed'[r] <= Answers(r) * CallBudget + (attempts[r] + 1) * (Timeout + 15)
      BY <1>3, <1>4, <3>1, <3>2, <3>3
    <3>5. Charge(r)' = (attempts[r] + 1) * (Timeout + 15)
      BY <1>1, <2>1 DEF Charge
    <3> QED BY <1>3, <3>4, <3>5 DEF Latency
  <2> QED BY <2>2, <2>4, <2>5 DEF RunInv
<1>6. CASE GiveUp(r)
  <2>1. stage'[r] = "raised"
    BY <1>0, <1>6 DEF GiveUp, AgentRaises, GoTo, TypeOK
  <2>2. StageAgrees(r)'
    <3>1. explained[r] + iteration[r] + reviewed[r] + 1 <= 3 + 2 * Cap
      BY <1>0, <1>1, RunValues DEF RunInv, StageAgrees, Waiting
    <3> QED BY <1>2, <2>1, <3>1 DEF StageAgrees
  <2>3. AttemptsAgree(r)'
    <3>1. attempts[r] + 1 >= max_retries
      BY <1>6 DEF GiveUp, IsLastAttempt
    <3>2. attempts[r] + 1 = Permitted
      BY <1>3, <3>1 DEF Permitted
    <3> QED BY <1>1, <1>3, <2>1, <3>2 DEF AttemptsAgree
  <2>4. Latency(r)'
    <3>1. elapsed'[r] = elapsed[r] + Timeout
      BY <1>0, <1>1, <1>6 DEF GiveUp, Spend, HostedTypeOK
    <3>2. attempts[r] * (Timeout + 15) + Timeout <= CallBudget
      BY <1>0, <1>3, AttemptsFitBudget
    <3>3. attempts[r] * (Timeout + 15) \in Nat /\ Answers(r) * CallBudget \in Nat
      BY <1>3
    <3>4. elapsed'[r] <= Answers(r) * CallBudget + CallBudget
      BY <1>3, <1>4, <3>1, <3>2, <3>3
    <3>5. Charge(r)' = CallBudget
      BY <1>3, <2>1 DEF Charge
    <3> QED BY <1>3, <3>4, <3>5 DEF Latency
  <2> QED BY <2>2, <2>3, <2>4 DEF RunInv
<1> QED BY <1>5, <1>6

------------------------------------------------------------------------------
\* The invariant, and what follows from it.

LEMMA StepKeepsInv == Inv /\ [HostedNext]_allVars => Inv'
<1> SUFFICES ASSUME Inv, [HostedNext]_allVars PROVE Inv'
  OBVIOUS
<1>1. ASSUME NEW r \in Runs, HostedStep(r) PROVE Inv'
  <2>1. RunInv(r)'
    BY <1>1, ComputeKeepsInv, AnswersKeepInv, FailuresKeepInv DEF HostedStep
  <2>2. ASSUME NEW q \in Runs, q # r PROVE RunInv(q)'
    BY <1>1, <2>2, OthersKeepInv
  <2>3. HostedTypeOK'
    BY <1>1, StepKeepsTypes
  <2> QED BY <2>1, <2>2, <2>3 DEF Inv
<1>2. CASE UNCHANGED allVars
  BY <1>2 DEF Inv, HostedTypeOK, TypeOK, RunInv, StageAgrees, AttemptsAgree, Waiting,
              Latency, Answers, Charge, CallBudget, Permitted, allVars, vars, calls
<1> QED BY <1>1, <1>2 DEF HostedNext

LEMMA HostedInvariance == HostedSpec => []Inv
BY InitInv, StepKeepsInv, PTL DEF HostedSpec

(***************************************************************************)
(* The counters of attempts, of seconds and of tasks keep their types; in  *)
(* particular no run does a fourth fact-finding task (crew_definition.py). *)
(***************************************************************************)
THEOREM HostedTypeCorrect == HostedSpec => []HostedTypeOK
<1>1. Inv => HostedTypeOK
  BY DEF Inv
<1> QED BY HostedInvariance, <1>1, PTL

(***************************************************************************)
(* Whatever the setting, a run is given up exactly after the permitted     *)
(* number of failures in a row of one call (llm.py:241-258).               *)
(***************************************************************************)
THEOREM ErrorsAreOvercome == HostedSpec => []TransientErrorsAreOvercome
<1>1. Inv => TransientErrorsAreOvercome
  BY DEF Inv, RunInv, AttemptsAgree, TransientErrorsAreOvercome
<1> QED BY HostedInvariance, <1>1, PTL

(***************************************************************************)
(* Whatever the settings and the cap, the seconds a run spends on calls    *)
(* are within the budgets of its calls, and the calls are counted by the   *)
(* tasks, the cap and the uses of tools (routes.py:6-8).                   *)
(***************************************************************************)
THEOREM LatencyIsBounded == HostedSpec => []RunIsLatencyBounded
<1>1. ASSUME Inv, NEW r \in Runs
      PROVE  LET answered == explained[r] + called + iteration[r] + reviewed[r]
                 asked    == IF Waiting(r) \/ stage[r] = "raised"
                             THEN answered + 1 ELSE answered
             IN  /\ elapsed[r] <= asked * CallBudget
                 /\ asked <= 3 + 2 * Cap + called
  <2> DEFINE asked == IF Waiting(r) \/ stage[r] = "raised" THEN Answers(r) + 1 ELSE Answers(r)
  <2>1. HostedTypeOK /\ RunInv(r)
    BY <1>1 DEF Inv
  <2>2. /\ Answers(r) \in Nat /\ CallBudget \in Nat /\ elapsed[r] \in Nat
        /\ attempts[r] \in Nat /\ Timeout \in Nat
    BY <2>1, RunValues, Settings DEF Answers
  <2>3. asked <= 3 + 2 * Cap + called
    BY <2>1, RunValues DEF RunInv, StageAgrees, Answers, Waiting
  <2>4. elapsed[r] <= asked * CallBudget
    <3>1. elapsed[r] <= Answers(r) * CallBudget + Charge(r)
      BY <2>1 DEF RunInv, Latency
    <3>2. (Answers(r) + 1) * CallBudget = Answers(r) * CallBudget + CallBudget
          /\ Answers(r) * CallBudget \in Nat
      BY <2>2
    <3>3. CASE stage[r] = "raised"
      BY <2>2, <3>1, <3>2, <3>3 DEF Charge
    <3>4. CASE Waiting(r) /\ stage[r] # "raised"
      <4>1. attempts[r] * (Timeout + 15) + Timeout <= CallBudget
        BY <2>1, <2>2, <3>4, AttemptsFitBudget DEF RunInv, AttemptsAgree
      <4>2. Charge(r) = attempts[r] * (Timeout + 15) /\ Charge(r) \in Nat
        BY <2>2, <3>4 DEF Charge
      <4>3. Charge(r) <= CallBudget
        BY <2>2, <4>1, <4>2
      <4> QED BY <2>2, <3>1, <3>2, <3>4, <4>2, <4>3
    <3>5. CASE ~Waiting(r) /\ stage[r] # "raised"
      <4>1. Charge(r) = 0
        BY <2>1, <2>2, <3>5 DEF Charge, RunInv, AttemptsAgree
      <4> QED BY <2>2, <3>1, <3>5, <4>1
    <3> QED BY <3>3, <3>4, <3>5
  <2> QED BY <2>3, <2>4 DEF Answers
<1>2. Inv => RunIsLatencyBounded
  BY <1>1 DEF RunIsLatencyBounded
<1> QED BY HostedInvariance, <1>2, PTL

------------------------------------------------------------------------------
\* The histories of runs over a hosted model.

(***************************************************************************)
(* The part of the invariant about histories: what the property says of    *)
(* them, and that the screening tool has not been used before its agent's  *)
(* turn.  The rest is the invariant of Investigation.                      *)
(***************************************************************************)
ToolsInOrder(h) ==
  \A j, k \in DOMAIN h :
    j < k /\ k > 3 =>
      /\ ~(/\ j > 3 /\ h[j].action = "watchlist_screening_computed"
           /\ h[k].action = "pattern_analysis_computed")
      /\ ~(h[j].action = "fact_gathering_complete" /\ h[k].action \in ToolActions)

ToolsKept(r) ==
  /\ ToolsInOrder(OfRun(r))
  /\ stage[r] = "explaining" /\ explained[r] <= 1 =>
       \A k \in DOMAIN OfRun(r) : k > 3 => OfRun(r)[k].action # "watchlist_screening_computed"

HostedHInv == Inv /\ HInv /\ \A r \in Runs : ToolsKept(r)

\* An entry that keeps a history in order.
LEMMA EntryInOrder ==
  ASSUME NEW h \in Seq(Entries), NEW e \in Entries, ToolsInOrder(h),
         \/ Len(h) < 3
         \/ e.action \notin ToolActions
         \/ /\ \A j \in DOMAIN h : h[j].action # "fact_gathering_complete"
            /\ \/ e.action # "pattern_analysis_computed"
               \/ \A j \in DOMAIN h : j > 3 => h[j].action # "watchlist_screening_computed"
  PROVE  ToolsInOrder(Append(h, e))
<1> DEFINE g == Append(h, e)
           n == Len(h)
<1>1. /\ n \in Nat /\ DOMAIN h = 1 .. n /\ DOMAIN g = 1 .. n + 1 /\ g[n + 1] = e
      /\ \A k \in 1 .. n : g[k] = h[k]
  OBVIOUS
<1> HIDE DEF g
<1> SUFFICES ASSUME NEW j \in 1 .. n + 1, NEW k \in 1 .. n + 1, j < k, k > 3
             PROVE  /\ ~(/\ j > 3 /\ g[j].action = "watchlist_screening_computed"
                         /\ g[k].action = "pattern_analysis_computed")
                    /\ ~(g[j].action = "fact_gathering_complete" /\ g[k].action \in ToolActions)
  BY <1>1 DEF ToolsInOrder, g
<1>2. j \in 1 .. n /\ g[j] = h[j]
  BY <1>1
<1>3. CASE k \in 1 .. n
  BY <1>1, <1>2, <1>3 DEF ToolsInOrder
<1>4. CASE k = n + 1
  <2>1. "pattern_analysis_computed" \in ToolActions
    BY DEF ToolActions
  <2> QED BY <1>1, <1>2, <1>4, <2>1
<1> QED BY <1>1, <1>3, <1>4

\* While the facts are explained, only they and the tools have been recorded.
LEMMA FactsOnlyWhileExplaining ==
  ASSUME NEW h \in Seq(Entries), NEW i, NEW last, HistoryAgrees(h, "explaining", i, last)
  PROVE  \A j \in DOMAIN h : h[j].action # "fact_gathering_complete"
<1>1. FactsUpTo(h, Len(h)) /\ Len(h) \in Nat /\ DOMAIN h = 1 .. Len(h)
  BY DEF HistoryAgrees
<1>2. /\ Len(Facts) = 3 /\ Facts[1] = "investigation_started"
      /\ Facts[2] = "pattern_analysis_computed" /\ Facts[3] = "watchlist_screening_computed"
  BY DEF Facts
<1> SUFFICES ASSUME NEW j \in 1 .. Len(h) PROVE h[j].action # "fact_gathering_complete"
  BY <1>1
<1>3. j \in 1 .. 3 \/ j \in 4 .. Len(h)
  BY <1>1
<1>4. CASE j \in 1 .. 3
  <2>1. h[j].action = Facts[j]
    BY <1>1, <1>2, <1>4 DEF FactsUpTo
  <2>2. j = 1 \/ j = 2 \/ j = 3
    BY <1>4
  <2> QED BY <1>2, <2>1, <2>2
<1>5. CASE j \in 4 .. Len(h)
  BY <1>1, <1>2, <1>5 DEF FactsUpTo, ToolActions
<1> QED BY <1>3, <1>4, <1>5

\* The entry of a step, and its action.
LEMMA ActionsRecorded ==
  ASSUME HostedHInv, NEW r \in Runs, HostedStep(r)
  PROVE  \/ log' = log
         \/ \E e \in Entries :
              /\ log' = Append(log, e) /\ e.run = r
              /\ \/ stage[r] \in {"new", "analysing", "screening"}
                 \/ stage[r] = "explaining" /\ e.action \in ToolsOf(explained[r] + 1)
                 \/ e.action \notin ToolActions
<1>0. TypeOK /\ LoopAgrees(r) /\ log \in Seq(Entries)
  BY DEF HostedHInv, HInv, IInv, TypeOK
<1>a. ASSUME Run(r) PROVE log' = log \/ \E e \in Entries : log' = Append(log, e) /\ e.run = r
  BY <1>0, <1>a, StepRecords DEF LoopAgrees
<1>b. ASSUME NEW e, NEW f, Append(log, e) = Append(log, f) PROVE e = f
  <2>1. Append(log, e)[Len(log) + 1] = e /\ Append(log, f)[Len(log) + 1] = f
    BY <1>0
  <2> QED BY <1>b, <2>1
\* What is recorded is not a tool's.
<1>c. ASSUME Run(r), NEW what, NEW i, NEW result, Record(r, what, i, result),
             what \notin ToolActions
      PROVE  \E e \in Entries : log' = Append(log, e) /\ e.run = r /\ e.action \notin ToolActions
  <2>1. log' = Append(log, Entry(r, target[r], what, i, result))
    BY <1>c DEF Record
  <2>2. log' # log
    <3>1. Len(log') # Len(log)
      BY <1>0, <2>1
    <3> QED BY <3>1
  <2>3. PICK e \in Entries : log' = Append(log, e) /\ e.run = r
    BY <1>a, <1>c, <2>2
  <2>4. e = Entry(r, target[r], what, i, result)
    BY <1>b, <2>1, <2>3
  <2>5. e.action = what
    BY <2>4 DEF Entry
  <2> QED BY <1>c, <2>3, <2>5
<1>1. CASE Start(r) \/ AnalysePatterns(r) \/ ScreenNames(r)
  BY <1>1, <1>a DEF Run, Start, AnalysePatterns, ScreenNames
<1>2. CASE CallTool(r) /\ Last(log').action \in ToolsOf(explained[r] + 1)
  <2>1. PICK c \in CaseIds, what \in ToolActions : log' = Append(log, Entry(r, c, what, 0, "none"))
    BY <1>2 DEF CallTool
  <2>2. Entry(r, c, what, 0, "none") \in Entries /\ Entry(r, c, what, 0, "none").run = r
    BY DEF Entry, Entries, ToolActions, Actions, Verdicts
  <2>3. Last(log') = Entry(r, c, what, 0, "none")
    BY <1>0, <2>1 DEF Last
  <2> QED BY <1>2, <2>1, <2>2, <2>3 DEF CallTool
<1>3. CASE CompleteFacts(r) \/ Review(r) \/ Revise(r) \/ Complete(r)
  <2>1. \E what \in {"fact_gathering_complete", "checklist_evaluated", "draft_revised",
                     "investigation_complete"} : \E i, result : Record(r, what, i, result)
    BY <1>3 DEF CompleteFacts, Review, Revise, Complete
  <2> QED BY <1>3, <1>c, <2>1 DEF Run, ToolActions
<1>4. CASE FirstDraft(r) \/ AgentRaises(r) \/ AskForUnknownCase(r) \/ UNCHANGED vars
  BY <1>4 DEF FirstDraft, AgentRaises, AskForUnknownCase, vars
<1> QED BY <1>1, <1>2, <1>3, <1>4
           DEF HostedStep, Compute, Explain, UseTool, Critique, Retry, GiveUp

LEMMA ToolsOfTasks ==
  ASSUME NEW n \in 0 .. 2
  PROVE  /\ n <= 1 => "watchlist_screening_computed" \notin ToolsOf(n + 1)
         /\ n > 1 => "pattern_analysis_computed" \notin ToolsOf(n + 1)
<1>1. n = 0 \/ n = 1 \/ n = 2
  OBVIOUS
<1> QED BY <1>1 DEF ToolsOf

\* How a run comes to explain its facts, and goes on with it.
LEMMA WhileExplaining ==
  ASSUME HostedTypeOK, NEW r \in Runs, HostedStep(r), stage'[r] = "explaining"
  PROVE  \/ stage[r] = "screening"
         \/ stage[r] = "explaining" /\ explained[r] <= explained'[r]
<1>0. TypeOK /\ explained[r] \in Nat /\ explained \in [Runs -> 0 .. 3]
  BY RunValues DEF HostedTypeOK
<1>1. CASE Compute(r)
  <2>1. ASSUME NEW next, GoTo(r, next) PROVE stage'[r] = next
    BY <1>0, <2>1 DEF GoTo, TypeOK
  <2> QED BY <1>1, <2>1 DEF Compute, Start, AnalysePatterns, ScreenNames, Complete
<1>2. CASE Explain(r)
  BY <1>0, <1>2 DEF Explain
<1>3. CASE UseTool(r)
  BY <1>0, <1>3 DEF UseTool, CallTool, AskForUnknownCase
<1>4. CASE Critique(r)
  <2>1. ASSUME NEW next, GoTo(r, next) PROVE stage'[r] = next
    BY <1>0, <2>1 DEF GoTo, TypeOK
  <2>2. \E next \in {"reviewing", "revising", "assembling"} : GoTo(r, next)
    BY <1>4 DEF Critique, FirstDraft, Review, Revise
  <2> QED BY <2>1, <2>2
<1>5. CASE Retry(r)
  BY <1>0, <1>5 DEF Retry, vars
<1>6. CASE GiveUp(r)
  <2>1. stage'[r] = "raised"
    BY <1>0, <1>6 DEF GiveUp, AgentRaises, GoTo, TypeOK
  <2> QED BY <2>1
<1> QED BY <1>1, <1>2, <1>3, <1>4, <1>5, <1>6 DEF HostedStep

LEMMA StepKeepsTools ==
  ASSUME HostedHInv, NEW r \in Runs, HostedStep(r)
  PROVE  ToolsKept(r)'
<1> DEFINE h == OfRun(r)
<1>0. /\ HostedTypeOK /\ log \in Seq(Entries) /\ StageAgrees(r)
      /\ h \in Seq(Entries) /\ HistoryAgrees(h, stage[r], iteration[r], verdict[r])
      /\ explained[r] \in 0 .. 3 /\ explained' \in [Runs -> 0 .. 3]
  <2>1. HostedTypeOK'
    BY StepKeepsTypes DEF HostedHInv
  <2> QED BY <2>1 DEF HostedHInv, Inv, HInv, IInv, TypeOK, RunInv, HistoryKept, HostedTypeOK
<1>1. /\ ToolsInOrder(h)
      /\ stage[r] = "explaining" /\ explained[r] <= 1 =>
           \A k \in DOMAIN h : k > 3 => h[k].action # "watchlist_screening_computed"
  BY DEF HostedHInv, ToolsKept
<1>2. /\ stage[r] \in {"new", "analysing", "screening"} => Len(h) < 3
      /\ stage[r] = "explaining" => \A j \in DOMAIN h : h[j].action # "fact_gathering_complete"
      /\ stage[r] = "explaining" => explained[r] \in 0 .. 2
  <2>1. stage[r] \in {"new", "analysing", "screening"} => Len(h) < 3
    <3>1. HistoryAgrees(h, stage[r], iteration[r], verdict[r])
      BY <1>0
    <3> HIDE DEF h
    <3>2. CASE stage[r] = "new"
      BY <3>1, <3>2 DEF HistoryAgrees
    <3>3. CASE stage[r] = "analysing"
      <4>1. Len(h) = 1
        BY <3>1, <3>3, Zenon DEF HistoryAgrees
      <4> QED BY <4>1
    <3>4. CASE stage[r] = "screening"
      <4>1. Len(h) = 2
        BY <3>1, <3>4, Zenon DEF HistoryAgrees
      <4> QED BY <4>1
    <3> QED BY <3>2, <3>3, <3>4
  <2>2. stage[r] = "explaining" => explained[r] \in 0 .. 2
    BY <1>0 DEF StageAgrees
  <2> HIDE DEF h
  <2> QED BY <1>0, <2>1, <2>2, FactsOnlyWhileExplaining
<1>3. CASE log' = log
  <2>1. (h)' = h
    BY <1>3 DEF OfRun
  <2>2. ASSUME stage'[r] = "explaining", explained'[r] <= 1, NEW k \in DOMAIN h, k > 3
        PROVE  h[k].action # "watchlist_screening_computed"
    <3>1. CASE stage[r] = "screening"
      <4>1. Len(h) < 3
        BY <1>2, <3>1
      <4> HIDE DEF h
      <4> QED BY <1>0, <2>2, <4>1
    <3>2. CASE stage[r] = "explaining" /\ explained[r] <= explained'[r]
      <4>1. explained[r] <= 1
        BY <1>0, <2>2, <3>2
      <4> QED BY <1>1, <2>2, <3>2, <4>1
    <3> QED BY <1>0, <2>2, <3>1, <3>2, WhileExplaining
  <2> QED BY <1>1, <2>1, <2>2 DEF ToolsKept
<1>4. CASE \E e \in Entries :
             /\ log' = Append(log, e) /\ e.run = r
             /\ \/ stage[r] \in {"new", "analysing", "screening"}
                \/ stage[r] = "explaining" /\ e.action \in ToolsOf(explained[r] + 1)
                \/ e.action \notin ToolActions
  <2>1. PICK e \in Entries :
             /\ log' = Append(log, e) /\ e.run = r
             /\ \/ stage[r] \in {"new", "analysing", "screening"}
                \/ stage[r] = "explaining" /\ e.action \in ToolsOf(explained[r] + 1)
                \/ e.action \notin ToolActions
    BY <1>4
  <2>2. (h)' = Append(h, e)
    BY <1>0, <2>1, EntryIsAdded
  <2> HIDE DEF h
  <2>3. ToolsInOrder(Append(h, e))
    <3>1. CASE stage[r] \in {"new", "analysing", "screening"}
      BY <1>0, <1>1, <1>2, <3>1, EntryInOrder
    <3>2. CASE stage[r] = "explaining" /\ e.action \in ToolsOf(explained[r] + 1)
      <4>1. CASE explained[r] <= 1
        BY <1>0, <1>1, <1>2, <3>2, <4>1, EntryInOrder
      <4>2. CASE explained[r] > 1
        BY <1>0, <1>1, <1>2, <3>2, <4>2, ToolsOfTasks, EntryInOrder
      <4> QED BY <1>2, <3>2, <4>1, <4>2
    <3>3. CASE e.action \notin ToolActions
      BY <1>0, <1>1, <3>3, EntryInOrder
    <3> QED BY <2>1, <3>1, <3>2, <3>3
  <2>4. ASSUME stage'[r] = "explaining", explained'[r] <= 1,
               NEW k \in DOMAIN Append(h, e), k > 3
        PROVE  Append(h, e)[k].action # "watchlist_screening_computed"
    <3>0. /\ Len(h) \in Nat /\ DOMAIN h = 1 .. Len(h) /\ k \in 1 .. Len(h) + 1
          /\ k \in 1 .. Len(h) => Append(h, e)[k] = h[k]
          /\ Append(h, e)[Len(h) + 1] = e
      BY <1>0, <2>4
    <3>1. CASE stage[r] = "screening"
      BY <1>2, <2>4, <3>0, <3>1
    <3>2. CASE stage[r] = "explaining" /\ explained[r] <= explained'[r]
      <4>1. explained[r] <= 1
        BY <1>0, <2>4, <3>2
      <4>2. e.action # "watchlist_screening_computed"
        <5>1. "watchlist_screening_computed" \in ToolActions
          BY DEF ToolActions
        <5>2. e.action \in ToolsOf(explained[r] + 1) \/ e.action \notin ToolActions
          BY <2>1, <3>2
        <5> QED BY <1>2, <3>2, <4>1, <5>1, <5>2, ToolsOfTasks
      <4>3. k = Len(h) + 1 \/ k \in 1 .. Len(h)
        BY <3>0
      <4> QED BY <1>1, <2>4, <3>0, <3>2, <4>1, <4>2, <4>3
    <3> QED BY <1>0, <2>4, <3>1, <3>2, WhileExplaining
  <2> QED BY <2>2, <2>3, <2>4 DEF ToolsKept, h
<1> QED BY <1>3, <1>4, ActionsRecorded

\* The invariant of Investigation is kept by the steps of a hosted run.
LEMMA HostedStepKeepsHInv ==
  ASSUME HostedHInv, [HostedNext]_allVars
  PROVE  HInv'
<1>1. CASE [Next]_vars
  BY <1>1, StepKeepsHInv DEF HostedHInv
<1>2. ASSUME NEW r \in Runs, HostedStep(r), AskForUnknownCase(r) PROVE HInv'
  <2>1. /\ log' = log /\ target' = target /\ stage' = stage /\ iteration' = iteration
        /\ reviewed' = reviewed /\ verdict' = verdict /\ called' = called + 1
    BY <1>2 DEF AskForUnknownCase, loop
  <2>2. TypeOK'
    BY <1>2, StepKeepsTypes DEF HostedHInv, HostedTypeOK
  <2>3. IInv'
    BY <2>1, <2>2 DEF HostedHInv, HInv, IInv, LoopAgrees
  <2>4. \A q \in Runs : HistoryKept(q)'
    BY <2>1 DEF HostedHInv, HInv, HistoryKept, OfRun
  <2> QED BY <2>3, <2>4 DEF HInv
<1>3. [Next]_vars \/ \E r \in Runs : HostedStep(r) /\ AskForUnknownCase(r)
  BY DEF HostedNext, HostedStep, Compute, Explain, UseTool, Critique, Retry, GiveUp,
         Next, Run, allVars, vars
<1> QED BY <1>1, <1>2, <1>3

LEMMA StepKeepsHostedHInv == HostedHInv /\ [HostedNext]_allVars => HostedHInv'
<1> SUFFICES ASSUME HostedHInv, [HostedNext]_allVars PROVE HostedHInv'
  OBVIOUS
<1>1. Inv' /\ HInv'
  BY StepKeepsInv, HostedStepKeepsHInv DEF HostedHInv
<1>2. ASSUME NEW r \in Runs, HostedStep(r), NEW q \in Runs PROVE ToolsKept(q)'
  <2>1. CASE q = r
    BY <1>2, <2>1, StepKeepsTools
  <2>2. CASE q # r
    <3>1. stage'[q] = stage[q] /\ explained'[q] = explained[q]
      BY <1>2, <2>2, Frame DEF HostedHInv, Inv
    <3>2. OfRun(q)' = OfRun(q)
      <4>1. log \in Seq(Entries)
        BY DEF HostedHInv, HInv, IInv, TypeOK
      <4>2. CASE log' = log
        BY <4>2 DEF OfRun
      <4>3. CASE \E e \in Entries : log' = Append(log, e) /\ e.run = r
        BY <2>2, <4>1, <4>3, EntryIsAdded
      <4> QED BY <1>2, <4>2, <4>3, ActionsRecorded
    <3> QED BY <3>1, <3>2 DEF HostedHInv, ToolsKept
  <2> QED BY <2>1, <2>2
<1>3. ASSUME UNCHANGED allVars, NEW q \in Runs PROVE ToolsKept(q)'
  BY <1>3 DEF HostedHInv, ToolsKept, OfRun, allVars, vars
<1> QED BY <1>1, <1>2, <1>3 DEF HostedHInv, HostedNext

LEMMA InitHostedHInv == HostedInit => HostedHInv
<1> SUFFICES ASSUME HostedInit PROVE HostedHInv
  OBVIOUS
<1>1. Inv /\ HInv
  BY InitInv, InitHInv DEF HostedInit
<1>2. ASSUME NEW r \in Runs PROVE ToolsKept(r)
  <2>1. OfRun(r) = << >> /\ stage[r] = "new"
    BY PickedOfNone DEF HostedInit, Init, OfRun
  <2>2. DOMAIN << >> = {}
    OBVIOUS
  <2> QED BY <2>1, <2>2 DEF ToolsKept, ToolsInOrder
<1> QED BY <1>1, <1>2 DEF HostedHInv

LEMMA HostedHistoryInvariance == HostedSpec => []HostedHInv
BY InitHostedHInv, StepKeepsHostedHInv, PTL DEF HostedSpec

(***************************************************************************)
(* The history of every report is complete for runs over a hosted model    *)
(* too, whatever its calls cost and its agents ask for                     *)
(* (crew_definition.py:97-209, agents.py).                                 *)
(***************************************************************************)
THEOREM HostedReportsAreLogged == HostedSpec => []ReturnedRunsAreLogged
<1>1. HostedHInv => ReturnedRunsAreLogged
  BY ReturnedIsComplete DEF HostedHInv, HInv, ReturnedRunsAreLogged
<1> QED BY HostedHistoryInvariance, <1>1, PTL

(***************************************************************************)
(* The critique stage of a run over a hosted model implements              *)
(* ReviewContract, whatever calls fail and are repeated                    *)
(* (critique_loop.py:87-160, llm.py:231-258).                              *)
(***************************************************************************)
THEOREM HostedContractIsKept == HostedSpec => LoopsKeepTheContract
<1>1. HostedInit => \A r \in Runs : Contract(r)!Init
  BY CapAssumption DEF HostedInit, Init, Contract!Init
<1>2. HostedHInv /\ [HostedNext]_allVars
        => [\A r \in Runs : Contract(r)!Next \/ UNCHANGED Contract(r)!vars]_vars
  <2> SUFFICES ASSUME HostedHInv, [HostedNext]_allVars
               PROVE  [\A r \in Runs : Contract(r)!Next \/ UNCHANGED Contract(r)!vars]_vars
    OBVIOUS
  <2>1. CASE [Next]_vars
    BY <2>1, ContractStep DEF HostedHInv, HInv
  <2>2. ASSUME NEW q \in Runs, AskForUnknownCase(q), NEW r \in Runs
        PROVE  UNCHANGED Contract(r)!vars
    BY <2>2 DEF AskForUnknownCase, loop, Contract!vars
  <2>3. [Next]_vars \/ \E q \in Runs : AskForUnknownCase(q)
    BY DEF HostedNext, HostedStep, Compute, Explain, UseTool, Critique, Retry, GiveUp,
           Next, Run, allVars, vars
  <2> QED BY <2>1, <2>2, <2>3
<1> QED BY HostedHistoryInvariance, <1>1, <1>2, PTL DEF HostedSpec, LoopsKeepTheContract

(***************************************************************************)
(* The entries of tools follow the order of the agents that hold them, in  *)
(* the history of every run, for any number of runs, any cap and any use   *)
(* of tools (agents.py, crew_definition.py:118-164).                       *)
(***************************************************************************)
THEOREM ToolEntriesAreInOrder == HostedSpec => []ToolEntriesFollowTheAgents
<1>1. HostedHInv => ToolEntriesFollowTheAgents
  BY DEF HostedHInv, ToolsKept, ToolsInOrder, ToolEntriesFollowTheAgents
<1> QED BY HostedHistoryInvariance, <1>1, PTL
================================================================================

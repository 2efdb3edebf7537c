------------------------------- MODULE HostedRun -------------------------------
(***************************************************************************)
(* Runs of Investigation with the calls to the hosted model they consist   *)
(* of: which agent is asked (crew/agents.py), the attempts ResilientLLM    *)
(* makes of each call (infrastructure/llm.py), and the time they take.  An *)
(* answer of the model is the step of Investigation that waits for it.     *)
(* The framework is taken to pass an error of the model on as it is.       *)
(***************************************************************************)
EXTENDS Investigation

CONSTANTS
  RetrySettings,   \* the values llm_max_retries may have
  Timeout          \* llm_request_timeout_seconds

ASSUME RetrySettingsAssumption == RetrySettings \subseteq Nat
ASSUME TimeoutAssumption       == Timeout \in Nat \ {0}

VARIABLES
  max_retries,     \* settings.llm_max_retries
  explained,       \* the number of fact-finding tasks each run has done
  attempts,        \* failed attempts of the current call, as tenacity counts
  elapsed,         \* seconds each run has spent on calls, at most
  streak           \* history: failed attempts since the model last answered

calls == <<attempts, elapsed, streak>>
allVars == <<vars, max_retries, explained, calls>>

------------------------------------------------------------------------------
\* One attempt of a call.

Waiting(r) == stage[r] \in {"explaining", "drafting", "reviewing", "revising"}

\* wait_exponential_jitter(initial=1, max=15): the pause doubles up to its
\* maximum; the jitter is taken at its largest.
Backoff(k) == IF k > 4 THEN 15 ELSE <<1, 2, 4, 8>>[k] + 1

\* An attempt is charged with its time-out, when it ends at the latest; the
\* offline model takes no time.
Duration == IF llm = "hosted" THEN Timeout ELSE 0

Spend(r, seconds) == elapsed' = [elapsed EXCEPT ![r] = @ + seconds]

Failure(r) ==
  /\ llm = "hosted" /\ Waiting(r)
  /\ attempts' = [attempts EXCEPT ![r] = @ + 1]
  /\ streak' = [streak EXCEPT ![r] = @ + 1]

\* Mutant: the setting counts the attempts after the first one.
IsLastRetry(r) == attempts[r] >= max_retries

\* stop_after_attempt.
IsLastAttempt(r) == attempts[r] + 1 >= max_retries

Retry(r) ==
  /\ Failure(r) /\ ~IsLastAttempt(r)
  /\ Spend(r, Duration + Backoff(attempts[r] + 1))
  /\ UNCHANGED <<vars, max_retries, explained>>

\* reraise: the last error leaves the run.
GiveUp(r) ==
  /\ Failure(r) /\ IsLastAttempt(r)
  /\ AgentRaises(r)
  /\ Spend(r, Duration)
  /\ UNCHANGED <<max_retries, explained>>

\* Mutant: the calls of a run share one budget of attempts.
AnsweredFromSharedBudget(r) ==
  /\ Spend(r, Duration)
  /\ streak' = [streak EXCEPT ![r] = 0]
  /\ UNCHANGED <<max_retries, attempts>>

\* The retry state is made anew in each call.
Answered(r) ==
  /\ Spend(r, Duration)
  /\ attempts' = [attempts EXCEPT ![r] = 0]
  /\ streak' = [streak EXCEPT ![r] = 0]
  /\ UNCHANGED max_retries

------------------------------------------------------------------------------
\* The agents.

\* Mutant: both fact finders are given both tools.
ToolsOfBoth(task) == IF task = 1 THEN {} ELSE ToolActions

\* What the tools of the agent of each task record: triage has none.
ToolsOf(task) ==
  CASE task = 2 -> {"pattern_analysis_computed"}
    [] task = 3 -> {"watchlist_screening_computed"}
    [] OTHER    -> {}

\* The ledger of a case that is not seeded: the tool says so and records nothing.
AskForUnknownCase(r) ==
  /\ stage[r] = "explaining" /\ llm = "hosted" /\ called < MaxToolCalls
  /\ "pattern_analysis_computed" \in ToolsOf(explained[r] + 1)
  /\ called' = called + 1
  /\ UNCHANGED <<llm, target, stage, loop, log>>

\* The answer asks for the agent's tool; the agent will call the model again.
UseTool(r) ==
  /\ \/ CallTool(r) /\ Last(log').action \in ToolsOf(explained[r] + 1)
     \/ AskForUnknownCase(r)
  /\ Answered(r)
  /\ UNCHANGED explained

\* Mutant: the narratives are collected one task too late.
ExplainOnceMore(r) ==
  /\ stage[r] = "explaining"
  /\ explained' = [explained EXCEPT ![r] = @ + 1]
  /\ IF explained[r] = 3 THEN CompleteFacts(r) ELSE UNCHANGED vars
  /\ Answered(r)

\* The crew is sequential: triage, pattern investigator, watchlist screener.
Explain(r) ==
  /\ stage[r] = "explaining"
  /\ explained' = [explained EXCEPT ![r] = @ + 1]
  /\ IF explained[r] = 2 THEN CompleteFacts(r) ELSE UNCHANGED vars
  /\ Answered(r)

Critique(r) ==
  /\ FirstDraft(r) \/ Review(r) \/ Revise(r)
  /\ Answered(r)
  /\ UNCHANGED explained

\* The steps of a run that call no model.
Compute(r) ==
  /\ Start(r) \/ AnalysePatterns(r) \/ ScreenNames(r) \/ Complete(r)
  /\ UNCHANGED <<max_retries, explained, calls>>

HostedInit ==
  /\ Init
  /\ max_retries \in RetrySettings
  /\ explained = [r \in Runs |-> 0]
  /\ attempts = [r \in Runs |-> 0]
  /\ elapsed = [r \in Runs |-> 0]
  /\ streak = [r \in Runs |-> 0]

HostedStep(r) ==
  Compute(r) \/ Explain(r) \/ UseTool(r) \/ Critique(r) \/ Retry(r) \/ GiveUp(r)

HostedNext == \E r \in Runs : HostedStep(r)

\* A run has a thread; an attempt ends with its time-out, a pause by itself.
HostedSpec ==
  /\ HostedInit /\ [][HostedNext]_allVars
  /\ \A r \in Runs : WF_allVars(stage[r] # "new" /\ HostedStep(r))

------------------------------------------------------------------------------
\* Properties.

HostedTypeOK ==
  /\ TypeOK
  /\ max_retries \in RetrySettings
  /\ explained \in [Runs -> 0 .. 3]
  /\ attempts \in [Runs -> Nat]
  /\ elapsed \in [Runs -> Nat]
  /\ streak \in [Runs -> Nat]

Permitted == IF max_retries = 0 THEN 1 ELSE max_retries

(***************************************************************************)
(* A run is given up only for a model that fails as often in a row, for    *)
(* one and the same call, as the setting permits, and at least once where  *)
(* it permits nothing; errors of earlier calls, once overcome, do not      *)
(* count (llm.py:213-215).                                                 *)
(***************************************************************************)
TransientErrorsAreOvercome ==
  \A r \in Runs :
    IF stage[r] = "raised" THEN streak[r] = Permitted ELSE streak[r] < Permitted

\* The longest a call may take: attempts that time out, and the pauses between.
CallBudget == Permitted * Timeout + (Permitted - 1) * 15

(***************************************************************************)
(* The time a request is held by its calls is capped by the settings       *)
(* (routes.py:6-8; README.md:136-138): the calls answered and the one it   *)
(* waits for took no longer than their budgets, and there are no more of   *)
(* them than three tasks, Cap drafts, Cap reviews and the uses of tools.   *)
(***************************************************************************)
RunIsLatencyBounded ==
  \A r \in Runs :
    LET answered == explained[r] + called + iteration[r] + reviewed[r]
        asked    == IF Waiting(r) \/ stage[r] = "raised" THEN answered + 1 ELSE answered
    IN  /\ elapsed[r] <= asked * CallBudget
        /\ asked <= 3 + 2 * Cap + called

(***************************************************************************)
(* In the history of a run, whatever its agents ask for and however often  *)
(* a call is repeated, the screening of names ends the use of the ledger:  *)
(* after the facts, no pattern analysis follows a screening, and no tool   *)
(* is used once the facts are complete.                                    *)
(***************************************************************************)
ToolEntriesFollowTheAgents ==
  \A r \in Runs :
    LET h    == OfRun(r)
        Is(k, what) == h[k].action = what
    IN  \A j, k \in DOMAIN h :
          j < k /\ k > 3 =>
            /\ ~(j > 3 /\ Is(j, "watchlist_screening_computed")
                       /\ Is(k, "pattern_analysis_computed"))
            /\ ~(Is(j, "fact_gathering_complete") /\ h[k].action \in ToolActions)

(***************************************************************************)
(* Every run that has started returns a report or raises, whatever the     *)
(* model does and whatever the settings are.                               *)
(***************************************************************************)
RunsEnd ==
  \A r \in Runs : stage[r] # "new" ~> stage[r] \in {"returned", "raised"}
==============================================================================

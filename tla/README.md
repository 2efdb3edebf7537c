# A formal model of the fraud/AML investigation crew

TLA+ modules, TLC configurations and TLAPS proofs for the service under
`src/src/fraud_crew`: a FastAPI process that runs a crew of language-model
agents over a seeded synthetic case, puts the resulting draft through a bounded
compliance review and serves the report. All paths below are relative to
`src/src/fraud_crew/` unless they start with `tests/`, `deploy/` or are in capitals (`GOVERNANCE.md`).

## 1. The system

| Component | State | Operations | Talks to |
|---|---|---|---|
| Routes and case store (`api/routes.py`, `api/case_store.py`, `domain/report.py`) | one dict from case id to a live `CaseRecord`, under a lock; one record object per POST | `POST …/investigate`, `GET …/report`; `get`, `put`, `list_ids` (never called) | calls the pipeline; shares record objects between threads |
| Investigation pipeline (`crew/crew_definition.py`) | locals of one run | `run_investigation`: gather facts, critique loop, assemble the report | the tools, the agents, the loop, the audit log |
| Critique loop (`crew/critique_loop.py`, `domain/compliance.py`) | draft, iteration, last review | `run`: draft, review, revise until passed or cap | writer and reviewer agents, checklist, parser, audit log |
| Policy checklist (`crew/policy_checklist.py`) | none | `evaluate_checklist` | — |
| Parser (`crew/report_parsing.py`) | none | `parse_writer_output` | — |
| Language models (`infrastructure/llm.py`) | the attempts of the call under way | `MockLLM.call` (offline), `ResilientLLM.call` (hosted, with retries), `get_llm` | the provider |
| Agents (`crew/agents.py`) | none | five roles, two of them with a tool | the language model, the tools |
| Pattern analysis, watchlist screening (`tools/`) | none | `compute_pattern_findings`, `compute_watchlist_screening` and the tools that wrap them | audit log |
| Audit log (`infrastructure/audit_log.py`) | list of entries under a lock, optionally a JSONL file | `record`, `for_case`, `all_entries` | every run of the process writes to one log |
| API process (`api/main.py`, `deploy/`) | the pool of worker threads; two replicas | start-up, `/healthz`, `/readyz` | runs every handler in the pool; probed and restarted by the kubelet |
| Settings, logging, tracing, seed data | configuration and constants | — | — |

What makes each correct:

* **Loop** – it ends; the draft it returns is the one the returned review is
  about; it escalates only when every permitted review has failed; a revision
  answers the review before it; the audit entries tell the history of the run.
* **Checklist and parser** – nothing the writer says is lost on the way to the
  checklist; a section that is missing or a flag that is not disclosed is noticed.
* **Language models** – the demo goes through exactly one failing review, and what
  it says and recommends follows from the findings; errors of a hosted model are
  overcome as long as the settings permit, and a run ends whatever the model does.
* **Tools** – the thresholds and windows are applied as documented, whatever the order
  of the ledger or of the register.
* **Routes and store** – each caller is answered, with the outcome of its own
  run; nobody sees a record that contradicts itself; whatever runs interleave,
  the store ends with an outcome.
* **Audit log** – complete per run, and readable after a restart.
* **Process** – the probes answer while investigations run; a restart leaves
  no request without an end and no case in progress for ever; a process finds the
  cases that were triggered on it, and no others.

The hard behaviours are the interleavings of handler threads over *live*
record objects (the lock protects the dictionary, not the records in it), the
bounded loop with two agents that may answer anything or raise, the retries and tool
calls below it, restarts above it, and the several pieces of state of a run (draft,
review, counter, audit trail) that have to stay in step. `PROJECT.json` lists every
hazard at its line, with the properties that cover it or the reason why none does.

## 2. The modules

| Module | What it is |
|---|---|
| `Texts` | The texts that flow between writer, parser and checklist: sequences of tokens. |
| `ReportParsing`, `PolicyChecklist`, `MockLLM` | Pure functions of the program over such texts; `MockLLM` also has the narratives of the two fact-finding roles, over prompts that are functions from labels to values. |
| `PatternFindings`, `WatchlistScreening` | The two tools as pure functions: of a ledger, and of the scores of names against a register. |
| `CritiqueLoop` | One run of `ComplianceCriticLoop`; composes the texts, parser, checklist and offline model. |
| `ReviewContract` | Abstract: what the caller of the loop relies on. |
| `Investigation` | Several runs of `run_investigation` over one audit log; its critique stage is `ReviewContract`. |
| `HostedRun` | Extends `Investigation` by the calls to a hosted model: agents, tools, attempts, time. |
| `CaseApi` | The two request handlers and the store, any number of concurrent requests. |
| `CaseLifecycle` | Abstract: what clients may see of a seeded case. |
| `AuditLog` | `record()` of several threads, in memory and in the JSONL file. |
| `Deployment` | Replicas with pool, store and probes; the service and the kubelet. |
| `MCCritiqueLoop`, `MCPureFunctions`, `MCCaseApi`, `MCInvestigation`, `MCHostedRun`, `MCAuditLog`, `MCDeployment` | Instances for TLC. `MCPureFunctions` also holds the properties of the parser, the tools and the narratives. |
| `TextsProofs`, `CritiqueLoopProofs`, `CaseApiProofs`, `AuditLogProofs`, `InvestigationProofs`, `HostedRunProofs`, `DeploymentProofs`, `PureFunctionsProofs` | The proofs; `TextsProofs` holds lemmas only. |

**Texts.** The parser and the checklist tell texts apart by labels, line
breaks, a handful of keywords, and two lengths. A text is therefore a sequence of
tokens: the labels, a line break, the keywords, and neutral prose (`Word`,
`Passage`), each with the number of words and of characters it stands for. Case is
left out since every search ignores it. A keyword stands for a word that contains
it. `Passage` is 14 words, one less than the checklist asks for, and `PaddedTbd` is
a placeholder padded with full stops to 15 characters, so both limits of the
checklist are met from either side. Indentation counts as part of the token after it.

**PatternFindings, WatchlistScreening.** Amounts are in cents and time stamps in minutes,
which is how finely the ledgers are seeded; what is flagged is a set of
positions for the list of transaction ids. A transaction has no direction here because
the code never looks at it (see section 3). A name is what it scores against each entry: the
similarity itself is `difflib`'s, an input in ten-thousandths, so that the
threshold and the rounding of what is shown can disagree as they do in the code.

**CritiqueLoop.** `pc` says where `run()` is; the other variables are its locals
(`iteration`, `draft`, `review`), the constructor's arguments (`findings`,
`max_iterations`, after the clamp), the last prompt, and the entries this run has
recorded (`trail`). The actions end where the code waits for an agent:

| Action | Code |
|---|---|
| `FirstDraft` | `_draft(feedback=None)` and `iteration = 1` |
| `Review` | checklist, feedback, commentary, review, audit entry, and the test that returns |
| `Revise` | the prompt with feedback, `_draft`, audit entry, `iteration += 1` |
| `AgentRaises` | an error a hosted model still raises after the retries of `ResilientLLM`, in any of the three agent calls; nothing has been recorded by then |

A hosted writer may answer any member of `HostedOutputs`; the offline one
computes its answer from the prompt. A hosted reviewer only contributes prose.

**Investigation.** Two layers of detail are kept apart: `CritiqueLoop` is one loop
with its texts, `Investigation` is several whole runs with nothing but their
audit entries, and both are checked against `ReviewContract`, so that what is
known of the loop holds of the stage inside a run. `HostedRun` adds a third. `stage` says where each run
is, `iteration`, `reviewed` and `verdict` are what its loop knows, `log` is
`audit_log._entries`. An entry also carries the run that recorded it; the code has no such
field, and only properties read it. A step ends where an entry is recorded or an
agent is waited for:

| Action | Code (`crew_definition.py` unless named) |
|---|---|
| `Start` | 97–107, the known case id and the first entry |
| `AnalysePatterns`, `ScreenNames` | 115, 116: the computations of `tools/`, each with its entry |
| `CallTool` | a hosted agent uses its tool while the crew explains the facts: the same computation and entry again, for the case id the model gives; a ledger exists for the seeded ids only, but names are screened, and recorded, for any id (`watchlist_tool.py` 134–137) |
| `CompleteFacts` | 142–164, the narratives are in |
| `FirstDraft`, `Review`, `Revise` | the steps of the loop, with the entries they record |
| `Complete` | 184–209, report, watermark, closing entry |
| `AgentRaises` | an error of an agent in any call; nothing is recorded |

**HostedRun.** Every call to a model in `Investigation` is a step that waits for an answer;
this module gives the call its attempts. `attempts` is tenacity's count for the call under
way, `explained` the number of fact-finding tasks that are done, `elapsed` an upper
bound on the seconds spent (an attempt is charged with its time-out, a pause with its
largest jitter); `streak` is history. The model is also checked with zero
retries, which the settings allow (`config.py:49`).

| Action | Code |
|---|---|
| `Retry`, `GiveUp` | `llm.py` 240–259: an attempt fails and there is another one after a pause, or its error is raised |
| `Explain` | `crew_definition.py` 119–164: the tasks of the three fact finders, one after the other; the third completes the facts |
| `UseTool`, `AskForUnknownCase` | `agents.py`, `tools/`: the answer asks for the one tool the agent has, for a seeded case or for another id; the agent calls the model again |
| `Critique` | the answers to writer and reviewer: the steps of `Investigation` |
| `Compute` | the steps of `Investigation` that call no model |

**Deployment.** `queue` and `Running` are the pool of a replica, `store` what its
`CaseStore` says of each case, `missed` the failures in a row of each probe.
`process` names the replica *and its epoch* a request was sent to, so that
properties can tell a process from its successor.

| Action | Code |
|---|---|
| `Send` | a ready replica accepts a request (the service is external) |
| `Investigate`, `Finish` | `routes.py` 40–41 and 56–59: a worker takes a POST and keeps it until the run has ended; `CaseApi` is the detail |
| `Report` | `routes.py` 67–74 |
| `ProbeSucceeds`, `ProbeFails` | `main.py` 55–82, `deployment.yaml` 55–66: both probes are synchronous handlers and wait for a worker like everything else |
| `Restart` | the liveness probe has failed `FailureThreshold` times in a row (external) |

**CaseApi.** Each POST owns a record object; `store` maps a case to the POST whose
object is filed; a GET keeps a reference (`held`) and reads the object when its
response is built. One action is one statement that another thread can observe:

| Action | Code (`routes.py`) |
|---|---|
| `Accept` | 40–41, record created in progress and put, before the id is looked at |
| `Reject` | 46–48, unknown case: 404, the record stays as it is |
| `SetStatus`, `SetReport` | 45 and 56, 57: the run has returned; two assignments to the live object |
| `SetFailed`, `SetError` | 49–52: the run has raised; two assignments again |
| `Put`, `Respond` | 53/58, 54/59 |
| `LookUp`, `NothingFound`, `Serialize` | 67–74: reference, or 404; the body is built later by the framework |

The investigation itself is one choice here (report with or without escalation,
or an error); `CritiqueLoop` is its critique stage. `CaseStore.get` and `put`
hold the lock for one dictionary operation and are atomic. Building a response body
is one step as well: the serializer reads the model in one call.

**AuditLog.** An entry is the number of its creation. `lines` is the file as a reader
finds it: for each line, what has been written to it, an entry or the beginning
of one (`Fragment`). A reader can parse a line that holds one entry and nothing
else. `WriteFails` leaves nothing, a fragment, or a line without its newline;
`Restart` clears the memory wherever the threads are. The log may be constructed with a path or
without one, as the process does. `for_case` and `all_entries` only
read, and are not actions.

## 3. What is checked

Passing runs (all properties of a run are checked together):

| Run | Bounds | What it shows |
|---|---|---|
| `critique_loop` | caps −1…4; all 8 combinations of findings; 7 hosted answers | type correctness; `ReturnedDraftWasReviewed`, `VerdictWithinCap`, `TrailMatchesRun`, `RevisionAnswersTheReview`, `OfflineRunPassesOnRevision`, `GeneratedNextStepFollowsFindings`, `Terminates`, and that the loop implements `ReviewContract`, its liveness included |
| `pure_functions` | every answer of up to 6 tokens (`MaxLength`); the seeded ledgers and the empty one with up to 3 transactions posted to them (`MaxPosted`) out of 25; two names against up to 3 entries (`MaxEntries`) with 6 scores | parser: `NothingLostAfterALabel`, `RequestedFormatIsSplit`; ledger: `ClustersAreFlaggedWhole`, `LatePostingsClearNothing`; register: `BestEntryIsMatched`, `HitsSurviveNewEntries`; offline narratives: `NarrativesTellTheFindings` |
| `case_api` | 3 POSTs, 1 GET, one seeded and one unknown case | type correctness; `AnswersAreConsistent`, `PostAnswersItsOwnRun`, `IdleStoreIsSettled`, `RequestsAreAnswered`, and that the handlers implement `CaseLifecycle` |
| `audit_log` | 2 threads, 5 entries (`MaxEntries`), with and without a file | type correctness (with: the lock is held exactly while an entry is in memory and not yet in the file); of the file of a log that is given a path: `FileKeepsTheOrder`, `OnlyNeighboursAreSpoiled`, `ReadableLinesStay` |
| `investigation` | 2 runs over 2 cases, cap 2, 1 tool call | of one run: `ReturnedRunsAreLogged`; of what is filed under a case, by one run or several: `AloneIsReconstructable`, `ReportsAreAccountedFor` |
| `hosted_run` | 1 run, 2 cases and an id that is not seeded (`OtherIds`), cap 3, 2 tool calls (`MaxToolCalls`), 0, 1 or 3 retries, the default time-out | type correctness (of `Investigation` too); `TransientErrorsAreOvercome`, `RunIsLatencyBounded`, `ToolEntriesFollowTheAgents`, `LoopsKeepTheContract`, `RunsEnd` |
| `deployment` | 2 replicas, pools of 2, 3 POSTs, 1 GET, 2 cases, 2 failures in a row to a restart | type correctness; `InProgressHasAWorker`, `CasesAreFoundWhereTriggered`, `RequestsEnd` |

Why the bounds are enough. *Loop*: the caps include the two the clamp changes,
the one with no revision, the default 3 and one more; nothing depends on a
longer history than the review before. Each checklist item fails for one of the
hosted answers and each branch of the parser is taken by one; answers vary freely
from draft to draft. *Pure functions*: the patterns of the parser speak of two labels and one
line break; six tokens hold both labels twice with text around them. What is posted to
a ledger lies one cent and one minute to either side of each limit and each window, and joins
seeded transactions, so that clusters grow, shrink and move. The scores are zero, one that is shown
below the threshold, one below the threshold but shown as it, the threshold, one above and equality, in
every order. *API*: the
interference is between two POSTs for one case (a third on the same or the
other case shows that cases do not disturb each other), and a GET changes nothing,
so one is enough to look between any two statements. *Audit log*: a failed write
concerns the entry before it and the one after it; five entries hold both on either
side of a restart or of a second failure. *Investigation*: runs meet only in the log, where
two are enough for any order of two entries; runs and cases are
interchangeable, hence the symmetry of that run (no run with liveness has one). One tool call
is enough for an entry of one run in the history of the other's case; an id nobody seeded, which no
property of a case can see, is among those of `hosted_run`. In `hosted_run` two of them
come at every place an agent allows, and retries at every call; runs do not meet below the log, so one
is enough there. *Deployment*: two POSTs fill a pool,
the third waits, meets a restart or goes to the other replica; a threshold of two
has a failure that a success forgets and one that counts.

Fairness. A run of the loop that can take a step takes one (`WF(Next)`): each call
to a hosted model has a time-out (`llm_request_timeout_seconds`) and a fixed
number of attempts, and the rest is straight-line code. `HostedRun` makes that argument
explicit: its only fairness is that a run that has started goes on, by an answer or
by an attempt that fails, and `RunsEnd` follows for every setting of the retries. `Investigation`
itself, whose calls have no detail, has no fairness. A handler that has
been accepted goes on (`WF` for each request): each has a thread, waits for
nothing but the lock, and the investigation it calls ends. In `Deployment` a worker that is
free serves the queue, an investigation ends, and a process the kubelet has
given up is replaced (`WF` of `Serve` and `Restart` per replica, of `Finish` per POST); no probe is
obliged to be sent. `AuditLog` has no liveness property and no fairness. No request is obliged
to arrive. `CHECK_DEADLOCK FALSE` is set where runs, requests and answers end;
`AuditLog` and `Deployment` never stop, since a restart or a probe is always possible.

How long a request may take. `RunIsLatencyBounded` says that a run makes at most three calls for
the facts, two for each iteration and one for each use of a tool, each within
`CallBudget`. With the shipped settings (cap 3, three attempts, 30 s) that is nine calls of
up to 120 s without tools. The liveness probe gives up after three periods of 15 s: the
run `busy_process_killed` is no matter of unlikely timing.

### Disagreements with the documentation

Each is a run that expects a violation.

| Run | Stated | What the code does |
|---|---|---|
| `missing_section` | `report_parsing.py:10-12`: a missing section is flagged and revised | the fallback next step is a full sentence and passes the checklist |
| `raised_flag` | `policy_checklist.py:61-63`: a flagged pattern is disclosed explicitly | any of three keywords will do, a denial too; the offline model never names velocity |
| `rejected_case` | `routes.py:3-6`: a POST runs its investigation to the end | after the 404 for an unknown case, GET reports it in progress for ever |
| `torn_read` | `tests/test_api.py:30-31`, `case_store.py:4`: an outcome comes with its report; thread-safe | a GET between lines 56 and 57 sees `completed` without a report |
| `busy_process_killed` | `main.py:57-58`: liveness only fails if the process is wedged | the probe needs a worker of the pool that investigations occupy |

Others are plain from the code, or from a model that holds beside them, and have no run of
their own:

* `crew_definition.py:17-18` says that the case id makes a whole run reconstructable. Two runs of
  one case interleave under one key, and an agent of any run may use its tool for any case.
  What is left is `AloneIsReconstructable`, the milestones of the one run of a case, without the
  entries of tools, which cannot be told from another run's; and, for several runs of one case,
  `ReportsAreAccountedFor`, which counts what it cannot attribute.
* `GOVERNANCE.md:49-53` says that every entry is in a JSONL file. The process-wide log has no
  path (`audit_log.py:89`) and `audit_log_path` is read nowhere, so a restart loses all. What
  `AuditLog` shows of the file concerns logs that are given a path.
* The two replicas of `deployment.yaml:11` keep a store each, so a GET may miss a case that
  the other replica knows (`case_store.py:38`): by `CasesAreFoundWhereTriggered` it does,
  unless the case has been triggered on its own replica as well.
* "Cash deposits" (`transaction_history_tool.py:27-28`, 57–59) include withdrawals: line 62 tests
  the channel only.
* An empty ledger leaves no entry of its analysis in the audit log, and an agent's tool says so only
  to the model; no seeded ledger is empty, and `ReturnedRunsAreLogged` is about seeded cases.
* The offline reviewer's notes announce a return to the writer even at the cap (`llm.py:170-175`; compare
  `compliance.py:38-42`).
* A run that raises leaves no entry about its end.
* The first hand-off to the writer, unlike the revisions, leaves no entry
  (`critique_loop.py:98`; compare `GOVERNANCE.md:49-50`).

`AnswersAreConsistent` and `CaseLifecycle` are stated so that they hold beside
`torn_read`: a record without report and error counts as in progress there.

## 4. What is proved

For every value of the constants (any caps, any set of hosted answers over
`Text`, any number of requests, cases, runs, threads and replicas, any settings of
retries and time-outs), from the named assumptions of the modules only. They say what a
type or the configuration says (caps, settings and pools are numbers), that the
sets of requests and of cases are what they are taken for, and that a finite number of
POSTs is counted.

* `CritiqueLoopProofs`: `TypeCorrect`, `ReturnsTheReviewedDraft`,
  `VerdictsAreWithinTheCap`, `TrailIsTheHistory`, `FeedbackIsNotStale`
  (the action property), and `LoopRefinesContract`, the refinement of the safety part of
  `ReviewContract`. None of these properties is inductive alone. The invariant ties,
  for each value of `pc`, the number of the last review to `iteration` and to the
  cap, states that the last review is the one of the present draft except just
  after a revision, and gives the trail entry by entry, because the next review
  appends to a trail whose earlier entries must already be known to be unescalated.
  The proof has one lemma per action. `TextsProofs` supplies the types of
  the parser, the checklist and the generated texts. `OfflineRunsPass` and
  `GeneratedStepsFollowFindings` need a second invariant, `DraftIsWritten`: a draft is what the
  parser made of its raw answer, and offline that answer is the terse one in the first iteration
  and the revision in the second. What remains is about texts, and is in `TextsProofs`: the
  first draft fails an item, the revision has every disclosure, its sections are found where
  they are, and their words add up to the length the checklist asks for.
* `CaseApiProofs`: `TypeCorrect`, `ConsistentAnswers`, `PostsAnswerTheirOwnRun`,
  `IdleStoresAreSettled`. What a response may show depends on how far the owner of
  the record has come, so the invariant says for each statement of a POST what its
  record holds (`RecordMatchesHandler`), and that the store only refers to
  accepted requests for the right case (`StoreRefersToAccepted`). Two frame lemmas
  reduce every step to the one record, response and store entry it touches. For
  `LifecycleIsImplemented`, the refinement of `CaseLifecycle`, one more fact is needed, that
  an accepted case keeps a record; then each statement of a POST is a step of the
  lifecycle of its case or not visible. That the last trigger to be answered leaves an outcome
  comes from counting the open ones.
* `AuditLogProofs`: `TypeCorrect`, `FileIsInOrder`, `FailuresAreContained`,
  `NothingReadableIsLost`. The invariant says that an entry is given out once, that the
  file names only entries that were recorded, and that a line that has not ended holds no entry
  that was written without an error: the write of the entry recorded before the next one has
  failed. That line is the only one a step can spoil.
* `InvestigationProofs`: `TypeCorrect` and `ContractIsKept`, from what each stage says about
  the last verdict and the number of reviews. `ReportsAreLogged` and `AloneCasesAreReconstructable`
  are about the entries of one run, or of one case, in the log they all share. The invariant
  `HInv` says of every run, for its stage, what the log holds of it (the three
  entries of the beginning, then only tools until the facts are closed, then one review for each
  iteration with the revisions between them), and of every entry which case it is filed under.
  Entries are selected by the recursive function `Picked`; the lemmas about it say that an entry
  that is not selected changes nothing, and one that is selected comes last. With them a step
  of one run leaves the histories of all others alone. What is filed under a *case* needs a second
  invariant, `CaseInv`: an entry that is no tool's is filed under the case of the run that recorded
  it, so that the milestones of a case with one run are a function of that run's stage, whatever
  entries of tools lie between them; and for each case, iteration and verdict the entries and
  the runs that have got so far are finite sets of one size. `CasesAccountForReports` follows by
  counting: a step adds an element to both of such a pair of sets, or to neither.
* `HostedRunProofs`: `HostedTypeCorrect`, `ErrorsAreOvercome`, `LatencyIsBounded`. The
  counters of a run agree with its stage, so its calls can be counted; the call under way has
  cost at most a time-out and a pause for each failed attempt, which the lemma
  `AttemptsFitBudget` compares with the budget of a call. `HostedReportsAreLogged` carries `HInv`
  over to the steps of this module, which only refine when a step is taken; `HostedContractIsKept`
  does the same for the critique stage;
  `ToolEntriesAreInOrder` adds that, as long as the first two fact finders have
  not both answered, no screening is recorded beside the one of the beginning.
* `DeploymentProofs`: `TypeCorrect`, `NothingIsInProgressForEver`, `CasesAreFound`. The
  invariant says where a request can be, according to how far it has come, that what a replica
  queues or runs was sent to its present process, and, in both directions, that its store knows
  of exactly the cases this process has begun to investigate (`StoreKnows`, `StoreIsFounded`).
* `PureFunctionsProofs`, about answers, ledgers and registers of any length. The invariant
  `InputsOK` is nothing but the types of the inputs (a text; a ledger of transactions; two
  lists of scores of one kind), so each theorem holds of all of them, not only of those that grow from
  what is seeded. `AnswersAreSplit` and `NoWordIsLost` rest on where the parser's two searches
  stop, and on the fact that trimming removes nothing but line breaks. `ClustersAreFlagged` needs that
  `Max` of the time stamps is one of them, so that a window that ends with the latest
  transaction is the same as being not too old for any, and that the sum over a set, a recursion of the
  community modules over its subsets, lies between as many times the least and the greatest
  amount. `LatePostingsAreHarmless` follows since a late transaction moves no window.
  `BestEntriesAreMatched`, `HitsSurvive` and `NarrativesAreTrue` use one lemma: what is
  returned for a name depends on the best score alone, and that is 0, or the score of an entry.

So every invariant and every action property that a run checks is also a theorem.
Only model-checked are the liveness properties (`Terminates`, `RequestsAreAnswered`, `RunsEnd`,
`RequestsEnd`, and the liveness part of `ImplementsContract`), which need `ENABLED`, out of the
prover's reach.

How recursion is proved about. The provers cannot instantiate an induction theorem that takes a
predicate, so `NaturalsByInduction` is stated for a *set* of numbers instead and follows from the
library's theorem that `<` is well-founded. A recursive function is a `CHOOSE` in TLA+: for each one
(the selection of entries, the weight of a text, the best entry, the sum) one lemma shows by induction
that a function with its equations exists, another that the operator is its value, and
everything else is proved from the equations.

## 5. What is not modelled, and the plan

Assumed of what is outside the repository: the agent framework passes the error of a model
on as it is and does not repeat a task of its own accord; an attempt of a provider call ends, with
an answer or an error, within its time-out, whatever the provider's client does meanwhile (attempts
of its own within one of `ResilientLLM` are not modelled, and would have to fit into that time); synchronous handlers share
one pool of threads, served in the order of arrival; the service sends requests to ready
replicas only; the kubelet counts failures in a row and starts the process anew.

Done, in this order: `Texts`–`CritiqueLoop` with its contract (the core logic of
the program), `CaseApi` with its life cycle (its only shared mutable state), the
proofs about both, `Investigation` and `AuditLog`, then the tools, the hosted model's calls and the
deployment, and the proofs about these; last the proofs about recursive definitions: the
histories in the log, the parser, the tools, the narratives and the offline run.

Next: to compose what is proved, so that the detailed loop with its texts and trail is shown to be
the critique stage of a run step by step, instead of both meeting in `ReviewContract`; and
the same for `CaseApi` under `Deployment`.

Not planned:

* prompt wording (`agents.py`, the task descriptions) and the triage narrative of the
  offline model, which nothing reads;
* logging and tracing: formatting and export, no state the rest of the program reads;
* start-up, command line and container set-up, environment parsing, how a model's name is spelled for
  the provider (`_resolve_model_string`): sequential code without a state of its own;
* `CaseStore.list_ids` (no caller), API keys and resource limits;
* passive domain types: records without behaviour.

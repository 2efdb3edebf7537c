----------------------------- MODULE Investigation -----------------------------
(***************************************************************************)
(* crew/crew_definition.py: runs of run_investigation that share the audit *)
(* log of the process.  A run gathers facts with the two tools, has three  *)
(* agents put them into words, goes through the critique loop and returns  *)
(* a report.  The loop is what ReviewContract lets its caller see, with    *)
(* the audit entries it records; CritiqueLoop is its detail.  A step ends  *)
(* where an entry is recorded or an agent is waited for.                   *)
(***************************************************************************)
EXTENDS Integers, FiniteSets, SequencesExt

CONSTANTS
  Runs,           \* calls of run_investigation
  Cases,          \* the seeded case ids
  OtherIds,       \* case ids that are not seeded, which an agent may make up
  Cap,            \* settings.max_compliance_iterations, after the clamp
  MaxToolCalls    \* bound on the tool calls of all agents together

ASSUME CapAssumption       == Cap \in Nat \ {0}
ASSUME ToolCallsAssumption == MaxToolCalls \in Nat

VARIABLES
  llm,         \* the model of the process: "mock" or "hosted"
  target,      \* the case each run is about
  stage,       \* where each run is
  iteration,   \* the loop's iteration, 0 before the first draft
  reviewed,    \* the number of reviews held
  verdict,     \* of the last review: "none", "failed", "passed" or "escalated"
  called,      \* the number of tool calls agents have made
  log          \* audit_log._entries

vars == <<llm, target, stage, iteration, reviewed, verdict, called, log>>
loop == <<iteration, reviewed, verdict>>

------------------------------------------------------------------------------
\* The audit entries.  `run` is not in the code: properties use it to tell whose
\* entry it is.

Entry(r, c, what, i, result) ==
  [run |-> r, case_id |-> c, action |-> what, iteration |-> i, result |-> result]

Actions ==
  {"investigation_started", "pattern_analysis_computed",
   "watchlist_screening_computed", "fact_gathering_complete",
   "checklist_evaluated", "draft_revised", "investigation_complete"}

ToolActions == {"pattern_analysis_computed", "watchlist_screening_computed"}

CaseIds == Cases \cup OtherIds

Verdicts == {"none", "failed", "passed", "escalated"}

\* Mutant: entries take their case id from a context of the process, which the
\* last run to start has set.
RecordInContext(r, what, i, result) ==
  LET starts  == SelectSeq(log, LAMBDA e : e.action = "investigation_started")
      current == IF what = "investigation_started" \/ starts = << >> THEN target[r]
                 ELSE Last(starts).case_id
  IN  log' = Append(log, Entry(r, current, what, i, result))

Record(r, what, i, result) ==
  log' = Append(log, Entry(r, target[r], what, i, result))

GoTo(r, next) == stage' = [stage EXCEPT ![r] = next]

------------------------------------------------------------------------------
\* The stages of a run.

Init ==
  /\ llm \in {"mock", "hosted"}
  /\ target \in [Runs -> Cases]
  /\ stage = [r \in Runs |-> "new"]
  /\ iteration = [r \in Runs |-> 0]
  /\ reviewed = [r \in Runs |-> 0]
  /\ verdict = [r \in Runs |-> "none"]
  /\ called = 0
  /\ log = << >>

Start(r) ==
  /\ stage[r] = "new"
  /\ Record(r, "investigation_started", 0, "none")
  /\ GoTo(r, "analysing")
  /\ UNCHANGED <<llm, target, loop, called>>

AnalysePatterns(r) ==
  /\ stage[r] = "analysing"
  /\ Record(r, "pattern_analysis_computed", 0, "none")
  /\ GoTo(r, "screening")
  /\ UNCHANGED <<llm, target, loop, called>>

ScreenNames(r) ==
  /\ stage[r] = "screening"
  /\ Record(r, "watchlist_screening_computed", 0, "none")
  /\ GoTo(r, "explaining")
  /\ UNCHANGED <<llm, target, loop, called>>

\* While the crew explains the facts, an agent of a hosted model may use its
\* tool, which computes and records again, for the case id the model gives it.
\* The ledger exists for the seeded ones only; names are screened for any.
CallTool(r) ==
  /\ stage[r] = "explaining" /\ llm = "hosted" /\ called < MaxToolCalls
  /\ \E c \in CaseIds, what \in ToolActions :
       /\ what = "pattern_analysis_computed" => c \in Cases
       /\ log' = Append(log, Entry(r, c, what, 0, "none"))
  /\ called' = called + 1
  /\ UNCHANGED <<llm, target, stage, loop>>

CompleteFacts(r) ==
  /\ stage[r] = "explaining"
  /\ Record(r, "fact_gathering_complete", 0, "none")
  /\ GoTo(r, "drafting")
  /\ UNCHANGED <<llm, target, loop, called>>

FirstDraft(r) ==
  /\ stage[r] = "drafting"
  /\ iteration' = [iteration EXCEPT ![r] = 1]
  /\ GoTo(r, "reviewing")
  /\ UNCHANGED <<llm, target, reviewed, verdict, called, log>>

VerdictOf(passed, i) ==
  IF passed THEN "passed" ELSE IF i >= Cap THEN "escalated" ELSE "failed"

\* Mutant: the last permitted review sends the draft back as well.
ReviewWithoutCap(r) ==
  /\ stage[r] = "reviewing"
  /\ \E passed \in BOOLEAN :
       /\ verdict' = [verdict EXCEPT ![r] = IF passed THEN "passed" ELSE "failed"]
       /\ Record(r, "checklist_evaluated", iteration[r], verdict'[r])
       /\ GoTo(r, IF passed THEN "assembling" ELSE "revising")
  /\ reviewed' = [reviewed EXCEPT ![r] = iteration[r]]
  /\ UNCHANGED <<llm, target, iteration, called>>

Review(r) ==
  /\ stage[r] = "reviewing"
  /\ \E passed \in BOOLEAN :
       /\ verdict' = [verdict EXCEPT ![r] = VerdictOf(passed, iteration[r])]
       /\ Record(r, "checklist_evaluated", iteration[r], verdict'[r])
       /\ GoTo(r, IF verdict'[r] = "failed" THEN "revising" ELSE "assembling")
  /\ reviewed' = [reviewed EXCEPT ![r] = iteration[r]]
  /\ UNCHANGED <<llm, target, iteration, called>>

Revise(r) ==
  /\ stage[r] = "revising"
  /\ Record(r, "draft_revised", iteration[r] + 1, "none")
  /\ iteration' = [iteration EXCEPT ![r] = @ + 1]
  /\ GoTo(r, "reviewing")
  /\ UNCHANGED <<llm, target, reviewed, verdict, called>>

\* Mutant: an escalated run returns without its closing entry.
CompleteUnlessEscalated(r) ==
  /\ stage[r] = "assembling"
  /\ IF verdict[r] = "passed"
     THEN Record(r, "investigation_complete", iteration[r], verdict[r])
     ELSE UNCHANGED log
  /\ GoTo(r, "returned")
  /\ UNCHANGED <<llm, target, loop, called>>

\* Mutant: an escalated run is held back for the human reviewer.
CompleteIfPassed(r) ==
  /\ stage[r] = "assembling" /\ verdict[r] = "passed"
  /\ Record(r, "investigation_complete", iteration[r], verdict[r])
  /\ GoTo(r, "returned")
  /\ UNCHANGED <<llm, target, loop, called>>

\* Mutant: a case that has its closing entry gets no second one.
CompleteOncePerCase(r) ==
  /\ stage[r] = "assembling"
  /\ IF \E k \in DOMAIN log : /\ log[k].case_id = target[r]
                             /\ log[k].action = "investigation_complete"
     THEN UNCHANGED log
     ELSE Record(r, "investigation_complete", iteration[r], verdict[r])
  /\ GoTo(r, "returned")
  /\ UNCHANGED <<llm, target, loop, called>>

\* The report is assembled, its watermark tested, and returned.
Complete(r) ==
  /\ stage[r] = "assembling"
  /\ Record(r, "investigation_complete", iteration[r], verdict[r])
  /\ GoTo(r, "returned")
  /\ UNCHANGED <<llm, target, loop, called>>

\* An agent's error leaves run_investigation, which records nothing about it.
AgentRaises(r) ==
  /\ llm = "hosted"
  /\ stage[r] \in {"explaining", "drafting", "reviewing", "revising"}
  /\ GoTo(r, "raised")
  /\ UNCHANGED <<llm, target, loop, called, log>>

Run(r) ==
  \/ Start(r) \/ AnalysePatterns(r) \/ ScreenNames(r)
  \/ CallTool(r) \/ CompleteFacts(r)
  \/ FirstDraft(r) \/ Review(r) \/ Revise(r)
  \/ Complete(r) \/ AgentRaises(r)

Next == \E r \in Runs : Run(r)

Spec == Init /\ [][Next]_vars

------------------------------------------------------------------------------
\* Properties.

Stages == {"new", "analysing", "screening", "explaining", "drafting", "reviewing",
           "revising", "assembling", "returned", "raised"}

Entries == [run : Runs, case_id : CaseIds, action : Actions, iteration : Nat,
            result : Verdicts]

TypeOK ==
  /\ llm \in {"mock", "hosted"}
  /\ target \in [Runs -> Cases]
  /\ stage \in [Runs -> Stages]
  /\ iteration \in [Runs -> 0 .. Cap]
  /\ reviewed \in [Runs -> 0 .. Cap]
  /\ verdict \in [Runs -> Verdicts]
  /\ called \in 0 .. MaxToolCalls
  /\ log \in Seq(Entries)

\* The elements of s at the positions in P, in their order.
Picked(s, P) ==
  LET picked[n \in 0 .. Len(s)] ==
        IF n = 0 THEN << >>
        ELSE IF n \in P THEN Append(picked[n - 1], s[n]) ELSE picked[n - 1]
  IN  picked[Len(s)]

\* The entries run r has recorded.
OfRun(r) == Picked(log, {k \in DOMAIN log : log[k].run = r})

\* What a run's own entries must be once it has returned: facts, then reviews
\* and revisions in turn up to the verdict, then the closing entry.
Facts == <<"investigation_started", "pattern_analysis_computed",
           "watchlist_screening_computed">>

IsCompleteHistory(h, r) ==
  LET n     == Len(h)
      start == n - 2 * iteration[r]    \* the entry that completes the facts
      Says(k, what, i, result) ==
        h[k].action = what /\ h[k].iteration = i /\ h[k].result = result
  IN  /\ start > Len(Facts)
      /\ \A k \in 1 .. Len(Facts) : h[k].action = Facts[k]
      /\ \A k \in Len(Facts) + 1 .. start - 1 : h[k].action \in ToolActions
      /\ h[start].action = "fact_gathering_complete"
      /\ \A i \in 1 .. iteration[r] :
           Says(start + 2 * i - 1, "checklist_evaluated", i,
                IF i = iteration[r] THEN verdict[r] ELSE "failed")
      /\ \A i \in 2 .. iteration[r] : Says(start + 2 * i - 2, "draft_revised", i, "none")
      /\ Says(n, "investigation_complete", iteration[r], verdict[r])

(***************************************************************************)
(* A run that returns a report has left its complete history in the log,   *)
(* in order and ending with the verdict and the iterations of the report,  *)
(* however many runs record at the same time and whatever tools the agents *)
(* use in between.                                                         *)
(***************************************************************************)
ReturnedRunsAreLogged ==
  \A r \in Runs : stage[r] = "returned" => IsCompleteHistory(OfRun(r), r)

\* What for_case(c) returns, without the entries of tools.
Milestones(c) ==
  Picked(log, {k \in DOMAIN log : log[k].case_id = c /\ log[k].action \notin ToolActions})

\* The milestones of a run that has returned: its start, its facts, reviews and
\* revisions in turn up to the verdict, and its report.
IsTrail(t, r) ==
  LET Says(k, what, i, result) ==
        t[k].action = what /\ t[k].iteration = i /\ t[k].result = result
  IN  /\ Len(t) = 2 * iteration[r] + 2
      /\ t[1].action = "investigation_started"
      /\ t[2].action = "fact_gathering_complete"
      /\ \A i \in 1 .. iteration[r] :
           Says(2 * i + 1, "checklist_evaluated", i,
                IF i = iteration[r] THEN verdict[r] ELSE "failed")
      /\ \A i \in 2 .. iteration[r] : Says(2 * i, "draft_revised", i, "none")
      /\ Says(Len(t), "investigation_complete", iteration[r], verdict[r])

(***************************************************************************)
(* The whole run is reconstructable from the entries keyed by its case     *)
(* (crew_definition.py:17-18), tools apart, where the case has had only    *)
(* one run: whatever runs of other cases record in between, and whatever   *)
(* case the agents of any run use their tools for.  Entries of tools are   *)
(* not claimed: another run's may be filed under this case.                *)
(***************************************************************************)
AloneIsReconstructable ==
  \A r \in Runs :
    /\ stage[r] = "returned"
    /\ \A q \in Runs \ {r} : target[q] = target[r] => stage[q] = "new"
    => IsTrail(Milestones(target[r]), r)

EntriesOf(what) == {k \in DOMAIN log : log[k].action = what}

Reached(stages) == {r \in Runs : stage[r] \in stages}

EntriesAbout(entries, c, result) ==
  {k \in entries : log[k].result = result /\ log[k].case_id = c}

RunsAbout(runs, c, result) == {r \in runs : verdict[r] = result /\ target[r] = c}

\* As many entries as runs, of every case, verdict and iteration.
AccountFor(entries, runs) ==
  \A c \in Cases, result \in {"passed", "escalated"} :
    LET about == EntriesAbout(entries, c, result)
        ended == RunsAbout(runs, c, result)
    IN  \A i \in 1 .. Cap :
          Cardinality({k \in about : log[k].iteration = i})
          = Cardinality({r \in ended : iteration[r] = i})

(***************************************************************************)
(* Entries do not say which run they are from, and a case may have several *)
(* runs at a time.  What for_case returns still accounts for the reports:  *)
(* of every verdict, a case has as many deciding reviews as it has runs    *)
(* that were decided so, and as many closing entries as it has reports.    *)
(***************************************************************************)
ReportsAreAccountedFor ==
  /\ AccountFor(EntriesOf("checklist_evaluated"), Reached({"assembling", "returned"}))
  /\ AccountFor(EntriesOf("investigation_complete"), Reached({"returned"}))

Contract(r) ==
  INSTANCE ReviewContract
    WITH cap     <- Cap,
         rounds  <- reviewed[r],
         outcome <- IF verdict[r] \in {"passed", "escalated"} THEN verdict[r]
                    ELSE IF stage[r] = "raised" THEN "raised" ELSE "pending"

(***************************************************************************)
(* The critique stage of every run keeps the contract that CritiqueLoop    *)
(* implements, so that the two modules fit together.                       *)
(***************************************************************************)
LoopsKeepTheContract ==
  /\ \A r \in Runs : Contract(r)!Init
  /\ [][ \A r \in Runs : Contract(r)!Next \/ UNCHANGED Contract(r)!vars ]_vars
==============================================================================

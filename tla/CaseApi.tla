------------------------------- MODULE CaseApi -------------------------------
(***************************************************************************)
(* api/routes.py and api/case_store.py: the two request handlers and the   *)
(* store they share.  A handler is a synchronous function, so requests run *)
(* in different threads and interleave wherever a statement ends.  Each    *)
(* POST has a CaseRecord object of its own; the store maps a case to one   *)
(* of these objects, and a GET keeps a reference to the live object, which *)
(* is only read when the response is serialized.                           *)
(***************************************************************************)
EXTENDS Integers, FiniteSets

CONSTANTS
  Posts,         \* the POST requests that may arrive
  Gets,          \* the GET requests that may arrive
  Cases,         \* the case ids clients ask for
  SeededCases,   \* those run_investigation knows (SEED_CASES)
  NoPost         \* "no object": the value of dict.get for a missing key

ASSUME SeededCasesAssumption == SeededCases \subseteq Cases
ASSUME RequestsAssumption    == NoPost \notin Posts /\ Posts \cap Gets = {}
ASSUME FinitenessAssumption  == IsFiniteSet(Posts)

VARIABLES
  at,       \* the statement each request has reached
  target,   \* the case id of each request
  record,   \* the CaseRecord object of each POST
  report,   \* the local variable of each POST: what run_investigation returned
  store,    \* case_store._records
  held,     \* the object each GET has looked up
  answer    \* the response of each request

vars == <<at, target, record, report, store, held, answer>>

------------------------------------------------------------------------------
\* Values.

Requests == Posts \cup Gets

NoReport == [run |-> NoPost, escalated |-> FALSE]
Reports  == [run : Posts, escalated : BOOLEAN] \cup {NoReport}

Statuses == {"pending", "in_progress", "completed", "escalated", "failed"}

Records == [status : Statuses, report : Reports, error : BOOLEAN]

FreshRecord == [status |-> "pending", report |-> NoReport, error |-> FALSE]

NoAnswer == [code |-> 0, body |-> FreshRecord]
NotFound == [code |-> 404, body |-> FreshRecord]
Answers  == [code : {0, 200, 404, 500}, body : Records]

\* A POST that has been accepted and not answered.
InFlight(p) == at[p] \notin {"new", "answered"}

------------------------------------------------------------------------------
\* POST /cases/{case_id}/investigate.

Init ==
  /\ at = [q \in Requests |-> "new"]
  /\ target \in [Requests -> Cases]
  /\ record = [p \in Posts |-> FreshRecord]
  /\ report = [p \in Posts |-> NoReport]
  /\ store = [c \in Cases |-> NoPost]
  /\ held = [g \in Gets |-> NoPost]
  /\ answer = [q \in Requests |-> NoAnswer]

GoTo(q, label) == at' = [at EXCEPT ![q] = label]

\* The record is put in the store before the case id is looked at.
Accept(p) ==
  /\ at[p] = "new"
  /\ record' = [record EXCEPT ![p].status = "in_progress"]
  /\ store' = [store EXCEPT ![target[p]] = p]
  /\ GoTo(p, "investigating")
  /\ UNCHANGED <<target, report, held, answer>>

\* CaseNotFoundError: the record stays as it is, in the store.
Reject(p) ==
  /\ at[p] = "investigating" /\ target[p] \notin SeededCases
  /\ answer' = [answer EXCEPT ![p] = NotFound]
  /\ GoTo(p, "answered")
  /\ UNCHANGED <<target, record, report, store, held>>

\* Mutant: an escalated case is filed as completed.
SetStatusCompleted(p) ==
  /\ at[p] = "investigating" /\ target[p] \in SeededCases
  /\ \E escalated \in BOOLEAN :
       /\ report' = [report EXCEPT ![p] = [run |-> p, escalated |-> escalated]]
       /\ record' = [record EXCEPT ![p].status = "completed"]
  /\ GoTo(p, "status set")
  /\ UNCHANGED <<target, store, held, answer>>

\* run_investigation returns, and the status is taken from its report.
SetStatus(p) ==
  /\ at[p] = "investigating" /\ target[p] \in SeededCases
  /\ \E escalated \in BOOLEAN :
       /\ report' = [report EXCEPT ![p] = [run |-> p, escalated |-> escalated]]
       /\ record' = [record EXCEPT ![p].status =
                       IF escalated THEN "escalated" ELSE "completed"]
  /\ GoTo(p, "status set")
  /\ UNCHANGED <<target, store, held, answer>>

SetReport(p) ==
  /\ at[p] = "status set"
  /\ record' = [record EXCEPT ![p].report = report[p]]
  /\ GoTo(p, "complete")
  /\ UNCHANGED <<target, report, store, held, answer>>

\* run_investigation raises anything else.
SetFailed(p) ==
  /\ at[p] = "investigating" /\ target[p] \in SeededCases
  /\ record' = [record EXCEPT ![p].status = "failed"]
  /\ GoTo(p, "failed")
  /\ UNCHANGED <<target, report, store, held, answer>>

\* Mutant: the failure is logged but the record gets no error.
SetErrorForgotten(p) ==
  /\ at[p] = "failed"
  /\ GoTo(p, "complete")
  /\ UNCHANGED <<target, record, report, store, held, answer>>

SetError(p) ==
  /\ at[p] = "failed"
  /\ record' = [record EXCEPT ![p].error = TRUE]
  /\ GoTo(p, "complete")
  /\ UNCHANGED <<target, report, store, held, answer>>

\* Mutant: a compare-and-set that never gives up.
PutIfStillThere(p) ==
  /\ at[p] = "complete" /\ store[target[p]] = p
  /\ GoTo(p, "stored")
  /\ UNCHANGED <<target, record, report, store, held, answer>>

Put(p) ==
  /\ at[p] = "complete"
  /\ store' = [store EXCEPT ![target[p]] = p]
  /\ GoTo(p, "stored")
  /\ UNCHANGED <<target, record, report, held, answer>>

\* Mutant: the response is read back from the store.
RespondFromStore(p) ==
  /\ at[p] = "stored"
  /\ answer' = [answer EXCEPT ![p] =
                  [code |-> IF record[p].error THEN 500 ELSE 200,
                   body |-> record[store[target[p]]]]]
  /\ GoTo(p, "answered")
  /\ UNCHANGED <<target, record, report, store, held>>

\* The record itself, or an HTTP error with the text of its error.
Respond(p) ==
  /\ at[p] = "stored"
  /\ answer' = [answer EXCEPT ![p] =
                  [code |-> IF record[p].error THEN 500 ELSE 200,
                   body |-> record[p]]]
  /\ GoTo(p, "answered")
  /\ UNCHANGED <<target, record, report, store, held>>

Post(p) ==
  \/ Accept(p) \/ Reject(p)
  \/ SetStatus(p) \/ SetReport(p)
  \/ SetFailed(p) \/ SetError(p)
  \/ Put(p) \/ Respond(p)

------------------------------------------------------------------------------
\* GET /cases/{case_id}/report.

\* Mutant: the result of the lookup is not tested for None.
LookUpUnchecked(g) ==
  /\ at[g] = "new"
  /\ held' = [held EXCEPT ![g] = store[target[g]]]
  /\ GoTo(g, "found")
  /\ UNCHANGED <<target, record, report, store, answer>>

LookUp(g) ==
  /\ at[g] = "new" /\ store[target[g]] # NoPost
  /\ held' = [held EXCEPT ![g] = store[target[g]]]
  /\ GoTo(g, "found")
  /\ UNCHANGED <<target, record, report, store, answer>>

NothingFound(g) ==
  /\ at[g] = "new" /\ store[target[g]] = NoPost
  /\ answer' = [answer EXCEPT ![g] = NotFound]
  /\ GoTo(g, "answered")
  /\ UNCHANGED <<target, record, report, store, held>>

\* The response model is built from the live object in one go.
Serialize(g) ==
  /\ at[g] = "found"
  /\ answer' = [answer EXCEPT ![g] = [code |-> 200, body |-> record[held[g]]]]
  /\ GoTo(g, "answered")
  /\ UNCHANGED <<target, record, report, store, held>>

Get(g) == LookUp(g) \/ NothingFound(g) \/ Serialize(g)

Next == (\E p \in Posts : Post(p)) \/ (\E g \in Gets : Get(g))

SafetySpec == Init /\ [][Next]_vars

\* Each request has a thread; the scheduler lets every thread run.
Spec ==
  /\ SafetySpec
  /\ \A p \in Posts : WF_vars(at[p] # "new" /\ Post(p))
  /\ \A g \in Gets : WF_vars(at[g] # "new" /\ Get(g))

------------------------------------------------------------------------------
\* Properties.

TypeOK ==
  /\ at \in [Requests -> {"new", "investigating", "status set", "failed",
                         "complete", "stored", "found", "answered"}]
  /\ target \in [Requests -> Cases]
  /\ record \in [Posts -> Records]
  /\ report \in [Posts -> Reports]
  /\ store \in [Cases -> Posts \cup {NoPost}]
  /\ held \in [Gets -> Posts \cup {NoPost}]
  /\ \A g \in Gets : at[g] = "found" => held[g] \in Posts
  /\ answer \in [Requests -> Answers]

Outcomes == {"completed", "escalated", "failed"}

\* A record with an outcome and what belongs to it: a report with that
\* verdict, or an error.
IsSettled(r) ==
  \/ /\ r.report # NoReport /\ ~r.error
     /\ r.status = IF r.report.escalated THEN "escalated" ELSE "completed"
  \/ r.report = NoReport /\ r.error /\ r.status = "failed"

(***************************************************************************)
(* No response shows a report or an error under a status that contradicts  *)
(* it, at whatever moment of however many concurrent runs it was built.    *)
(* (The converse does not hold: see OutcomeComesWithReport.)               *)
(***************************************************************************)
AnswersAreConsistent ==
  \A q \in Requests :
    answer[q].body.report # NoReport \/ answer[q].body.error
      => IsSettled(answer[q].body)

(***************************************************************************)
(* A POST is answered with the outcome of the investigation it started,    *)
(* not with that of a concurrent POST for the same case.                   *)
(***************************************************************************)
PostAnswersItsOwnRun ==
  \A p \in Posts :
    /\ answer[p].code = 200 =>
         answer[p].body.report.run = p /\ IsSettled(answer[p].body)
    /\ answer[p].code = 500 => answer[p].body.error

(***************************************************************************)
(* Once every POST for a seeded case has been answered, the store holds a  *)
(* settled record for it, whichever of them wrote last.                    *)
(***************************************************************************)
IdleStoreIsSettled ==
  \A c \in SeededCases :
    /\ store[c] # NoPost
    /\ \A p \in Posts : target[p] = c => ~InFlight(p)
    => IsSettled(record[store[c]])

(***************************************************************************)
(* Every accepted request is answered: the handlers wait for nothing but   *)
(* the lock of the store, which is never held across a call.               *)
(***************************************************************************)
RequestsAreAnswered ==
  \A q \in Requests : at[q] # "new" ~> at[q] = "answered"

\* What a GET started now would show of a case, a record without its report or
\* error counting as in progress.
Seen(c) ==
  IF store[c] = NoPost THEN "absent"
  ELSE IF record[store[c]].report # NoReport \/ record[store[c]].error
  THEN record[store[c]].status
  ELSE "in_progress"

Open(c) == Cardinality({p \in Posts : target[p] = c /\ InFlight(p)})

Lifecycle == INSTANCE CaseLifecycle
               WITH Cases <- SeededCases,
                    seen  <- [c \in SeededCases |-> Seen(c)],
                    open  <- [c \in SeededCases |-> Open(c)]

(***************************************************************************)
(* The handlers and the store implement the lifecycle of every seeded      *)
(* case, through all interleavings of its requests and of other cases'.    *)
(***************************************************************************)
ImplementsLifecycle == Lifecycle!Spec

------------------------------------------------------------------------------
\* What the documentation and the tests say and the code does not do.

(***************************************************************************)
(* tests/test_api.py:28-35 and README.md:84,89: a case whose status is     *)
(* completed or escalated comes with its report.                           *)
(***************************************************************************)
OutcomeComesWithReport ==
  \A q \in Requests :
    answer[q].body.status \in {"completed", "escalated"}
      => answer[q].body.report # NoReport

(***************************************************************************)
(* routes.py:3-6: an investigation runs within its POST, so nothing is in  *)
(* progress while no POST is being handled.                                *)
(***************************************************************************)
NothingInProgressWhenIdle ==
  (\A p \in Posts : ~InFlight(p)) =>
    \A c \in Cases : store[c] # NoPost => record[store[c]].status # "in_progress"
==============================================================================

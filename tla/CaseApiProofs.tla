---------------------------- MODULE CaseApiProofs ----------------------------
(***************************************************************************)
(* The safety of the request handlers, proved for any number of concurrent *)
(* requests and any cases.                                                 *)
(***************************************************************************)
EXTENDS CaseApi, FiniteSetTheorems, TLAPS

(***************************************************************************)
(* The inductive invariant.  What the responses show depends on how far    *)
(* the handler that owns a record has come, so RecordMatchesHandler says   *)
(* for each statement what the record holds; and the store must only refer *)
(* to the record of a request that was accepted, for the case it is filed  *)
(* under.                                                                  *)
(***************************************************************************)
OwnOutcome(p) ==
  /\ IsSettled(record[p])
  /\ record[p].report # NoReport => record[p].report.run = p

NoPayload(p) == record[p].report = NoReport /\ ~record[p].error

RecordMatchesHandler(p) ==
  /\ at[p] # "found"
  /\ at[p] \in {"status set", "failed", "complete", "stored"} =>
       target[p] \in SeededCases
  /\ at[p] \in {"new", "investigating"} => NoPayload(p)
  /\ at[p] = "status set" =>
       /\ NoPayload(p)
       /\ report[p] \in [run : {p}, escalated : BOOLEAN]
       /\ record[p].status = IF report[p].escalated THEN "escalated" ELSE "completed"
  /\ at[p] = "failed" => NoPayload(p) /\ record[p].status = "failed"
  /\ at[p] \in {"complete", "stored"} => OwnOutcome(p)
  /\ at[p] = "answered" =>
       IF target[p] \in SeededCases THEN OwnOutcome(p) ELSE NoPayload(p)

StoreRefersToAccepted ==
  \A c \in Cases :
    store[c] # NoPost => target[store[c]] = c /\ at[store[c]] # "new"

Inv ==
  /\ TypeOK
  /\ \A p \in Posts : RecordMatchesHandler(p)
  /\ StoreRefersToAccepted
  /\ AnswersAreConsistent
  /\ PostAnswersItsOwnRun

\* A record that shows a report or an error is settled, whoever reads it.
LEMMA RecordsAreConsistent ==
  ASSUME Inv, NEW p \in Posts, record[p].report # NoReport \/ record[p].error
  PROVE  IsSettled(record[p])
<1>1. RecordMatchesHandler(p) /\ at[p] \in {"new", "investigating", "status set",
        "failed", "complete", "stored", "found", "answered"}
  BY DEF Inv, TypeOK, Requests
<1>2. ~NoPayload(p)
  BY DEF NoPayload
<1>3. OwnOutcome(p)
  BY <1>1, <1>2 DEF RecordMatchesHandler
<1> QED BY <1>3 DEF OwnOutcome

\* The initial states: nothing accepted, nothing stored, nothing answered.
LEMMA InitInv == Init => Inv
<1> SUFFICES ASSUME Init PROVE Inv
  OBVIOUS
<1>0. /\ FreshRecord \in Records /\ NoReport \in Reports /\ NoAnswer \in Answers
      /\ FreshRecord.report = NoReport /\ FreshRecord.error = FALSE
      /\ NoAnswer.body = FreshRecord /\ NoAnswer.code = 0
  BY DEF FreshRecord, NoReport, NoAnswer, Records, Reports, Answers, Statuses
<1>1. TypeOK
  <2>1. /\ at \in [Requests -> {"new"}]
        /\ target \in [Requests -> Cases]
        /\ record \in [Posts -> Records] /\ report \in [Posts -> Reports]
        /\ store \in [Cases -> {NoPost}] /\ held \in [Gets -> {NoPost}]
        /\ answer \in [Requests -> Answers]
    BY <1>0 DEF Init
  <2>2. \A g \in Gets : at[g] = "new"
    BY <2>1 DEF Requests
  <2> QED BY <2>1, <2>2 DEF TypeOK
<1>2. \A p \in Posts : RecordMatchesHandler(p)
  BY <1>0 DEF Init, Requests, RecordMatchesHandler, NoPayload
<1>3. StoreRefersToAccepted
  BY DEF Init, StoreRefersToAccepted
<1>4. AnswersAreConsistent
  BY <1>0 DEF Init, AnswersAreConsistent
<1>5. PostAnswersItsOwnRun
  BY <1>0 DEF Init, PostAnswersItsOwnRun, Requests
<1> QED BY <1>1, <1>2, <1>3, <1>4, <1>5 DEF Inv

\* What AnswersAreConsistent and PostAnswersItsOwnRun say of one response.
ConsistentAnswer(q) ==
  answer[q].body.report # NoReport \/ answer[q].body.error
    => IsSettled(answer[q].body)

OwnAnswer(p) ==
  /\ answer[p].code = 200 =>
       answer[p].body.report.run = p /\ IsSettled(answer[p].body)
  /\ answer[p].code = 500 => answer[p].body.error

\* A step of one POST leaves the others' objects alone: it preserves the
\* invariant if it does so for its own object, its response and the entry of
\* the store it may claim.
LEMMA PostFrame ==
  ASSUME Inv, NEW p \in Posts, TypeOK',
         target' = target,
         \A q \in Requests \ {p} : at'[q] = at[q] /\ answer'[q] = answer[q],
         \A q \in Posts \ {p} : record'[q] = record[q] /\ report'[q] = report[q],
         at'[p] # "new",
         \A c \in Cases : store'[c] = store[c] \/ (store'[c] = p /\ c = target[p]),
         RecordMatchesHandler(p)',
         ConsistentAnswer(p)', OwnAnswer(p)'
  PROVE  Inv'
<1>1. ASSUME NEW q \in Posts PROVE RecordMatchesHandler(q)'
  <2>1. CASE q = p
    BY <2>1
  <2>2. CASE q # p
    <3>1. /\ at'[q] = at[q] /\ target'[q] = target[q]
          /\ record'[q] = record[q] /\ report'[q] = report[q]
      BY <2>2 DEF Requests
    <3>2. RecordMatchesHandler(q)
      BY DEF Inv
    <3> QED BY <3>1, <3>2 DEF RecordMatchesHandler, NoPayload, OwnOutcome, IsSettled
  <2> QED BY <2>1, <2>2
<1>2. StoreRefersToAccepted'
  <2> SUFFICES ASSUME NEW c \in Cases, store'[c] # NoPost
               PROVE  target'[store'[c]] = c /\ at'[store'[c]] # "new"
    BY DEF StoreRefersToAccepted
  <2>1. CASE store'[c] = p /\ c = target[p]
    BY <2>1
  <2>2. CASE store'[c] = store[c]
    <3>0. store[c] # NoPost
      BY <2>2
    <3>1. /\ store[c] \in Posts
          /\ target[store[c]] = c /\ at[store[c]] # "new"
      <4>1. store \in [Cases -> Posts \cup {NoPost}]
        BY DEF Inv, TypeOK
      <4>2. store[c] \in Posts
        BY <3>0, <4>1
      <4>3. StoreRefersToAccepted
        BY DEF Inv
      <4> QED BY <3>0, <4>2, <4>3 DEF StoreRefersToAccepted
    <3>2. CASE store[c] = p
      BY <2>2, <3>1, <3>2
    <3>3. CASE store[c] # p
      <4>1. store[c] \in Requests \ {p}
        BY <3>1, <3>3 DEF Requests
      <4>2. at'[store[c]] = at[store[c]]
        BY <4>1
      <4> QED BY <2>2, <3>1, <4>2
    <3> QED BY <3>2, <3>3
  <2> QED BY <2>1, <2>2
<1>3. AnswersAreConsistent'
  <2> SUFFICES ASSUME NEW q \in Requests PROVE ConsistentAnswer(q)'
    BY DEF AnswersAreConsistent, ConsistentAnswer
  <2>1. CASE q = p
    BY <2>1
  <2>2. CASE q # p
    BY <2>2 DEF Inv, AnswersAreConsistent, ConsistentAnswer, IsSettled
  <2> QED BY <2>1, <2>2
<1>4. PostAnswersItsOwnRun'
  <2> SUFFICES ASSUME NEW q \in Posts PROVE OwnAnswer(q)'
    BY DEF PostAnswersItsOwnRun, OwnAnswer
  <2>1. CASE q = p
    BY <2>1
  <2>2. CASE q # p
    BY <2>2 DEF Inv, PostAnswersItsOwnRun, OwnAnswer, IsSettled, Requests
  <2> QED BY <2>1, <2>2
<1> QED BY <1>1, <1>2, <1>3, <1>4 DEF Inv

\* The steps of a POST.
LEMMA AcceptInv == ASSUME Inv, NEW p \in Posts, Accept(p) PROVE Inv'
<1>0. p \in Requests /\ at[p] = "new" /\ target[p] \in Cases
      /\ NoPayload(p) /\ ConsistentAnswer(p) /\ OwnAnswer(p)
  BY DEF Inv, TypeOK, Accept, Requests, RecordMatchesHandler,
         AnswersAreConsistent, ConsistentAnswer, PostAnswersItsOwnRun, OwnAnswer
<1>1. record' \in [Posts -> Records]
      /\ record'[p].report = record[p].report /\ record'[p].error = record[p].error
  BY DEF Inv, TypeOK, Accept, Records, Statuses
<1>2. TypeOK'
  BY <1>0, <1>1 DEF Inv, TypeOK, Accept, GoTo, Requests
<1>3. at'[p] = "investigating"
  BY <1>0 DEF Inv, TypeOK, Accept, GoTo
<1>4. RecordMatchesHandler(p)'
  BY <1>0, <1>1, <1>3 DEF RecordMatchesHandler, NoPayload
<1>5. ConsistentAnswer(p)' /\ OwnAnswer(p)'
  BY <1>0 DEF Accept, ConsistentAnswer, OwnAnswer, IsSettled
<1>6. \A c \in Cases : store'[c] = store[c] \/ (store'[c] = p /\ c = target[p])
  BY <1>0 DEF Inv, TypeOK, Accept
<1>7. \A q \in Requests \ {p} : at'[q] = at[q] /\ answer'[q] = answer[q]
  BY DEF Inv, TypeOK, Accept, GoTo
<1>8. \A q \in Posts \ {p} : record'[q] = record[q] /\ report'[q] = report[q]
  BY DEF Inv, TypeOK, Accept
<1> QED BY <1>2, <1>3, <1>4, <1>5, <1>6, <1>7, <1>8, PostFrame DEF Accept

\* A request for an unknown case is answered and its record left as it is.
LEMMA RejectInv == ASSUME Inv, NEW p \in Posts, Reject(p) PROVE Inv'
<1>0. /\ p \in Requests /\ at[p] = "investigating" /\ target[p] \notin SeededCases
      /\ NoPayload(p)
  BY DEF Inv, TypeOK, Reject, Requests, RecordMatchesHandler
<1>1. /\ NotFound \in Answers /\ NotFound.code = 404
      /\ NotFound.body.report = NoReport /\ NotFound.body.error = FALSE
  BY DEF NotFound, Answers, Records, Statuses, FreshRecord, Reports
<1>2. TypeOK'
  BY <1>0, <1>1 DEF Inv, TypeOK, Reject, GoTo, Requests
<1>3. at'[p] = "answered" /\ answer'[p] = NotFound
  BY <1>0 DEF Inv, TypeOK, Reject, GoTo
<1>4. RecordMatchesHandler(p)'
  BY <1>0, <1>3 DEF Reject, RecordMatchesHandler, NoPayload
<1>5. ConsistentAnswer(p)' /\ OwnAnswer(p)'
  BY <1>1, <1>3 DEF ConsistentAnswer, OwnAnswer
<1>6. store' = store
  BY DEF Reject
<1>7. \A q \in Requests \ {p} : at'[q] = at[q] /\ answer'[q] = answer[q]
  BY DEF Inv, TypeOK, Reject, GoTo
<1>8. \A q \in Posts \ {p} : record'[q] = record[q] /\ report'[q] = report[q]
  BY DEF Inv, TypeOK, Reject
<1> QED BY <1>2, <1>3, <1>4, <1>5, <1>6, <1>7, <1>8, PostFrame DEF Reject

\* run_investigation has returned: the status and the report still to be shown
\* are those of this request.
LEMMA SetStatusInv == ASSUME Inv, NEW p \in Posts, SetStatus(p) PROVE Inv'
<1>0. /\ p \in Requests /\ at[p] = "investigating" /\ target[p] \in SeededCases
      /\ NoPayload(p) /\ ConsistentAnswer(p) /\ OwnAnswer(p)
  BY DEF Inv, TypeOK, SetStatus, Requests, RecordMatchesHandler,
         AnswersAreConsistent, ConsistentAnswer, PostAnswersItsOwnRun, OwnAnswer
<1>1. PICK escalated \in BOOLEAN :
        /\ report' = [report EXCEPT ![p] = [run |-> p, escalated |-> escalated]]
        /\ record' = [record EXCEPT ![p].status =
                        IF escalated THEN "escalated" ELSE "completed"]
  BY DEF SetStatus
<1>a. /\ report' \in [Posts -> Reports]
      /\ report'[p] = [run |-> p, escalated |-> escalated]
  BY <1>1 DEF Inv, TypeOK, Reports
<1>b. /\ record' \in [Posts -> Records]
      /\ record'[p].report = record[p].report /\ record'[p].error = record[p].error
      /\ record'[p].status = IF escalated THEN "escalated" ELSE "completed"
  BY <1>1 DEF Inv, TypeOK, Records, Statuses
<1>2. TypeOK'
  BY <1>0, <1>a, <1>b DEF Inv, TypeOK, SetStatus, GoTo, Requests
<1>3. at'[p] = "status set"
  BY <1>0 DEF Inv, TypeOK, SetStatus, GoTo
<1>4. RecordMatchesHandler(p)'
  <2>1. NoPayload(p)'
    BY <1>0, <1>b DEF NoPayload
  <2>2. report'[p] \in [run : {p}, escalated : BOOLEAN]
        /\ report'[p].escalated = escalated
    BY <1>a
  <2>3. target'[p] \in SeededCases
    BY <1>0 DEF SetStatus
  <2> QED BY <1>3, <1>b, <2>1, <2>2, <2>3 DEF RecordMatchesHandler
<1>5. ConsistentAnswer(p)' /\ OwnAnswer(p)'
  BY <1>0 DEF SetStatus, ConsistentAnswer, OwnAnswer, IsSettled
<1>6. store' = store
  BY DEF SetStatus
<1>7. \A q \in Requests \ {p} : at'[q] = at[q] /\ answer'[q] = answer[q]
  BY DEF Inv, TypeOK, SetStatus, GoTo
<1>8. \A q \in Posts \ {p} : record'[q] = record[q] /\ report'[q] = report[q]
  BY <1>1 DEF Inv, TypeOK
<1> QED BY <1>2, <1>3, <1>4, <1>5, <1>6, <1>7, <1>8, PostFrame DEF SetStatus

\* The report joins its status: the record is settled from here on.
LEMMA SetReportInv == ASSUME Inv, NEW p \in Posts, SetReport(p) PROVE Inv'
<1>0. /\ p \in Requests /\ at[p] = "status set" /\ target[p] \in SeededCases
      /\ ConsistentAnswer(p) /\ OwnAnswer(p) /\ NoPayload(p)
      /\ report[p] \in [run : {p}, escalated : BOOLEAN]
      /\ record[p].status = IF report[p].escalated THEN "escalated" ELSE "completed"
  BY DEF Inv, TypeOK, SetReport, Requests, RecordMatchesHandler,
         AnswersAreConsistent, ConsistentAnswer, PostAnswersItsOwnRun, OwnAnswer
<1>1. /\ record' \in [Posts -> Records]
      /\ record'[p].report = report[p]
      /\ record'[p].error = record[p].error
      /\ record'[p].status = record[p].status
  BY DEF Inv, TypeOK, SetReport, Records
<1>2. TypeOK'
  BY <1>0, <1>1 DEF Inv, TypeOK, SetReport, GoTo, Requests
<1>3. at'[p] = "complete"
  BY <1>0 DEF Inv, TypeOK, SetReport, GoTo
<1>4. RecordMatchesHandler(p)'
  <2>1. report[p].run = p /\ report[p] # NoReport
    <3>1. report[p].run = p
      BY <1>0
    <3>2. NoReport.run = NoPost
      BY DEF NoReport
    <3> QED BY <3>1, <3>2, RequestsAssumption
  <2>2. OwnOutcome(p)'
    BY <1>0, <1>1, <2>1 DEF OwnOutcome, IsSettled, NoPayload
  <2> QED BY <1>0, <1>3, <2>2 DEF SetReport, RecordMatchesHandler
<1>5. ConsistentAnswer(p)' /\ OwnAnswer(p)'
  BY <1>0 DEF SetReport, ConsistentAnswer, OwnAnswer, IsSettled
<1>6. store' = store
  BY DEF SetReport
<1>7. \A q \in Requests \ {p} : at'[q] = at[q] /\ answer'[q] = answer[q]
  BY DEF Inv, TypeOK, SetReport, GoTo
<1>8. \A q \in Posts \ {p} : record'[q] = record[q] /\ report'[q] = report[q]
  BY DEF Inv, TypeOK, SetReport
<1> QED BY <1>2, <1>3, <1>4, <1>5, <1>6, <1>7, <1>8, PostFrame DEF SetReport

\* run_investigation has raised: the record is failed but shows no error yet.
LEMMA SetFailedInv == ASSUME Inv, NEW p \in Posts, SetFailed(p) PROVE Inv'
<1>0. /\ p \in Requests /\ target[p] \in SeededCases /\ at[p] = "investigating"
      /\ ConsistentAnswer(p) /\ OwnAnswer(p) /\ NoPayload(p)
  BY DEF Inv, TypeOK, SetFailed, Requests, RecordMatchesHandler,
         AnswersAreConsistent, ConsistentAnswer, PostAnswersItsOwnRun, OwnAnswer
<1>1. /\ record' \in [Posts -> Records]
      /\ record'[p].report = record[p].report /\ record'[p].error = record[p].error
      /\ record'[p].status = "failed"
  BY DEF Inv, TypeOK, SetFailed, Records, Statuses
<1>2. TypeOK'
  BY <1>0, <1>1 DEF Inv, TypeOK, SetFailed, GoTo, Requests
<1>3. at'[p] = "failed"
  BY <1>0 DEF Inv, TypeOK, SetFailed, GoTo
<1>4. RecordMatchesHandler(p)'
  BY <1>0, <1>1, <1>3 DEF SetFailed, RecordMatchesHandler, NoPayload
<1>5. ConsistentAnswer(p)' /\ OwnAnswer(p)'
  BY <1>0 DEF SetFailed, ConsistentAnswer, OwnAnswer, IsSettled
<1>6. store' = store
  BY DEF SetFailed
<1>7. \A q \in Requests \ {p} : at'[q] = at[q] /\ answer'[q] = answer[q]
  BY DEF Inv, TypeOK, SetFailed, GoTo
<1>8. \A q \in Posts \ {p} : record'[q] = record[q] /\ report'[q] = report[q]
  BY DEF Inv, TypeOK, SetFailed
<1> QED BY <1>2, <1>3, <1>4, <1>5, <1>6, <1>7, <1>8, PostFrame DEF SetFailed

\* The error joins its status.
LEMMA SetErrorInv == ASSUME Inv, NEW p \in Posts, SetError(p) PROVE Inv'
<1>0. /\ p \in Requests /\ target[p] \in SeededCases /\ at[p] = "failed"
      /\ ConsistentAnswer(p) /\ OwnAnswer(p) /\ NoPayload(p) /\ record[p].status = "failed"
  BY DEF Inv, TypeOK, SetError, Requests, RecordMatchesHandler,
         AnswersAreConsistent, ConsistentAnswer, PostAnswersItsOwnRun, OwnAnswer
<1>1. /\ record' \in [Posts -> Records]
      /\ record'[p].report = record[p].report /\ record'[p].error = TRUE
      /\ record'[p].status = record[p].status
  BY DEF Inv, TypeOK, SetError, Records
<1>2. TypeOK'
  BY <1>0, <1>1 DEF Inv, TypeOK, SetError, GoTo, Requests
<1>3. at'[p] = "complete"
  BY <1>0 DEF Inv, TypeOK, SetError, GoTo
<1>4. RecordMatchesHandler(p)'
  <2>1. OwnOutcome(p)'
    BY <1>0, <1>1 DEF OwnOutcome, IsSettled, NoPayload
  <2> QED BY <1>0, <1>3, <2>1 DEF SetError, RecordMatchesHandler
<1>5. ConsistentAnswer(p)' /\ OwnAnswer(p)'
  BY <1>0 DEF SetError, ConsistentAnswer, OwnAnswer, IsSettled
<1>6. store' = store
  BY DEF SetError
<1>7. \A q \in Requests \ {p} : at'[q] = at[q] /\ answer'[q] = answer[q]
  BY DEF Inv, TypeOK, SetError, GoTo
<1>8. \A q \in Posts \ {p} : record'[q] = record[q] /\ report'[q] = report[q]
  BY DEF Inv, TypeOK, SetError
<1> QED BY <1>2, <1>3, <1>4, <1>5, <1>6, <1>7, <1>8, PostFrame DEF SetError

\* The store may be taken back from a later request, never for another case.
LEMMA PutInv == ASSUME Inv, NEW p \in Posts, Put(p) PROVE Inv'
<1>0. /\ p \in Requests /\ target[p] \in SeededCases /\ at[p] = "complete"
      /\ ConsistentAnswer(p) /\ OwnAnswer(p) /\ OwnOutcome(p)
  BY DEF Inv, TypeOK, Put, Requests, RecordMatchesHandler,
         AnswersAreConsistent, ConsistentAnswer, PostAnswersItsOwnRun, OwnAnswer
<1>2. TypeOK'
  BY <1>0 DEF Inv, TypeOK, Put, GoTo, Requests
<1>3. at'[p] = "stored"
  BY <1>0 DEF Inv, TypeOK, Put, GoTo
<1>4. RecordMatchesHandler(p)'
  BY <1>0, <1>3 DEF Put, RecordMatchesHandler, OwnOutcome, IsSettled
<1>5. ConsistentAnswer(p)' /\ OwnAnswer(p)'
  BY <1>0 DEF Put, ConsistentAnswer, OwnAnswer, IsSettled
<1>6. \A c \in Cases : store'[c] = store[c] \/ (store'[c] = p /\ c = target[p])
  BY <1>0, SeededCasesAssumption DEF Inv, TypeOK, Put
<1>7. \A q \in Requests \ {p} : at'[q] = at[q] /\ answer'[q] = answer[q]
  BY DEF Inv, TypeOK, Put, GoTo
<1>8. \A q \in Posts \ {p} : record'[q] = record[q] /\ report'[q] = report[q]
  BY DEF Inv, TypeOK, Put
<1> QED BY <1>2, <1>3, <1>4, <1>5, <1>6, <1>7, <1>8, PostFrame DEF Put

\* The response is built from the object of this very request.
LEMMA RespondInv == ASSUME Inv, NEW p \in Posts, Respond(p) PROVE Inv'
<1>0. /\ p \in Requests /\ target[p] \in SeededCases /\ at[p] = "stored"
      /\ ConsistentAnswer(p) /\ OwnAnswer(p) /\ OwnOutcome(p)
  BY DEF Inv, TypeOK, Respond, Requests, RecordMatchesHandler,
         AnswersAreConsistent, ConsistentAnswer, PostAnswersItsOwnRun, OwnAnswer
<1>1. /\ answer'[p] = [code |-> IF record[p].error THEN 500 ELSE 200,
                       body |-> record[p]]
      /\ answer' \in [Requests -> Answers]
  <2>1. record[p] \in Records
    BY DEF Inv, TypeOK
  <2>2. [code |-> IF record[p].error THEN 500 ELSE 200, body |-> record[p]] \in Answers
    BY <2>1 DEF Answers
  <2>3. answer' = [answer EXCEPT ![p] =
                     [code |-> IF record[p].error THEN 500 ELSE 200,
                      body |-> record[p]]]
    BY DEF Respond
  <2>4. answer \in [Requests -> Answers]
    BY DEF Inv, TypeOK
  <2> QED BY <1>0, <2>2, <2>3, <2>4
<1>2. TypeOK'
  BY <1>0, <1>1 DEF Inv, TypeOK, Respond, GoTo, Requests
<1>3. at'[p] = "answered"
  BY <1>0 DEF Inv, TypeOK, Respond, GoTo
<1>4. RecordMatchesHandler(p)'
  BY <1>0, <1>1, <1>3 DEF Respond, RecordMatchesHandler, OwnOutcome, IsSettled
<1>5. ConsistentAnswer(p)' /\ OwnAnswer(p)'
  BY <1>0, <1>1 DEF ConsistentAnswer, OwnAnswer, OwnOutcome, IsSettled
<1>6. store' = store
  BY DEF Respond
<1>7. \A q \in Requests \ {p} : at'[q] = at[q] /\ answer'[q] = answer[q]
  BY DEF Inv, TypeOK, Respond, GoTo
<1>8. \A q \in Posts \ {p} : record'[q] = record[q] /\ report'[q] = report[q]
  BY DEF Inv, TypeOK, Respond
<1> QED BY <1>2, <1>3, <1>4, <1>5, <1>6, <1>7, <1>8, PostFrame DEF Respond


\* A step of a GET touches no object and no entry of the store: it preserves the
\* invariant if its response does.
LEMMA GetFrame ==
  ASSUME Inv, NEW g \in Gets, TypeOK',
         UNCHANGED <<target, record, report, store>>,
         \A q \in Requests \ {g} : at'[q] = at[q] /\ answer'[q] = answer[q],
         ConsistentAnswer(g)'
  PROVE  Inv'
<1>0. \A q \in Posts : q \in Requests \ {g}
  BY RequestsAssumption DEF Requests
<1>1. ASSUME NEW q \in Posts PROVE RecordMatchesHandler(q)'
  <2>1. at'[q] = at[q] /\ record' = record /\ report' = report /\ target' = target
    BY <1>0
  <2>2. RecordMatchesHandler(q)
    BY DEF Inv
  <2> QED BY <2>1, <2>2 DEF RecordMatchesHandler, NoPayload, OwnOutcome, IsSettled
<1>2. StoreRefersToAccepted'
  <2>1. \A c \in Cases : store[c] # NoPost => store[c] \in Posts
    BY DEF Inv, TypeOK
  <2>2. \A q \in Posts : at'[q] = at[q]
    BY <1>0
  <2> QED BY <2>1, <2>2 DEF Inv, StoreRefersToAccepted
<1>3. AnswersAreConsistent'
  <2> SUFFICES ASSUME NEW q \in Requests PROVE ConsistentAnswer(q)'
    BY DEF AnswersAreConsistent, ConsistentAnswer
  <2>1. CASE q = g
    BY <2>1
  <2>2. CASE q # g
    BY <2>2 DEF Inv, AnswersAreConsistent, ConsistentAnswer, IsSettled
  <2> QED BY <2>1, <2>2
<1>4. PostAnswersItsOwnRun'
  BY <1>0 DEF Inv, PostAnswersItsOwnRun, IsSettled
<1> QED BY <1>1, <1>2, <1>3, <1>4 DEF Inv

\* The steps of a GET.  A lookup that finds something finds an object.
LEMMA LookUpInv == ASSUME Inv, NEW g \in Gets, LookUp(g) PROVE Inv'
<1>0. g \in Requests /\ at[g] = "new" /\ target[g] \in Cases
      /\ ConsistentAnswer(g)
  BY DEF Inv, TypeOK, LookUp, Requests, AnswersAreConsistent, ConsistentAnswer
<1>1. store[target[g]] \in Posts
  BY <1>0 DEF Inv, TypeOK, LookUp
<1>2. TypeOK'
  <2>1. held' \in [Gets -> Posts \cup {NoPost}] /\ held'[g] \in Posts
        /\ \A h \in Gets \ {g} : held'[h] = held[h]
    BY <1>1 DEF Inv, TypeOK, LookUp
  <2>2. at' \in [Requests -> {"new", "investigating", "status set", "failed",
                              "complete", "stored", "found", "answered"}]
        /\ \A h \in Gets \ {g} : at'[h] = at[h]
    BY <1>0 DEF Inv, TypeOK, LookUp, GoTo, Requests
  <2>3. \A h \in Gets : at'[h] = "found" => held'[h] \in Posts
    BY <2>1, <2>2 DEF Inv, TypeOK
  <2> QED BY <2>1, <2>2, <2>3 DEF Inv, TypeOK, LookUp
<1>3. ConsistentAnswer(g)'
  BY <1>0 DEF LookUp, ConsistentAnswer, IsSettled
<1>4. \A q \in Requests \ {g} : at'[q] = at[q] /\ answer'[q] = answer[q]
  BY DEF Inv, TypeOK, LookUp, GoTo
<1> QED BY <1>2, <1>3, <1>4, GetFrame DEF LookUp

\* A case nobody has investigated is answered with 404.
LEMMA NothingFoundInv == ASSUME Inv, NEW g \in Gets, NothingFound(g) PROVE Inv'
<1>0. g \in Requests
  BY DEF Requests
<1>1. /\ NotFound \in Answers
      /\ NotFound.body.report = NoReport /\ NotFound.body.error = FALSE
  BY DEF NotFound, Answers, Records, Statuses, FreshRecord, Reports
<1>2. TypeOK'
  BY <1>0, <1>1 DEF Inv, TypeOK, NothingFound, GoTo, Requests
<1>3. ConsistentAnswer(g)'
  <2>1. answer'[g] = NotFound
    BY <1>0 DEF Inv, TypeOK, NothingFound
  <2> QED BY <1>1, <2>1 DEF ConsistentAnswer
<1>4. \A q \in Requests \ {g} : at'[q] = at[q] /\ answer'[q] = answer[q]
  BY DEF Inv, TypeOK, NothingFound, GoTo
<1> QED BY <1>2, <1>3, <1>4, GetFrame DEF NothingFound

\* The object a GET holds may have changed since it was looked up, but whatever
\* it shows of an outcome is settled.
LEMMA SerializeInv == ASSUME Inv, NEW g \in Gets, Serialize(g) PROVE Inv'
<1>0. g \in Requests /\ held[g] \in Posts
  BY DEF Inv, TypeOK, Serialize, Requests
<1>1. answer' \in [Requests -> Answers] /\ answer'[g].body = record[held[g]]
  <2>1. [code |-> 200, body |-> record[held[g]]] \in Answers
    <3>1. record[held[g]] \in Records
      BY <1>0 DEF Inv, TypeOK
    <3> QED BY <3>1 DEF Answers
  <2>2. answer' = [answer EXCEPT ![g] = [code |-> 200, body |-> record[held[g]]]]
    BY DEF Serialize
  <2>3. answer \in [Requests -> Answers]
    BY DEF Inv, TypeOK
  <2> QED BY <1>0, <2>1, <2>2, <2>3
<1>2. TypeOK'
  BY <1>0, <1>1 DEF Inv, TypeOK, Serialize, GoTo, Requests
<1>3. ConsistentAnswer(g)'
  BY <1>0, <1>1, RecordsAreConsistent DEF ConsistentAnswer, IsSettled
<1>4. \A q \in Requests \ {g} : at'[q] = at[q] /\ answer'[q] = answer[q]
  BY DEF Inv, TypeOK, Serialize, GoTo
<1> QED BY <1>2, <1>3, <1>4, GetFrame DEF Serialize


\* One step per action.
LEMMA Invariance == Inv /\ [Next]_vars => Inv'
<1> SUFFICES ASSUME Inv, [Next]_vars PROVE Inv'
  OBVIOUS
<1>1. ASSUME NEW p \in Posts, Post(p) PROVE Inv'
  BY <1>1, AcceptInv, RejectInv, SetStatusInv, SetReportInv, SetFailedInv,
     SetErrorInv, PutInv, RespondInv DEF Post
<1>2. ASSUME NEW g \in Gets, Get(g) PROVE Inv'
  BY <1>2, LookUpInv, NothingFoundInv, SerializeInv DEF Get
<1>3. CASE UNCHANGED vars
  <2>1. TypeOK'
    BY <1>3 DEF vars, Inv, TypeOK
  <2>2. ASSUME NEW p \in Posts PROVE RecordMatchesHandler(p)'
    <3>1. RecordMatchesHandler(p)
      BY DEF Inv
    <3> QED BY <1>3, <3>1 DEF vars, RecordMatchesHandler, NoPayload, OwnOutcome,
                              IsSettled
  <2>3. StoreRefersToAccepted'
    BY <1>3 DEF vars, Inv, StoreRefersToAccepted
  <2>4. AnswersAreConsistent' /\ PostAnswersItsOwnRun'
    BY <1>3 DEF vars, Inv, AnswersAreConsistent, PostAnswersItsOwnRun, IsSettled
  <2> QED BY <2>1, <2>2, <2>3, <2>4 DEF Inv
<1> QED BY <1>1, <1>2, <1>3 DEF Next

(***************************************************************************)
(* The state of the handlers and of the store keeps its types; in          *)
(* particular a GET never holds a missing object (routes.py:68-74).        *)
(***************************************************************************)
THEOREM TypeCorrect == SafetySpec => []TypeOK
<1>1. Inv => TypeOK
  BY DEF Inv
<1> QED BY InitInv, Invariance, <1>1, PTL DEF SafetySpec

(***************************************************************************)
(* However many requests interleave, no response contradicts itself.       *)
(***************************************************************************)
THEOREM ConsistentAnswers == SafetySpec => []AnswersAreConsistent
<1>1. Inv => AnswersAreConsistent
  BY DEF Inv
<1> QED BY InitInv, Invariance, <1>1, PTL DEF SafetySpec

(***************************************************************************)
(* A POST answers with its own investigation, whatever the others write.   *)
(***************************************************************************)
THEOREM PostsAnswerTheirOwnRun == SafetySpec => []PostAnswersItsOwnRun
<1>1. Inv => PostAnswersItsOwnRun
  BY DEF Inv
<1> QED BY InitInv, Invariance, <1>1, PTL DEF SafetySpec

(***************************************************************************)
(* The store is settled for a seeded case no POST is working on.           *)
(***************************************************************************)
THEOREM IdleStoresAreSettled == SafetySpec => []IdleStoreIsSettled
<1>1. Inv => IdleStoreIsSettled
  <2> SUFFICES ASSUME Inv, NEW c \in SeededCases, store[c] # NoPost,
                      \A p \in Posts : target[p] = c => ~InFlight(p)
               PROVE  IsSettled(record[store[c]])
    BY DEF IdleStoreIsSettled
  <2>1. store[c] \in Posts
    BY SeededCasesAssumption DEF Inv, TypeOK
  <2>2. target[store[c]] = c /\ at[store[c]] # "new"
    BY SeededCasesAssumption DEF Inv, StoreRefersToAccepted
  <2>3. at[store[c]] = "answered"
    BY <2>1, <2>2 DEF InFlight
  <2>4. OwnOutcome(store[c])
    BY <2>1, <2>2, <2>3 DEF Inv, RecordMatchesHandler
  <2> QED BY <2>4 DEF OwnOutcome
<1> QED BY InitInv, Invariance, <1>1, PTL DEF SafetySpec

------------------------------------------------------------------------------
\* The lifecycle of the seeded cases.

\* A case somebody has asked to investigate never loses its record.
AcceptedHaveRecord == \A p \in Posts : at[p] # "new" => store[target[p]] # NoPost

LInv == Inv /\ AcceptedHaveRecord

\* What a step of a POST leaves alone.
LEMMA PostTouches ==
  ASSUME Inv, NEW p \in Posts, Post(p)
  PROVE  /\ target' = target
         /\ \A q \in Posts \ {p} : at'[q] = at[q] /\ record'[q] = record[q]
         /\ \A c \in Cases : c # target[p] => store'[c] = store[c]
<1>1. target' = target
  BY DEF Post, Accept, Reject, SetStatus, SetReport, SetFailed, SetError, Put, Respond
<1>2. ASSUME NEW q \in Posts, q # p PROVE at'[q] = at[q] /\ record'[q] = record[q]
  <2>1. q \in Requests /\ p \in Requests
    BY DEF Requests
  <2> QED BY <1>2, <2>1 DEF Inv, TypeOK, Post, Accept, Reject, SetStatus, SetReport,
                            SetFailed, SetError, Put, Respond, GoTo
<1>3. ASSUME NEW c \in Cases, c # target[p] PROVE store'[c] = store[c]
  BY <1>3 DEF Inv, TypeOK, Post, Accept, Reject, SetStatus, SetReport,
              SetFailed, SetError, Put, Respond
<1> QED BY <1>1, <1>2, <1>3

\* A step of a GET moves no POST.
LEMMA GetTouches ==
  ASSUME Inv, NEW g \in Gets, Get(g), NEW q \in Posts
  PROVE  at'[q] = at[q]
<1>1. q \in Requests /\ q # g
  BY RequestsAssumption DEF Requests
<1>2. PICK label : GoTo(g, label)
  BY DEF Get, LookUp, NothingFound, Serialize
<1>3. at \in [Requests -> {"new", "investigating", "status set", "failed",
                           "complete", "stored", "found", "answered"}]
  BY DEF Inv, TypeOK
<1> QED BY <1>1, <1>2, <1>3 DEF GoTo

LEMMA RecordIsKept ==
  ASSUME LInv, [Next]_vars
  PROVE  AcceptedHaveRecord'
<1>0. Inv /\ store \in [Cases -> Posts \cup {NoPost}] /\ target \in [Requests -> Cases]
  BY DEF LInv, Inv, TypeOK
<1>1. ASSUME NEW p \in Posts, Post(p) PROVE AcceptedHaveRecord'
  <2>1. p # NoPost
    BY RequestsAssumption
  <2>2. \A c \in Cases : store'[c] = store[c] \/ store'[c] = p
    BY <1>0, <1>1 DEF Post, Accept, Reject, SetStatus, SetReport, SetFailed, SetError,
                      Put, Respond
  <2>3. at[p] = "new" => store'[target[p]] = p
    <3>1. target[p] \in Cases
      BY <1>0 DEF Requests
    <3> QED BY <1>0, <1>1, <3>1 DEF Post, Accept, Reject, SetStatus, SetReport,
                                    SetFailed, SetError, Put, Respond
  <2> SUFFICES ASSUME NEW q \in Posts, at'[q] # "new" PROVE store'[target'[q]] # NoPost
    BY DEF AcceptedHaveRecord
  <2>4. target' = target /\ target[q] \in Cases
    BY <1>0, <1>1, PostTouches DEF Requests
  <2>5. CASE at[q] # "new"
    BY <2>1, <2>2, <2>4, <2>5 DEF LInv, AcceptedHaveRecord
  <2>6. CASE at[q] = "new"
    <3>1. q = p
      BY <1>0, <1>1, <2>6, PostTouches
    <3> QED BY <2>1, <2>3, <2>4, <2>6, <3>1
  <2> QED BY <2>5, <2>6
<1>2. ASSUME NEW g \in Gets, Get(g) PROVE AcceptedHaveRecord'
  <2>1. store' = store /\ target' = target
    BY <1>2 DEF Get, LookUp, NothingFound, Serialize
  <2> QED BY <1>0, <1>2, <2>1, GetTouches DEF LInv, AcceptedHaveRecord
<1>3. CASE UNCHANGED vars
  BY <1>3 DEF LInv, AcceptedHaveRecord, vars
<1> QED BY <1>1, <1>2, <1>3 DEF Next

LEMMA LifecycleInvariance == SafetySpec => []LInv
<1>1. Init => LInv
  BY InitInv DEF Init, LInv, AcceptedHaveRecord, Requests
<1>2. LInv /\ [Next]_vars => LInv'
  BY Invariance, RecordIsKept DEF LInv
<1> QED BY <1>1, <1>2, PTL DEF SafetySpec

\* What clients see of a case and what is under way for it do not change by a
\* step that is about another case.
OpenPosts(c) == {p \in Posts : target[p] = c /\ InFlight(p)}

LEMMA OtherCasesStay ==
  ASSUME LInv, NEW p \in Posts, Post(p), NEW c \in SeededCases, c # target[p]
  PROVE  Seen(c)' = Seen(c) /\ Open(c)' = Open(c)
<1>1. /\ c \in Cases /\ target' = target /\ store'[c] = store[c]
      /\ \A q \in Posts \ {p} : at'[q] = at[q] /\ record'[q] = record[q]
  BY PostTouches, SeededCasesAssumption DEF LInv
<1>2. Seen(c)' = Seen(c)
  <2>1. CASE store[c] = NoPost
    BY <1>1, <2>1 DEF Seen
  <2>2. CASE store[c] # NoPost
    <3>1. store[c] \in Posts \ {p}
      BY <1>1, <2>2 DEF LInv, Inv, TypeOK, StoreRefersToAccepted
    <3> QED BY <1>1, <2>2, <3>1 DEF Seen
  <2> QED BY <2>1, <2>2
<1>3. OpenPosts(c)' = OpenPosts(c)
  BY <1>1 DEF OpenPosts, InFlight
<1> QED BY <1>2, <1>3 DEF Open, OpenPosts

\* How a POST that is accepted or answered is counted.
LEMMA OpenIsCounted ==
  ASSUME LInv, NEW p \in Posts, Post(p), NEW c, c = target[p]
  PROVE  /\ Open(c) \in Nat
         /\ InFlight(p) => Open(c) > 0
         /\ InFlight(p) /\ Open(c) = 1 => OpenPosts(c) = {p}
         /\ ~InFlight(p) /\ InFlight(p)' => Open(c)' = Open(c) + 1
         /\ InFlight(p) /\ ~InFlight(p)' => Open(c)' = Open(c) - 1
         /\ (InFlight(p) <=> InFlight(p)') => Open(c)' = Open(c)
<1>1. IsFiniteSet(OpenPosts(c)) /\ Open(c) = Cardinality(OpenPosts(c))
      /\ Open(c)' = Cardinality(OpenPosts(c)')
  BY FS_Subset, FinitenessAssumption DEF OpenPosts, Open
<1>2. Open(c) \in Nat
  BY <1>1, FS_CardinalityType
<1>3. target' = target /\ \A q \in Posts \ {p} : InFlight(q)' = InFlight(q)
  BY PostTouches DEF LInv, InFlight
<1>4. InFlight(p) => p \in OpenPosts(c)
  BY DEF OpenPosts
<1>5. InFlight(p) => Open(c) > 0
  BY <1>1, <1>2, <1>4, FS_EmptySet
<1>6. ASSUME InFlight(p), Open(c) = 1 PROVE OpenPosts(c) = {p}
  <2>1. PICK x : OpenPosts(c) = {x}
    BY <1>1, <1>6, FS_Singleton
  <2> QED BY <1>4, <1>6, <2>1
<1>7. ASSUME ~InFlight(p), InFlight(p)' PROVE Open(c)' = Open(c) + 1
  <2>1. OpenPosts(c)' = OpenPosts(c) \cup {p} /\ p \notin OpenPosts(c)
    BY <1>3, <1>7 DEF OpenPosts
  <2> QED BY <1>1, <2>1, FS_AddElement
<1>8. ASSUME InFlight(p), ~InFlight(p)' PROVE Open(c)' = Open(c) - 1
  <2>1. OpenPosts(c)' = OpenPosts(c) \ {p}
    BY <1>3, <1>8 DEF OpenPosts
  <2> QED BY <1>1, <1>4, <1>8, <2>1, FS_RemoveElement
<1>9. ASSUME InFlight(p) <=> InFlight(p)' PROVE Open(c)' = Open(c)
  <2>1. OpenPosts(c)' = OpenPosts(c)
    BY <1>3, <1>9 DEF OpenPosts
  <2> QED BY <1>1, <2>1
<1> QED BY <1>2, <1>5, <1>6, <1>7, <1>8, <1>9

\* What a client sees of the case whose entry is the record of q.
LEMMA SeenOfRecord ==
  ASSUME NEW q \in Posts, NEW c \in Cases, store[c] = q, q # NoPost
  PROVE  /\ NoPayload(q) => Seen(c) = "in_progress"
         /\ OwnOutcome(q) => Seen(c) = record[q].status /\ Seen(c) \in Outcomes
<1>1. NoPayload(q) => Seen(c) = "in_progress"
  BY DEF Seen, NoPayload
<1>2. ASSUME OwnOutcome(q) PROVE Seen(c) = record[q].status /\ Seen(c) \in Outcomes
  <2>1. IsSettled(record[q])
    BY <1>2 DEF OwnOutcome
  <2>2. record[q].report # NoReport \/ record[q].error
    BY <2>1 DEF IsSettled
  <2>3. record[q].status \in Outcomes
    BY <2>1 DEF IsSettled, Outcomes
  <2> QED BY <2>2, <2>3 DEF Seen
<1> QED BY <1>1, <1>2

\* A step of a POST about a seeded case is a step of the lifecycle of that case,
\* or not visible.
LEMMA OwnCaseMoves ==
  ASSUME LInv, LInv', NEW p \in Posts, Post(p), NEW c \in SeededCases, c = target[p]
  PROVE  \/ Seen(c)' = "in_progress" /\ Open(c)' = Open(c) + 1
         \/ Open(c) > 0 /\ Seen(c)' \in Outcomes /\ Open(c)' = Open(c)
         \/ /\ Open(c) > 0 /\ (Open(c) = 1 => Seen(c) \in Outcomes)
            /\ Seen(c)' = Seen(c) /\ Open(c)' = Open(c) - 1
         \/ Seen(c)' = Seen(c) /\ Open(c)' = Open(c)
<1>0. /\ TypeOK /\ TypeOK' /\ c \in Cases /\ p # NoPost /\ p \in Requests
      /\ RecordMatchesHandler(p) /\ RecordMatchesHandler(p)'
      /\ at \in [Requests -> {"new", "investigating", "status set", "failed",
                              "complete", "stored", "found", "answered"}]
  BY SeededCasesAssumption, RequestsAssumption DEF LInv, Inv, TypeOK, Requests
<1>1. target' = target /\ \A q \in Posts \ {p} : record'[q] = record[q]
  BY PostTouches DEF LInv
<1>2. store[c] # NoPost => store[c] \in Posts /\ target[store[c]] = c /\ at[store[c]] # "new"
  BY <1>0 DEF LInv, Inv, TypeOK, StoreRefersToAccepted
<1>3. CASE Accept(p)
  <2>1. at'[p] = "investigating" /\ at[p] = "new" /\ store'[c] = p
    BY <1>0, <1>3 DEF Accept, GoTo, TypeOK
  <2>2. Open(c)' = Open(c) + 1
    BY <1>0, <2>1, OpenIsCounted DEF InFlight
  <2>3. record'[p].report = NoReport /\ ~record'[p].error
    BY <1>0, <2>1 DEF RecordMatchesHandler, NoPayload
  <2>4. Seen(c)' = "in_progress"
    BY <1>0, <1>1, <2>1, <2>3 DEF Seen
  <2> QED BY <2>2, <2>4
<1>4. CASE Reject(p)
  BY <1>4 DEF Reject
<1>5. CASE SetStatus(p) \/ SetFailed(p)
  <2>1. at[p] = "investigating" /\ at'[p] \in {"status set", "failed"} /\ store' = store
    BY <1>0, <1>5 DEF SetStatus, SetFailed, GoTo
  <2>2. Open(c)' = Open(c)
    BY <1>0, <2>1, OpenIsCounted DEF InFlight
  <2>3. /\ record[p].report = NoReport /\ ~record[p].error
        /\ record'[p].report = NoReport /\ ~record'[p].error
    BY <1>0, <2>1 DEF RecordMatchesHandler, NoPayload
  <2>4. Seen(c)' = Seen(c)
    BY <1>1, <1>2, <2>1, <2>3 DEF Seen
  <2> QED BY <2>2, <2>4
<1>6. CASE SetReport(p) \/ SetError(p)
  <2>1. at[p] \in {"status set", "failed"} /\ at'[p] = "complete" /\ store' = store
    BY <1>0, <1>6 DEF SetReport, SetError, GoTo
  <2>2. Open(c)' = Open(c) /\ Open(c) > 0
    BY <1>0, <2>1, OpenIsCounted DEF InFlight
  <2>3. CASE store[c] = p
    <3>1. IsSettled(record'[p])
      BY <1>0, <2>1 DEF RecordMatchesHandler, OwnOutcome, IsSettled
    <3>2. Seen(c)' = record'[p].status
      BY <1>0, <1>1, <2>1, <2>3, <3>1 DEF Seen, IsSettled
    <3>3. record'[p].status \in Outcomes
      BY <3>1 DEF IsSettled, Outcomes
    <3> QED BY <2>2, <3>2, <3>3
  <2>4. CASE store[c] # p
    <3>1. Seen(c)' = Seen(c)
      BY <1>1, <1>2, <2>1, <2>4 DEF Seen
    <3> QED BY <2>2, <3>1
  <2> QED BY <2>3, <2>4
<1>7. CASE Put(p)
  <2>1. at[p] = "complete" /\ at'[p] = "stored" /\ store'[c] = p
    BY <1>0, <1>7 DEF Put, GoTo, TypeOK
  <2>2. Open(c)' = Open(c) /\ Open(c) > 0
    BY <1>0, <2>1, OpenIsCounted DEF InFlight
  <2>3. IsSettled(record'[p])
    BY <1>0, <2>1 DEF RecordMatchesHandler, OwnOutcome, IsSettled
  <2>4. Seen(c)' = record'[p].status
    BY <1>0, <1>1, <2>1, <2>3 DEF Seen, IsSettled
  <2>5. record'[p].status \in Outcomes
    BY <2>3 DEF IsSettled, Outcomes
  <2> QED BY <2>2, <2>4, <2>5
<1>8. CASE Respond(p)
  <2>1. at[p] = "stored" /\ at'[p] = "answered" /\ store' = store /\ record' = record
    BY <1>0, <1>8 DEF Respond, GoTo
  <2>2. Open(c)' = Open(c) - 1 /\ Open(c) > 0
    BY <1>0, <2>1, OpenIsCounted DEF InFlight
  <2>3. Seen(c)' = Seen(c)
    BY <1>1, <2>1 DEF Seen
  <2>4. ASSUME Open(c) = 1 PROVE Seen(c) \in Outcomes
    <3>1. OpenPosts(c) = {p}
      BY <1>0, <2>1, <2>4, OpenIsCounted DEF InFlight
    <3>2. /\ store[c] \in Posts /\ target[store[c]] = c /\ at[store[c]] # "new"
      BY <1>2, <2>1 DEF LInv, AcceptedHaveRecord
    <3>3. store[c] = p \/ at[store[c]] = "answered"
      BY <3>1, <3>2 DEF OpenPosts, InFlight
    <3>4. OwnOutcome(store[c])
      BY <2>1, <3>2, <3>3 DEF LInv, Inv, RecordMatchesHandler
    <3>5. store[c] # NoPost
      BY <3>2, RequestsAssumption
    <3> QED BY <1>0, <3>2, <3>4, <3>5, SeenOfRecord
  <2> QED BY <2>2, <2>3, <2>4
<1> QED BY <1>3, <1>4, <1>5, <1>6, <1>7, <1>8 DEF Post

LEMMA LifecycleStep ==
  ASSUME LInv, LInv', [Next]_vars
  PROVE  [Lifecycle!Next]_(Lifecycle!vars)
<1> DEFINE seenF == [c \in SeededCases |-> Seen(c)]
           openF == [c \in SeededCases |-> Open(c)]
<1>1. ASSUME \A c \in SeededCases : Seen(c)' = Seen(c) /\ Open(c)' = Open(c)
      PROVE  UNCHANGED Lifecycle!vars
  <2>1. seenF' = seenF /\ openF' = openF
    BY <1>1
  <2> QED BY <2>1 DEF Lifecycle!vars
<1>2. ASSUME NEW p \in Posts, Post(p) PROVE [Lifecycle!Next]_(Lifecycle!vars)
  <2>1. ASSUME NEW c \in SeededCases, c # target[p]
        PROVE  Seen(c)' = Seen(c) /\ Open(c)' = Open(c)
    BY <1>2, <2>1, OtherCasesStay
  <2>2. CASE target[p] \notin SeededCases
    BY <1>1, <2>1, <2>2
  <2>3. ASSUME NEW d \in SeededCases, d = target[p]
        PROVE  [Lifecycle!Next]_(Lifecycle!vars)
    <3>0. ASSUME NEW c \in SeededCases, c # d
          PROVE  Seen(c)' = Seen(c) /\ Open(c)' = Open(c)
      BY <2>1, <2>3, <3>0
    <3>1. CASE Seen(d)' = "in_progress" /\ Open(d)' = Open(d) + 1
      <4>1. /\ seenF' = [seenF EXCEPT ![d] = "in_progress"]
            /\ openF' = [openF EXCEPT ![d] = @ + 1]
        BY <3>0, <3>1
      <4>2. Lifecycle!Trigger(d)
        BY <4>1 DEF Lifecycle!Trigger
      <4> QED BY <2>3, <4>2 DEF Lifecycle!Next
    <3>2. CASE Open(d) > 0 /\ Seen(d)' \in Outcomes /\ Open(d)' = Open(d)
      <4>1. /\ seenF' = [seenF EXCEPT ![d] = Seen(d)']
            /\ openF' = openF /\ openF[d] > 0
        BY <3>0, <3>2
      <4>2. Lifecycle!Settle(d)
        BY <3>2, <4>1 DEF Lifecycle!Settle, Lifecycle!Outcomes, Outcomes
      <4> QED BY <2>3, <4>2 DEF Lifecycle!Next
    <3>3. CASE /\ Open(d) > 0 /\ (Open(d) = 1 => Seen(d) \in Outcomes)
               /\ Seen(d)' = Seen(d) /\ Open(d)' = Open(d) - 1
      <4>1. /\ seenF' = seenF /\ openF' = [openF EXCEPT ![d] = @ - 1]
            /\ openF[d] > 0 /\ (openF[d] = 1 => seenF[d] \in Outcomes)
        BY <3>0, <3>3
      <4>2. Lifecycle!Answer(d)
        BY <4>1 DEF Lifecycle!Answer, Lifecycle!Outcomes, Outcomes
      <4> QED BY <2>3, <4>2 DEF Lifecycle!Next
    <3>4. CASE Seen(d)' = Seen(d) /\ Open(d)' = Open(d)
      BY <1>1, <3>0, <3>4
    <3> QED BY <1>2, <2>3, <3>1, <3>2, <3>3, <3>4, OwnCaseMoves
  <2> QED BY <2>2, <2>3
<1>3. CASE UNCHANGED <<target, record, report, store>> /\ \A q \in Posts : at'[q] = at[q]
  <2>1. \A c \in SeededCases : Seen(c)' = Seen(c)
    BY <1>3 DEF Seen
  <2>2. ASSUME NEW c \in SeededCases PROVE Open(c)' = Open(c)
    <3>1. OpenPosts(c)' = OpenPosts(c)
      BY <1>3 DEF OpenPosts, InFlight
    <3> QED BY <3>1 DEF Open, OpenPosts
  <2> QED BY <1>1, <2>1, <2>2
<1>4. ASSUME NEW g \in Gets, Get(g)
      PROVE  /\ UNCHANGED <<target, record, report, store>>
             /\ \A q \in Posts : at'[q] = at[q]
  <2>1. UNCHANGED <<target, record, report, store>>
    BY <1>4 DEF Get, LookUp, NothingFound, Serialize
  <2> QED BY <1>4, <2>1, GetTouches DEF LInv
<1>5. CASE UNCHANGED vars
  BY <1>3, <1>5 DEF vars
<1> QED BY <1>2, <1>3, <1>4, <1>5 DEF Next

(***************************************************************************)
(* For any number of requests and cases, the handlers and the store        *)
(* implement CaseLifecycle: what clients see of a seeded case only moves   *)
(* from a trigger to a settled outcome (routes.py:33-74, case_store.py).   *)
(***************************************************************************)
THEOREM LifecycleIsImplemented == SafetySpec => ImplementsLifecycle
<1>1. Init => Lifecycle!Init
  <2> SUFFICES ASSUME Init PROVE Lifecycle!Init
    OBVIOUS
  <2>1. ASSUME NEW c \in SeededCases PROVE Seen(c) = "absent" /\ Open(c) = 0
    <3>1. Seen(c) = "absent"
      BY SeededCasesAssumption DEF Init, Seen
    <3>2. OpenPosts(c) = {}
      BY DEF Init, OpenPosts, InFlight, Requests
    <3> QED BY <3>1, <3>2, FS_EmptySet DEF Open, OpenPosts
  <2> QED BY <2>1 DEF Lifecycle!Init
<1>2. LInv /\ LInv' /\ [Next]_vars => [Lifecycle!Next]_(Lifecycle!vars)
  BY LifecycleStep
<1> QED BY LifecycleInvariance, <1>1, <1>2, PTL
           DEF SafetySpec, ImplementsLifecycle, Lifecycle!Spec
===============================================================================

------------------------------ MODULE Deployment ------------------------------
(***************************************************************************)
(* The service as it is deployed (api/main.py, deploy/k8s): replicas of a  *)
(* process whose handlers, the two health probes included, are synchronous *)
(* functions and share one pool of worker threads; a case store in each    *)
(* process; a service that sends requests to any replica that is ready;    *)
(* and a kubelet that probes and restarts them.  The pool, the service and *)
(* the kubelet are external.                                               *)
(***************************************************************************)
EXTENDS Integers, SequencesExt

CONSTANTS
  Replicas,
  Posts,             \* investigations clients may ask for
  Gets,              \* reports clients may ask for
  Cases,             \* the seeded case ids
  Workers,           \* the size of a pool
  FailureThreshold   \* failures in a row of a probe that have consequences

ASSUME PoolAssumption     == Workers \in Nat \ {0}
ASSUME ProbeAssumption    == FailureThreshold \in Nat \ {0}
ASSUME RequestsAssumption == Posts \cap Gets = {}

VARIABLES
  target,     \* the case of each request
  state,      \* of each request: new, queued, running, answered, not found, lost
  process,    \* the process each request was sent to: replica and epoch
  epoch,      \* how often each replica has been restarted
  queue,      \* what waits for a worker in each process
  store,      \* the status of each case in each process
  ready,      \* whether the service uses a replica
  missed      \* the failures in a row of each probe

vars == <<target, state, process, epoch, queue, store, ready, missed>>

Requests == Posts \cup Gets
Probes   == {"healthz", "readyz"}

NoProcess == [replica |-> "none", epoch |-> 0]

Running(r) == {p \in Posts : state[p] = "running" /\ process[p].replica = r}
PoolIsFull(r) == Cardinality(Running(r)) = Workers

\* The kubelet has decided to replace the process; it may finish work until then.
IsTerminating(r) == missed[r]["healthz"] = FailureThreshold

Init ==
  /\ target \in [Requests -> Cases]
  /\ state = [q \in Requests |-> "new"]
  /\ process = [q \in Requests |-> NoProcess]
  /\ epoch = [r \in Replicas |-> 0]
  /\ queue = [r \in Replicas |-> << >>]
  /\ store = [r \in Replicas |-> [c \in Cases |-> "unknown"]]
  /\ ready = [r \in Replicas |-> FALSE]
  /\ missed = [r \in Replicas |-> [k \in Probes |-> 0]]

------------------------------------------------------------------------------
\* Requests and the pool.

Send(q, r) ==
  /\ state[q] = "new" /\ ready[r] /\ ~IsTerminating(r)
  /\ state' = [state EXCEPT ![q] = "queued"]
  /\ process' = [process EXCEPT ![q] = [replica |-> r, epoch |-> epoch[r]]]
  /\ queue' = [queue EXCEPT ![r] = Append(@, q)]
  /\ UNCHANGED <<target, epoch, store, ready, missed>>

\* What waits longest gets the worker that is free.
Dequeue(r) ==
  /\ queue[r] # << >> /\ ~PoolIsFull(r)
  /\ queue' = [queue EXCEPT ![r] = Tail(@)]
  /\ UNCHANGED <<target, process, epoch>>

\* Mutant: the record is stored when there is a report.
InvestigateUnstored(r) ==
  /\ Dequeue(r) /\ Head(queue[r]) \in Posts
  /\ state' = [state EXCEPT ![Head(queue[r])] = "running"]
  /\ UNCHANGED <<store, ready, missed>>

\* An investigation keeps its worker; its record is stored first.
Investigate(r) ==
  /\ Dequeue(r) /\ Head(queue[r]) \in Posts
  /\ state' = [state EXCEPT ![Head(queue[r])] = "running"]
  /\ store' = [store EXCEPT ![r][target[Head(queue[r])]] = "in_progress"]
  /\ UNCHANGED <<ready, missed>>

Finish(p) ==
  /\ state[p] = "running"
  /\ state' = [state EXCEPT ![p] = "answered"]
  /\ store' = [store EXCEPT ![process[p].replica][target[p]] = "settled"]
  /\ UNCHANGED <<target, process, epoch, queue, ready, missed>>

\* Mutant: no test for a missing record, which is no valid response.
ReportUnchecked(r) ==
  /\ Dequeue(r) /\ Head(queue[r]) \in Gets
  /\ LET g == Head(queue[r])
     IN  state' = [state EXCEPT ![g] =
                     IF store[r][target[g]] = "unknown" THEN "failed" ELSE "answered"]
  /\ UNCHANGED <<store, ready, missed>>

\* Mutant: the handler waits until there is a report.
ReportWhenSettled(r) ==
  /\ Dequeue(r) /\ Head(queue[r]) \in Gets
  /\ store[r][target[Head(queue[r])]] = "settled"
  /\ state' = [state EXCEPT ![Head(queue[r])] = "answered"]
  /\ UNCHANGED <<store, ready, missed>>

Report(r) ==
  /\ Dequeue(r) /\ Head(queue[r]) \in Gets
  /\ LET g == Head(queue[r])
     IN  state' = [state EXCEPT ![g] =
                     IF store[r][target[g]] = "unknown" THEN "not found" ELSE "answered"]
  /\ UNCHANGED <<store, ready, missed>>

------------------------------------------------------------------------------
\* The probes.

\* The handlers answer at once, settings and seed data being there, when a
\* worker has come to what waits before the probe.
ProbeSucceeds(r, k) ==
  /\ queue[r] = << >> /\ ~PoolIsFull(r) /\ ~IsTerminating(r)
  /\ missed' = [missed EXCEPT ![r][k] = 0]
  /\ ready' = [ready EXCEPT ![r] = @ \/ k = "readyz"]
  /\ UNCHANGED <<target, state, process, epoch, queue, store>>

\* A probe times out only while it waits for a worker.
ProbeFails(r, k) ==
  /\ PoolIsFull(r) /\ ~IsTerminating(r)
  /\ missed[r][k] < FailureThreshold
  /\ missed' = [missed EXCEPT ![r][k] = @ + 1]
  /\ ready' = [ready EXCEPT ![r] = @ /\ missed'[r]["readyz"] < FailureThreshold]
  /\ UNCHANGED <<target, state, process, epoch, queue, store>>

Unanswered(r) == Running(r) \cup ToSet(queue[r])

\* Mutant: the store outlives the process as it is.
RestartWithStore(r) ==
  /\ IsTerminating(r)
  /\ state' = [q \in Requests |-> IF q \in Unanswered(r) THEN "lost" ELSE state[q]]
  /\ epoch' = [epoch EXCEPT ![r] = @ + 1]
  /\ queue' = [queue EXCEPT ![r] = << >>]
  /\ ready' = [ready EXCEPT ![r] = FALSE]
  /\ missed' = [missed EXCEPT ![r] = [k \in Probes |-> 0]]
  /\ UNCHANGED <<target, process, store>>

\* The kubelet replaces the process: what it was doing and its store are gone.
Restart(r) ==
  /\ IsTerminating(r)
  /\ state' = [q \in Requests |-> IF q \in Unanswered(r) THEN "lost" ELSE state[q]]
  /\ epoch' = [epoch EXCEPT ![r] = @ + 1]
  /\ queue' = [queue EXCEPT ![r] = << >>]
  /\ store' = [store EXCEPT ![r] = [c \in Cases |-> "unknown"]]
  /\ ready' = [ready EXCEPT ![r] = FALSE]
  /\ missed' = [missed EXCEPT ![r] = [k \in Probes |-> 0]]
  /\ UNCHANGED <<target, process>>

------------------------------------------------------------------------------

Serve(r) == Investigate(r) \/ Report(r)

Next ==
  \/ \E q \in Requests, r \in Replicas : Send(q, r)
  \/ \E p \in Posts : Finish(p)
  \/ \E r \in Replicas : Serve(r) \/ Restart(r)
  \/ \E r \in Replicas, k \in Probes : ProbeSucceeds(r, k) \/ ProbeFails(r, k)

\* A worker that is free serves the queue; an investigation ends (HostedRun).
Spec ==
  /\ Init /\ [][Next]_vars
  /\ \A r \in Replicas : WF_vars(Serve(r)) /\ WF_vars(Restart(r))
  /\ \A p \in Posts : WF_vars(Finish(p))

------------------------------------------------------------------------------
\* Properties.

TypeOK ==
  /\ target \in [Requests -> Cases]
  /\ state \in [Requests -> {"new", "queued", "running", "answered", "not found", "lost"}]
  /\ process \in [Requests -> [replica : Replicas, epoch : Nat] \cup {NoProcess}]
  /\ epoch \in [Replicas -> Nat]
  /\ queue \in [Replicas -> Seq(Requests)]
  /\ store \in [Replicas -> [Cases -> {"unknown", "in_progress", "settled"}]]
  /\ ready \in [Replicas -> BOOLEAN]
  /\ missed \in [Replicas -> [Probes -> 0 .. FailureThreshold]]

(***************************************************************************)
(* A case that a replica reports as in progress is being investigated by   *)
(* one of its workers: neither a restart nor a second run of the case      *)
(* leaves the report in progress for ever.                                 *)
(***************************************************************************)
InProgressHasAWorker ==
  \A r \in Replicas, c \in Cases :
    store[r][c] = "in_progress" => \E p \in Running(r) : target[p] = c

(***************************************************************************)
(* A GET finds a case exactly if the very process that answers has begun   *)
(* an investigation of it, whichever request is served first and however   *)
(* often a replica is replaced (routes.py:40, 68-73): a case triggered on  *)
(* another replica, or on this one before a restart, is not found.         *)
(***************************************************************************)
CasesAreFoundWhereTriggered ==
  [][ \A g \in Gets :
        state[g] = "queued" /\ state'[g] \in {"answered", "not found"} =>
          (state'[g] = "answered" <=>
             \E p \in Posts : /\ state[p] \in {"running", "answered"}
                              /\ process[p] = process[g] /\ target[p] = target[g]) ]_vars

(***************************************************************************)
(* Every request a replica has taken is answered, or its connection is     *)
(* closed by a restart; none waits for ever behind investigations.         *)
(***************************************************************************)
RequestsEnd ==
  \A q \in Requests : state[q] = "queued" ~> state[q] \in {"answered", "not found", "lost"}

------------------------------------------------------------------------------
\* What the documentation says and the code does not do.

(***************************************************************************)
(* main.py:57-58: the liveness probe only fails, and a process is only     *)
(* killed, if it is wedged; one whose workers investigate is not.          *)
(***************************************************************************)
OnlyWedgedProcessesAreKilled ==
  [][ \A r \in Replicas : epoch'[r] # epoch[r] => Running(r) = {} ]_vars
==============================================================================

--------------------------- MODULE DeploymentProofs ---------------------------
(***************************************************************************)
(* The deployment proved for any number of replicas, requests and workers: *)
(* whatever restarts come between, a process reports a case in progress    *)
(* only while one of its workers investigates it, and finds exactly the    *)
(* cases whose investigation it has begun itself.                          *)
(***************************************************************************)
EXTENDS Deployment, TLAPS

\* A queue in which nothing waits twice.
NoRepeats(s) == \A i, j \in DOMAIN s : s[i] = s[j] => i = j

Here(q, r) == process[q] = [replica |-> r, epoch |-> epoch[r]]

(***************************************************************************)
(* The inductive invariant: where a request is, by its state; what a queue *)
(* may hold; and that the store of a process knows of a case exactly if    *)
(* this very process, since the last restart, has begun to investigate it. *)
(***************************************************************************)
QueuesAreOfThisProcess ==
  \A r \in Replicas :
    /\ NoRepeats(queue[r])
    /\ \A q \in ToSet(queue[r]) : state[q] = "queued" /\ Here(q, r)

Placed(q) ==
  /\ state[q] # "new" =>
       /\ process[q] \in [replica : Replicas, epoch : Nat]
       /\ process[q].epoch <= epoch[process[q].replica]
  /\ state[q] = "running" => q \in Posts /\ Here(q, process[q].replica)
  /\ state[q] = "queued" => q \in ToSet(queue[process[q].replica])

StoreKnows(p) ==
  state[p] \in {"running", "answered"} /\ Here(p, process[p].replica)
    => store[process[p].replica][target[p]] # "unknown"

Begun(r, c) ==
  \E p \in Posts : state[p] \in {"running", "answered"} /\ Here(p, r) /\ target[p] = c

StoreIsFounded ==
  \A r \in Replicas, c \in Cases : store[r][c] # "unknown" => Begun(r, c)

Inv ==
  /\ TypeOK
  /\ QueuesAreOfThisProcess
  /\ \A q \in Requests : Placed(q)
  /\ \A p \in Posts : StoreKnows(p)
  /\ StoreIsFounded
  /\ InProgressHasAWorker

------------------------------------------------------------------------------
\* Queues.

LEMMA TailFacts ==
  ASSUME NEW S, NEW s \in Seq(S), s # << >>, NoRepeats(s)
  PROVE  /\ Tail(s) \in Seq(S) /\ NoRepeats(Tail(s))
         /\ Head(s) \in ToSet(s) /\ Head(s) \in S
         /\ ToSet(Tail(s)) = ToSet(s) \ {Head(s)}
<1>1. /\ Len(s) \in Nat \ {0} /\ DOMAIN s = 1 .. Len(s) /\ Head(s) = s[1]
      /\ Tail(s) \in Seq(S) /\ DOMAIN Tail(s) = 1 .. Len(s) - 1
      /\ \A i \in 1 .. Len(s) - 1 : Tail(s)[i] = s[i + 1]
  OBVIOUS
<1>2. Head(s) \in ToSet(s) /\ Head(s) \in S
  BY <1>1 DEF ToSet
<1>3. NoRepeats(Tail(s))
  BY <1>1 DEF NoRepeats
<1>4. ASSUME NEW x \in ToSet(Tail(s)) PROVE x \in ToSet(s) \ {Head(s)}
  <2>1. PICK i \in 1 .. Len(s) - 1 : x = s[i + 1]
    BY <1>1 DEF ToSet
  <2>2. i + 1 \in DOMAIN s /\ 1 \in DOMAIN s /\ i + 1 # 1
    BY <1>1
  <2> QED BY <1>1, <2>1, <2>2 DEF ToSet, NoRepeats
<1>5. ASSUME NEW x \in ToSet(s), x # Head(s) PROVE x \in ToSet(Tail(s))
  <2>1. PICK i \in 1 .. Len(s) : x = s[i]
    BY <1>1 DEF ToSet
  <2>2. i - 1 \in 1 .. Len(s) - 1
    BY <1>1, <1>5, <2>1
  <2>3. Tail(s)[i - 1] = x
    BY <1>1, <2>1, <2>2
  <2> QED BY <1>1, <2>2, <2>3 DEF ToSet
<1> QED BY <1>1, <1>2, <1>3, <1>4, <1>5

LEMMA AppendFacts ==
  ASSUME NEW S, NEW s \in Seq(S), NoRepeats(s), NEW x \in S, x \notin ToSet(s)
  PROVE  /\ Append(s, x) \in Seq(S) /\ NoRepeats(Append(s, x))
         /\ ToSet(Append(s, x)) = ToSet(s) \cup {x}
<1>1. /\ Len(s) \in Nat /\ DOMAIN s = 1 .. Len(s) /\ Append(s, x) \in Seq(S)
      /\ DOMAIN Append(s, x) = 1 .. Len(s) + 1
      /\ \A i \in 1 .. Len(s) : Append(s, x)[i] = s[i]
      /\ Append(s, x)[Len(s) + 1] = x
  OBVIOUS
<1>2. \A i \in 1 .. Len(s) : s[i] \in ToSet(s) /\ s[i] # x
  BY <1>1 DEF ToSet
<1>3. \A i \in 1 .. Len(s) + 1 : i = Len(s) + 1 \/ i \in 1 .. Len(s)
  BY <1>1
<1>4. NoRepeats(Append(s, x))
  BY <1>1, <1>2, <1>3 DEF NoRepeats
<1>5. ToSet(Append(s, x)) = ToSet(s) \cup {x}
  BY <1>1, <1>3 DEF ToSet
<1> QED BY <1>1, <1>4, <1>5

LEMMA EmptyQueue == NoRepeats(<< >>) /\ ToSet(<< >>) = {}
BY DEF NoRepeats, ToSet

------------------------------------------------------------------------------
\* The initial states: nothing was sent, nothing is stored.
LEMMA InitInv == Init => Inv
<1> SUFFICES ASSUME Init PROVE Inv
  OBVIOUS
<1>1. TypeOK
  <2>1. 0 \in 0 .. FailureThreshold
    BY ProbeAssumption
  <2>2. queue \in [Replicas -> Seq(Requests)]
    BY DEF Init
  <2> QED BY <2>1, <2>2 DEF Init, TypeOK
<1>2. QueuesAreOfThisProcess
  BY EmptyQueue DEF Init, QueuesAreOfThisProcess
<1>3. \A q \in Requests : Placed(q)
  BY DEF Init, Placed
<1>4. \A p \in Posts : StoreKnows(p)
  BY DEF Init, StoreKnows, Requests
<1>5. StoreIsFounded
  BY DEF Init, StoreIsFounded
<1>6. InProgressHasAWorker
  BY DEF Init, InProgressHasAWorker
<1> QED BY <1>1, <1>2, <1>3, <1>4, <1>5, <1>6 DEF Inv

\* An investigation stays begun as long as its process stays.
LEMMA BegunStays ==
  ASSUME NEW r, NEW c, Begun(r, c), epoch'[r] = epoch[r], target' = target,
         \A p \in Posts :
           state[p] \in {"running", "answered"} =>
             state'[p] \in {"running", "answered"} /\ process'[p] = process[p]
  PROVE  Begun(r, c)'
BY DEF Begun, Here

LEMMA SendPreservesInv ==
  ASSUME Inv, NEW q \in Requests, NEW r \in Replicas, Send(q, r)
  PROVE  Inv'
<1>0. TypeOK /\ QueuesAreOfThisProcess
      /\ (\A x \in Requests : Placed(x)) /\ (\A p \in Posts : StoreKnows(p))
      /\ InProgressHasAWorker /\ StoreIsFounded
  BY DEF Inv
<1>a. /\ state[q] = "new" /\ state' = [state EXCEPT ![q] = "queued"]
      /\ process' = [process EXCEPT ![q] = [replica |-> r, epoch |-> epoch[r]]]
      /\ queue' = [queue EXCEPT ![r] = Append(queue[r], q)]
      /\ UNCHANGED <<target, epoch, store, ready, missed>>
  BY DEF Send
<1>b. /\ DOMAIN state = Requests /\ DOMAIN process = Requests /\ DOMAIN queue = Replicas
      /\ queue[r] \in Seq(Requests) /\ epoch[r] \in Nat
  BY <1>0 DEF TypeOK
<1>c. q \notin ToSet(queue[r]) /\ NoRepeats(queue[r])
  BY <1>0, <1>a DEF QueuesAreOfThisProcess
<1>d. /\ queue'[r] \in Seq(Requests) /\ NoRepeats(queue'[r])
      /\ ToSet(queue'[r]) = ToSet(queue[r]) \cup {q}
  BY <1>a, <1>b, <1>c, AppendFacts
<1>e. \A s \in Replicas \ {r} : queue'[s] = queue[s]
  BY <1>a, <1>b
<1>1. TypeOK'
  <2>1. queue' \in [Replicas -> Seq(Requests)]
    BY <1>0, <1>a, <1>d DEF TypeOK
  <2> QED BY <1>0, <1>a, <1>b, <2>1 DEF TypeOK
<1>2. QueuesAreOfThisProcess'
  <2> SUFFICES ASSUME NEW s \in Replicas
               PROVE  /\ NoRepeats(queue'[s])
                      /\ \A x \in ToSet(queue'[s]) : state'[x] = "queued" /\ Here(x, s)'
    BY DEF QueuesAreOfThisProcess
  <2>1. NoRepeats(queue'[s])
    BY <1>0, <1>d, <1>e DEF QueuesAreOfThisProcess
  <2>2. ASSUME NEW x \in ToSet(queue'[s]) PROVE state'[x] = "queued" /\ Here(x, s)'
    <3>1. CASE x \in ToSet(queue[s])
      <4>1. state[x] = "queued" /\ Here(x, s) /\ x # q
        BY <1>0, <1>a, <3>1 DEF QueuesAreOfThisProcess
      <4> QED BY <1>a, <1>b, <4>1 DEF Here
    <3>2. CASE s = r /\ x = q
      BY <1>a, <1>b, <3>2 DEF Here
    <3> QED BY <1>d, <1>e, <3>1, <3>2
  <2> QED BY <2>1, <2>2
<1>3. ASSUME NEW x \in Requests PROVE Placed(x)'
  <2>1. CASE x = q
    BY <1>a, <1>b, <1>d, <2>1 DEF Placed
  <2>2. CASE x # q
    <3>1. Placed(x) /\ state'[x] = state[x] /\ process'[x] = process[x] /\ epoch' = epoch
      BY <1>0, <1>a, <1>b, <2>2
    <3>2. \A s \in Replicas : ToSet(queue[s]) \subseteq ToSet(queue'[s])
      BY <1>d, <1>e
    <3> QED BY <3>1, <3>2 DEF Placed, Here
  <2> QED BY <2>1, <2>2
<1>4. ASSUME NEW p \in Posts PROVE StoreKnows(p)'
  BY <1>0, <1>a, <1>b DEF StoreKnows, Here, Requests
<1>5. \A s \in Replicas : Running(s)' = Running(s)
  BY <1>a, <1>b DEF Running, Requests
<1>6. StoreIsFounded'
  <2>1. \A p \in Posts :
          state[p] \in {"running", "answered"} =>
            state'[p] \in {"running", "answered"} /\ process'[p] = process[p]
    BY <1>a, <1>b DEF Requests
  <2>2. \A s \in Replicas, c \in Cases : Begun(s, c) => Begun(s, c)'
    BY <1>a, <2>1, BegunStays
  <2> QED BY <1>0, <1>a, <2>2 DEF StoreIsFounded
<1>7. InProgressHasAWorker'
  BY <1>0, <1>a, <1>5 DEF InProgressHasAWorker
<1> QED BY <1>1, <1>2, <1>3, <1>4, <1>6, <1>7 DEF Inv

LEMMA WaitingAreRequests ==
  ASSUME TypeOK, NEW r \in Replicas, NEW q \in ToSet(queue[r])
  PROVE  q \in Requests
<1>1. queue[r] \in Seq(Requests)
  BY DEF TypeOK
<1> QED BY <1>1 DEF ToSet

LEMMA HereFacts ==
  ASSUME NEW q, NEW r, Here(q, r)
  PROVE  process[q].replica = r /\ process[q].epoch = epoch[r]
BY DEF Here

\* What waits longest leaves the queue, for a worker or with its answer.
LEMMA DequeueFacts ==
  ASSUME Inv, NEW r \in Replicas, Dequeue(r), NEW v \in {"running", "answered", "not found"},
         state' = [state EXCEPT ![Head(queue[r])] = v],
         v = "running" => Head(queue[r]) \in Posts
  PROVE  LET h == Head(queue[r])
         IN  /\ h \in Requests /\ state[h] = "queued" /\ Here(h, r)
             /\ state' \in [Requests -> {"new", "queued", "running", "answered",
                                         "not found", "lost"}]
             /\ queue' \in [Replicas -> Seq(Requests)]
             /\ QueuesAreOfThisProcess'
             /\ \A q \in Requests : Placed(q)'
<1> DEFINE h == Head(queue[r])
<1>0. TypeOK /\ QueuesAreOfThisProcess /\ (\A x \in Requests : Placed(x))
  BY DEF Inv
<1>a. /\ queue[r] # << >> /\ queue' = [queue EXCEPT ![r] = Tail(queue[r])]
      /\ UNCHANGED <<target, process, epoch>>
  BY DEF Dequeue
<1>b. /\ queue[r] \in Seq(Requests) /\ NoRepeats(queue[r])
      /\ DOMAIN queue = Replicas /\ DOMAIN state = Requests
  BY <1>0 DEF TypeOK, QueuesAreOfThisProcess
<1>c. /\ Tail(queue[r]) \in Seq(Requests) /\ NoRepeats(Tail(queue[r]))
      /\ h \in ToSet(queue[r]) /\ h \in Requests
      /\ ToSet(Tail(queue[r])) = ToSet(queue[r]) \ {h}
  BY <1>a, <1>b, TailFacts
<1>d. state[h] = "queued" /\ Here(h, r)
  BY <1>0, <1>c DEF QueuesAreOfThisProcess
<1>e. queue'[r] = Tail(queue[r]) /\ \A s \in Replicas \ {r} : queue'[s] = queue[s]
  BY <1>a, <1>b
<1>1. state' \in [Requests -> {"new", "queued", "running", "answered", "not found", "lost"}]
  BY <1>0 DEF TypeOK
<1>2. queue' \in [Replicas -> Seq(Requests)]
  BY <1>0, <1>a, <1>c DEF TypeOK
\* h waits nowhere else: its process tells where it waits.
<1>3. ASSUME NEW s \in Replicas, s # r PROVE h \notin ToSet(queue[s])
  <2>1. SUFFICES ASSUME h \in ToSet(queue[s]) PROVE FALSE
    OBVIOUS
  <2>2. Here(h, s)
    BY <1>0, <2>1 DEF QueuesAreOfThisProcess
  <2>3. process[h].replica = s
    BY <2>2, HereFacts
  <2>4. process[h].replica = r
    BY <1>d, HereFacts
  <2> QED BY <1>3, <2>3, <2>4
<1>4. QueuesAreOfThisProcess'
  <2> SUFFICES ASSUME NEW s \in Replicas
               PROVE  /\ NoRepeats(queue'[s])
                      /\ \A x \in ToSet(queue'[s]) : state'[x] = "queued" /\ Here(x, s)'
    BY DEF QueuesAreOfThisProcess
  <2>1. NoRepeats(queue'[s])
    BY <1>0, <1>c, <1>e DEF QueuesAreOfThisProcess
  <2>2. ASSUME NEW x \in ToSet(queue'[s]) PROVE state'[x] = "queued" /\ Here(x, s)'
    <3>1. x \in ToSet(queue[s]) /\ x # h
      BY <1>3, <1>c, <1>e, <2>2
    <3>2. state[x] = "queued" /\ Here(x, s)
      BY <1>0, <3>1 DEF QueuesAreOfThisProcess
    <3>3. x \in Requests
      BY <1>0, <3>1, WaitingAreRequests
    <3>4. state'[x] = state[x]
      BY <1>b, <3>1, <3>3
    <3> QED BY <1>a, <3>2, <3>4 DEF Here
  <2> QED BY <2>1, <2>2
<1>5. ASSUME NEW x \in Requests PROVE Placed(x)'
  <2>1. CASE x = h
    <3>1. state'[h] = v
      BY <1>b, <1>c
    <3>2. Placed(h) /\ process[h].replica = r
      BY <1>0, <1>c, <1>d, HereFacts
    <3> QED BY <1>a, <1>d, <2>1, <3>1, <3>2 DEF Placed, Here
  <2>2. CASE x # h
    <3>1. Placed(x) /\ state'[x] = state[x]
      BY <1>0, <1>b, <2>2
    <3>2. \A s \in Replicas : ToSet(queue[s]) \ {h} \subseteq ToSet(queue'[s])
      BY <1>c, <1>e
    <3>3. state[x] = "queued" => process[x].replica \in Replicas
      BY <3>1 DEF Placed
    <3> QED BY <1>a, <2>2, <3>1, <3>2, <3>3 DEF Placed, Here
  <2> QED BY <2>1, <2>2
<1> QED BY <1>1, <1>2, <1>4, <1>5, <1>c, <1>d

LEMMA InvestigatePreservesInv ==
  ASSUME Inv, NEW r \in Replicas, Investigate(r)
  PROVE  Inv'
<1> DEFINE h == Head(queue[r])
<1>0. TypeOK /\ (\A x \in Requests : Placed(x)) /\ (\A p \in Posts : StoreKnows(p))
      /\ StoreIsFounded /\ InProgressHasAWorker
  BY DEF Inv
<1>a. /\ Dequeue(r) /\ h \in Posts
      /\ state' = [state EXCEPT ![h] = "running"]
      /\ store' = [store EXCEPT ![r] = [store[r] EXCEPT ![target[h]] = "in_progress"]]
      /\ UNCHANGED <<ready, missed, target, process, epoch>>
  BY DEF Investigate, Dequeue
<1>b. /\ h \in Requests /\ state[h] = "queued" /\ Here(h, r)
      /\ state' \in [Requests -> {"new", "queued", "running", "answered", "not found", "lost"}]
      /\ queue' \in [Replicas -> Seq(Requests)]
      /\ QueuesAreOfThisProcess'
      /\ \A q \in Requests : Placed(q)'
  BY <1>a, DequeueFacts
<1>c. /\ DOMAIN state = Requests /\ target[h] \in Cases
      /\ store \in [Replicas -> [Cases -> {"unknown", "in_progress", "settled"}]]
      /\ target \in [Requests -> Cases]
  BY <1>0, <1>b DEF TypeOK
<1>d. \A s \in Replicas, c \in Cases :
        store'[s][c] = IF s = r /\ c = target[h] THEN "in_progress" ELSE store[s][c]
  BY <1>a, <1>c
<1>e. Running(r)' = Running(r) \cup {h} /\ \A s \in Replicas \ {r} : Running(s)' = Running(s)
  <2>1. process[h].replica = r
    BY <1>b, HereFacts
  <2> QED BY <1>a, <1>c, <2>1 DEF Running, Requests
<1>1. TypeOK'
  <2>1. store' \in [Replicas -> [Cases -> {"unknown", "in_progress", "settled"}]]
    BY <1>a, <1>c
  <2> QED BY <1>0, <1>a, <1>b, <2>1 DEF TypeOK
<1>2. ASSUME NEW p \in Posts PROVE StoreKnows(p)'
  <2> SUFFICES ASSUME state'[p] \in {"running", "answered"}, Here(p, process[p].replica)
               PROVE  store'[process[p].replica][target[p]] # "unknown"
    BY <1>a DEF StoreKnows, Here
  <2>1. target[p] \in Cases /\ p \in Requests
    BY <1>c DEF Requests
  <2>2. process[p].replica \in Replicas
    BY <1>a, <1>b, <2>1 DEF Placed
  <2>3. CASE p = h
    <3>1. process[p].replica = r
      BY <1>b, <2>3, HereFacts
    <3> QED BY <1>d, <2>1, <2>3, <3>1
  <2>4. CASE p # h
    <3>1. state'[p] = state[p] /\ StoreKnows(p)
      BY <1>0, <1>a, <1>c, <2>1, <2>4
    <3> QED BY <1>d, <2>1, <2>2, <3>1 DEF StoreKnows
  <2> QED BY <2>3, <2>4
<1>3. StoreIsFounded'
  <2> SUFFICES ASSUME NEW s \in Replicas, NEW c \in Cases, store'[s][c] # "unknown"
               PROVE  Begun(s, c)'
    BY DEF StoreIsFounded
  <2>1. CASE s = r /\ c = target[h]
    <3>1. PICK p \in Posts : p = h
      BY <1>a
    <3>2. state'[p] = "running" /\ Here(p, r)' /\ target'[p] = c
      BY <1>a, <1>b, <1>c, <2>1, <3>1 DEF Here
    <3> QED BY <2>1, <3>2 DEF Begun
  <2>2. CASE ~(s = r /\ c = target[h])
    <3>1. Begun(s, c)
      BY <1>0, <1>d, <2>2 DEF StoreIsFounded
    <3>2. \A p \in Posts :
            state[p] \in {"running", "answered"} =>
              state'[p] \in {"running", "answered"} /\ process'[p] = process[p]
      BY <1>a, <1>c DEF Requests
    <3> QED BY <1>a, <3>1, <3>2, BegunStays
  <2> QED BY <2>1, <2>2
<1>4. InProgressHasAWorker'
  <2> SUFFICES ASSUME NEW s \in Replicas, NEW c \in Cases, store'[s][c] = "in_progress"
               PROVE  \E p \in Running(s)' : target[p] = c
    BY <1>a DEF InProgressHasAWorker
  <2>1. CASE s = r /\ c = target[h]
    BY <1>e, <2>1
  <2>2. CASE ~(s = r /\ c = target[h])
    <3>1. store[s][c] = "in_progress"
      BY <1>d, <2>2
    <3> QED BY <1>0, <1>e, <3>1 DEF InProgressHasAWorker
  <2> QED BY <2>1, <2>2
<1> QED BY <1>1, <1>2, <1>3, <1>4, <1>b DEF Inv

LEMMA ReportPreservesInv ==
  ASSUME Inv, NEW r \in Replicas, Report(r)
  PROVE  Inv'
<1> DEFINE h == Head(queue[r])
           v == IF store[r][target[h]] = "unknown" THEN "not found" ELSE "answered"
<1>0. TypeOK /\ (\A p \in Posts : StoreKnows(p)) /\ StoreIsFounded /\ InProgressHasAWorker
  BY DEF Inv
<1>a. /\ Dequeue(r) /\ h \in Gets /\ h \notin Posts
      /\ state' = [state EXCEPT ![h] = v]
      /\ UNCHANGED <<store, ready, missed, target, process, epoch>>
  BY RequestsAssumption DEF Report, Dequeue
<1>b. /\ h \in Requests
      /\ state' \in [Requests -> {"new", "queued", "running", "answered", "not found", "lost"}]
      /\ queue' \in [Replicas -> Seq(Requests)]
      /\ QueuesAreOfThisProcess'
      /\ \A q \in Requests : Placed(q)'
  BY <1>a, DequeueFacts
<1>c. \A p \in Posts : p \in Requests /\ state'[p] = state[p]
  BY <1>0, <1>a DEF TypeOK, Requests
<1>1. TypeOK'
  BY <1>0, <1>a, <1>b DEF TypeOK
<1>2. \A p \in Posts : StoreKnows(p)'
  BY <1>0, <1>a, <1>c DEF StoreKnows, Here
<1>3. \A s \in Replicas : Running(s)' = Running(s)
  BY <1>a, <1>c DEF Running
<1>4. StoreIsFounded'
  <2>1. \A s \in Replicas, c \in Cases : Begun(s, c) => Begun(s, c)'
    BY <1>a, <1>c, BegunStays
  <2> QED BY <1>0, <1>a, <2>1 DEF StoreIsFounded
<1>5. InProgressHasAWorker'
  BY <1>0, <1>a, <1>3 DEF InProgressHasAWorker
<1> QED BY <1>1, <1>2, <1>4, <1>5, <1>b DEF Inv

LEMMA FinishPreservesInv ==
  ASSUME Inv, NEW p \in Posts, Finish(p)
  PROVE  Inv'
<1> DEFINE r == process[p].replica
<1>0. TypeOK /\ QueuesAreOfThisProcess /\ (\A x \in Requests : Placed(x))
      /\ (\A x \in Posts : StoreKnows(x)) /\ StoreIsFounded /\ InProgressHasAWorker
  BY DEF Inv
<1>a. /\ state[p] = "running" /\ state' = [state EXCEPT ![p] = "answered"]
      /\ store' = [store EXCEPT ![r] = [store[r] EXCEPT ![target[p]] = "settled"]]
      /\ UNCHANGED <<target, process, epoch, queue, ready, missed>>
  BY DEF Finish
<1>b. /\ p \in Requests /\ DOMAIN state = Requests /\ target \in [Requests -> Cases]
      /\ store \in [Replicas -> [Cases -> {"unknown", "in_progress", "settled"}]]
  BY <1>0 DEF TypeOK, Requests
<1>c. r \in Replicas
  BY <1>0, <1>a, <1>b DEF Placed
<1>d. \A s \in Replicas, c \in Cases :
        store'[s][c] = IF s = r /\ c = target[p] THEN "settled" ELSE store[s][c]
  BY <1>a, <1>b, <1>c
<1>e. \A s \in Replicas : Running(s)' = Running(s) \ {p}
  BY <1>a, <1>b DEF Running, Requests
<1>1. TypeOK'
  <2>1. store' \in [Replicas -> [Cases -> {"unknown", "in_progress", "settled"}]]
    BY <1>a, <1>b
  <2> QED BY <1>0, <1>a, <2>1 DEF TypeOK
<1>2. QueuesAreOfThisProcess'
  <2> SUFFICES ASSUME NEW s \in Replicas
               PROVE  /\ NoRepeats(queue[s])
                      /\ \A x \in ToSet(queue[s]) : state'[x] = "queued" /\ Here(x, s)
    BY <1>a DEF QueuesAreOfThisProcess, Here
  <2>1. queue[s] \in Seq(Requests)
    BY <1>0 DEF TypeOK
  <2>2. \A x \in ToSet(queue[s]) : x \in Requests /\ x # p
    BY <1>0, <1>a, <2>1 DEF QueuesAreOfThisProcess, ToSet
  <2> QED BY <1>0, <1>a, <1>b, <2>2 DEF QueuesAreOfThisProcess
<1>3. \A x \in Requests : Placed(x)'
  BY <1>0, <1>a, <1>b DEF Placed, Here
<1>4. ASSUME NEW x \in Posts PROVE StoreKnows(x)'
  <2> SUFFICES ASSUME state'[x] \in {"running", "answered"}, Here(x, process[x].replica)
               PROVE  store'[process[x].replica][target[x]] # "unknown"
    BY <1>a DEF StoreKnows, Here
  <2>1. x \in Requests /\ target[x] \in Cases
    BY <1>b DEF Requests
  <2>2. state[x] \in {"running", "answered"}
    BY <1>a, <1>b, <2>1
  <2>3. process[x].replica \in Replicas /\ store[process[x].replica][target[x]] # "unknown"
    BY <1>0, <2>1, <2>2 DEF Placed, StoreKnows
  <2> QED BY <1>d, <2>1, <2>3
<1>5. StoreIsFounded'
  <2>1. \A x \in Posts :
          state[x] \in {"running", "answered"} =>
            state'[x] \in {"running", "answered"} /\ process'[x] = process[x]
    BY <1>a, <1>b DEF Requests
  <2>2. \A s \in Replicas, c \in Cases : Begun(s, c) => Begun(s, c)'
    BY <1>a, <2>1, BegunStays
  <2> SUFFICES ASSUME NEW s \in Replicas, NEW c \in Cases, store'[s][c] # "unknown"
               PROVE  Begun(s, c)'
    BY DEF StoreIsFounded
  <2>3. CASE s = r /\ c = target[p]
    <3>1. Placed(p)
      BY <1>0, <1>b
    <3>2. Here(p, r)
      BY <1>a, <3>1 DEF Placed
    <3> QED BY <1>a, <2>2, <2>3, <3>2 DEF Begun
  <2>4. CASE ~(s = r /\ c = target[p])
    BY <1>0, <1>d, <2>2, <2>4 DEF StoreIsFounded
  <2> QED BY <2>3, <2>4
<1>6. InProgressHasAWorker'
  <2> SUFFICES ASSUME NEW s \in Replicas, NEW c \in Cases, store'[s][c] = "in_progress"
               PROVE  \E x \in Running(s)' : target[x] = c
    BY <1>a DEF InProgressHasAWorker
  <2>1. ~(s = r /\ c = target[p]) /\ store[s][c] = "in_progress"
    BY <1>d
  <2>2. PICK x \in Running(s) : target[x] = c
    BY <1>0, <2>1 DEF InProgressHasAWorker
  <2>3. x # p
    BY <2>1, <2>2 DEF Running
  <2> QED BY <1>e, <2>2, <2>3
<1> QED BY <1>1, <1>2, <1>3, <1>4, <1>5, <1>6 DEF Inv

\* What the old process was doing is lost, and what it knew is gone.
LEMMA RestartPreservesInv ==
  ASSUME Inv, NEW r \in Replicas, Restart(r)
  PROVE  Inv'
<1>0. TypeOK /\ QueuesAreOfThisProcess /\ (\A x \in Requests : Placed(x))
      /\ (\A x \in Posts : StoreKnows(x)) /\ StoreIsFounded /\ InProgressHasAWorker
  BY DEF Inv
<1>a. /\ state' = [q \in Requests |-> IF q \in Unanswered(r) THEN "lost" ELSE state[q]]
      /\ epoch' = [epoch EXCEPT ![r] = epoch[r] + 1]
      /\ queue' = [queue EXCEPT ![r] = << >>]
      /\ store' = [store EXCEPT ![r] = [c \in Cases |-> "unknown"]]
      /\ ready' = [ready EXCEPT ![r] = FALSE]
      /\ missed' = [missed EXCEPT ![r] = [k \in Probes |-> 0]]
      /\ UNCHANGED <<target, process>>
  BY DEF Restart
<1>b. /\ epoch \in [Replicas -> Nat] /\ queue \in [Replicas -> Seq(Requests)]
      /\ store \in [Replicas -> [Cases -> {"unknown", "in_progress", "settled"}]]
      /\ target \in [Requests -> Cases]
      /\ missed \in [Replicas -> [Probes -> 0 .. FailureThreshold]]
      /\ ready \in [Replicas -> BOOLEAN]
  BY <1>0 DEF TypeOK
<1>c. ASSUME NEW q \in Requests, state[q] \in {"queued", "running"}
      PROVE  q \in Unanswered(r) <=> process[q].replica = r
  <2>1. CASE state[q] = "running"
    BY <1>0, <2>1 DEF Placed, Unanswered, Running, QueuesAreOfThisProcess
  <2>2. CASE state[q] = "queued"
    <3>1. q \in ToSet(queue[process[q].replica]) /\ q \notin Running(r)
      BY <1>0, <2>2 DEF Placed, Running
    <3>2. q \in ToSet(queue[r]) => process[q].replica = r
      BY <1>0, HereFacts DEF QueuesAreOfThisProcess
    <3> QED BY <3>1, <3>2 DEF Unanswered
  <2> QED BY <1>c, <2>1, <2>2
<1>d. \A s \in Replicas \ {r} :
        epoch'[s] = epoch[s] /\ queue'[s] = queue[s] /\ store'[s] = store[s]
  BY <1>a, <1>b
<1>e. /\ epoch'[r] = epoch[r] + 1 /\ epoch[r] \in Nat /\ queue'[r] = << >>
      /\ \A c \in Cases : store'[r][c] = "unknown"
  BY <1>a, <1>b
<1>f. Running(r)' = {} /\ \A s \in Replicas \ {r} : Running(s)' = Running(s)
  <2>1. \A p \in Posts : state'[p] = "running" <=> state[p] = "running" /\ process[p].replica # r
    BY <1>a, <1>c DEF Requests
  <2> QED BY <1>a, <2>1 DEF Running
<1>1. TypeOK'
  <2>1. epoch' \in [Replicas -> Nat]
    BY <1>a, <1>b
  <2>2. queue' \in [Replicas -> Seq(Requests)]
    BY <1>a, <1>b
  <2>3. store' \in [Replicas -> [Cases -> {"unknown", "in_progress", "settled"}]]
    BY <1>a, <1>b
  <2>4. missed' \in [Replicas -> [Probes -> 0 .. FailureThreshold]]
    <3>1. [k \in Probes |-> 0] \in [Probes -> 0 .. FailureThreshold]
      BY ProbeAssumption
    <3> QED BY <1>a, <1>b, <3>1
  <2>5. ready' \in [Replicas -> BOOLEAN]
    BY <1>a, <1>b
  <2>6. state' \in [Requests -> {"new", "queued", "running", "answered", "not found", "lost"}]
    BY <1>0, <1>a DEF TypeOK
  <2> QED BY <1>0, <1>a, <2>1, <2>2, <2>3, <2>4, <2>5, <2>6 DEF TypeOK
<1>2. QueuesAreOfThisProcess'
  <2> SUFFICES ASSUME NEW s \in Replicas
               PROVE  /\ NoRepeats(queue'[s])
                      /\ \A x \in ToSet(queue'[s]) : state'[x] = "queued" /\ Here(x, s)'
    BY DEF QueuesAreOfThisProcess
  <2>1. CASE s = r
    BY <1>e, <2>1, EmptyQueue
  <2>2. CASE s # r
    <3>1. queue[s] \in Seq(Requests) /\ queue'[s] = queue[s] /\ epoch'[s] = epoch[s]
      BY <1>b, <1>d, <2>2
    <3>2. ASSUME NEW x \in ToSet(queue[s]) PROVE state'[x] = "queued" /\ Here(x, s)'
      <4>1. x \in Requests /\ state[x] = "queued" /\ Here(x, s)
        BY <1>0, <3>1 DEF QueuesAreOfThisProcess, ToSet
      <4>2. x \notin Unanswered(r)
        BY <1>c, <2>2, <4>1, HereFacts
      <4> QED BY <1>a, <3>1, <4>1, <4>2 DEF Here
    <3> QED BY <1>0, <3>1, <3>2 DEF QueuesAreOfThisProcess
  <2> QED BY <2>1, <2>2
<1>3. ASSUME NEW q \in Requests PROVE Placed(q)'
  <2>0. Placed(q)
    BY <1>0
  <2>1. state'[q] # "new" =>
          /\ process[q] \in [replica : Replicas, epoch : Nat]
          /\ process[q].epoch <= epoch'[process[q].replica]
    <3> SUFFICES ASSUME state'[q] # "new"
                 PROVE  /\ process[q] \in [replica : Replicas, epoch : Nat]
                        /\ process[q].epoch <= epoch'[process[q].replica]
      OBVIOUS
    <3>1. state[q] # "new"
      <4>1. CASE q \in Unanswered(r)
        <5>1. queue[r] \in Seq(Requests)
          BY <1>b
        <5> QED BY <1>0, <4>1 DEF Unanswered, Running, QueuesAreOfThisProcess
      <4>2. CASE q \notin Unanswered(r)
        BY <1>a, <4>2
      <4> QED BY <4>1, <4>2
    <3>2. /\ process[q] \in [replica : Replicas, epoch : Nat]
          /\ process[q].epoch <= epoch[process[q].replica]
      BY <2>0, <3>1 DEF Placed
    <3>3. process[q].replica \in Replicas /\ process[q].epoch \in Nat
      BY <3>2
    <3>4. epoch[process[q].replica] \in Nat
          /\ epoch'[process[q].replica] \in {epoch[process[q].replica], epoch[process[q].replica] + 1}
      BY <1>b, <1>d, <1>e, <3>3
    <3> QED BY <3>2, <3>3, <3>4
  <2>2. ASSUME state'[q] \in {"queued", "running"}
        PROVE  /\ state[q] = state'[q] /\ process[q].replica \in Replicas \ {r}
    <3>1. state'[q] = state[q] /\ q \notin Unanswered(r)
      BY <1>a, <2>2
    <3>2. process[q].replica # r
      BY <1>c, <2>2, <3>1
    <3> QED BY <2>0, <2>2, <3>1, <3>2 DEF Placed
  <2>3. state'[q] = "running" => q \in Posts /\ Here(q, process[q].replica)'
    BY <1>a, <1>d, <2>0, <2>2 DEF Placed, Here
  <2>4. state'[q] = "queued" => q \in ToSet(queue'[process[q].replica])
    BY <1>d, <2>0, <2>2 DEF Placed
  <2> QED BY <1>a, <2>1, <2>3, <2>4 DEF Placed
<1>4. ASSUME NEW p \in Posts PROVE StoreKnows(p)'
  <2> SUFFICES ASSUME state'[p] \in {"running", "answered"}, Here(p, process[p].replica)'
               PROVE  store'[process[p].replica][target[p]] # "unknown"
    BY <1>a DEF StoreKnows, Here
  <2>1. p \in Requests /\ state[p] = state'[p] /\ Placed(p)
    BY <1>0, <1>a DEF Requests
  <2>2. process[p].replica \in Replicas /\ process[p].epoch <= epoch[process[p].replica]
    BY <2>1 DEF Placed
  <2>3. process[p].epoch = epoch'[process[p].replica]
    BY <1>a DEF Here
  <2>4. process[p].replica # r
    BY <1>e, <2>2, <2>3
  <2>5. Here(p, process[p].replica) /\ store'[process[p].replica] = store[process[p].replica]
    BY <1>a, <1>d, <2>2, <2>4 DEF Here
  <2> QED BY <1>0, <2>1, <2>5 DEF StoreKnows
<1>5. StoreIsFounded'
  <2> SUFFICES ASSUME NEW s \in Replicas, NEW c \in Cases, store'[s][c] # "unknown"
               PROVE  Begun(s, c)'
    BY DEF StoreIsFounded
  <2>1. s # r /\ store[s][c] # "unknown" /\ epoch'[s] = epoch[s]
    BY <1>d, <1>e
  <2>2. PICK p \in Posts : state[p] \in {"running", "answered"} /\ Here(p, s) /\ target[p] = c
    BY <1>0, <2>1 DEF StoreIsFounded, Begun
  <2>3. p \in Requests /\ process[p].replica = s
    BY <2>2, HereFacts DEF Requests
  <2>4. p \notin Unanswered(r)
    <3>1. p \notin Running(r)
      BY <2>1, <2>3 DEF Running
    <3>2. p \notin ToSet(queue[r])
      BY <1>0, <2>2 DEF QueuesAreOfThisProcess
    <3> QED BY <3>1, <3>2 DEF Unanswered
  <2>5. state'[p] = state[p] /\ Here(p, s)' /\ target'[p] = c
    BY <1>a, <2>1, <2>2, <2>3, <2>4 DEF Here
  <2> QED BY <2>2, <2>5 DEF Begun
<1>6. InProgressHasAWorker'
  BY <1>0, <1>a, <1>d, <1>e, <1>f DEF InProgressHasAWorker
<1> QED BY <1>1, <1>2, <1>3, <1>4, <1>5, <1>6 DEF Inv

\* A probe changes only what the service and the kubelet think of a replica.
LEMMA ProbePreservesInv ==
  ASSUME Inv, NEW r \in Replicas, NEW k \in Probes,
         ProbeSucceeds(r, k) \/ ProbeFails(r, k)
  PROVE  Inv'
<1>0. TypeOK
  BY DEF Inv
<1>1. UNCHANGED <<target, state, process, epoch, queue, store>>
  BY DEF ProbeSucceeds, ProbeFails
<1>2. missed \in [Replicas -> [Probes -> 0 .. FailureThreshold]] /\ ready \in [Replicas -> BOOLEAN]
      /\ missed[r][k] \in 0 .. FailureThreshold
  BY <1>0 DEF TypeOK
<1>3. missed' \in [Replicas -> [Probes -> 0 .. FailureThreshold]]
  <2>1. PICK n \in 0 .. FailureThreshold :
          missed' = [missed EXCEPT ![r] = [missed[r] EXCEPT ![k] = n]]
    <3>1. CASE ProbeSucceeds(r, k)
      <4>1. missed' = [missed EXCEPT ![r] = [missed[r] EXCEPT ![k] = 0]]
        BY <3>1 DEF ProbeSucceeds
      <4>2. 0 \in 0 .. FailureThreshold
        BY ProbeAssumption
      <4> QED BY <4>1, <4>2
    <3>2. CASE ProbeFails(r, k)
      <4>1. missed' = [missed EXCEPT ![r] = [missed[r] EXCEPT ![k] = missed[r][k] + 1]]
            /\ missed[r][k] < FailureThreshold
        BY <3>2 DEF ProbeFails
      <4>2. missed[r][k] + 1 \in 0 .. FailureThreshold
        BY <1>2, <4>1, ProbeAssumption
      <4> QED BY <4>1, <4>2
    <3> QED BY <3>1, <3>2
  <2> QED BY <1>2, <2>1
<1>4. ready' \in [Replicas -> BOOLEAN]
  BY <1>2 DEF ProbeSucceeds, ProbeFails
<1>5. TypeOK'
  BY <1>0, <1>1, <1>3, <1>4 DEF TypeOK
<1>6. QueuesAreOfThisProcess' /\ InProgressHasAWorker'
  BY <1>1 DEF Inv, QueuesAreOfThisProcess, InProgressHasAWorker, Running, Here, ToSet, NoRepeats
<1>7. \A q \in Requests : Placed(q)'
  BY <1>1 DEF Inv, Placed, Here, ToSet
<1>8. \A p \in Posts : StoreKnows(p)'
  BY <1>1 DEF Inv, StoreKnows, Here
<1>9. StoreIsFounded'
  BY <1>1 DEF Inv, StoreIsFounded, Begun, Here
<1> QED BY <1>5, <1>6, <1>7, <1>8, <1>9 DEF Inv

\* Every step preserves the invariant.
LEMMA NextPreservesInv == Inv /\ [Next]_vars => Inv'
<1> SUFFICES ASSUME Inv, [Next]_vars PROVE Inv'
  OBVIOUS
<1>1. ASSUME NEW q \in Requests, NEW r \in Replicas, Send(q, r) PROVE Inv'
  BY <1>1, SendPreservesInv
<1>2. ASSUME NEW p \in Posts, Finish(p) PROVE Inv'
  BY <1>2, FinishPreservesInv
<1>3. ASSUME NEW r \in Replicas, Serve(r) \/ Restart(r) PROVE Inv'
  BY <1>3, InvestigatePreservesInv, ReportPreservesInv, RestartPreservesInv DEF Serve
<1>4. ASSUME NEW r \in Replicas, NEW k \in Probes, ProbeSucceeds(r, k) \/ ProbeFails(r, k)
      PROVE  Inv'
  BY <1>4, ProbePreservesInv
<1>5. CASE UNCHANGED vars
  <2>1. TypeOK'
    BY <1>5 DEF Inv, vars, TypeOK
  <2>2. QueuesAreOfThisProcess' /\ InProgressHasAWorker'
    BY <1>5 DEF Inv, vars, QueuesAreOfThisProcess, InProgressHasAWorker, Running, Here, ToSet,
                NoRepeats
  <2>3. (\A q \in Requests : Placed(q)') /\ (\A p \in Posts : StoreKnows(p)')
    BY <1>5 DEF Inv, vars, Placed, StoreKnows, Here, ToSet
  <2>4. StoreIsFounded'
    BY <1>5 DEF Inv, vars, StoreIsFounded, Begun, Here
  <2> QED BY <2>1, <2>2, <2>3, <2>4 DEF Inv
<1> QED BY <1>1, <1>2, <1>3, <1>4, <1>5 DEF Next

LEMMA Invariance == Spec => []Inv
<1> QED BY InitInv, NextPreservesInv, PTL DEF Spec

(***************************************************************************)
(* Types, of any number of replicas, requests and cases.                   *)
(***************************************************************************)
THEOREM TypeCorrect == Spec => []TypeOK
<1>1. Inv => TypeOK
  BY DEF Inv
<1> QED BY <1>1, Invariance, PTL

(***************************************************************************)
(* No restart and no second run of a case leaves its report in progress    *)
(* without a worker that investigates it.                                  *)
(***************************************************************************)
THEOREM NothingIsInProgressForEver == Spec => []InProgressHasAWorker
<1>1. Inv => InProgressHasAWorker
  BY DEF Inv
<1> QED BY <1>1, Invariance, PTL

(***************************************************************************)
(* A request finds a case exactly if the process that serves it has begun  *)
(* an investigation of it (routes.py:40, 68-73): a replica knows nothing   *)
(* of what another one, or its own predecessor, has investigated.          *)
(***************************************************************************)
THEOREM CasesAreFound == Spec => CasesAreFoundWhereTriggered
<1> DEFINE Found(g) ==
      state[g] = "queued" /\ state'[g] \in {"answered", "not found"} =>
        (state'[g] = "answered" <=>
           \E p \in Posts : /\ state[p] \in {"running", "answered"}
                            /\ process[p] = process[g] /\ target[p] = target[g])
<1>1. ASSUME Inv, [Next]_vars, NEW g \in Gets PROVE Found(g)
  <2>0. /\ TypeOK /\ g \in Requests /\ g \notin Posts /\ DOMAIN state = Requests
        /\ target[g] \in Cases
        /\ (\A x \in Requests : Placed(x)) /\ (\A p \in Posts : StoreKnows(p)) /\ StoreIsFounded
    BY <1>1, RequestsAssumption DEF Inv, TypeOK, Requests
  <2> SUFFICES ASSUME state[g] = "queued", state'[g] \in {"answered", "not found"}
               PROVE  state'[g] = "answered" <=>
                        \E p \in Posts : /\ state[p] \in {"running", "answered"}
                                         /\ process[p] = process[g] /\ target[p] = target[g]
    OBVIOUS
  <2>1. PICK r \in Replicas : Report(r)
    <3>1. ASSUME NEW q \in Requests, NEW r \in Replicas, Send(q, r) PROVE FALSE
      BY <2>0, <3>1 DEF Send
    <3>2. ASSUME NEW q \in Posts, Finish(q) PROVE FALSE
      BY <2>0, <3>2 DEF Finish
    <3>3. ASSUME NEW r \in Replicas, Investigate(r) PROVE FALSE
      BY <2>0, <3>3 DEF Investigate
    <3>4. ASSUME NEW r \in Replicas, Restart(r) PROVE FALSE
      BY <2>0, <3>4 DEF Restart
    <3>5. ASSUME NEW r \in Replicas, NEW k \in Probes, ProbeSucceeds(r, k) \/ ProbeFails(r, k)
          PROVE FALSE
      BY <3>5 DEF ProbeSucceeds, ProbeFails
    <3>6. CASE UNCHANGED vars
      BY <3>6 DEF vars
    <3> QED BY <1>1, <3>1, <3>2, <3>3, <3>4, <3>5, <3>6 DEF Next, Serve
  <2> DEFINE h == Head(queue[r])
             v == IF store[r][target[h]] = "unknown" THEN "not found" ELSE "answered"
  <2>2. Dequeue(r) /\ state' = [state EXCEPT ![h] = v]
    BY <2>1 DEF Report
  <2>3. h = g
    BY <2>0, <2>2
  <2>4. state'[g] = "answered" <=> store[r][target[g]] # "unknown"
    BY <2>0, <2>2, <2>3
  <2>5. Here(g, r)
    <3>1. v \in {"running", "answered", "not found"} /\ (v = "running" => h \in Posts)
      OBVIOUS
    <3> QED BY <1>1, <2>2, <2>3, <3>1, DequeueFacts
  <2>6. ASSUME store[r][target[g]] # "unknown"
        PROVE  \E p \in Posts : /\ state[p] \in {"running", "answered"}
                                /\ process[p] = process[g] /\ target[p] = target[g]
    <3>1. Begun(r, target[g])
      BY <2>0, <2>6 DEF StoreIsFounded
    <3> QED BY <2>5, <3>1 DEF Begun, Here
  <2>7. ASSUME NEW p \in Posts, state[p] \in {"running", "answered"},
               process[p] = process[g], target[p] = target[g]
        PROVE  store[r][target[g]] # "unknown"
    <3>1. Here(p, r)
      BY <2>5, <2>7 DEF Here
    <3>2. process[p].replica = r
      BY <3>1, HereFacts
    <3> QED BY <2>0, <2>7, <3>1, <3>2 DEF StoreKnows
  <2> QED BY <2>4, <2>6, <2>7
<1>2. Inv /\ [Next]_vars => [\A g \in Gets : Found(g)]_vars
  BY <1>1
<1> QED BY <1>2, Invariance, PTL DEF Spec, CasesAreFoundWhereTriggered
===============================================================================

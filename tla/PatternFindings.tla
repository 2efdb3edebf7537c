---------------------------- MODULE PatternFindings ----------------------------
(***************************************************************************)
(* tools/transaction_history_tool.py: what compute_pattern_findings tells  *)
(* of a ledger.  A ledger is the list of transactions as seeded, in no     *)
(* particular order; amounts are in cents, timestamps in minutes.  The     *)
(* direction of a transaction is no part of it, since the code ignores it. *)
(***************************************************************************)
EXTENDS Integers, Sequences, FiniteSetsExt

Day == 24 * 60

Channels == {"wire", "ach", "cash", "card", "branch"}

Transaction(channel, amount, timestamp) ==
  [channel |-> channel, amount |-> amount, timestamp |-> timestamp]

REPORTING_THRESHOLD       == 1000000
NEAR_THRESHOLD_FLOOR      == (REPORTING_THRESHOLD * 90) \div 100
STRUCTURING_MIN_CLUSTER   == 3
STRUCTURING_LOOKBACK      == 7 * Day
VELOCITY_MIN_TRANSACTIONS == 4
VELOCITY_LOOKBACK         == 5 * Day

\* Mutant: the ledger is taken to be sorted.
LatestIsLast(ledger) == ledger[Len(ledger)].timestamp

LatestTs(ledger) == Max({ledger[i].timestamp : i \in DOMAIN ledger})

\* Mutant: the window is half-open.
WithinStrictly(ledger, lookback) ==
  {i \in DOMAIN ledger : LatestTs(ledger) - ledger[i].timestamp < lookback}

\* The transactions of the window that ends with the latest one.
Within(ledger, lookback) ==
  {i \in DOMAIN ledger : LatestTs(ledger) - ledger[i].timestamp <= lookback}

NearThresholdCash(transaction) ==
  /\ transaction.channel = "cash"
  /\ transaction.amount >= NEAR_THRESHOLD_FLOOR
  /\ transaction.amount < REPORTING_THRESHOLD

NoFindings ==
  [transactions_reviewed |-> 0, structuring_suspected |-> FALSE,
   velocity_flag |-> FALSE, total_flagged_amount |-> 0, flagged |-> {}]

\* `flagged` holds positions of the ledger for the code's transaction ids.
FindingsOf(ledger) ==
  LET cluster     == {i \in Within(ledger, STRUCTURING_LOOKBACK) :
                        NearThresholdCash(ledger[i])}
      structuring == Cardinality(cluster) >= STRUCTURING_MIN_CLUSTER
      flagged     == IF structuring THEN cluster ELSE {}
      velocity    == Cardinality(Within(ledger, VELOCITY_LOOKBACK))
                       >= VELOCITY_MIN_TRANSACTIONS
  IN  [transactions_reviewed |-> Len(ledger),
       structuring_suspected |-> structuring,
       velocity_flag         |-> velocity,
       total_flagged_amount  |-> MapThenSumSet(LAMBDA i : ledger[i].amount, flagged),
       flagged               |-> flagged]

ComputePatternFindings(ledger) ==
  IF ledger = << >> THEN NoFindings ELSE FindingsOf(ledger)

\* Mutant: one of the labels is reworded.
RewordedFindingsText(findings) ==
  [ label \in {"Structuring pattern suspected", "Velocity pattern suspected"} |->
      IF label = "Velocity pattern suspected"
      THEN findings.velocity_flag ELSE findings.structuring_suspected ]

\* The labelled lines of the prompt that other code looks for.
FormatPatternFindingsText(findings) ==
  [ label \in {"Structuring pattern suspected", "Velocity flag"} |->
      IF label = "Velocity flag"
      THEN findings.velocity_flag ELSE findings.structuring_suspected ]

------------------------------------------------------------------------------
\* data/seed_cases.py.

\* _ts, in minutes since _BASE_DAY.
Ts(days, hour, minute) == days * Day + (hour - 12) * 60 + minute

TRANSACTIONS_0001 ==
  << Transaction("cash", 980000, Ts(0, 10, 5)),
     Transaction("cash", 965000, Ts(1, 11, 40)),
     Transaction("cash", 940000, Ts(2, 9, 50)),
     Transaction("cash", 992500, Ts(3, 14, 10)),
     Transaction("card", 25000, Ts(4, 8, 30)) >>

TRANSACTIONS_0002 ==
  << Transaction("ach", 120000, Ts(0, 9, 0)),
     Transaction("ach", 8550, Ts(2, 17, 30)),
     Transaction("card", 34000, Ts(4, 12, 0)) >>
==============================================================================

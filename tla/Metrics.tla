------------------------------ MODULE Metrics ------------------------------
(***************************************************************************)
(* internal/metrics/calculator.go and the time range its handlers pass.    *)
(* Rates and averages are the pairs <<numerator, denominator>> the code    *)
(* divides, costs and amounts are in cents.                                *)
(***************************************************************************)
EXTENDS RetryOrchestrator

CONSTANTS Amount,   \* the amount of each transaction's event
          Day       \* the default length of the time range

ASSUME MetricsAssumption == /\ Amount \in [TxnIds -> Nat]
                            /\ Day \in Nat
                            /\ IsFiniteSet(Codes)

(* parseTimeRange: an omitted end is the present, an omitted start is a day
   before the present whatever the end is. *)
TimeRange(start, end) == [start |-> IF start = Nil THEN now - Day ELSE start,
                          end   |-> IF end = Nil THEN now ELSE end]

-----------------------------------------------------------------------------
(* GetRecoveryMetrics, from the transactions read under one lock *)

DelaySeconds(t) == IF Classify(t.event.code).strategy = "DELAYED" THEN 30 ELSE 0

RecoveryMetrics(txns) ==
  LET all            == DOMAIN txns
      hard           == {i \in all : IsHard(txns[i].event.code)}
      soft           == all \ hard
      With(status)   == {i \in all : txns[i].status = status}
      amounts        == [i \in all |-> Amount[txns[i].event.id]]
      Retries(i)     == Len(txns[i].attempts)
      retries        == SumFunction([i \in all |-> Retries(i)])
      delay          == SumFunction([i \in all |-> Retries(i) * DelaySeconds(txns[i])])
  IN  [total         |-> Cardinality(all),
       hard          |-> Cardinality(hard),
       soft          |-> Cardinality(soft),
       recovered     |-> Cardinality(With("RECOVERED")),
       exhausted     |-> Cardinality(With("EXHAUSTED")),
       rate          |-> IF soft = {} THEN <<0, 1>>
                         ELSE <<Cardinality(With("RECOVERED")), Cardinality(soft)>>,
       retries       |-> retries,
       atRisk        |-> SumFunctionOnSet(amounts, soft),
       rescued       |-> SumFunctionOnSet(amounts, With("RECOVERED")),
       cost          |-> SumFunction([i \in all |-> txns[i].totalCost]),
       latency       |-> IF retries = 0 THEN <<0, 1>> ELSE <<delay, retries>>,
       breakdown     |-> [code \in Codes |-> Cardinality({i \in all : txns[i].event.code = code})]]

(* GetProcessorMetrics, the part that counts the attempts on a processor *)
AttemptsMade(txns) == UNION {{i} \X DOMAIN txns[i].attempts : i \in DOMAIN txns}

SuccessfulOn(txns, p) ==   \* mutant: a failed attempt is skipped
  {x \in AttemptsMade(txns) : LET made == txns[x[1]].attempts[x[2]]
                              IN  made.processor = p /\ made.success}
AttemptsOn(txns, p) == {x \in AttemptsMade(txns) : txns[x[1]].attempts[x[2]].processor = p}

ProcessorMetrics(txns, p) ==
  LET on            == AttemptsOn(txns, p)
      With(success) == {x \in on : txns[x[1]].attempts[x[2]].success = success}
  IN  [attempts  |-> Cardinality(on),
       successes |-> Cardinality(With(TRUE)),
       failures  |-> Cardinality(With(FALSE)),
       cost      |-> SumFunctionOnSet([x \in on |-> txns[x[1]].attempts[x[2]].cost], on)]

-----------------------------------------------------------------------------
(* Properties *)

InRange(start, end) == GetAllTransactionsInRange(start, end)

(* Whatever chains and reports are under way when the metrics are read
   (calculator.go divides recovered by soft declines), the recovery rate is at
   most 1 and the revenue recovered at most the revenue at risk: nothing
   counts as recovered or exhausted that did not count as a soft decline. *)
RecoveryRateAtMostOne ==
  \A start, end \in Times :
    LET m == RecoveryMetrics(InRange(start, end))
    IN  /\ m.recovered + m.exhausted <= m.soft
        /\ m.rescued <= m.atRisk
        /\ m.hard + m.soft = SumFunction(m.breakdown)

(* The two reports agree: over the same transactions the processors share all
   the retries and all the cost the recovery metrics show, and a transaction
   has at most one successful attempt, after which it counts as recovered. *)
ProcessorsShareRetries ==
  \A start, end \in Times :
    LET txns == InRange(start, end)
        m    == RecoveryMetrics(txns)
        p    == [n \in Processors |-> ProcessorMetrics(txns, n)]
        Total(f(_)) == SumFunction([n \in Processors |-> f(p[n])])
    IN  /\ Total(LAMBDA q : q.attempts) = m.retries
        /\ Total(LAMBDA q : q.cost) = m.cost
        /\ Total(LAMBDA q : q.successes) <= m.recovered
=============================================================================

-------------------------- MODULE RetryProperties --------------------------
(***************************************************************************)
(* What the orchestrator promises: the correctness properties of           *)
(* RetryOrchestrator.  Some hold under every interleaving, some only for   *)
(* the operations or the concurrency their comment names; the              *)
(* configurations supply those.                                            *)
(***************************************************************************)
EXTENDS RetryOrchestrator

-----------------------------------------------------------------------------
(* Types *)

PendingOutcomes == Attempts \cup ReportedOutcomes

Stages == {"idle", "recordFailure", "save", "plan", "scanHealth", "scanAdaptive", "simulate",
           "recordHealth", "recordAdaptive", "log", "update", "fetch", "reportHealth",
           "reportAdaptive", "reportUpdate", "resetStore", "resetHealth", "done"}

Answers == {"none", "created", "duplicate", "recorded", "notFound", "reset"}

StoreTypeOK ==
  /\ transactions \in [TxnIds -> Transactions \cup {Nil}]
  /\ decisions \in [TxnIds -> Seq(DecisionLogs)]
  /\ txOrder \in Seq(TxnIds)

AdaptiveTypeOK == adaptiveData \in [Codes -> [Names -> [successes : Nat, total : Nat]]]

RequestTypeOK ==
  /\ pc \in [Requests -> Stages]
  /\ call \in [Requests -> Submissions \cup Reports \cup Resets \cup {Nil}]
  /\ tx \in [Requests -> Transactions \cup {Nil}]
  /\ attempt \in [Requests -> PendingOutcomes \cup {Nil}]
  /\ scan \in [Requests -> SUBSET DOMAIN ProcessorOrder]
  /\ DOMAIN candidates = Requests
  /\ \A r \in Requests : \A c \in candidates[r] : c.name \in Processors
  /\ reply \in [Requests -> Answers]

(* Types: what the store, the two ledgers and the local variables of every
   request may hold; in particular the retry count of a stored transaction
   never exceeds maxRetries. *)
TypeOK == HealthTypeOK /\ StoreTypeOK /\ AdaptiveTypeOK /\ RequestTypeOK

-----------------------------------------------------------------------------
(* Safety of the store's records, under every interleaving *)

(* A transaction as it may be stored: before its chain has ended it shows
   no attempt at all, afterwards it shows the whole chain. *)
WholeChain(t) ==
  LET n == Len(t.attempts)
  IN  /\ t.retryCount = n
      /\ \A i \in 1..n : t.attempts[i].number = i
      /\ \A i \in 1..n : t.attempts[i].success => i = n
      /\ n > 0 => t.attempts[n].success \/ n = MaxRetries
      /\ t.status \in {"HARD_DECLINED", "RETRYING"} => n = 0
      /\ t.status = "EXHAUSTED" => n = MaxRetries /\ ~t.attempts[n].success

(* executeRetryChain writes only when it is over, and report and reset
   requests that race it never let a reader see half a chain, an attempt
   after a success, a chain cut short, or EXHAUSTED before every retry failed. *)
ChainsAreWhole ==
  \A id \in TxnIds : Exists(id) => transactions[id].event.id = id /\ WholeChain(transactions[id])

(* A hard decline is never retried and never recovers, whatever is reported
   about it later (ProcessFailure, RecordRetryOutcome), and only hard
   declines carry that status. *)
HardNeverRetried ==
  \A id \in TxnIds : Exists(id) =>
    LET t == transactions[id]
    IN  (t.status = "HARD_DECLINED") = IsHard(t.event.code)

(* The cost charged for a transaction is what its attempts cost on the
   processors they were routed to, however often they were rerouted. *)
CostsAddUp ==
  \A id \in TxnIds : Exists(id) =>
    LET t == transactions[id]
    IN  t.totalCost = SumFunction([i \in DOMAIN t.attempts |-> Cost[t.attempts[i].processor]])

(* Issuer-side declines are retried elsewhere: no stored attempt of the
   ALTERNATIVE_PROCESSOR strategy was made on the processor that declined. *)
AlternativeMeansOther ==
  \A id \in TxnIds : Exists(id) =>
    LET t == transactions[id]
    IN  Classify(t.event.code).strategy = "ALTERNATIVE_PROCESSOR" =>
          \A i \in DOMAIN t.attempts : t.attempts[i].processor # t.event.processor

(* The list that pages are cut from names every stored transaction exactly
   once, although duplicate submissions and resets race the inserts. *)
OrderListsStore ==
  /\ \A id \in TxnIds : Exists(id) <=> \E i \in DOMAIN txOrder : txOrder[i] = id
  /\ \A i, j \in DOMAIN txOrder : txOrder[i] = txOrder[j] => i = j

-----------------------------------------------------------------------------
(* One submission, one chain, one audit trail; without resets *)

Submitted(r) == call[r] # Nil /\ call[r].op = "submit"

InChain == {"plan", "scanHealth", "scanAdaptive", "simulate",
            "recordHealth", "recordAdaptive", "log", "update"}

Accepted(r) == Submitted(r) /\ (pc[r] \in InChain \/ reply[r] = "created")

(* Of several submissions of the same transaction that are served at the same
   time at most one gets past SaveTransaction, so it is retried only once. *)
OneChainPerTransaction ==
  \A r, q \in Requests :
    Accepted(r) /\ Accepted(q) /\ call[r].event.id = call[q].event.id => r = q

Logged(r) == IF pc[r] \in {"recordHealth", "recordAdaptive", "log"}
               THEN tx[r].retryCount - 1 ELSE tx[r].retryCount

(* The audit log of a transaction lists, in order and without gaps, exactly
   the attempts its submission has made and will answer with. *)
AuditMatchesReply ==
  \A r \in Requests : Accepted(r) =>
    decisions[call[r].event.id] =
      [i \in 1..Logged(r) |-> [number |-> i,
                               source |-> call[r].event.processor,
                               target |-> tx[r].attempts[i].processor]]

(* When clients only submit, what a submission was answered is what the
   store shows from then on. *)
ReplyMatchesStore ==
  \A r \in Requests : Submitted(r) /\ reply[r] = "created" =>
    transactions[call[r].event.id] = tx[r]

-----------------------------------------------------------------------------
(* The two ledgers of outcomes *)

(* How many of its attempts a submission has entered in each ledger. *)
Assessed(r) == IF pc[r] = "recordHealth" THEN tx[r].retryCount - 1 ELSE tx[r].retryCount
Learned(r)  == IF pc[r] \in {"recordHealth", "recordAdaptive"}
                 THEN tx[r].retryCount - 1 ELSE tx[r].retryCount

MadeBy(entered(_), code, p, success) ==
  {x \in Requests \X (1..MaxRetries) :
     LET r == x[1]
         i == x[2]
     IN  /\ Submitted(r) /\ tx[r] # Nil
         /\ i <= entered(r)
         /\ call[r].event.code = code
         /\ tx[r].attempts[i].processor = p
         /\ tx[r].attempts[i].success = success}

ReportedBy(stages, code, p, success) ==
  {r \in Requests : /\ call[r] # Nil /\ call[r].op = "report"
                    /\ tx[r] # Nil /\ pc[r] \in stages
                    /\ tx[r].event.code = code
                    /\ call[r].processor = p
                    /\ call[r].success = success}

(* recordAdaptive neither loses nor repeats an outcome under any
   interleaving, resets included: the learned counts are those of the
   attempts made and the outcomes reported. *)
AdaptiveLedger ==
  \A code \in Codes, p \in Names :
    LET entries(success) == Cardinality(MadeBy(Learned, code, p, success))
                            + Cardinality(ReportedBy({"reportUpdate", "done"}, code, p, success))
    IN  adaptiveData[code][p] = [successes |-> entries(TRUE),
                                 total     |-> entries(TRUE) + entries(FALSE)]

(* While nothing expires and nobody resets, the health of a processor counts
   every outcome once: each submission's original failure, also of the ones
   rejected as duplicates, each attempt and each report. *)
HealthLedger ==
  \A p \in Names, success \in BOOLEAN :
    Count(windows[p], success) =
        (IF success THEN 0
         ELSE Cardinality({r \in Requests : /\ Submitted(r) /\ pc[r] # "recordFailure"
                                            /\ call[r].event.processor = p}))
      + Cardinality(UNION {MadeBy(Assessed, code, p, success)
                             \cup {<<r, 0>> : r \in ReportedBy({"reportAdaptive", "reportUpdate", "done"},
                                                             code, p, success)} : code \in Codes})

-----------------------------------------------------------------------------
(* Routing, for requests served one at a time while no time passes *)

(* A retry is made on a DOWN processor only when every processor other than
   the one that declined is DOWN: routing away from an outage works as long
   as there is somewhere to go. *)
DownOnlyAsLastResort ==
  [][\A r \in Requests : Simulate(r) /\ GetHealth(attempt[r].processor).state = "DOWN" =>
       \A p \in Processors \ {tx[r].event.processor} : GetHealth(p).state = "DOWN"]_vars

-----------------------------------------------------------------------------
(* Progress *)

(* Every request that has arrived is answered: the retry chain and the scan
   for an alternative always end, and no request waits for another. *)
EveryRequestAnswered == \A r \in Requests : pc[r] # "idle" ~> pc[r] = "done"

(* README, data flow: a retried transaction ends up RECOVERED or EXHAUSTED
   and does not stay RETRYING. *)
SoftDeclinesResolve ==
  \A id \in TxnIds : []<>(Exists(id) => transactions[id].status # "RETRYING")

-----------------------------------------------------------------------------
(* The abstract specification *)

(* Seen through the store, the interleaved steps of the requests are the life
   of a transaction with its chain decided in one step: with any number of
   submissions at a time, and with reports and resets as long as requests
   are served one at a time. *)
Life == INSTANCE RetryLifecycle WITH
          Ids       <- TxnIds,
          MaxTries  <- MaxRetries,
          MayReport <- "report" \in Operations,
          MayReset  <- "reset" \in Operations,
          status    <- [id \in TxnIds |-> IF Exists(id) THEN transactions[id].status ELSE "ABSENT"],
          tries     <- [id \in TxnIds |-> IF Exists(id) THEN transactions[id].retryCount ELSE 0]
ImplementsLifecycle == Life!LifeSpec

-----------------------------------------------------------------------------
(* What the documentation says and the code does not do *)

(* "Allow external success reports to recover exhausted or retrying
   transactions": once the report of a success has been answered, the
   transaction that it recovered would be RECOVERED; without resets. *)
ReportedRecoveryKept ==
  \A r \in Requests :
    reply[r] = "recorded" /\ call[r].success /\ tx[r].status = "RECOVERED" =>
      transactions[call[r].id].status = "RECOVERED"

(* "All data cleared successfully": when a reset is answered while no other
   request is being served, nothing that was learned before would be left. *)
ResetClearsEverything ==
  [][\A r \in Requests : ResetHealth(r) /\ InFlight = {r} => adaptiveData' = NothingLearned]_vars
=============================================================================

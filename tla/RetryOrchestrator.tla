------------------------- MODULE RetryOrchestrator -------------------------
(***************************************************************************)
(* internal/orchestrator/orchestrator.go with the classifier, the health   *)
(* tracker and the store it ties together, under concurrent API requests.  *)
(*                                                                         *)
(* Each HTTP request is a goroutine.  What a goroutine does between two    *)
(* acquisitions of a mutex touches only its own variables, so one critical *)
(* section (of the store, of the health tracker or of o.mu) and the local  *)
(* code after it make one step, and the steps of requests interleave.      *)
(***************************************************************************)
EXTENDS Classifier, HealthTracker, MemoryStore, ProcessorSelection, FiniteSets

CONSTANTS Requests,     \* the requests that may ever be served
          Operations,   \* which of "submit", "report", "reset" clients use
          Codes,        \* failure codes submitted
          Sources,      \* processors submitted failures come from
          Reported,     \* processor names outcome reports carry
          ClientTimes,  \* timestamps clients may put in an event
          MaxInFlight,  \* bound: requests being served at a time; with 1 the
                        \* clients are sequential, as the unit tests are
          MaxRetries    \* maxRetries

ASSUME OrchestratorAssumption ==
  /\ MaxRetries \in Nat \ {0}
  /\ IsFiniteSet(Requests)
  /\ MaxInFlight \in Nat
  /\ Operations \subseteq {"submit", "report", "reset"}
  /\ Sources \subseteq Processors
  /\ Processors \subseteq Names
  /\ Reported \subseteq Names
  /\ ClientTimes \subseteq Times
  /\ 0..MaxTime \subseteq Times

VARIABLES adaptiveData,  \* code -> processor -> [successes, total]
          pc,            \* what each request does next
          call,          \* the arguments of each request
          tx,            \* the request's own copy of its transaction
          attempt,       \* the retry attempt being planned and made
          scan,          \* indices of ProcessorOrder left to selectBestAlternative
          candidates,    \* the candidates it has collected
          reply          \* the answer sent to the client

sharedVars == <<transactions, decisions, txOrder, windows, now, adaptiveData>>
localVars  == <<pc, call, tx, attempt, scan, candidates, reply>>
vars       == <<sharedVars, localVars>>

-----------------------------------------------------------------------------
(* Data *)

Events == [id : TxnIds, code : Codes, processor : Processors, ts : Times]

Attempts == [number : 1..MaxRetries, processor : Processors, cost : Nat,
             success : BOOLEAN, ts : Times]

Transactions == [event : Events, status : Statuses, retryCount : 0..MaxRetries,
                 attempts : Seq(Attempts), totalCost : Nat]

DecisionLogs == [number : 1..MaxRetries, source : Processors, target : Processors]

(* A nil pointer is not a transaction. *)
ASSUME NilAssumption == Nil \notin Transactions

(* What an outcome report says, and when it was received. *)
ReportedOutcomes == [processor : Reported, success : BOOLEAN, ts : Times]

Submissions == [op : {"submit"}, event : Events]
Reports     == [op : {"report"}, id : TxnIds, processor : Reported, success : BOOLEAN]
Resets      == [op : {"reset"}]

(* Nor are the arguments of a request. *)
ASSUME ArgumentsAssumption == Nil \notin Submissions \cup Reports \cup Resets

NewTransaction(event, status) ==
  [event |-> event, status |-> status, retryCount |-> 0, attempts |-> <<>>, totalCost |-> 0]

(* getAdaptiveRate: a neutral half until an outcome has been learned. *)
AdaptiveRate(code, p) == LET learned == adaptiveData[code][p]
                         IN  IF learned.total = 0 THEN <<1, 2>>
                             ELSE <<learned.successes, learned.total>>

(* recordAdaptive *)
RecordAdaptiveSuccess(code, p, success) ==   \* mutant: a failure adds nothing to the total
  LET learned == adaptiveData[code][p]
  IN  adaptiveData' = IF success
        THEN [adaptiveData EXCEPT ![code][p] =
               [successes |-> learned.successes + 1, total |-> learned.total + 1]]
        ELSE adaptiveData
RecordAdaptive(code, p, success) ==
  LET learned == adaptiveData[code][p]
  IN  adaptiveData' = [adaptiveData EXCEPT ![code][p] =
        [successes |-> IF success THEN learned.successes + 1 ELSE learned.successes,
         total     |-> learned.total + 1]]

NothingLearned == [code \in Codes |-> [p \in Names |-> [successes |-> 0, total |-> 0]]]

-----------------------------------------------------------------------------
Init == /\ HealthInit
        /\ StoreInit
        /\ adaptiveData = NothingLearned
        /\ pc = [r \in Requests |-> "idle"]
        /\ call = [r \in Requests |-> Nil]
        /\ tx = [r \in Requests |-> Nil]
        /\ attempt = [r \in Requests |-> Nil]
        /\ scan = [r \in Requests |-> {}]
        /\ candidates = [r \in Requests |-> {}]
        /\ reply = [r \in Requests |-> "none"]

Goto(r, from, to) == pc[r] = from /\ pc' = [pc EXCEPT ![r] = to]

Answer(r, from, answer) == Goto(r, from, "done") /\ reply' = [reply EXCEPT ![r] = answer]

-----------------------------------------------------------------------------
(* Arrival of a request whose body is well formed. *)

InFlight == {r \in Requests : pc[r] \notin {"idle", "done"}}

Arrive(r, arguments, to) ==
  /\ arguments.op \in Operations
  /\ Cardinality(InFlight) < MaxInFlight
  /\ Goto(r, "idle", to)
  /\ call' = [call EXCEPT ![r] = arguments]
  /\ UNCHANGED <<sharedVars, tx, attempt, scan, candidates, reply>>

(* POST /failures; an event without a timestamp happened now (ToEvent). *)
Submit(r) ==
  \E id \in TxnIds, code \in Codes, p \in Sources, ts \in ClientTimes \cup {now} :
    Arrive(r, [op |-> "submit", event |-> [id |-> id, code |-> code, processor |-> p, ts |-> ts]],
           "recordFailure")

(* POST /retries/{id}/outcome; any non-empty processor name is accepted. *)
Report(r) ==
  \E id \in TxnIds, p \in Reported, success \in BOOLEAN :
    Arrive(r, [op |-> "report", id |-> id, processor |-> p, success |-> success], "fetch")

(* POST /test/reset *)
Reset(r) == Arrive(r, [op |-> "reset"], "resetStore")

-----------------------------------------------------------------------------
(* ProcessFailure *)

(* The failure counts against its processor, before anything else is known. *)
RecordFailure(r) ==
  LET event == call[r].event
  IN  /\ Goto(r, "recordFailure", "save")
      /\ RecordOutcome(event.processor, FALSE, event.ts)
      /\ UNCHANGED <<storeVars, now, adaptiveData, call, tx, attempt, scan, candidates, reply>>

(* Classify, then SaveTransaction: a duplicate id is an error, a hard decline
   is answered at once, a soft one enters the retry chain. *)
RejectDuplicate(r) ==
  /\ Answer(r, "save", "duplicate")
  /\ Exists(call[r].event.id)
  /\ UNCHANGED <<sharedVars, call, tx, attempt, scan, candidates>>

SaveHard(r) ==
  LET event == call[r].event
  IN  /\ Answer(r, "save", "created")
      /\ ~Exists(event.id)
      /\ IsHard(event.code)
      /\ tx' = [tx EXCEPT ![r] = NewTransaction(event, "HARD_DECLINED")]
      /\ SaveTransaction(event.id, tx'[r])
      /\ UNCHANGED <<windows, now, adaptiveData, call, attempt, scan, candidates>>

SaveSoftUnchecked(r) ==   \* mutant: the existence check is dropped
  LET event == call[r].event
  IN  /\ Goto(r, "save", "plan")
      /\ ~IsHard(event.code)
      /\ tx' = [tx EXCEPT ![r] = NewTransaction(event, "RETRYING")]
      /\ SaveTransaction(event.id, tx'[r])
      /\ UNCHANGED <<windows, now, adaptiveData, call, attempt, scan, candidates, reply>>
SaveSoft(r) ==
  LET event == call[r].event
  IN  /\ Goto(r, "save", "plan")
      /\ ~Exists(event.id)
      /\ ~IsHard(event.code)
      /\ tx' = [tx EXCEPT ![r] = NewTransaction(event, "RETRYING")]
      /\ SaveTransaction(event.id, tx'[r])
      /\ UNCHANGED <<windows, now, adaptiveData, call, attempt, scan, candidates, reply>>

(* planRetryAttempt reads the health of the original processor.  IMMEDIATE and
   DELAYED stay on it unless it is DOWN; otherwise an alternative is looked
   for.  The attempt is drafted on the original processor. *)
OthersAndItself(p) == DOMAIN ProcessorOrder   \* mutant: the failed processor is not excluded
Others(p) == {i \in DOMAIN ProcessorOrder : ProcessorOrder[i] # p}

PlanAttempt(r) ==
  LET event == tx[r].event
      stay  == /\ Classify(event.code).strategy # "ALTERNATIVE_PROCESSOR"
               /\ GetHealth(event.processor).state # "DOWN"
  IN  /\ Goto(r, "plan", IF stay THEN "simulate" ELSE "scanHealth")
      /\ attempt' = [attempt EXCEPT ![r] =
                       [number    |-> tx[r].retryCount + 1,
                        processor |-> event.processor,
                        cost      |-> Cost[event.processor],
                        success   |-> FALSE,
                        ts        |-> now]]
      /\ scan' = [scan EXCEPT ![r] = IF stay THEN {} ELSE Others(event.processor)]
      /\ candidates' = [candidates EXCEPT ![r] = {}]
      /\ UNCHANGED <<sharedVars, call, tx, reply>>

(* selectBestAlternative visits the other processors in order: it reads the
   health of one, skips it when DOWN, else reads its adaptive rate, under
   another lock, and makes it a candidate. *)
IsNext(i, r) == i \in scan[r] /\ \A j \in scan[r] : i <= j

Unrated(p) == [name |-> p, failure |-> GetHealth(p).rate, adaptive |-> <<0, 0>>]

ScanHealthAny(r) ==   \* mutant: DOWN processors are not skipped
  \E i \in DOMAIN ProcessorOrder :
    /\ Goto(r, "scanHealth", "scanAdaptive")
    /\ IsNext(i, r)
    /\ candidates' = [candidates EXCEPT ![r] = candidates[r] \cup {Unrated(ProcessorOrder[i])}]
    /\ UNCHANGED <<sharedVars, call, tx, attempt, scan, reply>>
ScanHealth(r) ==
  \E i \in DOMAIN ProcessorOrder :
    LET down == GetHealth(ProcessorOrder[i]).state = "DOWN"
    IN  /\ Goto(r, "scanHealth", IF down THEN "scanHealth" ELSE "scanAdaptive")
        /\ IsNext(i, r)
        /\ scan' = [scan EXCEPT ![r] = IF down THEN scan[r] \ {i} ELSE scan[r]]
        /\ candidates' = [candidates EXCEPT ![r] =
             IF down THEN candidates[r] ELSE candidates[r] \cup {Unrated(ProcessorOrder[i])}]
        /\ UNCHANGED <<sharedVars, call, tx, attempt, reply>>

Rated(r, p) ==
  {IF c.name # p THEN c
   ELSE [name |-> p, failure |-> c.failure, adaptive |-> AdaptiveRate(tx[r].event.code, p)]
     : c \in candidates[r]}

ScanAdaptiveStuck(r) ==   \* mutant: the loop does not advance
  \E i \in DOMAIN ProcessorOrder :
    /\ Goto(r, "scanAdaptive", "scanHealth")
    /\ IsNext(i, r)
    /\ candidates' = [candidates EXCEPT ![r] = Rated(r, ProcessorOrder[i])]
    /\ UNCHANGED <<sharedVars, call, tx, attempt, scan, reply>>
ScanAdaptive(r) ==
  \E i \in DOMAIN ProcessorOrder :
    /\ Goto(r, "scanAdaptive", "scanHealth")
    /\ IsNext(i, r)
    /\ candidates' = [candidates EXCEPT ![r] = Rated(r, ProcessorOrder[i])]
    /\ scan' = [scan EXCEPT ![r] = scan[r] \ {i}]
    /\ UNCHANGED <<sharedVars, call, tx, attempt, reply>>

(* The scan is over: the first candidate of the ranking, else the fallback;
   without either the chain is given up. *)
RouteKeepsCost(r, p) ==   \* mutant: charged at the original processor's cost
  /\ Goto(r, "scanHealth", "simulate")
  /\ attempt' = [attempt EXCEPT ![r] = [attempt[r] EXCEPT !.processor = p]]
  /\ UNCHANGED tx
Route(r, p) ==
  /\ Goto(r, "scanHealth", "simulate")
  /\ attempt' = [attempt EXCEPT ![r] = [attempt[r] EXCEPT !.processor = p, !.cost = Cost[p]]]
  /\ UNCHANGED tx

GiveUp(r) ==
  /\ Goto(r, "scanHealth", "update")
  /\ tx' = [tx EXCEPT ![r] = [tx[r] EXCEPT !.status = "EXHAUSTED"]]
  /\ UNCHANGED attempt

SelectTarget(r) ==
  /\ pc[r] = "scanHealth" /\ scan[r] = {}
  /\ IF candidates[r] # {} THEN \E c \in Best(candidates[r]) : Route(r, c.name)
     ELSE IF Fallback(tx[r].event.processor) # {}
       THEN \E p \in Fallback(tx[r].event.processor) : Route(r, p)
     ELSE GiveUp(r)
  /\ UNCHANGED <<sharedVars, call, scan, candidates, reply>>

(* simulateOutcome: the success probability depends on the target's health,
   but in every state it lies strictly between 0 and 1, so either outcome is
   possible.  The attempt is then entered in the request's own transaction. *)
Simulate(r) ==
  \E success \in BOOLEAN :
    LET made == [attempt[r] EXCEPT !.success = success]
    IN  /\ Goto(r, "simulate", "recordHealth")
        /\ attempt' = [attempt EXCEPT ![r] = made]
        /\ tx' = [tx EXCEPT ![r] = [tx[r] EXCEPT !.attempts = Append(tx[r].attempts, made),
                                                 !.retryCount = tx[r].retryCount + 1,
                                                 !.totalCost = tx[r].totalCost + made.cost]]
        /\ UNCHANGED <<sharedVars, call, scan, candidates, reply>>

RecordHealthAtSource(r) ==   \* mutant: the outcome counts for the original processor
  /\ Goto(r, "recordHealth", "recordAdaptive")
  /\ RecordOutcome(tx[r].event.processor, attempt[r].success, attempt[r].ts)
  /\ UNCHANGED <<storeVars, now, adaptiveData, call, tx, attempt, scan, candidates, reply>>
RecordHealth(r) ==
  /\ Goto(r, "recordHealth", "recordAdaptive")
  /\ RecordOutcome(attempt[r].processor, attempt[r].success, attempt[r].ts)
  /\ UNCHANGED <<storeVars, now, adaptiveData, call, tx, attempt, scan, candidates, reply>>

LearnOutcome(r) ==
  /\ Goto(r, "recordAdaptive", "log")
  /\ RecordAdaptive(tx[r].event.code, attempt[r].processor, attempt[r].success)
  /\ UNCHANGED <<storeVars, healthVars, call, tx, attempt, scan, candidates, reply>>

(* The decision is logged; then the chain ends with a success, goes round
   again, or ends because the retries are used up. *)
RetriesOneMore(r) == tx[r].retryCount <= MaxRetries       \* mutant: one retry too many
RetriesOneLess(r) == tx[r].retryCount < MaxRetries - 1    \* mutant: one retry too few
RetriesLeft(r) == tx[r].retryCount < MaxRetries

DecisionOnSource(r) ==   \* mutant: logs the original processor as the target
  [number |-> attempt[r].number, source |-> tx[r].event.processor, target |-> tx[r].event.processor]
Decision(r) ==
  [number |-> attempt[r].number, source |-> tx[r].event.processor, target |-> attempt[r].processor]

LogDecision(r) ==
  LET again == ~attempt[r].success /\ RetriesLeft(r)
  IN  /\ Goto(r, "log", IF again THEN "plan" ELSE "update")
      /\ SaveDecisionLog(tx[r].event.id, Decision(r))
      /\ tx' = [tx EXCEPT ![r] = [tx[r] EXCEPT !.status =
                  IF attempt[r].success THEN "RECOVERED"
                  ELSE IF again THEN tx[r].status ELSE "EXHAUSTED"]]
      /\ UNCHANGED <<healthVars, adaptiveData, call, attempt, scan, candidates, reply>>

(* The final UpdateTransaction, its error ignored, and the response. *)
FinishChainUnsaved(r) ==   \* mutant: the outcome is not written to the store
  /\ Answer(r, "update", "created")
  /\ UNCHANGED <<sharedVars, call, tx, attempt, scan, candidates>>
FinishChain(r) ==
  /\ Answer(r, "update", "created")
  /\ UpdateTransaction(tx[r].event.id, tx[r])
  /\ UNCHANGED <<healthVars, adaptiveData, call, tx, attempt, scan, candidates>>

-----------------------------------------------------------------------------
(* RecordRetryOutcome *)

FetchUnknown(r) ==
  /\ Answer(r, "fetch", "notFound")
  /\ ~Exists(call[r].id)
  /\ UNCHANGED <<sharedVars, call, tx, attempt, scan, candidates>>

(* A copy of the transaction is fetched and then the clock is read. *)
Fetch(r) ==
  /\ Goto(r, "fetch", "reportHealth")
  /\ Exists(call[r].id)
  /\ tx' = [tx EXCEPT ![r] = transactions[call[r].id]]
  /\ attempt' = [attempt EXCEPT ![r] =
       [processor |-> call[r].processor, success |-> call[r].success, ts |-> now]]
  /\ UNCHANGED <<sharedVars, call, scan, candidates, reply>>

ReportHealth(r) ==
  /\ Goto(r, "reportHealth", "reportAdaptive")
  /\ RecordOutcome(attempt[r].processor, attempt[r].success, attempt[r].ts)
  /\ UNCHANGED <<storeVars, now, adaptiveData, call, tx, attempt, scan, candidates, reply>>

(* The fetched copy becomes RECOVERED when a success is reported for a
   transaction that was retrying or exhausted when it was fetched. *)
RecoverAny(r) ==   \* mutant: the status is not looked at
  IF attempt[r].success THEN "RECOVERED" ELSE tx[r].status
StatusAfterReport(r) ==
  IF attempt[r].success /\ tx[r].status \in {"RETRYING", "EXHAUSTED"}
    THEN "RECOVERED" ELSE tx[r].status

ReportAdaptive(r) ==
  /\ Goto(r, "reportAdaptive", "reportUpdate")
  /\ RecordAdaptive(tx[r].event.code, attempt[r].processor, attempt[r].success)
  /\ tx' = [tx EXCEPT ![r] = [tx[r] EXCEPT !.status = StatusAfterReport(r)]]
  /\ UNCHANGED <<storeVars, healthVars, call, attempt, scan, candidates, reply>>

(* The whole copy is written back. *)
ReportUpdate(r) ==
  /\ Answer(r, "reportUpdate", IF Exists(call[r].id) THEN "recorded" ELSE "notFound")
  /\ UpdateTransaction(call[r].id, tx[r])
  /\ UNCHANGED <<healthVars, adaptiveData, call, tx, attempt, scan, candidates>>

-----------------------------------------------------------------------------
(* resetData clears the store and then the tracker. *)

ResetStore(r) ==
  /\ Goto(r, "resetStore", "resetHealth")
  /\ StoreReset
  /\ UNCHANGED <<healthVars, adaptiveData, call, tx, attempt, scan, candidates, reply>>

ResetHealth(r) ==
  /\ Answer(r, "resetHealth", "reset")
  /\ HealthReset
  /\ UNCHANGED <<storeVars, now, adaptiveData, call, tx, attempt, scan, candidates>>

-----------------------------------------------------------------------------
ProcessFailureStep(r) ==
  \/ RecordFailure(r) \/ RejectDuplicate(r) \/ SaveHard(r) \/ SaveSoft(r)
  \/ PlanAttempt(r) \/ ScanHealth(r) \/ ScanAdaptive(r) \/ SelectTarget(r)
  \/ Simulate(r) \/ RecordHealth(r) \/ LearnOutcome(r) \/ LogDecision(r) \/ FinishChain(r)

RecordRetryOutcomeStep(r) ==
  \/ FetchUnknown(r) \/ Fetch(r) \/ ReportHealth(r) \/ ReportAdaptive(r) \/ ReportUpdate(r)

ResetStep(r) == ResetStore(r) \/ ResetHealth(r)

Serve(r) == ProcessFailureStep(r) \/ RecordRetryOutcomeStep(r) \/ ResetStep(r)

ArriveAny(r) == Submit(r) \/ Report(r) \/ Reset(r)

ClockTick == Tick /\ UNCHANGED <<storeVars, adaptiveData, localVars>>

(* All requests have been answered. *)
Quiet == (\A r \in Requests : pc[r] = "done") /\ UNCHANGED vars

Next == (\E r \in Requests : ArriveAny(r) \/ Serve(r)) \/ ClockTick \/ Quiet

Spec == Init /\ [][Next]_vars

(* The Go scheduler runs every goroutine that can run, no step of a request
   waits for another request; clients are free not to send anything. *)
FairSpec == Spec /\ \A r \in Requests : WF_vars(Serve(r))
=============================================================================

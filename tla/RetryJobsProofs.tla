---------------------------- MODULE RetryJobsProofs ----------------------------
(***************************************************************************)
(* Proofs about the requests that process many events, for every number of *)
(* batches and generator calls, of every length, and about what they leave *)
(* in the store.                                                           *)
(***************************************************************************)
EXTENDS RetryJobs, RetryOrchestratorProofs

-----------------------------------------------------------------------------
(* The types of the jobs, and how far a job and its calls have got *)

JobStages   == {"idle", "resetHealth", "next", "called", "done"}
ItemResults == Answers \cup {"invalid"}
JobCounts   == [processed : Nat, errors : Nat, hard : Nat, soft : Nat,
                recovered : Nat, exhausted : Nat, retrying : Nat]
JobRecords  == [stage : JobStages, total : Nat, results : Seq(ItemResults), count : JobCounts]

JobTypeOK == job \in [Jobs -> JobRecords]

(* A job has no more results than events, all of them when it is done, and
   none before it starts. *)
JobOK(j) ==
  LET n == Len(job[j].results)
  IN  /\ n <= job[j].total /\ job[j].total <= Len(Calls[j])
      /\ job[j].stage \in {"idle", "resetHealth"} => n = 0
      /\ job[j].stage = "called" => n < job[j].total
      /\ job[j].stage = "done" => n = job[j].total

(* Only the calls of earlier items and of the one a job is at have been made,
   and only the latter can be under way. *)
CallsOK(j) ==
  LET n == Len(job[j].results)
  IN  \A i \in DOMAIN Calls[j] :
        LET stage == pc[Calls[j][i]]
        IN  /\ stage # "idle" => i <= n \/ (job[j].stage = "called" /\ i = n + 1)
            /\ stage \notin {"idle", "done"} => job[j].stage = "called" /\ i = n + 1

(* Every call is a submission, and it is answered with a transaction whose
   chain, if it needed one, is over. *)
SubmitOK(r) ==
  /\ pc[r] # "idle" => /\ call[r] \in Submissions
                       /\ pc[r] \in {"recordFailure", "save", "done"} \cup InChain
  /\ reply[r] = "created" => /\ tx[r] \in Transactions
                             /\ IF IsHard(tx[r].event.code) THEN tx[r].status = "HARD_DECLINED"
                                ELSE tx[r].status \in {"RECOVERED", "EXHAUSTED"}

JobInv == /\ JobTypeOK
          /\ \A j \in Jobs : JobOK(j) /\ CallsOK(j)
          /\ \A r \in Requests : SubmitOK(r)

(* Which request runs which item *)

LEMMA CallsType ==
  ASSUME NEW j \in Jobs
  PROVE  /\ Len(Calls[j]) \in Nat /\ DOMAIN Calls[j] = 1..Len(Calls[j])
         /\ Calls[j] \in [1..Len(Calls[j]) -> Requests]
<1>1. Calls[j] \in Seq(Requests)
  BY JobsAssumption
<1> QED BY <1>1

(* Each runs one. *)
LEMMA CallsDistinct ==
  ASSUME NEW j \in Jobs, NEW k \in Jobs, NEW i \in DOMAIN Calls[j], NEW m \in DOMAIN Calls[k],
         Calls[j][i] = Calls[k][m]
  PROVE  j = k /\ i = m
<1>1. j = k
  BY JobsAssumption DEF CallsOf
<1>2. i = m
  <2> DEFINE n == Len(Calls[j])
  <2>1. n \in Nat /\ DOMAIN Calls[j] = 1..n /\ Calls[j] \in [1..n -> CallsOf(j)]
    BY CallsType DEF CallsOf
  <2>2. Calls[j] \in Surjection(1..n, CallsOf(j))
    BY <2>1 DEF Surjection, CallsOf
  <2>3. IsFiniteSet(1..n) /\ Cardinality(1..n) = n
    BY <2>1, FS_Interval
  <2>4. Cardinality(CallsOf(j)) = Cardinality(1..n)
    BY <2>3, JobsAssumption
  <2>5. Calls[j] \in Injection(1..n, CallsOf(j))
    BY <2>2, <2>3, <2>4, FS_SurjSameCardinalityImpliesInj
  <2> QED BY <1>1, <2>1, <2>5 DEF Injection, IsInjective
<1> QED BY <1>1, <1>2

LEMMA EveryRequestCalled ==
  ASSUME NEW r \in Requests
  PROVE  \E j \in Jobs : \E i \in DOMAIN Calls[j] : Calls[j][i] = r
<1>1. PICK j \in Jobs : r \in CallsOf(j)
  BY JobsAssumption
<1> QED BY <1>1 DEF CallsOf

(* A job calls the next of its requests. *)
LEMMA CallItemCalls ==
  ASSUME TypeInv, JobInv, NEW j \in Jobs, CallItem(j)
  PROVE  LET r == Call(j)
         IN  /\ Item(j) \in DOMAIN Calls[j] /\ r \in Requests /\ Frame(r)
             /\ Item(j) <= job[j].total
             /\ pc[r] = "idle" /\ pc'[r] = "recordFailure" /\ call'[r] \in Submissions
             /\ tx'[r] = tx[r] /\ reply'[r] = reply[r] /\ UNCHANGED sharedVars
             /\ RequestTypeOK'
             /\ job[j].stage = "next" /\ job' = [job EXCEPT ![j].stage = "called"]
             /\ j \notin Batches => /\ call'[r].event.id \in Generated
                                    /\ call'[r].event.id \notin AlreadySent(j)
<1> DEFINE r == Call(j)
<1>1. /\ job[j] \in JobRecords /\ Item(j) <= job[j].total /\ job[j].total <= Len(Calls[j])
  BY DEF CallItem, JobInv, JobTypeOK, JobOK
<1>2. Item(j) \in DOMAIN Calls[j] /\ r \in Requests
  <2>1. Len(job[j].results) \in Nat /\ job[j].total \in Nat
    BY <1>1 DEF JobRecords
  <2>2. Item(j) \in 1..Len(Calls[j])
    BY <1>1, <2>1, CallsType DEF Item
  <2> QED BY <2>2, CallsType DEF Call
<1>3. PICK id \in IF j \in Batches THEN TxnIds ELSE Generated \ AlreadySent(j),
           code \in Codes, p \in Sources, ts \in ClientTimes \cup {now} :
        /\ At(j, "next", "called")
        /\ Goto(r, "idle", "recordFailure")
        /\ call' = [call EXCEPT ![r] =
             [op |-> "submit", event |-> [id |-> id, code |-> code, processor |-> p, ts |-> ts]]]
        /\ UNCHANGED <<sharedVars, tx, attempt, scan, candidates, reply>>
  BY DEF CallItem
<1> DEFINE c == [op |-> "submit", event |-> [id |-> id, code |-> code, processor |-> p, ts |-> ts]]
<1>4. ts \in Times /\ p \in Processors /\ id \in TxnIds
  BY <1>3, NowIsTime, ConstantTypes, JobsAssumption DEF TypeInv, TypeOK
<1>5. c \in Submissions /\ c.event.id = id
  BY <1>4 DEF Submissions, Events
<1>6. /\ pc[r] = "idle" /\ pc' = [pc EXCEPT ![r] = "recordFailure"] /\ call' = [call EXCEPT ![r] = c]
      /\ UNCHANGED <<sharedVars, tx, attempt, scan, candidates, reply>>
      /\ job[j].stage = "next" /\ job' = [job EXCEPT ![j].stage = "called"]
  BY <1>3 DEF Goto, At
<1> HIDE DEF r, c
<1>7. call'[r] = c /\ pc'[r] = "recordFailure" /\ Frame(r)
  BY <1>2, <1>6 DEF TypeInv, TypeOK, RequestTypeOK, Frame
<1>8. RequestTypeOK'
  BY <1>2, <1>5, <1>6 DEF TypeInv, TypeOK, RequestTypeOK, Stages
<1>9. j \notin Batches => c.event.id \in Generated /\ c.event.id \notin AlreadySent(j)
  BY <1>5
<1> QED BY <1>1, <1>2, <1>5, <1>6, <1>7, <1>8, <1>9 DEF r

(* The steps that are not a job's own are those of the request it calls. *)
LEMMA JobsSteps ==
  ASSUME [JobsNext]_jobVars
  PROVE  \/ \E r \in Requests : Serve(r) /\ UNCHANGED job
         \/ \E j \in Jobs : CallItem(j) \/ StartGenerator(j) \/ GeneratorResetsHealth(j)
         \/ \E j \in Jobs : StartBatch(j) \/ RejectItem(j) \/ Collect(j) \/ AnswerJob(j)
         \/ UNCHANGED jobVars
BY DEF JobsNext, JobStep

LEMMA QuietJobSteps ==
  ASSUME NEW j \in Jobs, StartBatch(j) \/ RejectItem(j) \/ Collect(j) \/ AnswerJob(j)
  PROVE  UNCHANGED vars
BY DEF StartBatch, RejectItem, Collect, AnswerJob

(* A request that is served has been called, goes on being called, and keeps
   its arguments. *)
LEMMA ServeStarted ==
  ASSUME TypeInv, NEW r \in Requests, Serve(r)
  PROVE  pc[r] \notin {"idle", "done"} /\ pc'[r] # "idle" /\ call' = call
<1> USE DEF Goto, Answer, TypeInv, TypeOK, RequestTypeOK
<1>1. CASE ProcessFailureStep(r)
  <2>1. CASE RecordFailure(r) \/ RejectDuplicate(r) \/ SaveHard(r) \/ SaveSoft(r)
    BY <2>1 DEF RecordFailure, RejectDuplicate, SaveHard, SaveSoft
  <2>2. CASE PlanAttempt(r)
    BY <2>2 DEF PlanAttempt
  <2>3. CASE ScanHealth(r) \/ ScanAdaptive(r)
    BY <2>3 DEF ScanHealth, ScanAdaptive
  <2>4. CASE SelectTarget(r)
    BY <2>4, SelectTargetRoutes DEF SelectTarget
  <2>5. CASE Simulate(r) \/ LogDecision(r)
    BY <2>5 DEF Simulate, LogDecision
  <2>6. CASE RecordHealth(r) \/ LearnOutcome(r) \/ FinishChain(r)
    BY <2>6 DEF RecordHealth, LearnOutcome, FinishChain
  <2> QED BY <1>1, <2>1, <2>2, <2>3, <2>4, <2>5, <2>6 DEF ProcessFailureStep
<1>2. CASE RecordRetryOutcomeStep(r)
  BY <1>2 DEF RecordRetryOutcomeStep, FetchUnknown, Fetch, ReportHealth, ReportAdaptive, ReportUpdate
<1>3. CASE ResetStep(r)
  BY <1>3 DEF ResetStep, ResetStore, ResetHealth
<1> QED BY <1>1, <1>2, <1>3 DEF Serve

(* All calls are submissions. *)
LEMMA ServeSubmits ==
  ASSUME TypeInv, NEW r \in Requests, SubmitOK(r), Serve(r)
  PROVE  ProcessFailureStep(r)
<1>1. pc[r] \in {"recordFailure", "save"} \cup InChain
  BY ServeStarted DEF SubmitOK
<1>2. ~RecordRetryOutcomeStep(r) /\ ~ResetStep(r)
  BY <1>1
  DEF RecordRetryOutcomeStep, FetchUnknown, Fetch, ReportHealth, ReportAdaptive, ReportUpdate,
      ResetStep, ResetStore, ResetHealth, Answer, Goto, InChain
<1> QED BY <1>2 DEF Serve

-----------------------------------------------------------------------------
(* What holds of the orchestrator under any requests holds under these *)

OrchestratorInv == TypeInv /\ ChainInv /\ PathInv /\ OrderListsStore

LEMMA CallItemOrchestrator ==
  ASSUME OrchestratorInv, JobInv, NEW j \in Jobs, CallItem(j)
  PROVE  OrchestratorInv'
<1>1. PICK r \in Requests :
        /\ Frame(r) /\ RequestTypeOK'
        /\ pc[r] = "idle" /\ pc'[r] = "recordFailure" /\ call'[r] \in Submissions
        /\ tx'[r] = tx[r] /\ reply'[r] = reply[r] /\ UNCHANGED sharedVars
  BY CallItemCalls DEF OrchestratorInv
<1> USE <1>1 DEF OrchestratorInv
<1>2. StageOK(r)'
  BY DEF StageOK, InChain, Planning, Attempting, Reporting
<1>3. TypeInv'
  BY <1>2, SharedKept, StepType
<1>4. UNCHANGED <<transactions, txOrder>>
  BY DEF sharedVars
<1>5. WorkOK(r)'
  BY DEF WorkOK, InChain, Planning, Drafting, Recording, Reporting
<1>6. ChainInv'
  BY <1>4, <1>5, StoredKept, StepChain DEF ChainInv
<1>7. PathOK(r)'
  BY DEF PathInv, PathOK, Unstarted, Reporting
<1>8. PathInv'
  BY <1>7, StepPath
<1>9. OrderListsStore'
  BY <1>4, OrderKept DEF TypeInv, TypeOK, StoreWrite
<1> QED BY <1>3, <1>6, <1>8, <1>9

LEMMA GeneratorOrchestrator ==
  ASSUME OrchestratorInv, NEW j \in Jobs, StartGenerator(j) \/ GeneratorResetsHealth(j)
  PROVE  OrchestratorInv'
<1>1. UNCHANGED <<adaptiveData, localVars>> /\ (StoreReset \/ UNCHANGED storeVars)
  BY DEF StartGenerator, GeneratorResetsHealth
<1>2. HealthTypeOK'
  <2>1. CASE StartGenerator(j)
    BY <2>1, HealthKept DEF StartGenerator, OrchestratorInv, TypeInv, TypeOK
  <2>2. CASE GeneratorResetsHealth(j)
    BY <2>2, HealthResetType
    DEF GeneratorResetsHealth, OrchestratorInv, TypeInv, TypeOK, HealthTypeOK, Outcomes
  <2> QED BY <2>1, <2>2
<1>3. TypeInv'
  BY <1>1, <1>2, StoreResetType, StoreKept, AdaptiveKept, LocalKept
  DEF OrchestratorInv, TypeInv, TypeOK
<1>4. ChainInv'
  <2>1. StoredOK'
    BY <1>1, StoredKept DEF OrchestratorInv, ChainInv, StoredOK, StoreReset, Exists, storeVars
  <2>2. ASSUME NEW r \in Requests PROVE WorkOK(r)'
    BY <1>1 DEF OrchestratorInv, localVars, ChainInv, WorkOK
  <2> QED BY <2>1, <2>2 DEF ChainInv
<1>5. PathInv'
  BY <1>1 DEF OrchestratorInv, PathInv, PathOK, Submitted, localVars
<1>6. OrderListsStore'
  BY <1>1, OrderKept DEF OrchestratorInv, TypeInv, TypeOK, StoreWrite, storeVars
<1> QED BY <1>3, <1>4, <1>5, <1>6 DEF OrchestratorInv

LEMMA NextOrchestrator ==
  OrchestratorInv /\ JobInv /\ [JobsNext]_jobVars => OrchestratorInv'
<1> SUFFICES ASSUME OrchestratorInv, JobInv, [JobsNext]_jobVars PROVE OrchestratorInv'
  OBVIOUS
<1>1. ASSUME NEW r \in Requests, Serve(r) PROVE OrchestratorInv'
  <2>1. TypeInv' /\ ChainInv' /\ OrderListsStore'
    BY <1>1, ServeType, ServeChain, ServeWrites, OrderKept DEF OrchestratorInv, TypeInv, TypeOK
  <2>2. PathInv'
    BY <1>1, SubmitPath, ReportPath DEF OrchestratorInv, Serve
  <2> QED BY <2>1, <2>2 DEF OrchestratorInv
<1>2. CASE UNCHANGED vars
  <2>1. [Next]_vars
    BY <1>2
  <2> QED BY <1>2, <2>1, NextType, NextChain, NextPath, StepWrites, OrderKept
      DEF OrchestratorInv, TypeInv, TypeOK
<1>3. UNCHANGED jobVars => UNCHANGED vars
  BY DEF jobVars
<1> QED BY <1>1, <1>2, <1>3, JobsSteps, QuietJobSteps, CallItemOrchestrator, GeneratorOrchestrator

-----------------------------------------------------------------------------
(* JobInv is inductive *)

(* SaveHard answers with a hard decline, FinishChain with a chain that is
   over; the other steps do not answer with a transaction. *)
LEMMA ServeSubmitOK ==
  ASSUME OrchestratorInv, NEW r \in Requests, SubmitOK(r), Serve(r)
  PROVE  SubmitOK(r)'
<1>1. ProcessFailureStep(r)
  BY ServeSubmits DEF OrchestratorInv
<1>2. /\ pc[r] \in {"recordFailure", "save"} \cup InChain /\ call[r] \in Submissions
      /\ call' = call /\ pc'[r] # "idle" /\ reply[r] # "created"
  BY ServeStarted DEF OrchestratorInv, SubmitOK, PathInv, PathOK
<1>3. StageOK(r) /\ WorkOK(r)
  BY DEF OrchestratorInv, TypeInv, ChainInv
<1> USE DEF Goto, Answer, TypeInv, TypeOK, RequestTypeOK
<1>4. CASE SaveHard(r)
  <2> DEFINE t == NewTransaction(call[r].event, "HARD_DECLINED")
  <2>1. t \in Transactions /\ t.event = call[r].event /\ t.status = "HARD_DECLINED"
    BY <1>2, EventType, NewTransactionType DEF Statuses, NewTransaction
  <2>2. tx'[r] = t /\ IsHard(call[r].event.code) /\ pc'[r] = "done"
    BY <1>4 DEF SaveHard, OrchestratorInv
  <2> HIDE DEF t
  <2> QED BY <1>2, <2>1, <2>2 DEF SubmitOK
<1>5. CASE FinishChain(r)
  <2>1. /\ pc[r] = "update" /\ pc'[r] = "done" /\ tx'[r] = tx[r]
    BY <1>5 DEF FinishChain, OrchestratorInv
  <2>2. /\ tx[r] \in Transactions /\ ~IsHard(tx[r].event.code)
        /\ tx[r].status \in {"RECOVERED", "EXHAUSTED"}
    BY <1>3, <2>1 DEF StageOK, WorkOK, InChain
  <2> QED BY <1>2, <2>1, <2>2 DEF SubmitOK
<1>6. CASE ~SaveHard(r) /\ ~FinishChain(r)
  <2>1. pc'[r] \in {"save", "done"} \cup InChain /\ reply'[r] # "created"
    <3>1. CASE RecordFailure(r) \/ RejectDuplicate(r) \/ SaveSoft(r)
      BY <1>2, <3>1 DEF RecordFailure, RejectDuplicate, SaveSoft, InChain, OrchestratorInv
    <3>2. CASE PlanAttempt(r) \/ ScanHealth(r) \/ ScanAdaptive(r)
      BY <1>2, <3>2 DEF PlanAttempt, ScanHealth, ScanAdaptive, InChain, OrchestratorInv
    <3>3. CASE SelectTarget(r)
      BY <1>2, <3>3, SelectTargetRoutes DEF SelectTarget, InChain, OrchestratorInv
    <3>4. CASE Simulate(r) \/ LogDecision(r)
      BY <1>2, <3>4 DEF Simulate, LogDecision, InChain, OrchestratorInv
    <3>5. CASE RecordHealth(r) \/ LearnOutcome(r)
      BY <1>2, <3>5 DEF RecordHealth, LearnOutcome, InChain, OrchestratorInv
    <3> QED BY <1>1, <1>6, <3>1, <3>2, <3>3, <3>4, <3>5 DEF ProcessFailureStep
  <2> QED BY <1>2, <2>1 DEF SubmitOK
<1> QED BY <1>4, <1>5, <1>6

LEMMA OthersSubmitOK ==
  ASSUME NEW r, Frame(r), NEW q \in Requests \ {r}, SubmitOK(q)
  PROVE  SubmitOK(q)'
<1>1. pc'[q] = pc[q] /\ call'[q] = call[q] /\ tx'[q] = tx[q] /\ reply'[q] = reply[q]
  BY DEF Frame
<1> QED BY <1>1 DEF SubmitOK

LEMMA SameSubmitOK ==
  ASSUME UNCHANGED localVars, NEW q \in Requests, SubmitOK(q) PROVE SubmitOK(q)'
BY DEF SubmitOK, localVars

(* While a request is served its job waits. *)
LEMMA ServeJobs ==
  ASSUME OrchestratorInv, JobInv, NEW r \in Requests, Serve(r), UNCHANGED job
  PROVE  JobInv'
<1>1. Frame(r) /\ pc[r] \notin {"idle", "done"} /\ pc'[r] # "idle"
  BY ServeStarted, ServeFrame DEF OrchestratorInv
<1>2. ASSUME NEW q \in Requests PROVE SubmitOK(q)'
  BY <1>1, ServeSubmitOK, OthersSubmitOK DEF JobInv
<1>3. ASSUME NEW j \in Jobs PROVE JobOK(j)' /\ CallsOK(j)'
  <2>1. JobOK(j) /\ CallsOK(j)
    BY DEF JobInv
  <2>2. ASSUME NEW i \in DOMAIN Calls[j] PROVE
          /\ pc'[Calls[j][i]] # "idle" => pc[Calls[j][i]] # "idle"
          /\ pc'[Calls[j][i]] \notin {"idle", "done"} => pc[Calls[j][i]] \notin {"idle", "done"}
    <3>1. Calls[j][i] \in Requests
      BY CallsType
    <3> QED BY <1>1, <3>1 DEF Frame
  <2> QED BY <2>1, <2>2 DEF JobOK, CallsOK
<1>4. JobTypeOK'
  BY DEF JobInv, JobTypeOK
<1> QED BY <1>2, <1>3, <1>4 DEF JobInv

(* The step of one job. *)
LEMMA StepJob ==
  ASSUME JobInv, NEW j \in Jobs, NEW n \in JobRecords, job' = [job EXCEPT ![j] = n],
         JobOK(j)', \A k \in Jobs : CallsOK(k)', \A r \in Requests : SubmitOK(r)'
  PROVE  JobInv'
<1>1. JobTypeOK'
  BY DEF JobInv, JobTypeOK
<1>2. ASSUME NEW k \in Jobs \ {j} PROVE JobOK(k)'
  <2>1. job'[k] = job[k] /\ JobOK(k)
    BY DEF JobInv, JobTypeOK
  <2> QED BY <2>1 DEF JobOK
<1> QED BY <1>1, <1>2 DEF JobInv

(* If the calls stand still so may the other jobs' items. *)
LEMMA OtherCalls ==
  ASSUME JobInv, NEW j \in Jobs, NEW n \in JobRecords, job' = [job EXCEPT ![j] = n],
         UNCHANGED pc, NEW k \in Jobs \ {j}
  PROVE  CallsOK(k)'
<1>1. job'[k] = job[k] /\ CallsOK(k)
  BY DEF JobInv, JobTypeOK
<1> QED BY <1>1 DEF CallsOK

LEMMA CallItemJobs ==
  ASSUME OrchestratorInv, JobInv, NEW j \in Jobs, CallItem(j)
  PROVE  JobInv'
<1> DEFINE n == [job[j] EXCEPT !.stage = "called"]
<1>1. PICK r \in Requests, m \in DOMAIN Calls[j] :
        /\ m = Item(j) /\ r = Calls[j][m] /\ Frame(r)
        /\ Item(j) <= job[j].total
        /\ pc[r] = "idle" /\ pc'[r] = "recordFailure" /\ call'[r] \in Submissions
        /\ reply'[r] = reply[r]
        /\ job[j].stage = "next" /\ job' = [job EXCEPT ![j].stage = "called"]
  BY CallItemCalls DEF OrchestratorInv, Call
<1>2. /\ job[j] \in JobRecords /\ Len(job[j].results) \in Nat /\ job[j].total \in Nat
      /\ JobOK(j) /\ \A k \in Jobs : CallsOK(k)
  BY DEF JobInv, JobTypeOK, JobRecords
<1>3. /\ n \in JobRecords /\ n.stage = "called" /\ n.total = job[j].total
      /\ n.results = job[j].results /\ job' = [job EXCEPT ![j] = n]
  BY <1>1, <1>2 DEF JobRecords, JobStages
<1> HIDE DEF n
<1>4. job'[j] = n /\ \A k \in Jobs \ {j} : job'[k] = job[k]
  BY <1>3 DEF JobInv, JobTypeOK
<1>5. JobOK(j)'
  BY <1>1, <1>2, <1>3, <1>4 DEF JobOK, Item
<1>6. ASSUME NEW k \in Jobs PROVE CallsOK(k)'
  <2>1. ASSUME NEW i \in DOMAIN Calls[k], Calls[k][i] # r PROVE pc'[Calls[k][i]] = pc[Calls[k][i]]
    <3>1. Calls[k][i] \in Requests
      BY CallsType
    <3> QED BY <1>1, <2>1, <3>1 DEF Frame
  <2>2. ASSUME NEW i \in DOMAIN Calls[k], Calls[k][i] = r PROVE k = j /\ i = m
    BY <1>1, <2>2, CallsDistinct
  <2>3. CASE k = j
    BY <1>1, <1>2, <1>3, <1>4, <2>1, <2>2, <2>3 DEF CallsOK, Item
  <2>4. CASE k # j
    BY <1>2, <1>4, <2>1, <2>2, <2>4 DEF CallsOK
  <2> QED BY <2>3, <2>4
<1>7. ASSUME NEW q \in Requests PROVE SubmitOK(q)'
  <2>1. CASE q = r
    <3>1. reply[r] # "created"
      BY <1>1 DEF OrchestratorInv, PathInv, PathOK
    <3> QED BY <1>1, <2>1, <3>1 DEF SubmitOK
  <2>2. CASE q # r
    BY <1>1, <2>2, OthersSubmitOK DEF JobInv
  <2> QED BY <2>1, <2>2
<1> QED BY <1>3, <1>5, <1>6, <1>7, StepJob

(* The steps of a job that are none of its call. *)
LEMMA StartJobs ==
  ASSUME JobInv, NEW j \in Jobs,
         \/ StartBatch(j) \/ AnswerJob(j) \/ StartGenerator(j) \/ GeneratorResetsHealth(j)
  PROVE  JobInv'
<1>1. /\ job[j] \in JobRecords /\ Len(job[j].results) \in Nat /\ job[j].total \in Nat
      /\ JobOK(j) /\ CallsOK(j) /\ Len(Calls[j]) \in Nat
  BY CallsType DEF JobInv, JobTypeOK, JobRecords
<1>2. UNCHANGED localVars
  BY DEF StartBatch, AnswerJob, StartGenerator, GeneratorResetsHealth, vars
<1>3. PICK n \in JobRecords :
        /\ job' = [job EXCEPT ![j] = n] /\ n.results = job[j].results /\ n.stage \notin {"idle", "called"}
        /\ job[j].stage # "called"
        /\ Len(n.results) <= n.total /\ n.total <= Len(Calls[j])
        /\ n.stage = "resetHealth" => Len(n.results) = 0
        /\ n.stage = "done" => Len(n.results) = n.total
  <2>1. CASE StartBatch(j)
    <3>1. PICK total \in 1..Len(Calls[j]) :
            /\ job[j].stage = "idle"
            /\ job' = [job EXCEPT ![j].stage = "next", ![j].total = total]
      BY <2>1 DEF StartBatch
    <3> DEFINE n == [job[j] EXCEPT !.stage = "next", !.total = total]
    <3>2. total \in Nat /\ 0 <= total
      BY <1>1
    <3>3. n \in JobRecords
      BY <1>1, <3>2 DEF JobRecords, JobStages
    <3>4. /\ n.results = job[j].results /\ n.stage = "next" /\ n.total = total
          /\ job' = [job EXCEPT ![j] = n]
      BY <1>1, <3>1 DEF JobRecords
    <3> HIDE DEF n
    <3>5. Len(job[j].results) = 0
      BY <1>1, <3>1 DEF JobOK
    <3>6. Len(n.results) <= n.total /\ n.total <= Len(Calls[j])
      BY <1>1, <3>2, <3>4, <3>5
    <3> QED BY <3>1, <3>3, <3>4, <3>6
  <2>2. CASE AnswerJob(j) \/ StartGenerator(j) \/ GeneratorResetsHealth(j)
    <3>1. PICK stage \in {"done", "resetHealth", "next"} :
            /\ job' = [job EXCEPT ![j].stage = stage]
            /\ job[j].stage \in {"idle", "resetHealth", "next"}
            /\ stage = "done" => Item(j) > job[j].total
            /\ stage = "resetHealth" => job[j].stage = "idle"
      BY <2>2 DEF AnswerJob, StartGenerator, GeneratorResetsHealth, At
    <3> DEFINE n == [job[j] EXCEPT !.stage = stage]
    <3>2. n \in JobRecords
      BY <1>1, <3>1 DEF JobRecords, JobStages
    <3>3. /\ n.results = job[j].results /\ n.stage = stage /\ n.total = job[j].total
          /\ job' = [job EXCEPT ![j] = n]
      BY <1>1, <3>1 DEF JobRecords
    <3> HIDE DEF n
    <3>4. /\ Len(n.results) <= n.total /\ n.total <= Len(Calls[j])
          /\ n.stage = "resetHealth" => Len(n.results) = 0
          /\ n.stage = "done" => Len(n.results) = n.total
      BY <1>1, <3>1, <3>3 DEF JobOK, Item
    <3> QED BY <3>1, <3>2, <3>3, <3>4
  <2> QED BY <2>1, <2>2
<1>4. job'[j] = n
  BY <1>3 DEF JobInv, JobTypeOK
<1>5. JobOK(j)'
  BY <1>3, <1>4 DEF JobOK
<1>6. ASSUME NEW k \in Jobs PROVE CallsOK(k)'
  <2>1. UNCHANGED pc
    BY <1>2 DEF localVars
  <2>2. CASE k = j
    BY <1>1, <1>3, <1>4, <2>1, <2>2 DEF CallsOK
  <2> QED BY <1>3, <2>1, <2>2, OtherCalls
<1>7. ASSUME NEW r \in Requests PROVE SubmitOK(r)'
  BY <1>2, SameSubmitOK DEF JobInv
<1> QED BY <1>3, <1>5, <1>6, <1>7, StepJob

(* One more result. *)
LEMMA ResultJobs ==
  ASSUME JobInv, NEW j \in Jobs, NEW result \in ItemResults, NEW count \in JobCounts,
         UNCHANGED localVars,
         \/ job[j].stage = "next" /\ Item(j) <= job[j].total
         \/ job[j].stage = "called" /\ pc[Call(j)] = "done",
         job' = [job EXCEPT ![j] = [job[j] EXCEPT !.stage = "next",
                                                  !.results = Append(job[j].results, result),
                                                  !.count = count]]
  PROVE  JobInv' /\ job'[j].count = count /\ Len(job'[j].results) = Len(job[j].results) + 1
<1> DEFINE n == [job[j] EXCEPT !.stage = "next", !.results = Append(job[j].results, result),
                               !.count = count]
<1>1. /\ job[j] \in JobRecords /\ Len(job[j].results) \in Nat /\ job[j].total \in Nat
      /\ JobOK(j) /\ CallsOK(j) /\ Len(Calls[j]) \in Nat
      /\ job[j].results \in Seq(ItemResults)
  BY CallsType DEF JobInv, JobTypeOK, JobRecords
<1>2. /\ Append(job[j].results, result) \in Seq(ItemResults)
      /\ Len(Append(job[j].results, result)) = Len(job[j].results) + 1
  BY <1>1
<1>3. /\ n \in JobRecords /\ n.stage = "next" /\ n.total = job[j].total /\ n.count = count
      /\ Len(n.results) = Len(job[j].results) + 1
      /\ job' = [job EXCEPT ![j] = n]
  BY <1>1, <1>2 DEF JobRecords, JobStages
<1> HIDE DEF n
<1>4. job'[j] = n
  BY <1>3 DEF JobInv, JobTypeOK
<1>5. JobOK(j)'
  BY <1>1, <1>3, <1>4 DEF JobOK, Item
<1>6. UNCHANGED pc
  BY DEF localVars
<1>7. CallsOK(j)'
  <2>1. ASSUME NEW i \in DOMAIN Calls[j]
        PROVE  /\ pc[Calls[j][i]] # "idle" => i <= Len(job[j].results) + 1
               /\ pc[Calls[j][i]] \in {"idle", "done"}
    BY <1>1, CallsType DEF CallsOK, Call, Item
  <2> QED BY <1>3, <1>4, <1>6, <2>1 DEF CallsOK
<1>8. ASSUME NEW k \in Jobs PROVE CallsOK(k)'
  BY <1>3, <1>6, <1>7, OtherCalls
<1>9. ASSUME NEW r \in Requests PROVE SubmitOK(r)'
  BY SameSubmitOK DEF JobInv
<1> QED BY <1>3, <1>4, <1>5, <1>8, <1>9, StepJob

-----------------------------------------------------------------------------
(* The counts of an answer *)

(* Every result so far is counted as an error or as processed, and every
   processed one by the way it ended. *)
Balanced(c, n) ==
  /\ c.processed + c.errors = n
  /\ c.hard + c.soft = c.processed
  /\ c.recovered + c.exhausted = c.soft /\ c.retrying = 0

CountsInv == \A j \in Jobs : Balanced(job[j].count, Len(job[j].results))

LEMMA FailedCounts ==
  ASSUME NEW c \in JobCounts, NEW n \in Nat, Balanced(c, n)
  PROVE  Failed(c) \in JobCounts /\ Balanced(Failed(c), n + 1)
BY DEF JobCounts, Failed, Balanced

LEMMA ProcessedCounts ==
  ASSUME NEW c \in JobCounts, NEW n \in Nat, Balanced(c, n), NEW t,
         IF IsHard(t.event.code) THEN t.status = "HARD_DECLINED"
         ELSE t.status \in {"RECOVERED", "EXHAUSTED"}
  PROVE  Processed(c, t) \in JobCounts /\ Balanced(Processed(c, t), n + 1)
<1> DEFINE h == IF IsHard(t.event.code) THEN c.hard + 1 ELSE c.hard
           s == IF IsHard(t.event.code) THEN c.soft ELSE c.soft + 1
           v == IF t.status = "RECOVERED" THEN c.recovered + 1 ELSE c.recovered
           e == IF t.status = "EXHAUSTED" THEN c.exhausted + 1 ELSE c.exhausted
           d == Processed(c, t)
<1>1. d = [c EXCEPT !.processed = @ + 1, !.hard = h, !.soft = s, !.recovered = v, !.exhausted = e,
                    !.retrying = IF t.status = "RETRYING" THEN @ + 1 ELSE @]
  BY DEF Processed, JobCounts
<1>2. t.status # "RETRYING"
  OBVIOUS
<1>3. /\ h \in Nat /\ s \in Nat /\ v \in Nat /\ e \in Nat
      /\ h + s = c.hard + c.soft + 1 /\ v + e - s = c.recovered + c.exhausted - c.soft
  <2>1. c.hard \in Nat /\ c.soft \in Nat /\ c.recovered \in Nat /\ c.exhausted \in Nat
    BY DEF JobCounts
  <2>2. CASE IsHard(t.event.code)
    BY <2>1, <2>2
  <2>3. CASE ~IsHard(t.event.code)
    BY <2>1, <2>3
  <2> QED BY <2>2, <2>3
<1> HIDE DEF h, s, v, e, d
<1>4. d = [c EXCEPT !.processed = c.processed + 1, !.hard = h, !.soft = s, !.recovered = v,
                    !.exhausted = e, !.retrying = c.retrying]
  BY <1>1, <1>2 DEF JobCounts
<1>5. c.processed + 1 \in Nat /\ c.retrying \in Nat
  BY DEF JobCounts
<1>6. d \in JobCounts
  BY <1>3, <1>4, <1>5 DEF JobCounts
<1>7. /\ d.processed = c.processed + 1 /\ d.errors = c.errors /\ d.hard = h /\ d.soft = s
      /\ d.recovered = v /\ d.exhausted = e /\ d.retrying = c.retrying
  BY <1>4 DEF JobCounts
<1>8. Balanced(d, n + 1)
  BY <1>3, <1>7 DEF JobCounts, Balanced
<1> QED BY <1>6, <1>8 DEF d

(* An item is done. *)
LEMMA ItemJobs ==
  ASSUME OrchestratorInv, JobInv, CountsInv, NEW j \in Jobs, RejectItem(j) \/ Collect(j)
  PROVE  JobInv' /\ CountsInv'
<1>1. /\ job[j] \in JobRecords /\ job[j].count \in JobCounts /\ Len(job[j].results) \in Nat
      /\ JobOK(j) /\ Balanced(job[j].count, Len(job[j].results))
  BY DEF JobInv, JobTypeOK, JobRecords, CountsInv
<1>2. PICK result \in ItemResults, count \in JobCounts :
        /\ Balanced(count, Len(job[j].results) + 1)
        /\ \/ job[j].stage = "next" /\ Item(j) <= job[j].total
           \/ job[j].stage = "called" /\ pc[Call(j)] = "done"
        /\ job' = [job EXCEPT ![j] = [job[j] EXCEPT !.stage = "next",
                                                    !.results = Append(job[j].results, result),
                                                    !.count = count]]
  <2>1. CASE RejectItem(j)
    <3>1. Failed(job[j].count) \in JobCounts
          /\ Balanced(Failed(job[j].count), Len(job[j].results) + 1)
      BY <1>1, FailedCounts
    <3>2. job' = [job EXCEPT ![j] = [job[j] EXCEPT !.stage = "next",
                                                   !.results = Append(job[j].results, "invalid"),
                                                   !.count = Failed(job[j].count)]]
      BY <1>1, <2>1 DEF RejectItem, JobRecords
    <3>3. job[j].stage = "next" /\ Item(j) <= job[j].total /\ "invalid" \in ItemResults
      BY <2>1 DEF RejectItem, ItemResults
    <3> QED BY <3>1, <3>2, <3>3
  <2>2. CASE Collect(j)
    <3>1. job[j].stage = "called" /\ pc[Call(j)] = "done"
      BY <2>2 DEF Collect
    <3>2. PICK r \in Requests : r = Call(j)
      <4>1. Item(j) \in 1..Len(Calls[j])
        BY <1>1, <3>1, CallsType DEF JobOK, Item, JobRecords
      <4> QED BY <4>1, CallsType DEF Call
    <3>3. reply[r] = "created" => IF IsHard(tx[r].event.code) THEN tx[r].status = "HARD_DECLINED"
                                  ELSE tx[r].status \in {"RECOVERED", "EXHAUSTED"}
      BY DEF JobInv, SubmitOK
    <3> DEFINE count == IF reply[r] = "created" THEN Processed(job[j].count, tx[r])
                        ELSE Failed(job[j].count)
    <3>4. count \in JobCounts /\ Balanced(count, Len(job[j].results) + 1)
      BY <1>1, <3>3, ProcessedCounts, FailedCounts
    <3>5. job' = [job EXCEPT ![j] = [job[j] EXCEPT !.stage = "next",
                                                   !.results = Append(job[j].results, reply[r]),
                                                   !.count = count]]
      BY <1>1, <2>2, <3>2 DEF Collect, JobRecords
    <3> HIDE DEF count
    <3>6. reply[r] \in ItemResults
      BY DEF ItemResults, OrchestratorInv, TypeInv, TypeOK, RequestTypeOK
    <3> QED BY <3>1, <3>2, <3>4, <3>5, <3>6
  <2> QED BY <2>1, <2>2
<1>3. UNCHANGED localVars
  BY DEF RejectItem, Collect, vars
<1>4. JobInv' /\ job'[j].count = count /\ Len(job'[j].results) = Len(job[j].results) + 1
  BY <1>2, <1>3, ResultJobs
<1>5. \A k \in Jobs \ {j} : job'[k] = job[k]
  BY <1>2 DEF JobInv, JobTypeOK
<1> QED BY <1>2, <1>4, <1>5 DEF CountsInv

(* Neither arriving nor starting counts anything. *)
LEMMA CountsKept ==
  ASSUME CountsInv, \A j \in Jobs : job'[j].count = job[j].count /\ job'[j].results = job[j].results
  PROVE  CountsInv'
BY DEF CountsInv

LEMMA InitJobs == JobsInit => OrchestratorInv /\ JobInv /\ CountsInv
<1> SUFFICES ASSUME JobsInit PROVE OrchestratorInv /\ JobInv /\ CountsInv
  OBVIOUS
<1>1. Init
  BY DEF JobsInit
<1>2. OrchestratorInv
  BY <1>1, InitType, InitChain, InitPath
  DEF OrchestratorInv, Init, StoreInit, OrderListsStore, Exists
<1>3. ASSUME NEW j \in Jobs
      PROVE  /\ job[j] = [stage |-> "idle", total |-> Len(Calls[j]), results |-> <<>>,
                          count |-> NothingCounted]
             /\ job[j] \in JobRecords
             /\ Len(job[j].results) = 0 /\ Len(Calls[j]) \in Nat
  BY CallsType DEF JobsInit, JobRecords, JobStages, JobCounts, NothingCounted
<1>4. JobTypeOK
  BY <1>3 DEF JobsInit, JobTypeOK
<1>5. ASSUME NEW j \in Jobs PROVE JobOK(j) /\ Balanced(job[j].count, Len(job[j].results))
  <2>1. /\ job[j] = [stage |-> "idle", total |-> Len(Calls[j]), results |-> <<>>,
                      count |-> NothingCounted]
        /\ Len(job[j].results) = 0 /\ Len(Calls[j]) \in Nat
    BY <1>3
  <2>2. job[j].stage = "idle" /\ job[j].total = Len(Calls[j]) /\ job[j].count = NothingCounted
    BY <2>1
  <2> QED BY <2>1, <2>2 DEF JobOK, Balanced, NothingCounted
<1>6. \A j \in Jobs : CallsOK(j)
  BY <1>1, CallsType DEF Init, CallsOK
<1>7. \A r \in Requests : SubmitOK(r)
  BY <1>1 DEF Init, SubmitOK
<1> QED BY <1>2, <1>4, <1>5, <1>6, <1>7 DEF JobInv, CountsInv

LEMMA NextJobInv ==
  OrchestratorInv /\ JobInv /\ CountsInv /\ [JobsNext]_jobVars => JobInv' /\ CountsInv'
<1> SUFFICES ASSUME OrchestratorInv, JobInv, CountsInv, [JobsNext]_jobVars
             PROVE  JobInv' /\ CountsInv'
  OBVIOUS
<1>1. ASSUME NEW r \in Requests, Serve(r), UNCHANGED job PROVE JobInv' /\ CountsInv'
  BY <1>1, ServeJobs, CountsKept
<1>2. ASSUME NEW j \in Jobs, CallItem(j) \/ StartGenerator(j) \/ GeneratorResetsHealth(j)
                             \/ StartBatch(j) \/ AnswerJob(j)
      PROVE  JobInv' /\ CountsInv'
  <2>1. JobInv'
    BY <1>2, CallItemJobs, StartJobs
  <2>2. \A k \in Jobs : job'[k].count = job[k].count /\ job'[k].results = job[k].results
    <3>1. job \in [Jobs -> JobRecords]
      BY DEF JobInv, JobTypeOK
    <3>2. CASE StartBatch(j)
      BY <3>1, <3>2 DEF StartBatch, JobRecords
    <3>3. CASE \E to : job' = [job EXCEPT ![j].stage = to]
      BY <3>1, <3>3 DEF JobRecords
    <3> QED BY <1>2, <3>2, <3>3 DEF CallItem, StartGenerator, GeneratorResetsHealth, AnswerJob, At
  <2> QED BY <2>1, <2>2, CountsKept
<1>3. CASE UNCHANGED jobVars
  <2>1. UNCHANGED job /\ UNCHANGED localVars
    BY <1>3 DEF jobVars, vars
  <2>2. \A r \in Requests : SubmitOK(r)'
    BY <2>1, SameSubmitOK DEF JobInv
  <2>3. \A j \in Jobs : JobOK(j)' /\ CallsOK(j)'
    BY <2>1 DEF JobInv, JobOK, CallsOK, localVars
  <2> QED BY <2>1, <2>2, <2>3, CountsKept DEF JobInv, JobTypeOK
<1> QED BY <1>1, <1>2, <1>3, ItemJobs, JobsSteps

(* These three are inductive together. *)
THEOREM JobInvariant == JobsSpec => [](OrchestratorInv /\ JobInv /\ CountsInv)
BY InitJobs, NextOrchestrator, NextJobInv, PTL DEF JobsSpec

(* The answer to a batch accounts for every event of it, also for the invalid
   ones and the duplicates (submitBatch), and so does the generator's. *)
THEOREM AnswersAccount == JobsSpec => []AnswersAddUp
<1>1. JobInv /\ CountsInv => AnswersAddUp
  BY DEF JobInv, JobOK, CountsInv, Balanced, AnswersAddUp
<1> QED BY <1>1, JobInvariant, PTL

-----------------------------------------------------------------------------
(* What the generator leaves in the store *)

(* A transaction is shown as retrying only as long as its chain runs. *)
RetryingInv ==
  \A id \in TxnIds : Exists(id) /\ transactions[id].status = "RETRYING" =>
    \E r \in Requests : pc[r] \in InChain /\ call[r].event.id = id

(* What a generator call has sent so far are different ones of its events. *)
SentOK(g) ==
  /\ job[g].total = Len(Calls[g])
  /\ \A i \in 1..Len(job[g].results) : pc[Calls[g][i]] = "done"
  /\ \A i \in DOMAIN Calls[g] : pc[Calls[g][i]] # "idle" =>
       /\ call[Calls[g][i]].event.id \in Generated
       /\ \A m \in DOMAIN Calls[g] :
            pc[Calls[g][m]] # "idle" /\ call[Calls[g][m]].event.id = call[Calls[g][i]].event.id => m = i

(* What a generator call has sent and SaveTransaction has seen is stored. *)
Kept(g) ==
  /\ job[g].stage # "idle"
  /\ \A i \in DOMAIN Calls[g] : pc[Calls[g][i]] \in InChain \cup {"done"} =>
       Exists(call[Calls[g][i]].event.id)

(* So it is for the call that has reset the store last. *)
LastKept == (\E g \in Generators : job[g].stage # "idle") => \E g \in Generators : Kept(g)

GeneratedInv == RetryingInv /\ LastKept /\ \A g \in Generators : SentOK(g)

(* What a submission may do to the store: insert its transaction, which is
   retrying only if its chain begins, or update it when its chain is over. *)
LEMMA SubmitWrites ==
  ASSUME OrchestratorInv, NEW r \in Requests, SubmitOK(r), Serve(r)
  PROVE  LET id == call[r].event.id
         IN  /\ id \in TxnIds
             /\ \/ /\ UNCHANGED transactions
                   /\ \/ pc[r] \in InChain /\ pc'[r] \in InChain
                      \/ pc[r] = "recordFailure" /\ pc'[r] = "save"
                      \/ pc[r] = "save" /\ pc'[r] = "done" /\ Exists(id)
                      \/ pc[r] = "update" /\ ~Exists(id)
                \/ \E t \in Transactions :
                     /\ transactions' = [transactions EXCEPT ![id] = t]
                     /\ \/ pc[r] = "save" /\ (t.status # "RETRYING" \/ pc'[r] \in InChain)
                        \/ pc[r] = "update" /\ t.status # "RETRYING"
<1>1. ProcessFailureStep(r)
  BY ServeSubmits DEF OrchestratorInv
<1>2. call[r] \in Submissions /\ call[r].event.id \in TxnIds
  BY ServeStarted, EventType DEF OrchestratorInv, SubmitOK
<1>3. StageOK(r) /\ WorkOK(r)
  BY DEF OrchestratorInv, TypeInv, ChainInv
<1> USE DEF Goto, Answer, TypeInv, TypeOK, RequestTypeOK
<1>4. CASE RecordFailure(r) \/ RejectDuplicate(r)
  BY <1>2, <1>4 DEF RecordFailure, RejectDuplicate, sharedVars, storeVars, OrchestratorInv
<1>5. CASE SaveHard(r)
  <2>1. NewTransaction(call[r].event, "HARD_DECLINED") \in Transactions
        /\ NewTransaction(call[r].event, "HARD_DECLINED").status = "HARD_DECLINED"
    BY <1>2, EventType, NewTransactionType DEF Statuses, NewTransaction
  <2> QED BY <1>2, <1>5, <2>1 DEF SaveHard, SaveTransaction, OrchestratorInv
<1>6. CASE SaveSoft(r)
  <2>1. NewTransaction(call[r].event, "RETRYING") \in Transactions
    BY <1>2, EventType, NewTransactionType DEF Statuses
  <2> QED BY <1>2, <1>6, <2>1 DEF SaveSoft, SaveTransaction, OrchestratorInv, InChain
<1>7. CASE \/ PlanAttempt(r) \/ ScanHealth(r) \/ ScanAdaptive(r) \/ SelectTarget(r)
           \/ Simulate(r) \/ RecordHealth(r) \/ LearnOutcome(r) \/ LogDecision(r)
  <2>1. UNCHANGED transactions
    BY <1>7
    DEF PlanAttempt, ScanHealth, ScanAdaptive, SelectTarget, Simulate, RecordHealth, LearnOutcome,
        LogDecision, SaveDecisionLog, sharedVars, storeVars
  <2>2. pc[r] \in InChain /\ pc'[r] \in InChain
    BY <1>7, SelectTargetRoutes
    DEF PlanAttempt, ScanHealth, ScanAdaptive, SelectTarget, Simulate, RecordHealth, LearnOutcome,
        LogDecision, InChain, OrchestratorInv
  <2> QED BY <1>2, <2>1, <2>2
<1>8. CASE FinishChain(r)
  <2>1. /\ tx[r] \in Transactions /\ tx[r].event = call[r].event /\ tx[r].status # "RETRYING"
        /\ pc[r] = "update"
    BY <1>3, <1>8 DEF FinishChain, StageOK, WorkOK, InChain
  <2>2. transactions' = IF Exists(call[r].event.id)
                          THEN [transactions EXCEPT ![call[r].event.id] = tx[r]] ELSE transactions
    BY <1>8, <2>1 DEF FinishChain, UpdateTransaction
  <2> QED BY <1>2, <2>1, <2>2
<1> QED BY <1>1, <1>4, <1>5, <1>6, <1>7, <1>8 DEF ProcessFailureStep

(* It removes nothing. *)
LEMMA SubmitKeeps ==
  ASSUME OrchestratorInv, NEW r \in Requests, SubmitOK(r), Serve(r),
         NEW id \in TxnIds, Exists(id)
  PROVE  Exists(id)'
<1>1. transactions \in [TxnIds -> Transactions \cup {Nil}]
  BY DEF OrchestratorInv, TypeInv, TypeOK, StoreTypeOK
<1> QED BY <1>1, SubmitWrites, NilAssumption DEF Exists

LEMMA ServeRetrying ==
  ASSUME OrchestratorInv, RetryingInv, NEW r \in Requests, SubmitOK(r), Serve(r)
  PROVE  RetryingInv'
<1>1. /\ Frame(r) /\ call' = call /\ transactions \in [TxnIds -> Transactions \cup {Nil}]
  BY ServeStarted, ServeFrame DEF OrchestratorInv, TypeInv, TypeOK, StoreTypeOK
<1>2. PICK own \in TxnIds : own = call[r].event.id
  BY SubmitWrites
<1>3. ASSUME NEW id \in TxnIds, Exists(id)', transactions'[id].status = "RETRYING"
      PROVE  \E q \in Requests : pc'[q] \in InChain /\ call'[q].event.id = id
  <2>1. CASE id = own /\ pc'[r] \in InChain
    BY <1>1, <1>2, <2>1
  <2>2. CASE id # own \/ pc'[r] \notin InChain
    <3>1. transactions'[id] = transactions[id]
      BY <1>1, <1>2, <1>3, <2>2, SubmitWrites
    <3>2. PICK q \in Requests : pc[q] \in InChain /\ call[q].event.id = id
      BY <1>3, <3>1 DEF RetryingInv, Exists
    <3>3. CASE q = r
      <4>1. pc[r] = "update" /\ ~Exists(id)
        BY <1>1, <1>2, <1>3, <2>2, <3>2, <3>3, SubmitWrites DEF InChain
      <4> QED BY <1>3, <3>1, <4>1 DEF Exists
    <3>4. CASE q # r
      BY <1>1, <3>2, <3>4 DEF Frame
    <3> QED BY <3>3, <3>4
  <2> QED BY <2>1, <2>2
<1> QED BY <1>3 DEF RetryingInv, Exists

(* Two calls of a generator have different requests. *)
LEMMA GeneratorType ==
  ASSUME NEW g \in Generators
  PROVE  /\ g \in Jobs /\ g \notin Batches
         /\ Len(Calls[g]) \in Nat /\ DOMAIN Calls[g] = 1..Len(Calls[g])
         /\ \A i \in DOMAIN Calls[g] : Calls[g][i] \in Requests
<1>1. g \in Jobs /\ g \notin Batches
  BY JobsAssumption DEF Jobs
<1> QED BY <1>1, CallsType

(* A step that keeps the calls and the store, and takes no generator out of
   the idle state. *)
LEMMA KeptStays ==
  ASSUME LastKept,
         \A g \in Generators : job'[g].stage # "idle" <=> job[g].stage # "idle",
         \A g \in Generators : \A i \in DOMAIN Calls[g] :
           pc'[Calls[g][i]] \in InChain \cup {"done"} /\ Kept(g) => Exists(call[Calls[g][i]].event.id)'
  PROVE  LastKept'
<1>1. ASSUME NEW g \in Generators, Kept(g) PROVE Kept(g)'
  BY <1>1 DEF Kept
<1> QED BY <1>1 DEF LastKept

LEMMA ServeGenerated ==
  ASSUME OrchestratorInv, JobInv, GeneratedInv, NEW r \in Requests, Serve(r), UNCHANGED job
  PROVE  GeneratedInv'
<1>1. /\ Frame(r) /\ call' = call /\ SubmitOK(r)
      /\ pc[r] \notin {"idle", "done"} /\ pc'[r] # "idle"
      /\ transactions \in [TxnIds -> Transactions \cup {Nil}]
  BY ServeStarted, ServeFrame DEF OrchestratorInv, JobInv, TypeInv, TypeOK, StoreTypeOK
<1>2. RetryingInv'
  BY <1>1, ServeRetrying DEF GeneratedInv
<1>3. ASSUME NEW q \in Requests
      PROVE  /\ pc'[q] # "idle" <=> pc[q] # "idle"
             /\ pc[q] = "done" => pc'[q] = "done"
  BY <1>1 DEF Frame
<1>4. ASSUME NEW g \in Generators PROVE SentOK(g)'
  <2>1. SentOK(g)
    BY DEF GeneratedInv
  <2>2. 1..Len(job[g].results) \subseteq DOMAIN Calls[g]
    BY GeneratorType DEF JobInv, JobTypeOK, JobRecords, JobOK
  <2> QED BY <1>1, <1>3, <2>1, <2>2, GeneratorType DEF SentOK
<1>5. ASSUME NEW g \in Generators, NEW i \in DOMAIN Calls[g],
             pc'[Calls[g][i]] \in InChain \cup {"done"}, Kept(g)
      PROVE  Exists(call[Calls[g][i]].event.id)'
  <2> DEFINE id == call[Calls[g][i]].event.id
  <2>1. PICK q \in Requests : q = Calls[g][i]
    BY GeneratorType
  <2>2. PICK own \in TxnIds : own = call[q].event.id
    <3>1. pc[q] # "idle" /\ SubmitOK(q)
      BY <1>3, <1>5, <2>1 DEF JobInv, InChain
    <3> QED BY <3>1, EventType DEF SubmitOK
  <2>3. CASE pc[q] \in InChain \cup {"done"}
    <3>1. Exists(own)
      BY <1>5, <2>1, <2>2, <2>3 DEF Kept
    <3>2. Exists(own)'
      BY <1>1, <3>1, SubmitKeeps
    <3> QED BY <1>1, <2>1, <2>2, <3>2 DEF Exists
  <2>4. CASE pc[q] \notin InChain \cup {"done"}
    <3>1. q = r
      BY <1>1, <1>5, <2>1, <2>4 DEF Frame
    <3>2. transactions'[own] # Nil
      BY <1>1, <1>5, <2>1, <2>2, <2>4, <3>1, SubmitWrites, NilAssumption DEF InChain, Exists
    <3> QED BY <1>1, <2>1, <2>2, <3>2 DEF Exists
  <2> QED BY <2>3, <2>4
<1>6. LastKept'
  BY <1>5, KeptStays DEF GeneratedInv
<1> QED BY <1>2, <1>4, <1>6 DEF GeneratedInv

LEMMA CallItemGenerated ==
  ASSUME OrchestratorInv, JobInv, GeneratedInv, NEW j \in Jobs, CallItem(j)
  PROVE  GeneratedInv'
<1>1. PICK r \in Requests, m \in DOMAIN Calls[j] :
        /\ m = Item(j) /\ r = Calls[j][m] /\ Frame(r)
        /\ pc[r] = "idle" /\ pc'[r] = "recordFailure" /\ UNCHANGED sharedVars
        /\ job[j].stage = "next" /\ job' = [job EXCEPT ![j].stage = "called"]
        /\ j \notin Batches => /\ call'[r].event.id \in Generated
                               /\ call'[r].event.id \notin AlreadySent(j)
  BY CallItemCalls DEF OrchestratorInv, Call
<1>2. /\ job \in [Jobs -> JobRecords] /\ CallsOK(j) /\ Len(job[j].results) \in Nat
      /\ DOMAIN job[j].results = 1..Len(job[j].results)
  BY DEF JobInv, JobTypeOK, JobRecords
<1>3. ASSUME NEW k \in Jobs
      PROVE  /\ job'[k].results = job[k].results /\ job'[k].total = job[k].total
             /\ job'[k].stage # "idle" <=> job[k].stage # "idle"
  BY <1>1, <1>2 DEF JobRecords
<1>4. ASSUME NEW q \in Requests \ {r} PROVE pc'[q] = pc[q] /\ call'[q] = call[q]
  BY <1>1 DEF Frame
<1>5. UNCHANGED transactions
  BY <1>1 DEF sharedVars
<1>6. RetryingInv'
  BY <1>1, <1>4, <1>5 DEF GeneratedInv, RetryingInv, Exists, InChain
<1>7. ASSUME NEW g \in Generators, NEW i \in DOMAIN Calls[g],
             pc'[Calls[g][i]] \in InChain \cup {"done"}, Kept(g)
      PROVE  Exists(call[Calls[g][i]].event.id)'
  <2>1. Calls[g][i] \in Requests \ {r}
    BY <1>1, <1>7, GeneratorType DEF InChain
  <2> QED BY <1>4, <1>5, <1>7, <2>1 DEF Kept, Exists
<1>8. LastKept'
  BY <1>3, <1>7, KeptStays, GeneratorType DEF GeneratedInv
<1>9. ASSUME NEW g \in Generators PROVE SentOK(g)'
  <2>1. SentOK(g) /\ g \in Jobs
    BY GeneratorType DEF GeneratedInv
  <2>2. 1..Len(job[g].results) \subseteq DOMAIN Calls[g]
    BY GeneratorType DEF JobInv, JobTypeOK, JobRecords, JobOK
  <2>3. CASE g # j
    <3>1. \A i \in DOMAIN Calls[g] : Calls[g][i] \in Requests \ {r}
      BY <1>1, <2>1, <2>3, CallsDistinct, GeneratorType
    <3> QED BY <1>3, <1>4, <2>1, <2>2, <3>1 DEF SentOK
  <2>4. CASE g = j
    <3>1. \A i \in DOMAIN Calls[g] \ {m} : Calls[g][i] \in Requests \ {r}
      BY <1>1, <2>1, <2>4, CallsDistinct, GeneratorType
    <3>2. \A i \in DOMAIN Calls[g] : pc[Calls[g][i]] # "idle" => i <= Len(job[g].results)
      BY <1>1, <2>4 DEF JobInv, CallsOK
    <3>3. ASSUME NEW i \in DOMAIN Calls[g] \ {m}, pc[Calls[g][i]] # "idle"
          PROVE  call[Calls[g][i]].event.id # call'[r].event.id
      <4>1. i \in DOMAIN job[j].results
        BY <1>2, <2>4, <3>2, <3>3, GeneratorType
      <4>2. call[Calls[j][i]].event.id \in AlreadySent(j)
        BY <4>1 DEF AlreadySent
      <4> QED BY <1>1, <2>4, <4>2, GeneratorType
    <3>4. m \notin 1..Len(job[g].results)
      BY <1>1, <1>2, <2>4 DEF Item
    <3>5. ASSUME NEW i \in 1..Len(job[g].results) PROVE pc'[Calls[g][i]] = "done"
      BY <1>4, <2>1, <2>2, <3>1, <3>4 DEF SentOK
    <3>6. ASSUME NEW i \in DOMAIN Calls[g], pc'[Calls[g][i]] # "idle"
          PROVE  /\ call'[Calls[g][i]].event.id \in Generated
                 /\ \A n \in DOMAIN Calls[g] :
                      pc'[Calls[g][n]] # "idle"
                        /\ call'[Calls[g][n]].event.id = call'[Calls[g][i]].event.id => n = i
      <4>1. CASE i = m
        BY <1>1, <1>4, <2>4, <3>1, <3>3, <4>1, GeneratorType
      <4>2. CASE i # m
        BY <1>1, <1>4, <2>1, <2>4, <3>1, <3>3, <3>6, <4>2 DEF SentOK
      <4> QED BY <4>1, <4>2
    <3> QED BY <1>3, <2>1, <3>5, <3>6 DEF SentOK
  <2> QED BY <2>3, <2>4
<1> QED BY <1>6, <1>8, <1>9 DEF GeneratedInv

LEMMA ResetGenerated ==
  ASSUME JobInv, GeneratedInv, NEW j \in Jobs, StartGenerator(j)
  PROVE  GeneratedInv'
<1>1. /\ j \in Generators /\ StoreReset /\ UNCHANGED localVars
      /\ job[j].stage = "idle" /\ job' = [job EXCEPT ![j].stage = "resetHealth"]
  BY DEF StartGenerator, At
<1>2. job \in [Jobs -> JobRecords]
  BY DEF JobInv, JobTypeOK
<1>3. ASSUME NEW k \in Jobs PROVE job'[k].results = job[k].results /\ job'[k].total = job[k].total
  BY <1>1, <1>2 DEF JobRecords
<1>4. RetryingInv'
  BY <1>1 DEF StoreReset, RetryingInv, Exists
<1>5. ASSUME NEW g \in Generators PROVE SentOK(g)'
  BY <1>1, <1>3, GeneratorType DEF GeneratedInv, SentOK, localVars
<1>6. Kept(j)'
  <2>1. job'[j].stage = "resetHealth"
    BY <1>1, <1>2 DEF JobRecords
  <2>2. ASSUME NEW i \in DOMAIN Calls[j] PROVE pc'[Calls[j][i]] = "idle"
    <3>1. Len(job[j].results) = 0
      BY <1>1 DEF JobInv, JobOK
    <3> QED BY <1>1, <3>1, GeneratorType DEF JobInv, CallsOK, localVars
  <2> QED BY <2>1, <2>2 DEF Kept, InChain
<1> QED BY <1>1, <1>4, <1>5, <1>6 DEF GeneratedInv, LastKept

(* Steps that touch neither the store's transactions nor a call. *)
LEMMA SameCallsGenerated ==
  ASSUME GeneratedInv, UNCHANGED <<transactions, localVars>>,
         \A g \in Generators : job'[g].stage # "idle" <=> job[g].stage # "idle",
         \A g \in Generators : SentOK(g)'
  PROVE  GeneratedInv'
<1>1. RetryingInv'
  BY DEF GeneratedInv, RetryingInv, Exists, localVars
<1>2. LastKept'
  BY KeptStays DEF GeneratedInv, Kept, Exists, localVars
<1> QED BY <1>1, <1>2 DEF GeneratedInv

LEMMA OtherJobGenerated ==
  ASSUME OrchestratorInv, JobInv, GeneratedInv, NEW j \in Jobs,
         \/ GeneratorResetsHealth(j) \/ StartBatch(j) \/ RejectItem(j) \/ Collect(j) \/ AnswerJob(j)
  PROVE  GeneratedInv'
<1>1. UNCHANGED <<transactions, localVars>>
  BY DEF GeneratorResetsHealth, StartBatch, RejectItem, Collect, AnswerJob, vars, sharedVars,
         storeVars
<1>2. job \in [Jobs -> JobRecords]
  BY DEF JobInv, JobTypeOK
<1>3. ASSUME NEW g \in Generators
      PROVE (job'[g].stage # "idle" <=> job[g].stage # "idle") /\ SentOK(g)'
  <2>1. SentOK(g) /\ g \in Jobs /\ g \notin Batches
    BY GeneratorType DEF GeneratedInv
  <2>2. CASE job'[g] = job[g]
    BY <1>1, <2>1, <2>2 DEF SentOK, localVars
  <2>3. CASE job'[g] # job[g]
    <3>1. g = j
      BY <1>2, <2>1, <2>3 DEF GeneratorResetsHealth, StartBatch, RejectItem, Collect, AnswerJob, At
    <3>2. CASE GeneratorResetsHealth(j) \/ AnswerJob(j)
      <4>1. /\ job'[g].results = job[g].results /\ job'[g].total = job[g].total
            /\ job'[g].stage # "idle" /\ job[g].stage # "idle"
        BY <1>2, <2>1, <3>1, <3>2 DEF GeneratorResetsHealth, AnswerJob, At, JobRecords
      <4> QED BY <1>1, <2>1, <4>1 DEF SentOK, localVars
    <3>3. CASE Collect(j)
      <4> DEFINE n == Len(job[g].results)
      <4>1. /\ job'[g].total = job[g].total /\ job'[g].stage # "idle" /\ job[g].stage # "idle"
            /\ Len(job'[g].results) = n + 1 /\ n \in Nat /\ pc[Calls[g][n + 1]] = "done"
        <5>1. job[g] \in JobRecords /\ job[g].results \in Seq(ItemResults) /\ n \in Nat
          BY <1>2, <2>1 DEF JobRecords
        <5>2. /\ job'[g].total = job[g].total /\ job'[g].stage = "next"
              /\ job'[g].results = Append(job[g].results, reply[Call(g)])
          BY <1>2, <2>1, <3>1, <3>3, <5>1 DEF Collect, JobRecords
        <5>3. job[g].stage = "called" /\ pc[Calls[g][n + 1]] = "done"
          BY <3>1, <3>3 DEF Collect, Call, Item
        <5> QED BY <5>1, <5>2, <5>3
      <4>2. ASSUME NEW i \in 1..n+1 PROVE pc[Calls[g][i]] = "done"
        BY <2>1, <4>1 DEF SentOK
      <4> HIDE DEF n
      <4> QED BY <1>1, <2>1, <4>1, <4>2 DEF SentOK, localVars
    <3>4. ~StartBatch(j) /\ ~RejectItem(j)
      BY <2>1, <3>1 DEF StartBatch, RejectItem
    <3> QED BY <3>2, <3>3, <3>4
  <2> QED BY <2>2, <2>3
<1> QED BY <1>1, <1>3, SameCallsGenerated

LEMMA NextGenerated ==
  OrchestratorInv /\ JobInv /\ GeneratedInv /\ [JobsNext]_jobVars => GeneratedInv'
<1> SUFFICES ASSUME OrchestratorInv, JobInv, GeneratedInv, [JobsNext]_jobVars PROVE GeneratedInv'
  OBVIOUS
<1>1. CASE UNCHANGED jobVars
  <2>1. UNCHANGED <<transactions, localVars, job>>
    BY <1>1 DEF jobVars, vars, sharedVars
  <2>2. \A g \in Generators : SentOK(g)'
    BY <2>1 DEF GeneratedInv, SentOK, localVars
  <2> QED BY <2>1, <2>2, SameCallsGenerated
<1> QED BY <1>1, JobsSteps, ServeGenerated, CallItemGenerated, ResetGenerated, OtherJobGenerated

LEMMA InitGenerated == JobsInit => GeneratedInv
<1> SUFFICES ASSUME JobsInit PROVE GeneratedInv
  OBVIOUS
<1>1. RetryingInv
  BY DEF JobsInit, Init, StoreInit, RetryingInv, Exists
<1>2. ASSUME NEW g \in Generators PROVE job[g].stage = "idle" /\ SentOK(g)
  <2>1. g \in Jobs
    BY GeneratorType
  <2>2. job[g] = [stage |-> "idle", total |-> Len(Calls[g]), results |-> <<>>,
                  count |-> NothingCounted]
    BY <2>1 DEF JobsInit
  <2>3. job[g].stage = "idle" /\ job[g].total = Len(Calls[g]) /\ Len(job[g].results) = 0
    BY <2>2
  <2>4. \A i \in DOMAIN Calls[g] : pc[Calls[g][i]] = "idle"
    BY GeneratorType DEF JobsInit, Init
  <2> QED BY <2>3, <2>4 DEF SentOK
<1> QED BY <1>1, <1>2 DEF GeneratedInv, LastKept

(* Whatever the jobs do in between, GeneratedInv is kept: the generator call
   that resets the store last finds what it stores there (main.go). *)
THEOREM GeneratedInvariant == JobsSpec => []GeneratedInv
BY JobInvariant, InitGenerated, NextGenerated, PTL DEF JobsSpec

(* When every job has returned no request is under way. *)
LEMMA AllAnswered ==
  ASSUME JobInv, AllDone, NEW r \in Requests PROVE pc[r] \in {"idle", "done"}
<1>1. PICK j \in Jobs : \E i \in DOMAIN Calls[j] : Calls[j][i] = r
  BY EveryRequestCalled
<1>2. CallsOK(j) /\ job[j].stage = "done"
  BY DEF JobInv, AllDone
<1> QED BY <1>1, <1>2 DEF CallsOK

(* A generator call that has sent as many different events as there are has
   sent each. *)
LEMMA AllSent ==
  ASSUME JobInv, NEW g \in Generators, SentOK(g), job[g].stage = "done", NEW id \in Generated
  PROVE  \E i \in DOMAIN Calls[g] : pc[Calls[g][i]] = "done" /\ call[Calls[g][i]].event.id = id
<1> DEFINE n == Len(Calls[g])
           sent == [i \in 1..n |-> call[Calls[g][i]].event.id]
<1>1. n \in Nat /\ DOMAIN Calls[g] = 1..n /\ g \in Jobs
  BY GeneratorType
<1>2. \A i \in 1..n : pc[Calls[g][i]] = "done"
  BY <1>1 DEF SentOK, JobInv, JobOK
<1>3. sent \in [1..n -> Generated]
  BY <1>1, <1>2 DEF SentOK
<1>4. \A i, m \in 1..n : sent[i] = sent[m] => i = m
  BY <1>1, <1>2 DEF SentOK
<1> HIDE DEF sent
<1>5. sent \in Injection(1..n, Generated)
  BY <1>3, <1>4 DEF Injection, IsInjective
<1>6. Cardinality(1..n) = Cardinality(Generated) /\ IsFiniteSet(Generated)
  BY <1>1, FS_Interval, JobsAssumption
<1>7. sent \in Surjection(1..n, Generated)
  BY <1>5, <1>6, FS_Injection
<1>8. PICK i \in 1..n : sent[i] = id
  BY <1>7 DEF Surjection
<1> QED BY <1>1, <1>2, <1>8 DEF sent

(* Whatever else resets the store or carries the same ids, when all jobs have
   returned the store lists every generated transaction once, and its chain has
   ended (the generator closure of main.go). *)
THEOREM GeneratedStored == JobsSpec => []GeneratorsSettle
<1>1. ASSUME OrchestratorInv, JobInv, GeneratedInv, AllDone, Generators # {}, NEW id \in Generated
      PROVE  /\ Exists(id) /\ transactions[id].status # "RETRYING"
             /\ Cardinality({i \in DOMAIN txOrder : txOrder[i] = id}) = 1
  <2>1. id \in TxnIds
    BY JobsAssumption
  <2>2. PICK g \in Generators : Kept(g)
    <3>1. \E g \in Generators : job[g].stage # "idle"
      BY <1>1, GeneratorType DEF AllDone
    <3> QED BY <1>1, <3>1 DEF GeneratedInv, LastKept
  <2>3. PICK i \in DOMAIN Calls[g] : pc[Calls[g][i]] = "done" /\ call[Calls[g][i]].event.id = id
    BY <1>1, AllSent, GeneratorType DEF GeneratedInv, AllDone
  <2>4. Exists(id)
    BY <2>2, <2>3 DEF Kept
  <2>5. transactions[id].status # "RETRYING"
    BY <1>1, <2>1, <2>4, AllAnswered DEF GeneratedInv, RetryingInv, InChain
  <2>6. PICK m \in DOMAIN txOrder : txOrder[m] = id
    BY <1>1, <2>1, <2>4 DEF OrchestratorInv, OrderListsStore
  <2>7. {k \in DOMAIN txOrder : txOrder[k] = id} = {m}
    BY <1>1, <2>6 DEF OrchestratorInv, OrderListsStore
  <2> QED BY <2>4, <2>5, <2>7, FS_Singleton
<1>2. OrchestratorInv /\ JobInv /\ GeneratedInv => GeneratorsSettle
  BY <1>1 DEF GeneratorsSettle
<1> QED BY <1>2, JobInvariant, GeneratedInvariant, PTL

=============================================================================

------------------------------ MODULE RetryJobs ------------------------------
(***************************************************************************)
(* The requests that process many events: submitBatch of                   *)
(* internal/api/handler.go and the generator of cmd/server/main.go.  Each  *)
(* calls ProcessFailure for one event after the other, in its own          *)
(* goroutine, while other jobs are served; a single submission is a batch  *)
(* of one.                                                                 *)
(*                                                                         *)
(* The i-th call of job j runs as the request Calls[j][i] of the           *)
(* orchestrator.  The clock stands still: nothing here depends on time.    *)
(***************************************************************************)
EXTENDS RetryProperties

CONSTANTS Batches,      \* batch submissions
          Generators,   \* calls of the generate endpoint
          Calls,        \* job -> the requests its events are processed by
          Generated     \* the ids of the generated events

Jobs == Batches \cup Generators

CallsOf(j) == {Calls[j][i] : i \in DOMAIN Calls[j]}

ASSUME JobsAssumption ==
  /\ Batches \cap Generators = {}
  /\ Calls \in [Jobs -> Seq(Requests)]
  /\ \A j, k \in Jobs : j # k => CallsOf(j) \cap CallsOf(k) = {}
  /\ \A j \in Jobs : Cardinality(CallsOf(j)) = Len(Calls[j])
  /\ Requests = UNION {CallsOf(j) : j \in Jobs}
  /\ Generated \subseteq TxnIds /\ IsFiniteSet(Generated)
  /\ \A j \in Generators : Len(Calls[j]) = Cardinality(Generated)

VARIABLE job   \* [stage, total, results, count]: what each job does, how many
               \* events it has, and its answer so far

jobVars == <<vars, job>>

(* The item a job is at: it has one result for each earlier one. *)
Item(j) == Len(job[j].results) + 1
Call(j) == Calls[j][Item(j)]

NothingCounted == [processed |-> 0, errors |-> 0, hard |-> 0, soft |-> 0,
                   recovered |-> 0, exhausted |-> 0, retrying |-> 0]

JobsInit ==
  /\ Init
  /\ job = [j \in Jobs |->
       [stage |-> "idle", total |-> Len(Calls[j]), results |-> <<>>, count |-> NothingCounted]]

At(j, from, to) == job[j].stage = from /\ job' = [job EXCEPT ![j].stage = to]

-----------------------------------------------------------------------------
(* Arrival.  A batch with no events is rejected before it starts.  The
   generator first clears the store and then the tracker. *)

StartBatch(j) == \E n \in 1..Len(Calls[j]) :
                   /\ job[j].stage = "idle" /\ j \in Batches
                   /\ job' = [job EXCEPT ![j].stage = "next", ![j].total = n]
                   /\ UNCHANGED vars

StartGenerator(j) == /\ At(j, "idle", "resetHealth")
                     /\ j \in Generators
                     /\ StoreReset
                     /\ UNCHANGED <<healthVars, adaptiveData, localVars>>

GeneratorResetsHealth(j) == /\ At(j, "resetHealth", "next")
                            /\ HealthReset
                            /\ UNCHANGED <<storeVars, now, adaptiveData, localVars>>

-----------------------------------------------------------------------------
(* One item *)

(* The answer to a batch item that failed, and to one that was processed. *)
Failed(c) == [c EXCEPT !.errors = @ + 1]

ProcessedAny(c, t) ==   \* mutant: the decline types are not told apart
  [c EXCEPT !.processed = @ + 1, !.soft = @ + 1]
Processed(c, t) ==
  [c EXCEPT !.processed = @ + 1,
            !.hard      = IF IsHard(t.event.code) THEN @ + 1 ELSE @,
            !.soft      = IF IsHard(t.event.code) THEN @ ELSE @ + 1,
            !.recovered = IF t.status = "RECOVERED" THEN @ + 1 ELSE @,
            !.exhausted = IF t.status = "EXHAUSTED" THEN @ + 1 ELSE @,
            !.retrying  = IF t.status = "RETRYING" THEN @ + 1 ELSE @]

(* An event of a batch that is not valid is an error, and the next follows. *)
RejectItem(j) ==
  /\ job[j].stage = "next" /\ j \in Batches
  /\ Item(j) <= job[j].total
  /\ job' = [job EXCEPT ![j].results = Append(@, "invalid"), ![j].count = Failed(@)]
  /\ UNCHANGED vars

(* Events of a batch are anything, also the same one twice; the generated
   ones have distinct ids, in a shuffled order. *)
AlreadySent(j) == {call[Calls[j][i]].event.id : i \in DOMAIN job[j].results}

CallItem(j) ==
  \E id \in IF j \in Batches THEN TxnIds ELSE Generated \ AlreadySent(j),
     code \in Codes, p \in Sources, ts \in ClientTimes \cup {now} :
    /\ At(j, "next", "called")
    /\ Item(j) <= job[j].total
    /\ Goto(Call(j), "idle", "recordFailure")
    /\ call' = [call EXCEPT ![Call(j)] =
         [op |-> "submit", event |-> [id |-> id, code |-> code, processor |-> p, ts |-> ts]]]
    /\ UNCHANGED <<sharedVars, tx, attempt, scan, candidates, reply>>

(* ProcessFailure has returned an error or a result. *)
CollectStops(j) ==   \* mutant: an error ends the loop instead of going to the next event
  /\ job[j].stage = "called" /\ pc[Call(j)] = "done"
  /\ job' = [job EXCEPT ![j].stage   = IF reply[Call(j)] = "created" THEN "next" ELSE "done",
                        ![j].results = Append(@, reply[Call(j)]),
                        ![j].count   = IF reply[Call(j)] = "created"
                                         THEN Processed(@, tx[Call(j)]) ELSE Failed(@)]
  /\ UNCHANGED vars
Collect(j) ==
  /\ job[j].stage = "called" /\ pc[Call(j)] = "done"
  /\ job' = [job EXCEPT ![j].stage   = "next",
                        ![j].results = Append(@, reply[Call(j)]),
                        ![j].count   = IF reply[Call(j)] = "created"
                                         THEN Processed(@, tx[Call(j)]) ELSE Failed(@)]
  /\ UNCHANGED vars

AnswerJob(j) == /\ At(j, "next", "done")
                /\ Item(j) > job[j].total
                /\ UNCHANGED vars

-----------------------------------------------------------------------------
JobStep(j) == GeneratorResetsHealth(j) \/ RejectItem(j) \/ CallItem(j) \/ Collect(j) \/ AnswerJob(j)

AllDone == \A j \in Jobs : job[j].stage = "done"

JobsNext ==
  \/ \E j \in Jobs : StartBatch(j) \/ StartGenerator(j) \/ JobStep(j)
  \/ (\E r \in Requests : Serve(r)) /\ UNCHANGED job
  \/ AllDone /\ UNCHANGED jobVars

JobsSpec == JobsInit /\ [][JobsNext]_jobVars

(* As for single requests; a job waits for nothing but its own call. *)
JobsFairSpec == /\ JobsSpec
                /\ \A r \in Requests : WF_jobVars(Serve(r) /\ UNCHANGED job)
                /\ \A j \in Jobs : WF_jobVars(JobStep(j))

-----------------------------------------------------------------------------
(* Properties *)

(* The answer to a batch accounts for every event of it, also when some are
   invalid or duplicates of events other requests submit at the same time:
   each is an error or processed, each processed one is counted once by
   decline type, and each soft decline is counted again by the way its chain
   ended, never as still retrying. *)
AnswersAddUp ==
  \A j \in Jobs :
    LET c == job[j].count
        n == Len(job[j].results)
    IN  /\ c.processed + c.errors = n
        /\ c.hard + c.soft = c.processed
        /\ c.recovered + c.exhausted = c.soft /\ c.retrying = 0
        /\ job[j].stage = "done" => n = job[j].total

(* The generator resets the store under the chains of other jobs, and they
   may carry the ids it generates: when all jobs have returned the store lists
   every generated transaction once, and the chains of all of them have
   ended. *)
GeneratorsSettle ==
  AllDone /\ Generators # {} =>
    \A id \in Generated :
      /\ Exists(id) /\ transactions[id].status # "RETRYING"
      /\ Cardinality({i \in DOMAIN txOrder : txOrder[i] = id}) = 1

(* Every batch and every generator call is answered. *)
EveryJobAnswered == \A j \in Jobs : job[j].stage # "idle" ~> job[j].stage = "done"
=============================================================================

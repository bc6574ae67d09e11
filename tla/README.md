# Formal models of the Smart Retry Orchestrator

The service takes declined payments, classifies them, retries the soft ones on a
processor it selects, and keeps all of it in memory. It has no database and no
network between its parts: what makes it hard is that every HTTP request is a
goroutine, that several of them work on the same transaction, and that each
goes through three mutexes (store, health tracker, orchestrator) one after the
other, never holding one across a whole operation. The models therefore make
one step of each critical section and let the steps of all requests interleave;
`Locks` shows that this is sound: inside a section nobody else touches its data,
and nobody waits for a mutex for ever.

## Inventory

| part | state | operations | hard behaviour | what makes it correct |
|---|---|---|---|---|
| Orchestrator (`internal/orchestrator`) | `adaptiveData`; each request's own copy of its transaction | `ProcessFailure` (with the retry chain), `RecordRetryOutcome`, `GetAdaptiveWeights` | copies written back over newer ones; duplicates; resets in mid-chain; routing on stale reads | a chain is whole or not visible; hard declines are never retried; one chain per transaction; outcomes are counted once; every request ends |
| Selection (`selectBestAlternative`) | none | scan, rank, fall back | reads under one lock per processor | DOWN only as a last resort |
| Health tracker (`internal/health`) | outcomes per processor; the clock | `RecordOutcome`, `GetHealth`, `GetAllHealth`, `Reset` | lazy pruning, client timestamps, thresholds | same as a window that slides by itself; recovery by time alone |
| Memory store (`internal/store`) | `transactions`, `decisions`, `txOrder` | save, get, update, list, range, decision logs, reset | check-then-insert; three structures that must agree | the order list names each transaction once; atomic insert |
| Classifier (`internal/classifier`) | none | `Classify` | unknown codes | fail-safe hard decline |
| API (`internal/api`) | none | submit, batch, report, reset, generate, reads | reset in two steps; two reads that make one answer; batches that partly fail | each endpoint does what its description says |
| Metrics (`internal/metrics`) | none | recovery and processor metrics | computed while chains run; two kinds of state read one after the other | rates stay rates; the two reports agree |
| Server (`cmd/server`) | the process, its listener, the signal channel | start, serve, shut down; the generator closure | the shutdown deadline races the handlers; overlapping generator calls | answers are lost only by force; what is generated is stored once |
| Generator (`datagen`) | none | `GenerateEvents` | weighted draws, shuffle, timestamps in the past | distinct ids, the weights asked for |
| Mutexes (all of the above) | three `sync.RWMutex` | the order of `Lock`, `RLock` and the deferred unlocks | one nested acquisition, in `simulateOutcome`; pending writers shut out readers | no data race, no deadlock, no starvation |

`PROJECT.json` lists these as components with their status, and the places where
the code is hard to test as hazards, each at its line with the properties that
watch it.

## Modules

| module | models |
|---|---|
| `Classifier` | codes, strategies, statuses, the rule table, `Classify` |
| `HealthTracker` | the tracker; on its own (`HealthSpec`) or driven by the orchestrator |
| `RollingWindow` | abstract: the window that slides by itself, and the state due to the failure rate in it |
| `MemoryStore` | `memory.go`: each write one step, each read an operator |
| `ProcessorSelection` | ranking and fallback; rates are fractions, costs are cents |
| `RetryOrchestrator` | composes the four above: requests, the retry chain, reports, resets |
| `RetryLifecycle` | abstract: the life of a transaction as a client sees it, its chain decided in one step |
| `RetryProperties` | the properties of the orchestrator, and the refinement mapping to `RetryLifecycle` |
| `Metrics` | both calculators and the time range of their handlers, over the orchestrator's store |
| `RetryReaders` | adds the requests that read more than once: retry history, processor metrics, a client paging the list |
| `RetryJobs` | adds the requests that process many events: `submitBatch` and the generator closure |
| `Locks` | the three RWMutexes and the critical sections of every operation, in program order |
| `DataGenerator` | `GenerateEvents`, every draw a choice |
| `Server` | start, listening, failure, signals and graceful shutdown of the process |
| `SumTheorems` | lemmas about sums over finite sets, which the counts and costs rest on |
| `RetryOrchestratorProofs` | the health tracker; types, whole chains, the order list, the path of a request and the bound on its steps |
| `RetryLedgerProofs` | what requests leave behind: one chain, the decision log, replies, the refinement to `RetryLifecycle`; routing, costs, and the counts in both places where outcomes are kept |
| `RetryReadersProofs` | metrics, answers put together from several reads, and walks through the pages of the list |
| `RetryJobsProofs` | batches and the generator closure |
| `LocksProofs`, `DataGeneratorProofs`, `ServerProofs` | the mutexes, the generated events, the life of the process |
| `MCHealthTracker`, `MCRetry`, `MCReaders`, `MCJobs`, `MCLocks`, `MCGenerator` | instances for TLC; `Server` needs none |

`RetryReaders` extends `Metrics`, which extends `RetryOrchestrator`; `RetryJobs`
extends `RetryProperties`. Both only add variables: a reader never changes the
orchestrator's, and a job calls it through one of its requests (`Calls[j][i]`
is the request that runs the i-th `ProcessFailure` of job j).

### How the orchestrator's state corresponds to the code

`transactions`, `decisions`, `txOrder`, `windows` and `adaptiveData` are the
fields of the Go structs. The clock `now` is `time.Now`. A request `r` has a
program counter `pc[r]`, its arguments `call[r]`, its own copy of the
transaction `tx[r]` (the `tx` pointer of `ProcessFailure`, or the clone
`GetTransaction` returned), the attempt or report being recorded `attempt[r]`,
and the progress of its scan for an alternative. Maps are total functions:
`Nil` stands for an absent key in `transactions`, an empty log for one in
`decisions`, an empty window, and a record of no outcomes in `adaptiveData`;
the code treats each exactly like the absent key.

Local code runs with the critical section before it, or with the one it leads
to, since nobody else can see it. So `Simulate` is `simulateOutcome` and the
entry of the attempt in the request's own transaction, and `LogDecision` is
`SaveDecisionLog` and the decision whether the chain goes on. `Fetch` also reads
the clock, as the code does right after `GetTransaction`; `PlanAttempt` reads it
together with the health of the original processor, as the code does right
before. `simulateOutcome` draws a random number: its probability lies strictly
between 0 and 1 in every health state, so either outcome is possible, and the
health it reads then decides nothing else.

The slices of outcomes are multisets, because nothing reads their order. Not in
the model: texts (`Reasoning`, the narrative), amounts, currencies, card data,
`CreatedAt`/`UpdatedAt`/`RecoveredAt`, the 30-second `DelaySeconds` (the code
does not wait, it only reports the number), and the reads made only for texts.

`GiveUp` is the code's `attempt == nil` branch. With three processors it cannot
be reached: `FallbackAssumption`, which TLC evaluates on every instance, says
that every processor has another to fall back to, and the proof of `WholeChains`
uses it. The action is there so that the model has every branch of the code.

### The other modules and the code

`Locks` abstracts from values altogether. A critical section is the list of
mutexes it takes, outermost first, with the mode and the fields it touches; an
operation is a sequence of sections, and a goroutine runs one after the other,
for ever. `Lock` has two steps as in `sync.RWMutex`: asking, which shuts out new
readers, and entering, once the readers inside have left. The unlocks are
deferred and therefore in reverse order. Reads that are one section are there
too, as they take locks like all others.

`RetryReaders` keeps per reader what it has read so far (`view`). The list is
modelled with a client that asks for page after page; a transaction may be
added between two pages, which is what the insertion order is for.

`RetryJobs` has one record per job with the answers so far. `RejectItem` is an
event that `validate` refuses, `CallItem` and `Collect` are the call of
`ProcessFailure` and its return. The generator's two resets are its first two
steps. Its events are any with the ids it generates, in any order: what
`GenerateEvents` returns for one seed is among them.

In `Metrics`, rates and averages are the pair of numbers the code divides, so
that nothing depends on floating point. `DataGenerator` measures time from the
call and in coarse units; amounts, cards and countries are not in it. In
`Server` a request is only served, answered or cut off; `http.Server` and the
delivery of signals are modelled from how `main.go` uses them.

Mutants: a definition marked `\* mutant` is a plausible bug in the operator that
follows it. It is used nowhere in the specification; it replaces that operator
to see that a property notices.

## What is checked

| run | question | properties |
|---|---|---|
| `MCHealthTracker` | is the lazily pruned tracker a sliding window that shows the documented state? | types; `ImplementsRollingWindow`; `WritePrunes`; `SuccessNeverWorsens`; `RecoversByItself` |
| `RetryRaces` | do records stay sound when submissions, reports and resets of a transaction race? | `TypeOK`, `ChainsAreWhole`, `HardNeverRetried`, `CostsAddUp`, `AlternativeMeansOther`, `OrderListsStore`, `AdaptiveLedger` |
| `RetrySubmits` | do concurrent submissions retry a transaction once, log what they answer, end, and look atomic through the store? | `OneChainPerTransaction`, `AuditMatchesReply`, `ReplyMatchesStore`, `EveryRequestAnswered`, `SoftDeclinesResolve`, `ImplementsLifecycle` |
| `RetrySequential` | do sequential clients see the documented life of a transaction, and does routing avoid outages? | `DownOnlyAsLastResort`, `ImplementsLifecycle` |
| `Readers` | do answers put together from several reads agree, while submissions and outcome reports race? | `WalkSeesEverything`, `RecoveryRateAtMostOne`, `ProcessorsShareRetries`, `HistoryIsExplained`, `MetricsInHealth`, `AuditMatchesReply`, `HealthLedger` |
| `Jobs` | does a batch, with a generator call resetting the store under it, account for every event and end? | `AnswersAddUp`, `GeneratorsSettle`, `EveryJobAnswered` |
| `Locks` | may a critical section be taken for one step? | `TypeOK`, `NoDataRace`, `SomeoneCanProceed`, `EveryOperationReturns` |
| `GeneratedEvents` | are the generated events what the loops mean to generate, whatever is drawn? | `PickHonoursWeights`, `ShuffleKeepsEvents`, `EventsInDefaultRange` |
| `ServerLife` | does the process end when told to, and whose answers are lost? | `CutOnlyByForce`, `ShutdownDrains`, `SignalEndsProcess` |

Three runs show a disagreement between the code and what the repository says:

| run | what happens |
|---|---|
| `RecoveryUndone` | A success is reported, stored and answered while the chain runs; the chain's last attempt fails and the chain overwrites the record as EXHAUSTED. The comment at `orchestrator.go:409` says reports recover retrying transactions. |
| `StuckRetrying` | A failing report fetches the transaction while it is RETRYING, the chain ends, the report writes its copy back: RETRYING for ever, and the attempts are gone. README.md:54 says a chain ends RECOVERED or EXHAUSTED. |
| `ResetKeepsWeights` | The reset leaves the learned weights. It answers "All data cleared successfully". |

The first two have one cause, the read-modify-write of a whole record across
locks: in the first the chain writes an old copy back over what a report stored,
in the second a report does so over what the chain stored. They are also why `ImplementsLifecycle`
is checked with concurrent submissions, or with every operation but one request
at a time: with concurrent reports it is false. `ChainsAreWhole` and
`HardNeverRetried` hold in spite of them, because every copy that is written
back was itself a whole record.

The definitions in the modules also bear out other differences from the
documents, which no run repeats. `Better` in `ProcessorSelection` does not look at DEGRADED,
which README.md:226 calls a fallback. `LogDecision` of a chain that outlives a
reset leaves a log without a transaction (openapi.yaml:724 says the reset
removes retry history). `created_at` is the client's timestamp and not the time
of recording (openapi.yaml:1151), so a back-dated event is outside the default
range of the metrics. `DataGenerator` draws processors by weight (README.md:565
says 70 events each) and puts the bad period of processor C 80 to 90 minutes
before the call, where the window of fifteen minutes never sees it (README.md:595
expects DEGRADED).

### Bounds, and why they are enough

- Requests: three concurrent ones of any kind (`RetryRaces`) let a report or a
  reset fall between any two steps of a chain and a third request follow it;
  four sequential ones (`RetrySequential`) can drive two processors DOWN and
  then route a transaction; two (`RetrySubmits`) race each other for one
  transaction or share the processors with two. Requests are interchangeable;
  the safety runs use symmetry, the liveness runs do not.
- `MaxInFlight` limits how many requests are served at a time; 1 makes the
  clients sequential.
- Processors: the chains choose among two or three. In `RetryRaces` and
  `Readers` reports also name a processor X that does not exist. Failures come
  from one processor in the racing runs, so a processor filter of `Readers`
  selects all or none; `WalksComplete` is for any.
- Transactions: one where all races are about the same record, two where
  different ones share processors.
- `MaxRetries` is 2 (1 in `Jobs` and in the violation runs) instead of 3: first,
  middle and last attempts differ only in whether one follows. `MaxAttempts` of
  `Locks` is 2 for the same reason. `MinSamples` is 1 to 3 instead of 5, so that
  processors reach DEGRADED and DOWN (9 in `Jobs`, where routing is not the
  question); the thresholds are those of the code. Processor costs are those
  of the code.
- Time: `MCHealthTracker` runs the clock past every window with timestamps
  before, at and after it, and with enough outcomes to meet both thresholds and
  the minimum count exactly; `RetrySubmits` lets the window slide under a chain
  with a window of zero length. The other runs stand still (`MaxTime` 0),
  because their ledgers count what is in the window; `RetryJobs` has no clock.
- `MaxRepeat` bounds equal outcomes only when the tracker runs on its own.
- `Readers`: one reader among two requests. The reader changes nothing, so two
  of them see nothing that one does not. Pages hold one transaction
  (`DefaultLimit` 1, no explicit limit), so that the list can grow between two
  of them.
- `Jobs`: a batch of up to two events, which is enough for one to follow a
  failing one, and a generator of one event that the batch may also carry. A
  single submission is a batch of one.
- `Locks`: two goroutines, each running any operation at any time: a race and
  the nested acquisition are between two. `LocksProofs` covers any number.
- `DataGenerator`: four events with the weights of the code divided by five
  (45/30/25 and 40/35/25), two hours being three units of time. The properties of the scan
  are about all numbers that can be drawn.
- `ServerLife`: three requests, one to be answered, one to be cut off and one to
  come too late.

### Fairness

`FairSpec` of the orchestrator asks weak fairness of the steps of each request
that has arrived: the Go scheduler runs every runnable goroutine, and no step
waits for a condition. It asks nothing of clients, who may never send a
request, nor of the clock, nor of the random outcome of an attempt.
`HealthFairSpec` asks that time passes. `JobsFairSpec` adds that a job whose
call has returned goes on.

That a mutex is obtained in the end is what `Locks` shows. Its `FairSpec` has
weak fairness for every step of a goroutine and strong fairness for `RLock` and
for asking: `RWMutex.Unlock` lets in all readers that wait before the next
writer, and `sync.Mutex`, which queues the writers, switches to handing over
when one starves, so whoever finds the mutex free again and again gets it.
Nothing makes a goroutine begin another operation.

`Server` has weak fairness for main, which covers the ten seconds of the
shutdown passing, and for `log.Fatalf`. It has none for handlers: one may never
return.

## What is proved

TLAPS checks these for every finite set of requests and of codes, every set of
transactions, processors and timestamps, any clock, window and number of retries, any number of jobs of
any length, of readers, and of goroutines. They rest on the named assumptions of
the modules (`HealthAssumption`, `SelectionAssumption`, `FallbackAssumption`,
`OrchestratorAssumption`, `NilAssumption`, `ArgumentsAssumption`,
`MetricsAssumption`, `ReadersAssumption`, `JobsAssumption`,
`GeneratorAssumption`, `LocksAssumption`, `NoOneAssumption`), which TLC
evaluates on each instance. A theorem that holds for some clients only
says so in its hypothesis, and the run that checks the same property is an
instance of it:

| hypothesis | theorems | why |
|---|---|---|
| nobody resets | `OneChain`, `AuditComplete`, `HealthCountsComplete`, `HistoryExplained`, `MetricsCovered`, `WalksComplete` | a reset forgets what a chain under way goes on to write, and what a walk has begun to see |
| clients only submit | `RepliesStored` | a report may change the record after the answer |
| only submissions, or one request at a time (`Apart`) | `LifecycleRefinement` | false otherwise: `RecoveryUndone`, `StuckRetrying` |
| one request at a time, the clock stands still | `DownAsLastResort` | health is read one processor at a time, and before the attempt |
| nothing expires (`Lasting`) | `HealthCountsComplete`, `MetricsCovered` | an expired outcome is no longer counted |
| finitely many timestamps | `HealthRefinement`, `SuccessesHelp`, `Lasting` | outcomes in the window are counted |

The tracker (`RetryOrchestratorProofs`):

- `HealthTypeCorrect`, `HealthWritesPrune`, `HealthRefinement`: its types, that
  a written slice holds nothing expired, and that it implements
  `RollingWindow`. The argument of the refinement: what a write prunes is
  outside the view anyway, and the view loses an outcome just when the clock
  passes it. What has left the view adds nothing to its sums (`SeenCounts`), so
  the state read is the one `RollingWindow` states in percent, as README.md:225
  does (`StateIsDue`).
- `SuccessesHelp`: recording a success adds to the total of the window and not
  to its failures, and what the write prunes no read had counted; both
  thresholds are on the fraction of failures, so the state of a processor with
  enough samples cannot get worse.

Records (in the same module):

- `TypeCorrect`: `TypeOK` is not inductive, since a step relies on what an
  earlier stage left in the request's variables. `TypeInv` adds `StageOK`,
  which says it per stage; in particular `retryCount < maxRetries` wherever an
  attempt is planned, which keeps the count in bounds.
- `WholeChains` and `HardDeclinesFinal`: what is stored is good because what
  requests are going to write is. `ChainInv` says so: `StoredOK` of the store,
  and `WorkOK` of every request's copy (in a chain: numbered attempts, all
  failed but the one being recorded; in a report: a good record, however old).
- `OrderComplete`: every step is one of four writes to the store (`StoreWrite`),
  each of which keeps the order list exact.
- `PathInvariant`: what the place a request has reached says about how it got
  there (`PathOK`); the modules below need it.
- `ServiceEnds`: `StepsLeft` counts the steps a request still takes: the
  attempts that are left (`AttemptsLeft`, from the retry count) times a bound on
  the steps of one (`Room`), and the steps within the present one (`Within`,
  from the processors left to scan). Every step of a request lowers it, no step
  of another changes it, it never exceeds `MostSteps`, and it is zero just when
  the request is answered or has not arrived. No property of a run is stated by
  it; it is the safety part of `EveryRequestAnswered`: what remains to be had
  from fairness is that a request's next step is taken.

Submissions (`RetryLedgerProofs`):

- `OneChain` and `AuditComplete`: `AuditInv` adds to them that nothing is logged
  for a transaction that is not stored (`UnstoredUnlogged`): so the submission
  that gets past `SaveTransaction` starts an empty log, and the one that comes
  later finds the transaction and stops.
- `RepliesStored` and `LifecycleRefinement`: `LinkInv` relates each request to
  the record it works on. Until its chain is over the store shows the record as
  accepted, and a report holds the record that is in the store, or that record
  recovered. With only submissions this follows from `OneChain`; with one
  request at a time, from nobody else writing. Every step is then a step of
  `RetryLifecycle` or leaves its view of the store alone.

Routing and counts (in the same module):

- `CostsAlwaysAddUp` and `AlternativesAreOthers`: `RouteInv` says of the store
  and of every copy that the costs are those of the attempts and, for the
  ALTERNATIVE_PROCESSOR strategy, that none was made where the transaction was
  declined; and of every scan that neither what is left of it nor its candidates
  include that processor.
- `DownAsLastResort`: `SeenInv` says that what a scan has passed is DOWN or a
  candidate, and that no candidate is DOWN; it stays so only as long as nobody
  else records outcomes.
- `LearningComplete` and `HealthCountsComplete`: each count equals the number of
  elements of a finite set of entries (one per attempt a request has recorded,
  per report, and for the tracker per original failure). A step adds at most one
  entry and counts it where it belongs; all other entries stay. The first holds
  whatever races, resets included, because a reset leaves the learned counts
  alone.

Reads (`RetryReadersProofs`):

- `RatesStayRates` and `ReportsAgree` hold of the metrics of any set of sound
  records. Both reports are sums over the same records, one grouped by record
  and the other by processor (`SumFibres`); a record has one successful attempt
  at most, after which it is recovered, so successes map one to one into
  recovered records.
- `HistoryExplained`: by `OriginInv`, attempts that are in the store, or in the
  copy a report will write back, are those of a submission whose chain is over
  and which has been answered. Its attempts no longer change and, by
  `AuditInv`, its log lists all of them; so the log read later explains the
  attempts read before.
- `MetricsCovered`: the attempts shown map one to one into the entries of the
  tracker's count (`OriginInv` again), and while nothing is forgotten those only
  grow between the two reads.
- `WalksComplete`: an update keeps the event of the record it replaces
  (`EventInv`: the copy a request writes back has the stored event), so a
  processor filter goes on matching what it matched, and the order list only
  grows at its end. Hence the filtered list only grows at its end
  (`MatchingGrows`), and what a walk has seen is a prefix of it (`WalkInv`); the
  walk stops at a page that is not full, when the prefix is the whole list.
  The filtered list is a recursive function of the length of the order list
  (`Matching`, the loop of `ListTransactions`); what the proof needs of it is
  an induction over that length, stated with a set of numbers that holds 0 and
  every successor (`NatInductive`).

Jobs (`RetryJobsProofs`):

- `AnswersAccount`: `JobInv` ties the request a job waits for to its item, and
  what has been collected is `Balanced`.
- `GeneratedStored`: the generator call that reset the store last (`LastKept`)
  finds there all it has sent since. It sends as many different ids as there are
  generated, hence all of them; and when every job has returned no chain is
  under way, hence nothing is RETRYING (`RetryingInv`).

Generated events (`DataGeneratorProofs`):

- `WeightsHonoured`: the draws that stop the scan at a processor are those from
  the cumulative weight before it up to its own, an interval as long as its
  weight (`Share`); every draw is in one of them.
- `EventsKept` and `EventsRecent`: `GeneratorInv` says that the ids are the
  numbers below the count and that the hard declines are the first events while
  events are generated; an exchange of two events is a bijection of their
  positions, so it changes neither.

Mutexes (`LocksProofs`):

- `LocksTypeCorrect`, `RaceFree`, `DeadlockFree`: `LockInv` says of the critical
  sections that each takes one mutex, or writes under `o.mu` and goes into the
  tracker (`Sections`); of the mutexes that a write lock is exclusive; and that
  whoever a mutex is promised to holds it or waits for its readers (`Promised`).
  No race: what two goroutines share is under one mutex (`Protects`). No
  deadlock: a goroutine that holds something and is stuck is in
  `simulateOutcome` and waits for the tracker (`HalfWay`), and whoever has the
  tracker can leave it.

The process (`ServerProofs`):

- `DrainsFirst` and `AnswersKept`: `LifeInv` adds to the types that no request
  is cut while the process runs, nor when it ends gracefully, which `Shutdown`
  lets it do only with no handler left; that it ends for a failure of the server
  only after the listener broke; that the listener does not serve once main
  shuts it down, whichever of the two came first; and that nothing is being
  served when the process has ended. The return of `ListenAndServe` that
  `Shutdown` itself causes is not such a failure.

Sums (`SumTheorems`): the library defines the sum over a set by recursion that
takes out a chosen element, and its induction theorems cannot be used by the
installed provers. The lemmas are proved from scratch: a set of subsets of a
finite set that contains every set whose proper subsets it contains is all of
them, by the least cardinality of one that is missing. From this follows that
the recursion defines a sum, that any element may be taken out first
(`SumRemove`), and the rest.

### Only model-checked

Every invariant and every action property of the passing runs, and both
refinements, are theorems, the refinement to `RollingWindow` for finitely many
timestamps. What remains with TLC:

- Everything about progress (`EveryRequestAnswered`, `SoftDeclinesResolve`,
  `EveryJobAnswered`, `EveryOperationReturns`, `RecoversByItself`,
  `SignalEndsProcess`): liveness under fairness is outside the prover's reach.
  Of `EveryRequestAnswered` the bound on the steps is proved (`ServiceEnds`).
- That the three disagreements happen: a counterexample is one behaviour.

## Plan

The plan of this project is carried out: all the state the code keeps and every
operation that changes it are modelled, and all safety properties are proved.
When the code changes, the order is: the definition that `PROJECT.json` maps to
the changed lines, the runs, then the proofs, whose steps are one per action.
What would still be worth having, should the code grow there:

1. Paging with a status filter, once the repository promises something about it.
2. The time ranges of the metrics when `CreatedAt` becomes the time of recording.

## Not modelled

Middleware (CORS, request ids, logging) and JSON encoding: no state. The
decoding of requests is modelled by what it lets through, valid events and
rejected ones. Requests that are one read under one lock (a transaction, the
health, the weights) only appear in `Locks`. Card data, currencies, countries,
narratives and the `DelaySeconds` that nobody waits for. Paging with a status
filter: a transaction whose status changes between two pages shifts the others,
and the repository promises nothing about it. The socket timeouts of the
server, the documentation endpoints, container and demo files.

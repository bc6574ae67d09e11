---------------------------- MODULE RetryReaders ----------------------------
(***************************************************************************)
(* The read requests of internal/api/handler.go that take more than one    *)
(* look at the store or the tracker, while submissions, outcome reports    *)
(* and resets go on: the retry history of a transaction, the metrics of    *)
(* the processors, and a client paging through the list of transactions.   *)
(* The readers change nothing, so they are added to the orchestrator.      *)
(***************************************************************************)
EXTENDS Metrics, SequencesExt

CONSTANTS Readers,       \* the read requests, and the clients that page
          PageLimits,    \* limits clients ask for; Nil, none that is valid
          DefaultLimit   \* the handler's limit when there is none, 50

ASSUME ReadersAssumption == /\ PageLimits \ {Nil} \subseteq Nat \ {0}
                            /\ DefaultLimit \in Nat \ {0}

VARIABLES stage,   \* what each reader does next
          view     \* what it has read, Nil before it starts

readerVars == <<stage, view>>
allVars    == <<vars, readerVars>>

ReadersInit == Init /\ stage = [q \in Readers |-> "idle"] /\ view = [q \in Readers |-> Nil]

Read(q, from, to, seen) == /\ stage[q] = from
                           /\ stage' = [stage EXCEPT ![q] = to]
                           /\ view' = [view EXCEPT ![q] = seen]
                           /\ UNCHANGED vars

-----------------------------------------------------------------------------
(* getRetryHistory: the transaction, and then, under another lock, its
   decision log.  An unknown transaction is not found. *)

LogsFirst    == <<"decisions", "attempts">>   \* mutant: the two reads swapped
HistoryReads == <<"attempts", "decisions">>

LookUp(part, id) == IF part = "attempts" THEN transactions[id].attempts ELSE GetDecisionLogs(id)

NothingRead(id) == [id |-> id, attempts |-> <<>>, decisions |-> <<>>]
ReadPart(part, read) == [read EXCEPT ![part] = LookUp(part, read.id)]

NotFound(q) == \E id \in TxnIds : ~Exists(id) /\ Read(q, "idle", "notFound", Nil)

FindTransaction(q) ==
  \E id \in TxnIds :
    /\ Exists(id)
    /\ Read(q, "idle", "log", ReadPart(HistoryReads[1], NothingRead(id)))

ReadLog(q) == Read(q, "log", "history", ReadPart(HistoryReads[2], view[q]))

-----------------------------------------------------------------------------
(* getProcessorMetrics: the transactions of the range, and then the health of
   one processor after the other, each under its own lock. *)

Made == LET range == TimeRange(Nil, Nil)
            txns  == GetAllTransactionsInRange(range.start, range.end)
        IN  [p \in Processors |-> ProcessorMetrics(txns, p)]

CollectAttempts(q) == Read(q, "idle", "health", [made |-> Made, health |-> <<>>])

CollectHealth(q) ==
  LET read == view[q].health
  IN  /\ stage[q] = "health" /\ Len(read) < Len(ProcessorOrder)
      /\ Read(q, "health", "health",
              [view[q] EXCEPT !.health = Append(read, GetHealth(ProcessorOrder[Len(read) + 1]))])

ReportMetricsLate(q) ==   \* mutant: the transactions are read after the health
  /\ stage[q] = "health" /\ Len(view[q].health) = Len(ProcessorOrder)
  /\ Read(q, "health", "metrics", [view[q] EXCEPT !.made = Made])
ReportMetrics(q) == /\ stage[q] = "health" /\ Len(view[q].health) = Len(ProcessorOrder)
                    /\ Read(q, "health", "metrics", view[q])

-----------------------------------------------------------------------------
(* listTransactions, and a client that walks its pages until one is empty. *)

Limit(asked) == IF asked = Nil THEN DefaultLimit ELSE asked

Ids(txns) == [i \in DOMAIN txns |-> txns[i].event.id]

StartWalk(q) ==
  \E asked \in PageLimits, p \in Processors \cup {Nil} :
    LET filter == [status |-> Nil, processor |-> p, limit |-> Limit(asked), offset |-> 0]
    IN  Read(q, "idle", "walk",
             [filter |-> filter,
              known  |-> {id \in TxnIds : Exists(id) /\ Matches(transactions[id], filter)},
              seen   |-> <<>>])

NextPage(q) ==
  LET page == ListTransactions(view[q].filter)
  IN  Read(q, "walk", IF page = <<>> THEN "walked" ELSE "walk",
           [view[q] EXCEPT !.filter.offset = view[q].filter.offset + Len(page),
                           !.seen = view[q].seen \o Ids(page)])

-----------------------------------------------------------------------------
ReaderStep(q) == \/ NotFound(q) \/ FindTransaction(q) \/ ReadLog(q)
                 \/ CollectAttempts(q) \/ CollectHealth(q) \/ ReportMetrics(q)
                 \/ StartWalk(q) \/ NextPage(q)

ReadersNext == \/ Next /\ UNCHANGED readerVars
               \/ \E q \in Readers : ReaderStep(q)

ReadersSpec == ReadersInit /\ [][ReadersNext]_allVars

-----------------------------------------------------------------------------
(* Properties, as long as nothing is reset *)

(* Every attempt of a retry history is explained by a decision of the same
   answer that was routed to the same processor, although a chain may log and
   store its attempts, and a report overwrite them, between the two reads. *)
HistoryIsExplained ==
  \A q \in Readers : stage[q] = "history" =>
    \A i \in DOMAIN view[q].attempts :
      /\ i <= Len(view[q].decisions)
      /\ view[q].decisions[i].number = view[q].attempts[i].number
      /\ view[q].decisions[i].target = view[q].attempts[i].processor

(* While outcomes do not expire, the attempts the metrics show for a
   processor are all in the health shown next to them: the health is read
   later, and an attempt is recorded there before it is stored. *)
MetricsInHealth ==
  \A q \in Readers : stage[q] = "metrics" =>
    \A i \in DOMAIN ProcessorOrder :
      view[q].made[ProcessorOrder[i]].attempts <= view[q].health[i].total

(* A client that walks the pages while transactions are added and updated
   sees every transaction that was there when it started, and none twice;
   also when it filters by processor. *)
WalkSeesEverything ==
  \A q \in Readers : stage[q] \in {"walk", "walked"} =>
    LET seen == view[q].seen
    IN  /\ \A i, j \in DOMAIN seen : seen[i] = seen[j] => i = j
        /\ stage[q] = "walked" => view[q].known \subseteq ToSet(seen)
=============================================================================

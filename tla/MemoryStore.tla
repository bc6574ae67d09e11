---------------------------- MODULE MemoryStore ----------------------------
(***************************************************************************)
(* internal/store/memory.go: MemoryStore.  Every method runs under the     *)
(* store's mutex, so each is one step.  Records are copied in and out      *)
(* (clone), so a value handed to a caller never changes under its hands    *)
(* and a caller's later changes are not seen until it calls back.          *)
(***************************************************************************)
EXTENDS Integers, Sequences

CONSTANTS TxnIds,      \* transaction identifiers
          Nil          \* the nil pointer: no such record

VARIABLES transactions,  \* id -> record, Nil when the map has no such key
          decisions,     \* id -> its decision log, empty when there is no key
          txOrder        \* ids in insertion order

storeVars == <<transactions, decisions, txOrder>>

StoreInit == /\ transactions = [id \in TxnIds |-> Nil]
             /\ decisions = [id \in TxnIds |-> <<>>]
             /\ txOrder = <<>>

Exists(id) == transactions[id] # Nil

(* SaveTransaction when it succeeds; when the id exists it returns
   ErrDuplicateID and changes nothing. *)
SaveTransaction(id, record) ==
  /\ transactions' = [transactions EXCEPT ![id] = record]
  /\ txOrder' = Append(txOrder, id)
  /\ UNCHANGED decisions

(* UpdateTransaction: with no such id it returns ErrNotFound. *)
Upsert(id, record) ==             \* mutant: the existence check is dropped
  /\ transactions' = [transactions EXCEPT ![id] = record]
  /\ UNCHANGED <<decisions, txOrder>>
UpdateTransaction(id, record) ==
  /\ transactions' = IF Exists(id) THEN [transactions EXCEPT ![id] = record] ELSE transactions
  /\ UNCHANGED <<decisions, txOrder>>

(* SaveDecisionLog appends whether or not the transaction exists. *)
SaveDecisionLog(id, decision) ==
  /\ decisions' = [decisions EXCEPT ![id] = Append(decisions[id], decision)]
  /\ UNCHANGED <<transactions, txOrder>>

StoreReset ==
  /\ transactions' = [id \in TxnIds |-> Nil]
  /\ decisions' = [id \in TxnIds |-> <<>>]
  /\ txOrder' = <<>>

-----------------------------------------------------------------------------
(* Reads.  They return copies, in insertion order.  A Nil field of a filter
   matches every transaction; the limit is positive, the handler sees to it. *)

Stored == [i \in DOMAIN txOrder |-> transactions[txOrder[i]]]

Matches(t, filter) == /\ filter.status \in {Nil, t.status}
                      /\ filter.processor \in {Nil, t.event.processor}

(* The loop over the order list, which keeps what the filter matches. *)
Matching(filter) ==
  LET kept[n \in 0..Len(Stored)] ==
        IF n = 0 THEN <<>>
        ELSE IF Matches(Stored[n], filter) THEN Append(kept[n - 1], Stored[n]) ELSE kept[n - 1]
  IN  kept[Len(Stored)]

ListSkippingOne(filter) ==   \* mutant: the page starts one transaction late
  LET matching == Matching(filter)
      last     == filter.offset + filter.limit
  IN  SubSeq(matching, filter.offset + 2, IF last < Len(matching) THEN last ELSE Len(matching))
ListTransactions(filter) ==
  LET matching == Matching(filter)
      last     == filter.offset + filter.limit
  IN  SubSeq(matching, filter.offset + 1, IF last < Len(matching) THEN last ELSE Len(matching))

(* The transactions created in a range, each at its place in the insertion
   order; CreatedAt is the timestamp of the event. *)
Created(start, end) ==
  {i \in DOMAIN Stored : start <= Stored[i].event.ts /\ Stored[i].event.ts <= end}
GetAllTransactionsInRange(start, end) == [i \in Created(start, end) |-> Stored[i]]

GetDecisionLogs(id) == decisions[id]
=============================================================================

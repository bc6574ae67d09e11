------------------------- MODULE RetryLedgerProofs -------------------------
(***************************************************************************)
(* Proofs about what requests leave behind.  What a submission may rely    *)
(* on: that it is retried once, that its audit log is the chain it answers *)
(* with, that the store shows that chain, and that the store seen from     *)
(* outside is RetryLifecycle.  Where attempts are made and what is         *)
(* counted: that they are routed away from outages, what they cost, and    *)
(* what the orchestrator and the health tracker have taken down of the     *)
(* outcomes of attempts and reports.                                       *)
(***************************************************************************)
EXTENDS RetryOrchestratorProofs, SequenceTheorems

-----------------------------------------------------------------------------
(* One chain and one audit trail, when nobody resets *)

Trail(r) == [i \in 1..Logged(r) |-> [number |-> i,
                                     source |-> call[r].event.processor,
                                     target |-> tx[r].attempts[i].processor]]

AuditOK(r) == Accepted(r) => /\ Exists(call[r].event.id)
                             /\ decisions[call[r].event.id] = Trail(r)

(* Nothing is logged for a transaction that is not stored, so the chain that
   gets past SaveTransaction starts an empty log. *)
UnstoredUnlogged == \A id \in TxnIds : ~Exists(id) => decisions[id] = <<>>

AuditInv == UnstoredUnlogged /\ OneChainPerTransaction /\ \A r \in Requests : AuditOK(r)

(* One more entry after those of a sequence known by its values. *)
LEMMA ListAppend ==
  ASSUME NEW S, NEW n \in Nat, NEW e \in [1..n+1 -> S]
  PROVE  Append([i \in 1..n |-> e[i]], e[n + 1]) = e
<1> DEFINE s == [i \in 1..n |-> e[i]]
           t == Append(s, e[n + 1])
<1>1. s \in Seq(S) /\ Len(s) = n
  OBVIOUS
<1>2. e \in Seq(S) /\ Len(e) = n + 1
  OBVIOUS
<1>3. t \in Seq(S) /\ Len(t) = n + 1
  BY <1>1
<1>4. \A i \in 1..n+1 : t[i] = e[i]
  <2>1. \A i \in 1..n : t[i] = e[i]
    BY <1>1
  <2>2. t[n + 1] = e[n + 1]
    BY <1>1
  <2> QED BY <2>1, <2>2
<1> HIDE DEF s, t
<1>5. t = e
  BY <1>2, <1>3, <1>4, SeqEqual
<1> QED BY <1>5 DEF s, t

(* What is known of a request in its chain, or answered "created". *)
LEMMA AcceptedType ==
  ASSUME TypeInv, PathInv, NEW r \in Requests, Accepted(r)
  PROVE  /\ call[r] \in Submissions /\ call[r].event.id \in TxnIds
         /\ tx[r] \in Transactions /\ tx[r].event = call[r].event
<1>1. PathOK(r) /\ StageOK(r)
  BY DEF PathInv, TypeInv
<1>2. call[r] \in Submissions /\ tx[r] \in Transactions /\ tx[r].event = call[r].event
  BY <1>1 DEF Accepted, PathOK, StageOK
<1> QED BY <1>2, EventType

LEMMA StepAudit ==
  ASSUME TypeInv, PathInv, AuditInv, NEW r \in Requests, Frame(r),
         UnstoredUnlogged', AuditOK(r)',
         \A id \in TxnIds : Exists(id) => Exists(id)',
         \A q \in Requests \ {r} : Accepted(q) =>
           /\ Accepted(r)' => call'[r].event.id # call[q].event.id
           /\ decisions'[call[q].event.id] = decisions[call[q].event.id]
  PROVE  AuditInv'
<1>1. ASSUME NEW q \in Requests \ {r}
      PROVE  /\ call'[q] = call[q] /\ (Accepted(q)' <=> Accepted(q))
             /\ Trail(q)' = Trail(q)
  BY DEF Frame, Accepted, Submitted, Trail, Logged
<1>2. ASSUME NEW q \in Requests \ {r} PROVE AuditOK(q)'
  <2>1. SUFFICES ASSUME Accepted(q)
                  PROVE  transactions'[call[q].event.id] # Nil /\ decisions'[call[q].event.id] = Trail(q)
    BY <1>1 DEF AuditOK, Exists
  <2>2. call[q].event.id \in TxnIds
    BY <2>1, AcceptedType
  <2> QED BY <2>1, <2>2 DEF AuditInv, AuditOK, Exists
<1>3. OneChainPerTransaction'
  <2> SUFFICES ASSUME NEW p \in Requests, NEW q \in Requests, Accepted(p)', Accepted(q)',
                      call'[p].event.id = call'[q].event.id
               PROVE  p = q
    BY DEF OneChainPerTransaction
  <2>1. CASE p # r /\ q # r
    BY <1>1, <2>1 DEF AuditInv, OneChainPerTransaction
  <2>2. CASE p = r \/ q = r
    BY <1>1, <2>2
  <2> QED BY <2>1, <2>2
<1> QED BY <1>2, <1>3 DEF AuditInv

(* A step after which the request is accepted only if it was, with the same
   trail, and that neither logs nor saves. *)
SameTrail(r) ==
  /\ Frame(r) /\ UNCHANGED decisions
  /\ \A id \in TxnIds : Exists(id)' <=> Exists(id)
  /\ Accepted(r)' => Accepted(r) /\ call'[r] = call[r] /\ Trail(r)' = Trail(r)

LEMMA SameTrailAudit ==
  ASSUME TypeInv, PathInv, AuditInv, NEW r \in Requests, SameTrail(r)
  PROVE  AuditInv'
<1>1. UnstoredUnlogged'
  BY DEF AuditInv, UnstoredUnlogged, SameTrail
<1>2. AuditOK(r)'
  <2>1. SUFFICES ASSUME Accepted(r)'
                  PROVE  transactions'[call[r].event.id] # Nil /\ decisions'[call[r].event.id] = Trail(r)
    BY DEF AuditOK, SameTrail, Exists
  <2>2. Accepted(r) /\ call[r].event.id \in TxnIds
    BY <2>1, AcceptedType DEF SameTrail
  <2> QED BY <2>2 DEF AuditInv, AuditOK, Exists, SameTrail
<1>3. ASSUME NEW q \in Requests \ {r}, Accepted(q), Accepted(r)'
      PROVE  call'[r].event.id # call[q].event.id
  BY <1>3 DEF SameTrail, AuditInv, OneChainPerTransaction
<1> QED BY <1>1, <1>2, <1>3, StepAudit DEF SameTrail
LEMMA SameIds ==
  ASSUME StoreTypeOK,
         \/ UNCHANGED transactions
         \/ \E id \in TxnIds, t \in Transactions : UpdateTransaction(id, t)
  PROVE  \A id \in TxnIds : Exists(id)' <=> Exists(id)
<1>1. CASE UNCHANGED transactions
  BY <1>1 DEF Exists
<1>2. ASSUME NEW id \in TxnIds, NEW t \in Transactions, UpdateTransaction(id, t)
      PROVE  \A other \in TxnIds : Exists(other)' <=> Exists(other)
  <2>1. t # Nil
    BY NilAssumption
  <2> QED BY <1>2, <2>1 DEF UpdateTransaction, Exists, StoreTypeOK
<1> QED BY <1>1, <1>2

(* Steps of requests that are not accepted submissions. *)
LEMMA OutsideAudit ==
  ASSUME TypeInv, PathInv, AuditInv, NEW r \in Requests,
         \/ ArriveAny(r) \/ RecordFailure(r) \/ RejectDuplicate(r) \/ RecordRetryOutcomeStep(r)
  PROVE  AuditInv'
<1>1. Frame(r)
  BY ServeFrame DEF Serve, ProcessFailureStep
<1>2. PathOK(r) /\ StageOK(r)
  BY DEF PathInv, TypeInv
<1>3. \A id \in TxnIds : Exists(id)' <=> Exists(id)
  <2>1. CASE ReportUpdate(r)
    <3>1. call[r].id \in TxnIds /\ tx[r] \in Transactions
      BY <1>2, <2>1 DEF ReportUpdate, Answer, Goto, StageOK, Reporting, Reports
    <3> QED BY <2>1, <3>1, SameIds DEF ReportUpdate, TypeInv, TypeOK
  <2>2. CASE UNCHANGED transactions
    BY <2>2, SameIds DEF TypeInv, TypeOK
  <2>3. ReportUpdate(r) \/ UNCHANGED transactions
    BY DEF ArriveAny, Submit, Report, Reset, Arrive, RecordFailure, RejectDuplicate,
           RecordRetryOutcomeStep, FetchUnknown, Fetch, ReportHealth, ReportAdaptive, sharedVars,
           storeVars
  <2> QED BY <2>1, <2>2, <2>3
<1>4. UNCHANGED decisions
  BY DEF ArriveAny, Submit, Report, Reset, Arrive, RecordFailure, RejectDuplicate, sharedVars,
         RecordRetryOutcomeStep, FetchUnknown, Fetch, ReportHealth, ReportAdaptive, ReportUpdate,
         UpdateTransaction, storeVars
<1>5. ~Accepted(r)'
  <2>1. CASE ArriveAny(r) \/ RecordFailure(r) \/ RejectDuplicate(r)
    <3>1. pc'[r] \notin InChain /\ reply'[r] # "created"
      BY <1>2, <2>1
      DEF ArriveAny, Submit, Report, Reset, Arrive, RecordFailure, RejectDuplicate, Answer, Goto,
          TypeInv, TypeOK, RequestTypeOK, InChain, PathOK
    <3> QED BY <3>1 DEF Accepted
  <2>2. CASE RecordRetryOutcomeStep(r)
    <3>1. call[r] \in Reports /\ call'[r] = call[r]
      BY <1>2, <2>2
      DEF RecordRetryOutcomeStep, FetchUnknown, Fetch, ReportHealth, ReportAdaptive, ReportUpdate,
          Answer, Goto, StageOK, Reporting
    <3> QED BY <3>1, CallKinds DEF Accepted, Submitted
  <2> QED BY <2>1, <2>2
<1> QED BY <1>1, <1>3, <1>4, <1>5, SameTrailAudit DEF SameTrail

(* Steps of a chain that do not log. *)
LEMMA ChainAudit ==
  ASSUME TypeInv, PathInv, AuditInv, NEW r \in Requests,
         \/ PlanAttempt(r) \/ ScanHealth(r) \/ ScanAdaptive(r) \/ SelectTarget(r)
         \/ RecordHealth(r) \/ LearnOutcome(r) \/ FinishChain(r)
  PROVE  AuditInv'
<1>1. Frame(r)
  BY ServeFrame DEF Serve, ProcessFailureStep
<1>2. PathOK(r) /\ StageOK(r)
  BY DEF PathInv, TypeInv
<1>3. pc[r] \in InChain
  BY DEF PlanAttempt, ScanHealth, ScanAdaptive, SelectTarget, RecordHealth, LearnOutcome,
         FinishChain, Answer, Goto, InChain
<1>4. Accepted(r)
  BY <1>2, <1>3, CallKinds DEF Accepted, Submitted, StageOK
<1>5. \A id \in TxnIds : Exists(id)' <=> Exists(id)
  <2>1. CASE FinishChain(r)
    <3>1. tx[r].event.id \in TxnIds /\ tx[r] \in Transactions
      BY <1>4, AcceptedType
    <3> QED BY <2>1, <3>1, SameIds DEF FinishChain, TypeInv, TypeOK
  <2>2. CASE UNCHANGED transactions
    BY <2>2, SameIds DEF TypeInv, TypeOK
  <2>3. FinishChain(r) \/ UNCHANGED transactions
    BY DEF PlanAttempt, ScanHealth, ScanAdaptive, SelectTarget, RecordHealth, LearnOutcome,
           sharedVars, storeVars
  <2> QED BY <2>1, <2>2, <2>3
<1>6. UNCHANGED decisions /\ call'[r] = call[r]
  BY DEF PlanAttempt, ScanHealth, ScanAdaptive, SelectTarget, RecordHealth, LearnOutcome,
         FinishChain, UpdateTransaction, sharedVars, storeVars
<1>7. /\ tx'[r].attempts = tx[r].attempts /\ tx'[r].retryCount = tx[r].retryCount
      /\ pc'[r] \in {"recordHealth", "recordAdaptive", "log"}
           <=> pc[r] \in {"recordHealth", "recordAdaptive", "log"}
  <2>1. tx[r] \in Transactions
    BY <1>4, AcceptedType
  <2>2. CASE SelectTarget(r)
    BY <2>2, SelectTargetRoutes
  <2>3. CASE PlanAttempt(r) \/ ScanHealth(r) \/ ScanAdaptive(r)
    BY <2>3 DEF PlanAttempt, ScanHealth, ScanAdaptive, Goto, TypeInv, TypeOK, RequestTypeOK
  <2>4. CASE RecordHealth(r) \/ LearnOutcome(r) \/ FinishChain(r)
    BY <2>4 DEF RecordHealth, LearnOutcome, FinishChain, Answer, Goto, TypeInv, TypeOK, RequestTypeOK
  <2> QED BY <2>2, <2>3, <2>4
<1>8. Trail(r)' = Trail(r)
  BY <1>6, <1>7 DEF Trail, Logged
<1> QED BY <1>1, <1>4, <1>5, <1>6, <1>8, SameTrailAudit DEF SameTrail

(* An attempt is entered before it is logged. *)
LEMMA SimulateAudit ==
  ASSUME TypeInv, ChainInv, PathInv, AuditInv, NEW r \in Requests, Simulate(r)
  PROVE  AuditInv'
<1>1. Frame(r)
  BY ServeFrame DEF Serve, ProcessFailureStep
<1>2. PathOK(r) /\ StageOK(r) /\ WorkOK(r) /\ pc[r] = "simulate" /\ pc'[r] = "recordHealth"
  BY DEF PathInv, TypeInv, ChainInv, Simulate, Goto, TypeOK, RequestTypeOK
<1>3. Accepted(r)
  BY <1>2, CallKinds DEF Accepted, Submitted, StageOK, InChain
<1>4. UNCHANGED <<transactions, decisions, call>>
  BY DEF Simulate, sharedVars, storeVars
<1>5. PICK made : /\ tx'[r].attempts = Append(tx[r].attempts, made)
                  /\ tx'[r].retryCount = tx[r].retryCount + 1
  <2>1. tx[r] \in Transactions
    BY <1>3, AcceptedType
  <2> QED BY <2>1 DEF Simulate, Transactions, TypeInv, TypeOK, RequestTypeOK
<1>6. /\ tx[r].attempts \in Seq(Attempts) /\ tx[r].retryCount = Len(tx[r].attempts)
  BY <1>2, <1>3, AcceptedType, TransactionType DEF WorkOK, InChain
<1>7. Logged(r)' = Len(tx[r].attempts) /\ Logged(r) = Len(tx[r].attempts)
  BY <1>2, <1>5, <1>6 DEF Logged
<1>8. \A i \in 1..Len(tx[r].attempts) : tx'[r].attempts[i] = tx[r].attempts[i]
  BY <1>5, <1>6
<1>9. Trail(r)' = Trail(r)
  BY <1>4, <1>7, <1>8 DEF Trail
<1> QED BY <1>1, <1>3, <1>4, <1>9, SameTrailAudit DEF SameTrail, Exists
(* SaveTransaction: a new transaction has no log and no other chain. *)
LEMMA SaveAudit ==
  ASSUME TypeInv, PathInv, AuditInv, NEW r \in Requests, SaveHard(r) \/ SaveSoft(r)
  PROVE  AuditInv'
<1> DEFINE id == call[r].event.id
<1>1. Frame(r)
  BY ServeFrame DEF Serve, ProcessFailureStep
<1>2. StageOK(r)
  BY DEF TypeInv
<1>3. call[r] \in Submissions /\ id \in TxnIds
  BY <1>2, EventType DEF SaveHard, SaveSoft, Answer, Goto, StageOK
<1>4. PICK status \in Statuses : tx'[r] = NewTransaction(call[r].event, status)
  BY DEF SaveHard, SaveSoft, Statuses, TypeInv, TypeOK, RequestTypeOK
<1>5. /\ ~Exists(id) /\ transactions' = [transactions EXCEPT ![id] = tx'[r]]
      /\ UNCHANGED decisions /\ call'[r] = call[r] /\ pc'[r] \in {"plan", "done"}
  BY DEF SaveHard, SaveSoft, SaveTransaction, Answer, Goto, TypeInv, TypeOK, RequestTypeOK
<1>6. tx'[r] # Nil
  BY <1>3, <1>4, EventType, NewTransactionType, NilAssumption
<1>7. \A other \in TxnIds : Exists(other)' <=> other = id \/ Exists(other)
  BY <1>5, <1>6 DEF Exists, TypeInv, TypeOK, StoreTypeOK
<1>8. UnstoredUnlogged'
  BY <1>5, <1>7 DEF AuditInv, UnstoredUnlogged
<1>9. Logged(r)' = 0
  BY <1>4, <1>5 DEF Logged, NewTransaction
<1>10. Trail(r)' = <<>>
  BY <1>9 DEF Trail
<1>11. decisions[id] = <<>>
  BY <1>3, <1>5 DEF AuditInv, UnstoredUnlogged
<1>12. AuditOK(r)'
  BY <1>3, <1>5, <1>7, <1>10, <1>11 DEF AuditOK, Exists
<1>13. ASSUME NEW q \in Requests \ {r}, Accepted(q) PROVE call[q].event.id # id
  BY <1>5, <1>13 DEF AuditInv, AuditOK
<1> QED BY <1>1, <1>5, <1>7, <1>8, <1>12, <1>13, StepAudit

(* LogDecision enters the attempt just recorded. *)
LEMMA LogAudit ==
  ASSUME TypeInv, ChainInv, PathInv, AuditInv, NEW r \in Requests, LogDecision(r)
  PROVE  AuditInv'
<1> DEFINE id == call[r].event.id
           n == Len(tx[r].attempts)
<1>1. Frame(r)
  BY ServeFrame DEF Serve, ProcessFailureStep
<1>2. PathOK(r) /\ StageOK(r) /\ WorkOK(r)
  BY DEF PathInv, TypeInv, ChainInv
<1>3. pc[r] = "log" /\ pc'[r] \in {"plan", "update"}
  BY DEF LogDecision, Goto, TypeInv, TypeOK, RequestTypeOK
<1>4. Accepted(r)
  BY <1>2, <1>3, CallKinds DEF Accepted, Submitted, StageOK, InChain
<1>5. tx[r] \in Transactions /\ call[r] \in Submissions /\ tx[r].event = call[r].event /\ id \in TxnIds
  BY <1>4, AcceptedType
<1>6. /\ UNCHANGED <<transactions, call>>
      /\ decisions' = [decisions EXCEPT ![id] = Append(decisions[id], Decision(r))]
      /\ tx'[r].attempts = tx[r].attempts /\ tx'[r].retryCount = tx[r].retryCount
  BY <1>5 DEF LogDecision, SaveDecisionLog, Transactions, TypeInv, TypeOK, RequestTypeOK
<1>7. /\ n \in Nat /\ n > 0 /\ tx[r].retryCount = n
      /\ tx[r].attempts[n] = attempt[r] /\ attempt[r].number = n
      /\ n \in 1..MaxRetries
      /\ \A i \in 1..n : tx[r].attempts[i] \in Attempts
  <2>1. tx[r].attempts \in Seq(Attempts) /\ tx[r].retryCount \in 0..MaxRetries
    BY <1>5, TransactionType
  <2>2. tx[r].retryCount = n /\ n > 0 /\ tx[r].attempts[n] = attempt[r]
        /\ \A i \in 1..n : tx[r].attempts[i].number = i
    BY <1>2, <1>3 DEF WorkOK, InChain, Recording
  <2>3. MaxRetries \in Nat
    BY ConstantTypes
  <2> QED BY <2>1, <2>2, <2>3
<1> DEFINE e == [i \in 1..n |-> [number |-> i, source |-> call[r].event.processor,
                                 target |-> tx[r].attempts[i].processor]]
<1>8. Logged(r) = n - 1 /\ Logged(r)' = n
  BY <1>3, <1>6, <1>7 DEF Logged
<1>9. Trail(r)' = e /\ Trail(r) = [i \in 1..n-1 |-> e[i]]
  BY <1>6, <1>7, <1>8 DEF Trail
<1>10. Decision(r) = e[n]
  BY <1>5, <1>7 DEF Decision
<1>11. e \in [1..n -> DecisionLogs]
  <2>1. call[r].event.processor \in Processors
    BY <1>5, EventType
  <2>2. ASSUME NEW i \in 1..n PROVE tx[r].attempts[i].processor \in Processors /\ i \in 1..MaxRetries
    BY <1>7, AttemptType, ConstantTypes
  <2> QED BY <2>1, <2>2 DEF DecisionLogs
<1> HIDE DEF e, n
<1>12. Append([i \in 1..n-1 |-> e[i]], e[n]) = e
  <2>1. n - 1 \in Nat /\ (n - 1) + 1 = n
    BY <1>7
  <2>2. e \in [1..(n - 1)+1 -> DecisionLogs]
    BY <1>11, <2>1
  <2>3. Append([i \in 1..n-1 |-> e[i]], e[(n - 1) + 1]) = e
    BY <2>1, <2>2, ListAppend
  <2> QED BY <2>1, <2>3
<1>13. decisions[id] = Trail(r) /\ Exists(id)
  BY <1>4 DEF AuditInv, AuditOK
<1>14. decisions'[id] = Trail(r)'
  BY <1>5, <1>6, <1>9, <1>10, <1>12, <1>13 DEF TypeInv, TypeOK, StoreTypeOK
<1>15. AuditOK(r)'
  BY <1>6, <1>13, <1>14 DEF AuditOK, Exists
<1>16. ASSUME NEW other \in TxnIds, other # id PROVE decisions'[other] = decisions[other]
  BY <1>6, <1>16 DEF TypeInv, TypeOK, StoreTypeOK
<1>17. UnstoredUnlogged'
  BY <1>6, <1>13, <1>16 DEF AuditInv, UnstoredUnlogged, Exists
<1>18. ASSUME NEW q \in Requests \ {r}, Accepted(q)
       PROVE  call[q].event.id # id /\ call[q].event.id \in TxnIds
  BY <1>4, <1>18, AcceptedType DEF AuditInv, OneChainPerTransaction
<1> QED BY <1>1, <1>6, <1>15, <1>16, <1>17, <1>18, StepAudit DEF Exists

LEMMA InitAudit == Init => AuditInv
BY DEF Init, StoreInit, AuditInv, UnstoredUnlogged, OneChainPerTransaction, AuditOK, Accepted,
       Submitted, Exists

LEMMA NextAudit ==
  ASSUME "reset" \notin Operations, TypeInv, ChainInv, PathInv, AuditInv, [Next]_vars
  PROVE  AuditInv'
<1>1. CASE UNCHANGED <<transactions, decisions, localVars>>
  BY <1>1 DEF AuditInv, UnstoredUnlogged, OneChainPerTransaction, AuditOK, Accepted, Submitted,
              Trail, Logged, Exists, localVars
<1>2. ASSUME NEW r \in Requests, ArriveAny(r) \/ Serve(r) PROVE AuditInv'
  <2>1. ~ResetStep(r)
    BY DEF ResetStep, ResetStore, ResetHealth, Answer, Goto, PathInv, PathOK
  <2> QED BY <1>2, <2>1, OutsideAudit, ChainAudit, SimulateAudit, SaveAudit, LogAudit
          DEF Serve, ProcessFailureStep
<1> QED BY <1>1, <1>2 DEF Next, ClockTick, Quiet, vars, sharedVars, storeVars

(* When clients do not reset, AuditInv is inductive. *)
THEOREM AuditInvariant == ASSUME "reset" \notin Operations PROVE Spec => []AuditInv
<1>1. TypeInv /\ ChainInv /\ PathInv /\ AuditInv /\ [Next]_vars => AuditInv'
  BY NextAudit
<1> QED BY <1>1, TypeInvariant, ChainInvariant, PathInvariant, InitAudit, PTL DEF Spec

(* However many submissions of a transaction are served at a time, at most
   one is retried (SaveTransaction); without resets. *)
THEOREM OneChain == ASSUME "reset" \notin Operations PROVE Spec => []OneChainPerTransaction
<1>1. AuditInv => OneChainPerTransaction
  BY DEF AuditInv
<1> QED BY <1>1, AuditInvariant, PTL

(* The decision log of a transaction lists, in order and without gaps, the
   attempts its submission has made (SaveDecisionLog); without resets. *)
THEOREM AuditComplete == ASSUME "reset" \notin Operations PROVE Spec => []AuditMatchesReply
<1>1. AuditInv => AuditMatchesReply
  BY DEF AuditInv, AuditOK, Trail, AuditMatchesReply
<1> QED BY <1>1, AuditInvariant, PTL
-----------------------------------------------------------------------------
(* The store and the requests that work on it, when clients only submit or
   are served one at a time *)

Apart == Operations \subseteq {"submit"} \/ MaxInFlight = 1

(* With room for one request, one is in flight. *)
OneInFlight == \A r, q \in Requests : r \in InFlight /\ q \in InFlight => r = q

(* Until its chain is over the store shows a transaction as it was accepted;
   an outcome report holds the transaction that is in the store, or that
   transaction recovered. *)
LinkOK(r) ==
  /\ pc[r] \in InChain =>
       transactions[call[r].event.id] = NewTransaction(call[r].event, "RETRYING")
  /\ pc[r] \in Reporting =>
       LET t == transactions[call[r].id]
       IN  /\ t # Nil
           /\ tx[r] = IF /\ pc[r] = "reportUpdate" /\ call[r].success
                         /\ t.status \in {"RETRYING", "EXHAUSTED"}
                        THEN [t EXCEPT !.status = "RECOVERED"] ELSE t

LinkInv == /\ \A r \in Requests : LinkOK(r)
           /\ MaxInFlight = 1 => OneInFlight
           /\ Operations \subseteq {"submit"} => AuditInv

(* A step of one request leaves the transactions others work on alone. *)
Untouched(r) ==
  \A q \in Requests \ {r} :
    /\ pc[q] \in InChain => transactions'[call[q].event.id] = transactions[call[q].event.id]
    /\ pc[q] \in Reporting => transactions'[call[q].id] = transactions[call[q].id]

LEMMA InFlightStep == ASSUME TypeInv, NEW r \in Requests, Serve(r) PROVE r \in InFlight
<1>1. pc[r] \notin {"idle", "done"}
  BY DEF Serve, ProcessFailureStep, RecordRetryOutcomeStep, ResetStep, RecordFailure,
         RejectDuplicate, SaveHard, SaveSoft, PlanAttempt, ScanHealth, ScanAdaptive, SelectTarget,
         Simulate, RecordHealth, LearnOutcome, LogDecision, FinishChain, FetchUnknown, Fetch,
         ReportHealth, ReportAdaptive, ReportUpdate, ResetStore, ResetHealth, Answer, Goto
<1> QED BY <1>1 DEF InFlight

LEMMA NextOneInFlight ==
  ASSUME TypeInv, OneInFlight, MaxInFlight = 1, NEW r \in Requests, ArriveAny(r) \/ Serve(r)
  PROVE  OneInFlight'
<1>1. \A q \in Requests \ {r} : q \in InFlight' <=> q \in InFlight
  BY ServeFrame DEF Frame, InFlight
<1>2. CASE Serve(r)
  <2>1. r \in InFlight
    BY <1>2, InFlightStep
  <2> QED BY <1>1, <2>1 DEF OneInFlight
<1>3. CASE ArriveAny(r)
  <2>1. Cardinality(InFlight) < 1
    BY <1>3 DEF ArriveAny, Submit, Report, Reset, Arrive
  <2>2. IsFiniteSet(InFlight)
    <3>1. InFlight \in SUBSET Requests /\ IsFiniteSet(Requests)
      BY OrchestratorAssumption DEF InFlight
    <3> QED BY <3>1, FS_Subset
  <2>3. InFlight = {}
    BY <2>1, <2>2, FS_CardinalityType, FS_EmptySet
  <2> QED BY <1>1, <2>3 DEF OneInFlight
<1> QED BY <1>2, <1>3

(* When clients only submit, the store changes where the step's own request
   is or becomes the accepted one. *)
LEMMA SubmissionsUntouched ==
  ASSUME TypeInv, PathInv, AuditInv, Operations \subseteq {"submit"},
         NEW r \in Requests, Serve(r),
         NEW q \in Requests \ {r}, Accepted(q)
  PROVE  transactions'[call[q].event.id] = transactions[call[q].event.id]
<1>1. Exists(call[q].event.id) /\ call[q].event.id \in TxnIds
  BY AcceptedType DEF AuditInv, AuditOK
<1>2. CASE SaveHard(r) \/ SaveSoft(r)
  <2>1. /\ ~Exists(call[r].event.id) /\ call[r].event.id \in TxnIds
        /\ transactions' = [transactions EXCEPT ![call[r].event.id] = tx'[r]]
    BY <1>2, EventType DEF SaveHard, SaveSoft, SaveTransaction, Answer, Goto, TypeInv, StageOK
  <2> QED BY <1>1, <2>1 DEF TypeInv, TypeOK, StoreTypeOK
<1>3. CASE FinishChain(r)
  <2>1. pc[r] \in InChain /\ call[r] \in Submissions /\ tx[r].event = call[r].event
    BY <1>3 DEF FinishChain, Answer, Goto, InChain, TypeInv, StageOK
  <2>2. Accepted(r)
    BY <2>1, CallKinds DEF Accepted, Submitted
  <2>3. call[q].event.id # call[r].event.id
    BY <2>2 DEF AuditInv, OneChainPerTransaction
  <2> QED BY <1>1, <1>3, <2>1, <2>3
      DEF FinishChain, UpdateTransaction, TypeInv, TypeOK, StoreTypeOK
<1>4. UNCHANGED transactions \/ SaveHard(r) \/ SaveSoft(r) \/ FinishChain(r)
  <2>1. ~ReportUpdate(r) /\ ~ResetStore(r)
    BY DEF ReportUpdate, ResetStore, Answer, Goto, PathInv, PathOK, Reporting
  <2> QED BY <2>1
      DEF Serve, ProcessFailureStep, RecordRetryOutcomeStep, ResetStep, RecordFailure,
          RejectDuplicate, PlanAttempt, ScanHealth, ScanAdaptive, SelectTarget, Simulate,
          RecordHealth, LearnOutcome, LogDecision, SaveDecisionLog, FetchUnknown, Fetch,
          ReportHealth, ReportAdaptive, ResetHealth, sharedVars, storeVars
<1> QED BY <1>2, <1>3, <1>4

LEMMA OthersUntouched ==
  ASSUME TypeInv, PathInv, LinkInv, Apart, NEW r \in Requests, Serve(r)
  PROVE  Untouched(r)
<1>1. CASE MaxInFlight = 1
  <2>1. \A q \in Requests \ {r} : q \notin InFlight
    BY <1>1, InFlightStep DEF LinkInv, OneInFlight
  <2>2. \A q \in Requests \ {r} : pc[q] \in {"idle", "done"}
    BY <2>1 DEF InFlight
  <2> QED BY <2>2 DEF Untouched, InChain, Reporting
<1>2. CASE Operations \subseteq {"submit"}
  <2>1. ASSUME NEW q \in Requests \ {r}, pc[q] \in InChain
        PROVE  transactions'[call[q].event.id] = transactions[call[q].event.id]
    <3>1. call[q] \in Submissions
      BY <2>1 DEF TypeInv, StageOK
    <3>2. Accepted(q)
      BY <2>1, <3>1, CallKinds DEF Accepted, Submitted
    <3> QED BY <1>2, <3>2, SubmissionsUntouched DEF LinkInv
  <2>2. ASSUME NEW q \in Requests, pc[q] \in Reporting PROVE FALSE
    BY <1>2, <2>2 DEF PathInv, PathOK
  <2> QED BY <2>1, <2>2 DEF Untouched
<1> QED BY <1>1, <1>2 DEF Apart

LEMMA ServeLink ==
  ASSUME TypeInv, PathInv, LinkInv, Apart, NEW r \in Requests, Serve(r)
  PROVE  LinkOK(r)'
<1>1. LinkOK(r) /\ StageOK(r) /\ PathOK(r)
  BY DEF LinkInv, TypeInv, PathInv
<1> USE DEF Goto, Answer, TypeInv, TypeOK, RequestTypeOK
<1>2. CASE SaveSoft(r)
  <2>1. call[r].event.id \in TxnIds
    BY <1>1, <1>2, EventType DEF SaveSoft, StageOK
  <2>2. /\ transactions'[call[r].event.id] = NewTransaction(call[r].event, "RETRYING")
        /\ call'[r] = call[r] /\ pc'[r] = "plan"
    BY <1>2, <2>1 DEF SaveSoft, SaveTransaction, StoreTypeOK
  <2> QED BY <2>2 DEF LinkOK, Reporting
<1>3. CASE \/ PlanAttempt(r) \/ ScanHealth(r) \/ ScanAdaptive(r) \/ SelectTarget(r)
           \/ Simulate(r) \/ RecordHealth(r) \/ LearnOutcome(r) \/ LogDecision(r)
  <2>1. pc[r] \in InChain /\ UNCHANGED <<transactions, call>> /\ pc'[r] \in InChain
    BY <1>3, SelectTargetRoutes
    DEF PlanAttempt, ScanHealth, ScanAdaptive, SelectTarget, Simulate, RecordHealth, LearnOutcome,
        LogDecision, SaveDecisionLog, sharedVars, storeVars, InChain
  <2> QED BY <1>1, <2>1 DEF LinkOK, InChain, Reporting
<1>4. CASE \/ RecordFailure(r) \/ RejectDuplicate(r) \/ SaveHard(r) \/ FinishChain(r)
           \/ FetchUnknown(r) \/ ReportUpdate(r) \/ ResetStore(r) \/ ResetHealth(r)
  <2>1. pc'[r] \notin InChain \cup Reporting
    BY <1>4 DEF RecordFailure, RejectDuplicate, SaveHard, FinishChain, FetchUnknown, ReportUpdate,
                ResetStore, ResetHealth, InChain, Reporting
  <2> QED BY <2>1 DEF LinkOK
<1>5. CASE Fetch(r)
  <2>1. /\ transactions'[call[r].id] # Nil /\ tx'[r] = transactions'[call[r].id]
        /\ call'[r] = call[r] /\ pc'[r] = "reportHealth"
    BY <1>5 DEF Fetch, Exists, sharedVars, storeVars
  <2> QED BY <2>1 DEF LinkOK, InChain
<1>6. CASE ReportHealth(r)
  <2>1. /\ UNCHANGED transactions /\ tx'[r] = tx[r] /\ call'[r] = call[r]
        /\ pc[r] = "reportHealth" /\ pc'[r] = "reportAdaptive"
    BY <1>6 DEF ReportHealth, storeVars
  <2> QED BY <1>1, <2>1 DEF LinkOK, InChain, Reporting
<1>7. CASE ReportAdaptive(r)
  <2>1. /\ UNCHANGED transactions /\ call'[r] = call[r]
        /\ tx'[r] = [tx[r] EXCEPT !.status = StatusAfterReport(r)]
        /\ pc[r] = "reportAdaptive" /\ pc'[r] = "reportUpdate"
    BY <1>7 DEF ReportAdaptive, storeVars
  <2>2. /\ tx[r] = transactions[call[r].id] /\ tx[r] # Nil /\ tx[r] \in Transactions
        /\ attempt[r].success = call[r].success
    BY <1>1, <2>1 DEF LinkOK, Reporting, StageOK, PathOK
  <2>3. [tx[r] EXCEPT !.status = tx[r].status] = tx[r]
    BY <2>2 DEF Transactions
  <2>4. tx'[r] = IF call[r].success /\ tx[r].status \in {"RETRYING", "EXHAUSTED"}
                   THEN [tx[r] EXCEPT !.status = "RECOVERED"] ELSE tx[r]
    BY <2>1, <2>2, <2>3 DEF StatusAfterReport
  <2> QED BY <2>1, <2>2, <2>4 DEF LinkOK, InChain, Reporting
<1> QED BY <1>2, <1>3, <1>4, <1>5, <1>6, <1>7
    DEF Serve, ProcessFailureStep, RecordRetryOutcomeStep, ResetStep

LEMMA InitLink == Init => LinkInv
BY InitAudit DEF Init, LinkInv, LinkOK, OneInFlight, InFlight, InChain, Reporting

LEMMA NextLink ==
  ASSUME Apart, TypeInv, ChainInv, PathInv, LinkInv, [Next]_vars
  PROVE  LinkInv'
<1>1. Operations \subseteq {"submit"} => AuditInv'
  BY NextAudit DEF LinkInv
<1>2. CASE UNCHANGED <<transactions, localVars>>
  BY <1>1, <1>2 DEF LinkInv, LinkOK, OneInFlight, InFlight, localVars
<1>3. ASSUME NEW r \in Requests, ArriveAny(r) \/ Serve(r) PROVE LinkInv'
  <2>1. MaxInFlight = 1 => OneInFlight'
    BY <1>3, NextOneInFlight DEF LinkInv
  <2>2. Frame(r)
    BY <1>3, ServeFrame
  <2>3. Untouched(r) /\ LinkOK(r)'
    <3>1. CASE Serve(r)
      BY <3>1, OthersUntouched, ServeLink
    <3>2. CASE ArriveAny(r)
      <4>1. UNCHANGED transactions /\ pc'[r] \in {"recordFailure", "fetch", "resetStore"}
        BY <3>2
        DEF ArriveAny, Submit, Report, Reset, Arrive, Goto, sharedVars, storeVars, TypeInv, TypeOK,
            RequestTypeOK
      <4> QED BY <4>1 DEF Untouched, LinkOK, InChain, Reporting
    <3> QED BY <1>3, <3>1, <3>2
  <2>4. ASSUME NEW q \in Requests \ {r} PROVE LinkOK(q)'
    <3>1. pc'[q] = pc[q] /\ call'[q] = call[q] /\ tx'[q] = tx[q] /\ LinkOK(q)
      BY <2>2 DEF Frame, LinkInv
    <3> QED BY <2>3, <3>1 DEF LinkOK, Untouched
  <2> QED BY <1>1, <2>1, <2>3, <2>4 DEF LinkInv
<1> QED BY <1>2, <1>3 DEF Next, ClockTick, Quiet, vars, sharedVars, storeVars

(* When clients only submit, or requests are served one at a time, LinkInv
   is inductive. *)
THEOREM LinkInvariant == ASSUME Apart PROVE Spec => []LinkInv
<1>1. TypeInv /\ ChainInv /\ PathInv /\ LinkInv /\ [Next]_vars => LinkInv'
  BY NextLink
<1> QED BY <1>1, TypeInvariant, ChainInvariant, PathInvariant, InitLink, PTL DEF Spec
LEMMA NextReply ==
  ASSUME Operations \subseteq {"submit"}, TypeInv, PathInv, LinkInv, ReplyMatchesStore, [Next]_vars
  PROVE  ReplyMatchesStore'
<1>1. CASE UNCHANGED <<transactions, localVars>>
  BY <1>1 DEF ReplyMatchesStore, Submitted, localVars
<1>2. ASSUME NEW r \in Requests, ArriveAny(r) PROVE ReplyMatchesStore'
  <2>1. UNCHANGED <<transactions, tx, reply>> /\ Frame(r) /\ reply[r] # "created"
    BY <1>2, ServeFrame
    DEF ArriveAny, Submit, Report, Reset, Arrive, Goto, sharedVars, storeVars, PathInv, PathOK
  <2> QED BY <2>1 DEF ReplyMatchesStore, Submitted, Frame
<1>3. ASSUME NEW r \in Requests, Serve(r) PROVE ReplyMatchesStore'
  <2>1. Frame(r)
    BY <1>3, ServeFrame
  <2>2. ASSUME NEW q \in Requests \ {r}, Submitted(q)', reply'[q] = "created"
        PROVE  transactions'[call'[q].event.id] = tx'[q]
    <3>1. Accepted(q) /\ call'[q] = call[q] /\ tx'[q] = tx[q] /\ reply[q] = "created"
      BY <2>1, <2>2 DEF Frame, Accepted, Submitted
    <3>2. transactions'[call[q].event.id] = transactions[call[q].event.id]
      BY <1>3, <3>1, SubmissionsUntouched DEF LinkInv
    <3> QED BY <3>1, <3>2 DEF ReplyMatchesStore, Accepted
  <2>3. ASSUME reply'[r] = "created" PROVE transactions'[call'[r].event.id] = tx'[r]
    <3>1. reply[r] # "created"
      <4>1. r \in InFlight
        BY <1>3, InFlightStep
      <4> QED BY <4>1 DEF InFlight, PathInv, PathOK
    <3>2. CASE SaveHard(r)
      <4>1. call[r].event.id \in TxnIds
        BY <3>2, EventType DEF SaveHard, Answer, Goto, TypeInv, StageOK
      <4> QED BY <3>2, <4>1 DEF SaveHard, SaveTransaction, TypeInv, TypeOK, StoreTypeOK
    <3>3. CASE FinishChain(r)
      <4>1. pc[r] \in InChain /\ call[r] \in Submissions /\ tx[r].event = call[r].event
        BY <3>3 DEF FinishChain, Answer, Goto, InChain, TypeInv, StageOK
      <4>2. Accepted(r) /\ call[r].event.id \in TxnIds
        BY <4>1, CallKinds, EventType DEF Accepted, Submitted
      <4>3. Exists(call[r].event.id)
        BY <4>2 DEF LinkInv, AuditInv, AuditOK
      <4> QED BY <3>3, <4>1, <4>2, <4>3
          DEF FinishChain, UpdateTransaction, TypeInv, TypeOK, StoreTypeOK
    <3>4. SaveHard(r) \/ FinishChain(r)
      BY <1>3, <2>3, <3>1
      DEF Serve, ProcessFailureStep, RecordRetryOutcomeStep, ResetStep, RecordFailure,
          RejectDuplicate, SaveSoft, PlanAttempt, ScanHealth, ScanAdaptive, SelectTarget, Simulate,
          RecordHealth, LearnOutcome, LogDecision, FetchUnknown, Fetch, ReportHealth,
          ReportAdaptive, ReportUpdate, ResetStore, ResetHealth, Answer, TypeInv, TypeOK,
          RequestTypeOK
    <3> QED BY <3>2, <3>3, <3>4
  <2> QED BY <2>2, <2>3 DEF ReplyMatchesStore
<1> QED BY <1>1, <1>2, <1>3 DEF Next, ClockTick, Quiet, vars, sharedVars, storeVars

(* What a submission was answered stays what the store shows
   (executeRetryChain, UpdateTransaction), when clients only submit. *)
THEOREM RepliesStored == ASSUME Operations \subseteq {"submit"} PROVE Spec => []ReplyMatchesStore
<1>1. Init => ReplyMatchesStore
  BY DEF Init, ReplyMatchesStore, Submitted
<1>2. TypeInv /\ PathInv /\ LinkInv /\ ReplyMatchesStore /\ [Next]_vars => ReplyMatchesStore'
  BY NextReply
<1>3. Spec => []LinkInv
  BY LinkInvariant DEF Apart
<1> QED BY <1>1, <1>2, <1>3, TypeInvariant, PathInvariant, PTL DEF Spec

-----------------------------------------------------------------------------
(* The store implements the life of a transaction *)

StatusSeen == [id \in TxnIds |-> IF Exists(id) THEN transactions[id].status ELSE "ABSENT"]
TriesSeen  == [id \in TxnIds |-> IF Exists(id) THEN transactions[id].retryCount ELSE 0]

LEMMA SeenSame == UNCHANGED transactions => UNCHANGED <<StatusSeen, TriesSeen>>
BY DEF StatusSeen, TriesSeen, Exists

(* Writing a record. *)
LEMMA SeenSaved ==
  ASSUME TypeInv, NEW id \in TxnIds, NEW t, t # Nil,
         transactions' = [transactions EXCEPT ![id] = t]
  PROVE  /\ StatusSeen' = [StatusSeen EXCEPT ![id] = t.status]
         /\ TriesSeen' = [TriesSeen EXCEPT ![id] = t.retryCount]
<1>1. transactions'[id] = t /\ \A other \in TxnIds \ {id} : transactions'[other] = transactions[other]
  BY DEF TypeInv, TypeOK, StoreTypeOK
<1>2. \A other \in TxnIds :
        /\ StatusSeen'[other] = IF other = id THEN t.status ELSE StatusSeen[other]
        /\ TriesSeen'[other] = IF other = id THEN t.retryCount ELSE TriesSeen[other]
  BY <1>1 DEF StatusSeen, TriesSeen, Exists
<1>3. /\ StatusSeen' = [other \in TxnIds |-> StatusSeen'[other]]
      /\ TriesSeen' = [other \in TxnIds |-> TriesSeen'[other]]
      /\ DOMAIN StatusSeen = TxnIds /\ DOMAIN TriesSeen = TxnIds
  BY DEF StatusSeen, TriesSeen
<1> QED BY <1>2, <1>3

LEMMA SaveLives ==
  ASSUME TypeInv, NEW r \in Requests, SaveHard(r) \/ SaveSoft(r)
  PROVE  Life!LifeNext
<1>1. call[r] \in Submissions
  BY DEF TypeInv, StageOK, SaveHard, SaveSoft, Answer, Goto
<1> PICK id \in TxnIds : id = call[r].event.id
  BY <1>1, EventType
<1>2. PICK status \in {"HARD_DECLINED", "RETRYING"} :
        transactions' = [transactions EXCEPT ![id] = NewTransaction(call[r].event, status)]
  BY DEF SaveHard, SaveSoft, SaveTransaction, TypeInv, TypeOK, RequestTypeOK
<1> DEFINE t == NewTransaction(call[r].event, status)
<1>3. /\ id \in TxnIds /\ ~Exists(id) /\ t # Nil /\ t.status = status /\ t.retryCount = 0
  <2>1. t \in Transactions /\ id \in TxnIds
    BY <1>1, EventType, NewTransactionType DEF Statuses
  <2>2. t.status = status /\ t.retryCount = 0
    BY DEF NewTransaction
  <2> QED BY <2>1, <2>2, NilAssumption DEF SaveHard, SaveSoft
<1> HIDE DEF t
<1>4. /\ StatusSeen' = [StatusSeen EXCEPT ![id] = status]
      /\ TriesSeen' = [TriesSeen EXCEPT ![id] = 0]
  <2>1. transactions' = [transactions EXCEPT ![id] = t]
    BY <1>2 DEF t
  <2> QED BY <1>3, <2>1, SeenSaved
<1>5. StatusSeen[id] = "ABSENT" /\ TriesSeen[id] = 0
  BY <1>3 DEF StatusSeen, TriesSeen
<1>6. TriesSeen' = TriesSeen
  BY <1>4, <1>5 DEF TriesSeen
<1>7. Life!DeclineHard(id) \/ Life!StartRetrying(id)
  BY <1>2, <1>4, <1>5, <1>6 DEF Life!DeclineHard, Life!StartRetrying, Life!Become, StatusSeen, TriesSeen
<1> QED BY <1>3, <1>7 DEF Life!LifeNext

LEMMA FinishLives ==
  ASSUME Apart, TypeInv, ChainInv, PathInv, LinkInv, NEW r \in Requests, FinishChain(r)
  PROVE  Life!LifeNext
<1>1. StageOK(r) /\ WorkOK(r) /\ PathOK(r) /\ LinkOK(r) /\ pc[r] = "update"
  BY DEF TypeInv, ChainInv, PathInv, LinkInv, FinishChain, Answer, Goto
<1> PICK id \in TxnIds : id = call[r].event.id
  BY <1>1, EventType DEF StageOK, InChain
<1>2. call[r] \in Submissions /\ tx[r] \in Transactions /\ tx[r].event = call[r].event /\ id \in TxnIds
  BY <1>1, EventType DEF StageOK, InChain
<1>3. transactions[id] = NewTransaction(call[r].event, "RETRYING")
  BY <1>1 DEF LinkOK, InChain
<1>4. transactions[id] # Nil
  BY <1>2, <1>3, EventType, NewTransactionType, NilAssumption DEF Statuses
<1>5. transactions' = [transactions EXCEPT ![id] = tx[r]] /\ tx[r] # Nil
  BY <1>2, <1>4, NilAssumption DEF FinishChain, UpdateTransaction, Exists
<1>6. StatusSeen[id] = "RETRYING"
  BY <1>2, <1>3, <1>4 DEF StatusSeen, Exists, NewTransaction
<1>7. /\ StatusSeen' = [StatusSeen EXCEPT ![id] = tx[r].status]
      /\ TriesSeen' = [TriesSeen EXCEPT ![id] = tx[r].retryCount]
  BY <1>2, <1>5, SeenSaved
<1>8. /\ tx[r].retryCount \in 1..MaxRetries
      /\ tx[r].status \in {"RECOVERED", "EXHAUSTED"}
      /\ tx[r].status = "EXHAUSTED" => tx[r].retryCount = MaxRetries
  <2>1. tx[r].retryCount \in 0..MaxRetries /\ tx[r].retryCount # 0 /\ MaxRetries \in Nat
    BY <1>1, <1>2, TransactionType, ConstantTypes DEF PathOK
  <2> QED BY <1>1, <2>1 DEF WorkOK, WholeChain
<1>9. Life!Resolve(id)
  BY <1>6, <1>7, <1>8 DEF Life!Resolve, Life!Become, StatusSeen, TriesSeen
<1> QED BY <1>2, <1>9 DEF Life!LifeNext

LEMMA ReportLives ==
  ASSUME Apart, TypeInv, PathInv, LinkInv, NEW r \in Requests, ReportUpdate(r)
  PROVE  [Life!LifeNext]_<<StatusSeen, TriesSeen>>
<1>1. StageOK(r) /\ PathOK(r) /\ LinkOK(r) /\ pc[r] = "reportUpdate"
  BY DEF TypeInv, PathInv, LinkInv, ReportUpdate, Answer, Goto
<1> PICK id \in TxnIds : id = call[r].id
  BY <1>1 DEF StageOK, Reporting, Reports
<1> DEFINE t == transactions[id]
<1>2. id \in TxnIds /\ t # Nil /\ tx[r] \in Transactions /\ "report" \in Operations
  BY <1>1 DEF StageOK, LinkOK, PathOK, Reporting, Reports
<1>3. t \in Transactions
  BY <1>2 DEF TypeInv, TypeOK, StoreTypeOK
<1>4. transactions' = [transactions EXCEPT ![id] = tx[r]] /\ tx[r] # Nil
  BY <1>2, NilAssumption DEF ReportUpdate, UpdateTransaction, Exists
<1>5. CASE tx[r] = t
  <2>1. UNCHANGED transactions
    BY <1>2, <1>4, <1>5 DEF TypeInv, TypeOK, StoreTypeOK
  <2> QED BY <2>1, SeenSame
<1>6. CASE /\ tx[r] = [t EXCEPT !.status = "RECOVERED"]
           /\ t.status \in {"RETRYING", "EXHAUSTED"}
  <2>1. tx[r].status = "RECOVERED" /\ tx[r].retryCount = t.retryCount
    BY <1>3, <1>6 DEF Transactions
  <2>2. /\ StatusSeen' = [StatusSeen EXCEPT ![id] = "RECOVERED"]
        /\ TriesSeen' = [TriesSeen EXCEPT ![id] = t.retryCount]
    <3>1. /\ StatusSeen' = [StatusSeen EXCEPT ![id] = tx[r].status]
          /\ TriesSeen' = [TriesSeen EXCEPT ![id] = tx[r].retryCount]
      BY <1>2, <1>4, SeenSaved
    <3> QED BY <2>1, <3>1
  <2>3. StatusSeen[id] = t.status /\ TriesSeen[id] = t.retryCount
    BY <1>2 DEF StatusSeen, TriesSeen, Exists
  <2>4. TriesSeen' = TriesSeen
    BY <2>2, <2>3 DEF TriesSeen
  <2>5. Life!RecoverOutside(id)
    BY <1>2, <1>6, <2>2, <2>3, <2>4 DEF Life!RecoverOutside, Life!Become, StatusSeen, TriesSeen
  <2> QED BY <1>2, <2>5 DEF Life!LifeNext
<1>7. \/ tx[r] = t
      \/ tx[r] = [t EXCEPT !.status = "RECOVERED"] /\ t.status \in {"RETRYING", "EXHAUSTED"}
  BY <1>1 DEF LinkOK, Reporting
<1> QED BY <1>5, <1>6, <1>7

LEMMA NextLives ==
  ASSUME Apart, TypeInv, ChainInv, PathInv, LinkInv, [Next]_vars
  PROVE  [Life!LifeNext]_<<StatusSeen, TriesSeen>>
<1>1. CASE UNCHANGED transactions
  BY <1>1, SeenSame
<1>2. ASSUME NEW r \in Requests, SaveHard(r) \/ SaveSoft(r) \/ FinishChain(r) \/ ReportUpdate(r)
      PROVE  [Life!LifeNext]_<<StatusSeen, TriesSeen>>
  BY <1>2, SaveLives, FinishLives, ReportLives
<1>3. ASSUME NEW r \in Requests, ResetStore(r) PROVE Life!LifeNext
  <2>1. "reset" \in Operations
    BY <1>3 DEF ResetStore, Goto, PathInv, PathOK
  <2>2. \A id \in TxnIds : transactions'[id] = Nil
    BY <1>3 DEF ResetStore, StoreReset
  <2>3. StatusSeen' = [id \in TxnIds |-> "ABSENT"] /\ TriesSeen' = [id \in TxnIds |-> 0]
    BY <2>2 DEF StatusSeen, TriesSeen, Exists
  <2> QED BY <2>1, <2>3 DEF Life!LifeNext, Life!Forget, StatusSeen, TriesSeen
<1>4. \/ UNCHANGED transactions
      \/ \E r \in Requests : \/ SaveHard(r) \/ SaveSoft(r) \/ FinishChain(r) \/ ReportUpdate(r)
                             \/ ResetStore(r)
  <2>1. ASSUME NEW r \in Requests, ArriveAny(r) PROVE UNCHANGED transactions
    BY <2>1 DEF ArriveAny, Submit, Report, Reset, Arrive, sharedVars, storeVars
  <2>2. ASSUME NEW r \in Requests, Serve(r)
        PROVE  \/ UNCHANGED transactions \/ SaveHard(r) \/ SaveSoft(r) \/ FinishChain(r)
               \/ ReportUpdate(r) \/ ResetStore(r)
    BY <2>2
    DEF Serve, ProcessFailureStep, RecordRetryOutcomeStep, ResetStep, RecordFailure,
        RejectDuplicate, PlanAttempt, ScanHealth, ScanAdaptive, SelectTarget, Simulate,
        RecordHealth, LearnOutcome, LogDecision, SaveDecisionLog, FetchUnknown, Fetch,
        ReportHealth, ReportAdaptive, ResetHealth, sharedVars, storeVars
  <2>3. CASE ClockTick \/ UNCHANGED vars
    BY <2>3 DEF ClockTick, vars, sharedVars, storeVars
  <2> QED BY <2>1, <2>2, <2>3 DEF Next, Quiet
<1> QED BY <1>1, <1>2, <1>3, <1>4

(* Seen through the store, the interleaved steps of the requests are the life
   of a transaction whose chain is decided in one step (RetryLifecycle): with
   any number of submissions at a time, and with reports and resets when
   requests are served one at a time. *)
THEOREM LifecycleRefinement == ASSUME Apart PROVE Spec => ImplementsLifecycle
<1>1. Init => Life!LifeInit
  BY DEF Init, StoreInit, Exists, Life!LifeInit
<1>2. TypeInv /\ ChainInv /\ PathInv /\ LinkInv /\ [Next]_vars => [Life!LifeNext]_(Life!lifeVars)
  BY NextLives DEF Life!lifeVars, StatusSeen, TriesSeen
<1> QED BY <1>1, <1>2, TypeInvariant, ChainInvariant, PathInvariant, LinkInvariant, PTL
    DEF Spec, ImplementsLifecycle, Life!LifeSpec


-----------------------------------------------------------------------------
(* Where attempts are made and what they cost *)

Alternative(t) == Classify(t.event.code).strategy = "ALTERNATIVE_PROCESSOR"

CostOf(attempts) == SumFunction([i \in DOMAIN attempts |-> Cost[attempts[i].processor]])

PaidOK(t) ==
  /\ t.totalCost = CostOf(t.attempts)
  /\ \A i \in DOMAIN t.attempts : t.attempts[i].cost = Cost[t.attempts[i].processor]
  /\ Alternative(t) => \A i \in DOMAIN t.attempts : t.attempts[i].processor # t.event.processor

(* While an alternative is looked for, neither the processors still to be
   scanned nor the candidates include the one that declined. *)
RouteOK(r) ==
  LET failed == tx[r].event.processor
  IN  /\ pc[r] \in InChain \cup Reporting => PaidOK(tx[r])
      /\ pc[r] \in Drafting => attempt[r].cost = Cost[attempt[r].processor]
      /\ pc[r] \in {"scanHealth", "scanAdaptive"} =>
           /\ \A i \in scan[r] : ProcessorOrder[i] # failed
           /\ \A c \in candidates[r] : c.name # failed
      /\ pc[r] = "simulate" /\ Alternative(tx[r]) => attempt[r].processor # failed

StorePaidOK == \A id \in TxnIds : Exists(id) => PaidOK(transactions[id])

RouteInv == StorePaidOK /\ \A r \in Requests : RouteOK(r)

(* One more attempt adds its processor's cost. *)
LEMMA CostAppended ==
  ASSUME NEW attempts \in Seq(Attempts), NEW a \in Attempts
  PROVE  CostOf(Append(attempts, a)) = CostOf(attempts) + Cost[a.processor]
<1> DEFINE n == Len(attempts)
           f == [i \in DOMAIN attempts |-> Cost[attempts[i].processor]]
           more == Append(attempts, a)
           g == [i \in DOMAIN more |-> Cost[more[i].processor]]
<1>1. n \in Nat /\ DOMAIN attempts = 1..n /\ DOMAIN more = 1..n+1
      /\ more[n + 1] = a /\ (\A i \in 1..n : more[i] = attempts[i] /\ attempts[i] \in Attempts)
  OBVIOUS
<1> HIDE DEF n, more
<1>2. \A i \in 1..n : f[i] = g[i] /\ f[i] \in Int
  BY <1>1, AttemptType, CostType
<1>3. g[n + 1] = Cost[a.processor] /\ g[n + 1] \in Int
  BY <1>1, AttemptType, CostType
<1>4. CostOf(attempts) = SumFunctionOnSet(f, 1..n) /\ CostOf(more) = SumFunctionOnSet(g, 1..n+1)
  BY <1>1 DEF CostOf, SumFunction
<1> HIDE DEF f, g
<1>5. SumFunctionOnSet(f, 1..n) = SumFunctionOnSet(g, 1..n)
  <2>1. IsFiniteSet(1..n)
    BY <1>1, FS_Interval
  <2> QED BY <1>1, <1>2, <2>1, SumSame
<1>6. \A i \in 1..n+1 : g[i] \in Int
  BY <1>1, <1>2, <1>3
<1>7. SumFunctionOnSet(g, 1..n+1) = SumFunctionOnSet(g, 1..n) + g[n + 1]
  BY <1>1, <1>6, SumInterval
<1> QED BY <1>3, <1>4, <1>5, <1>7 DEF more

LEMMA NewPaid ==
  ASSUME NEW event, NEW status PROVE PaidOK(NewTransaction(event, status))
<1>1. DOMAIN NewTransaction(event, status).attempts = {}
      /\ NewTransaction(event, status).totalCost = 0
  BY DEF NewTransaction
<1> QED BY <1>1, SumEmpty DEF PaidOK, CostOf, SumFunction

(* Only a record's event, attempts and total matter. *)
LEMMA SamePaid ==
  ASSUME NEW t, NEW u, PaidOK(t), u.event = t.event, u.attempts = t.attempts,
         u.totalCost = t.totalCost
  PROVE  PaidOK(u)
BY DEF PaidOK, Alternative

LEMMA StepRoute ==
  ASSUME RouteInv, NEW r \in Requests, Frame(r), StorePaidOK', RouteOK(r)'
  PROVE  RouteInv'
<1>1. ASSUME NEW q \in Requests \ {r} PROVE RouteOK(q)'
  <2>1. /\ pc'[q] = pc[q] /\ tx'[q] = tx[q] /\ attempt'[q] = attempt[q]
        /\ scan'[q] = scan[q] /\ candidates'[q] = candidates[q] /\ RouteOK(q)
    BY <1>1 DEF Frame, RouteInv
  <2> QED BY <2>1 DEF RouteOK
<1> QED BY <1>1 DEF RouteInv

LEMMA StorePaidKept == StorePaidOK /\ UNCHANGED transactions => StorePaidOK'
BY DEF StorePaidOK, Exists

LEMMA StorePaidSaved ==
  ASSUME TypeInv, StorePaidOK, NEW id \in TxnIds, NEW t, PaidOK(t),
         transactions' = [transactions EXCEPT ![id] = t]
  PROVE  StorePaidOK'
BY DEF TypeInv, TypeOK, StoreTypeOK, StorePaidOK, Exists

(* Steps that make no attempt and choose no processor. *)
SamePay(r) == /\ Frame(r) /\ UNCHANGED transactions
              /\ pc'[r] \in InChain \cup Reporting =>
                   /\ pc[r] \in InChain \cup Reporting
                   /\ tx'[r].event = tx[r].event /\ tx'[r].attempts = tx[r].attempts
                   /\ tx'[r].totalCost = tx[r].totalCost
              /\ pc'[r] \notin Drafting

LEMMA SamePayRoute == ASSUME RouteInv, NEW r \in Requests, SamePay(r) PROVE RouteInv'
<1>1. StorePaidOK'
  BY StorePaidKept DEF RouteInv, SamePay
<1>2. RouteOK(r)
  BY DEF RouteInv
<1>3. RouteOK(r)'
  <2>1. pc'[r] \in InChain \cup Reporting => PaidOK(tx'[r])
    BY <1>2, SamePaid DEF RouteOK, SamePay
  <2> QED BY <2>1 DEF SamePay, RouteOK, Drafting
<1> QED BY <1>1, <1>3, StepRoute DEF SamePay

LEMMA QuietStepsRoute ==
  ASSUME TypeInv, RouteInv, NEW r \in Requests,
         \/ ArriveAny(r) \/ RecordFailure(r) \/ RejectDuplicate(r) \/ RecordHealth(r)
         \/ LearnOutcome(r) \/ LogDecision(r) \/ FetchUnknown(r) \/ ReportHealth(r)
         \/ ReportAdaptive(r) \/ ResetHealth(r)
  PROVE  RouteInv'
<1> USE DEF SamePay, Frame, Goto, Answer, InChain, Reporting, Drafting, sharedVars, storeVars,
            TypeInv, TypeOK, RequestTypeOK
<1>1. CASE ArriveAny(r)
  <2>1. SamePay(r)
    BY <1>1 DEF ArriveAny, Submit, Report, Reset, Arrive
  <2> QED BY <2>1, SamePayRoute
<1>2. CASE RecordFailure(r) \/ RejectDuplicate(r) \/ FetchUnknown(r) \/ ResetHealth(r)
  <2>1. SamePay(r)
    BY <1>2 DEF RecordFailure, RejectDuplicate, FetchUnknown, ResetHealth
  <2> QED BY <2>1, SamePayRoute
<1>3. CASE RecordHealth(r) \/ LearnOutcome(r) \/ ReportHealth(r)
  <2>1. SamePay(r)
    BY <1>3 DEF RecordHealth, LearnOutcome, ReportHealth
  <2> QED BY <2>1, SamePayRoute
<1>4. CASE LogDecision(r)
  <2>1. tx[r] \in Transactions
    BY <1>4 DEF StageOK, LogDecision
  <2>2. tx'[r].event = tx[r].event /\ tx'[r].attempts = tx[r].attempts
        /\ tx'[r].totalCost = tx[r].totalCost
    BY <1>4, <2>1 DEF LogDecision, Transactions
  <2>3. SamePay(r)
    BY <1>4, <2>2 DEF LogDecision, SaveDecisionLog
  <2> QED BY <2>3, SamePayRoute
<1>5. CASE ReportAdaptive(r)
  <2>1. tx[r] \in Transactions
    BY <1>5 DEF StageOK, ReportAdaptive
  <2>2. tx'[r].event = tx[r].event /\ tx'[r].attempts = tx[r].attempts
        /\ tx'[r].totalCost = tx[r].totalCost
    BY <1>5, <2>1 DEF ReportAdaptive, Transactions
  <2>3. SamePay(r)
    BY <1>5, <2>2 DEF ReportAdaptive
  <2> QED BY <2>3, SamePayRoute
<1> QED BY <1>1, <1>2, <1>3, <1>4, <1>5

(* Steps that write a record or read one. *)
LEMMA StoreStepsRoute ==
  ASSUME TypeInv, RouteInv, NEW r \in Requests,
         SaveHard(r) \/ SaveSoft(r) \/ FinishChain(r) \/ Fetch(r) \/ ReportUpdate(r) \/ ResetStore(r)
  PROVE  RouteInv'
<1>1. CASE SaveHard(r) \/ SaveSoft(r)
  <2>1. call[r].event.id \in TxnIds
    BY <1>1, EventType DEF SaveHard, SaveSoft, Answer, Goto, TypeInv, StageOK
  <2>2. PICK status : /\ tx'[r] = NewTransaction(call[r].event, status)
                      /\ SaveTransaction(call[r].event.id, tx'[r])
    BY <1>1 DEF SaveHard, SaveSoft, TypeInv, TypeOK, RequestTypeOK
  <2>3. Frame(r) /\ pc'[r] \in {"done", "plan"}
    BY <1>1 DEF SaveHard, SaveSoft, Answer, Goto, Frame, TypeInv, TypeOK, RequestTypeOK
  <2>4. PaidOK(tx'[r])
    BY <2>2, NewPaid
  <2>5. StorePaidOK'
    BY <2>1, <2>2, <2>4, StorePaidSaved DEF SaveTransaction, RouteInv
  <2>6. RouteOK(r)'
    BY <2>3, <2>4 DEF RouteOK, InChain, Reporting, Drafting
  <2> QED BY <2>3, <2>5, <2>6, StepRoute
<1>2. CASE FinishChain(r) \/ ReportUpdate(r)
  <2>1. PICK id \in TxnIds : UpdateTransaction(id, tx[r])
    BY <1>2, EventType
    DEF FinishChain, ReportUpdate, Answer, Goto, TypeInv, StageOK, InChain, Reporting, Reports
  <2>2. PaidOK(tx[r])
    BY <1>2 DEF FinishChain, ReportUpdate, Answer, Goto, RouteInv, RouteOK, InChain, Reporting
  <2>3. Frame(r) /\ pc'[r] = "done"
    BY <1>2 DEF FinishChain, ReportUpdate, Answer, Goto, Frame, TypeInv, TypeOK, RequestTypeOK
  <2>4. StorePaidOK'
    BY <2>1, <2>2, StorePaidSaved, StorePaidKept DEF UpdateTransaction, RouteInv
  <2>5. RouteOK(r)'
    BY <2>3 DEF RouteOK, InChain, Reporting, Drafting
  <2> QED BY <2>3, <2>4, <2>5, StepRoute
<1>3. CASE Fetch(r)
  <2>1. call[r].id \in TxnIds
    BY <1>3 DEF TypeInv, StageOK, Fetch, Goto, Reports
  <2>2. /\ tx'[r] = transactions[call[r].id] /\ pc'[r] = "reportHealth"
        /\ UNCHANGED transactions /\ Frame(r)
    BY <1>3 DEF Fetch, Goto, Frame, sharedVars, TypeInv, TypeOK, RequestTypeOK
  <2>3. PaidOK(tx'[r])
    BY <1>3, <2>1, <2>2 DEF Fetch, RouteInv, StorePaidOK
  <2>4. RouteOK(r)'
    BY <2>2, <2>3 DEF RouteOK, InChain, Reporting, Drafting
  <2> QED BY <2>2, <2>4, StorePaidKept, StepRoute DEF RouteInv
<1>4. CASE ResetStore(r)
  <2>1. Frame(r) /\ pc'[r] = "resetHealth"
    BY <1>4 DEF ResetStore, Goto, Frame, TypeInv, TypeOK, RequestTypeOK
  <2>2. StorePaidOK'
    BY <1>4 DEF ResetStore, StoreReset, StorePaidOK, Exists
  <2>3. RouteOK(r)'
    BY <2>1 DEF RouteOK, InChain, Reporting, Drafting
  <2> QED BY <2>1, <2>2, <2>3, StepRoute
<1> QED BY <1>1, <1>2, <1>3, <1>4

(* The scan never considers the processor that declined, and the attempt is
   drafted at its own processor's cost. *)
LEMMA PlanAttemptRoute ==
  ASSUME TypeInv, RouteInv, NEW r \in Requests, PlanAttempt(r) PROVE RouteInv'
<1> DEFINE failed == tx[r].event.processor
<1>1. /\ attempt'[r].processor = failed /\ attempt'[r].cost = Cost[failed]
      /\ pc[r] = "plan" /\ pc'[r] \in {"simulate", "scanHealth"}
      /\ pc'[r] = "simulate" => ~Alternative(tx[r])
      /\ tx'[r] = tx[r] /\ UNCHANGED transactions
      /\ candidates'[r] = {} /\ (\A i \in scan'[r] : ProcessorOrder[i] # failed)
  BY DEF PlanAttempt, Goto, Alternative, Others, sharedVars, storeVars, TypeInv, TypeOK, RequestTypeOK
<1>2. Frame(r)
  BY DEF PlanAttempt, Goto, Frame, TypeInv, TypeOK, RequestTypeOK
<1>3. RouteOK(r)
  BY DEF RouteInv
<1>4. RouteOK(r)'
  BY <1>1, <1>3 DEF RouteOK, PaidOK, Alternative, InChain, Reporting, Drafting
<1> QED BY <1>1, <1>2, <1>4, StorePaidKept, StepRoute DEF RouteInv

LEMMA ScanRoute ==
  ASSUME TypeInv, RouteInv, NEW r \in Requests, ScanHealth(r) \/ ScanAdaptive(r) PROVE RouteInv'
<1> DEFINE failed == tx[r].event.processor
<1>1. /\ pc[r] \in {"scanHealth", "scanAdaptive"} /\ pc'[r] \in {"scanHealth", "scanAdaptive"}
      /\ tx'[r] = tx[r] /\ attempt'[r] = attempt[r] /\ UNCHANGED transactions
  BY DEF ScanHealth, ScanAdaptive, Goto, sharedVars, storeVars, TypeInv, TypeOK, RequestTypeOK
<1>2. Frame(r)
  BY DEF ScanHealth, ScanAdaptive, Goto, Frame, TypeInv, TypeOK, RequestTypeOK
<1>3. RouteOK(r)
  BY DEF RouteInv
<1>4. (\A i \in scan[r] : ProcessorOrder[i] # failed) /\ (\A c \in candidates[r] : c.name # failed)
  BY <1>1, <1>3 DEF RouteOK
<1>5. (\A i \in scan'[r] : ProcessorOrder[i] # failed) /\ (\A c \in candidates'[r] : c.name # failed)
  <2>1. CASE ScanHealth(r)
    BY <1>4, <2>1 DEF ScanHealth, IsNext, Unrated, TypeInv, TypeOK, RequestTypeOK
  <2>2. CASE ScanAdaptive(r)
    <3>1. PICK i \in scan[r] : /\ candidates'[r] = Rated(r, ProcessorOrder[i])
                               /\ scan'[r] = scan[r] \ {i}
      BY <2>2 DEF ScanAdaptive, IsNext, TypeInv, TypeOK, RequestTypeOK
    <3>2. ASSUME NEW c \in Rated(r, ProcessorOrder[i]) PROVE c.name # failed
      BY <1>4, <3>1 DEF Rated
    <3> QED BY <1>4, <3>1, <3>2
  <2> QED BY <2>1, <2>2
<1>6. RouteOK(r)'
  BY <1>1, <1>3, <1>5 DEF RouteOK, PaidOK, Alternative, InChain, Reporting, Drafting
<1> QED BY <1>1, <1>2, <1>6, StorePaidKept, StepRoute DEF RouteInv

LEMMA SelectTargetRoute ==
  ASSUME TypeInv, RouteInv, NEW r \in Requests, SelectTarget(r) PROVE RouteInv'
<1> DEFINE failed == tx[r].event.processor
<1>1. /\ tx[r] \in Transactions /\ attempt[r] \in Attempts
  BY DEF TypeInv, StageOK, InChain, Attempting, SelectTarget
<1>2. Fallback(failed) # {} /\ failed \notin Fallback(failed)
  BY <1>1, TransactionType, FallbackAssumption DEF Fallback
<1>3. RouteOK(r)
  BY DEF RouteInv
<1>4. PICK p : Route(r, p) /\ p # failed
  <2>1. \A c \in candidates[r] : c.name # failed
    BY <1>3 DEF RouteOK, SelectTarget
  <2> QED BY <1>2, <2>1 DEF SelectTarget, Best
<1>5. /\ attempt'[r].processor = p /\ attempt'[r].cost = Cost[p]
      /\ pc[r] = "scanHealth" /\ pc'[r] = "simulate"
      /\ tx'[r] = tx[r] /\ UNCHANGED transactions
  BY <1>1, <1>4
  DEF Route, Goto, SelectTarget, sharedVars, storeVars, Attempts, TypeInv, TypeOK, RequestTypeOK
<1>6. Frame(r)
  BY <1>4 DEF Route, SelectTarget, Goto, Frame, TypeInv, TypeOK, RequestTypeOK
<1>7. RouteOK(r)'
  BY <1>3, <1>4, <1>5 DEF RouteOK, PaidOK, Alternative, InChain, Reporting, Drafting
<1> QED BY <1>5, <1>6, <1>7, StorePaidKept, StepRoute DEF RouteInv

LEMMA SimulateRoute ==
  ASSUME TypeInv, RouteInv, NEW r \in Requests, Simulate(r) PROVE RouteInv'
<1>1. tx[r] \in Transactions /\ attempt[r] \in Attempts
  BY DEF TypeInv, StageOK, InChain, Attempting, Simulate, Goto
<1>2. PICK success \in BOOLEAN :
        LET made == [attempt[r] EXCEPT !.success = success]
        IN  tx' = [tx EXCEPT ![r] = [tx[r] EXCEPT !.attempts = Append(tx[r].attempts, made),
                                                  !.retryCount = tx[r].retryCount + 1,
                                                  !.totalCost = tx[r].totalCost + made.cost]]
  BY DEF Simulate
<1> DEFINE made == [attempt[r] EXCEPT !.success = success]
<1>3. made \in Attempts /\ made.processor = attempt[r].processor /\ made.cost = attempt[r].cost
  BY <1>1 DEF Attempts
<1>4. /\ tx'[r].event = tx[r].event /\ tx'[r].attempts = Append(tx[r].attempts, made)
      /\ tx'[r].totalCost = tx[r].totalCost + made.cost
  BY <1>1, <1>2 DEF Transactions, TypeInv, TypeOK, RequestTypeOK
<1> HIDE DEF made
<1>5. /\ pc[r] = "simulate" /\ pc'[r] = "recordHealth" /\ UNCHANGED transactions /\ Frame(r)
  BY DEF Simulate, Goto, Frame, sharedVars, storeVars, TypeInv, TypeOK, RequestTypeOK
<1>6. PaidOK(tx[r]) /\ attempt[r].cost = Cost[attempt[r].processor]
      /\ (Alternative(tx[r]) => attempt[r].processor # tx[r].event.processor)
  BY <1>5 DEF RouteInv, RouteOK, InChain, Drafting
<1>7. tx[r].attempts \in Seq(Attempts)
  BY <1>1, TransactionType
<1>8. tx'[r].totalCost = CostOf(tx'[r].attempts)
  BY <1>3, <1>4, <1>6, <1>7, CostAppended DEF PaidOK
<1>9. Alternative(tx'[r]) =>
        \A i \in DOMAIN tx'[r].attempts : tx'[r].attempts[i].processor # tx'[r].event.processor
  BY <1>3, <1>4, <1>6, <1>7 DEF PaidOK, Alternative
<1>10. \A i \in DOMAIN tx'[r].attempts :
         tx'[r].attempts[i].cost = Cost[tx'[r].attempts[i].processor]
  BY <1>3, <1>4, <1>6, <1>7 DEF PaidOK
<1>11. RouteOK(r)'
  BY <1>5, <1>8, <1>9, <1>10 DEF RouteOK, PaidOK, InChain, Reporting, Drafting
<1> QED BY <1>5, <1>11, StorePaidKept, StepRoute DEF RouteInv

LEMMA InitRoute == Init => RouteInv
BY DEF Init, StoreInit, RouteInv, StorePaidOK, Exists, RouteOK, InChain, Reporting, Drafting

LEMMA NextRoute == TypeInv /\ RouteInv /\ [Next]_vars => RouteInv'
<1> SUFFICES ASSUME TypeInv, RouteInv, [Next]_vars PROVE RouteInv'
  OBVIOUS
<1>1. CASE UNCHANGED <<transactions, localVars>>
  BY <1>1, StorePaidKept DEF RouteInv, RouteOK, localVars
<1>2. ASSUME NEW r \in Requests, ArriveAny(r) \/ Serve(r) PROVE RouteInv'
  BY <1>2, QuietStepsRoute, StoreStepsRoute, PlanAttemptRoute, ScanRoute, SelectTargetRoute,
     SimulateRoute
  DEF Serve, ProcessFailureStep, RecordRetryOutcomeStep, ResetStep
<1> QED
  BY <1>1, <1>2 DEF Next, ClockTick, Quiet, vars, sharedVars, storeVars

(* RouteInv is inductive relative to TypeInv. *)
THEOREM RouteInvariant == Spec => []RouteInv
BY TypeInvariant, InitRoute, NextRoute, PTL DEF Spec

(* The cost charged for a stored transaction is the sum of what its attempts
   cost where they were made (executeRetryChain, selectBestAlternative). *)
THEOREM CostsAlwaysAddUp == Spec => []CostsAddUp
<1>1. RouteInv => CostsAddUp
  BY DEF RouteInv, StorePaidOK, PaidOK, CostOf, CostsAddUp
<1> QED BY <1>1, RouteInvariant, PTL

(* No attempt of the ALTERNATIVE_PROCESSOR strategy is made where the
   transaction was declined (planRetryAttempt, selectBestAlternative). *)
THEOREM AlternativesAreOthers == Spec => []AlternativeMeansOther
<1>1. RouteInv => AlternativeMeansOther
  BY DEF RouteInv, StorePaidOK, PaidOK, Alternative, AlternativeMeansOther
<1> QED BY <1>1, RouteInvariant, PTL
-----------------------------------------------------------------------------
(* Where there is somewhere to go, when requests are served one at a time and
   no time passes *)

Down(p) == GetHealth(p).state = "DOWN"

Collected(r, i) == \E c \in candidates[r] : c.name = ProcessorOrder[i]

(* What the scan has seen of the processors is still so: the ones it has
   passed are DOWN or candidates, and no candidate is DOWN. *)
SeenOK(r) ==
  LET failed == tx[r].event.processor
  IN  /\ pc[r] \in {"scanHealth", "scanAdaptive"} =>
           /\ \A i \in Others(failed) \ scan[r] : Down(ProcessorOrder[i]) \/ Collected(r, i)
           /\ \A c \in candidates[r] : ~Down(c.name)
      /\ pc[r] = "scanAdaptive" => \A i \in scan[r] : IsNext(i, r) => Collected(r, i)
      /\ pc[r] = "simulate" /\ Down(attempt[r].processor) =>
           \A p \in Processors \ {failed} : Down(p)

SeenInv == \A r \in Requests : SeenOK(r)

LEMMA SameHealth == ASSUME UNCHANGED healthVars, NEW p PROVE Down(p)' <=> Down(p)
BY DEF healthVars, Down, GetHealth, InWindow, Cutoff, Outcomes

LEMMA PlanAttemptSeen ==
  ASSUME TypeInv, SeenInv, NEW r \in Requests, PlanAttempt(r) PROVE SeenOK(r)'
<1> DEFINE failed == tx[r].event.processor
<1>1. /\ attempt'[r].processor = failed /\ tx'[r] = tx[r] /\ UNCHANGED healthVars
      /\ pc'[r] \in {"simulate", "scanHealth"}
      /\ pc'[r] = "simulate" => ~Down(failed)
      /\ pc'[r] = "scanHealth" => scan'[r] = Others(failed)
      /\ candidates'[r] = {}
  BY DEF PlanAttempt, Goto, Down, sharedVars, healthVars, TypeInv, TypeOK, RequestTypeOK
<1>2. Down(failed)' <=> Down(failed)
  BY <1>1, SameHealth
<1> QED BY <1>1, <1>2 DEF SeenOK, Others, Down

LEMMA ScanHealthSeen ==
  ASSUME TypeInv, SeenInv, NEW r \in Requests, ScanHealth(r) PROVE SeenOK(r)'
<1> DEFINE failed == tx[r].event.processor
<1>1. PICK i \in DOMAIN ProcessorOrder :
        /\ IsNext(i, r) /\ pc[r] = "scanHealth" /\ tx'[r] = tx[r] /\ UNCHANGED healthVars
        /\ pc'[r] = IF Down(ProcessorOrder[i]) THEN "scanHealth" ELSE "scanAdaptive"
        /\ scan'[r] = IF Down(ProcessorOrder[i]) THEN scan[r] \ {i} ELSE scan[r]
        /\ candidates'[r] = IF Down(ProcessorOrder[i]) THEN candidates[r]
                            ELSE candidates[r] \cup {Unrated(ProcessorOrder[i])}
  BY DEF ScanHealth, Goto, Down, sharedVars, healthVars, TypeInv, TypeOK, RequestTypeOK
<1>2. \A p : Down(p)' <=> Down(p)
  BY <1>1, SameHealth
<1>3. SeenOK(r)
  BY DEF SeenInv
<1>4. ASSUME NEW j \in Others(failed) \ scan'[r]
      PROVE  Down(ProcessorOrder[j])' \/ Collected(r, j)'
  BY <1>1, <1>2, <1>3 DEF SeenOK, Collected
<1>5. ASSUME NEW c \in candidates'[r] PROVE ~Down(c.name)
  BY <1>1, <1>3 DEF SeenOK, Unrated
<1>6. pc'[r] = "scanAdaptive" => \A j \in scan'[r] : IsNext(j, r)' => Collected(r, j)'
  <2> SUFFICES ASSUME pc'[r] = "scanAdaptive", NEW j \in scan'[r], IsNext(j, r)'
               PROVE  Collected(r, j)'
    OBVIOUS
  <2>1. ~Down(ProcessorOrder[i]) /\ scan'[r] = scan[r] /\ Unrated(ProcessorOrder[i]) \in candidates'[r]
    BY <1>1
  <2>2. i \in scan[r] /\ i <= j /\ j <= i /\ i \in Int /\ j \in Int
    <3>1. scan[r] \subseteq DOMAIN ProcessorOrder /\ DOMAIN ProcessorOrder \subseteq Int
      BY SelectionAssumption DEF TypeInv, TypeOK, RequestTypeOK
    <3> QED BY <1>1, <2>1, <3>1 DEF IsNext
  <2>3. i = j
    BY <2>2
  <2> QED BY <2>1, <2>3 DEF Collected, Unrated
<1> QED BY <1>1, <1>2, <1>4, <1>5, <1>6 DEF SeenOK, Others

LEMMA ScanAdaptiveSeen ==
  ASSUME TypeInv, SeenInv, NEW r \in Requests, ScanAdaptive(r) PROVE SeenOK(r)'
<1> DEFINE failed == tx[r].event.processor
<1>1. PICK i \in scan[r] :
        /\ IsNext(i, r) /\ pc[r] = "scanAdaptive" /\ pc'[r] = "scanHealth"
        /\ tx'[r] = tx[r] /\ UNCHANGED healthVars
        /\ scan'[r] = scan[r] \ {i}
        /\ candidates'[r] = Rated(r, ProcessorOrder[i])
  BY DEF ScanAdaptive, Goto, IsNext, sharedVars, healthVars, TypeInv, TypeOK, RequestTypeOK
<1>2. \A p : Down(p)' <=> Down(p)
  BY <1>1, SameHealth
<1>3. SeenOK(r)
  BY DEF SeenInv
<1>4. ASSUME NEW c \in candidates[r] PROVE \E d \in candidates'[r] : d.name = c.name
  <2> DEFINE d == IF c.name # ProcessorOrder[i] THEN c
                  ELSE [name |-> ProcessorOrder[i], failure |-> c.failure,
                        adaptive |-> AdaptiveRate(tx[r].event.code, ProcessorOrder[i])]
  <2>1. d \in candidates'[r]
    BY <1>1 DEF Rated
  <2>2. d.name = c.name
    OBVIOUS
  <2> QED BY <2>1, <2>2
<1>5. \A d \in candidates'[r] : \E c \in candidates[r] : d.name = c.name
  BY <1>1 DEF Rated
<1>6. ASSUME NEW j \in Others(failed) \ scan'[r]
      PROVE  Down(ProcessorOrder[j])' \/ Collected(r, j)'
  <2>1. Down(ProcessorOrder[j]) \/ Collected(r, j)
    BY <1>1, <1>3 DEF SeenOK
  <2> QED BY <1>2, <1>4, <2>1 DEF Collected
<1>7. \A c \in candidates'[r] : ~Down(c.name)
  BY <1>1, <1>3, <1>5 DEF SeenOK
<1> QED BY <1>1, <1>2, <1>6, <1>7 DEF SeenOK, Others

(* The target is no candidate, only when all others are DOWN. *)
LEMMA SelectTargetSeen ==
  ASSUME TypeInv, SeenInv, NEW r \in Requests, SelectTarget(r) PROVE SeenOK(r)'
<1> DEFINE failed == tx[r].event.processor
<1>1. /\ pc[r] = "scanHealth" /\ pc'[r] = "simulate" /\ tx'[r] = tx[r] /\ scan[r] = {}
      /\ attempt[r] \in Attempts /\ UNCHANGED healthVars
  BY SelectTargetRoutes
  DEF SelectTarget, sharedVars, healthVars, TypeInv, StageOK, Attempting
<1>2. \A p : Down(p)' <=> Down(p)
  BY <1>1, SameHealth
<1>3. SeenOK(r)
  BY DEF SeenInv
<1>4. CASE candidates[r] = {}
  <2>1. \A i \in Others(failed) : Down(ProcessorOrder[i])
    BY <1>1, <1>3, <1>4 DEF SeenOK, Collected
  <2>2. \A p \in Processors \ {failed} : Down(p)
    BY <2>1 DEF Processors, Others
  <2> QED BY <1>1, <1>2, <2>2 DEF SeenOK
<1>5. CASE candidates[r] # {}
  <2>1. PICK c \in candidates[r] : Route(r, c.name)
    BY <1>5 DEF SelectTarget, Best
  <2>2. attempt'[r].processor = c.name
    BY <1>1, <2>1 DEF Route, Attempts, TypeInv, TypeOK, RequestTypeOK
  <2>3. ~Down(c.name)
    BY <1>1, <1>3 DEF SeenOK
  <2> QED BY <1>1, <1>2, <2>2, <2>3 DEF SeenOK, Down
<1> QED BY <1>4, <1>5

LEMMA NextSeen ==
  ASSUME MaxInFlight = 1, MaxTime = 0, TypeInv, LinkInv, SeenInv, [Next]_vars PROVE SeenInv'
<1>1. CASE UNCHANGED vars
  <2>1. ASSUME NEW r \in Requests PROVE SeenOK(r)'
    <3>1. SeenOK(r) /\ UNCHANGED <<pc, tx, attempt, scan, candidates>> /\ UNCHANGED healthVars
      BY <1>1 DEF SeenInv, vars, sharedVars, localVars, healthVars
    <3>2. \A p : Down(p)' <=> Down(p)
      BY <3>1, SameHealth
    <3> QED BY <3>1, <3>2 DEF SeenOK, Collected, IsNext
  <2> QED BY <2>1 DEF SeenInv
<1>2. ~ClockTick
  BY DEF ClockTick, Tick, TypeInv, TypeOK, HealthTypeOK
<1>3. ASSUME NEW r \in Requests, ArriveAny(r) PROVE SeenInv'
  <2>1. ASSUME NEW q \in Requests PROVE SeenOK(q)'
    <3>1. UNCHANGED healthVars /\ UNCHANGED <<tx, attempt, scan, candidates>>
          /\ (pc'[q] = pc[q] \/ pc'[q] \in {"recordFailure", "fetch", "resetStore"})
      BY <1>3 DEF ArriveAny, Submit, Report, Reset, Arrive, Goto, sharedVars, healthVars,
                  TypeInv, TypeOK, RequestTypeOK
    <3>2. \A p : Down(p)' <=> Down(p)
      BY <3>1, SameHealth
    <3>3. SeenOK(q)
      BY DEF SeenInv
    <3> QED BY <3>1, <3>2, <3>3 DEF SeenOK, Collected, IsNext
  <2> QED BY <2>1 DEF SeenInv
<1>4. ASSUME NEW r \in Requests, Serve(r) PROVE SeenInv'
  <2>1. ASSUME NEW q \in Requests \ {r} PROVE SeenOK(q)'
    <3>1. r \in InFlight /\ OneInFlight
      BY <1>4, InFlightStep DEF LinkInv
    <3>2. pc[q] \in {"idle", "done"} /\ pc'[q] = pc[q]
      BY <1>4, <3>1, ServeFrame DEF OneInFlight, InFlight, Frame
    <3> QED BY <3>2 DEF SeenOK
  <2>2. SeenOK(r)'
    <3>1. CASE PlanAttempt(r) \/ ScanHealth(r) \/ ScanAdaptive(r) \/ SelectTarget(r)
      BY <3>1, PlanAttemptSeen, ScanHealthSeen, ScanAdaptiveSeen, SelectTargetSeen
    <3>2. CASE ~(PlanAttempt(r) \/ ScanHealth(r) \/ ScanAdaptive(r) \/ SelectTarget(r))
      <4>1. pc'[r] \notin Drafting
        BY <1>4, <3>2
        DEF Serve, ProcessFailureStep, RecordRetryOutcomeStep, ResetStep, RecordFailure,
            RejectDuplicate, SaveHard, SaveSoft, Simulate, RecordHealth, LearnOutcome, LogDecision,
            FinishChain, FetchUnknown, Fetch, ReportHealth, ReportAdaptive, ReportUpdate,
            ResetStore, ResetHealth, Answer, Goto, Drafting, TypeInv, TypeOK, RequestTypeOK
      <4> QED BY <4>1 DEF SeenOK, Drafting
    <3> QED BY <3>1, <3>2
  <2> QED BY <2>1, <2>2 DEF SeenInv
<1> QED BY <1>1, <1>2, <1>3, <1>4 DEF Next, Quiet

(* Routing away from an outage works (selectBestAlternative): when requests
   are served one at a time and no time passes between a look at the health
   and the attempt, an attempt is made on a DOWN processor only when every
   processor but the one that declined is DOWN. *)
THEOREM DownAsLastResort ==
  ASSUME MaxInFlight = 1, MaxTime = 0
  PROVE  Spec => DownOnlyAsLastResort
<1> DEFINE Routed == \A r \in Requests :
             Simulate(r) /\ GetHealth(attempt[r].processor).state = "DOWN" =>
               \A p \in Processors \ {tx[r].event.processor} : GetHealth(p).state = "DOWN"
<1>1. Init => SeenInv
  BY DEF Init, SeenInv, SeenOK
<1>2. TypeInv /\ LinkInv /\ SeenInv /\ [Next]_vars => SeenInv'
  BY NextSeen
<1>3. SeenInv => Routed
  BY DEF SeenInv, SeenOK, Simulate, Goto, Down
<1>4. Spec => []LinkInv
  BY LinkInvariant DEF Apart
<1> QED BY <1>1, <1>2, <1>3, <1>4, TypeInvariant, PTL DEF Spec, DownOnlyAsLastResort

-----------------------------------------------------------------------------
(* What has been learned *)

(* The outcome of the i-th attempt of r, and the report of r, as they count
   for a code and a processor. *)
Entered(r, i, code, p, success) ==
  /\ Submitted(r) /\ tx[r] # Nil /\ i <= Learned(r)
  /\ call[r].event.code = code
  /\ tx[r].attempts[i].processor = p
  /\ tx[r].attempts[i].success = success

Told(r, code, p, success) ==
  /\ call[r] # Nil /\ call[r].op = "report" /\ tx[r] # Nil
  /\ pc[r] \in {"reportUpdate", "done"}
  /\ tx[r].event.code = code
  /\ call[r].processor = p
  /\ call[r].success = success

EnteredSet(code, p, success) == MadeBy(Learned, code, p, success)
ToldSet(code, p, success)    == ReportedBy({"reportUpdate", "done"}, code, p, success)

Entries(code, p, success) ==
  Cardinality(EnteredSet(code, p, success)) + Cardinality(ToldSet(code, p, success))

LEMMA EntrySets ==
  ASSUME NEW code, NEW p, NEW success
  PROVE  /\ EnteredSet(code, p, success) =
              {x \in Requests \X (1..MaxRetries) : Entered(x[1], x[2], code, p, success)}
         /\ ToldSet(code, p, success) = {r \in Requests : Told(r, code, p, success)}
         /\ EnteredSet(code, p, success)' =
              {x \in Requests \X (1..MaxRetries) : Entered(x[1], x[2], code, p, success)'}
         /\ ToldSet(code, p, success)' = {r \in Requests : Told(r, code, p, success)'}
BY DEF EnteredSet, MadeBy, Entered, Learned, ToldSet, ReportedBy, Told, Submitted

LEMMA EntriesFinite ==
  ASSUME NEW code, NEW p, NEW success
  PROVE  /\ IsFiniteSet(EnteredSet(code, p, success)) /\ IsFiniteSet(ToldSet(code, p, success))
         /\ Entries(code, p, success) \in Nat
<1>1. IsFiniteSet(Requests) /\ IsFiniteSet(1..MaxRetries)
  BY OrchestratorAssumption, FS_Interval
<1>2. IsFiniteSet(Requests \X (1..MaxRetries))
  BY <1>1, FS_Product
<1>3. /\ EnteredSet(code, p, success) \in SUBSET (Requests \X (1..MaxRetries))
      /\ ToldSet(code, p, success) \in SUBSET Requests
  BY EntrySets
<1>4. IsFiniteSet(EnteredSet(code, p, success)) /\ IsFiniteSet(ToldSet(code, p, success))
  BY <1>1, <1>2, <1>3, FS_Subset
<1> QED BY <1>4, FS_CardinalityType DEF Entries

LEMMA LedgerSays ==
  AdaptiveLedger <=>
    \A code \in Codes, p \in Names :
      adaptiveData[code][p] = [successes |-> Entries(code, p, TRUE),
                               total     |-> Entries(code, p, TRUE) + Entries(code, p, FALSE)]
BY DEF AdaptiveLedger, Entries, EnteredSet, ToldSet

(* What r has entered and told is all the same after the step. *)
SameEntries(r) ==
  \A code \in Codes, p \in Names, success \in BOOLEAN :
    /\ \A i \in 1..MaxRetries : Entered(r, i, code, p, success)' <=> Entered(r, i, code, p, success)
    /\ Told(r, code, p, success)' <=> Told(r, code, p, success)

LEMMA OthersSameEntries ==
  ASSUME NEW r \in Requests, Frame(r), NEW q \in Requests \ {r} PROVE SameEntries(q)
BY DEF Frame, SameEntries, Entered, Told, Submitted, Learned

LEMMA LedgerKept ==
  ASSUME AdaptiveLedger, UNCHANGED adaptiveData, \A r \in Requests : SameEntries(r)
  PROVE  AdaptiveLedger'
<1>1. ASSUME NEW code \in Codes, NEW p \in Names, NEW success \in BOOLEAN
      PROVE  Entries(code, p, success)' = Entries(code, p, success)
  <2>1. \A x \in Requests \X (1..MaxRetries) :
          Entered(x[1], x[2], code, p, success)' <=> Entered(x[1], x[2], code, p, success)
    BY DEF SameEntries
  <2>2. EnteredSet(code, p, success)' = EnteredSet(code, p, success)
    <3>1. /\ EnteredSet(code, p, success) =
               {x \in Requests \X (1..MaxRetries) : Entered(x[1], x[2], code, p, success)}
          /\ EnteredSet(code, p, success)' =
               {x \in Requests \X (1..MaxRetries) : Entered(x[1], x[2], code, p, success)'}
      BY EntrySets
    <3> QED BY <2>1, <3>1
  <2>3. ToldSet(code, p, success)' = ToldSet(code, p, success)
    <3>1. /\ ToldSet(code, p, success) = {r \in Requests : Told(r, code, p, success)}
          /\ ToldSet(code, p, success)' = {r \in Requests : Told(r, code, p, success)'}
      BY EntrySets
    <3>2. \A r \in Requests : Told(r, code, p, success)' <=> Told(r, code, p, success)
      BY DEF SameEntries
    <3> QED BY <3>1, <3>2
  <2> QED BY <2>2, <2>3 DEF Entries
<1>2. ASSUME NEW code \in Codes, NEW p \in Names
      PROVE  adaptiveData'[code][p] = [successes |-> Entries(code, p, TRUE)',
                               total     |-> Entries(code, p, TRUE)' + Entries(code, p, FALSE)']
  BY <1>1, LedgerSays
<1> QED BY <1>2 DEF AdaptiveLedger, Entries, EnteredSet, ToldSet

(* recordAdaptive enters one outcome under one code and processor. *)
LEMMA LedgerAdds ==
  ASSUME AdaptiveTypeOK, AdaptiveLedger,
         NEW c0 \in Codes, NEW p0 \in Names, NEW s0 \in BOOLEAN, RecordAdaptive(c0, p0, s0),
         \A code \in Codes, p \in Names, success \in BOOLEAN :
           Entries(code, p, success)' =
             IF code = c0 /\ p = p0 /\ success = s0
               THEN Entries(code, p, success) + 1 ELSE Entries(code, p, success)
  PROVE  AdaptiveLedger'
<1>1. ASSUME NEW code \in Codes, NEW p \in Names
      PROVE  adaptiveData'[code][p] = [successes |-> Entries(code, p, TRUE)',
                                       total |-> Entries(code, p, TRUE)' + Entries(code, p, FALSE)']
  <2> DEFINE old == adaptiveData[code][p]
             yes == Entries(code, p, TRUE)
             no  == Entries(code, p, FALSE)
  <2>1. old = [successes |-> yes, total |-> yes + no] /\ yes \in Nat /\ no \in Nat
    BY LedgerSays, EntriesFinite
  <2>2. /\ yes' = IF code = c0 /\ p = p0 /\ s0 THEN yes + 1 ELSE yes
        /\ no' = IF code = c0 /\ p = p0 /\ ~s0 THEN no + 1 ELSE no
    OBVIOUS
  <2>3. adaptiveData'[code][p] =
          IF code = c0 /\ p = p0
            THEN [successes |-> IF s0 THEN old.successes + 1 ELSE old.successes,
                  total     |-> old.total + 1]
            ELSE old
    BY DEF RecordAdaptive, AdaptiveTypeOK
  <2> HIDE DEF yes, no, old
  <2>4. CASE code = c0 /\ p = p0
    <3>1. /\ old.successes = yes /\ old.total = yes + no
      BY <2>1
    <3>2. CASE s0
      <4>1. adaptiveData'[code][p] = [successes |-> yes + 1, total |-> yes + no + 1]
        BY <2>3, <2>4, <3>1, <3>2
      <4>2. yes' = yes + 1 /\ no' = no /\ yes + no + 1 = yes' + no'
        BY <2>1, <2>2, <2>4, <3>2
      <4> QED BY <4>1, <4>2 DEF yes, no
    <3>3. CASE ~s0
      <4>1. adaptiveData'[code][p] = [successes |-> yes, total |-> yes + no + 1]
        BY <2>3, <2>4, <3>1, <3>3
      <4>2. yes' = yes /\ no' = no + 1 /\ yes + no + 1 = yes' + no'
        BY <2>1, <2>2, <2>4, <3>3
      <4> QED BY <4>1, <4>2 DEF yes, no
    <3> QED BY <3>2, <3>3
  <2>5. CASE ~(code = c0 /\ p = p0)
    <3>1. yes' = yes /\ no' = no /\ adaptiveData'[code][p] = old
      BY <2>2, <2>3, <2>5
    <3> QED BY <2>1, <3>1 DEF yes, no
  <2> QED BY <2>4, <2>5
<1> QED BY <1>1 DEF AdaptiveLedger, Entries, EnteredSet, ToldSet

(* Learning from an attempt: it is entered, and was not before. *)
LEMMA LearnOutcomeLedger ==
  ASSUME TypeInv, ChainInv, PathInv, AdaptiveLedger, NEW r \in Requests, LearnOutcome(r)
  PROVE  AdaptiveLedger'
<1> DEFINE n == tx[r].retryCount
           c0 == tx[r].event.code
           p0 == attempt[r].processor
           s0 == attempt[r].success
<1>1. StageOK(r) /\ WorkOK(r) /\ pc[r] = "recordAdaptive" /\ pc'[r] = "log"
      /\ UNCHANGED <<call, tx>>
  BY DEF TypeInv, ChainInv, LearnOutcome, Goto, TypeOK, RequestTypeOK
<1>2. /\ call[r] \in Submissions /\ tx[r] \in Transactions /\ tx[r].event = call[r].event
      /\ attempt[r] \in Attempts /\ Submitted(r) /\ tx[r] # Nil
  BY <1>1, CallKinds, NilAssumption DEF StageOK, InChain, Attempting, Submitted
<1>3. c0 \in Codes /\ p0 \in Names /\ s0 \in BOOLEAN
  BY <1>2, TransactionType, AttemptType
<1>4. /\ n \in 1..MaxRetries /\ tx[r].attempts[n] = attempt[r]
  <2>1. n \in 0..MaxRetries /\ MaxRetries \in Nat
    BY <1>2, TransactionType, ConstantTypes
  <2>2. n = Len(tx[r].attempts) /\ n > 0 /\ tx[r].attempts[n] = attempt[r]
    BY <1>1 DEF WorkOK, InChain, Recording
  <2> QED BY <2>1, <2>2
<1>5. Learned(r) = n - 1 /\ Learned(r)' = n
  BY <1>1 DEF Learned
<1>6. ASSUME NEW code \in Codes, NEW p \in Names, NEW success \in BOOLEAN, NEW i \in 1..MaxRetries
      PROVE  Entered(r, i, code, p, success)' <=>
               Entered(r, i, code, p, success) \/ (i = n /\ code = c0 /\ p = p0 /\ success = s0)
  <2>1. i <= n <=> i <= n - 1 \/ i = n
    BY <1>4
  <2> HIDE DEF n
  <2> QED BY <1>1, <1>2, <1>4, <1>5, <2>1 DEF Entered, Submitted
<1>7. ASSUME NEW code, NEW p, NEW success PROVE ~Entered(r, n, code, p, success)
  BY <1>4, <1>5 DEF Entered
<1>8. ASSUME NEW code \in Codes, NEW p \in Names, NEW success \in BOOLEAN
      PROVE  Entries(code, p, success)' =
               IF code = c0 /\ p = p0 /\ success = s0
                 THEN Entries(code, p, success) + 1 ELSE Entries(code, p, success)
  <2> DEFINE hit == code = c0 /\ p = p0 /\ success = s0
  <2>1. ASSUME NEW q \in Requests \ {r} PROVE SameEntries(q)
    <3>1. Frame(r)
      BY ServeFrame DEF Serve, ProcessFailureStep
    <3> QED BY <3>1, OthersSameEntries
  <2>2. ToldSet(code, p, success)' = ToldSet(code, p, success)
    <3>1. \A q \in Requests : Told(q, code, p, success)' <=> Told(q, code, p, success)
      <4>1. call[r].op # "report" /\ call'[r] = call[r]
        BY <1>1, <1>2, CallKinds
      <4> QED BY <2>1, <4>1 DEF SameEntries, Told
    <3>2. /\ ToldSet(code, p, success) = {q \in Requests : Told(q, code, p, success)}
          /\ ToldSet(code, p, success)' = {q \in Requests : Told(q, code, p, success)'}
      BY EntrySets
    <3> QED BY <3>1, <3>2
  <2>3. \A x \in Requests \X (1..MaxRetries) :
          Entered(x[1], x[2], code, p, success)' <=>
            Entered(x[1], x[2], code, p, success) \/ (x = <<r, n>> /\ hit)
    <3> SUFFICES ASSUME NEW q \in Requests, NEW i \in 1..MaxRetries
                 PROVE  Entered(q, i, code, p, success)' <=>
                          Entered(q, i, code, p, success) \/ (<<q, i>> = <<r, n>> /\ hit)
      OBVIOUS
    <3>1. CASE q = r
      BY <1>6, <3>1
    <3>2. CASE q # r
      BY <2>1, <3>2 DEF SameEntries
    <3> QED BY <3>1, <3>2
  <2>4. /\ EnteredSet(code, p, success) =
             {x \in Requests \X (1..MaxRetries) : Entered(x[1], x[2], code, p, success)}
        /\ EnteredSet(code, p, success)' =
             {x \in Requests \X (1..MaxRetries) : Entered(x[1], x[2], code, p, success)'}
    BY EntrySets
  <2>5. <<r, n>> \in Requests \X (1..MaxRetries) /\ <<r, n>> \notin EnteredSet(code, p, success)
    BY <1>4, <1>7, <2>4
  <2>6. EnteredSet(code, p, success)' =
          IF hit THEN EnteredSet(code, p, success) \cup {<<r, n>>} ELSE EnteredSet(code, p, success)
    <3> HIDE DEF hit, n
    <3> QED BY <2>3, <2>4, <2>5
  <2>7. /\ IsFiniteSet(EnteredSet(code, p, success))
        /\ Cardinality(EnteredSet(code, p, success)) \in Nat
        /\ Cardinality(ToldSet(code, p, success)) \in Nat
    BY EntriesFinite, FS_CardinalityType
  <2>8. Cardinality(EnteredSet(code, p, success) \cup {<<r, n>>})
          = Cardinality(EnteredSet(code, p, success)) + 1
    BY <2>5, <2>7, FS_AddElement
  <2> HIDE DEF hit, n
  <2>9. Entries(code, p, success)' =
          IF hit THEN Entries(code, p, success) + 1 ELSE Entries(code, p, success)
    BY <2>2, <2>6, <2>7, <2>8 DEF Entries
  <2> QED BY <2>9 DEF hit
<1>9. RecordAdaptive(c0, p0, s0)
  BY DEF LearnOutcome
<1> HIDE DEF c0, p0, s0
<1> QED BY <1>3, <1>8, <1>9, LedgerAdds DEF TypeInv, TypeOK

(* Learning from a report: it is told, and was not before. *)
LEMMA ReportAdaptiveLedger ==
  ASSUME TypeInv, PathInv, AdaptiveLedger, NEW r \in Requests, ReportAdaptive(r)
  PROVE  AdaptiveLedger'
<1> DEFINE c0 == tx[r].event.code
           p0 == attempt[r].processor
           s0 == attempt[r].success
<1>1. /\ StageOK(r) /\ PathOK(r) /\ pc[r] = "reportAdaptive" /\ pc'[r] = "reportUpdate"
      /\ UNCHANGED call /\ tx'[r] = [tx[r] EXCEPT !.status = StatusAfterReport(r)]
  BY DEF TypeInv, PathInv, ReportAdaptive, Goto, TypeOK, RequestTypeOK
<1>2. /\ call[r] \in Reports /\ tx[r] \in Transactions /\ attempt[r] \in ReportedOutcomes
      /\ call[r] # Nil /\ call[r].op = "report" /\ ~Submitted(r)
      /\ call[r].processor = p0 /\ call[r].success = s0
  BY <1>1, CallKinds DEF StageOK, PathOK, Reporting, Submitted
<1>3. c0 \in Codes /\ p0 \in Names /\ s0 \in BOOLEAN
  BY <1>2, TransactionType, ReportedOutcomeType
<1>4. tx'[r] # Nil /\ tx'[r].event = tx[r].event
  <2>1. StatusAfterReport(r) \in Statuses
    BY <1>2, TransactionType DEF StatusAfterReport, Statuses
  <2> QED BY <1>1, <1>2, <2>1, StatusUpdate, NilAssumption
<1>5. ASSUME NEW code \in Codes, NEW p \in Names, NEW success \in BOOLEAN
      PROVE  Entries(code, p, success)' =
               IF code = c0 /\ p = p0 /\ success = s0
                 THEN Entries(code, p, success) + 1 ELSE Entries(code, p, success)
  <2> DEFINE hit == code = c0 /\ p = p0 /\ success = s0
  <2>1. ASSUME NEW q \in Requests \ {r} PROVE SameEntries(q)
    <3>1. Frame(r)
      BY ServeFrame DEF Serve, RecordRetryOutcomeStep
    <3> QED BY <3>1, OthersSameEntries
  <2>2. EnteredSet(code, p, success)' = EnteredSet(code, p, success)
    <3>1. \A x \in Requests \X (1..MaxRetries) :
            Entered(x[1], x[2], code, p, success)' <=> Entered(x[1], x[2], code, p, success)
      <4>1. ASSUME NEW i PROVE ~Entered(r, i, code, p, success) /\ ~Entered(r, i, code, p, success)'
        BY <1>1, <1>2 DEF Entered, Submitted
      <4> QED BY <2>1, <4>1 DEF SameEntries
    <3>2. /\ EnteredSet(code, p, success) =
               {x \in Requests \X (1..MaxRetries) : Entered(x[1], x[2], code, p, success)}
          /\ EnteredSet(code, p, success)' =
               {x \in Requests \X (1..MaxRetries) : Entered(x[1], x[2], code, p, success)'}
      BY EntrySets
    <3> QED BY <3>1, <3>2
  <2>3. ~Told(r, code, p, success) /\ (Told(r, code, p, success)' <=> hit)
    BY <1>1, <1>2, <1>4 DEF Told
  <2>4. \A q \in Requests \ {r} : Told(q, code, p, success)' <=> Told(q, code, p, success)
    BY <2>1 DEF SameEntries
  <2>5. /\ ToldSet(code, p, success) = {q \in Requests : Told(q, code, p, success)}
        /\ ToldSet(code, p, success)' = {q \in Requests : Told(q, code, p, success)'}
    BY EntrySets
  <2>6. r \notin ToldSet(code, p, success)
    BY <2>3, <2>5
  <2>7. ToldSet(code, p, success)' =
          IF hit THEN ToldSet(code, p, success) \cup {r} ELSE ToldSet(code, p, success)
    <3> HIDE DEF hit
    <3> QED BY <2>3, <2>4, <2>5
  <2>8. /\ IsFiniteSet(ToldSet(code, p, success))
        /\ Cardinality(EnteredSet(code, p, success)) \in Nat
        /\ Cardinality(ToldSet(code, p, success)) \in Nat
    BY EntriesFinite, FS_CardinalityType
  <2>9. Cardinality(ToldSet(code, p, success) \cup {r}) = Cardinality(ToldSet(code, p, success)) + 1
    BY <2>6, <2>8, FS_AddElement
  <2> HIDE DEF hit
  <2>10. Entries(code, p, success)' =
           IF hit THEN Entries(code, p, success) + 1 ELSE Entries(code, p, success)
    BY <2>2, <2>7, <2>8, <2>9 DEF Entries
  <2> QED BY <2>10 DEF hit
<1>6. RecordAdaptive(c0, p0, s0)
  BY DEF ReportAdaptive
<1> HIDE DEF c0, p0, s0
<1> QED BY <1>3, <1>5, <1>6, LedgerAdds DEF TypeInv, TypeOK

(* All other steps of a request learn nothing and keep what it has entered. *)
LEMMA SilentEntries ==
  ASSUME TypeInv, ChainInv, PathInv, NEW r \in Requests, ArriveAny(r) \/ Serve(r),
         ~LearnOutcome(r), ~ReportAdaptive(r)
  PROVE  SameEntries(r) /\ UNCHANGED adaptiveData
<1>1. StageOK(r) /\ WorkOK(r) /\ PathOK(r)
  BY DEF TypeInv, ChainInv, PathInv
<1> USE DEF Goto, Answer, TypeInv, TypeOK, RequestTypeOK
<1>2. UNCHANGED adaptiveData
  BY DEF ArriveAny, Submit, Report, Reset, Arrive, Serve, ProcessFailureStep,
         RecordRetryOutcomeStep, ResetStep, RecordFailure, RejectDuplicate, SaveHard, SaveSoft,
         PlanAttempt, ScanHealth, ScanAdaptive, SelectTarget, Simulate, RecordHealth, LogDecision,
         FinishChain, FetchUnknown, Fetch, ReportHealth, ReportUpdate, ResetStore, ResetHealth,
         sharedVars
<1>3. CASE ArriveAny(r) \/ RecordFailure(r) \/ RejectDuplicate(r) \/ FetchUnknown(r) \/ ResetStep(r)
  <2>1. tx[r] = Nil /\ tx'[r] = Nil
    BY <1>1, <1>3
    DEF ArriveAny, Submit, Report, Reset, Arrive, RecordFailure, RejectDuplicate, FetchUnknown,
        ResetStep, ResetStore, ResetHealth, PathOK, Unstarted
  <2> QED BY <1>2, <2>1 DEF SameEntries, Entered, Told
<1>4. CASE SaveHard(r) \/ SaveSoft(r)
  <2>1. /\ tx[r] = Nil /\ call[r] \in Submissions /\ call'[r] = call[r]
        /\ pc'[r] \in {"plan", "done"} /\ tx'[r].retryCount = 0
    BY <1>1, <1>4 DEF SaveHard, SaveSoft, NewTransaction, PathOK, Unstarted, StageOK
  <2>2. Learned(r)' = 0 /\ call[r].op = "submit"
    BY <2>1, CallKinds DEF Learned
  <2>3. \A i \in 1..MaxRetries : ~(i <= Learned(r)')
    BY <2>2, ConstantTypes
  <2> QED BY <1>2, <2>1, <2>2, <2>3 DEF SameEntries, Entered, Told
<1>5. CASE \/ PlanAttempt(r) \/ ScanHealth(r) \/ ScanAdaptive(r) \/ SelectTarget(r)
           \/ RecordHealth(r) \/ LogDecision(r) \/ FinishChain(r)
  <2>1. call[r] \in Submissions /\ tx[r] \in Transactions /\ pc[r] \in InChain
    BY <1>1, <1>5 DEF PlanAttempt, ScanHealth, ScanAdaptive, SelectTarget, RecordHealth,
                      LogDecision, FinishChain, StageOK, InChain
  <2>2. /\ call'[r] = call[r] /\ tx'[r] # Nil /\ tx[r] # Nil
        /\ tx'[r].attempts = tx[r].attempts /\ tx'[r].retryCount = tx[r].retryCount
        /\ pc'[r] \in {"recordHealth", "recordAdaptive"} <=> pc[r] \in {"recordHealth", "recordAdaptive"}
    <3>1. CASE SelectTarget(r)
      BY <2>1, <3>1, SelectTargetRoutes, NilAssumption DEF SelectTarget
    <3>2. CASE LogDecision(r)
      <4>1. /\ tx'[r] = [tx[r] EXCEPT !.status = tx'[r].status] /\ tx'[r] \in Transactions
            /\ call'[r] = call[r] /\ pc[r] = "log" /\ pc'[r] \in {"plan", "update"}
        <5>1. tx'[r].status \in Statuses /\ tx'[r] = [tx[r] EXCEPT !.status = tx'[r].status]
          BY <2>1, <3>2, TransactionType DEF LogDecision, Transactions, Statuses
        <5>2. tx'[r] \in Transactions
          BY <2>1, <5>1, StatusUpdate
        <5> QED BY <3>2, <5>1, <5>2 DEF LogDecision
      <4> QED BY <2>1, <4>1, NilAssumption DEF Transactions
    <3>3. CASE PlanAttempt(r) \/ ScanHealth(r) \/ ScanAdaptive(r) \/ RecordHealth(r) \/ FinishChain(r)
      BY <2>1, <3>3, NilAssumption
      DEF PlanAttempt, ScanHealth, ScanAdaptive, RecordHealth, FinishChain
    <3> QED BY <1>5, <3>1, <3>2, <3>3
  <2>3. Learned(r)' = Learned(r) /\ call[r].op = "submit"
    BY <2>1, <2>2, CallKinds DEF Learned
  <2> QED BY <1>2, <2>2, <2>3 DEF SameEntries, Entered, Told, Submitted
<1>6. CASE Simulate(r)
  <2>1. /\ call[r] \in Submissions /\ tx[r] \in Transactions /\ UNCHANGED call
        /\ pc[r] = "simulate" /\ pc'[r] = "recordHealth"
    BY <1>1, <1>6 DEF Simulate, StageOK, InChain
  <2>2. PICK made : /\ tx'[r].attempts = Append(tx[r].attempts, made)
                    /\ tx'[r].retryCount = tx[r].retryCount + 1
    BY <1>6, <2>1 DEF Simulate, Transactions
  <2>3. tx'[r] # Nil /\ tx[r] # Nil
    <3>1. TypeInv'
      BY <1>6, SimulateType
    <3> QED BY <2>1, <3>1, NilAssumption DEF StageOK, InChain
  <2>4. /\ tx[r].attempts \in Seq(Attempts) /\ tx[r].retryCount = Len(tx[r].attempts)
    BY <1>1, <2>1, TransactionType DEF WorkOK, InChain
  <2>5. /\ Learned(r)' = Len(tx[r].attempts) /\ Learned(r) = Len(tx[r].attempts)
        /\ call[r].op = "submit"
    BY <2>1, <2>2, <2>4, CallKinds DEF Learned
  <2>6. \A i \in 1..MaxRetries : i <= Len(tx[r].attempts) => tx'[r].attempts[i] = tx[r].attempts[i]
    BY <2>2, <2>4, ConstantTypes
  <2> QED BY <1>2, <2>1, <2>3, <2>5, <2>6 DEF SameEntries, Entered, Told, Submitted
<1>7. CASE Fetch(r) \/ ReportHealth(r) \/ ReportUpdate(r)
  <2>1. call[r] \in Reports /\ call'[r] = call[r]
    BY <1>1, <1>7 DEF Fetch, ReportHealth, ReportUpdate, StageOK, Reporting
  <2>2. \/ pc[r] \notin {"reportUpdate", "done"} /\ pc'[r] \notin {"reportUpdate", "done"}
        \/ pc[r] = "reportUpdate" /\ pc'[r] = "done" /\ tx'[r] = tx[r]
    BY <1>7 DEF Fetch, ReportHealth, ReportUpdate
  <2>3. call[r].op = "report"
    BY <2>1, CallKinds
  <2> QED BY <1>2, <2>1, <2>2, <2>3 DEF SameEntries, Entered, Told, Submitted
<1> QED BY <1>3, <1>4, <1>5, <1>6, <1>7
    DEF Serve, ProcessFailureStep, RecordRetryOutcomeStep

LEMMA InitLedger == Init => AdaptiveLedger
<1> SUFFICES ASSUME Init PROVE AdaptiveLedger
  OBVIOUS
<1>1. ASSUME NEW code \in Codes, NEW p \in Names, NEW success PROVE Entries(code, p, success) = 0
  <2>1. \A r \in Requests : tx[r] = Nil
    BY DEF Init
  <2>2. EnteredSet(code, p, success) = {} /\ ToldSet(code, p, success) = {}
    BY <2>1, EntrySets DEF Entered, Told
  <2> QED BY <2>2, FS_EmptySet DEF Entries
<1>2. \A code \in Codes, p \in Names : adaptiveData[code][p] = [successes |-> 0, total |-> 0]
  BY DEF Init, NothingLearned
<1>3. \A code \in Codes, p \in Names : Entries(code, p, TRUE) = 0 /\ Entries(code, p, FALSE) = 0
  BY <1>1
<1>4. 0 + 0 = 0
  OBVIOUS
<1> QED BY <1>2, <1>3, <1>4, LedgerSays

LEMMA NextLedger ==
  ASSUME TypeInv, ChainInv, PathInv, AdaptiveLedger, [Next]_vars PROVE AdaptiveLedger'
<1>1. CASE UNCHANGED <<adaptiveData, localVars>>
  <2>1. \A r \in Requests : SameEntries(r)
    BY <1>1 DEF localVars, SameEntries, Entered, Told, Submitted, Learned
  <2> QED BY <1>1, <2>1, LedgerKept
<1>2. ASSUME NEW r \in Requests, ArriveAny(r) \/ Serve(r) PROVE AdaptiveLedger'
  <2>1. CASE LearnOutcome(r)
    BY <2>1, LearnOutcomeLedger
  <2>2. CASE ReportAdaptive(r)
    BY <2>2, ReportAdaptiveLedger
  <2>3. CASE ~LearnOutcome(r) /\ ~ReportAdaptive(r)
    <3>1. Frame(r)
      BY <1>2, ServeFrame
    <3>2. SameEntries(r) /\ UNCHANGED adaptiveData
      BY <1>2, <2>3, SilentEntries
    <3>3. \A q \in Requests : SameEntries(q)
      BY <3>1, <3>2, OthersSameEntries
    <3> QED BY <3>2, <3>3, LedgerKept
  <2> QED BY <2>1, <2>2, <2>3
<1> QED BY <1>1, <1>2 DEF Next, ClockTick, Quiet, vars, sharedVars

(* recordAdaptive neither loses nor repeats an outcome, whatever submissions,
   reports and resets race: the learned counts are those of the attempts made
   and the outcomes reported. *)
THEOREM LearningComplete == Spec => []AdaptiveLedger
<1>1. TypeInv /\ ChainInv /\ PathInv /\ AdaptiveLedger /\ [Next]_vars => AdaptiveLedger'
  BY NextLedger
<1> QED BY <1>1, TypeInvariant, ChainInvariant, PathInvariant, InitLedger, PTL DEF Spec

-----------------------------------------------------------------------------
(* What the tracker has counted, while nothing expires and nobody resets *)

Lasting == IsFiniteSet(Times) /\ \A ts \in Times : ts >= MaxTime - Window

(* The original failure of r, and the i-th attempt or (at 0) the report of r,
   as they count for a processor. *)
Blamed(r, p) == /\ Submitted(r) /\ pc[r] # "recordFailure"
                /\ call[r].event.processor = p

Felt(r, i, p, success) ==
  \/ /\ Submitted(r) /\ tx[r] # Nil
     /\ i \in 1..MaxRetries /\ i <= Assessed(r)
     /\ call[r].event.code \in Codes
     /\ tx[r].attempts[i].processor = p
     /\ tx[r].attempts[i].success = success
  \/ /\ i = 0
     /\ call[r] # Nil /\ call[r].op = "report" /\ tx[r] # Nil
     /\ pc[r] \in {"reportAdaptive", "reportUpdate", "done"}
     /\ tx[r].event.code \in Codes
     /\ call[r].processor = p
     /\ call[r].success = success

BlamedSet(p) == {r \in Requests : Blamed(r, p)}
FeltSet(p, success) == {x \in Requests \X (0..MaxRetries) : Felt(x[1], x[2], p, success)}

Tally(p, success) ==
  (IF success THEN 0 ELSE Cardinality(BlamedSet(p))) + Cardinality(FeltSet(p, success))

HealthLedgerSum == \A p \in Names, success \in BOOLEAN : Count(windows[p], success) = Tally(p, success)

LEMMA FeltIs ==
  ASSUME NEW p, NEW success
  PROVE  FeltSet(p, success) =
           UNION {MadeBy(Assessed, code, p, success)
                    \cup {<<r, 0>> : r \in ReportedBy({"reportAdaptive", "reportUpdate", "done"},
                                                      code, p, success)} : code \in Codes}
<1> DEFINE Of(code) == MadeBy(Assessed, code, p, success)
             \cup {<<r, 0>> : r \in ReportedBy({"reportAdaptive", "reportUpdate", "done"},
                                               code, p, success)}
<1>1. MaxRetries \in Nat
  BY ConstantTypes
<1>2. ASSUME NEW x \in FeltSet(p, success) PROVE \E code \in Codes : x \in Of(code)
  <2>1. PICK r \in Requests, i \in 0..MaxRetries : x = <<r, i>> /\ Felt(r, i, p, success)
    BY <1>2 DEF FeltSet
  <2>2. CASE i # 0
    <3>1. i \in 1..MaxRetries /\ call[r].event.code \in Codes
      BY <2>1, <2>2 DEF Felt
    <3>2. x \in MadeBy(Assessed, call[r].event.code, p, success)
      BY <2>1, <2>2, <3>1 DEF Felt, MadeBy, Assessed
    <3> QED BY <3>1, <3>2
  <2>3. CASE i = 0
    <3>1. tx[r].event.code \in Codes
      BY <2>1, <2>3, <1>1 DEF Felt
    <3>2. r \in ReportedBy({"reportAdaptive", "reportUpdate", "done"}, tx[r].event.code, p, success)
      BY <2>1, <2>3, <1>1 DEF Felt, ReportedBy
    <3> QED BY <2>1, <2>3, <3>1, <3>2
  <2> QED BY <2>2, <2>3
<1>3. ASSUME NEW code \in Codes, NEW x \in Of(code) PROVE x \in FeltSet(p, success)
  <2>1. CASE x \in MadeBy(Assessed, code, p, success)
    <3>1. PICK r \in Requests, i \in 1..MaxRetries : x = <<r, i>>
      BY <2>1 DEF MadeBy
    <3>2. Felt(r, i, p, success)
      BY <2>1, <3>1 DEF Felt, MadeBy, Assessed
    <3>3. i \in 0..MaxRetries
      BY <1>1
    <3> QED BY <3>1, <3>2, <3>3 DEF FeltSet
  <2>2. ASSUME NEW r \in ReportedBy({"reportAdaptive", "reportUpdate", "done"}, code, p, success),
               x = <<r, 0>>
        PROVE  x \in FeltSet(p, success)
    <3>1. r \in Requests /\ Felt(r, 0, p, success) /\ 0 \in 0..MaxRetries
      BY <2>2, <1>1 DEF ReportedBy, Felt
    <3> QED BY <2>2, <3>1 DEF FeltSet
  <2> QED BY <1>3, <2>1, <2>2
<1> HIDE DEF Of
<1>4. FeltSet(p, success) = UNION {Of(code) : code \in Codes}
  BY <1>2, <1>3
<1> QED BY <1>4 DEF Of

LEMMA HealthLedgerSays == HealthLedger <=> HealthLedgerSum
<1>1. ASSUME NEW p, NEW success
      PROVE  Tally(p, success) =
               (IF success THEN 0
                ELSE Cardinality({r \in Requests : /\ Submitted(r) /\ pc[r] # "recordFailure"
                                                   /\ call[r].event.processor = p}))
             + Cardinality(UNION {MadeBy(Assessed, code, p, success)
                    \cup {<<r, 0>> : r \in ReportedBy({"reportAdaptive", "reportUpdate", "done"},
                                                      code, p, success)} : code \in Codes})
  BY FeltIs DEF Tally, BlamedSet, Blamed
<1> QED BY <1>1 DEF HealthLedger, HealthLedgerSum

LEMMA TallyFinite ==
  ASSUME NEW p, NEW success \in BOOLEAN
  PROVE  /\ IsFiniteSet(BlamedSet(p)) /\ IsFiniteSet(FeltSet(p, success))
         /\ Cardinality(BlamedSet(p)) \in Nat /\ Cardinality(FeltSet(p, success)) \in Nat
         /\ Tally(p, success) \in Nat
<1>1. IsFiniteSet(Requests) /\ IsFiniteSet(0..MaxRetries)
  BY OrchestratorAssumption, FS_Interval
<1>2. IsFiniteSet(Requests \X (0..MaxRetries))
  BY <1>1, FS_Product
<1>3. BlamedSet(p) \in SUBSET Requests /\ FeltSet(p, success) \in SUBSET (Requests \X (0..MaxRetries))
  BY DEF BlamedSet, FeltSet
<1>4. IsFiniteSet(BlamedSet(p)) /\ IsFiniteSet(FeltSet(p, success))
  BY <1>1, <1>2, <1>3, FS_Subset
<1>5. Cardinality(BlamedSet(p)) \in Nat /\ Cardinality(FeltSet(p, success)) \in Nat
  BY <1>4, FS_CardinalityType
<1> QED BY <1>4, <1>5 DEF Tally

(* A write adds one occurrence of one outcome, and prunes nothing. *)
LEMMA RecordCounts ==
  ASSUME Lasting, HealthTypeOK, NEW p0 \in Names, NEW s0 \in BOOLEAN, NEW ts \in Times,
         RecordOutcome(p0, s0, ts), NEW p \in Names, NEW success \in BOOLEAN
  PROVE  Count(windows'[p], success) =
           IF p = p0 /\ success = s0 THEN Count(windows[p], success) + 1
                                     ELSE Count(windows[p], success)
<1> DEFINE o == Outcome(s0, ts)
           w == Add(windows[p0], o)
           Kind == {x \in Outcomes : x.success = success}
<1>1. windows[p0] \in [Outcomes -> Nat] /\ windows[p] \in [Outcomes -> Nat] /\ o \in Outcomes
      /\ w \in [Outcomes -> Nat]
  BY OutcomeType, AddOutcomeType DEF HealthTypeOK
<1>2. Prune(w) = w
  <2>1. ASSUME NEW x \in Outcomes PROVE ~(x.ts < Cutoff)
    <3>1. x.ts \in Times /\ x.ts \in Int /\ MaxTime \in Int /\ Window \in Int /\ now \in Int
          /\ now <= MaxTime
      BY TimeType, HealthAssumption DEF Outcomes, HealthTypeOK
    <3> QED BY <3>1 DEF Lasting, Cutoff
  <2> HIDE DEF w
  <2> QED BY <1>1, <2>1 DEF Prune
<1>3. windows'[p] = IF p = p0 THEN w ELSE windows[p]
  BY <1>2 DEF RecordOutcome, HealthTypeOK
<1>4. CASE p # p0
  BY <1>3, <1>4
<1>5. CASE p = p0
  <2>1. IsFiniteSet(Kind)
    <3>1. Kind \in SUBSET Outcomes
      OBVIOUS
    <3> QED BY <3>1, OutcomesFinite, FS_Subset DEF Lasting
  <2>2. Count(windows[p], success) = SumFunctionOnSet(windows[p], Kind)
        /\ Count(w, success) = SumFunctionOnSet(w, Kind)
    BY <1>1, <1>5 DEF Count
  <2>3. \A x \in Outcomes : windows[p][x] \in Int /\ w[x] \in Int
                            /\ w[x] = IF x = o THEN windows[p][x] + 1 ELSE windows[p][x]
    BY <1>1, <1>5 DEF Add
  <2>4. CASE success = s0
    <3>1. o \in Kind
      BY <1>1, <2>4 DEF Outcome
    <3>2. SumFunctionOnSet(w, Kind) = SumFunctionOnSet(windows[p], Kind) - windows[p][o] + w[o]
      <4>1. \A x \in Kind : /\ windows[p][x] \in Int /\ w[x] \in Int
                            /\ x # o => windows[p][x] = w[x]
        BY <2>3
      <4> HIDE DEF w, o, Kind
      <4> QED BY <2>1, <3>1, <4>1, SumChange
    <3>3. SumFunctionOnSet(windows[p], Kind) \in Int
      <4>1. \A x \in Kind : windows[p][x] \in Int
        BY <2>3
      <4> HIDE DEF Kind
      <4> QED BY <2>1, <4>1, SumType
    <3>4. w[o] = windows[p][o] + 1 /\ windows[p][o] \in Int
      BY <1>1, <2>3
    <3> HIDE DEF w, o, Kind
    <3> QED BY <1>3, <1>5, <2>2, <2>4, <3>2, <3>3, <3>4
  <2>5. CASE success # s0
    <3>1. o \notin Kind
      BY <2>5 DEF Outcome
    <3>2. \A x \in Kind : windows[p][x] \in Int /\ windows[p][x] = w[x]
      BY <2>3, <3>1
    <3> HIDE DEF w, o, Kind
    <3>3. SumFunctionOnSet(windows[p], Kind) = SumFunctionOnSet(w, Kind)
      BY <2>1, <3>2, SumSame
    <3> QED BY <1>3, <1>5, <2>2, <2>5, <3>3
  <2> QED BY <2>4, <2>5
<1> QED BY <1>4, <1>5
(* What r counts for is all the same after the step. *)
SameTally(r) ==
  \A p \in Names, success \in BOOLEAN :
    /\ Blamed(r, p)' <=> Blamed(r, p)
    /\ \A i \in 0..MaxRetries : Felt(r, i, p, success)' <=> Felt(r, i, p, success)

LEMMA OthersSameTally ==
  ASSUME NEW r \in Requests, Frame(r), NEW q \in Requests \ {r} PROVE SameTally(q)
BY DEF Frame, SameTally, Blamed, Felt, Submitted, Assessed

LEMMA TallySets ==
  ASSUME NEW p, NEW success
  PROVE  /\ BlamedSet(p) = {r \in Requests : Blamed(r, p)}
         /\ BlamedSet(p)' = {r \in Requests : Blamed(r, p)'}
         /\ FeltSet(p, success) = {x \in Requests \X (0..MaxRetries) : Felt(x[1], x[2], p, success)}
         /\ FeltSet(p, success)' = {x \in Requests \X (0..MaxRetries) : Felt(x[1], x[2], p, success)'}
BY DEF BlamedSet, FeltSet

LEMMA SameBlamed ==
  ASSUME NEW p \in Names, \A r \in Requests : Blamed(r, p)' <=> Blamed(r, p)
  PROVE  BlamedSet(p)' = BlamedSet(p)
<1>1. /\ BlamedSet(p) = {r \in Requests : Blamed(r, p)}
      /\ BlamedSet(p)' = {r \in Requests : Blamed(r, p)'}
  BY TallySets
<1> QED BY <1>1

LEMMA SameFelt ==
  ASSUME NEW p \in Names, NEW success \in BOOLEAN,
         \A r \in Requests, i \in 0..MaxRetries : Felt(r, i, p, success)' <=> Felt(r, i, p, success)
  PROVE  FeltSet(p, success)' = FeltSet(p, success)
<1>1. /\ FeltSet(p, success) = {x \in Requests \X (0..MaxRetries) : Felt(x[1], x[2], p, success)}
      /\ FeltSet(p, success)' = {x \in Requests \X (0..MaxRetries) : Felt(x[1], x[2], p, success)'}
  BY TallySets
<1>2. \A x \in Requests \X (0..MaxRetries) : Felt(x[1], x[2], p, success)' <=> Felt(x[1], x[2], p, success)
  OBVIOUS
<1> QED BY <1>1, <1>2

LEMMA HealthLedgerKept ==
  ASSUME HealthLedgerSum, UNCHANGED windows, \A r \in Requests : SameTally(r)
  PROVE  HealthLedgerSum'
<1>1. ASSUME NEW p \in Names, NEW success \in BOOLEAN
      PROVE  Tally(p, success)' = Tally(p, success)
  <2>1. BlamedSet(p)' = BlamedSet(p) /\ FeltSet(p, success)' = FeltSet(p, success)
    BY SameBlamed, SameFelt DEF SameTally
  <2> QED BY <2>1 DEF Tally
<1>2. ASSUME NEW p \in Names, NEW success \in BOOLEAN
      PROVE  Count(windows'[p], success) = Tally(p, success)'
  BY <1>1 DEF HealthLedgerSum
<1> QED BY <1>2 DEF HealthLedgerSum

(* A write counts one outcome of one processor. *)
Counted(p0, s0) ==
  \A p \in Names, success \in BOOLEAN :
    Tally(p, success)' = IF p = p0 /\ success = s0 THEN Tally(p, success) + 1 ELSE Tally(p, success)

LEMMA HealthLedgerAdds ==
  ASSUME Lasting, HealthTypeOK, HealthLedgerSum, NEW p0 \in Names, NEW s0 \in BOOLEAN,
         NEW ts \in Times, RecordOutcome(p0, s0, ts), Counted(p0, s0)
  PROVE  HealthLedgerSum'
<1>1. ASSUME NEW p \in Names, NEW success \in BOOLEAN
      PROVE  Count(windows'[p], success) = Tally(p, success)'
  <2>1. Count(windows'[p], success) =
          IF p = p0 /\ success = s0 THEN Count(windows[p], success) + 1 ELSE Count(windows[p], success)
    BY RecordCounts
  <2> QED BY <2>1 DEF HealthLedgerSum, Counted
<1> QED BY <1>1 DEF HealthLedgerSum

LEMMA BlameCounts ==
  ASSUME NEW r \in Requests, NEW p0 \in Names,
         \A q \in Requests \ {r} : SameTally(q),
         \A p \in Names : ~Blamed(r, p) /\ (Blamed(r, p)' <=> p = p0),
         \A p \in Names, success \in BOOLEAN, i \in 0..MaxRetries :
           Felt(r, i, p, success)' <=> Felt(r, i, p, success)
  PROVE  Counted(p0, FALSE)
<1> SUFFICES ASSUME NEW p \in Names, NEW success \in BOOLEAN
             PROVE  Tally(p, success)' =
                      IF p = p0 /\ success = FALSE THEN Tally(p, success) + 1 ELSE Tally(p, success)
  BY DEF Counted
<1>1. FeltSet(p, success)' = FeltSet(p, success)
  <2>1. \A q \in Requests, i \in 0..MaxRetries : Felt(q, i, p, success)' <=> Felt(q, i, p, success)
    BY DEF SameTally
  <2> QED BY <2>1, SameFelt
<1>2. BlamedSet(p)' = IF p = p0 THEN BlamedSet(p) \cup {r} ELSE BlamedSet(p)
  <2>1. /\ BlamedSet(p) = {q \in Requests : Blamed(q, p)}
        /\ BlamedSet(p)' = {q \in Requests : Blamed(q, p)'}
    BY TallySets
  <2>2. \A q \in Requests : Blamed(q, p)' <=> Blamed(q, p) \/ (q = r /\ p = p0)
    BY DEF SameTally
  <2> QED BY <2>1, <2>2
<1>3. r \notin BlamedSet(p)
  BY DEF BlamedSet
<1>4. IsFiniteSet(BlamedSet(p)) /\ Cardinality(BlamedSet(p)) \in Nat
      /\ Cardinality(FeltSet(p, success)) \in Nat
  BY TallyFinite
<1>5. Cardinality(BlamedSet(p) \cup {r}) = Cardinality(BlamedSet(p)) + 1
  BY <1>3, <1>4, FS_AddElement
<1>6. Cardinality(BlamedSet(p))' =
        IF p = p0 THEN Cardinality(BlamedSet(p)) + 1 ELSE Cardinality(BlamedSet(p))
  BY <1>2, <1>5
<1>7. Cardinality(FeltSet(p, success))' = Cardinality(FeltSet(p, success))
  BY <1>1
<1> QED BY <1>4, <1>6, <1>7 DEF Tally

LEMMA FeltCounts ==
  ASSUME NEW r \in Requests, NEW n \in 0..MaxRetries, NEW p0 \in Names, NEW s0 \in BOOLEAN,
         \A q \in Requests \ {r} : SameTally(q),
         \A p \in Names : Blamed(r, p)' <=> Blamed(r, p),
         \A p \in Names, success \in BOOLEAN, i \in 0..MaxRetries :
           Felt(r, i, p, success)' <=>
             Felt(r, i, p, success) \/ (i = n /\ p = p0 /\ success = s0),
         \A p \in Names, success \in BOOLEAN : ~Felt(r, n, p, success)
  PROVE  Counted(p0, s0)
<1> SUFFICES ASSUME NEW p \in Names, NEW success \in BOOLEAN
             PROVE  Tally(p, success)' =
                      IF p = p0 /\ success = s0 THEN Tally(p, success) + 1 ELSE Tally(p, success)
  BY DEF Counted
<1> DEFINE hit == p = p0 /\ success = s0
<1>1. BlamedSet(p)' = BlamedSet(p)
  <2>1. \A q \in Requests : Blamed(q, p)' <=> Blamed(q, p)
    BY DEF SameTally
  <2> QED BY <2>1, SameBlamed
<1>2. \A x \in Requests \X (0..MaxRetries) :
        Felt(x[1], x[2], p, success)' <=> Felt(x[1], x[2], p, success) \/ (x = <<r, n>> /\ hit)
  <2> SUFFICES ASSUME NEW q \in Requests, NEW i \in 0..MaxRetries
               PROVE  Felt(q, i, p, success)' <=>
                        Felt(q, i, p, success) \/ (<<q, i>> = <<r, n>> /\ hit)
    OBVIOUS
  <2>1. CASE q = r
    BY <2>1
  <2>2. CASE q # r
    BY <2>2 DEF SameTally
  <2> QED BY <2>1, <2>2
<1>3. /\ FeltSet(p, success) = {x \in Requests \X (0..MaxRetries) : Felt(x[1], x[2], p, success)}
      /\ FeltSet(p, success)' = {x \in Requests \X (0..MaxRetries) : Felt(x[1], x[2], p, success)'}
  BY TallySets
<1>4. <<r, n>> \in Requests \X (0..MaxRetries) /\ <<r, n>> \notin FeltSet(p, success)
  BY <1>3
<1>5. FeltSet(p, success)' =
        IF hit THEN FeltSet(p, success) \cup {<<r, n>>} ELSE FeltSet(p, success)
  <2> HIDE DEF hit
  <2> QED BY <1>2, <1>3, <1>4
<1>6. IsFiniteSet(FeltSet(p, success)) /\ Cardinality(FeltSet(p, success)) \in Nat
      /\ Cardinality(BlamedSet(p)) \in Nat
  BY TallyFinite
<1>7. Cardinality(FeltSet(p, success) \cup {<<r, n>>}) = Cardinality(FeltSet(p, success)) + 1
  BY <1>4, <1>6, FS_AddElement
<1>8. Cardinality(FeltSet(p, success))' =
        IF hit THEN Cardinality(FeltSet(p, success)) + 1 ELSE Cardinality(FeltSet(p, success))
  BY <1>5, <1>7
<1>9. Cardinality(BlamedSet(p))' = Cardinality(BlamedSet(p))
  BY <1>1
<1> HIDE DEF hit
<1>10. Tally(p, success)' = IF hit THEN Tally(p, success) + 1 ELSE Tally(p, success)
  BY <1>6, <1>8, <1>9 DEF Tally
<1> QED BY <1>10 DEF hit

(* The three writes. *)
LEMMA RecordFailureTally ==
  ASSUME TypeInv, PathInv, NEW r \in Requests, RecordFailure(r)
  PROVE  Counted(call[r].event.processor, FALSE)
<1>1. /\ StageOK(r) /\ PathOK(r) /\ pc[r] = "recordFailure" /\ pc'[r] = "save"
      /\ UNCHANGED <<call, tx>>
  BY DEF TypeInv, PathInv, RecordFailure, Goto, TypeOK, RequestTypeOK
<1>2. call[r] \in Submissions /\ tx[r] = Nil
  BY <1>1 DEF StageOK, PathOK, Unstarted
<1>3. call[r].event.processor \in Names /\ Submitted(r)
  BY <1>2, EventType, CallKinds DEF Submitted
<1>4. \A q \in Requests \ {r} : SameTally(q)
  BY ServeFrame, OthersSameTally DEF Serve, ProcessFailureStep
<1>5. \A p \in Names : ~Blamed(r, p) /\ (Blamed(r, p)' <=> p = call[r].event.processor)
  BY <1>1, <1>3 DEF Blamed, Submitted
<1>6. \A p \in Names, success \in BOOLEAN, i \in 0..MaxRetries :
        Felt(r, i, p, success)' <=> Felt(r, i, p, success)
  BY <1>1, <1>2 DEF Felt
<1> QED BY <1>3, <1>4, <1>5, <1>6, BlameCounts

LEMMA RecordHealthTally ==
  ASSUME TypeInv, ChainInv, NEW r \in Requests, RecordHealth(r)
  PROVE  Counted(attempt[r].processor, attempt[r].success)
<1> DEFINE n == tx[r].retryCount
           p0 == attempt[r].processor
           s0 == attempt[r].success
<1>1. /\ StageOK(r) /\ WorkOK(r) /\ pc[r] = "recordHealth" /\ pc'[r] = "recordAdaptive"
      /\ UNCHANGED <<call, tx>>
  BY DEF TypeInv, ChainInv, RecordHealth, Goto, TypeOK, RequestTypeOK
<1>2. /\ call[r] \in Submissions /\ tx[r] \in Transactions /\ attempt[r] \in Attempts
      /\ Submitted(r) /\ tx[r] # Nil /\ call[r].op # "report"
  BY <1>1, CallKinds, NilAssumption DEF StageOK, InChain, Attempting, Submitted
<1>3. p0 \in Names /\ s0 \in BOOLEAN /\ call[r].event.code \in Codes
  BY <1>2, AttemptType, EventType
<1>4. n \in 1..MaxRetries /\ n \in 0..MaxRetries /\ tx[r].attempts[n] = attempt[r]
  <2>1. n \in 0..MaxRetries /\ MaxRetries \in Nat
    BY <1>2, TransactionType, ConstantTypes
  <2>2. n = Len(tx[r].attempts) /\ n > 0 /\ tx[r].attempts[n] = attempt[r]
    BY <1>1 DEF WorkOK, InChain, Recording
  <2> QED BY <2>1, <2>2
<1>5. Assessed(r) = n - 1 /\ Assessed(r)' = n
  BY <1>1 DEF Assessed
<1>6. \A q \in Requests \ {r} : SameTally(q)
  BY ServeFrame, OthersSameTally DEF Serve, ProcessFailureStep
<1>7. \A p \in Names : Blamed(r, p)' <=> Blamed(r, p)
  BY <1>1 DEF Blamed, Submitted
<1>8. ASSUME NEW p \in Names, NEW success \in BOOLEAN, NEW i \in 0..MaxRetries
      PROVE  Felt(r, i, p, success)' <=>
               Felt(r, i, p, success) \/ (i = n /\ p = p0 /\ success = s0)
  <2>1. i <= n <=> i <= n - 1 \/ i = n
    BY <1>4
  <2> HIDE DEF n
  <2> QED BY <1>1, <1>2, <1>3, <1>4, <1>5, <2>1 DEF Felt, Submitted
<1>9. \A p \in Names, success \in BOOLEAN : ~Felt(r, n, p, success)
  BY <1>2, <1>4, <1>5 DEF Felt
<1> HIDE DEF n, p0, s0
<1>10. Counted(p0, s0)
  BY <1>3, <1>4, <1>6, <1>7, <1>8, <1>9, FeltCounts
<1> QED BY <1>10 DEF p0, s0

LEMMA ReportHealthTally ==
  ASSUME TypeInv, PathInv, NEW r \in Requests, ReportHealth(r)
  PROVE  Counted(attempt[r].processor, attempt[r].success)
<1> DEFINE p0 == attempt[r].processor
           s0 == attempt[r].success
<1>1. /\ StageOK(r) /\ PathOK(r) /\ pc[r] = "reportHealth" /\ pc'[r] = "reportAdaptive"
      /\ UNCHANGED <<call, tx>>
  BY DEF TypeInv, PathInv, ReportHealth, Goto, TypeOK, RequestTypeOK
<1>2. /\ call[r] \in Reports /\ tx[r] \in Transactions /\ attempt[r] \in ReportedOutcomes
      /\ call[r] # Nil /\ call[r].op = "report" /\ ~Submitted(r) /\ tx[r] # Nil
      /\ call[r].processor = p0 /\ call[r].success = s0
  BY <1>1, CallKinds, NilAssumption DEF StageOK, PathOK, Reporting, Submitted
<1>3. p0 \in Names /\ s0 \in BOOLEAN /\ tx[r].event.code \in Codes /\ 0 \in 0..MaxRetries
  BY <1>2, TransactionType, ReportedOutcomeType, ConstantTypes
<1>4. \A q \in Requests \ {r} : SameTally(q)
  BY ServeFrame, OthersSameTally DEF Serve, RecordRetryOutcomeStep
<1>5. \A p \in Names : Blamed(r, p)' <=> Blamed(r, p)
  BY <1>1, <1>2 DEF Blamed, Submitted
<1>6. ASSUME NEW p \in Names, NEW success \in BOOLEAN, NEW i \in 0..MaxRetries
      PROVE  Felt(r, i, p, success)' <=>
               Felt(r, i, p, success) \/ (i = 0 /\ p = p0 /\ success = s0)
  BY <1>1, <1>2, <1>3 DEF Felt, Submitted
<1>7. \A p \in Names, success \in BOOLEAN : ~Felt(r, 0, p, success)
  BY <1>1, <1>2 DEF Felt
<1> HIDE DEF p0, s0
<1>8. Counted(p0, s0)
  BY <1>3, <1>4, <1>5, <1>6, <1>7, FeltCounts
<1> QED BY <1>8 DEF p0, s0
(* All other steps of a request, but for a reset, leave the slices alone and
   keep what the request counts for. *)
LEMMA SilentTally ==
  ASSUME TypeInv, ChainInv, PathInv, "reset" \notin Operations,
         NEW r \in Requests, ArriveAny(r) \/ Serve(r),
         ~RecordFailure(r), ~RecordHealth(r), ~ReportHealth(r)
  PROVE  SameTally(r) /\ UNCHANGED windows
<1>1. StageOK(r) /\ WorkOK(r) /\ PathOK(r)
  BY DEF TypeInv, ChainInv, PathInv
<1> USE DEF Goto, Answer, TypeInv, TypeOK, RequestTypeOK
<1>2. ~ResetStep(r) /\ ~Reset(r)
  BY <1>1 DEF ResetStep, ResetStore, ResetHealth, PathOK, Reset, Arrive
<1>3. UNCHANGED windows
  BY <1>2 DEF ArriveAny, Submit, Report, Arrive, Serve, ProcessFailureStep, RecordRetryOutcomeStep,
         RejectDuplicate, SaveHard, SaveSoft, PlanAttempt, ScanHealth, ScanAdaptive, SelectTarget,
         Simulate, LearnOutcome, LogDecision, FinishChain, FetchUnknown, Fetch, ReportAdaptive,
         ReportUpdate, sharedVars, healthVars
<1>4. CASE ArriveAny(r)
  <2>1. tx[r] = Nil /\ tx'[r] = Nil /\ call[r] = Nil
    BY <1>1, <1>4 DEF ArriveAny, Submit, Report, Reset, Arrive, PathOK, Unstarted
  <2>2. pc'[r] = "recordFailure" \/ call'[r].op # "submit"
    BY <1>2, <1>4 DEF ArriveAny, Submit, Report, Arrive
  <2> QED BY <1>3, <2>1, <2>2 DEF SameTally, Blamed, Felt, Submitted
<1>5. CASE RejectDuplicate(r) \/ FetchUnknown(r)
  <2>1. /\ tx[r] = Nil /\ tx'[r] = Nil /\ call'[r] = call[r]
        /\ pc[r] # "recordFailure" /\ pc'[r] # "recordFailure"
    BY <1>1, <1>5 DEF RejectDuplicate, FetchUnknown, PathOK, Unstarted
  <2> QED BY <1>3, <2>1 DEF SameTally, Blamed, Felt, Submitted
<1>6. CASE SaveHard(r) \/ SaveSoft(r)
  <2>1. /\ tx[r] = Nil /\ call[r] \in Submissions /\ call'[r] = call[r] /\ pc[r] = "save"
        /\ pc'[r] \in {"plan", "done"} /\ tx'[r].retryCount = 0
    BY <1>1, <1>6 DEF SaveHard, SaveSoft, NewTransaction, PathOK, Unstarted, StageOK
  <2>2. Assessed(r)' = 0 /\ call[r].op = "submit"
    BY <2>1, CallKinds DEF Assessed
  <2>3. \A i \in 1..MaxRetries : ~(i <= Assessed(r)')
    BY <2>2, ConstantTypes
  <2> QED BY <1>3, <2>1, <2>2, <2>3 DEF SameTally, Blamed, Felt, Submitted
<1>7. CASE \/ PlanAttempt(r) \/ ScanHealth(r) \/ ScanAdaptive(r) \/ SelectTarget(r)
           \/ LearnOutcome(r) \/ LogDecision(r) \/ FinishChain(r)
  <2>1. call[r] \in Submissions /\ tx[r] \in Transactions /\ pc[r] \in InChain
    BY <1>1, <1>7 DEF PlanAttempt, ScanHealth, ScanAdaptive, SelectTarget, LearnOutcome,
                      LogDecision, FinishChain, StageOK, InChain
  <2>2. /\ call'[r] = call[r] /\ tx'[r] # Nil /\ tx[r] # Nil
        /\ tx'[r].attempts = tx[r].attempts /\ tx'[r].retryCount = tx[r].retryCount
        /\ pc[r] \notin {"recordHealth", "recordFailure"}
        /\ pc'[r] \notin {"recordHealth", "recordFailure"}
    <3>1. CASE SelectTarget(r)
      BY <2>1, <3>1, SelectTargetRoutes, NilAssumption DEF SelectTarget
    <3>2. CASE LogDecision(r)
      <4>1. tx'[r].status \in Statuses /\ tx'[r] = [tx[r] EXCEPT !.status = tx'[r].status]
        BY <2>1, <3>2, TransactionType DEF LogDecision, Transactions, Statuses
      <4>2. tx'[r] \in Transactions
        BY <2>1, <4>1, StatusUpdate
      <4>3. call'[r] = call[r] /\ pc[r] = "log" /\ pc'[r] \in {"plan", "update"}
        BY <3>2 DEF LogDecision
      <4> QED BY <2>1, <4>1, <4>2, <4>3, NilAssumption DEF Transactions
    <3>3. CASE \/ PlanAttempt(r) \/ ScanHealth(r) \/ ScanAdaptive(r) \/ LearnOutcome(r)
               \/ FinishChain(r)
      BY <2>1, <3>3, NilAssumption
      DEF PlanAttempt, ScanHealth, ScanAdaptive, LearnOutcome, FinishChain
    <3> QED BY <1>7, <3>1, <3>2, <3>3
  <2>3. Assessed(r)' = Assessed(r) /\ call[r].op = "submit"
    BY <2>1, <2>2, CallKinds DEF Assessed
  <2> QED BY <1>3, <2>2, <2>3 DEF SameTally, Blamed, Felt, Submitted
<1>8. CASE Simulate(r)
  <2>1. /\ call[r] \in Submissions /\ tx[r] \in Transactions /\ UNCHANGED call
        /\ pc[r] = "simulate" /\ pc'[r] = "recordHealth"
    BY <1>1, <1>8 DEF Simulate, StageOK, InChain
  <2>2. PICK made : /\ tx'[r].attempts = Append(tx[r].attempts, made)
                    /\ tx'[r].retryCount = tx[r].retryCount + 1
    BY <1>8, <2>1 DEF Simulate, Transactions
  <2>3. tx'[r] # Nil /\ tx[r] # Nil
    <3>1. TypeInv'
      BY <1>8, SimulateType
    <3> QED BY <2>1, <3>1, NilAssumption DEF StageOK, InChain
  <2>4. /\ tx[r].attempts \in Seq(Attempts) /\ tx[r].retryCount = Len(tx[r].attempts)
    BY <1>1, <2>1, TransactionType DEF WorkOK, InChain
  <2>5. /\ Assessed(r)' = Len(tx[r].attempts) /\ Assessed(r) = Len(tx[r].attempts)
        /\ call[r].op = "submit"
    BY <2>1, <2>2, <2>4, CallKinds DEF Assessed
  <2>6. \A i \in 1..MaxRetries : i <= Len(tx[r].attempts) => tx'[r].attempts[i] = tx[r].attempts[i]
    BY <2>2, <2>4, ConstantTypes
  <2> QED BY <1>3, <2>1, <2>3, <2>5, <2>6 DEF SameTally, Blamed, Felt, Submitted
<1>9. CASE Fetch(r) \/ ReportAdaptive(r) \/ ReportUpdate(r)
  <2>1. call[r] \in Reports /\ call'[r] = call[r] /\ call[r].op = "report"
    BY <1>1, <1>9, CallKinds DEF Fetch, ReportAdaptive, ReportUpdate, StageOK, Reporting
  <2>2. CASE Fetch(r)
    <3>1. /\ pc[r] = "fetch" /\ pc'[r] = "reportHealth"
      BY <2>2 DEF Fetch
    <3> QED BY <1>3, <2>1, <3>1 DEF SameTally, Blamed, Felt, Submitted
  <2>3. CASE ReportAdaptive(r)
    <3>1. pc[r] = "reportAdaptive" /\ pc'[r] = "reportUpdate" /\ tx[r] \in Transactions
          /\ tx'[r] = [tx[r] EXCEPT !.status = StatusAfterReport(r)]
      BY <1>1, <2>3 DEF ReportAdaptive, StageOK, Reporting
    <3>2. StatusAfterReport(r) \in Statuses
      BY <3>1, TransactionType DEF StatusAfterReport, Statuses
    <3>3. tx'[r] # Nil /\ tx[r] # Nil /\ tx'[r].event = tx[r].event
      BY <3>1, <3>2, StatusUpdate, NilAssumption
    <3> QED BY <1>3, <2>1, <3>1, <3>3 DEF SameTally, Blamed, Felt, Submitted
  <2>4. CASE ReportUpdate(r)
    <3>1. pc[r] = "reportUpdate" /\ pc'[r] = "done" /\ tx'[r] = tx[r]
      BY <2>4 DEF ReportUpdate
    <3> QED BY <1>3, <2>1, <3>1 DEF SameTally, Blamed, Felt, Submitted
  <2> QED BY <1>9, <2>2, <2>3, <2>4
<1> QED BY <1>2, <1>4, <1>5, <1>6, <1>7, <1>8, <1>9
    DEF Serve, ProcessFailureStep, RecordRetryOutcomeStep

LEMMA InitHealthLedger == ASSUME Lasting, Init PROVE HealthLedgerSum
<1> SUFFICES ASSUME NEW p \in Names, NEW success \in BOOLEAN
             PROVE  Count(windows[p], success) = Tally(p, success)
  BY DEF HealthLedgerSum
<1>1. BlamedSet(p) = {} /\ FeltSet(p, success) = {}
  BY DEF Init, BlamedSet, FeltSet, Blamed, Felt, Submitted
<1>2. Tally(p, success) = 0
  BY <1>1, FS_EmptySet DEF Tally
<1>3. Count(EmptyWindow, success) = 0
  <2> DEFINE Kind == {x \in Outcomes : x.success = success}
  <2>1. IsFiniteSet(Kind)
    BY OutcomesFinite, FS_Subset DEF Lasting
  <2>2. \A x \in Kind : EmptyWindow[x] = 0
    BY DEF EmptyWindow
  <2>3. Count(EmptyWindow, success) = SumFunctionOnSet(EmptyWindow, Kind)
    BY DEF Count, EmptyWindow
  <2> HIDE DEF Kind
  <2> QED BY <2>1, <2>2, <2>3, SumZero
<1> QED BY <1>2, <1>3 DEF Init, HealthInit

LEMMA NextHealthLedger ==
  ASSUME Lasting, "reset" \notin Operations,
         TypeInv, ChainInv, PathInv, HealthLedgerSum, [Next]_vars
  PROVE  HealthLedgerSum'
<1>1. CASE UNCHANGED <<windows, localVars>>
  <2>1. \A r \in Requests : SameTally(r)
    BY <1>1 DEF localVars, SameTally, Blamed, Felt, Submitted, Assessed
  <2> QED BY <1>1, <2>1, HealthLedgerKept
<1>2. ASSUME NEW r \in Requests, ArriveAny(r) \/ Serve(r) PROVE HealthLedgerSum'
  <2>1. HealthTypeOK /\ StageOK(r)
    BY DEF TypeInv, TypeOK
  <2>2. CASE RecordFailure(r)
    <3>1. call[r].event.processor \in Names /\ call[r].event.ts \in Times
      BY <2>1, <2>2, EventType DEF RecordFailure, Goto, StageOK
    <3>2. RecordOutcome(call[r].event.processor, FALSE, call[r].event.ts)
      BY <2>2 DEF RecordFailure
    <3> QED BY <2>1, <2>2, <3>1, <3>2, RecordFailureTally, HealthLedgerAdds
  <2>3. CASE RecordHealth(r)
    <3>1. attempt[r].processor \in Names /\ attempt[r].success \in BOOLEAN /\ attempt[r].ts \in Times
      BY <2>1, <2>3, AttemptType DEF RecordHealth, Goto, StageOK, Attempting
    <3>2. RecordOutcome(attempt[r].processor, attempt[r].success, attempt[r].ts)
      BY <2>3 DEF RecordHealth
    <3> QED BY <2>1, <2>3, <3>1, <3>2, RecordHealthTally, HealthLedgerAdds
  <2>4. CASE ReportHealth(r)
    <3>1. attempt[r].processor \in Names /\ attempt[r].success \in BOOLEAN /\ attempt[r].ts \in Times
      BY <2>1, <2>4, ReportedOutcomeType DEF ReportHealth, Goto, StageOK
    <3>2. RecordOutcome(attempt[r].processor, attempt[r].success, attempt[r].ts)
      BY <2>4 DEF ReportHealth
    <3> QED BY <2>1, <2>4, <3>1, <3>2, ReportHealthTally, HealthLedgerAdds
  <2>5. CASE ~RecordFailure(r) /\ ~RecordHealth(r) /\ ~ReportHealth(r)
    <3>1. SameTally(r) /\ UNCHANGED windows
      BY <1>2, <2>5, SilentTally
    <3>2. \A q \in Requests : SameTally(q)
      BY <1>2, <3>1, ServeFrame, OthersSameTally
    <3> QED BY <3>1, <3>2, HealthLedgerKept
  <2> QED BY <2>2, <2>3, <2>4, <2>5
<1> QED BY <1>1, <1>2 DEF Next, ClockTick, Tick, Quiet, vars, sharedVars, healthVars

(* RecordOutcome neither loses nor repeats an outcome while nothing expires
   and nobody resets: the slices hold the original failure of every
   submission, every attempt and every report once. *)
THEOREM HealthCountsComplete ==
  ASSUME Lasting, "reset" \notin Operations
  PROVE  Spec => []HealthLedger
<1>1. Init => HealthLedgerSum
  BY InitHealthLedger
<1>2. TypeInv /\ ChainInv /\ PathInv /\ HealthLedgerSum /\ [Next]_vars => HealthLedgerSum'
  BY NextHealthLedger
<1>3. Spec => []HealthLedgerSum
  BY <1>1, <1>2, TypeInvariant, ChainInvariant, PathInvariant, PTL DEF Spec
<1> QED BY <1>3, HealthLedgerSays, PTL
=============================================================================

------------------------------- MODULE Locks -------------------------------
(***************************************************************************)
(* The three sync.RWMutex of the program (MemoryStore.mu,                  *)
(* RollingHealthTracker.mu and orchestrator.mu), the data each protects,   *)
(* and the order in which every operation takes them.                      *)
(*                                                                         *)
(* The other modules take each critical section for one step.  That is     *)
(* sound when no two goroutines touch the same data at the same time, one  *)
(* of them writing, and when no goroutine waits for a lock forever: the    *)
(* properties of this module.                                              *)
(***************************************************************************)
EXTENDS Integers, Sequences

CONSTANTS Threads,      \* the goroutines that serve requests
          MaxAttempts   \* bound: attempts of a retry chain, maxRetries

ASSUME LocksAssumption == MaxAttempts \in Nat \ {0}

Mutexes == {"store", "tracker", "orch"}
Data    == {"transactions", "decisions", "txOrder", "windows", "adaptiveData", "rng"}
NoOne   == "no one"

ASSUME NoOneAssumption == NoOne \notin Threads

VARIABLES writer,    \* mutex -> the goroutine whose Lock is pending or granted
          todo,      \* goroutine -> the critical sections of its operation left
          depth,     \* how many mutexes of the first of them it holds
          leaving,   \* whether it is on its way out of that section
          attempts   \* attempts its retry chain may still make

vars == <<writer, todo, depth, leaving, attempts>>

-----------------------------------------------------------------------------
(* Critical sections: the mutexes taken, outermost first, each with its mode
   and the data read or written while it is held. *)

Reading(mutex, data) == [mutex |-> mutex, mode |-> "R", reads |-> data, writes |-> {}]
Writing(mutex, data) == [mutex |-> mutex, mode |-> "W", reads |-> {}, writes |-> data]

SaveTransaction         == <<Writing("store", {"transactions", "txOrder"})>>
GetTransaction          == <<Reading("store", {"transactions"})>>
UpdateTransaction       == <<Writing("store", {"transactions"})>>
ListTransactions        == <<Reading("store", {"transactions", "txOrder"})>>
GetTransactionsInRange  == <<Reading("store", {"transactions", "txOrder"})>>
SaveDecisionLog         == <<Writing("store", {"decisions"})>>
GetDecisionLogs         == <<Reading("store", {"decisions"})>>
ResetStore              == <<Writing("store", {"transactions", "decisions", "txOrder"})>>

RecordOutcomeShared     == <<[Reading("tracker", {}) EXCEPT !.writes = {"windows"}]>>  \* mutant: prunes under RLock
RecordOutcome           == <<Writing("tracker", {"windows"})>>
GetHealth               == <<Reading("tracker", {"windows"})>>
GetAllHealthNested      == GetHealth \o GetHealth  \* mutant: calls GetHealth, which locks again
GetAllHealth            == <<Reading("tracker", {"windows"})>>
ResetHealth             == <<Writing("tracker", {"windows"})>>

(* simulateOutcome holds o.mu, because rand.Rand is not safe for concurrent
   use, while it calls the tracker. *)
SimulateOutcomeShared   == <<[Reading("orch", {}) EXCEPT !.writes = {"rng"}]>> \o GetHealth  \* mutant: RLock
SimulateOutcome         == <<Writing("orch", {"rng"})>> \o GetHealth
RecordAdaptive          == <<Writing("orch", {"adaptiveData"})>>
GetAdaptiveRate         == <<Reading("orch", {"adaptiveData"})>>
GetAdaptiveWeights      == <<Reading("orch", {"adaptiveData"})>>

-----------------------------------------------------------------------------
(* Operations: the critical sections in program order. *)

Operations ==
  {<<GetTransaction, RecordOutcome, RecordAdaptive, UpdateTransaction>>,  \* RecordRetryOutcome
   <<ResetStore, ResetHealth>>,                                           \* resetData
   <<GetTransaction, GetDecisionLogs>>,                                   \* getRetryHistory
   <<ListTransactions>>,
   <<GetTransactionsInRange, GetHealth, GetHealth, GetHealth>>,           \* GetProcessorMetrics
   <<GetAllHealth>>,
   <<GetAdaptiveWeights>>}

(* planRetryAttempt stays on the original processor, or visits the other two
   (a DOWN one is not rated) and reads again what the reasoning quotes. *)
Visits  == {<<GetHealth>>, <<GetHealth, GetAdaptiveRate>>}
Quotes  == {<<GetHealth>>, <<GetHealth, GetAdaptiveRate>>}
Rerouted(v, w, q) == <<GetHealth>> \o v \o w \o q
Plans   == {<<GetHealth>>} \cup {Rerouted(v, w, q) : v \in Visits, w \in Visits, q \in Quotes}

Retry(plan) == plan \o <<SimulateOutcome, RecordOutcome, RecordAdaptive, SaveDecisionLog>>

-----------------------------------------------------------------------------
(* sync.RWMutex *)

Section(t) == Head(todo[t])

Held(t) == IF todo[t] = <<>> THEN {} ELSE {Section(t)[i] : i \in 1..depth[t]}

Readers(m) == {t \in Threads : \E h \in Held(t) : h.mutex = m /\ h.mode = "R"}

Wanted(t) == Section(t)[depth[t] + 1]

Wants(t, mode) == /\ todo[t] # <<>> /\ ~leaving[t]
                  /\ depth[t] < Len(Section(t))
                  /\ Wanted(t).mode = mode

(* RLock waits while a writer holds the mutex or has asked for it. *)
CanRLock(t) == Wants(t, "R") /\ writer[Wanted(t).mutex] = NoOne

RLock(t) == /\ CanRLock(t)
            /\ depth' = [depth EXCEPT ![t] = depth[t] + 1]
            /\ UNCHANGED <<writer, todo, leaving, attempts>>

(* Lock: one writer at a time asks, which shuts out new readers, and then it
   waits for the readers inside to leave. *)
CanAsk(t) == Wants(t, "W") /\ writer[Wanted(t).mutex] = NoOne

Ask(t) == /\ CanAsk(t)
          /\ writer' = [writer EXCEPT ![Wanted(t).mutex] = t]
          /\ UNCHANGED <<todo, depth, leaving, attempts>>

CanLock(t) == Wants(t, "W") /\ writer[Wanted(t).mutex] = t /\ Readers(Wanted(t).mutex) = {}

Lock(t) == /\ CanLock(t)
           /\ depth' = [depth EXCEPT ![t] = depth[t] + 1]
           /\ UNCHANGED <<writer, todo, leaving, attempts>>

(* The deferred unlocks, innermost first. *)
CanUnlock(t) == todo[t] # <<>> /\ depth[t] > 0 /\ (leaving[t] \/ depth[t] = Len(Section(t)))

UnlockTwice(t) ==   \* mutant: a section unlocks, and its defer does again
  LET h == Section(t)[depth[t]]
  IN  /\ CanUnlock(t)
      /\ writer' = [m \in Mutexes |-> IF m = h.mutex /\ h.mode = "W" THEN NoOne ELSE writer[m]]
      /\ depth' = [depth EXCEPT ![t] = depth[t] - 2]
      /\ leaving' = [leaving EXCEPT ![t] = depth[t] > 1]
      /\ todo' = [todo EXCEPT ![t] = IF depth[t] > 1 THEN todo[t] ELSE Tail(todo[t])]
      /\ UNCHANGED attempts
Unlock(t) ==
  LET h == Section(t)[depth[t]]
  IN  /\ CanUnlock(t)
      /\ writer' = [m \in Mutexes |-> IF m = h.mutex /\ h.mode = "W" THEN NoOne ELSE writer[m]]
      /\ depth' = [depth EXCEPT ![t] = depth[t] - 1]
      /\ leaving' = [leaving EXCEPT ![t] = depth[t] > 1]
      /\ todo' = [todo EXCEPT ![t] = IF depth[t] > 1 THEN todo[t] ELSE Tail(todo[t])]
      /\ UNCHANGED attempts

-----------------------------------------------------------------------------
(* Goroutines *)

Idle(t) == todo[t] = <<>> /\ attempts[t] = 0

Run(t, sections, left) == /\ todo' = [todo EXCEPT ![t] = sections]
                          /\ attempts' = [attempts EXCEPT ![t] = left]
                          /\ UNCHANGED <<writer, depth, leaving>>

(* ProcessFailure of a hard decline or a duplicate, and of a soft decline. *)
Call(t) == /\ Idle(t)
           /\ \/ \E operation \in Operations : Run(t, operation, 0)
              \/ \E left \in {0, MaxAttempts} : Run(t, <<RecordOutcome, SaveTransaction>>, left)

(* executeRetryChain: another attempt, or the final update after one. *)
ChainDue(t) == todo[t] = <<>> /\ attempts[t] > 0

ChainForever(t) ==   \* mutant: the attempts are not counted
  /\ ChainDue(t)
  /\ \E plan \in Plans : Run(t, Retry(plan), attempts[t])
Chain(t) ==
  /\ ChainDue(t)
  /\ \E plan \in Plans :
       \/ attempts[t] > 1 /\ Run(t, Retry(plan), attempts[t] - 1)
       \/ Run(t, Retry(plan) \o <<UpdateTransaction>>, 0)

Step(t) == RLock(t) \/ Ask(t) \/ Lock(t) \/ Unlock(t) \/ Chain(t)

Init == /\ writer = [m \in Mutexes |-> NoOne]
        /\ todo = [t \in Threads |-> <<>>]
        /\ depth = [t \in Threads |-> 0]
        /\ leaving = [t \in Threads |-> FALSE]
        /\ attempts = [t \in Threads |-> 0]

Next == \E t \in Threads : Call(t) \/ Step(t)

Spec == Init /\ [][Next]_vars

(* Every goroutine runs.  Unlock lets in the readers that wait, and
   sync.Mutex, which orders the writers, hands over to one that starves, so
   whoever can take a mutex again and again does take it. *)
FairSpec == Spec /\ \A t \in Threads : WF_vars(Step(t)) /\ SF_vars(RLock(t) \/ Ask(t))

-----------------------------------------------------------------------------
(* Properties *)

Holds == [mutex : Mutexes, mode : {"R", "W"}, reads : SUBSET Data, writes : SUBSET Data]

(* Types: who asks for each mutex, and what every goroutine has left to do. *)
TypeOK == /\ writer \in [Mutexes -> Threads \cup {NoOne}]
          /\ todo \in [Threads -> Seq(Seq(Holds) \ {<<>>})]
          /\ depth \in [Threads -> Nat]
          /\ \A t \in Threads : depth[t] <= IF todo[t] = <<>> THEN 0 ELSE Len(Section(t))
          /\ leaving \in [Threads -> BOOLEAN]
          /\ attempts \in [Threads -> 0..MaxAttempts]

(* No two goroutines touch the same data at the same time unless both only
   read: the maps and slices of the store, the windows of the tracker, the
   learned counts and the random source, also while simulateOutcome is inside
   the tracker. *)
NoDataRace ==
  \A t, u \in Threads : t # u =>
    \A h \in Held(t), k \in Held(u) : h.writes \cap (k.reads \cup k.writes) = {}

(* simulateOutcome holds o.mu while it takes the tracker's mutex.  No other
   path takes them the other way round or takes one twice, so of the
   operations under way one can always go on. *)
SomeoneCanProceed ==
  (\E t \in Threads : todo[t] # <<>>) =>
    \E t \in Threads : CanRLock(t) \/ CanAsk(t) \/ CanLock(t) \/ CanUnlock(t)

(* Every operation returns, whatever the other goroutines keep doing: the
   writers do not starve the readers, nor the readers a writer. *)
EveryOperationReturns == \A t \in Threads : ~Idle(t) ~> Idle(t)
=============================================================================

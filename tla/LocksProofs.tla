----------------------------- MODULE LocksProofs -----------------------------
(***************************************************************************)
(* Proofs about Locks, for any number of goroutines and attempts: no data  *)
(* race, and no deadlock.                                                  *)
(***************************************************************************)
EXTENDS Locks, SequenceTheorems, TLAPS

(* What each mutex protects. *)
Protects == [store   |-> {"transactions", "decisions", "txOrder"},
             tracker |-> {"windows"},
             orch    |-> {"adaptiveData", "rng"}]

HoldOK(h) == /\ h \in Holds
             /\ h.reads \cup h.writes \subseteq Protects[h.mutex]
             /\ h.mode = "R" => h.writes = {}

(* A critical section takes one mutex, or writes under o.mu and goes into the
   tracker, never the other way round. *)
Plain(s)  == Len(s) = 1 /\ HoldOK(s[1])
Nested(s) == /\ Len(s) = 2 /\ HoldOK(s[1]) /\ HoldOK(s[2])
             /\ s[1].mutex = "orch" /\ s[1].mode = "W"
             /\ s[2].mutex = "tracker"

Sections == {s \in Seq(Holds) : Plain(s) \/ Nested(s)}

(* The inductive invariant: types; a write lock is exclusive; and whoever a
   mutex is promised to holds it or is waiting for it. *)
Types == /\ writer \in [Mutexes -> Threads \cup {NoOne}]
         /\ todo \in [Threads -> Seq(Sections)]
         /\ depth \in [Threads -> Nat]
         /\ leaving \in [Threads -> BOOLEAN]
         /\ attempts \in [Threads -> 0..MaxAttempts]

Depths == \A t \in Threads :
            /\ depth[t] <= IF todo[t] = <<>> THEN 0 ELSE Len(Section(t))
            /\ leaving[t] => depth[t] > 0

HoldsW(t, m) == \E h \in Held(t) : h.mutex = m /\ h.mode = "W"
HoldsR(t, m) == \E h \in Held(t) : h.mutex = m /\ h.mode = "R"

Exclusive == \A t \in Threads, m \in Mutexes :
               HoldsW(t, m) => writer[m] = t /\ \A u \in Threads : ~HoldsR(u, m)

Promised == \A t \in Threads, m \in Mutexes :
              writer[m] = t => HoldsW(t, m) \/ (Wants(t, "W") /\ Wanted(t).mutex = m)

LockInv == Types /\ Depths /\ Exclusive /\ Promised

-----------------------------------------------------------------------------
(* Every critical section of the program is one of Sections. *)

(* A section that takes one mutex, for reading or for writing. *)
LEMMA PlainSection ==
  ASSUME NEW m \in Mutexes, NEW data \in SUBSET Protects[m]
  PROVE  <<Reading(m, data)>> \in Sections /\ <<Writing(m, data)>> \in Sections
<1> DEFINE r == Reading(m, data)
           w == Writing(m, data)
<1>1. data \subseteq Data
  BY DEF Protects, Mutexes, Data
<1>2. r \in Holds /\ w \in Holds
  BY <1>1 DEF Reading, Writing, Holds
<1>3. HoldOK(r) /\ HoldOK(w)
  BY <1>2 DEF HoldOK, Reading, Writing
<1> HIDE DEF r, w
<1>4. <<r>> \in Seq(Holds) /\ <<w>> \in Seq(Holds)
  BY <1>2
<1>5. Plain(<<r>>) /\ Plain(<<w>>)
  BY <1>3 DEF Plain
<1>6. <<r>> \in Sections /\ <<w>> \in Sections
  BY <1>4, <1>5 DEF Sections
<1> QED
  BY <1>6 DEF r, w

(* The sections of the store, the tracker and the orchestrator. *)
LEMMA ProgramSections ==
  {SaveTransaction, GetTransaction, UpdateTransaction, ListTransactions,
   GetTransactionsInRange, SaveDecisionLog, GetDecisionLogs, ResetStore,
   RecordOutcome, GetHealth, GetAllHealth, ResetHealth, SimulateOutcome,
   RecordAdaptive, GetAdaptiveRate, GetAdaptiveWeights} \subseteq Sections
<1>1. /\ SaveTransaction \in Sections /\ GetTransaction \in Sections
      /\ UpdateTransaction \in Sections /\ ListTransactions \in Sections
      /\ GetTransactionsInRange \in Sections /\ SaveDecisionLog \in Sections
      /\ GetDecisionLogs \in Sections /\ ResetStore \in Sections
  <2>1. "store" \in Mutexes /\ Protects["store"] = {"transactions", "decisions", "txOrder"}
    BY DEF Mutexes, Protects
  <2> QED
    BY <2>1, PlainSection
       DEF SaveTransaction, GetTransaction, UpdateTransaction, ListTransactions,
           GetTransactionsInRange, SaveDecisionLog, GetDecisionLogs, ResetStore
<1>2. /\ RecordOutcome \in Sections /\ GetHealth \in Sections
      /\ GetAllHealth \in Sections /\ ResetHealth \in Sections
  <2>1. "tracker" \in Mutexes /\ Protects["tracker"] = {"windows"}
    BY DEF Mutexes, Protects
  <2> QED
    BY <2>1, PlainSection DEF RecordOutcome, GetHealth, GetAllHealth, ResetHealth
<1>3. /\ RecordAdaptive \in Sections /\ GetAdaptiveRate \in Sections
      /\ GetAdaptiveWeights \in Sections
  <2>1. "orch" \in Mutexes /\ Protects["orch"] = {"adaptiveData", "rng"}
    BY DEF Mutexes, Protects
  <2> QED
    BY <2>1, PlainSection DEF RecordAdaptive, GetAdaptiveRate, GetAdaptiveWeights
<1>4. SimulateOutcome \in Sections
  <2> DEFINE w == Writing("orch", {"rng"})
             r == Reading("tracker", {"windows"})
  <2>1. w \in Holds /\ r \in Holds
    BY DEF Writing, Reading, Holds, Mutexes, Data
  <2>2. HoldOK(w) /\ HoldOK(r)
    BY <2>1 DEF HoldOK, Writing, Reading, Protects
  <2>3. w.mutex = "orch" /\ w.mode = "W" /\ r.mutex = "tracker"
    BY DEF Writing, Reading
  <2>4. SimulateOutcome = <<w>> \o <<r>>
    BY DEF SimulateOutcome, GetHealth
  <2> HIDE DEF w, r
  <2>5. <<w>> \in Seq(Holds) /\ <<r>> \in Seq(Holds)
    BY <2>1
  <2>6. SimulateOutcome \in Seq(Holds) /\ Len(SimulateOutcome) = 2
    BY <2>4, <2>5, ConcatProperties
  <2>7. SimulateOutcome[1] = w /\ SimulateOutcome[2] = r
    BY <2>4, <2>5, ConcatProperties
  <2>8. Nested(SimulateOutcome)
    BY <2>2, <2>3, <2>6, <2>7 DEF Nested
  <2> QED
    BY <2>6, <2>8 DEF Sections
<1> QED
  BY <1>1, <1>2, <1>3, <1>4

(* So is every section of an operation, and of an attempt of a retry chain. *)
LEMMA OperationSections ==
  /\ Operations \subseteq Seq(Sections)
  /\ <<RecordOutcome, SaveTransaction>> \in Seq(Sections)
  /\ \A plan \in Plans : /\ Retry(plan) \in Seq(Sections)
                         /\ Retry(plan) \o <<UpdateTransaction>> \in Seq(Sections)
<1>1. Operations \subseteq Seq(Sections)
  BY ProgramSections DEF Operations
<1>2. <<RecordOutcome, SaveTransaction>> \in Seq(Sections)
  BY ProgramSections
<1>3. ASSUME NEW plan \in Plans
      PROVE  plan \in Seq(Sections)
  <2>1. <<GetHealth>> \in Seq(Sections) /\ <<GetHealth, GetAdaptiveRate>> \in Seq(Sections)
    BY ProgramSections
  <2>2. Visits \subseteq Seq(Sections) /\ Quotes \subseteq Seq(Sections)
    BY <2>1 DEF Visits, Quotes
  <2>3. ASSUME NEW v \in Visits, NEW w \in Visits, NEW q \in Quotes
        PROVE  Rerouted(v, w, q) \in Seq(Sections)
    BY <2>1, <2>2, ConcatProperties DEF Rerouted
  <2>4. plan = <<GetHealth>> \/ \E v \in Visits, w \in Visits, q \in Quotes : plan = Rerouted(v, w, q)
    BY DEF Plans
  <2> QED
    BY <2>1, <2>3, <2>4
<1>4. ASSUME NEW plan \in Plans
      PROVE  Retry(plan) \in Seq(Sections)
  <2>1. <<SimulateOutcome, RecordOutcome, RecordAdaptive, SaveDecisionLog>> \in Seq(Sections)
    BY ProgramSections
  <2> QED
    BY <1>3, <2>1, ConcatProperties DEF Retry
<1>5. <<UpdateTransaction>> \in Seq(Sections)
  BY ProgramSections
<1> QED
  BY <1>1, <1>2, <1>4, <1>5, ConcatProperties

-----------------------------------------------------------------------------
(* What a goroutine holds *)

(* The section a goroutine is in, and what it holds of it. *)
LEMMA SectionShape ==
  ASSUME Types, Depths, NEW t \in Threads, todo[t] # <<>>
  PROVE  /\ Section(t) \in Sections
         /\ depth[t] \in 0..Len(Section(t))
         /\ Len(Section(t)) \in {1, 2}
         /\ \A i \in 1..Len(Section(t)) : HoldOK(Section(t)[i])
         /\ Held(t) = {Section(t)[i] : i \in 1..depth[t]}
<1>1. Section(t) \in Sections
  <2>1. todo[t] \in Seq(Sections)
    BY DEF Types
  <2> QED
    BY <2>1 DEF Section
<1>2. depth[t] \in 0..Len(Section(t))
  <2>1. depth[t] \in Nat /\ depth[t] <= Len(Section(t))
    BY DEF Types, Depths
  <2>2. Len(Section(t)) \in Nat
    BY <1>1 DEF Sections
  <2> QED
    BY <2>1, <2>2
<1>3. Len(Section(t)) \in {1, 2} /\ \A i \in 1..Len(Section(t)) : HoldOK(Section(t)[i])
  BY <1>1 DEF Sections, Plain, Nested
<1> QED
  BY <1>1, <1>2, <1>3 DEF Held

(* Everything held is a hold of the program, by a goroutine that is in an
   operation. *)
LEMMA HeldFacts ==
  ASSUME Types, Depths, NEW t \in Threads, NEW h \in Held(t)
  PROVE  /\ HoldOK(h) /\ h \in Holds
         /\ todo[t] # <<>>
<1>1. todo[t] # <<>>
  BY DEF Held
<1>2. PICK i \in 1..depth[t] : h = Section(t)[i]
  BY <1>1 DEF Held
<1>3. i \in 1..Len(Section(t))
  BY <1>1, <1>2, SectionShape
<1>4. HoldOK(h)
  BY <1>1, <1>2, <1>3, SectionShape
<1> QED
  BY <1>1, <1>4 DEF HoldOK

(* Taking the next mutex of a section. *)
LEMMA Acquires ==
  ASSUME Types, Depths, NEW t \in Threads, NEW mode, Wants(t, mode),
         todo' = todo, depth' = [depth EXCEPT ![t] = depth[t] + 1]
  PROVE  /\ Held(t)' = Held(t) \cup {Wanted(t)}
         /\ \A u \in Threads \ {t} : Held(u)' = Held(u)
         /\ Wanted(t) \in Holds /\ Wanted(t).mode = mode
         /\ depth[t] + 1 \in 1..Len(Section(t))
<1>1. todo[t] # <<>> /\ depth[t] < Len(Section(t)) /\ Wanted(t).mode = mode
  BY DEF Wants
<1>2. depth[t] \in Nat /\ depth \in [Threads -> Nat] /\ Len(Section(t)) \in {1, 2}
  BY <1>1, SectionShape DEF Types
<1>3. depth[t] + 1 \in 1..Len(Section(t)) /\ 1..(depth[t] + 1) = (1..depth[t]) \cup {depth[t] + 1}
  BY <1>1, <1>2
<1>4. Wanted(t) \in Holds
  BY <1>1, <1>3, SectionShape DEF Wanted, HoldOK
<1>5. Held(t)' = {Section(t)[i] : i \in 1..(depth[t] + 1)}
  BY <1>1, <1>2 DEF Held, Section
<1>6. Held(t)' = Held(t) \cup {Wanted(t)}
  BY <1>1, <1>3, <1>5, SectionShape DEF Wanted
<1>7. \A u \in Threads \ {t} : Held(u)' = Held(u)
  BY <1>2 DEF Held, Section
<1> QED
  BY <1>1, <1>3, <1>4, <1>6, <1>7

(* Unlocking lets go of one mutex, which the goroutine holds only once, and
   of nothing else. *)
LEMMA Releases ==
  ASSUME Types, Depths, NEW t \in Threads, Unlock(t)
  PROVE  /\ Section(t)[depth[t]] \in Held(t)
         /\ \A k \in Held(t)' : k \in Held(t) /\ k.mutex # Section(t)[depth[t]].mutex
         /\ \A k \in Held(t) : k.mutex # Section(t)[depth[t]].mutex => k \in Held(t)'
         /\ \A u \in Threads \ {t} : Held(u)' = Held(u)
<1> DEFINE d == depth[t]
<1>1. /\ todo[t] # <<>> /\ d > 0
      /\ depth' = [depth EXCEPT ![t] = d - 1]
      /\ todo' = [todo EXCEPT ![t] = IF d > 1 THEN todo[t] ELSE Tail(todo[t])]
  BY DEF Unlock, CanUnlock
<1>2. /\ d \in 1..Len(Section(t)) /\ Len(Section(t)) \in {1, 2} /\ Section(t) \in Sections
      /\ Held(t) = {Section(t)[i] : i \in 1..d}
  BY <1>1, SectionShape
<1>3. depth \in [Threads -> Nat] /\ todo \in [Threads -> Seq(Sections)]
  BY DEF Types
<1>4. \A u \in Threads \ {t} : Held(u)' = Held(u)
  BY <1>1, <1>3 DEF Held, Section
<1>5. CASE d = 1
  <2>1. Held(t) = {Section(t)[1]}
    BY <1>2, <1>5
  <2>2. depth'[t] = 0
    BY <1>1, <1>3, <1>5
  <2>3. Held(t)' = {}
    BY <2>2 DEF Held
  <2> QED
    BY <1>4, <1>5, <2>1, <2>3
<1>6. CASE d = 2
  <2>1. Len(Section(t)) = 2 /\ Nested(Section(t))
    BY <1>2, <1>6 DEF Sections, Plain
  <2>2. Section(t)[1].mutex # Section(t)[2].mutex
    BY <2>1 DEF Nested
  <2>3. Held(t) = {Section(t)[1], Section(t)[2]}
    BY <1>2, <1>6
  <2>4. depth'[t] = 1 /\ todo'[t] = todo[t]
    BY <1>1, <1>3, <1>6
  <2>5. Held(t)' = {Section(t)[1]}
    <3>1. Held(t)' = {Section(t)[i] : i \in 1..1}
      BY <1>1, <2>4 DEF Held, Section
    <3>2. 1..1 = {1}
      OBVIOUS
    <3> QED
      BY <3>1, <3>2
  <2> QED
    BY <1>4, <1>6, <2>2, <2>3, <2>5
<1> QED
  BY <1>2, <1>5, <1>6

-----------------------------------------------------------------------------
(* The invariant is inductive. *)

LEMMA InitLockInv == Init => LockInv
<1> SUFFICES ASSUME Init PROVE LockInv
  OBVIOUS
<1>1. Types
  <2>1. <<>> \in Seq(Sections) /\ 0 \in 0..MaxAttempts
    BY LocksAssumption
  <2> QED
    BY <2>1 DEF Init, Types
<1>2. \A t \in Threads : Held(t) = {}
  BY DEF Init, Held
<1>3. Depths
  <2> SUFFICES ASSUME NEW t \in Threads
               PROVE  /\ depth[t] <= IF todo[t] = <<>> THEN 0 ELSE Len(Section(t))
                      /\ leaving[t] => depth[t] > 0
    BY DEF Depths
  <2>1. todo[t] = <<>> /\ depth[t] = 0 /\ ~leaving[t]
    BY DEF Init
  <2> QED
    BY <2>1
<1>4. Exclusive
  BY <1>2 DEF Exclusive, HoldsW
<1>5. Promised
  BY NoOneAssumption DEF Init, Promised
<1> QED
  BY <1>1, <1>3, <1>4, <1>5 DEF LockInv

(* An operation or an attempt begins: nothing is held. *)
LEMMA RunKeeps ==
  ASSUME LockInv, NEW t \in Threads, todo[t] = <<>>,
         NEW sections \in Seq(Sections), NEW left \in 0..MaxAttempts,
         Run(t, sections, left)
  PROVE  LockInv'
<1> USE DEF LockInv
<1>1. /\ depth[t] = 0 /\ leaving[t] = FALSE
  BY DEF Types, Depths
<1>2. /\ todo' = [todo EXCEPT ![t] = sections] /\ attempts' = [attempts EXCEPT ![t] = left]
      /\ writer' = writer /\ depth' = depth /\ leaving' = leaving
  BY DEF Run
<1>3. Types'
  BY <1>2 DEF Types
<1>4. Depths'
  <2>1. ASSUME NEW u \in Threads
        PROVE  /\ depth[u] <= IF todo'[u] = <<>> THEN 0 ELSE Len(Section(u)')
               /\ leaving[u] => depth[u] > 0
    <3>1. CASE u = t
      <4>1. todo'[t] # <<>> => Section(t)' \in Sections
        BY <1>3 DEF Types, Section
      <4>2. todo'[t] # <<>> => Len(Section(t)') \in Nat
        BY <4>1 DEF Sections
      <4> QED
        BY <1>1, <3>1, <4>2
    <3>2. CASE u # t
      BY <1>2, <3>2 DEF Types, Depths, Section
    <3> QED
      BY <3>1, <3>2
  <2> QED
    BY <1>2, <2>1 DEF Depths
<1>5. \A u \in Threads : Held(u)' = Held(u)
  <2>1. Held(t) = {}
    BY DEF Held
  <2>2. Held(t)' = {}
    BY <1>1, <1>2 DEF Held
  <2>3. \A u \in Threads \ {t} : Held(u)' = Held(u)
    BY <1>2 DEF Held, Section, Types
  <2> QED
    BY <2>1, <2>2, <2>3
<1>6. \A u \in Threads, m \in Mutexes : HoldsW(u, m)' = HoldsW(u, m) /\ HoldsR(u, m)' = HoldsR(u, m)
  BY <1>5 DEF HoldsW, HoldsR
<1>7. Exclusive'
  BY <1>2, <1>6 DEF Exclusive
<1>8. Promised'
  <2> SUFFICES ASSUME NEW u \in Threads, NEW m \in Mutexes, writer[m] = u
               PROVE  HoldsW(u, m)' \/ (Wants(u, "W")' /\ Wanted(u)'.mutex = m)
    BY <1>2 DEF Promised
  <2>1. HoldsW(u, m) \/ (Wants(u, "W") /\ Wanted(u).mutex = m)
    BY DEF Promised
  <2>2. u # t
    BY <2>1 DEF HoldsW, Held, Wants
  <2>3. Wants(u, "W")' = Wants(u, "W") /\ Wanted(u)' = Wanted(u)
    BY <1>2, <2>2 DEF Wants, Wanted, Section, Types
  <2> QED
    BY <1>6, <2>1, <2>3
<1> QED
  BY <1>3, <1>4, <1>7, <1>8

(* Taking a mutex keeps types and depths. *)
LEMMA AcquireKeepsShape ==
  ASSUME Types, Depths, NEW t \in Threads, NEW mode, Wants(t, mode),
         todo' = todo, depth' = [depth EXCEPT ![t] = depth[t] + 1],
         UNCHANGED <<writer, leaving, attempts>>
  PROVE  Types' /\ Depths'
<1>1. todo[t] # <<>> /\ depth[t] + 1 \in 1..Len(Section(t)) /\ depth[t] \in Nat
  BY Acquires DEF Wants, Types
<1>2. Types'
  BY <1>1 DEF Types
<1>3. Len(Section(t)) \in Nat
  BY <1>1, SectionShape
<1>4. ASSUME NEW u \in Threads
      PROVE  /\ depth'[u] <= IF todo[u] = <<>> THEN 0 ELSE Len(Section(u)')
             /\ leaving'[u] => depth'[u] > 0
  <2>1. CASE u = t
    BY <1>1, <1>3, <2>1 DEF Types, Section
  <2>2. CASE u # t
    BY <2>2 DEF Types, Depths, Section
  <2> QED
    BY <2>1, <2>2
<1> QED
  BY <1>2, <1>4 DEF Depths

LEMMA RLockKeeps ==
  ASSUME LockInv, NEW t \in Threads, RLock(t)
  PROVE  LockInv'
<1> USE DEF LockInv
<1> DEFINE w == Wanted(t)
<1>1. /\ Wants(t, "R") /\ writer[w.mutex] = NoOne
      /\ depth' = [depth EXCEPT ![t] = depth[t] + 1]
      /\ todo' = todo /\ UNCHANGED <<writer, leaving, attempts>>
  BY DEF RLock, CanRLock
<1>2. Types' /\ Depths'
  BY <1>1, AcquireKeepsShape
<1>3. /\ Held(t)' = Held(t) \cup {w} /\ w \in Holds /\ w.mode = "R"
      /\ \A u \in Threads \ {t} : Held(u)' = Held(u)
  BY <1>1, Acquires
<1>4. \A u \in Threads, m \in Mutexes : HoldsW(u, m)' = HoldsW(u, m)
  BY <1>3 DEF HoldsW
<1>5. \A u \in Threads, m \in Mutexes : HoldsR(u, m)' => HoldsR(u, m) \/ m = w.mutex
  BY <1>3 DEF HoldsR
<1>6. Exclusive'
  <2> SUFFICES ASSUME NEW u \in Threads, NEW m \in Mutexes, HoldsW(u, m)
               PROVE  writer'[m] = u /\ \A v \in Threads : ~HoldsR(v, m)'
    BY <1>4 DEF Exclusive
  <2>1. writer[m] = u /\ \A v \in Threads : ~HoldsR(v, m)
    BY DEF Exclusive
  <2>2. m # w.mutex
    BY <1>1, <2>1, NoOneAssumption
  <2> QED
    BY <1>1, <1>5, <2>1, <2>2
<1>7. Promised'
  <2> SUFFICES ASSUME NEW u \in Threads, NEW m \in Mutexes, writer[m] = u
               PROVE  HoldsW(u, m)' \/ (Wants(u, "W")' /\ Wanted(u)'.mutex = m)
    BY <1>1 DEF Promised
  <2>1. HoldsW(u, m) \/ (Wants(u, "W") /\ Wanted(u).mutex = m)
    BY DEF Promised
  <2>2. CASE u = t
    BY <1>1, <1>4, <2>1, <2>2 DEF Wants
  <2>3. CASE u # t
    <3>1. Wants(u, "W")' = Wants(u, "W") /\ Wanted(u)' = Wanted(u)
      BY <1>1, <2>3 DEF Wants, Wanted, Section, Types
    <3> QED
      BY <1>4, <2>1, <3>1
  <2> QED
    BY <2>2, <2>3
<1> QED
  BY <1>2, <1>6, <1>7

LEMMA AskKeeps ==
  ASSUME LockInv, NEW t \in Threads, Ask(t)
  PROVE  LockInv'
<1> USE DEF LockInv
<1> DEFINE w == Wanted(t)
<1>1. /\ Wants(t, "W") /\ writer[w.mutex] = NoOne
      /\ writer' = [writer EXCEPT ![w.mutex] = t]
      /\ UNCHANGED <<todo, depth, leaving, attempts>>
  BY DEF Ask, CanAsk
<1>2. Types'
  BY <1>1 DEF Types
<1>3. /\ \A u \in Threads : /\ Held(u)' = Held(u) /\ Section(u)' = Section(u)
                            /\ Wants(u, "W")' = Wants(u, "W") /\ Wanted(u)' = Wanted(u)
  BY <1>1 DEF Held, Section, Wants, Wanted
<1>4. Depths'
  BY <1>1, <1>3 DEF Depths
<1>5. \A u \in Threads, m \in Mutexes : HoldsW(u, m)' = HoldsW(u, m) /\ HoldsR(u, m)' = HoldsR(u, m)
  BY <1>3 DEF HoldsW, HoldsR
<1>6. Exclusive'
  <2> SUFFICES ASSUME NEW u \in Threads, NEW m \in Mutexes, HoldsW(u, m)
               PROVE  writer'[m] = u /\ \A v \in Threads : ~HoldsR(v, m)
    BY <1>5 DEF Exclusive
  <2>1. writer[m] = u /\ \A v \in Threads : ~HoldsR(v, m)
    BY DEF Exclusive
  <2>2. m # w.mutex
    BY <1>1, <2>1, NoOneAssumption
  <2> QED
    BY <1>1, <2>1, <2>2 DEF Types
<1>7. Promised'
  <2> SUFFICES ASSUME NEW u \in Threads, NEW m \in Mutexes, writer'[m] = u
               PROVE  HoldsW(u, m) \/ (Wants(u, "W") /\ Wanted(u).mutex = m)
    BY <1>3, <1>5 DEF Promised
  <2>1. CASE m = w.mutex
    BY <1>1, <2>1 DEF Types
  <2>2. CASE m # w.mutex
    BY <1>1, <2>2 DEF Types, Promised
  <2> QED
    BY <2>1, <2>2
<1> QED
  BY <1>2, <1>4, <1>6, <1>7

LEMMA LockKeeps ==
  ASSUME LockInv, NEW t \in Threads, Lock(t)
  PROVE  LockInv'
<1> USE DEF LockInv
<1> DEFINE w == Wanted(t)
<1>1. /\ Wants(t, "W") /\ writer[w.mutex] = t /\ Readers(w.mutex) = {}
      /\ depth' = [depth EXCEPT ![t] = depth[t] + 1]
      /\ todo' = todo /\ UNCHANGED <<writer, leaving, attempts>>
  BY DEF Lock, CanLock
<1>2. Types' /\ Depths'
  BY <1>1, AcquireKeepsShape
<1>3. /\ Held(t)' = Held(t) \cup {w} /\ w \in Holds /\ w.mode = "W"
      /\ \A u \in Threads \ {t} : Held(u)' = Held(u)
  BY <1>1, Acquires
<1>4. \A u \in Threads, m \in Mutexes : HoldsR(u, m)' = HoldsR(u, m)
  BY <1>3 DEF HoldsR
<1>5. \A u \in Threads, m \in Mutexes :
        HoldsW(u, m)' = (HoldsW(u, m) \/ (u = t /\ m = w.mutex))
  BY <1>3 DEF HoldsW
<1>6. \A u \in Threads : ~HoldsR(u, w.mutex)
  BY <1>1 DEF HoldsR, Readers
<1>7. Exclusive'
  <2> SUFFICES ASSUME NEW u \in Threads, NEW m \in Mutexes, HoldsW(u, m)'
               PROVE  writer[m] = u /\ \A v \in Threads : ~HoldsR(v, m)
    BY <1>1, <1>4 DEF Exclusive
  <2>1. CASE HoldsW(u, m)
    BY <2>1 DEF Exclusive
  <2>2. CASE u = t /\ m = w.mutex
    BY <1>1, <1>6, <2>2
  <2> QED
    BY <1>5, <2>1, <2>2
<1>8. Promised'
  <2> SUFFICES ASSUME NEW u \in Threads, NEW m \in Mutexes, writer[m] = u
               PROVE  HoldsW(u, m)' \/ (Wants(u, "W")' /\ Wanted(u)'.mutex = m)
    BY <1>1 DEF Promised
  <2>1. HoldsW(u, m) \/ (Wants(u, "W") /\ Wanted(u).mutex = m)
    BY DEF Promised
  <2>2. CASE u = t
    BY <1>5, <2>1, <2>2
  <2>3. CASE u # t
    <3>1. Wants(u, "W")' = Wants(u, "W") /\ Wanted(u)' = Wanted(u)
      BY <1>1, <2>3 DEF Wants, Wanted, Section, Types
    <3> QED
      BY <1>5, <2>1, <3>1
  <2> QED
    BY <2>2, <2>3
<1> QED
  BY <1>2, <1>7, <1>8

LEMMA UnlockKeeps ==
  ASSUME LockInv, NEW t \in Threads, Unlock(t)
  PROVE  LockInv'
<1> USE DEF LockInv
<1> DEFINE d == depth[t]
           h == Section(t)[d]
<1>1. /\ CanUnlock(t)
      /\ writer' = [m \in Mutexes |-> IF m = h.mutex /\ h.mode = "W" THEN NoOne ELSE writer[m]]
      /\ depth' = [depth EXCEPT ![t] = d - 1]
      /\ leaving' = [leaving EXCEPT ![t] = d > 1]
      /\ todo' = [todo EXCEPT ![t] = IF d > 1 THEN todo[t] ELSE Tail(todo[t])]
      /\ attempts' = attempts
  BY DEF Unlock
<1>2. todo[t] # <<>> /\ d > 0 /\ d \in Nat
  BY <1>1 DEF CanUnlock, Types
<1>3. /\ h \in Held(t)
      /\ \A k \in Held(t)' : k \in Held(t) /\ k.mutex # h.mutex
      /\ \A k \in Held(t) : k.mutex # h.mutex => k \in Held(t)'
      /\ \A u \in Threads \ {t} : Held(u)' = Held(u)
  BY Releases
<1>4. h \in Holds
  BY <1>3, HeldFacts
<1>5. Types'
  <2>1. Tail(todo[t]) \in Seq(Sections)
    BY <1>2 DEF Types
  <2> QED
    BY <1>1, <1>2, <2>1 DEF Types
<1>6. Depths'
  <2> SUFFICES ASSUME NEW u \in Threads
               PROVE  /\ depth'[u] <= IF todo'[u] = <<>> THEN 0 ELSE Len(Section(u)')
                      /\ leaving'[u] => depth'[u] > 0
    BY DEF Depths
  <2>1. CASE u # t
    BY <1>1, <2>1 DEF Types, Depths, Section
  <2>2. CASE u = t /\ d > 1
    <3>1. todo'[t] = todo[t] /\ depth'[t] = d - 1 /\ Section(t)' = Section(t)
      BY <1>1, <2>2 DEF Types, Section
    <3>2. d <= Len(Section(t)) /\ Len(Section(t)) \in Nat
      BY <1>2, SectionShape
    <3> QED
      BY <1>2, <2>2, <3>1, <3>2
  <2>3. CASE u = t /\ d = 1
    <3>1. depth'[t] = 0 /\ ~leaving'[t]
      <4>1. depth'[t] = d - 1
        BY <1>1 DEF Types
      <4>2. leaving'[t] = (d > 1)
        BY <1>1, Zenon DEF Types
      <4>3. ~(d > 1) /\ d - 1 = 0
        BY <2>3
      <4> QED
        BY <4>1, <4>2, <4>3
    <3>2. todo'[t] # <<>> => Section(t)' \in Sections
      BY <1>5 DEF Types, Section
    <3>3. todo'[t] # <<>> => Len(Section(t)') \in Nat
      BY <3>2 DEF Sections
    <3> QED
      BY <2>3, <3>1, <3>3
  <2> QED
    BY <1>2, <2>1, <2>2, <2>3
<1>7. \A u \in Threads, m \in Mutexes : HoldsR(u, m)' => HoldsR(u, m)
  BY <1>3 DEF HoldsR
<1>8. \A u \in Threads, m \in Mutexes :
        HoldsW(u, m)' => HoldsW(u, m) /\ (u = t => m # h.mutex)
  BY <1>3 DEF HoldsW
<1>9. \A u \in Threads, m \in Mutexes :
        HoldsW(u, m) /\ (u = t => m # h.mutex) => HoldsW(u, m)'
  BY <1>3 DEF HoldsW
<1>10. Exclusive'
  <2> SUFFICES ASSUME NEW u \in Threads, NEW m \in Mutexes, HoldsW(u, m)'
               PROVE  writer'[m] = u /\ \A v \in Threads : ~HoldsR(v, m)'
    BY DEF Exclusive
  <2>1. HoldsW(u, m) /\ (u = t => m # h.mutex)
    BY <1>8
  <2>2. writer[m] = u /\ \A v \in Threads : ~HoldsR(v, m)
    BY <2>1 DEF Exclusive
  <2>3. h.mode = "W" => HoldsW(t, h.mutex)
    BY <1>3, <1>4 DEF HoldsW, Holds
  <2>4. h.mode = "W" => writer[h.mutex] = t
    BY <1>4, <2>3 DEF Exclusive, Holds
  <2>5. ~(m = h.mutex /\ h.mode = "W")
    BY <2>1, <2>2, <2>4
  <2> QED
    BY <1>1, <1>7, <2>2, <2>5
<1>11. Promised'
  <2> SUFFICES ASSUME NEW u \in Threads, NEW m \in Mutexes, writer'[m] = u
               PROVE  HoldsW(u, m)' \/ (Wants(u, "W")' /\ Wanted(u)'.mutex = m)
    BY DEF Promised
  <2>1. writer[m] = u /\ ~(m = h.mutex /\ h.mode = "W")
    BY <1>1, NoOneAssumption
  <2>2. HoldsW(u, m) \/ (Wants(u, "W") /\ Wanted(u).mutex = m)
    BY <2>1 DEF Promised
  <2>3. CASE u = t
    <3>1. ~Wants(t, "W")
      BY <1>1, <1>2 DEF CanUnlock, Wants
    <3>2. HoldsW(t, m)
      BY <2>2, <2>3, <3>1
    <3>3. m # h.mutex
      <4> SUFFICES ASSUME m = h.mutex, h.mode = "R" PROVE FALSE
        BY <1>4, <2>1 DEF Holds
      <4>1. HoldsR(t, m)
        BY <1>3 DEF HoldsR
      <4> QED
        BY <3>2, <4>1 DEF Exclusive
    <3> QED
      BY <1>9, <2>3, <3>2, <3>3
  <2>4. CASE u # t
    <3>1. Wants(u, "W")' = Wants(u, "W") /\ Wanted(u)' = Wanted(u)
      BY <1>1, <2>4 DEF Wants, Wanted, Section, Types
    <3> QED
      BY <1>9, <2>2, <2>4, <3>1
  <2> QED
    BY <2>3, <2>4
<1> QED
  BY <1>5, <1>6, <1>10, <1>11

(* Every step keeps the invariant. *)
LEMMA NextLockInv == LockInv /\ [Next]_vars => LockInv'
<1> SUFFICES ASSUME LockInv, [Next]_vars PROVE LockInv'
  OBVIOUS
<1>1. ASSUME NEW t \in Threads, Call(t)
      PROVE  LockInv'
  <2>1. todo[t] = <<>> /\ 0 \in 0..MaxAttempts /\ MaxAttempts \in 0..MaxAttempts
    BY <1>1, LocksAssumption DEF Call, Idle
  <2>2. CASE \E operation \in Operations : Run(t, operation, 0)
    BY <2>1, <2>2, OperationSections, RunKeeps
  <2>3. CASE \E left \in {0, MaxAttempts} : Run(t, <<RecordOutcome, SaveTransaction>>, left)
    BY <2>1, <2>3, OperationSections, RunKeeps
  <2> QED
    BY <1>1, <2>2, <2>3 DEF Call
<1>2. ASSUME NEW t \in Threads, Chain(t)
      PROVE  LockInv'
  <2>1. todo[t] = <<>> /\ attempts[t] \in 0..MaxAttempts /\ attempts[t] > 0 /\ 0 \in 0..MaxAttempts
    BY <1>2, LocksAssumption DEF Chain, ChainDue, LockInv, Types
  <2>2. attempts[t] - 1 \in 0..MaxAttempts
    BY <2>1, LocksAssumption
  <2>3. PICK plan \in Plans :
          \/ Run(t, Retry(plan), attempts[t] - 1)
          \/ Run(t, Retry(plan) \o <<UpdateTransaction>>, 0)
    BY <1>2 DEF Chain
  <2>4. Retry(plan) \in Seq(Sections) /\ Retry(plan) \o <<UpdateTransaction>> \in Seq(Sections)
    BY OperationSections
  <2> QED
    BY <2>1, <2>2, <2>3, <2>4, RunKeeps
<1>3. CASE UNCHANGED vars
  <2>1. \A t \in Threads : /\ Held(t)' = Held(t) /\ Section(t)' = Section(t)
                           /\ Wants(t, "W")' = Wants(t, "W") /\ Wanted(t)' = Wanted(t)
    BY <1>3 DEF vars, Held, Section, Wants, Wanted
  <2> QED
    BY <1>3, <2>1 DEF vars, LockInv, Types, Depths, Exclusive, Promised, HoldsW, HoldsR
<1> QED
  BY <1>1, <1>2, <1>3, RLockKeeps, AskKeeps, LockKeeps, UnlockKeeps DEF Next, Step

(* LockInv is inductive: exclusion and the promises of the mutexes hold in every
   reachable state. *)
THEOREM LockInvariant == Spec => []LockInv
  BY InitLockInv, NextLockInv, PTL DEF Spec

-----------------------------------------------------------------------------
(* The properties *)

(* Every goroutine always has a well-formed rest of its operation before it,
   and is inside its first section only: the type invariant of Locks. *)
THEOREM LocksTypeCorrect == Spec => []TypeOK
<1>1. LockInv => TypeOK
  <2> SUFFICES ASSUME LockInv PROVE TypeOK
    OBVIOUS
  <2>1. Sections \subseteq Seq(Holds) \ {<<>>}
    BY DEF Sections, Plain, Nested
  <2>2. todo \in [Threads -> Seq(Seq(Holds) \ {<<>>})]
    BY <2>1 DEF LockInv, Types
  <2> QED
    BY <2>2 DEF LockInv, Types, Depths, TypeOK
<1> QED
  BY <1>1, LockInvariant, PTL

(* Under every interleaving of any number of goroutines, what one of them
   writes is out of reach of the others: a write lock is exclusive, and each
   datum has one mutex. *)
THEOREM RaceFree == Spec => []NoDataRace
<1>1. LockInv => NoDataRace
  <2> SUFFICES ASSUME LockInv, NEW t \in Threads, NEW u \in Threads, t # u,
                      NEW h \in Held(t), NEW k \in Held(u),
                      NEW x \in h.writes \cap (k.reads \cup k.writes)
               PROVE  FALSE
    BY DEF NoDataRace
  <2>1. HoldOK(h) /\ HoldOK(k) /\ h \in Holds /\ k \in Holds
    BY HeldFacts DEF LockInv
  <2>2. h.mode = "W"
    BY <2>1 DEF HoldOK, Holds
  <2>3. h.mutex = k.mutex
    <3>1. x \in Protects[h.mutex] /\ x \in Protects[k.mutex]
      BY <2>1 DEF HoldOK
    <3> QED
      BY <2>1, <3>1 DEF Holds, Mutexes, Protects
  <2>4. HoldsW(t, h.mutex)
    BY <2>2 DEF HoldsW
  <2>5. writer[h.mutex] = t /\ ~HoldsR(u, h.mutex) /\ ~HoldsW(u, h.mutex)
    BY <2>1, <2>4 DEF LockInv, Exclusive, Holds
  <2> QED
    BY <2>1, <2>3, <2>5 DEF HoldsR, HoldsW, Holds
<1> QED
  BY <1>1, LockInvariant, PTL

(* A goroutine that holds a mutex and cannot unlock yet is in the nested
   section: it writes under o.mu and waits for the tracker. *)
LEMMA HalfWay ==
  ASSUME LockInv, NEW t \in Threads, NEW h \in Held(t), ~CanUnlock(t)
  PROVE  /\ h.mutex = "orch" /\ h.mode = "W"
         /\ ~leaving[t] /\ todo[t] # <<>> /\ depth[t] < Len(Section(t))
         /\ Wanted(t).mutex = "tracker"
<1>1. todo[t] # <<>>
  BY HeldFacts DEF LockInv
<1>2. /\ depth[t] \in 0..Len(Section(t)) /\ Len(Section(t)) \in {1, 2}
      /\ Section(t) \in Sections
      /\ Held(t) = {Section(t)[i] : i \in 1..depth[t]}
  BY <1>1, SectionShape DEF LockInv
<1>3. depth[t] > 0
  BY <1>2
<1>4. ~leaving[t]
  BY <1>1, <1>3 DEF CanUnlock
<1>5. depth[t] = 1 /\ Len(Section(t)) = 2
  <2>1. depth[t] # Len(Section(t))
    BY <1>1, <1>3 DEF CanUnlock
  <2>2. depth[t] \in 0..Len(Section(t)) /\ Len(Section(t)) \in {1, 2}
    BY <1>2
  <2>3. \A n \in {1, 2} : \A d \in 0..n : d > 0 /\ d # n => d = 1 /\ n = 2
    OBVIOUS
  <2> QED
    BY <1>3, <2>1, <2>2, <2>3
<1>6. Nested(Section(t))
  BY <1>2, <1>5 DEF Sections, Plain
<1>7. h = Section(t)[1]
  BY <1>2, <1>5
<1> QED
  BY <1>1, <1>4, <1>5, <1>6, <1>7 DEF Nested, Wanted

(* Mutexes are taken in one order, o.mu before the tracker's, so of any number
   of goroutines in an operation one can always go on. *)
THEOREM DeadlockFree == Spec => []SomeoneCanProceed
<1>1. LockInv => SomeoneCanProceed
  <2> SUFFICES ASSUME LockInv, NEW s \in Threads, todo[s] # <<>>,
                      \A t \in Threads : ~CanRLock(t) /\ ~CanAsk(t) /\ ~CanLock(t) /\ ~CanUnlock(t)
               PROVE  FALSE
    BY DEF SomeoneCanProceed
  <2>1. ASSUME NEW t \in Threads, ~leaving[t], todo[t] # <<>>, depth[t] < Len(Section(t))
        PROVE  Wanted(t).mutex \in Mutexes /\ writer[Wanted(t).mutex] \in Threads
    <3>1. depth[t] + 1 \in 1..Len(Section(t))
      BY <2>1, SectionShape DEF LockInv
    <3>2. Wanted(t) \in Holds
      BY <2>1, <3>1, SectionShape DEF LockInv, Wanted, HoldOK
    <3>3. writer[Wanted(t).mutex] # NoOne
      BY <2>1, <3>2 DEF CanRLock, CanAsk, Wants, Holds
    <3> QED
      BY <3>2, <3>3 DEF LockInv, Types, Holds
  <2>2. ASSUME NEW m \in Mutexes, writer[m] \in Threads
        PROVE  HoldsW(writer[m], m) /\ m = "orch"
    <3> DEFINE u == writer[m]
    <3>1. HoldsW(u, m) \/ (Wants(u, "W") /\ Wanted(u).mutex = m)
      BY <2>2 DEF LockInv, Promised
    <3>2. CASE Wants(u, "W") /\ Wanted(u).mutex = m
      <4>1. Readers(m) # {}
        BY <2>2, <3>2 DEF CanLock
      <4>2. PICK v \in Threads : \E h \in Held(v) : h.mode = "R"
        BY <4>1 DEF Readers
      <4> QED
        BY <4>2, HalfWay
    <3>3. CASE HoldsW(u, m)
      BY <2>2, <3>3, HalfWay DEF HoldsW
    <3> QED
      BY <3>1, <3>2, <3>3
  <2>3. PICK u \in Threads : HoldsW(u, "orch")
    <3>1. ~leaving[s] /\ depth[s] < Len(Section(s))
      <4>1. depth[s] \in 0..Len(Section(s)) /\ Len(Section(s)) \in {1, 2}
        BY SectionShape DEF LockInv
      <4>2. leaving[s] => depth[s] > 0
        BY DEF LockInv, Depths
      <4>3. depth[s] > 0 => ~leaving[s] /\ depth[s] # Len(Section(s))
        BY DEF CanUnlock
      <4>4. ~leaving[s]
        BY <4>2, <4>3
      <4> QED
        BY <4>1, <4>3, <4>4
    <3> QED
      BY <2>1, <2>2, <3>1
  <2>4. /\ ~leaving[u] /\ todo[u] # <<>> /\ depth[u] < Len(Section(u))
        /\ Wanted(u).mutex = "tracker"
    BY <2>3, HalfWay DEF HoldsW
  <2>5. "tracker" \in Mutexes /\ writer["tracker"] \in Threads
    BY <2>1, <2>4
  <2> QED
    BY <2>2, <2>5
<1> QED
  BY <1>1, LockInvariant, PTL
=============================================================================

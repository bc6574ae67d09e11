---------------------- MODULE RetryOrchestratorProofs ----------------------
(***************************************************************************)
(* Proofs about the health tracker by itself, for every set of names and   *)
(* timestamps and every window length, and about the orchestrator, for     *)
(* every set of requests, transactions, processors, codes and timestamps   *)
(* and every number of retries.                                            *)
(***************************************************************************)
EXTENDS RetryProperties, SumTheorems

-----------------------------------------------------------------------------
(* The health tracker *)

(* Pruning a slice of the right type, or one more outcome in it, keeps its type. *)
LEMMA PruneType ==
  ASSUME NEW w \in [Outcomes -> Nat]
  PROVE  Prune(w) \in [Outcomes -> Nat]
BY DEF Prune

LEMMA AddOutcomeType ==
  ASSUME NEW w \in [Outcomes -> Nat], NEW o \in Outcomes
  PROVE  Add(w, o) \in [Outcomes -> Nat]
BY DEF Add

LEMMA OutcomeType ==
  ASSUME NEW success \in BOOLEAN, NEW ts \in Times
  PROVE  Outcome(success, ts) \in Outcomes
BY DEF Outcome, Outcomes

(* Timestamps and the cutoff are integers. *)
LEMMA TimeType == ASSUME NEW o \in Outcomes PROVE o.ts \in Int
<1>1. o.ts \in Times
  BY DEF Outcomes
<1>2. Times \subseteq Int
  BY HealthAssumption
<1> QED BY <1>1, <1>2

LEMMA CutoffType == HealthTypeOK => now \in Int /\ Window \in Int /\ Cutoff \in Int
<1>1. Window \in Int /\ (HealthTypeOK => now \in Int)
  BY HealthAssumption DEF HealthTypeOK
<1> QED BY <1>1 DEF Cutoff

(* RecordOutcome and Reset keep the windows well typed: used here and wherever
   the tracker is composed with its callers. *)
LEMMA RecordOutcomeType ==
  ASSUME windows \in [Names -> [Outcomes -> Nat]],
         NEW p \in Names, NEW success \in BOOLEAN, NEW ts \in Times,
         RecordOutcome(p, success, ts)
  PROVE  windows' \in [Names -> [Outcomes -> Nat]]
<1> DEFINE w == Add(windows[p], Outcome(success, ts))
<1>1. windows[p] \in [Outcomes -> Nat]
  OBVIOUS
<1>2. w \in [Outcomes -> Nat]
  BY <1>1, OutcomeType, AddOutcomeType
<1>3. Prune(w) \in [Outcomes -> Nat]
  BY <1>2, PruneType
<1>4. windows' = [windows EXCEPT ![p] = Prune(w)]
  BY DEF RecordOutcome
<1> HIDE DEF w
<1> QED BY <1>3, <1>4

LEMMA HealthResetType ==
  HealthReset => windows' \in [Names -> [Outcomes -> Nat]]
BY DEF HealthReset, EmptyWindow

(* The tracker's types hold in every reachable state. *)
THEOREM HealthTypeCorrect == HealthSpec => []HealthTypeOK
<1>1. HealthInit => HealthTypeOK
  BY HealthAssumption DEF HealthInit, HealthTypeOK, EmptyWindow
<1>2. HealthTypeOK /\ [HealthNext]_healthVars => HealthTypeOK'
  <2> SUFFICES ASSUME HealthTypeOK, [HealthNext]_healthVars
               PROVE  HealthTypeOK'
    OBVIOUS
  <2>1. ASSUME NEW p \in Names, NEW success \in BOOLEAN, NEW ts \in Times, Record(p, success, ts)
        PROVE  HealthTypeOK'
    BY <2>1, RecordOutcomeType DEF Record, HealthTypeOK
  <2>2. CASE ForgetAll
    BY <2>2, HealthResetType DEF ForgetAll, HealthTypeOK
  <2>3. CASE Tick
    BY <2>3, HealthAssumption DEF Tick, HealthTypeOK
  <2>4. CASE UNCHANGED healthVars
    BY <2>4 DEF healthVars, HealthTypeOK
  <2> QED BY <2>1, <2>2, <2>3, <2>4 DEF HealthNext
<1> QED BY <1>1, <1>2, PTL DEF HealthSpec
-----------------------------------------------------------------------------
(* A write to the slice of p appears in the sliding view as the record of one
   outcome: the pruned entries were not in the view any more. *)
LEMMA RecordSlides ==
  ASSUME HealthTypeOK, NEW p \in Names, NEW success \in BOOLEAN, NEW ts \in Times,
         RecordOutcome(p, success, ts), UNCHANGED now
  PROVE  Sliding!Record(p, Outcome(success, ts))
<1> DEFINE o == Outcome(success, ts)
           w == Add(windows[p], o)
           Seen(v, q) == [x \in Outcomes |-> IF x.ts >= Cutoff THEN v[q][x] ELSE 0]
<1>1. o \in Outcomes
  BY OutcomeType
<1>2. windows' = [windows EXCEPT ![p] = Prune(w)]
  BY DEF RecordOutcome
<1>3. Cutoff' = Cutoff
  BY DEF Cutoff
<1>4. \A x \in Outcomes : x.ts \in Int /\ Cutoff \in Int
  BY TimeType, CutoffType
<1>5. View = [q \in Names |-> Seen(windows, q)] /\ View' = [q \in Names |-> Seen(windows', q)]
  BY <1>3 DEF View
<1>6. \A q \in Names \ {p} : Seen(windows', q) = Seen(windows, q)
  BY <1>2 DEF HealthTypeOK
<1>7. ASSUME NEW x \in Outcomes
      PROVE  Seen(windows', p)[x]
             = IF x = o /\ o.ts >= Cutoff THEN Seen(windows, p)[x] + 1 ELSE Seen(windows, p)[x]
  <2>1. windows'[p] = Prune(w)
    BY <1>2 DEF HealthTypeOK
  <2>2. x.ts >= Cutoff => Prune(w)[x] = w[x]
    BY <1>4 DEF Prune
  <2>3. w[x] = IF x = o THEN windows[p][x] + 1 ELSE windows[p][x]
    BY <1>1 DEF HealthTypeOK, Add
  <2> HIDE DEF w, o
  <2> QED BY <2>1, <2>2, <2>3
<1>8. Sliding!Fresh(o, now) <=> o.ts >= Cutoff
  BY DEF Sliding!Fresh, Cutoff
<1>9. View' = [View EXCEPT ![p][o] = IF Sliding!Fresh(o, now) THEN View[p][o] + 1 ELSE View[p][o]]
  <2>1. Seen(windows', p) = [Seen(windows, p) EXCEPT
                               ![o] = IF o.ts >= Cutoff THEN Seen(windows, p)[o] + 1 ELSE Seen(windows, p)[o]]
    <3> HIDE DEF o, w
    <3> QED BY <1>1, <1>7
  <2> HIDE DEF o, w, Seen
  <2>2. View[p] = Seen(windows, p)
    BY <1>5
  <2> QED BY <1>1, <1>5, <1>6, <1>8, <2>1, <2>2
<1> QED BY <1>9 DEF Sliding!Record

(* A slice that changes is left without expired entries (WritePrunes), so the
   memory of a processor that is written to is bounded by its window. *)
THEOREM HealthWritesPrune == HealthSpec => WritePrunes
<1> DEFINE Pruned == \A p \in Names : windows'[p] # windows[p] =>
                       \A o \in Outcomes : o.ts < Cutoff => windows'[p][o] = 0
<1>1. HealthTypeOK /\ [HealthNext]_healthVars => [Pruned]_healthVars
  <2> SUFFICES ASSUME HealthTypeOK, [HealthNext]_healthVars
               PROVE  [Pruned]_healthVars
    OBVIOUS
  <2>1. ASSUME NEW p \in Names, NEW success \in BOOLEAN, NEW ts \in Times, Record(p, success, ts)
        PROVE  Pruned
    <3>1. windows' = [windows EXCEPT ![p] = Prune(Add(windows[p], Outcome(success, ts)))]
      BY <2>1 DEF Record, RecordOutcome
    <3> QED BY <3>1 DEF HealthTypeOK, Prune
  <2>2. CASE ForgetAll
    BY <2>2 DEF ForgetAll, HealthReset, EmptyWindow
  <2>3. CASE Tick
    BY <2>3 DEF Tick
  <2>4. CASE UNCHANGED healthVars
    BY <2>4
  <2> QED BY <2>1, <2>2, <2>3, <2>4 DEF HealthNext
<1> QED BY <1>1, HealthTypeCorrect, PTL DEF HealthSpec, WritePrunes

-----------------------------------------------------------------------------
(* The counts that assess a processor *)

(* A slice is summed over finitely many outcomes. *)
LEMMA OutcomesFinite == ASSUME IsFiniteSet(Times) PROVE IsFiniteSet(Outcomes)
<1>1. IsFiniteSet(Times \X BOOLEAN)
  <2>1. IsFiniteSet(BOOLEAN)
    <3>1. IsFiniteSet({TRUE})
      BY FS_Singleton
    <3>2. IsFiniteSet({TRUE} \cup {FALSE})
      BY <3>1, FS_AddElement
    <3>3. BOOLEAN = {TRUE} \cup {FALSE}
      OBVIOUS
    <3> QED BY <3>2, <3>3
  <2> QED BY <2>1, FS_Product
<1> DEFINE f == [x \in Times \X BOOLEAN |-> [ts |-> x[1], success |-> x[2]]]
<1>3. \A x \in Outcomes : \E y \in Times \X BOOLEAN : f[y] = x
  <2> SUFFICES ASSUME NEW x \in Outcomes PROVE \E y \in Times \X BOOLEAN : f[y] = x
    OBVIOUS
  <2>1. <<x.ts, x.success>> \in Times \X BOOLEAN /\ f[<<x.ts, x.success>>] = x
    BY DEF Outcomes
  <2> QED BY <2>1
<1>4. f \in Surjection(Times \X BOOLEAN, Outcomes)
  <2>1. f \in [Times \X BOOLEAN -> Outcomes]
    BY DEF Outcomes
  <2> QED BY <1>3, <2>1 DEF Surjection
<1> QED BY <1>1, <1>4, FS_Surjection

(* The sums of the sliding window are those of SumTheorems. *)
LEMMA SlidingSum ==
  ASSUME NEW f, NEW S
  PROVE  Sliding!SumFunctionOnSet(f, S) = SumFunctionOnSet(f, S)
BY SumChoice DEF Sums, Summand, Sliding!SumFunctionOnSet, Sliding!FoldFunctionOnSet, Sliding!MapThenFoldSet

(* What has left the window counts for nothing: the sums over what is read of
   a slice are the sums over what is seen of it. *)
Kinds(K) == {o \in Outcomes : o.success \in K}

LEMMA SeenCounts ==
  ASSUME IsFiniteSet(Times), HealthTypeOK, NEW p \in Names, NEW K
  PROVE  /\ SumFunctionOnSet(View[p], Kinds(K))
            = SumFunctionOnSet(InWindow(windows[p]), {o \in DOMAIN InWindow(windows[p]) : o.success \in K})
         /\ SumFunctionOnSet(View[p], Kinds(K)) \in Int
<1> DEFINE v == View[p]
           w == InWindow(windows[p])
           Live == {o \in DOMAIN w : o.success \in K}
           Gone == Kinds(K) \ Live
<1>1. IsFiniteSet(Kinds(K)) /\ Live \subseteq Kinds(K)
  BY OutcomesFinite, FS_Subset DEF Kinds, InWindow
<1>2. ASSUME NEW o \in Kinds(K)
      PROVE  v[o] \in Int /\ (o \in Live => v[o] = w[o]) /\ (o \in Gone => v[o] = 0)
  <2>1. o \in Outcomes /\ windows[p][o] \in Nat
    BY DEF Kinds, HealthTypeOK
  <2>2. v[o] = IF o.ts >= Cutoff THEN windows[p][o] ELSE 0
    BY <2>1 DEF View
  <2>3. o \in Live <=> o.ts >= Cutoff
    BY <2>1 DEF InWindow, Kinds
  <2>4. o \in Live => w[o] = windows[p][o]
    BY <2>1, <2>3 DEF InWindow
  <2> HIDE DEF v, w, Live
  <2> QED BY <2>1, <2>2, <2>3, <2>4
<1>3. IsFiniteSet(Live) /\ IsFiniteSet(Gone)
  BY <1>1, FS_Subset
<1>4. Live \cup Gone = Kinds(K) /\ Live \cap Gone = {}
  BY <1>1
<1> HIDE DEF v, w, Live, Gone
<1>5. SumFunctionOnSet(v, Live \cup Gone) = SumFunctionOnSet(v, Live) + SumFunctionOnSet(v, Gone)
  BY <1>2, <1>3, <1>4, SumUnion
<1>6. SumFunctionOnSet(v, Gone) = 0
  BY <1>2, <1>3, <1>4, SumZero
<1>7. SumFunctionOnSet(v, Live) = SumFunctionOnSet(w, Live) /\ SumFunctionOnSet(v, Live) \in Int
  BY <1>2, <1>3, <1>4, SumSame, SumType
<1> DEFINE live == SumFunctionOnSet(v, Live)
<1>8. SumFunctionOnSet(v, Kinds(K)) = SumFunctionOnSet(w, Live) /\ SumFunctionOnSet(v, Kinds(K)) \in Int
  <2>1. SumFunctionOnSet(v, Kinds(K)) = live + 0
    BY <1>4, <1>5, <1>6
  <2>2. live \in Int /\ SumFunctionOnSet(w, Live) = live
    BY <1>7
  <2> HIDE DEF live
  <2>3. live + 0 = live
    BY <2>2
  <2> QED BY <2>1, <2>2, <2>3
<1> QED BY <1>8 DEF v, w, Live

(* The thresholds as fractions are those of the documentation as percentages. *)
LEMMA SamePercentages ==
  ASSUME NEW failures \in Int, NEW total \in Int
  PROVE  StateOf(failures, total)
         = IF total >= MinSamples /\ 100 * failures >= 80 * total THEN "DOWN"
           ELSE IF total >= MinSamples /\ 100 * failures >= 50 * total THEN "DEGRADED"
           ELSE "HEALTHY"
<1>1. MinSamples \in Int
  BY HealthAssumption
<1>2. (5 * failures >= 4 * total <=> 100 * failures >= 80 * total)
      /\ (2 * failures >= total <=> 100 * failures >= 50 * total)
  OBVIOUS
<1>3. total < MinSamples <=> ~(total >= MinSamples)
  BY <1>1
<1> QED BY <1>2, <1>3 DEF StateOf

(* The state read of a slice is the one due to what is in the window. *)
LEMMA StateIsDue ==
  ASSUME IsFiniteSet(Times), HealthTypeOK
  PROVE  ShownState = Sliding!Shown(View)
<1>1. ASSUME NEW p \in Names
      PROVE  GetHealth(p).state = Sliding!Assessment(View[p])
  <2> DEFINE v == View[p]
             w == InWindow(windows[p])
             failures == Count(w, FALSE)
             successes == Count(w, TRUE)
  <2>1. GetHealth(p).state = StateOf(failures, failures + successes)
    BY DEF GetHealth, Snapshot
  <2>2. {o \in DOMAIN w : o.success = FALSE} = {o \in DOMAIN w : o.success \in {FALSE}}
        /\ {o \in DOMAIN w : o.success = TRUE} = {o \in DOMAIN w : o.success \in {TRUE}}
    OBVIOUS
  <2>3. failures = SumFunctionOnSet(v, Kinds({FALSE})) /\ failures \in Int
        /\ successes = SumFunctionOnSet(v, Kinds({TRUE})) /\ successes \in Int
    <3> QED BY <2>2, SeenCounts DEF Count
  <2>4. SumFunctionOnSet(v, Outcomes) = failures + successes
    <3>1. IsFiniteSet(Kinds({FALSE})) /\ IsFiniteSet(Kinds({TRUE}))
      BY OutcomesFinite, FS_Subset DEF Kinds
    <3>2. Kinds({FALSE}) \cup Kinds({TRUE}) = Outcomes /\ Kinds({FALSE}) \cap Kinds({TRUE}) = {}
      BY DEF Kinds, Outcomes
    <3>3. \A o \in Outcomes : v[o] \in Int
      BY DEF View, HealthTypeOK
    <3> HIDE DEF v, failures, successes
    <3> QED BY <2>3, <3>1, <3>2, <3>3, SumUnion
  <2>5. {o \in Outcomes : ~o.success} = Kinds({FALSE})
    BY DEF Kinds, Outcomes
  <2>6. Sliding!Outcomes = Outcomes
    BY DEF Sliding!Outcomes, Outcomes
  <2>7. Sliding!SumFunctionOnSet(v, {o \in Sliding!Outcomes : ~o.success}) = failures
        /\ Sliding!SumFunctionOnSet(v, Sliding!Outcomes) = failures + successes
    <3> HIDE DEF v, failures, successes
    <3> QED BY <2>3, <2>4, <2>5, <2>6, SlidingSum
  <2> HIDE DEF v, failures, successes
  <2>8. Sliding!Assessment(v) = StateOf(failures, failures + successes)
    BY <2>3, <2>7, SamePercentages DEF Sliding!Assessment
  <2> QED BY <2>1, <2>8 DEF v
<1> QED BY <1>1 DEF ShownState, Sliding!Shown

(* The tracker implements the rolling window (ImplementsRollingWindow): lazy
   pruning on writes with filtering on reads is a window that slides by itself,
   and the state it shows is always the one due to the outcomes in that window. *)
THEOREM HealthRefinement ==
  ASSUME IsFiniteSet(Times) PROVE HealthSpec => ImplementsRollingWindow
<1>1. HealthInit => Sliding!Init
  <2> SUFFICES ASSUME HealthInit PROVE Sliding!Init
    OBVIOUS
  <2>1. View = [p \in Names |-> [o \in Sliding!Outcomes |-> 0]]
    BY DEF HealthInit, Sliding!Outcomes, View, EmptyWindow, Outcomes
  <2>2. HealthTypeOK
    BY HealthAssumption DEF HealthInit, HealthTypeOK, EmptyWindow
  <2> QED BY <2>1, <2>2, StateIsDue DEF HealthInit, Sliding!Init, ShownState
<1>2. HealthTypeOK => ShownState = Sliding!Shown(View)
  BY StateIsDue
<1>3. HealthTypeOK /\ (ShownState = Sliding!Shown(View))' /\ [HealthNext]_healthVars
      => [Sliding!Next]_<<View, ShownState, now>>
  <2> SUFFICES ASSUME HealthTypeOK, (ShownState = Sliding!Shown(View))', [HealthNext]_healthVars
               PROVE  [Sliding!Next]_<<View, ShownState, now>>
    OBVIOUS
  <2> DEFINE Step == \/ \E p \in Names, o \in Sliding!Outcomes : Sliding!Record(p, o)
                     \/ Sliding!Pass
                     \/ Sliding!Forget
  <2>1. ASSUME NEW p \in Names, NEW success \in BOOLEAN, NEW ts \in Times, Record(p, success, ts)
        PROVE  Step
    <3>1. Sliding!Record(p, Outcome(success, ts))
      BY <2>1, RecordSlides DEF Record
    <3>2. Outcome(success, ts) \in Sliding!Outcomes
      BY OutcomeType DEF Outcomes, Sliding!Outcomes
    <3> QED BY <3>1, <3>2
  <2>2. ASSUME ForgetAll PROVE Step
    <3>1. View' = [p \in Names |-> [o \in Outcomes |-> 0]]
      BY <2>2 DEF ForgetAll, HealthReset, EmptyWindow, View
    <3> QED BY <3>1, <2>2 DEF Sliding!Forget, Sliding!Outcomes, Outcomes, ForgetAll
  <2>3. ASSUME Tick PROVE Step
    <3>1. ASSUME NEW p \in Names, NEW o \in Outcomes
          PROVE  View'[p][o] = IF Sliding!Fresh(o, now') THEN View[p][o] ELSE 0
      <4>1. o.ts \in Int /\ now \in Int /\ Window \in Int
        BY TimeType, CutoffType
      <4> QED BY <2>3, <4>1 DEF Tick, View, Cutoff, Sliding!Fresh
    <3>2. View' = [p \in Names |-> [o \in Outcomes |-> IF Sliding!Fresh(o, now') THEN View[p][o] ELSE 0]]
      <4>1. View' = [p \in Names |-> [o \in Outcomes |-> View'[p][o]]]
        BY DEF View
      <4> QED BY <3>1, <4>1
    <3> QED BY <3>2, <2>3 DEF Tick, Sliding!Pass, Sliding!Outcomes, Outcomes
  <2>4. CASE UNCHANGED healthVars
    <3>1. UNCHANGED windows /\ UNCHANGED now /\ Cutoff' = Cutoff
      BY <2>4 DEF healthVars, Cutoff
    <3>2. UNCHANGED View /\ UNCHANGED ShownState
      BY <3>1 DEF View, ShownState, GetHealth, InWindow, Outcomes
    <3> QED BY <3>1, <3>2
  <2>5. Step => Sliding!Next
    BY DEF Sliding!Next, ShownState
  <2> QED BY <2>1, <2>2, <2>3, <2>4, <2>5 DEF HealthNext
<1>4. [](HealthTypeOK) /\ [][HealthNext]_healthVars => [][Sliding!Next]_<<View, ShownState, now>>
  BY <1>2, <1>3, PTL
<1> QED BY <1>1, <1>4, HealthTypeCorrect, PTL
     DEF HealthSpec, ImplementsRollingWindow, Sliding!Spec, ShownState

-----------------------------------------------------------------------------
(* A success that is recorded *)

(* One more success in what is read of a slice. *)
OneMore(Live, v, n, o) ==
  /\ Live \subseteq Outcomes /\ IsFiniteSet(Live)
  /\ DOMAIN v = Live /\ DOMAIN n = Live /\ o.success = TRUE
  /\ \A x \in Live : /\ v[x] \in Int /\ n[x] \in Int
                     /\ x # o => v[x] = n[x]
                     /\ x = o => n[x] = v[x] + 1

LEMMA OneMoreSuccess ==
  ASSUME NEW Live, NEW v, NEW n, NEW o, OneMore(Live, v, n, o), NEW success \in BOOLEAN
  PROVE  /\ Count(v, success) \in Int
         /\ ~success => Count(n, success) = Count(v, success)
         /\ Count(n, success) \in {Count(v, success), Count(v, success) + 1}
<1> USE DEF OneMore
<1> DEFINE Kind == {x \in Live : x.success = success}
<1>1. IsFiniteSet(Kind)
  BY FS_Subset
<1>2. Count(v, success) = SumFunctionOnSet(v, Kind) /\ Count(n, success) = SumFunctionOnSet(n, Kind)
  BY DEF Count
<1>3. Kind \subseteq Live /\ (~success => o \notin Kind)
  OBVIOUS
<1> HIDE DEF Kind
<1>4. SumFunctionOnSet(v, Kind) \in Int
  BY <1>1, <1>3, SumType
<1>5. CASE o \notin Kind
  <2>1. SumFunctionOnSet(v, Kind) = SumFunctionOnSet(n, Kind)
    BY <1>1, <1>3, <1>5, SumSame
  <2> QED BY <1>2, <1>4, <2>1
<1>6. CASE o \in Kind
  <2>1. n[o] = v[o] + 1 /\ v[o] \in Int /\ n[o] \in Int
    BY <1>3, <1>6
  <2>2. \A x \in Kind : v[x] \in Int /\ n[x] \in Int /\ (x # o => v[x] = n[x])
    BY <1>3
  <2>3. SumFunctionOnSet(n, Kind) = SumFunctionOnSet(v, Kind) - v[o] + n[o]
    BY <1>1, <1>6, <2>2, SumChange
  <2>4. SumFunctionOnSet(n, Kind) = SumFunctionOnSet(v, Kind) + 1
    BY <1>4, <2>1, <2>3
  <2> QED BY <1>2, <1>3, <1>4, <1>6, <2>4
<1> QED BY <1>5, <1>6

(* What a write of a success does to the counts that are read: the failures
   stay, and the successes grow by at most the new one. *)
LEMMA SuccessCounts ==
  ASSUME IsFiniteSet(Times), HealthTypeOK, NEW p \in Names, NEW ts \in Times, Record(p, TRUE, ts),
         NEW success \in BOOLEAN
  PROVE  LET v == InWindow(windows[p])
             n == InWindow(windows[p])'
         IN  /\ Count(v, success) \in Int
             /\ ~success => Count(n, success) = Count(v, success)
             /\ Count(n, success) \in {Count(v, success), Count(v, success) + 1}
<1> DEFINE o == Outcome(TRUE, ts)
           Live == {x \in Outcomes : x.ts >= Cutoff}
           v == InWindow(windows[p])
           n == InWindow(windows[p])'
<1>1. o \in Outcomes /\ o.success = TRUE /\ windows[p] \in [Outcomes -> Nat]
  BY OutcomeType DEF Outcome, HealthTypeOK
<1>2. windows'[p] = Prune(Add(windows[p], o)) /\ Cutoff' = Cutoff
  BY DEF Record, RecordOutcome, HealthTypeOK, Cutoff
<1>3. /\ v = [x \in Live |-> windows[p][x]] /\ n = [x \in Live |-> windows'[p][x]]
  BY <1>2 DEF InWindow, Outcomes
<1>4. ASSUME NEW x \in Live
      PROVE  /\ v[x] \in Int /\ n[x] \in Int
             /\ x # o => v[x] = n[x]
             /\ x = o => n[x] = v[x] + 1
  <2>1. ~(x.ts < Cutoff) /\ x \in Outcomes
    BY TimeType, CutoffType
  <2>2. windows[p][x] \in Nat
    BY <1>1, <2>1
  <2>3. windows'[p][x] = Add(windows[p], o)[x]
    BY <1>2, <2>1 DEF Prune
  <2>4. windows'[p][x] = IF x = o THEN windows[p][o] + 1 ELSE windows[p][x]
    BY <1>1, <2>1, <2>3 DEF Add
  <2>5. v[x] = windows[p][x] /\ n[x] = windows'[p][x]
    BY <1>3
  <2> HIDE DEF v, n, o, Live
  <2>6. CASE x = o
    BY <2>2, <2>4, <2>5, <2>6
  <2>7. CASE x # o
    BY <2>2, <2>4, <2>5, <2>7
  <2> QED BY <2>6, <2>7
<1>5. DOMAIN v = Live /\ DOMAIN n = Live
  BY <1>3
<1>6. Live \in SUBSET Outcomes /\ IsFiniteSet(Live)
  BY OutcomesFinite, FS_Subset
<1> HIDE DEF v, n, o, Live
<1>7. /\ Count(v, success) \in Int
      /\ ~success => Count(n, success) = Count(v, success)
      /\ Count(n, success) \in {Count(v, success), Count(v, success) + 1}
  <2>1. PICK live, read, written, new :
          live = Live /\ read = v /\ written = n /\ new = o
    OBVIOUS
  <2>2. OneMore(live, read, written, new)
    BY <1>1, <1>4, <1>5, <1>6, <2>1 DEF OneMore
  <2>3. /\ Count(read, success) \in Int
        /\ ~success => Count(written, success) = Count(read, success)
        /\ Count(written, success) \in {Count(read, success), Count(read, success) + 1}
    BY <2>2, OneMoreSuccess
  <2> QED BY <2>1, <2>3
<1> QED BY <1>7 DEF v, n

(* More successes never make a state worse. *)
LEMMA StateMonotonic ==
  ASSUME NEW failures \in Int, NEW total \in Int, NEW more \in Int,
         total <= more, MinSamples <= total
  PROVE  Rank(StateOf(failures, more)) <= Rank(StateOf(failures, total))
<1>1. MinSamples \in Int
  BY HealthAssumption
<1>2. Rank("HEALTHY") = 0 /\ Rank("DEGRADED") = 1 /\ Rank("DOWN") = 2
  BY DEF Rank
<1>3. StateOf(failures, total) = IF 5 * failures >= 4 * total THEN "DOWN"
                                 ELSE IF 2 * failures >= total THEN "DEGRADED" ELSE "HEALTHY"
  BY <1>1 DEF StateOf
<1>4. StateOf(failures, more) = IF 5 * failures >= 4 * more THEN "DOWN"
                                ELSE IF 2 * failures >= more THEN "DEGRADED" ELSE "HEALTHY"
  BY <1>1 DEF StateOf
<1>5. /\ 5 * failures >= 4 * more => 5 * failures >= 4 * total
      /\ 2 * failures >= more => 2 * failures >= total
  OBVIOUS
<1> QED BY <1>2, <1>3, <1>4, <1>5

(* Reporting a success never makes the state of an assessed processor worse,
   although the write also prunes (SuccessNeverWorsens): what it prunes had
   left the window of the read before it. *)
THEOREM SuccessesHelp == ASSUME IsFiniteSet(Times) PROVE HealthSpec => SuccessNeverWorsens
<1> DEFINE Helps == \A p \in Names, ts \in Times :
                      (Record(p, TRUE, ts) /\ GetHealth(p).total >= MinSamples) =>
                        Rank(GetHealth(p)'.state) <= Rank(GetHealth(p).state)
<1>1. HealthTypeOK => Helps
  <2> SUFFICES ASSUME HealthTypeOK, NEW p \in Names, NEW ts \in Times, Record(p, TRUE, ts),
                      GetHealth(p).total >= MinSamples
               PROVE  Rank(GetHealth(p)'.state) <= Rank(GetHealth(p).state)
    OBVIOUS
  <2> DEFINE v == InWindow(windows[p])
             n == InWindow(windows[p])'
  <2>1. \E failures, successes \in Int : \E more \in {successes, successes + 1} :
          /\ Count(v, FALSE) = failures /\ Count(n, FALSE) = failures
          /\ Count(v, TRUE) = successes /\ Count(n, TRUE) = more
    <3>1. \A success \in BOOLEAN :
            /\ Count(v, success) \in Int
            /\ ~success => Count(n, success) = Count(v, success)
            /\ Count(n, success) \in {Count(v, success), Count(v, success) + 1}
      BY SuccessCounts
    <3> HIDE DEF v, n
    <3>2. Count(v, FALSE) \in Int /\ Count(n, FALSE) = Count(v, FALSE)
      BY <3>1, Zenon
    <3>3. Count(v, TRUE) \in Int /\ Count(n, TRUE) \in {Count(v, TRUE), Count(v, TRUE) + 1}
      BY <3>1, Zenon
    <3> QED BY <3>2, <3>3, Zenon
  <2>2. PICK failures \in Int, successes \in Int, more \in Int :
          /\ more \in {successes, successes + 1}
          /\ Count(v, FALSE) = failures /\ Count(n, FALSE) = failures
          /\ Count(v, TRUE) = successes /\ Count(n, TRUE) = more
    <3> HIDE DEF v, n
    <3>1. PICK failures \in Int, successes \in Int : \E more \in {successes, successes + 1} :
            /\ Count(v, FALSE) = failures /\ Count(n, FALSE) = failures
            /\ Count(v, TRUE) = successes /\ Count(n, TRUE) = more
      BY <2>1, Zenon
    <3>2. PICK more \in {successes, successes + 1} :
            /\ Count(v, FALSE) = failures /\ Count(n, FALSE) = failures
            /\ Count(v, TRUE) = successes /\ Count(n, TRUE) = more
      BY <3>1, Zenon
    <3>3. more \in Int
      OBVIOUS
    <3> QED BY <3>2, <3>3, Zenon
  <2>3. /\ GetHealth(p).total = failures + successes
        /\ GetHealth(p).state = StateOf(failures, failures + successes)
    BY <2>2 DEF GetHealth, Snapshot
  <2>4. GetHealth(p)'.state = StateOf(failures, failures + more)
    BY <2>2 DEF GetHealth, Snapshot
  <2> HIDE DEF v, n
  <2>5. MinSamples \in Int
    BY HealthAssumption
  <2>6. /\ failures + successes \in Int /\ failures + more \in Int
        /\ failures + successes <= failures + more
    BY <2>2
  <2>7. MinSamples <= failures + successes
    <3>1. GetHealth(p).total >= MinSamples
      OBVIOUS
    <3> QED BY <2>3, <2>5, <2>6, <3>1
  <2>8. Rank(StateOf(failures, failures + more)) <= Rank(StateOf(failures, failures + successes))
    BY <2>6, <2>7, StateMonotonic
  <2> QED BY <2>3, <2>4, <2>8
<1> QED BY <1>1, HealthTypeCorrect, PTL DEF HealthSpec, SuccessNeverWorsens

-----------------------------------------------------------------------------
(* The stages of a request, and what its local variables hold in them *)

Planning   == {"plan", "scanHealth", "scanAdaptive", "simulate"}
Attempting == {"scanHealth", "scanAdaptive", "simulate", "recordHealth", "recordAdaptive", "log"}
Reporting  == {"reportHealth", "reportAdaptive", "reportUpdate"}

StageOK(r) ==
  /\ pc[r] \in {"recordFailure", "save"} => call[r] \in Submissions
  /\ pc[r] \in InChain => /\ call[r] \in Submissions
                          /\ tx[r] \in Transactions
                          /\ tx[r].event = call[r].event
  /\ pc[r] \in Planning => tx[r].retryCount < MaxRetries
  /\ pc[r] \in Attempting => attempt[r] \in Attempts
  /\ pc[r] = "fetch" => call[r] \in Reports
  /\ pc[r] \in Reporting => call[r] \in Reports /\ tx[r] \in Transactions
  /\ pc[r] \in {"reportHealth", "reportAdaptive"} => attempt[r] \in ReportedOutcomes

TypeInv == TypeOK /\ \A r \in Requests : StageOK(r)

-----------------------------------------------------------------------------
(* Lemmas about data *)

LEMMA ConstantTypes ==
  /\ MaxRetries \in Nat \ {0} /\ Sources \subseteq Processors /\ Processors \subseteq Names
  /\ Reported \subseteq Names /\ ClientTimes \subseteq Times /\ 0..MaxTime \subseteq Times
  /\ Cost \in [Processors -> Nat] /\ ProcessorOrder \in Seq(Processors)
BY OrchestratorAssumption, SelectionAssumption

LEMMA CostType == ASSUME NEW p \in Processors PROVE Cost[p] \in Nat
<1>1. Cost \in [Processors -> Nat]
  BY ConstantTypes
<1> QED BY <1>1

LEMMA NowIsTime == HealthTypeOK => now \in Times
<1>1. 0..MaxTime \subseteq Times
  BY ConstantTypes
<1> QED BY <1>1 DEF HealthTypeOK

(* A failure event that reaches ProcessFailure is well formed. *)
LEMMA EventType ==
  ASSUME NEW c \in Submissions
  PROVE  /\ c.event \in Events /\ c.event.id \in TxnIds /\ c.event.code \in Codes
         /\ c.event.processor \in Processors /\ c.event.ts \in Times
         /\ c.event.processor \in Names
BY ConstantTypes DEF Submissions, Events

LEMMA TransactionType ==
  ASSUME NEW t \in Transactions
  PROVE  /\ t.event \in Events /\ t.event.id \in TxnIds /\ t.event.code \in Codes
         /\ t.event.processor \in Processors
         /\ t.status \in Statuses /\ t.retryCount \in 0..MaxRetries
         /\ t.attempts \in Seq(Attempts) /\ t.totalCost \in Nat
BY DEF Transactions, Events

LEMMA NewTransactionType ==
  ASSUME NEW event \in Events, NEW status \in Statuses
  PROVE  NewTransaction(event, status) \in Transactions
<1>1. 0 \in 0..MaxRetries
  BY ConstantTypes
<1> QED BY <1>1 DEF NewTransaction, Transactions

LEMMA AttemptType ==
  ASSUME NEW a \in Attempts
  PROVE  /\ a.number \in 1..MaxRetries /\ a.processor \in Processors /\ a.cost \in Nat
         /\ a.success \in BOOLEAN /\ a.ts \in Times /\ a.processor \in Names
BY ConstantTypes DEF Attempts

LEMMA ReportedOutcomeType ==
  ASSUME NEW a \in ReportedOutcomes
  PROVE  a.processor \in Names /\ a.success \in BOOLEAN /\ a.ts \in Times
BY ConstantTypes DEF ReportedOutcomes

(* Changing the status of a transaction keeps its type and everything else. *)
LEMMA StatusUpdate ==
  ASSUME NEW t \in Transactions, NEW status \in Statuses
  PROVE  LET u == [t EXCEPT !.status = status]
         IN  /\ u \in Transactions /\ u.status = status /\ u.event = t.event
             /\ u.attempts = t.attempts /\ u.retryCount = t.retryCount
BY DEF Transactions

(* recordAdaptive *)
LEMMA RecordAdaptiveType ==
  ASSUME AdaptiveTypeOK, NEW code \in Codes, NEW p \in Names, NEW success \in BOOLEAN,
         RecordAdaptive(code, p, success)
  PROVE  AdaptiveTypeOK'
<1> DEFINE learned == adaptiveData[code][p]
           n == [successes |-> IF success THEN learned.successes + 1 ELSE learned.successes,
                 total     |-> learned.total + 1]
<1>1. n \in [successes : Nat, total : Nat]
  BY DEF AdaptiveTypeOK
<1>2. adaptiveData' = [adaptiveData EXCEPT ![code][p] = n]
  BY DEF RecordAdaptive
<1> HIDE DEF n
<1> QED BY <1>1, <1>2 DEF AdaptiveTypeOK

(* The store's writes *)
LEMMA SaveTransactionType ==
  ASSUME StoreTypeOK, NEW id \in TxnIds, NEW t \in Transactions, SaveTransaction(id, t)
  PROVE  StoreTypeOK'
BY DEF StoreTypeOK, SaveTransaction

LEMMA UpdateTransactionType ==
  ASSUME StoreTypeOK, NEW id \in TxnIds, NEW t \in Transactions, UpdateTransaction(id, t)
  PROVE  StoreTypeOK'
BY DEF StoreTypeOK, UpdateTransaction

LEMMA SaveDecisionLogType ==
  ASSUME StoreTypeOK, NEW id \in TxnIds, NEW d \in DecisionLogs, SaveDecisionLog(id, d)
  PROVE  StoreTypeOK'
<1>1. Append(decisions[id], d) \in Seq(DecisionLogs)
  BY DEF StoreTypeOK
<1> QED BY <1>1 DEF StoreTypeOK, SaveDecisionLog

LEMMA StoreResetType == ASSUME StoreReset PROVE StoreTypeOK'
BY DEF StoreTypeOK, StoreReset

-----------------------------------------------------------------------------
(* One step of one request *)

(* The local variables of the other requests are left alone. *)
Frame(r) == \A q \in Requests \ {r} :
  /\ pc'[q] = pc[q] /\ call'[q] = call[q] /\ tx'[q] = tx[q]
  /\ attempt'[q] = attempt[q] /\ scan'[q] = scan[q]
  /\ candidates'[q] = candidates[q] /\ reply'[q] = reply[q]

LEMMA StepType ==
  ASSUME TypeInv, NEW r \in Requests, Frame(r),
         HealthTypeOK', StoreTypeOK', AdaptiveTypeOK', RequestTypeOK', StageOK(r)'
  PROVE  TypeInv'
<1>1. ASSUME NEW q \in Requests \ {r} PROVE StageOK(q)'
  BY <1>1 DEF Frame, TypeInv, StageOK
<1> QED BY <1>1 DEF TypeInv, TypeOK

(* Reading the clock and the tracker changes no types. *)
LEMMA HealthKept == HealthTypeOK /\ UNCHANGED healthVars => HealthTypeOK'
BY DEF HealthTypeOK, healthVars, Outcomes

LEMMA StoreKept == StoreTypeOK /\ UNCHANGED storeVars => StoreTypeOK'
BY DEF StoreTypeOK, storeVars

LEMMA AdaptiveKept == AdaptiveTypeOK /\ UNCHANGED adaptiveData => AdaptiveTypeOK'
BY DEF AdaptiveTypeOK

LEMMA SharedKept ==
  TypeInv /\ UNCHANGED sharedVars => HealthTypeOK' /\ StoreTypeOK' /\ AdaptiveTypeOK'
BY HealthKept, StoreKept, AdaptiveKept DEF sharedVars, healthVars, storeVars, TypeInv, TypeOK

(* A request arrives. *)
LEMMA ArriveType ==
  ASSUME TypeInv, NEW r \in Requests, NEW arguments, NEW to,
         Arrive(r, arguments, to),
         \/ arguments \in Submissions /\ to = "recordFailure"
         \/ arguments \in Reports /\ to = "fetch"
         \/ arguments \in Resets /\ to = "resetStore"
  PROVE  TypeInv'
<1>1. HealthTypeOK' /\ StoreTypeOK' /\ AdaptiveTypeOK'
  BY SharedKept DEF Arrive
<1>2. Frame(r)
  BY DEF Arrive, Goto, Frame, TypeInv, TypeOK, RequestTypeOK
<1>3. RequestTypeOK'
  BY DEF Arrive, Goto, TypeInv, TypeOK, RequestTypeOK, Stages
<1>4. StageOK(r)'
  BY
  DEF Arrive, Goto, TypeInv, TypeOK, RequestTypeOK, StageOK, InChain, Planning, Attempting,
      Reporting
<1> QED BY <1>1, <1>2, <1>3, <1>4, StepType

LEMMA ArriveAnyType == ASSUME TypeInv, NEW r \in Requests, ArriveAny(r) PROVE TypeInv'
<1>1. CASE Submit(r)
  <2>1. PICK id \in TxnIds, code \in Codes, p \in Sources, ts \in ClientTimes \cup {now} :
          Arrive(r, [op |-> "submit",
                     event |-> [id |-> id, code |-> code, processor |-> p, ts |-> ts]],
                 "recordFailure")
    BY <1>1 DEF Submit
  <2>2. ts \in Times /\ p \in Processors
    BY NowIsTime, ConstantTypes DEF TypeInv, TypeOK
  <2>3. [op |-> "submit", event |-> [id |-> id, code |-> code, processor |-> p, ts |-> ts]]
          \in Submissions
    BY <2>2 DEF Submissions, Events
  <2> QED BY <2>1, <2>3, ArriveType
<1>2. CASE Report(r)
  <2>1. PICK id \in TxnIds, p \in Reported, success \in BOOLEAN :
          Arrive(r, [op |-> "report", id |-> id, processor |-> p, success |-> success], "fetch")
    BY <1>2 DEF Report
  <2>2. [op |-> "report", id |-> id, processor |-> p, success |-> success] \in Reports
    BY DEF Reports
  <2> QED BY <2>1, <2>2, ArriveType
<1>3. CASE Reset(r)
  <2>1. [op |-> "reset"] \in Resets
    BY DEF Resets
  <2> QED BY <1>3, <2>1, ArriveType DEF Reset
<1> QED BY <1>1, <1>2, <1>3 DEF ArriveAny

LEMMA RecordFailureType == ASSUME TypeInv, NEW r \in Requests, RecordFailure(r) PROVE TypeInv'
<1> DEFINE event == call[r].event
<1>1. call[r] \in Submissions
  BY DEF TypeInv, StageOK, RecordFailure, Goto
<1>2. event.processor \in Names /\ event.ts \in Times
  BY <1>1, EventType
<1>3. windows' \in [Names -> [Outcomes -> Nat]]
  BY <1>2, RecordOutcomeType DEF TypeInv, TypeOK, HealthTypeOK, RecordFailure
<1>4. HealthTypeOK' /\ StoreTypeOK' /\ AdaptiveTypeOK'
  BY <1>3, StoreKept, AdaptiveKept DEF TypeInv, TypeOK, HealthTypeOK, RecordFailure, Outcomes
<1>5. Frame(r)
  BY DEF RecordFailure, Goto, Frame, TypeInv, TypeOK, RequestTypeOK
<1>6. RequestTypeOK'
  BY DEF RecordFailure, Goto, TypeInv, TypeOK, RequestTypeOK, Stages
<1>7. StageOK(r)'
  BY <1>1 DEF RecordFailure, Goto, TypeInv, TypeOK, RequestTypeOK, StageOK, InChain, Planning,
              Attempting, Reporting
<1> QED BY <1>4, <1>5, <1>6, <1>7, StepType

LEMMA RejectDuplicateType == ASSUME TypeInv, NEW r \in Requests, RejectDuplicate(r) PROVE TypeInv'
<1>1. HealthTypeOK' /\ StoreTypeOK' /\ AdaptiveTypeOK'
  BY SharedKept DEF RejectDuplicate
<1>2. Frame(r)
  BY DEF RejectDuplicate, Answer, Goto, Frame, TypeInv, TypeOK, RequestTypeOK
<1>3. RequestTypeOK'
  BY DEF RejectDuplicate, Answer, Goto, TypeInv, TypeOK, RequestTypeOK, Stages, Answers
<1>4. StageOK(r)'
  BY
  DEF RejectDuplicate, Answer, Goto, TypeInv, TypeOK, RequestTypeOK, StageOK, InChain, Planning,
              Attempting, Reporting
<1> QED BY <1>1, <1>2, <1>3, <1>4, StepType

LEMMA SaveHardType == ASSUME TypeInv, NEW r \in Requests, SaveHard(r) PROVE TypeInv'
<1>1. call[r] \in Submissions
  BY DEF TypeInv, StageOK, SaveHard, Answer, Goto
<1>2. NewTransaction(call[r].event, "HARD_DECLINED") \in Transactions /\ call[r].event.id \in TxnIds
  BY <1>1, EventType, NewTransactionType DEF Statuses
<1>3. tx' = [tx EXCEPT ![r] = NewTransaction(call[r].event, "HARD_DECLINED")]
      /\ tx'[r] = NewTransaction(call[r].event, "HARD_DECLINED")
  BY DEF SaveHard, TypeInv, TypeOK, RequestTypeOK
<1>4. /\ NewTransaction(call[r].event, "HARD_DECLINED").event = call[r].event
      /\ NewTransaction(call[r].event, "HARD_DECLINED").retryCount < MaxRetries
  BY ConstantTypes DEF NewTransaction
<1>5. HealthTypeOK' /\ StoreTypeOK' /\ AdaptiveTypeOK'
  BY <1>1, <1>2, <1>3, SaveTransactionType, HealthKept, AdaptiveKept
  DEF SaveHard, TypeInv, TypeOK, healthVars
<1>6. Frame(r)
  BY DEF SaveHard, Answer, Goto, Frame, TypeInv, TypeOK, RequestTypeOK
<1>7. RequestTypeOK'
  BY <1>2, <1>3 DEF SaveHard, Answer, Goto, TypeInv, TypeOK, RequestTypeOK, Stages, Answers
<1>8. StageOK(r)'
  BY <1>1, <1>2, <1>4
  DEF SaveHard, Answer, Goto, TypeInv, TypeOK, RequestTypeOK, StageOK, InChain, Planning,
              Attempting, Reporting
<1> QED BY <1>5, <1>6, <1>7, <1>8, StepType

LEMMA SaveSoftType == ASSUME TypeInv, NEW r \in Requests, SaveSoft(r) PROVE TypeInv'
<1>1. call[r] \in Submissions
  BY DEF TypeInv, StageOK, SaveSoft, Answer, Goto
<1>2. NewTransaction(call[r].event, "RETRYING") \in Transactions /\ call[r].event.id \in TxnIds
  BY <1>1, EventType, NewTransactionType DEF Statuses
<1>3. tx' = [tx EXCEPT ![r] = NewTransaction(call[r].event, "RETRYING")]
      /\ tx'[r] = NewTransaction(call[r].event, "RETRYING")
  BY DEF SaveSoft, TypeInv, TypeOK, RequestTypeOK
<1>4. /\ NewTransaction(call[r].event, "RETRYING").event = call[r].event
      /\ NewTransaction(call[r].event, "RETRYING").retryCount < MaxRetries
  BY ConstantTypes DEF NewTransaction
<1>5. HealthTypeOK' /\ StoreTypeOK' /\ AdaptiveTypeOK'
  BY <1>1, <1>2, <1>3, SaveTransactionType, HealthKept, AdaptiveKept
  DEF SaveSoft, TypeInv, TypeOK, healthVars
<1>6. Frame(r)
  BY DEF SaveSoft, Answer, Goto, Frame, TypeInv, TypeOK, RequestTypeOK
<1>7. RequestTypeOK'
  BY <1>2, <1>3 DEF SaveSoft, Answer, Goto, TypeInv, TypeOK, RequestTypeOK, Stages, Answers
<1>8. StageOK(r)'
  BY <1>1, <1>2, <1>4
  DEF SaveSoft, Answer, Goto, TypeInv, TypeOK, RequestTypeOK, StageOK, InChain, Planning,
              Attempting, Reporting
<1> QED BY <1>5, <1>6, <1>7, <1>8, StepType

LEMMA PlanAttemptType == ASSUME TypeInv, NEW r \in Requests, PlanAttempt(r) PROVE TypeInv'
<1> DEFINE event == tx[r].event
           stay == /\ Classify(event.code).strategy # "ALTERNATIVE_PROCESSOR"
                   /\ GetHealth(event.processor).state # "DOWN"
           draft == [number |-> tx[r].retryCount + 1, processor |-> event.processor,
                     cost |-> Cost[event.processor], success |-> FALSE, ts |-> now]
<1>1. tx[r] \in Transactions /\ call[r] \in Submissions /\ tx[r].event = call[r].event
      /\ tx[r].retryCount < MaxRetries
  BY DEF TypeInv, StageOK, PlanAttempt, Goto, InChain, Planning
<1>2. tx[r].retryCount + 1 \in 1..MaxRetries
  BY <1>1, TransactionType, ConstantTypes
<1>3. draft \in Attempts
  BY <1>1, <1>2, EventType, CostType, NowIsTime DEF TypeInv, TypeOK, Attempts
<1>4. /\ attempt' = [attempt EXCEPT ![r] = draft]
      /\ scan' = [scan EXCEPT ![r] = IF stay THEN {} ELSE Others(event.processor)]
      /\ pc' = [pc EXCEPT ![r] = IF stay THEN "simulate" ELSE "scanHealth"]
      /\ candidates' = [candidates EXCEPT ![r] = {}]
      /\ UNCHANGED <<call, tx, reply>>
  BY DEF PlanAttempt, Goto
<1>5. (IF stay THEN "simulate" ELSE "scanHealth") \in {"simulate", "scanHealth"}
  OBVIOUS
<1>6. (IF stay THEN {} ELSE Others(event.processor)) \in SUBSET DOMAIN ProcessorOrder
  BY DEF Others
<1> HIDE DEF draft, stay, event
<1>7. HealthTypeOK' /\ StoreTypeOK' /\ AdaptiveTypeOK'
  BY SharedKept DEF PlanAttempt
<1>8. Frame(r)
  BY DEF PlanAttempt, Goto, Frame, TypeInv, TypeOK, RequestTypeOK
<1>9. RequestTypeOK'
  BY <1>3, <1>6, <1>4, <1>5 DEF TypeInv, TypeOK, RequestTypeOK, Stages, PendingOutcomes
<1>10. StageOK(r)'
  BY <1>1, <1>3, <1>4, <1>5
  DEF PlanAttempt, Goto, TypeInv, TypeOK, RequestTypeOK, StageOK, InChain, Planning,
              Attempting, Reporting
<1> QED BY <1>7, <1>8, <1>9, <1>10, StepType

LEMMA ScanHealthType == ASSUME TypeInv, NEW r \in Requests, ScanHealth(r) PROVE TypeInv'
<1>1. ASSUME NEW i \in DOMAIN ProcessorOrder
      PROVE  Unrated(ProcessorOrder[i]).name \in Processors
  BY ConstantTypes DEF Unrated, Processors
<1>2. /\ tx[r] \in Transactions /\ call[r] \in Submissions /\ tx[r].event = call[r].event
      /\ tx[r].retryCount < MaxRetries /\ attempt[r] \in Attempts
  BY DEF TypeInv, StageOK, InChain, Planning, Attempting, ScanHealth, Goto
<1>3. HealthTypeOK' /\ StoreTypeOK' /\ AdaptiveTypeOK'
  BY SharedKept DEF ScanHealth
<1>4. Frame(r)
  BY DEF ScanHealth, Goto, Frame, TypeInv, TypeOK, RequestTypeOK
<1>5. RequestTypeOK'
  BY <1>1 DEF ScanHealth, Goto, TypeInv, TypeOK, RequestTypeOK, Stages, Answers
<1>6. StageOK(r)'
  BY <1>2 DEF ScanHealth, Goto, TypeInv, TypeOK, RequestTypeOK, StageOK, InChain, Planning,
              Attempting, Reporting
<1> QED BY <1>3, <1>4, <1>5, <1>6, StepType

LEMMA ScanAdaptiveType == ASSUME TypeInv, NEW r \in Requests, ScanAdaptive(r) PROVE TypeInv'
<1>1. ASSUME NEW i \in DOMAIN ProcessorOrder, NEW c \in Rated(r, ProcessorOrder[i])
      PROVE  c.name \in Processors
  BY ConstantTypes DEF Rated, Processors, TypeInv, TypeOK, RequestTypeOK
<1>2. /\ tx[r] \in Transactions /\ call[r] \in Submissions /\ tx[r].event = call[r].event
      /\ tx[r].retryCount < MaxRetries /\ attempt[r] \in Attempts
  BY DEF TypeInv, StageOK, InChain, Planning, Attempting, ScanAdaptive, Goto
<1>3. HealthTypeOK' /\ StoreTypeOK' /\ AdaptiveTypeOK'
  BY SharedKept DEF ScanAdaptive
<1>4. Frame(r)
  BY DEF ScanAdaptive, Goto, Frame, TypeInv, TypeOK, RequestTypeOK
<1>5. RequestTypeOK'
  BY <1>1 DEF ScanAdaptive, Goto, TypeInv, TypeOK, RequestTypeOK, Stages, Answers
<1>6. StageOK(r)'
  BY <1>2 DEF ScanAdaptive, Goto, TypeInv, TypeOK, RequestTypeOK, StageOK, InChain, Planning,
              Attempting, Reporting
<1> QED BY <1>3, <1>4, <1>5, <1>6, StepType

LEMMA SelectTargetType == ASSUME TypeInv, NEW r \in Requests, SelectTarget(r) PROVE TypeInv'
<1>1. /\ tx[r] \in Transactions /\ call[r] \in Submissions /\ tx[r].event = call[r].event
      /\ tx[r].retryCount < MaxRetries /\ attempt[r] \in Attempts
  BY DEF TypeInv, StageOK, InChain, Planning, Attempting, SelectTarget
<1>2. HealthTypeOK' /\ StoreTypeOK' /\ AdaptiveTypeOK'
  BY SharedKept DEF SelectTarget
<1>3. ASSUME NEW p \in Processors, Route(r, p)
      PROVE  Frame(r) /\ RequestTypeOK' /\ StageOK(r)'
  <2> DEFINE routed == [attempt[r] EXCEPT !.processor = p, !.cost = Cost[p]]
  <2>1. routed \in Attempts
    BY <1>1, CostType DEF Attempts
  <2>2. /\ attempt' = [attempt EXCEPT ![r] = routed]
        /\ pc' = [pc EXCEPT ![r] = "simulate"]
        /\ UNCHANGED <<call, tx, scan, candidates, reply>>
    BY <1>3 DEF Route, Goto, SelectTarget
  <2> HIDE DEF routed
  <2>3. Frame(r)
    BY <2>2 DEF Frame, TypeInv, TypeOK, RequestTypeOK
  <2>4. RequestTypeOK'
    BY <2>1, <2>2 DEF TypeInv, TypeOK, RequestTypeOK, Stages, PendingOutcomes
  <2>5. StageOK(r)'
    BY <1>1, <2>1, <2>2 DEF TypeInv, TypeOK, RequestTypeOK, StageOK, InChain, Planning,
                             Attempting, Reporting
  <2> QED BY <2>3, <2>4, <2>5
<1>4. ASSUME GiveUp(r) PROVE Frame(r) /\ RequestTypeOK' /\ StageOK(r)'
  <2> DEFINE given == [tx[r] EXCEPT !.status = "EXHAUSTED"]
  <2>1. given \in Transactions /\ given.event = tx[r].event
    BY <1>1, StatusUpdate DEF Statuses
  <2>2. /\ tx' = [tx EXCEPT ![r] = given]
        /\ pc' = [pc EXCEPT ![r] = "update"]
        /\ UNCHANGED <<call, attempt, scan, candidates, reply>>
    BY <1>4 DEF GiveUp, Goto, SelectTarget
  <2> HIDE DEF given
  <2>3. Frame(r)
    BY <2>2 DEF Frame, TypeInv, TypeOK, RequestTypeOK
  <2>4. RequestTypeOK'
    BY <2>1, <2>2 DEF TypeInv, TypeOK, RequestTypeOK, Stages
  <2>5. StageOK(r)'
    BY <1>1, <2>1, <2>2 DEF TypeInv, TypeOK, RequestTypeOK, StageOK, InChain, Planning,
                             Attempting, Reporting
  <2> QED BY <2>3, <2>4, <2>5
<1>5. \/ \E p \in Processors : Route(r, p)
      \/ GiveUp(r)
  <2>1. ASSUME NEW c \in Best(candidates[r]) PROVE c.name \in Processors
    BY DEF Best, TypeInv, TypeOK, RequestTypeOK
  <2>2. Fallback(tx[r].event.processor) \subseteq Processors
    BY DEF Fallback, Processors
  <2> QED BY <2>1, <2>2 DEF SelectTarget
<1> QED BY <1>2, <1>3, <1>4, <1>5, StepType

LEMMA SimulateType == ASSUME TypeInv, NEW r \in Requests, Simulate(r) PROVE TypeInv'
<1>1. PICK success \in BOOLEAN :
        LET made == [attempt[r] EXCEPT !.success = success]
        IN  /\ attempt' = [attempt EXCEPT ![r] = made]
            /\ tx' = [tx EXCEPT ![r] = [tx[r] EXCEPT !.attempts = Append(tx[r].attempts, made),
                                                     !.retryCount = tx[r].retryCount + 1,
                                                     !.totalCost = tx[r].totalCost + made.cost]]
  BY DEF Simulate
<1> DEFINE made == [attempt[r] EXCEPT !.success = success]
           entered == [tx[r] EXCEPT !.attempts = Append(tx[r].attempts, made),
                                    !.retryCount = tx[r].retryCount + 1,
                                    !.totalCost = tx[r].totalCost + made.cost]
<1>2. /\ tx[r] \in Transactions /\ call[r] \in Submissions /\ tx[r].event = call[r].event
      /\ tx[r].retryCount < MaxRetries /\ attempt[r] \in Attempts
  BY DEF TypeInv, StageOK, InChain, Planning, Attempting, Simulate, Goto
<1>3. made \in Attempts /\ made.cost \in Nat
  BY <1>2 DEF Attempts
<1> HIDE DEF made
<1>4. Append(tx[r].attempts, made) \in Seq(Attempts)
  BY <1>2, <1>3, TransactionType
<1>5. tx[r].retryCount + 1 \in 0..MaxRetries /\ tx[r].totalCost + made.cost \in Nat
  BY <1>2, <1>3, TransactionType, ConstantTypes
<1>6. entered \in Transactions /\ entered.event = tx[r].event
  BY <1>2, <1>4, <1>5 DEF Transactions
<1>7. /\ attempt' = [attempt EXCEPT ![r] = made]
      /\ tx' = [tx EXCEPT ![r] = entered]
      /\ pc' = [pc EXCEPT ![r] = "recordHealth"]
      /\ UNCHANGED <<sharedVars, call, scan, candidates, reply>>
  BY <1>1 DEF Simulate, Goto, made
<1> HIDE DEF entered
<1>8. HealthTypeOK' /\ StoreTypeOK' /\ AdaptiveTypeOK'
  BY <1>7, SharedKept
<1>9. Frame(r)
  BY <1>7 DEF Frame, TypeInv, TypeOK, RequestTypeOK
<1>10. RequestTypeOK'
  BY <1>3, <1>6, <1>7 DEF TypeInv, TypeOK, RequestTypeOK, Stages, PendingOutcomes
<1>11. StageOK(r)'
  BY <1>2, <1>3, <1>6, <1>7 DEF TypeInv, TypeOK, RequestTypeOK, StageOK, InChain, Planning,
                                Attempting, Reporting
<1> QED BY <1>8, <1>9, <1>10, <1>11, StepType

LEMMA RecordHealthType == ASSUME TypeInv, NEW r \in Requests, RecordHealth(r) PROVE TypeInv'
<1>1. attempt[r] \in Attempts /\ tx[r] \in Transactions /\ call[r] \in Submissions
      /\ tx[r].event = call[r].event
  BY DEF TypeInv, StageOK, RecordHealth, Goto, Attempting, InChain
<1>2. /\ attempt[r].processor \in Names /\ attempt[r].success \in BOOLEAN
      /\ attempt[r].ts \in Times
  BY <1>1, AttemptType
<1>3. windows' \in [Names -> [Outcomes -> Nat]]
  BY <1>2, RecordOutcomeType DEF TypeInv, TypeOK, HealthTypeOK, RecordHealth
<1>4. HealthTypeOK' /\ StoreTypeOK' /\ AdaptiveTypeOK'
  BY <1>3, StoreKept, AdaptiveKept DEF TypeInv, TypeOK, HealthTypeOK, RecordHealth, Outcomes
<1>5. Frame(r)
  BY DEF RecordHealth, Goto, Frame, TypeInv, TypeOK, RequestTypeOK
<1>6. RequestTypeOK'
  BY DEF RecordHealth, Goto, TypeInv, TypeOK, RequestTypeOK, Stages, Answers
<1>7. StageOK(r)'
  BY <1>1 DEF RecordHealth, Goto, TypeInv, TypeOK, RequestTypeOK, StageOK, InChain, Planning,
              Attempting, Reporting
<1> QED BY <1>4, <1>5, <1>6, <1>7, StepType

LEMMA ReportHealthType == ASSUME TypeInv, NEW r \in Requests, ReportHealth(r) PROVE TypeInv'
<1>1. attempt[r] \in ReportedOutcomes /\ tx[r] \in Transactions /\ call[r] \in Reports
  BY DEF TypeInv, StageOK, ReportHealth, Goto, Reporting
<1>2. /\ attempt[r].processor \in Names /\ attempt[r].success \in BOOLEAN
      /\ attempt[r].ts \in Times
  BY <1>1, ReportedOutcomeType
<1>3. windows' \in [Names -> [Outcomes -> Nat]]
  BY <1>2, RecordOutcomeType DEF TypeInv, TypeOK, HealthTypeOK, ReportHealth
<1>4. HealthTypeOK' /\ StoreTypeOK' /\ AdaptiveTypeOK'
  BY <1>3, StoreKept, AdaptiveKept DEF TypeInv, TypeOK, HealthTypeOK, ReportHealth, Outcomes
<1>5. Frame(r)
  BY DEF ReportHealth, Goto, Frame, TypeInv, TypeOK, RequestTypeOK
<1>6. RequestTypeOK'
  BY DEF ReportHealth, Goto, TypeInv, TypeOK, RequestTypeOK, Stages, Answers
<1>7. StageOK(r)'
  BY <1>1 DEF ReportHealth, Goto, TypeInv, TypeOK, RequestTypeOK, StageOK, InChain, Planning,
              Attempting, Reporting
<1> QED BY <1>4, <1>5, <1>6, <1>7, StepType

LEMMA LearnOutcomeType == ASSUME TypeInv, NEW r \in Requests, LearnOutcome(r) PROVE TypeInv'
<1>1. /\ tx[r] \in Transactions /\ call[r] \in Submissions /\ tx[r].event = call[r].event
      /\ attempt[r] \in Attempts
  BY DEF TypeInv, StageOK, InChain, Attempting, Answer, Goto, LearnOutcome
<1>2. AdaptiveTypeOK'
  BY <1>1, EventType, AttemptType, RecordAdaptiveType DEF TypeInv, TypeOK, LearnOutcome
<1>3. HealthTypeOK' /\ StoreTypeOK' /\ AdaptiveTypeOK'
  BY <1>2, HealthKept, StoreKept DEF TypeInv, TypeOK, LearnOutcome, healthVars, storeVars
<1>4. Frame(r)
  BY DEF LearnOutcome, Goto, Frame, TypeInv, TypeOK, RequestTypeOK
<1>5. RequestTypeOK'
  BY DEF LearnOutcome, Goto, TypeInv, TypeOK, RequestTypeOK, Stages, Answers
<1>6. StageOK(r)'
  BY <1>1 DEF LearnOutcome, Goto, TypeInv, TypeOK, RequestTypeOK, StageOK, InChain, Planning,
              Attempting, Reporting
<1> QED BY <1>3, <1>4, <1>5, <1>6, StepType

LEMMA LogDecisionType == ASSUME TypeInv, NEW r \in Requests, LogDecision(r) PROVE TypeInv'
<1> DEFINE again == ~attempt[r].success /\ RetriesLeft(r)
           status == IF attempt[r].success THEN "RECOVERED"
                     ELSE IF again THEN tx[r].status ELSE "EXHAUSTED"
           ended == [tx[r] EXCEPT !.status = status]
<1>1. /\ tx[r] \in Transactions /\ call[r] \in Submissions /\ tx[r].event = call[r].event
      /\ attempt[r] \in Attempts
  BY DEF TypeInv, StageOK, InChain, Attempting, Answer, Goto, LogDecision
<1>2. Decision(r) \in DecisionLogs /\ tx[r].event.id \in TxnIds
  BY <1>1, AttemptType, EventType DEF Decision, DecisionLogs
<1>3. status \in Statuses
  BY <1>1, TransactionType DEF Statuses
<1>4. ended \in Transactions /\ ended.event = tx[r].event /\ ended.retryCount = tx[r].retryCount
  BY <1>1, <1>3, StatusUpdate
<1>5. again => tx[r].retryCount < MaxRetries
  BY DEF RetriesLeft
<1>6. /\ tx' = [tx EXCEPT ![r] = ended]
      /\ pc' = [pc EXCEPT ![r] = IF again THEN "plan" ELSE "update"]
      /\ UNCHANGED <<healthVars, adaptiveData, call, attempt, scan, candidates, reply>>
  BY DEF LogDecision, Goto
<1> HIDE DEF again, status, ended
<1>7. HealthTypeOK' /\ StoreTypeOK' /\ AdaptiveTypeOK'
  BY <1>2, <1>6, SaveDecisionLogType, HealthKept, AdaptiveKept DEF TypeInv, TypeOK, LogDecision
<1>8. Frame(r)
  BY <1>6 DEF Frame, TypeInv, TypeOK, RequestTypeOK
<1>9. RequestTypeOK'
  BY <1>4, <1>6 DEF TypeInv, TypeOK, RequestTypeOK, Stages
<1>10. StageOK(r)'
  BY <1>1, <1>4, <1>5, <1>6 DEF TypeInv, TypeOK, RequestTypeOK, StageOK, InChain, Planning,
                                Attempting, Reporting
<1> QED BY <1>7, <1>8, <1>9, <1>10, StepType

LEMMA FinishChainType == ASSUME TypeInv, NEW r \in Requests, FinishChain(r) PROVE TypeInv'
<1>1. /\ tx[r] \in Transactions /\ call[r] \in Submissions /\ tx[r].event = call[r].event
  BY DEF TypeInv, StageOK, InChain, Attempting, Answer, Goto, FinishChain
<1>2. HealthTypeOK' /\ StoreTypeOK' /\ AdaptiveTypeOK'
  BY <1>1, EventType, UpdateTransactionType, HealthKept, AdaptiveKept
  DEF TypeInv, TypeOK, FinishChain, healthVars
<1>3. Frame(r)
  BY DEF FinishChain, Answer, Goto, Frame, TypeInv, TypeOK, RequestTypeOK
<1>4. RequestTypeOK'
  BY DEF FinishChain, Answer, Goto, TypeInv, TypeOK, RequestTypeOK, Stages, Answers
<1>5. StageOK(r)'
  BY DEF FinishChain, Answer, Goto, TypeInv, TypeOK, RequestTypeOK, StageOK, InChain, Planning,
              Attempting, Reporting
<1> QED BY <1>2, <1>3, <1>4, <1>5, StepType

LEMMA FetchUnknownType == ASSUME TypeInv, NEW r \in Requests, FetchUnknown(r) PROVE TypeInv'
<1>1. HealthTypeOK' /\ StoreTypeOK' /\ AdaptiveTypeOK'
  BY SharedKept DEF FetchUnknown
<1>2. Frame(r)
  BY DEF FetchUnknown, Answer, Goto, Frame, TypeInv, TypeOK, RequestTypeOK
<1>3. RequestTypeOK'
  BY DEF FetchUnknown, Answer, Goto, TypeInv, TypeOK, RequestTypeOK, Stages, Answers
<1>4. StageOK(r)'
  BY DEF FetchUnknown, Answer, Goto, TypeInv, TypeOK, RequestTypeOK, StageOK, InChain, Planning,
              Attempting, Reporting
<1> QED BY <1>1, <1>2, <1>3, <1>4, StepType

LEMMA FetchType == ASSUME TypeInv, NEW r \in Requests, Fetch(r) PROVE TypeInv'
<1>1. call[r] \in Reports /\ call[r].id \in TxnIds
  BY DEF TypeInv, StageOK, Fetch, Goto, Reports
<1>2. transactions[call[r].id] \in Transactions
  BY <1>1 DEF Fetch, Exists, TypeInv, TypeOK, StoreTypeOK
<1>3. [processor |-> call[r].processor, success |-> call[r].success, ts |-> now]
        \in ReportedOutcomes \cap PendingOutcomes
  BY <1>1, NowIsTime DEF TypeInv, TypeOK, Reports, ReportedOutcomes, PendingOutcomes
<1>4. HealthTypeOK' /\ StoreTypeOK' /\ AdaptiveTypeOK'
  BY SharedKept DEF Fetch
<1>5. Frame(r)
  BY DEF Fetch, Goto, Frame, TypeInv, TypeOK, RequestTypeOK
<1>6. RequestTypeOK'
  BY <1>2, <1>3 DEF Fetch, Goto, TypeInv, TypeOK, RequestTypeOK, Stages, Answers
<1>7. StageOK(r)'
  BY <1>1, <1>2, <1>3 DEF Fetch, Goto, TypeInv, TypeOK, RequestTypeOK, StageOK, InChain, Planning,
              Attempting, Reporting
<1> QED BY <1>4, <1>5, <1>6, <1>7, StepType

LEMMA ReportAdaptiveType == ASSUME TypeInv, NEW r \in Requests, ReportAdaptive(r) PROVE TypeInv'
<1> DEFINE reported == [tx[r] EXCEPT !.status = StatusAfterReport(r)]
<1>1. call[r] \in Reports /\ tx[r] \in Transactions /\ attempt[r] \in ReportedOutcomes
  BY DEF TypeInv, StageOK, Reporting, ReportAdaptive, Goto
<1>2. StatusAfterReport(r) \in Statuses
  BY <1>1, TransactionType DEF StatusAfterReport, Statuses
<1>3. reported \in Transactions
  BY <1>1, <1>2, StatusUpdate
<1>4. /\ tx' = [tx EXCEPT ![r] = reported]
      /\ pc' = [pc EXCEPT ![r] = "reportUpdate"]
      /\ UNCHANGED <<storeVars, healthVars, call, attempt, scan, candidates, reply>>
  BY DEF ReportAdaptive, Goto
<1> HIDE DEF reported
<1>5. AdaptiveTypeOK'
  BY <1>1, TransactionType, ReportedOutcomeType, RecordAdaptiveType
  DEF TypeInv, TypeOK, ReportAdaptive
<1>6. HealthTypeOK' /\ StoreTypeOK' /\ AdaptiveTypeOK'
  BY <1>4, <1>5, HealthKept, StoreKept DEF TypeInv, TypeOK
<1>7. Frame(r)
  BY <1>4 DEF Frame, TypeInv, TypeOK, RequestTypeOK
<1>8. RequestTypeOK'
  BY <1>3, <1>4 DEF TypeInv, TypeOK, RequestTypeOK, Stages
<1>9. StageOK(r)'
  BY <1>1, <1>3, <1>4 DEF TypeInv, TypeOK, RequestTypeOK, StageOK, InChain, Planning,
                          Attempting, Reporting
<1> QED BY <1>6, <1>7, <1>8, <1>9, StepType

LEMMA ReportUpdateType == ASSUME TypeInv, NEW r \in Requests, ReportUpdate(r) PROVE TypeInv'
<1>1. call[r].id \in TxnIds /\ tx[r] \in Transactions
  BY DEF TypeInv, StageOK, Reporting, ReportUpdate, Answer, Goto, Reports
<1>2. HealthTypeOK' /\ StoreTypeOK' /\ AdaptiveTypeOK'
  BY <1>1, UpdateTransactionType, HealthKept, AdaptiveKept DEF TypeInv, TypeOK, ReportUpdate
<1>3. Frame(r)
  BY DEF ReportUpdate, Answer, Goto, Frame, TypeInv, TypeOK, RequestTypeOK
<1>4. RequestTypeOK'
  BY DEF ReportUpdate, Answer, Goto, TypeInv, TypeOK, RequestTypeOK, Stages, Answers
<1>5. StageOK(r)'
  BY DEF ReportUpdate, Answer, Goto, TypeInv, TypeOK, RequestTypeOK, StageOK, InChain, Planning,
              Attempting, Reporting
<1> QED BY <1>2, <1>3, <1>4, <1>5, StepType

LEMMA ResetStoreType == ASSUME TypeInv, NEW r \in Requests, ResetStore(r) PROVE TypeInv'
<1>1. HealthTypeOK' /\ StoreTypeOK' /\ AdaptiveTypeOK'
  BY StoreResetType, HealthKept, AdaptiveKept DEF TypeInv, TypeOK, ResetStore
<1>2. Frame(r)
  BY DEF ResetStore, Goto, Frame, TypeInv, TypeOK, RequestTypeOK
<1>3. RequestTypeOK'
  BY DEF ResetStore, Goto, TypeInv, TypeOK, RequestTypeOK, Stages, Answers
<1>4. StageOK(r)'
  BY DEF ResetStore, Goto, TypeInv, TypeOK, RequestTypeOK, StageOK, InChain, Planning,
              Attempting, Reporting
<1> QED BY <1>1, <1>2, <1>3, <1>4, StepType

LEMMA ResetHealthType == ASSUME TypeInv, NEW r \in Requests, ResetHealth(r) PROVE TypeInv'
<1>1. HealthTypeOK' /\ StoreTypeOK' /\ AdaptiveTypeOK'
  BY HealthResetType, StoreKept, AdaptiveKept
  DEF TypeInv, TypeOK, HealthTypeOK, ResetHealth, Outcomes
<1>2. Frame(r)
  BY DEF ResetHealth, Answer, Goto, Frame, TypeInv, TypeOK, RequestTypeOK
<1>3. RequestTypeOK'
  BY DEF ResetHealth, Answer, Goto, TypeInv, TypeOK, RequestTypeOK, Stages, Answers
<1>4. StageOK(r)'
  BY DEF ResetHealth, Answer, Goto, TypeInv, TypeOK, RequestTypeOK, StageOK, InChain, Planning,
              Attempting, Reporting
<1> QED BY <1>1, <1>2, <1>3, <1>4, StepType

-----------------------------------------------------------------------------
(* All steps *)

LEMMA ServeType == ASSUME TypeInv, NEW r \in Requests, Serve(r) PROVE TypeInv'
<1>1. CASE ProcessFailureStep(r)
  BY <1>1, RecordFailureType, RejectDuplicateType, SaveHardType, SaveSoftType, PlanAttemptType,
     ScanHealthType, ScanAdaptiveType, SelectTargetType, SimulateType, RecordHealthType,
     LearnOutcomeType, LogDecisionType, FinishChainType
  DEF ProcessFailureStep
<1>2. CASE RecordRetryOutcomeStep(r)
  BY <1>2, FetchUnknownType, FetchType, ReportHealthType, ReportAdaptiveType, ReportUpdateType
  DEF RecordRetryOutcomeStep
<1>3. CASE ResetStep(r)
  BY <1>3, ResetStoreType, ResetHealthType DEF ResetStep
<1> QED BY <1>1, <1>2, <1>3 DEF Serve

LEMMA LocalKept ==
  ASSUME TypeInv, UNCHANGED localVars, HealthTypeOK', StoreTypeOK', AdaptiveTypeOK'
  PROVE  TypeInv'
<1>1. RequestTypeOK'
  BY DEF localVars, TypeInv, TypeOK, RequestTypeOK
<1>2. ASSUME NEW r \in Requests PROVE StageOK(r)'
  BY DEF localVars, TypeInv, StageOK
<1> QED BY <1>1, <1>2 DEF TypeInv, TypeOK

LEMMA ClockTickType == TypeInv /\ ClockTick => TypeInv'
<1> SUFFICES ASSUME TypeInv, ClockTick PROVE TypeInv'
  OBVIOUS
<1>1. now' \in 0..MaxTime
  BY HealthAssumption DEF TypeInv, TypeOK, HealthTypeOK, ClockTick, Tick
<1>2. HealthTypeOK' /\ StoreTypeOK' /\ AdaptiveTypeOK'
  BY <1>1, StoreKept, AdaptiveKept DEF TypeInv, TypeOK, HealthTypeOK, ClockTick, Tick, Outcomes
<1> QED BY <1>2, LocalKept DEF ClockTick

LEMMA InitType == Init => TypeInv
<1> SUFFICES ASSUME Init PROVE TypeInv
  OBVIOUS
<1>1. HealthTypeOK
  BY HealthAssumption DEF Init, HealthInit, EmptyWindow, HealthTypeOK
<1>2. StoreTypeOK
  BY DEF Init, StoreInit, StoreTypeOK
<1>3. AdaptiveTypeOK
  BY DEF Init, NothingLearned, AdaptiveTypeOK
<1>4. RequestTypeOK
  BY DEF Init, RequestTypeOK, Stages, Answers
<1>5. \A r \in Requests : StageOK(r)
  BY DEF Init, StageOK, InChain, Planning, Attempting, Reporting
<1> QED BY <1>1, <1>2, <1>3, <1>4, <1>5 DEF TypeInv, TypeOK

LEMMA NextType == TypeInv /\ [Next]_vars => TypeInv'
<1> SUFFICES ASSUME TypeInv, [Next]_vars PROVE TypeInv'
  OBVIOUS
<1>1. CASE UNCHANGED vars
  BY <1>1, SharedKept, LocalKept DEF vars
<1>2. CASE Next
  <2>1. ASSUME NEW r \in Requests, ArriveAny(r) PROVE TypeInv'
    BY <2>1, ArriveAnyType
  <2>2. ASSUME NEW r \in Requests, Serve(r) PROVE TypeInv'
    BY <2>2, ServeType
  <2> QED BY <1>1, <1>2, <2>1, <2>2, ClockTickType DEF Next, Quiet
<1> QED BY <1>1, <1>2

(* TypeInv is inductive. *)
THEOREM TypeInvariant == Spec => []TypeInv
BY InitType, NextType, PTL DEF Spec

(* The types of the store, of the ledgers and of every request, under every
   interleaving; no stored retry count exceeds maxRetries (executeRetryChain). *)
THEOREM TypeCorrect == Spec => []TypeOK
<1>1. TypeInv => TypeOK
  BY DEF TypeInv
<1> QED BY <1>1, TypeInvariant, PTL

-----------------------------------------------------------------------------
(* The records of transactions, stored and in the hands of requests *)

RecordOK(t, id) ==
  /\ t.event.id = id
  /\ WholeChain(t)
  /\ (t.status = "HARD_DECLINED") = IsHard(t.event.code)

Drafting  == {"scanHealth", "scanAdaptive", "simulate"}
Recording == {"recordHealth", "recordAdaptive", "log"}

(* A chain under way: the attempts made so far are numbered and failed, but
   for the last one while its outcome is being recorded. *)
WorkOK(r) ==
  LET t == tx[r]
      n == Len(tx[r].attempts)
  IN  /\ pc[r] \in InChain => /\ t.retryCount = n
                              /\ \A i \in 1..n : t.attempts[i].number = i
                              /\ ~IsHard(t.event.code)
                              /\ pc[r] # "update" => t.status = "RETRYING"
      /\ pc[r] \in Planning => \A i \in 1..n : ~t.attempts[i].success
      /\ pc[r] \in Drafting => attempt[r].number = n + 1
      /\ pc[r] \in Recording => /\ n > 0 /\ t.attempts[n] = attempt[r]
                                /\ \A i \in 1..n-1 : ~t.attempts[i].success
      /\ pc[r] = "update" => WholeChain(t) /\ t.status \in {"RECOVERED", "EXHAUSTED"}
      /\ pc[r] \in Reporting => RecordOK(t, call[r].id)

StoredOK == \A id \in TxnIds : Exists(id) => RecordOK(transactions[id], id)

ChainInv == StoredOK /\ \A r \in Requests : WorkOK(r)

LEMMA StepChain ==
  ASSUME ChainInv, NEW r \in Requests, Frame(r), StoredOK', WorkOK(r)'
  PROVE  ChainInv'
<1>1. ASSUME NEW q \in Requests \ {r} PROVE WorkOK(q)'
  <2>1. /\ pc'[q] = pc[q] /\ call'[q] = call[q] /\ tx'[q] = tx[q] /\ attempt'[q] = attempt[q]
        /\ WorkOK(q)
    BY <1>1 DEF Frame, ChainInv
  <2> QED BY <2>1 DEF WorkOK
<1> QED BY <1>1 DEF ChainInv

LEMMA StoredKept == StoredOK /\ UNCHANGED transactions => StoredOK'
BY DEF StoredOK, Exists

(* A transaction that has just been classified. *)
LEMMA NewRecord ==
  ASSUME NEW event \in Events,
         NEW status \in {"HARD_DECLINED", "RETRYING"},
         (status = "HARD_DECLINED") = IsHard(event.code)
  PROVE  RecordOK(NewTransaction(event, status), event.id)
BY DEF RecordOK, NewTransaction, WholeChain

(* Writing one good record keeps the store good. *)
LEMMA StoredSaved ==
  ASSUME TypeInv, StoredOK, NEW id \in TxnIds, NEW t, RecordOK(t, id),
         transactions' = [transactions EXCEPT ![id] = t]
  PROVE  StoredOK'
BY DEF TypeInv, TypeOK, StoreTypeOK, StoredOK, Exists

LEMMA ArriveChain ==
  ASSUME TypeInv, ChainInv, NEW r \in Requests, ArriveAny(r)
  PROVE  ChainInv'
<1>1. Frame(r) /\ UNCHANGED transactions /\ pc'[r] \in {"recordFailure", "fetch", "resetStore"}
  BY DEF ArriveAny, Submit, Report, Reset, Arrive, Goto, Frame, sharedVars, TypeInv, TypeOK,
         RequestTypeOK
<1>2. StoredOK'
  BY <1>1, StoredKept DEF ChainInv
<1>3. WorkOK(r)'
  BY <1>1 DEF WorkOK, InChain, Planning, Drafting, Recording, Reporting
<1> QED BY <1>1, <1>2, <1>3, StepChain

(* Steps that change neither a record nor an attempt: a request moves from
   one stage to another that asks no more of its variables. *)
SameWork(r) == /\ Frame(r) /\ call'[r] = call[r] /\ tx'[r] = tx[r] /\ attempt'[r] = attempt[r]
               /\ UNCHANGED transactions

LEMMA SameWorkChain ==
  ASSUME ChainInv, NEW r \in Requests, SameWork(r),
         \/ pc'[r] \in {"save", "done", "resetHealth"}
         \/ pc[r] \in {"scanHealth", "scanAdaptive"} /\ pc'[r] \in {"scanHealth", "scanAdaptive"}
         \/ pc[r] \in {"recordHealth", "recordAdaptive"} /\ pc'[r] \in {"recordAdaptive", "log"}
         \/ pc[r] = "reportHealth" /\ pc'[r] = "reportAdaptive"
  PROVE  ChainInv'
<1>1. StoredOK'
  BY StoredKept DEF ChainInv, SameWork
<1>2. WorkOK(r)
  BY DEF ChainInv
<1>3. WorkOK(r)'
  BY <1>2 DEF SameWork, WorkOK, InChain, Planning, Drafting, Recording, Reporting
<1> QED BY <1>1, <1>3, StepChain DEF SameWork

LEMMA QuietStepsChain ==
  ASSUME TypeInv, ChainInv, NEW r \in Requests,
         \/ RecordFailure(r) \/ RejectDuplicate(r) \/ ScanHealth(r) \/ ScanAdaptive(r)
         \/ RecordHealth(r) \/ LearnOutcome(r) \/ FetchUnknown(r) \/ ReportHealth(r)
         \/ ResetHealth(r)
  PROVE  ChainInv'
<1>1. CASE RecordFailure(r)
  <2>1. SameWork(r) /\ pc'[r] = "save"
    BY <1>1
    DEF RecordFailure, Answer, Goto, SameWork, Frame, sharedVars, storeVars, TypeInv, TypeOK,
        RequestTypeOK
  <2> QED BY <2>1, SameWorkChain
<1>2. CASE RejectDuplicate(r)
  <2>1. SameWork(r) /\ pc'[r] = "done"
    BY <1>2
    DEF RejectDuplicate, Answer, Goto, SameWork, Frame, sharedVars, storeVars, TypeInv, TypeOK,
        RequestTypeOK
  <2> QED BY <2>1, SameWorkChain
<1>3. CASE FetchUnknown(r)
  <2>1. SameWork(r) /\ pc'[r] = "done"
    BY <1>3
    DEF FetchUnknown, Answer, Goto, SameWork, Frame, sharedVars, storeVars, TypeInv, TypeOK,
        RequestTypeOK
  <2> QED BY <2>1, SameWorkChain
<1>4. CASE ResetHealth(r)
  <2>1. SameWork(r) /\ pc'[r] = "done"
    BY <1>4
    DEF ResetHealth, Answer, Goto, SameWork, Frame, sharedVars, storeVars, TypeInv, TypeOK,
        RequestTypeOK
  <2> QED BY <2>1, SameWorkChain
<1>5. CASE ScanHealth(r)
  <2>1. SameWork(r) /\ pc[r] \in {"scanHealth", "scanAdaptive"}
        /\ pc'[r] \in {"scanHealth", "scanAdaptive"}
    BY <1>5
    DEF ScanHealth, Goto, SameWork, Frame, sharedVars, storeVars, TypeInv, TypeOK, RequestTypeOK
  <2> QED BY <2>1, SameWorkChain
<1>6. CASE ScanAdaptive(r)
  <2>1. SameWork(r) /\ pc[r] \in {"scanHealth", "scanAdaptive"}
        /\ pc'[r] \in {"scanHealth", "scanAdaptive"}
    BY <1>6
    DEF ScanAdaptive, Goto, SameWork, Frame, sharedVars, storeVars, TypeInv, TypeOK, RequestTypeOK
  <2> QED BY <2>1, SameWorkChain
<1>7. CASE RecordHealth(r)
  <2>1. SameWork(r) /\ pc[r] \in {"recordHealth", "recordAdaptive"}
        /\ pc'[r] \in {"recordAdaptive", "log"}
    BY <1>7
    DEF RecordHealth, Goto, SameWork, Frame, sharedVars, storeVars, TypeInv, TypeOK, RequestTypeOK
  <2> QED BY <2>1, SameWorkChain
<1>8. CASE LearnOutcome(r)
  <2>1. SameWork(r) /\ pc[r] \in {"recordHealth", "recordAdaptive"}
        /\ pc'[r] \in {"recordAdaptive", "log"}
    BY <1>8
    DEF LearnOutcome, Goto, SameWork, Frame, sharedVars, storeVars, TypeInv, TypeOK, RequestTypeOK
  <2> QED BY <2>1, SameWorkChain
<1>9. CASE ReportHealth(r)
  <2>1. SameWork(r) /\ pc[r] \in {"reportHealth"}
        /\ pc'[r] \in {"reportAdaptive"}
    BY <1>9
    DEF ReportHealth, Goto, SameWork, Frame, sharedVars, storeVars, TypeInv, TypeOK, RequestTypeOK
  <2> QED BY <2>1, SameWorkChain
<1> QED BY <1>1, <1>2, <1>3, <1>4, <1>5, <1>6, <1>7, <1>8, <1>9

LEMMA SaveHardChain == ASSUME TypeInv, ChainInv, NEW r \in Requests, SaveHard(r) PROVE ChainInv'
<1> DEFINE t == NewTransaction(call[r].event, "HARD_DECLINED")
<1>1. call[r] \in Submissions
  BY DEF TypeInv, StageOK, SaveHard, Answer, Goto
<1>2. call[r].event \in Events /\ call[r].event.id \in TxnIds
  BY <1>1, EventType
<1>3. RecordOK(t, call[r].event.id)
  <2>1. IsHard(call[r].event.code) = ("HARD_DECLINED" = "HARD_DECLINED")
    BY DEF SaveHard, IsHard
  <2> QED BY <1>2, <2>1, NewRecord
<1>4. tx'[r] = t /\ transactions' = [transactions EXCEPT ![call[r].event.id] = t]
  BY DEF SaveHard, SaveTransaction, TypeInv, TypeOK, RequestTypeOK
<1>5. t.attempts = <<>> /\ t.retryCount = 0 /\ t.status = "HARD_DECLINED" /\ t.event = call[r].event
  BY DEF NewTransaction
<1> HIDE DEF t
<1>6. StoredOK'
  BY <1>2, <1>3, <1>4, StoredSaved DEF ChainInv
<1>7. Frame(r) /\ pc'[r] = "done"
  BY DEF SaveHard, Answer, Goto, Frame, TypeInv, TypeOK, RequestTypeOK
<1>8. WorkOK(r)'
  BY <1>4, <1>5, <1>7 DEF SaveHard, WorkOK, InChain, Planning, Drafting, Recording, Reporting
<1> QED BY <1>6, <1>7, <1>8, StepChain

LEMMA SaveSoftChain == ASSUME TypeInv, ChainInv, NEW r \in Requests, SaveSoft(r) PROVE ChainInv'
<1> DEFINE t == NewTransaction(call[r].event, "RETRYING")
<1>1. call[r] \in Submissions
  BY DEF TypeInv, StageOK, SaveSoft, Answer, Goto
<1>2. call[r].event \in Events /\ call[r].event.id \in TxnIds
  BY <1>1, EventType
<1>3. RecordOK(t, call[r].event.id)
  <2>1. IsHard(call[r].event.code) = ("RETRYING" = "HARD_DECLINED")
    BY DEF SaveSoft, IsHard
  <2> QED BY <1>2, <2>1, NewRecord
<1>4. tx'[r] = t /\ transactions' = [transactions EXCEPT ![call[r].event.id] = t]
  BY DEF SaveSoft, SaveTransaction, TypeInv, TypeOK, RequestTypeOK
<1>5. t.attempts = <<>> /\ t.retryCount = 0 /\ t.status = "RETRYING" /\ t.event = call[r].event
  BY DEF NewTransaction
<1> HIDE DEF t
<1>6. StoredOK'
  BY <1>2, <1>3, <1>4, StoredSaved DEF ChainInv
<1>7. Frame(r) /\ pc'[r] = "plan"
  BY DEF SaveSoft, Answer, Goto, Frame, TypeInv, TypeOK, RequestTypeOK
<1>8. WorkOK(r)'
  BY <1>4, <1>5, <1>7 DEF SaveSoft, WorkOK, InChain, Planning, Drafting, Recording, Reporting
<1> QED BY <1>6, <1>7, <1>8, StepChain

LEMMA PlanAttemptChain ==
  ASSUME TypeInv, ChainInv, NEW r \in Requests, PlanAttempt(r) PROVE ChainInv'
<1>1. /\ attempt'[r].number = tx[r].retryCount + 1
      /\ pc[r] = "plan" /\ pc'[r] \in {"simulate", "scanHealth"}
      /\ tx'[r] = tx[r] /\ call'[r] = call[r] /\ UNCHANGED transactions
  BY DEF PlanAttempt, Goto, sharedVars, TypeInv, TypeOK, RequestTypeOK
<1>2. Frame(r)
  BY DEF PlanAttempt, Goto, Frame, TypeInv, TypeOK, RequestTypeOK
<1>3. StoredOK'
  BY <1>1, StoredKept DEF ChainInv
<1>4. WorkOK(r)
  BY DEF ChainInv
<1>5. WorkOK(r)'
  BY <1>1, <1>4 DEF WorkOK, InChain, Planning, Drafting, Recording, Reporting
<1> QED BY <1>2, <1>3, <1>5, StepChain

(* The chain is never given up: the fallback always finds a processor. *)
LEMMA SelectTargetChain ==
  ASSUME TypeInv, ChainInv, NEW r \in Requests, SelectTarget(r) PROVE ChainInv'
<1>1. /\ tx[r] \in Transactions /\ call[r] \in Submissions /\ tx[r].event = call[r].event
      /\ attempt[r] \in Attempts
  BY DEF TypeInv, StageOK, InChain, Attempting, SelectTarget
<1>2. Fallback(tx[r].event.processor) # {}
  BY <1>1, EventType, FallbackAssumption
<1>3. PICK p : Route(r, p)
  BY <1>2 DEF SelectTarget
<1>4. /\ attempt'[r].number = attempt[r].number
      /\ pc[r] = "scanHealth" /\ pc'[r] = "simulate"
      /\ tx'[r] = tx[r] /\ call'[r] = call[r] /\ UNCHANGED transactions
  BY <1>1, <1>3
  DEF Route, Goto, SelectTarget, sharedVars, Attempts, TypeInv, TypeOK, RequestTypeOK
<1>5. Frame(r)
  BY <1>3 DEF Route, SelectTarget, Goto, Frame, TypeInv, TypeOK, RequestTypeOK
<1>6. StoredOK'
  BY <1>4, StoredKept DEF ChainInv
<1>7. WorkOK(r)
  BY DEF ChainInv
<1>8. WorkOK(r)'
  BY <1>4, <1>7 DEF WorkOK, InChain, Planning, Drafting, Recording, Reporting
<1> QED BY <1>5, <1>6, <1>8, StepChain

LEMMA SimulateChain ==
  ASSUME TypeInv, ChainInv, NEW r \in Requests, Simulate(r) PROVE ChainInv'
<1>1. /\ tx[r] \in Transactions /\ attempt[r] \in Attempts
  BY DEF TypeInv, StageOK, InChain, Attempting, Simulate, Goto
<1>2. PICK success \in BOOLEAN :
        LET made == [attempt[r] EXCEPT !.success = success]
        IN  /\ attempt' = [attempt EXCEPT ![r] = made]
            /\ tx' = [tx EXCEPT ![r] = [tx[r] EXCEPT !.attempts = Append(tx[r].attempts, made),
                                                     !.retryCount = tx[r].retryCount + 1,
                                                     !.totalCost = tx[r].totalCost + made.cost]]
  BY DEF Simulate
<1> DEFINE made == [attempt[r] EXCEPT !.success = success]
           n == Len(tx[r].attempts)
<1>3. made.number = attempt[r].number
  BY <1>1 DEF Attempts
<1>4. attempt'[r] = made
  BY <1>2 DEF TypeInv, TypeOK, RequestTypeOK
<1> HIDE DEF made
<1>5. /\ tx'[r].attempts = Append(tx[r].attempts, made)
      /\ tx'[r].retryCount = tx[r].retryCount + 1
      /\ tx'[r].status = tx[r].status /\ tx'[r].event = tx[r].event
  BY <1>1, <1>2 DEF made, Transactions, TypeInv, TypeOK, RequestTypeOK
<1>6. /\ n \in Nat
      /\ Len(Append(tx[r].attempts, made)) = n + 1
      /\ Append(tx[r].attempts, made)[n + 1] = made
      /\ \A i \in 1..n : Append(tx[r].attempts, made)[i] = tx[r].attempts[i]
  BY <1>1, TransactionType
<1>7. /\ pc[r] = "simulate" /\ pc'[r] = "recordHealth"
      /\ call'[r] = call[r] /\ UNCHANGED transactions
  BY DEF Simulate, Goto, sharedVars, TypeInv, TypeOK, RequestTypeOK
<1>8. Frame(r)
  BY DEF Simulate, Goto, Frame, TypeInv, TypeOK, RequestTypeOK
<1>9. StoredOK'
  BY <1>7, StoredKept DEF ChainInv
<1>10. /\ tx[r].retryCount = n /\ \A i \in 1..n : tx[r].attempts[i].number = i
       /\ ~IsHard(tx[r].event.code) /\ tx[r].status = "RETRYING"
       /\ \A i \in 1..n : ~tx[r].attempts[i].success
       /\ attempt[r].number = n + 1
  BY <1>7 DEF ChainInv, WorkOK, InChain, Planning, Drafting
<1>11. WorkOK(r)'
  <2>1. \A i \in 1..n+1 : tx'[r].attempts[i].number = i
    BY <1>3, <1>5, <1>6, <1>10
  <2>2. \A i \in 1..n : ~tx'[r].attempts[i].success
    BY <1>5, <1>6, <1>10
  <2> HIDE DEF n
  <2> QED BY <1>4, <1>5, <1>6, <1>7, <1>10, <2>1, <2>2
          DEF WorkOK, InChain, Planning, Drafting, Recording, Reporting
<1> QED BY <1>8, <1>9, <1>11, StepChain

LEMMA LogDecisionChain ==
  ASSUME TypeInv, ChainInv, NEW r \in Requests, LogDecision(r) PROVE ChainInv'
<1> DEFINE again == ~attempt[r].success /\ RetriesLeft(r)
           n == Len(tx[r].attempts)
           status == IF attempt[r].success THEN "RECOVERED"
                     ELSE IF again THEN tx[r].status ELSE "EXHAUSTED"
<1>1. /\ tx[r] \in Transactions /\ tx[r].retryCount \in 0..MaxRetries /\ n \in Nat
  BY TransactionType DEF TypeInv, StageOK, InChain, LogDecision, Goto
<1>2. /\ tx'[r].status = status /\ tx'[r].attempts = tx[r].attempts
      /\ tx'[r].retryCount = tx[r].retryCount /\ tx'[r].event = tx[r].event
  BY <1>1 DEF LogDecision, Transactions, TypeInv, TypeOK, RequestTypeOK
<1>3. /\ pc[r] = "log" /\ pc'[r] = (IF again THEN "plan" ELSE "update")
      /\ call'[r] = call[r] /\ attempt'[r] = attempt[r] /\ UNCHANGED transactions
  BY DEF LogDecision, SaveDecisionLog, Goto, TypeInv, TypeOK, RequestTypeOK
<1>4. Frame(r)
  BY DEF LogDecision, Goto, Frame, TypeInv, TypeOK, RequestTypeOK
<1>5. StoredOK'
  BY <1>3, StoredKept DEF ChainInv
<1>6. /\ tx[r].retryCount = n /\ \A i \in 1..n : tx[r].attempts[i].number = i
      /\ ~IsHard(tx[r].event.code) /\ tx[r].status = "RETRYING"
      /\ n > 0 /\ tx[r].attempts[n] = attempt[r]
      /\ \A i \in 1..n-1 : ~tx[r].attempts[i].success
  BY <1>3 DEF ChainInv, WorkOK, InChain, Recording
<1>7. again \/ attempt[r].success \/ n = MaxRetries
  BY <1>1, <1>6, ConstantTypes DEF RetriesLeft
<1>8. WorkOK(r)'
  <2>1. CASE again
    <3>1. \A i \in 1..n : ~tx[r].attempts[i].success
      BY <1>1, <1>6, <2>1
    <3>2. pc'[r] = "plan" /\ tx'[r].status = "RETRYING"
      BY <1>2, <1>3, <1>6, <2>1
    <3> HIDE DEF again, n, status
    <3> QED BY <1>2, <1>6, <3>1, <3>2
            DEF WorkOK, InChain, Planning, Drafting, Recording, Reporting, n
  <2>2. CASE ~again
    <3>1. pc'[r] = "update" /\ tx'[r].status \in {"RECOVERED", "EXHAUSTED"}
      BY <1>2, <1>3, <2>2
    <3>2. tx'[r].status = "EXHAUSTED" => ~attempt[r].success
      BY <1>2, <2>2
    <3>3. \A i \in 1..n : tx[r].attempts[i].success => i = n
      BY <1>1, <1>6
    <3> HIDE DEF again, n, status
    <3>4. WholeChain(tx'[r])
      BY <1>2, <1>6, <1>7, <2>2, <3>1, <3>2, <3>3 DEF WholeChain, n
    <3> QED BY <1>2, <1>6, <3>1, <3>4
            DEF WorkOK, InChain, Planning, Drafting, Recording, Reporting, n
  <2> QED BY <2>1, <2>2
<1> QED BY <1>4, <1>5, <1>8, StepChain

(* Writing back a good record of a transaction that is still there. *)
LEMMA StoredUpdated ==
  ASSUME TypeInv, StoredOK, NEW id \in TxnIds, NEW t, RecordOK(t, id), UpdateTransaction(id, t)
  PROVE  StoredOK'
<1>1. CASE Exists(id)
  BY <1>1, StoredSaved DEF UpdateTransaction
<1>2. CASE ~Exists(id)
  BY <1>2, StoredKept DEF UpdateTransaction
<1> QED BY <1>1, <1>2

LEMMA FinishChainChain ==
  ASSUME TypeInv, ChainInv, NEW r \in Requests, FinishChain(r) PROVE ChainInv'
<1>1. call[r] \in Submissions /\ tx[r].event = call[r].event
  BY DEF TypeInv, StageOK, InChain, FinishChain, Answer, Goto
<1>2. tx[r].event.id \in TxnIds
  BY <1>1, EventType
<1>3. RecordOK(tx[r], tx[r].event.id)
  BY DEF ChainInv, WorkOK, RecordOK, InChain, FinishChain, Answer, Goto, IsHard
<1>4. StoredOK'
  BY <1>2, <1>3, StoredUpdated DEF FinishChain, ChainInv
<1>5. Frame(r) /\ pc'[r] = "done"
  BY DEF FinishChain, Answer, Goto, Frame, TypeInv, TypeOK, RequestTypeOK
<1>6. WorkOK(r)'
  BY <1>5 DEF WorkOK, InChain, Planning, Drafting, Recording, Reporting
<1> QED BY <1>4, <1>5, <1>6, StepChain

LEMMA FetchChain ==
  ASSUME TypeInv, ChainInv, NEW r \in Requests, Fetch(r) PROVE ChainInv'
<1>1. call[r].id \in TxnIds
  BY DEF TypeInv, StageOK, Fetch, Goto, Reports
<1>2. /\ tx'[r] = transactions[call[r].id] /\ call'[r] = call[r]
      /\ pc'[r] = "reportHealth" /\ UNCHANGED transactions /\ Frame(r)
  BY DEF Fetch, Goto, Frame, sharedVars, TypeInv, TypeOK, RequestTypeOK
<1>3. RecordOK(tx'[r], call'[r].id)
  BY <1>1, <1>2 DEF Fetch, ChainInv, StoredOK
<1>4. StoredOK'
  BY <1>2, StoredKept DEF ChainInv
<1>5. WorkOK(r)'
  BY <1>2, <1>3 DEF WorkOK, InChain, Planning, Drafting, Recording, Reporting
<1> QED BY <1>2, <1>4, <1>5, StepChain

LEMMA ReportAdaptiveChain ==
  ASSUME TypeInv, ChainInv, NEW r \in Requests, ReportAdaptive(r) PROVE ChainInv'
<1>1. tx[r] \in Transactions /\ RecordOK(tx[r], call[r].id)
  BY DEF TypeInv, StageOK, ChainInv, WorkOK, Reporting, ReportAdaptive, Goto
<1>2. /\ tx'[r].status = StatusAfterReport(r) /\ tx'[r].attempts = tx[r].attempts
      /\ tx'[r].retryCount = tx[r].retryCount /\ tx'[r].event = tx[r].event
  BY <1>1 DEF ReportAdaptive, Transactions, TypeInv, TypeOK, RequestTypeOK
<1>3. /\ call'[r] = call[r] /\ pc'[r] = "reportUpdate" /\ UNCHANGED transactions /\ Frame(r)
  BY DEF ReportAdaptive, storeVars, Goto, Frame, TypeInv, TypeOK, RequestTypeOK
<1>4. \/ tx'[r].status = tx[r].status
      \/ tx[r].status # "HARD_DECLINED" /\ tx'[r].status = "RECOVERED"
  BY <1>2 DEF StatusAfterReport
<1>5. WholeChain(tx'[r])
  BY <1>1, <1>2, <1>4 DEF RecordOK, WholeChain
<1>6. RecordOK(tx'[r], call'[r].id)
  BY <1>1, <1>2, <1>3, <1>4, <1>5 DEF RecordOK
<1>7. StoredOK'
  BY <1>3, StoredKept DEF ChainInv
<1>8. WorkOK(r)'
  BY <1>3, <1>6 DEF WorkOK, InChain, Planning, Drafting, Recording, Reporting
<1> QED BY <1>3, <1>7, <1>8, StepChain

LEMMA ReportUpdateChain ==
  ASSUME TypeInv, ChainInv, NEW r \in Requests, ReportUpdate(r) PROVE ChainInv'
<1>1. call[r].id \in TxnIds
  BY DEF TypeInv, StageOK, Reporting, ReportUpdate, Answer, Goto, Reports
<1>2. RecordOK(tx[r], call[r].id)
  BY DEF ChainInv, WorkOK, Reporting, ReportUpdate, Answer, Goto
<1>3. StoredOK'
  BY <1>1, <1>2, StoredUpdated DEF ReportUpdate, ChainInv
<1>4. Frame(r) /\ pc'[r] = "done"
  BY DEF ReportUpdate, Answer, Goto, Frame, TypeInv, TypeOK, RequestTypeOK
<1>5. WorkOK(r)'
  BY <1>4 DEF WorkOK, InChain, Planning, Drafting, Recording, Reporting
<1> QED BY <1>3, <1>4, <1>5, StepChain

LEMMA ResetStoreChain ==
  ASSUME TypeInv, ChainInv, NEW r \in Requests, ResetStore(r) PROVE ChainInv'
<1>1. StoredOK'
  BY DEF ResetStore, StoreReset, StoredOK, Exists
<1>2. Frame(r) /\ pc'[r] = "resetHealth"
  BY DEF ResetStore, Goto, Frame, TypeInv, TypeOK, RequestTypeOK
<1>3. WorkOK(r)'
  BY <1>2 DEF WorkOK, InChain, Planning, Drafting, Recording, Reporting
<1> QED BY <1>1, <1>2, <1>3, StepChain

LEMMA ServeChain ==
  ASSUME TypeInv, ChainInv, NEW r \in Requests, Serve(r) PROVE ChainInv'
<1>1. CASE ProcessFailureStep(r)
  BY <1>1, QuietStepsChain, SaveHardChain, SaveSoftChain, PlanAttemptChain, SelectTargetChain,
     SimulateChain, LogDecisionChain, FinishChainChain
  DEF ProcessFailureStep
<1>2. CASE RecordRetryOutcomeStep(r)
  BY <1>2, QuietStepsChain, FetchChain, ReportAdaptiveChain, ReportUpdateChain
  DEF RecordRetryOutcomeStep
<1>3. CASE ResetStep(r)
  BY <1>3, QuietStepsChain, ResetStoreChain DEF ResetStep
<1> QED BY <1>1, <1>2, <1>3 DEF Serve

LEMMA InitChain == Init => ChainInv
BY DEF Init, StoreInit, ChainInv, StoredOK, Exists, WorkOK, InChain, Planning, Drafting,
       Recording, Reporting

LEMMA NextChain == TypeInv /\ ChainInv /\ [Next]_vars => ChainInv'
<1> SUFFICES ASSUME TypeInv, ChainInv, [Next]_vars PROVE ChainInv'
  OBVIOUS
<1>1. ASSUME UNCHANGED <<transactions, localVars>> PROVE ChainInv'
  <2>1. StoredOK'
    BY <1>1, StoredKept DEF ChainInv
  <2>2. ASSUME NEW r \in Requests PROVE WorkOK(r)'
    BY <1>1 DEF localVars, ChainInv, WorkOK
  <2> QED BY <2>1, <2>2 DEF ChainInv
<1>2. CASE UNCHANGED vars
  BY <1>1, <1>2 DEF vars, sharedVars
<1>3. CASE Next
  <2>1. ASSUME NEW r \in Requests, ArriveAny(r) PROVE ChainInv'
    BY <2>1, ArriveChain
  <2>2. ASSUME NEW r \in Requests, Serve(r) PROVE ChainInv'
    BY <2>2, ServeChain
  <2>3. ClockTick => UNCHANGED <<transactions, localVars>>
    BY DEF ClockTick, storeVars
  <2>4. Quiet => UNCHANGED <<transactions, localVars>>
    BY DEF Quiet, vars, sharedVars
  <2> QED BY <1>1, <1>3, <2>1, <2>2, <2>3, <2>4 DEF Next
<1> QED BY <1>2, <1>3

(* Every stored record, and every record a request is working on, is good. *)
THEOREM ChainInvariant == Spec => []ChainInv
<1>1. TypeInv /\ ChainInv /\ [Next]_vars => ChainInv'
  BY NextChain
<1> QED BY InitChain, <1>1, TypeInvariant, PTL DEF Spec

(* No reader ever sees half a chain, an attempt after a success, a chain cut
   short, or EXHAUSTED before every retry failed (executeRetryChain), whatever
   submissions, reports and resets race. *)
THEOREM WholeChains == Spec => []ChainsAreWhole
<1>1. ChainInv => ChainsAreWhole
  BY DEF ChainInv, StoredOK, RecordOK, ChainsAreWhole
<1> QED BY <1>1, ChainInvariant, PTL

(* A hard decline is final and nothing else is shown as one (ProcessFailure,
   RecordRetryOutcome). *)
THEOREM HardDeclinesFinal == Spec => []HardNeverRetried
<1>1. ChainInv => HardNeverRetried
  BY DEF ChainInv, StoredOK, RecordOK, HardNeverRetried
<1> QED BY <1>1, ChainInvariant, PTL

-----------------------------------------------------------------------------
(* The order list *)

(* What a step may do to the store's map and its order list. *)
StoreWrite ==
  \/ UNCHANGED <<transactions, txOrder>>
  \/ \E id \in TxnIds, t \in Transactions : ~Exists(id) /\ SaveTransaction(id, t)
  \/ \E id \in TxnIds, t \in Transactions : UpdateTransaction(id, t)
  \/ StoreReset

LEMMA OrderKept ==
  ASSUME StoreTypeOK, OrderListsStore, StoreWrite
  PROVE  OrderListsStore'
<1>1. CASE UNCHANGED <<transactions, txOrder>>
  BY <1>1 DEF OrderListsStore, Exists
<1>2. ASSUME NEW id \in TxnIds, NEW t \in Transactions, ~Exists(id), SaveTransaction(id, t)
      PROVE  OrderListsStore'
  <2>1. t # Nil
    BY NilAssumption
  <2>2. ASSUME NEW other \in TxnIds PROVE Exists(other)' <=> other = id \/ Exists(other)
    BY <1>2, <2>1 DEF SaveTransaction, Exists, StoreTypeOK
  <2> DEFINE n == Len(txOrder)
  <2>3. /\ n \in Nat /\ txOrder' = Append(txOrder, id)
        /\ DOMAIN txOrder = 1..n /\ DOMAIN txOrder' = 1..n+1
        /\ txOrder'[n + 1] = id
        /\ \A i \in 1..n : txOrder'[i] = txOrder[i] /\ txOrder[i] \in TxnIds
    BY <1>2 DEF SaveTransaction, StoreTypeOK
  <2>4. \A i \in 1..n : txOrder[i] # id
    BY <1>2, <2>3 DEF OrderListsStore
  <2> HIDE DEF n
  <2>5. ASSUME NEW other \in TxnIds
        PROVE  Exists(other)' <=> \E i \in DOMAIN txOrder' : txOrder'[i] = other
    <3>1. Exists(other) <=> \E i \in 1..n : txOrder[i] = other
      BY <2>3 DEF OrderListsStore
    <3>2. (\E i \in 1..n+1 : txOrder'[i] = other)
            <=> other = id \/ \E i \in 1..n : txOrder[i] = other
      BY <2>3
    <3> QED BY <2>2, <2>3, <3>1, <3>2
  <2>6. ASSUME NEW i \in DOMAIN txOrder', NEW j \in DOMAIN txOrder', txOrder'[i] = txOrder'[j]
        PROVE  i = j
    <3>1. CASE i \in 1..n /\ j \in 1..n
      BY <2>3, <2>6, <3>1 DEF OrderListsStore
    <3>2. CASE i = n + 1 \/ j = n + 1
      BY <2>3, <2>4, <2>6, <3>2
    <3> QED BY <2>3, <3>1, <3>2
  <2> QED BY <2>5, <2>6 DEF OrderListsStore
<1>3. ASSUME NEW id \in TxnIds, NEW t \in Transactions, UpdateTransaction(id, t)
      PROVE  OrderListsStore'
  <2>1. t # Nil
    BY NilAssumption
  <2>2. ASSUME NEW other \in TxnIds PROVE Exists(other)' <=> Exists(other)
    BY <1>3, <2>1 DEF UpdateTransaction, Exists, StoreTypeOK
  <2> QED BY <1>3, <2>2 DEF UpdateTransaction, OrderListsStore
<1>4. CASE StoreReset
  <2>1. DOMAIN txOrder' = {}
    BY <1>4 DEF StoreReset
  <2> QED BY <1>4, <2>1 DEF StoreReset, OrderListsStore, Exists
<1> QED BY <1>1, <1>2, <1>3, <1>4 DEF StoreWrite

LEMMA ServeWrites == ASSUME TypeInv, NEW r \in Requests, Serve(r) PROVE StoreWrite
<1>1. CASE ProcessFailureStep(r)
  <2>1. CASE SaveHard(r)
    <3>1. call[r].event.id \in TxnIds /\ tx'[r] \in Transactions
      <4>1. call[r] \in Submissions
        BY <2>1 DEF SaveHard, Answer, Goto, TypeInv, StageOK
      <4>2. NewTransaction(call[r].event, "HARD_DECLINED") \in Transactions
        BY <4>1, EventType, NewTransactionType DEF Statuses
      <4> QED BY <2>1, <4>1, <4>2, EventType DEF SaveHard, TypeInv, TypeOK, RequestTypeOK
    <3> QED BY <2>1, <3>1 DEF SaveHard, StoreWrite
  <2>2. CASE SaveSoft(r)
    <3>1. call[r].event.id \in TxnIds /\ tx'[r] \in Transactions
      <4>1. call[r] \in Submissions
        BY <2>2 DEF SaveSoft, Goto, TypeInv, StageOK
      <4>2. NewTransaction(call[r].event, "RETRYING") \in Transactions
        BY <4>1, EventType, NewTransactionType DEF Statuses
      <4> QED BY <2>2, <4>1, <4>2, EventType DEF SaveSoft, TypeInv, TypeOK, RequestTypeOK
    <3> QED BY <2>2, <3>1 DEF SaveSoft, StoreWrite
  <2>3. CASE FinishChain(r)
    <3>1. tx[r] \in Transactions
      BY <2>3 DEF FinishChain, Answer, Goto, TypeInv, StageOK, InChain
    <3> QED BY <2>3, <3>1, TransactionType DEF FinishChain, StoreWrite
  <2>4. CASE \/ RecordFailure(r) \/ RejectDuplicate(r) \/ PlanAttempt(r) \/ ScanHealth(r)
             \/ ScanAdaptive(r) \/ Simulate(r) \/ RecordHealth(r) \/ LearnOutcome(r)
    BY <2>4 DEF RecordFailure, RejectDuplicate, PlanAttempt, ScanHealth, ScanAdaptive, Simulate,
                RecordHealth, LearnOutcome, sharedVars, storeVars, StoreWrite
  <2>5. CASE SelectTarget(r) \/ LogDecision(r)
    BY <2>5 DEF SelectTarget, LogDecision, SaveDecisionLog, sharedVars, StoreWrite
  <2> QED BY <1>1, <2>1, <2>2, <2>3, <2>4, <2>5 DEF ProcessFailureStep
<1>2. CASE RecordRetryOutcomeStep(r)
  <2>1. CASE ReportUpdate(r)
    <3>1. call[r].id \in TxnIds /\ tx[r] \in Transactions
      BY <2>1 DEF ReportUpdate, Answer, Goto, TypeInv, StageOK, Reporting, Reports
    <3> QED BY <2>1, <3>1 DEF ReportUpdate, StoreWrite
  <2>2. CASE FetchUnknown(r) \/ Fetch(r) \/ ReportHealth(r) \/ ReportAdaptive(r)
    BY <2>2
    DEF FetchUnknown, Fetch, ReportHealth, ReportAdaptive, sharedVars, storeVars, StoreWrite
  <2> QED BY <1>2, <2>1, <2>2 DEF RecordRetryOutcomeStep
<1>3. CASE ResetStep(r)
  BY <1>3 DEF ResetStep, ResetStore, ResetHealth, storeVars, StoreWrite
<1> QED BY <1>1, <1>2, <1>3 DEF Serve

LEMMA StepWrites == TypeInv /\ [Next]_vars => StoreWrite
<1> SUFFICES ASSUME TypeInv, [Next]_vars PROVE StoreWrite
  OBVIOUS
<1>1. ASSUME NEW r \in Requests, ArriveAny(r) PROVE StoreWrite
  BY <1>1 DEF ArriveAny, Submit, Report, Reset, Arrive, sharedVars, StoreWrite
<1>2. CASE UNCHANGED vars \/ ClockTick \/ Quiet
  BY <1>2 DEF ClockTick, Quiet, vars, sharedVars, storeVars, StoreWrite
<1> QED BY <1>1, <1>2, ServeWrites DEF Next

(* The list ListTransactions cuts its pages from names every stored
   transaction exactly once (SaveTransaction, UpdateTransaction, Reset). *)
THEOREM OrderComplete == Spec => []OrderListsStore
<1>1. Init => OrderListsStore
  BY DEF Init, StoreInit, OrderListsStore, Exists
<1>2. TypeInv /\ OrderListsStore /\ [Next]_vars => OrderListsStore'
  BY OrderKept, StepWrites DEF TypeInv, TypeOK
<1> QED BY <1>1, <1>2, TypeInvariant, PTL DEF Spec

-----------------------------------------------------------------------------
(* How far a request can have got *)

Unstarted == {"idle", "recordFailure", "save", "fetch", "resetStore", "resetHealth"}

(* A request only does what clients ask for; it is answered at its end; it
   holds no transaction before it has saved or fetched one, and a chain that
   has ended made an attempt. *)
PathOK(r) ==
  /\ pc[r] \in {"fetch"} \cup Reporting => "report" \in Operations
  /\ pc[r] \in {"resetStore", "resetHealth"} => "reset" \in Operations
  /\ pc[r] = "idle" => call[r] = Nil
  /\ pc[r] # "done" => reply[r] = "none"
  /\ pc[r] \in Unstarted => tx[r] = Nil
  /\ pc[r] = "update" => tx[r].retryCount # 0
  /\ pc[r] \in {"reportHealth", "reportAdaptive"} =>
       attempt[r].processor = call[r].processor /\ attempt[r].success = call[r].success
  /\ pc[r] = "done" /\ tx[r] # Nil => (Submitted(r) <=> reply[r] = "created")
  /\ reply[r] = "created" => /\ call[r] \in Submissions /\ tx[r] \in Transactions
                             /\ tx[r].event = call[r].event

PathInv == \A r \in Requests : PathOK(r)

LEMMA CallKinds ==
  ASSUME NEW c
  PROVE  /\ c \in Submissions => c.op = "submit" /\ c # Nil
         /\ c \in Reports => c.op = "report" /\ c # Nil
         /\ c \in Resets => c.op = "reset" /\ c # Nil
BY ArgumentsAssumption DEF Submissions, Reports, Resets

(* Every step of a request leaves the local variables of the others alone. *)
LEMMA ServeFrame ==
  ASSUME TypeInv, NEW r \in Requests, ArriveAny(r) \/ Serve(r)
  PROVE  Frame(r)
<1> USE DEF Frame, Goto, Answer, TypeInv, TypeOK, RequestTypeOK
<1>1. CASE ArriveAny(r)
  BY <1>1 DEF ArriveAny, Submit, Report, Reset, Arrive
<1>2. CASE ProcessFailureStep(r)
  <2>1. CASE RecordFailure(r) \/ RejectDuplicate(r) \/ SaveHard(r) \/ SaveSoft(r)
    BY <2>1 DEF RecordFailure, RejectDuplicate, SaveHard, SaveSoft
  <2>2. CASE PlanAttempt(r)
    BY <2>2 DEF PlanAttempt
  <2>3. CASE ScanHealth(r) \/ ScanAdaptive(r)
    BY <2>3 DEF ScanHealth, ScanAdaptive
  <2>4. CASE SelectTarget(r)
    BY <2>4 DEF SelectTarget, Route, GiveUp
  <2>5. CASE Simulate(r) \/ LogDecision(r)
    BY <2>5 DEF Simulate, LogDecision
  <2>6. CASE RecordHealth(r) \/ LearnOutcome(r) \/ FinishChain(r)
    BY <2>6 DEF RecordHealth, LearnOutcome, FinishChain
  <2> QED BY <1>2, <2>1, <2>2, <2>3, <2>4, <2>5, <2>6 DEF ProcessFailureStep
<1>3. CASE RecordRetryOutcomeStep(r)
  BY <1>3 DEF RecordRetryOutcomeStep, FetchUnknown, Fetch, ReportHealth, ReportAdaptive, ReportUpdate
<1>4. CASE ResetStep(r)
  BY <1>4 DEF ResetStep, ResetStore, ResetHealth
<1> QED BY <1>1, <1>2, <1>3, <1>4 DEF Serve

(* There always is a target to select. *)
LEMMA SelectTargetRoutes ==
  ASSUME TypeInv, NEW r \in Requests, SelectTarget(r)
  PROVE  pc[r] = "scanHealth" /\ pc'[r] = "simulate" /\ UNCHANGED tx
<1>1. tx[r] \in Transactions
  BY DEF TypeInv, StageOK, SelectTarget, InChain
<1>2. Fallback(tx[r].event.processor) # {}
  BY <1>1, TransactionType, FallbackAssumption
<1>3. PICK p : Route(r, p)
  BY <1>2 DEF SelectTarget
<1> QED BY <1>3 DEF Route, Goto, TypeInv, TypeOK, RequestTypeOK

LEMMA StepPath ==
  ASSUME PathInv, NEW r \in Requests, Frame(r), PathOK(r)' PROVE PathInv'
<1>1. ASSUME NEW q \in Requests \ {r} PROVE PathOK(q)'
  <2>1. /\ pc'[q] = pc[q] /\ call'[q] = call[q] /\ tx'[q] = tx[q]
        /\ attempt'[q] = attempt[q] /\ reply'[q] = reply[q] /\ PathOK(q)
    BY <1>1 DEF Frame, PathInv
  <2> QED BY <2>1 DEF PathOK, Submitted
<1> QED BY <1>1 DEF PathInv

LEMMA ArrivePath ==
  ASSUME TypeInv, PathInv, NEW r \in Requests, ArriveAny(r) PROVE PathInv'
<1>1. Frame(r)
  BY ServeFrame
<1>2. PICK arguments, to : Arrive(r, arguments, to) /\ to \in {"recordFailure", "fetch", "resetStore"}
        /\ (to = "fetch" => arguments.op = "report") /\ (to = "resetStore" => arguments.op = "reset")
  <2>1. CASE Submit(r)
    BY <2>1 DEF Submit
  <2>2. CASE Report(r)
    <3>1. PICK arguments : Arrive(r, arguments, "fetch") /\ arguments.op = "report"
      BY <2>2 DEF Report
    <3> QED BY <3>1
  <2>3. CASE Reset(r)
    BY <2>3 DEF Reset
  <2> QED BY <2>1, <2>2, <2>3 DEF ArriveAny
<1>3. /\ arguments.op \in Operations /\ pc[r] = "idle" /\ pc'[r] = to
      /\ tx'[r] = tx[r] /\ reply'[r] = reply[r]
  BY <1>2 DEF Arrive, Goto, TypeInv, TypeOK, RequestTypeOK
<1>4. PathOK(r)
  BY DEF PathInv
<1>5. PathOK(r)'
  BY <1>2, <1>3, <1>4 DEF PathOK, Unstarted, Reporting
<1> QED BY <1>1, <1>5, StepPath

LEMMA SubmitPath ==
  ASSUME TypeInv, ChainInv, PathInv, NEW r \in Requests, ProcessFailureStep(r) PROVE PathInv'
<1>1. Frame(r)
  BY ServeFrame DEF Serve
<1>2. PathOK(r) /\ WorkOK(r) /\ StageOK(r)
  BY DEF PathInv, ChainInv, TypeInv
<1> USE DEF Goto, Answer, TypeInv, TypeOK, RequestTypeOK
<1>3. CASE RecordFailure(r)
  BY <1>1, <1>2, <1>3, StepPath DEF RecordFailure, PathOK, Unstarted, Reporting
<1>4. CASE RejectDuplicate(r)
  BY <1>1, <1>2, <1>4, StepPath DEF RejectDuplicate, PathOK, Unstarted, Reporting
<1>5. CASE SaveHard(r)
  <2>1. call[r] \in Submissions
    BY <1>2, <1>5 DEF SaveHard, StageOK
  <2>2. NewTransaction(call[r].event, "HARD_DECLINED") \in Transactions
    BY <2>1, EventType, NewTransactionType DEF Statuses
  <2>3. /\ tx'[r] = NewTransaction(call[r].event, "HARD_DECLINED") /\ call'[r] = call[r]
        /\ pc'[r] = "done" /\ reply'[r] = "created"
    BY <1>5 DEF SaveHard
  <2>4. NewTransaction(call[r].event, "HARD_DECLINED").event = call[r].event
    BY DEF NewTransaction
  <2>5. PathOK(r)'
    BY <2>1, <2>2, <2>3, <2>4, CallKinds DEF PathOK, Unstarted, Reporting, Submitted
  <2> QED BY <1>1, <2>5, StepPath
<1>6. CASE SaveSoft(r)
  BY <1>1, <1>2, <1>6, StepPath DEF SaveSoft, PathOK, Unstarted, Reporting
<1>7. CASE PlanAttempt(r) \/ ScanHealth(r) \/ ScanAdaptive(r)
  <2>1. pc'[r] \in Drafting /\ reply'[r] = reply[r] /\ pc[r] # "done"
    BY <1>7 DEF PlanAttempt, ScanHealth, ScanAdaptive, Drafting
  <2> QED BY <1>1, <1>2, <2>1, StepPath DEF PathOK, Unstarted, Reporting, Drafting
<1>8. CASE SelectTarget(r)
  <2>1. pc'[r] = "simulate" /\ reply'[r] = reply[r] /\ pc[r] = "scanHealth"
    BY <1>8, SelectTargetRoutes DEF SelectTarget
  <2> QED BY <1>1, <1>2, <2>1, StepPath DEF PathOK, Unstarted, Reporting
<1>9. CASE Simulate(r) \/ RecordHealth(r) \/ LearnOutcome(r)
  <2>1. pc'[r] \in Recording /\ reply'[r] = reply[r] /\ pc[r] # "done"
    BY <1>9 DEF Simulate, RecordHealth, LearnOutcome, Recording
  <2> QED BY <1>1, <1>2, <2>1, StepPath DEF PathOK, Unstarted, Reporting, Recording
<1>10. CASE LogDecision(r)
  <2>1. tx[r] \in Transactions
    BY <1>2, <1>10 DEF StageOK, LogDecision, InChain
  <2>2. pc'[r] \in {"plan", "update"} /\ reply'[r] = reply[r] /\ pc[r] = "log"
        /\ tx'[r].retryCount = tx[r].retryCount
    BY <1>10, <2>1 DEF LogDecision, Transactions
  <2>3. tx[r].retryCount # 0
    BY <1>2, <2>2 DEF WorkOK, InChain, Recording
  <2> QED BY <1>1, <1>2, <2>2, <2>3, StepPath DEF PathOK, Unstarted, Reporting
<1>11. CASE FinishChain(r)
  <2>1. tx[r] \in Transactions /\ call[r] \in Submissions /\ tx[r].event = call[r].event
    BY <1>2, <1>11 DEF StageOK, FinishChain, InChain
  <2>2. pc'[r] = "done" /\ reply'[r] = "created" /\ tx'[r] = tx[r] /\ call'[r] = call[r]
    BY <1>11 DEF FinishChain
  <2>3. PathOK(r)'
    BY <2>1, <2>2, CallKinds DEF PathOK, Unstarted, Reporting, Submitted
  <2> QED BY <1>1, <2>3, StepPath
<1> QED BY <1>3, <1>4, <1>5, <1>6, <1>7, <1>8, <1>9, <1>10, <1>11 DEF ProcessFailureStep

LEMMA ReportPath ==
  ASSUME TypeInv, PathInv, NEW r \in Requests, RecordRetryOutcomeStep(r) \/ ResetStep(r)
  PROVE  PathInv'
<1>1. Frame(r)
  BY ServeFrame DEF Serve
<1>2. PathOK(r) /\ StageOK(r)
  BY DEF PathInv, TypeInv
<1> USE DEF Goto, Answer, TypeInv, TypeOK, RequestTypeOK
<1>3. CASE FetchUnknown(r) \/ ResetStore(r) \/ ResetHealth(r)
  BY <1>1, <1>2, <1>3, StepPath
  DEF FetchUnknown, ResetStore, ResetHealth, PathOK, Unstarted, Reporting
<1>4. CASE Fetch(r)
  BY <1>1, <1>2, <1>4, StepPath DEF Fetch, PathOK, Unstarted, Reporting
<1>5. CASE ReportHealth(r) \/ ReportAdaptive(r)
  BY <1>1, <1>2, <1>5, StepPath DEF ReportHealth, ReportAdaptive, PathOK, Unstarted, Reporting
<1>6. CASE ReportUpdate(r)
  <2>1. call[r] \in Reports
    BY <1>2, <1>6 DEF StageOK, ReportUpdate, Reporting
  <2>2. pc'[r] = "done" /\ reply'[r] # "created" /\ call'[r] = call[r]
    BY <1>6 DEF ReportUpdate
  <2>3. PathOK(r)'
    BY <2>1, <2>2, CallKinds DEF PathOK, Unstarted, Reporting, Submitted
  <2> QED BY <1>1, <2>3, StepPath
<1> QED BY <1>3, <1>4, <1>5, <1>6 DEF RecordRetryOutcomeStep, ResetStep

LEMMA InitPath == Init => PathInv
BY DEF Init, PathInv, PathOK, Unstarted, Reporting

LEMMA NextPath == TypeInv /\ ChainInv /\ PathInv /\ [Next]_vars => PathInv'
<1> SUFFICES ASSUME TypeInv, ChainInv, PathInv, [Next]_vars PROVE PathInv'
  OBVIOUS
<1>1. CASE UNCHANGED localVars
  BY <1>1 DEF PathInv, PathOK, Submitted, localVars
<1>2. ASSUME NEW r \in Requests, ArriveAny(r) \/ Serve(r) PROVE PathInv'
  BY <1>2, ArrivePath, SubmitPath, ReportPath DEF Serve
<1> QED BY <1>1, <1>2 DEF Next, ClockTick, Quiet, vars

(* PathInv is inductive relative to the types and the chains. *)
THEOREM PathInvariant == Spec => []PathInv
BY TypeInvariant, ChainInvariant, InitPath, NextPath, PTL DEF Spec
-----------------------------------------------------------------------------
(* Every request comes to its end.  How many steps it still takes: the chain makes at most maxRetries
   attempts, and each of them takes at most Room steps: two per processor
   visited and those of the loop around the visits. *)

Room == 2 * Len(ProcessorOrder) + 10

AttemptsLeft(r) ==
  CASE pc[r] \in {"recordFailure", "save"}    -> MaxRetries
    [] pc[r] = "plan" \/ pc[r] \in Recording  -> MaxRetries - tx[r].retryCount
    [] pc[r] \in Drafting                     -> MaxRetries - tx[r].retryCount - 1
    [] OTHER                                  -> 0

Within(r) ==
  CASE pc[r] = "recordFailure"  -> 3
    [] pc[r] = "save"           -> 2
    [] pc[r] = "plan"           -> 1
    [] pc[r] = "scanHealth"     -> 6 + 2 * Cardinality(scan[r])
    [] pc[r] = "scanAdaptive"   -> 5 + 2 * Cardinality(scan[r])
    [] pc[r] = "simulate"       -> 5
    [] pc[r] = "recordHealth"   -> 4
    [] pc[r] = "recordAdaptive" -> 3
    [] pc[r] = "log"            -> 2
    [] pc[r] = "update"         -> 1
    [] pc[r] = "fetch"          -> 4
    [] pc[r] = "reportHealth"   -> 3
    [] pc[r] = "reportAdaptive" -> 2
    [] pc[r] = "reportUpdate"   -> 1
    [] pc[r] = "resetStore"     -> 2
    [] pc[r] = "resetHealth"    -> 1
    [] OTHER                    -> 0

StepsLeft(r) == Room * AttemptsLeft(r) + Within(r)

MostSteps == Room * MaxRetries + 4

AnsweredAtZero(r) == StepsLeft(r) = 0 <=> pc[r] \in {"idle", "done"}

LEMMA RoomType == Room \in Nat \ {0} /\ Room >= 10 /\ Len(ProcessorOrder) \in Nat
<1>1. ProcessorOrder \in Seq(Processors)
  BY ConstantTypes
<1>2. Len(ProcessorOrder) \in Nat
  BY <1>1
<1> QED BY <1>2 DEF Room

LEMMA ScanSize ==
  ASSUME TypeInv, NEW r \in Requests
  PROVE  /\ IsFiniteSet(scan[r]) /\ scan[r] \subseteq Int
         /\ Cardinality(scan[r]) \in 0..Len(ProcessorOrder)
<1>1. DOMAIN ProcessorOrder = 1..Len(ProcessorOrder)
  <2>1. ProcessorOrder \in Seq(Processors)
    BY ConstantTypes
  <2> QED BY <2>1
<1>2. scan[r] \subseteq 1..Len(ProcessorOrder)
  BY <1>1 DEF TypeInv, TypeOK, RequestTypeOK
<1>3. IsFiniteSet(1..Len(ProcessorOrder)) /\ Cardinality(1..Len(ProcessorOrder)) = Len(ProcessorOrder)
  <2>1. PICK n \in Nat : n = Len(ProcessorOrder)
    BY RoomType
  <2>2. IsFiniteSet(1..n) /\ Cardinality(1..n) = IF 1 > n THEN 0 ELSE n - 1 + 1
    BY FS_Interval
  <2>3. Cardinality(1..n) = n
    BY <2>2
  <2> QED BY <2>1, <2>2, <2>3
<1>4. IsFiniteSet(scan[r]) /\ Cardinality(scan[r]) <= Len(ProcessorOrder)
  BY <1>2, <1>3, FS_Subset
<1>5. Cardinality(scan[r]) \in Nat
  BY <1>4, FS_CardinalityType
<1> QED BY <1>2, <1>4, <1>5, RoomType

(* A product grows with its second factor. *)
LEMMA ProductGrows ==
  ASSUME NEW n \in Nat, NEW a \in Nat, NEW b \in Nat, a <= b
  PROVE  /\ n * a \in Nat /\ n * b \in Nat /\ n * a <= n * b
         /\ a < b => n * a + n <= n * b
<1>1. PICK d \in Nat : b = a + d
  <2>1. b - a \in Nat /\ b = a + (b - a)
    OBVIOUS
  <2> QED BY <2>1
<1>2. n * b = n * a + n * d /\ n * a \in Nat /\ n * d \in Nat
  BY <1>1
<1>3. ASSUME a < b PROVE n * a + n <= n * b
  <2>1. PICK e \in Nat : d = e + 1
    <3>1. d - 1 \in Nat /\ d = (d - 1) + 1
      BY <1>1, <1>3
    <3> QED BY <3>1
  <2>2. n * d = n * e + n /\ n * e \in Nat
    BY <2>1
  <2> QED BY <1>2, <2>2
<1> QED BY <1>2, <1>3

(* What is left of the chain, and of the present attempt. *)
LeftOK(r) == /\ AttemptsLeft(r) \in 0..MaxRetries /\ Within(r) \in 0..Room-1
             /\ AttemptsLeft(r) = MaxRetries => Within(r) <= 4
             /\ pc[r] \in {"idle", "done"} <=> Within(r) = 0
             /\ pc[r] \in {"idle", "done"} => AttemptsLeft(r) = 0

LEMMA LeftTypes == ASSUME TypeInv, NEW r \in Requests PROVE LeftOK(r)
<1>1. Cardinality(scan[r]) \in 0..Len(ProcessorOrder) /\ Len(ProcessorOrder) \in Nat
  BY ScanSize, RoomType
<1>2. PICK size \in Nat, most \in Nat :
        size = Cardinality(scan[r]) /\ most = Len(ProcessorOrder) /\ size <= most
  BY <1>1
<1>3. Room = 2 * most + 10
  BY <1>2 DEF Room
<1>4. MaxRetries \in Nat \ {0} /\ pc[r] \in Stages
  BY ConstantTypes DEF TypeInv, TypeOK, RequestTypeOK
<1>5. pc[r] \in InChain => tx[r].retryCount \in 0..MaxRetries
  BY DEF TypeInv, StageOK, Transactions
<1>6. pc[r] \in Planning => tx[r].retryCount < MaxRetries
  BY DEF TypeInv, StageOK
<1>7. AttemptsLeft(r) \in 0..MaxRetries
  BY <1>4, <1>5, <1>6 DEF AttemptsLeft, Recording, Drafting, InChain, Planning
<1>8. pc[r] \in Drafting => AttemptsLeft(r) < MaxRetries
  BY <1>4, <1>5, <1>6 DEF AttemptsLeft, Recording, Drafting, InChain, Planning
<1>9. Within(r) \in 0..2*most+9
  <2>1. CASE pc[r] \in {"scanHealth", "scanAdaptive"}
    BY <1>2, <2>1 DEF Within
  <2>2. CASE pc[r] \notin {"scanHealth", "scanAdaptive"}
    <3>1. Within(r) \in 0..5
      BY <1>4, <2>2 DEF Within
    <3> QED BY <3>1
  <2> QED BY <2>1, <2>2
<1>10. pc[r] \notin Drafting => Within(r) <= 4
  BY <1>4 DEF Within, Drafting
<1>11. pc[r] \in {"idle", "done"} <=> Within(r) = 0
  BY <1>2, <1>4 DEF Within, Stages
<1>12. pc[r] \in {"idle", "done"} => AttemptsLeft(r) = 0
  BY DEF AttemptsLeft, Recording, Drafting
<1>13. Within(r) \in 0..Room-1
  BY <1>3, <1>9
<1> QED BY <1>4, <1>7, <1>8, <1>10, <1>11, <1>12, <1>13 DEF LeftOK

LEMMA StepsBounded ==
  ASSUME NEW r \in Requests, LeftOK(r) PROVE StepsLeft(r) \in 0..MostSteps /\ AnsweredAtZero(r)
<1>1. PICK n, m, a, w : n = Room /\ m = MaxRetries /\ a = AttemptsLeft(r) /\ w = Within(r)
  OBVIOUS
<1>2. n \in Nat /\ n >= 10 /\ m \in Nat
  BY <1>1, RoomType, ConstantTypes
<1>3. /\ a \in 0..m /\ w \in 0..n-1 /\ (a = m => w <= 4)
      /\ pc[r] \in {"idle", "done"} <=> w = 0
      /\ w = 0 => a = 0
  BY <1>1 DEF LeftOK
<1>4. StepsLeft(r) = n * a + w /\ MostSteps = n * m + 4
  BY <1>1 DEF StepsLeft, MostSteps
<1>5. n * a \in Nat /\ n * m \in Nat /\ n * a <= n * m /\ (a < m => n * a + n <= n * m)
  BY <1>2, <1>3, ProductGrows
<1>6. n * a + w \in 0..n * m + 4
  BY <1>2, <1>3, <1>5
<1>7. n * a + w = 0 <=> w = 0
  <2>1. a = 0 => n * a = 0
    BY <1>2
  <2> QED BY <1>2, <1>3, <1>5, <2>1
<1> QED BY <1>3, <1>4, <1>6, <1>7 DEF AnsweredAtZero

(* A step that goes on with the present attempt, or begins the next one. *)
Onwards(r) == \/ AttemptsLeft(r)' <= AttemptsLeft(r) /\ Within(r)' < Within(r)
              \/ AttemptsLeft(r)' < AttemptsLeft(r)

LEMMA FewerSteps ==
  ASSUME NEW r \in Requests, LeftOK(r), LeftOK(r)', Onwards(r) PROVE StepsLeft(r)' < StepsLeft(r)
<1>1. PICK n, m, a, b, w, v :
        /\ n = Room /\ m = MaxRetries /\ a = AttemptsLeft(r) /\ w = Within(r)
        /\ b = AttemptsLeft(r)' /\ v = Within(r)'
  OBVIOUS
<1>2. n \in Nat /\ m \in Nat
  BY <1>1, RoomType, ConstantTypes
<1>3. a \in 0..m /\ w \in 0..n-1
  BY <1>1 DEF LeftOK
<1>4. b \in 0..m /\ v \in 0..n-1
  BY <1>1 DEF LeftOK, Room
<1>5. (b <= a /\ v < w) \/ b < a
  BY <1>1 DEF Onwards
<1>6. a \in Nat /\ b \in Nat /\ b <= a
  BY <1>2, <1>3, <1>4, <1>5
<1>7. n * b \in Nat /\ n * a \in Nat /\ n * b <= n * a /\ (b < a => n * b + n <= n * a)
  BY <1>2, <1>6, ProductGrows
<1>8. n * b + v < n * a + w
  BY <1>2, <1>3, <1>4, <1>5, <1>7
<1>9. StepsLeft(r) = n * a + w /\ StepsLeft(r)' = n * b + v
  BY <1>1 DEF StepsLeft, Room
<1> QED BY <1>8, <1>9

LEMMA SubmitOnwards ==
  ASSUME TypeInv, ChainInv, NEW r \in Requests, LeftOK(r), LeftOK(r)', ProcessFailureStep(r)
  PROVE  Onwards(r)
<1>1. StageOK(r) /\ WorkOK(r) /\ MaxRetries \in Nat \ {0}
  BY ConstantTypes DEF TypeInv, ChainInv
<1>2. /\ pc \in [Requests -> Stages] /\ DOMAIN tx = Requests
      /\ scan \in [Requests -> SUBSET DOMAIN ProcessorOrder]
  BY DEF TypeInv, TypeOK, RequestTypeOK
<1>3. PICK a, b, w, v : /\ a = AttemptsLeft(r) /\ b = AttemptsLeft(r)'
                        /\ w = Within(r) /\ v = Within(r)'
  OBVIOUS
<1>4. /\ a \in 0..MaxRetries /\ b \in 0..MaxRetries
      /\ a = MaxRetries => b <= a
  BY <1>3 DEF LeftOK
<1>5. (b <= a /\ v < w) \/ b < a => Onwards(r)
  BY <1>3 DEF Onwards
<1> DEFINE t == tx[r]
<1>6. pc[r] \in InChain => t.retryCount \in 0..MaxRetries
  BY <1>1 DEF StageOK, Transactions
<1>7. CASE RecordFailure(r)
  <2>1. pc[r] = "recordFailure" /\ pc'[r] = "save"
    BY <1>2, <1>7 DEF RecordFailure, Goto
  <2>2. a = MaxRetries /\ w = 3 /\ v = 2
    BY <1>3, <2>1 DEF AttemptsLeft, Within, Drafting, Recording
  <2>3. b <= a /\ v < w
    BY <1>4, <2>2
  <2> QED BY <1>5, <2>3
<1>8. CASE RejectDuplicate(r) \/ SaveHard(r) \/ SaveSoft(r)
  <2>1. pc[r] = "save" /\ pc'[r] \in {"plan", "done"}
    BY <1>2, <1>8 DEF RejectDuplicate, SaveHard, SaveSoft, Goto, Answer
  <2>2. a = MaxRetries /\ w = 2 /\ v \in {0, 1}
    BY <1>3, <2>1 DEF AttemptsLeft, Within, Drafting, Recording
  <2>3. b <= a /\ v < w
    BY <1>4, <2>2
  <2> QED BY <1>5, <2>3
<1>9. CASE PlanAttempt(r)
  <2>1. pc[r] = "plan" /\ pc'[r] \in {"simulate", "scanHealth"} /\ tx' = tx
    BY <1>2, <1>9 DEF PlanAttempt, Goto
  <2>2. a = MaxRetries - t.retryCount /\ b = MaxRetries - t.retryCount - 1
    BY <1>3, <2>1 DEF AttemptsLeft, Drafting, Recording
  <2>3. t.retryCount \in Nat
    BY <1>6, <2>1 DEF InChain
  <2> QED BY <1>1, <1>5, <2>2, <2>3
<1>10. CASE ScanHealth(r) \/ ScanAdaptive(r)
  <2>1. /\ pc[r] \in Drafting /\ pc'[r] \in Drafting /\ tx' = tx
        /\ \/ pc[r] = "scanHealth" /\ pc'[r] = "scanAdaptive" /\ scan'[r] = scan[r]
           \/ \E i \in scan[r] : /\ pc[r] \in {"scanHealth", "scanAdaptive"}
                                 /\ pc'[r] = "scanHealth" /\ scan'[r] = scan[r] \ {i}
    <3>1. CASE ScanHealth(r)
      BY <1>2, <3>1 DEF ScanHealth, Goto, IsNext, Drafting
    <3>2. CASE ScanAdaptive(r)
      BY <1>2, <3>2 DEF ScanAdaptive, Goto, IsNext, Drafting
    <3> QED BY <1>10, <3>1, <3>2
  <2>2. b = a
    BY <1>3, <2>1 DEF AttemptsLeft, Drafting, Recording
  <2>3. PICK size \in Nat : IsFiniteSet(scan[r]) /\ size = Cardinality(scan[r])
    BY ScanSize, FS_CardinalityType
  <2>4. w = IF pc[r] = "scanHealth" THEN 6 + 2 * size ELSE 5 + 2 * size
    BY <1>3, <2>1, <2>3 DEF Within, Drafting
  <2>5. CASE pc[r] = "scanHealth" /\ pc'[r] = "scanAdaptive" /\ scan'[r] = scan[r]
    <3>1. v = 5 + 2 * size
      BY <1>3, <2>3, <2>5 DEF Within
    <3> QED BY <1>4, <1>5, <2>2, <2>4, <2>5, <3>1
  <2>6. ASSUME NEW i \in scan[r], pc'[r] = "scanHealth", scan'[r] = scan[r] \ {i} PROVE v < w
    <3>1. Cardinality(scan'[r]) = size - 1
      BY <2>3, <2>6, FS_RemoveElement
    <3>2. v = 6 + 2 * (size - 1)
      BY <1>3, <2>6, <3>1 DEF Within
    <3> QED BY <2>3, <2>4, <3>2
  <2> QED BY <1>4, <1>5, <2>1, <2>2, <2>5, <2>6
<1>11. CASE SelectTarget(r)
  <2>1. pc[r] = "scanHealth" /\ pc'[r] = "simulate" /\ tx' = tx
    BY <1>11, SelectTargetRoutes
  <2>2. b = a /\ v = 5
    BY <1>3, <2>1 DEF AttemptsLeft, Within, Drafting, Recording
  <2>3. Cardinality(scan[r]) \in Nat
    BY ScanSize, FS_CardinalityType
  <2>4. w = 6 + 2 * Cardinality(scan[r])
    BY <1>3, <2>1 DEF Within
  <2>5. v < w
    BY <2>2, <2>3, <2>4
  <2> QED BY <1>4, <1>5, <2>2, <2>5
<1>12. CASE Simulate(r)
  <2>1. pc[r] = "simulate" /\ pc'[r] = "recordHealth" /\ tx'[r].retryCount = t.retryCount + 1
    <3>1. t \in Transactions
      BY <1>1, <1>12 DEF StageOK, InChain, Simulate, Goto
    <3> QED BY <1>2, <1>12, <3>1 DEF Simulate, Goto, Transactions
  <2>2. t.retryCount \in Nat
    BY <1>6, <2>1 DEF InChain
  <2>3. a = MaxRetries - t.retryCount - 1 /\ b = MaxRetries - (t.retryCount + 1) /\ w = 5 /\ v = 4
    BY <1>3, <2>1 DEF AttemptsLeft, Within, Drafting, Recording
  <2> QED BY <1>1, <1>5, <2>2, <2>3
<1>13. CASE RecordHealth(r) \/ LearnOutcome(r)
  <2>1. /\ \/ pc[r] = "recordHealth" /\ pc'[r] = "recordAdaptive"
           \/ pc[r] = "recordAdaptive" /\ pc'[r] = "log"
        /\ tx' = tx
    BY <1>2, <1>13 DEF RecordHealth, LearnOutcome, Goto
  <2>2. b = a
    BY <1>3, <2>1 DEF AttemptsLeft, Drafting, Recording
  <2>3. v < w
    BY <1>3, <2>1 DEF Within
  <2> QED BY <1>4, <1>5, <2>2, <2>3
<1>14. CASE LogDecision(r)
  <2>1. pc[r] = "log" /\ pc'[r] \in {"plan", "update"} /\ tx'[r].retryCount = t.retryCount
    <3>1. t \in Transactions
      BY <1>1, <1>14 DEF StageOK, InChain, LogDecision, Goto
    <3> QED BY <1>2, <1>14, <3>1 DEF LogDecision, Goto, Transactions
  <2>2. a = MaxRetries - t.retryCount /\ b \in {MaxRetries - t.retryCount, 0} /\ w = 2 /\ v = 1
    BY <1>3, <2>1 DEF AttemptsLeft, Within, Drafting, Recording
  <2> QED BY <1>1, <1>4, <1>5, <2>2
<1>15. CASE FinishChain(r)
  <2>1. pc[r] = "update" /\ pc'[r] = "done"
    BY <1>2, <1>15 DEF FinishChain, Answer, Goto
  <2>2. a = 0 /\ b = 0 /\ w = 1 /\ v = 0
    BY <1>3, <2>1 DEF AttemptsLeft, Within, Drafting, Recording
  <2> QED BY <1>5, <2>2
<1> QED BY <1>7, <1>8, <1>9, <1>10, <1>11, <1>12, <1>13, <1>14, <1>15 DEF ProcessFailureStep

LEMMA ReportOnwards ==
  ASSUME TypeInv, NEW r \in Requests, RecordRetryOutcomeStep(r) \/ ResetStep(r)
  PROVE  Onwards(r)
<1>1. pc \in [Requests -> Stages]
  BY DEF TypeInv, TypeOK, RequestTypeOK
<1>2. \/ pc[r] = "fetch" /\ pc'[r] \in {"reportHealth", "done"}
      \/ pc[r] = "reportHealth" /\ pc'[r] = "reportAdaptive"
      \/ pc[r] = "reportAdaptive" /\ pc'[r] = "reportUpdate"
      \/ pc[r] = "reportUpdate" /\ pc'[r] = "done"
      \/ pc[r] = "resetStore" /\ pc'[r] = "resetHealth"
      \/ pc[r] = "resetHealth" /\ pc'[r] = "done"
  BY <1>1 DEF RecordRetryOutcomeStep, ResetStep, FetchUnknown, Fetch, ReportHealth, ReportAdaptive,
              ReportUpdate, ResetStore, ResetHealth, Goto, Answer
<1>3. AttemptsLeft(r) = 0 /\ AttemptsLeft(r)' = 0
  BY <1>2 DEF AttemptsLeft, Drafting, Recording
<1>4. Within(r)' < Within(r)
  BY <1>2 DEF Within
<1> QED BY <1>3, <1>4 DEF Onwards

LEMMA ServeUsesUp ==
  ASSUME TypeInv, ChainInv, NEW r \in Requests, LeftOK(r), LeftOK(r)', Serve(r)
  PROVE  StepsLeft(r)' < StepsLeft(r)
BY SubmitOnwards, ReportOnwards, FewerSteps DEF Serve

LEMMA OthersKeepSteps ==
  ASSUME TypeInv, NEW r \in Requests, pc[r] # "idle", ~Serve(r), [Next]_vars
  PROVE  StepsLeft(r)' = StepsLeft(r)
<1>1. pc'[r] = pc[r] /\ tx'[r] = tx[r] /\ scan'[r] = scan[r]
  <2>1. ASSUME NEW q \in Requests, ArriveAny(q) \/ Serve(q)
        PROVE  pc'[r] = pc[r] /\ tx'[r] = tx[r] /\ scan'[r] = scan[r]
    <3>1. r # q
      BY <2>1 DEF ArriveAny, Submit, Report, Reset, Arrive, Goto
    <3>2. Frame(q)
      BY <2>1, ServeFrame
    <3> QED BY <3>1, <3>2 DEF Frame
  <2>2. CASE UNCHANGED localVars
    BY <2>2 DEF localVars
  <2> QED BY <2>1, <2>2 DEF Next, ClockTick, Quiet, vars
<1> QED BY <1>1 DEF StepsLeft, AttemptsLeft, Within, Room

(* Every step of a request brings its end nearer, whatever the others do: a
   request never needs more than MostSteps steps, it has none left just when it
   has been answered (or has not arrived), its own steps use them up and those
   of others give it no more.  So the loops of executeRetryChain and
   of selectBestAlternative end; and as no step waits for a condition, weak
   fairness of its steps is all it takes for a request to be answered. *)
THEOREM ServiceEnds ==
  Spec => /\ [](\A r \in Requests : StepsLeft(r) \in 0..MostSteps /\ AnsweredAtZero(r))
          /\ [][\A r \in Requests :
                  /\ Serve(r) => StepsLeft(r)' < StepsLeft(r)
                  /\ pc[r] # "idle" /\ ~Serve(r) => StepsLeft(r)' = StepsLeft(r)]_vars
<1> DEFINE AllLeft == \A r \in Requests : LeftOK(r)
           Bounded == \A r \in Requests : StepsLeft(r) \in 0..MostSteps /\ AnsweredAtZero(r)
           UsesUp == \A r \in Requests :
                       /\ Serve(r) => StepsLeft(r)' < StepsLeft(r)
                       /\ pc[r] # "idle" /\ ~Serve(r) => StepsLeft(r)' = StepsLeft(r)
<1>1. TypeInv => AllLeft
  BY LeftTypes
<1>2. AllLeft => Bounded
  BY StepsBounded
<1>3. TypeInv /\ ChainInv /\ AllLeft /\ AllLeft' /\ [Next]_vars => UsesUp
  BY ServeUsesUp, OthersKeepSteps
<1> HIDE DEF AllLeft, Bounded, UsesUp
<1>4. Spec => []Bounded /\ [][UsesUp]_vars
  BY <1>1, <1>2, <1>3, TypeInvariant, ChainInvariant, PTL DEF Spec
<1> QED BY <1>4 DEF Bounded, UsesUp
=============================================================================

------------------------ MODULE DataGeneratorProofs ------------------------
(***************************************************************************)
(* Proofs about GenerateEvents: that the scans draw by weight, that the    *)
(* shuffle loses and repeats nothing, and that the events lie in the       *)
(* default range of the metrics, for every number of events and all        *)
(* weights.                                                                *)
(***************************************************************************)
EXTENDS DataGenerator, SumTheorems

-----------------------------------------------------------------------------
(* The scan over cumulative weights *)

Names == {"A", "B", "C"}

LEMMA CumulativeZero == ASSUME NEW weights PROVE Cumulative(weights, 0) = 0
<1>1. 1..0 = {}
  OBVIOUS
<1> QED BY <1>1, SumEmpty DEF Cumulative

LEMMA WeightsType ==
  ASSUME NEW weights \in WeightsOf(Names)
  PROVE  /\ Len(weights) \in Nat /\ DOMAIN weights = 1..Len(weights)
         /\ \A k \in DOMAIN weights : weights[k][1] \in Names /\ weights[k][2] \in Nat
         /\ \A i, j \in DOMAIN weights : weights[i][1] = weights[j][1] => i = j
<1>1. weights \in Seq(Names \X Nat)
  BY DEF WeightsOf
<1>2. Len(weights) \in Nat /\ DOMAIN weights = 1..Len(weights)
  BY <1>1
<1>3. \A k \in DOMAIN weights : weights[k] \in Names \X Nat
  BY <1>1
<1> QED BY <1>2, <1>3 DEF WeightsOf

LEMMA CumulativeStep ==
  ASSUME NEW weights \in WeightsOf(Names), NEW k \in 0..(Len(weights) - 1)
  PROVE  Cumulative(weights, k + 1) = Cumulative(weights, k) + weights[k + 1][2]
<1> DEFINE f == [i \in DOMAIN weights |-> weights[i][2]]
<1>1. \A i \in 1..k+1 : f[i] \in Int
  BY WeightsType
<1>2. f[k + 1] = weights[k + 1][2] /\ k \in Nat
  BY WeightsType
<1> HIDE DEF f
<1>3. SumFunctionOnSet(f, 1..k+1) = SumFunctionOnSet(f, 1..k) + f[k + 1]
  BY <1>1, <1>2, SumInterval
<1> QED BY <1>2, <1>3 DEF Cumulative, f

LEMMA CumulativeType ==
  ASSUME NEW weights \in WeightsOf(Names), NEW k \in 0..Len(weights)
  PROVE  Cumulative(weights, k) \in Nat
<1> DEFINE f == [i \in DOMAIN weights |-> weights[i][2]]
<1>1. \A i \in 1..k : f[i] \in Nat
  BY WeightsType
<1>2. k \in Nat /\ IsFiniteSet(1..k)
  BY WeightsType, FS_Interval
<1> HIDE DEF f
<1>3. SumFunctionOnSet(f, 1..k) \in Nat
  BY <1>1, <1>2, SumNat
<1> QED BY <1>3 DEF Cumulative, f

LEMMA CumulativeMonotonic ==
  ASSUME NEW weights \in WeightsOf(Names), NEW k \in 0..Len(weights), NEW i \in 0..k
  PROVE  Cumulative(weights, i) <= Cumulative(weights, k)
<1> DEFINE f == [x \in DOMAIN weights |-> weights[x][2]]
<1>1. \A x \in 1..k : f[x] \in Nat
  BY WeightsType
<1>2. k \in Nat /\ IsFiniteSet(1..k) /\ 1..i \in SUBSET (1..k)
  BY WeightsType, FS_Interval
<1> HIDE DEF f
<1>3. SumFunctionOnSet(f, 1..i) <= SumFunctionOnSet(f, 1..k)
  BY <1>1, <1>2, SumSubset
<1> QED BY <1>3 DEF Cumulative, f

(* The draws for which the scan stops at k. *)
Share(weights, k) == Cumulative(weights, k - 1)..(Cumulative(weights, k) - 1)

(* The scan stops where the draw first lies below the cumulative weight. *)
LEMMA PickStops ==
  ASSUME NEW weights \in WeightsOf(Names), NEW k \in DOMAIN weights, NEW drawn \in Share(weights, k)
  PROVE  Pick(weights, drawn) = weights[k][1]
<1> DEFINE hits == {i \in DOMAIN weights : drawn < Cumulative(weights, i)}
<1>0. DOMAIN weights = 1..Len(weights) /\ Len(weights) \in Nat
  BY WeightsType
<1>1. /\ Cumulative(weights, k - 1) \in Nat /\ Cumulative(weights, k) \in Nat
      /\ drawn \in Nat /\ Cumulative(weights, k - 1) <= drawn /\ drawn < Cumulative(weights, k)
  BY <1>0, CumulativeType DEF Share
<1>2. k \in hits
  BY <1>1
<1>3. \A i \in hits : k <= i
  <2> SUFFICES ASSUME NEW i \in hits, i < k PROVE FALSE
    BY <1>0
  <2>1. i \in 0..(k - 1) /\ k - 1 \in 0..Len(weights) /\ i \in 0..Len(weights)
    BY <1>0
  <2>2. Cumulative(weights, i) <= Cumulative(weights, k - 1) /\ Cumulative(weights, i) \in Nat
    BY <2>1, CumulativeMonotonic, CumulativeType
  <2> QED BY <1>1, <2>2
<1>4. hits \subseteq Nat /\ hits # {}
  BY <1>0, <1>2
<1>5. Pick(weights, drawn) = weights[Min(hits)][1]
  BY <1>4 DEF Pick
<1> HIDE DEF hits
<1>6. Min(hits) = k
  <2>1. \A x \in hits : (\A y \in hits : x <= y) => x = k
    BY <1>2, <1>3, <1>4
  <2> QED BY <1>2, <1>3, <2>1 DEF Min
<1> QED BY <1>5, <1>6

(* Every draw is in the share of some processor. *)
LEMMA DrawsShared ==
  ASSUME NEW weights \in WeightsOf(Names), NEW drawn \in Draws(weights)
  PROVE  \E k \in DOMAIN weights : drawn \in Share(weights, k)
<1> DEFINE n == Len(weights)
           S == {k \in Nat : k <= n => Cumulative(weights, k) <= drawn}
<1>0. DOMAIN weights = 1..n /\ n \in Nat
  BY WeightsType
<1>1. Cumulative(weights, n) \in Nat /\ drawn \in Nat /\ drawn < Cumulative(weights, n)
  BY <1>0, CumulativeType DEF Draws
<1> SUFFICES ASSUME \A k \in DOMAIN weights : drawn \notin Share(weights, k) PROVE FALSE
  OBVIOUS
<1>2. 0 \in S
  BY <1>1, CumulativeZero
<1>3. ASSUME NEW k \in S PROVE k + 1 \in S
  <2> SUFFICES ASSUME k + 1 <= n PROVE Cumulative(weights, k + 1) <= drawn
    OBVIOUS
  <2>1. k + 1 \in DOMAIN weights /\ k \in 0..n /\ k + 1 \in 0..n /\ (k + 1) - 1 = k
    BY <1>0
  <2>2. drawn \notin Cumulative(weights, k)..(Cumulative(weights, k + 1) - 1)
    BY <2>1 DEF Share
  <2>3. Cumulative(weights, k) \in Nat /\ Cumulative(weights, k + 1) \in Nat
    BY <2>1, CumulativeType
  <2>4. Cumulative(weights, k) <= drawn
    BY <1>0, <2>1
  <2> QED BY <1>1, <2>2, <2>3, <2>4
<1>4. S \in SUBSET Nat
  OBVIOUS
<1> HIDE DEF S
<1>5. S = Nat
  BY <1>2, <1>3, <1>4, NatInductive
<1> QED BY <1>0, <1>1, <1>5 DEF S

LEMMA PickType ==
  ASSUME NEW weights \in WeightsOf(Names), NEW drawn \in Draws(weights)
  PROVE  Pick(weights, drawn) \in Names
BY DrawsShared, PickStops, WeightsType

(* A processor gets the draws of its share, as many as its weight. *)
LEMMA WeightHonoured ==
  ASSUME NEW weights \in WeightsOf(Names), NEW k \in DOMAIN weights
  PROVE  Cardinality({drawn \in Draws(weights) : Pick(weights, drawn) = weights[k][1]}) = weights[k][2]
<1> DEFINE n == Len(weights)
           a == Cumulative(weights, k - 1)
           b == Cumulative(weights, k)
           z == Cumulative(weights, n)
<1>0. DOMAIN weights = 1..n /\ n \in Nat
  BY WeightsType
<1>1. k - 1 \in 0..n /\ k - 1 \in 0..(n - 1) /\ k \in 0..n /\ n \in 0..n /\ (k - 1) + 1 = k
  BY <1>0
<1>2. a \in Nat /\ b \in Nat /\ z \in Nat /\ b <= z
  BY <1>1, CumulativeType, CumulativeMonotonic
<1>3. b = a + weights[k][2] /\ weights[k][2] \in Nat
  BY <1>1, CumulativeStep, WeightsType
<1>4. ASSUME NEW drawn
      PROVE  drawn \in Draws(weights) /\ Pick(weights, drawn) = weights[k][1]
               <=> drawn \in Share(weights, k)
  <2>1. ASSUME drawn \in Share(weights, k)
        PROVE  drawn \in Draws(weights) /\ Pick(weights, drawn) = weights[k][1]
    BY <1>2, <2>1, PickStops DEF Share, Draws
  <2>2. ASSUME drawn \in Draws(weights), Pick(weights, drawn) = weights[k][1]
        PROVE  drawn \in Share(weights, k)
    <3>1. PICK i \in DOMAIN weights : drawn \in Share(weights, i)
      BY <2>2, DrawsShared
    <3>2. weights[i][1] = weights[k][1]
      BY <2>2, <3>1, PickStops
    <3>3. i = k
      BY <3>2, WeightsType
    <3> QED BY <3>1, <3>3
  <2> QED BY <2>1, <2>2
<1>5. {drawn \in Draws(weights) : Pick(weights, drawn) = weights[k][1]} = a..(b - 1)
  BY <1>4 DEF Share
<1>6. \A c, d \in Nat : c <= d => Cardinality(c..(d - 1)) = d - c
  <2> SUFFICES ASSUME NEW c \in Nat, NEW d \in Nat, c <= d PROVE Cardinality(c..(d - 1)) = d - c
    OBVIOUS
  <2>1. Cardinality(c..(d - 1)) = IF c > d - 1 THEN 0 ELSE (d - 1) - c + 1
    BY FS_Interval
  <2> QED BY <2>1
<1> HIDE DEF a, b, z, n
<1>7. Cardinality(a..(b - 1)) = b - a /\ b - a = weights[k][2]
  BY <1>2, <1>3, <1>6
<1> QED BY <1>5, <1>7
-----------------------------------------------------------------------------
(* The events *)

Event == [id : Nat, code : HardCodes \cup SoftCodes, processor : Names, ts : Int]

Ids(s)   == {s[i].id : i \in DOMAIN s}
Hards(s) == {i \in DOMAIN s : IsHard(s[i].code)}

(* While events are generated the hard declines come first; afterwards their
   number is kept. *)
GeneratorInv ==
  /\ events \in Seq(Event) /\ Len(events) <= TotalCount
  /\ left \in Nat /\ left <= TotalCount
  /\ Ids(events) = 0..(Len(events) - 1)
  /\ IsFiniteSet(Hards(events))
  /\ Cardinality(Hards(events)) = IF Len(events) <= HardCount THEN Len(events) ELSE HardCount
  /\ EventsInDefaultRange

LEMMA HardCountType == HardCount \in Nat /\ HardCount <= TotalCount /\ TotalCount \in Nat
BY GeneratorAssumption DEF HardCount

LEMMA CodesHard ==
  /\ \A code \in HardCodes : IsHard(code)
  /\ \A code \in SoftCodes : ~IsHard(code)
BY DEF HardCodes, SoftCodes, ImmediateCodes, AlternativeCodes, DelayedCodes, IsHard, Classify,
       Rules, Hard, Soft

(* Generating one more event. *)
LEMMA GenerateKeeps ==
  ASSUME GeneratorInv, NEW code \in HardCodes \cup SoftCodes, NEW p \in Names, NEW offset \in 0..(Span - 1),
         Generate(code, p, offset), Generating, IsHard(code) <=> Len(events) < HardCount
  PROVE  GeneratorInv'
<1> DEFINE n == Len(events)
<1>1. PICK e : e = [id |-> n, code |-> code, processor |-> p, ts |-> BaseTime + offset]
  OBVIOUS
<1>2. n \in Nat /\ DOMAIN events = 1..n /\ n < TotalCount /\ events \in Seq(Event)
  BY DEF GeneratorInv, Generating
<1>3. offset \in Int /\ BaseTime \in Int /\ -Day <= BaseTime + offset /\ BaseTime + offset < 0
  BY GeneratorAssumption DEF BaseTime
<1>4. e \in Event /\ e.id = n /\ e.code = code /\ -Day <= e.ts /\ e.ts < 0
  BY <1>1, <1>2, <1>3 DEF Event
<1>5. events' = Append(events, e) /\ left' = left
  BY <1>1 DEF Generate
<1>6. /\ events' \in Seq(Event) /\ Len(events') = n + 1 /\ DOMAIN events' = 1..n+1
      /\ \A i \in 1..n : events'[i] = events[i]
      /\ events'[n + 1] = e
  BY <1>2, <1>4, <1>5
<1>7. Ids(events)' = 0..n
  <2>1. \A i \in 1..n : events'[i].id = events[i].id
    BY <1>6
  <2>2. events'[n + 1].id = n
    BY <1>4, <1>6
  <2> HIDE DEF n
  <2>3. Ids(events)' = Ids(events) \cup {n}
    BY <1>2, <1>6, <2>1, <2>2 DEF Ids
  <2>4. Ids(events) = 0..(n - 1)
    BY DEF GeneratorInv, n
  <2>5. (0..(n - 1)) \cup {n} = 0..n
    BY <1>2
  <2> QED BY <2>3, <2>4, <2>5
<1>8. Hards(events)' = Hards(events) \cup (IF IsHard(code) THEN {n + 1} ELSE {})
  <2>1. \A i \in 1..n : IsHard(events'[i].code) <=> IsHard(events[i].code)
    BY <1>6
  <2>2. IsHard(events'[n + 1].code) <=> IsHard(code)
    BY <1>4, <1>6
  <2> HIDE DEF n
  <2> QED BY <1>2, <1>6, <2>1, <2>2 DEF Hards
<1>9. n + 1 \notin Hards(events) /\ IsFiniteSet(Hards(events))
  BY <1>2 DEF Hards, GeneratorInv
<1>10. /\ IsFiniteSet(Hards(events) \cup {n + 1})
       /\ Cardinality(Hards(events) \cup {n + 1}) = Cardinality(Hards(events)) + 1
  BY <1>9, FS_AddElement
<1>11. /\ IsFiniteSet(Hards(events)')
       /\ Cardinality(Hards(events)') = IF n + 1 <= HardCount THEN n + 1 ELSE HardCount
  <2>1. Cardinality(Hards(events)) = IF n <= HardCount THEN n ELSE HardCount
    BY DEF GeneratorInv
  <2>2. CASE IsHard(code)
    BY <1>2, <1>8, <1>10, <2>1, <2>2, HardCountType
  <2>3. CASE ~IsHard(code)
    BY <1>2, <1>8, <1>9, <2>1, <2>3, HardCountType
  <2> QED BY <2>2, <2>3
<1>12. EventsInDefaultRange'
  BY <1>2, <1>4, <1>6 DEF EventsInDefaultRange, GeneratorInv
<1> HIDE DEF n
<1>13. (n + 1) - 1 = n /\ n + 1 <= TotalCount
  BY <1>2, HardCountType
<1> QED BY <1>5, <1>6, <1>7, <1>11, <1>12, <1>13 DEF GeneratorInv

(* Exchanging two events. *)
LEMMA SwapKeeps ==
  ASSUME NEW s \in Seq(Event), NEW i \in DOMAIN s, NEW j \in DOMAIN s
  PROVE  /\ Swap(s, i, j) \in Seq(Event) /\ Len(Swap(s, i, j)) = Len(s)
         /\ Ids(Swap(s, i, j)) = Ids(s)
         /\ \A k \in DOMAIN s : \E m \in DOMAIN s : Swap(s, i, j)[k] = s[m]
         /\ IsFiniteSet(Hards(s)) =>
              /\ IsFiniteSet(Hards(Swap(s, i, j)))
              /\ Cardinality(Hards(Swap(s, i, j))) = Cardinality(Hards(s))
<1> DEFINE pi == [k \in DOMAIN s |-> IF k = i THEN j ELSE IF k = j THEN i ELSE k]
<1>1. PICK t : t = Swap(s, i, j)
  OBVIOUS
<1>2. DOMAIN t = DOMAIN s /\ \A k \in DOMAIN s : t[k] = s[pi[k]]
  BY <1>1 DEF Swap
<1>3. \A k \in DOMAIN s : pi[k] \in DOMAIN s /\ pi[pi[k]] = k
  OBVIOUS
<1>4. t \in Seq(Event) /\ Len(t) = Len(s)
  BY <1>1 DEF Swap
<1> HIDE DEF pi
<1>5. Ids(t) = Ids(s)
  <2>1. \A k \in DOMAIN s : t[pi[k]] = s[k]
    BY <1>2, <1>3
  <2>2. \A k \in DOMAIN t : \E m \in DOMAIN s : t[k].id = s[m].id
    BY <1>2, <1>3
  <2>3. \A k \in DOMAIN s : \E m \in DOMAIN t : s[k].id = t[m].id
    BY <1>2, <1>3, <2>1
  <2>4. Ids(t) \subseteq Ids(s)
    BY <2>2 DEF Ids
  <2>5. Ids(s) \subseteq Ids(t)
    BY <2>3 DEF Ids
  <2> QED BY <2>4, <2>5
<1>6. ASSUME IsFiniteSet(Hards(s))
      PROVE  IsFiniteSet(Hards(t)) /\ Cardinality(Hards(t)) = Cardinality(Hards(s))
  <2> DEFINE f == [k \in Hards(s) |-> pi[k]]
  <2>1. \A k \in Hards(s) : pi[k] \in Hards(t)
    BY <1>2, <1>3 DEF Hards
  <2>2. \A k \in Hards(t) : pi[k] \in Hards(s)
    BY <1>2, <1>3 DEF Hards
  <2>3. \A k \in Hards(t) \cup Hards(s) : k \in DOMAIN s /\ pi[pi[k]] = k
    BY <1>2, <1>3 DEF Hards
  <2>4. f \in Injection(Hards(s), Hards(t))
    BY <2>1, <2>3 DEF Injection, IsInjective
  <2>5. f \in Surjection(Hards(s), Hards(t))
    BY <2>1, <2>2, <2>3 DEF Surjection
  <2>6. f \in Bijection(Hards(s), Hards(t))
    BY <2>4, <2>5 DEF Bijection
  <2> HIDE DEF f
  <2>7. ExistsBijection(Hards(s), Hards(t))
    BY <2>6 DEF ExistsBijection
  <2> QED BY <1>6, <2>7, FS_Bijection
<1> QED BY <1>1, <1>2, <1>3, <1>4, <1>5, <1>6

LEMMA OffsetsInSpan == ASSUME NEW p PROVE SoftOffsets(p) \subseteq 0..(Span - 1)
<1>1. DegradeStart..(DegradeEnd - 1) \subseteq 0..(Span - 1)
  <2>1. DegradeStart \in Int /\ DegradeEnd \in Int
    BY GeneratorAssumption
  <2> QED BY <2>1, GeneratorAssumption
<1> QED BY <1>1 DEF SoftOffsets

LEMMA GeneratorStep == GeneratorInv /\ [Next]_vars => GeneratorInv'
<1> SUFFICES ASSUME GeneratorInv, [Next]_vars PROVE GeneratorInv'
  OBVIOUS
<1>0. Len(events) \in Nat /\ DOMAIN events = 1..Len(events)
  BY DEF GeneratorInv
<1>1. ASSUME GenerateHard PROVE GeneratorInv'
  <2>1. PICK drawn \in Draws(HardWeights), code \in HardCodes \cap Codes, jitter \in 0..(Span - 1) :
          Generate(code, Pick(HardWeights, drawn), jitter)
    BY <1>1 DEF GenerateHard
  <2>2. HardWeights \in WeightsOf(Names)
    BY GeneratorAssumption DEF Names
  <2>3. Pick(HardWeights, drawn) \in Names
    BY <2>2, PickType
  <2>4. Generating /\ Len(events) < HardCount
    BY <1>0, <1>1, HardCountType DEF GenerateHard, Generating
  <2> QED BY <2>1, <2>3, <2>4, CodesHard, GenerateKeeps
<1>2. ASSUME GenerateSoft PROVE GeneratorInv'
  <2>1. PICK drawn \in Draws(SoftWeights), code \in SoftCodes \cap Codes :
          \E offset \in SoftOffsets(Pick(SoftWeights, drawn)) :
            Generate(code, Pick(SoftWeights, drawn), offset)
    BY <1>2 DEF GenerateSoft
  <2>2. PICK offset \in SoftOffsets(Pick(SoftWeights, drawn)) :
          Generate(code, Pick(SoftWeights, drawn), offset)
    BY <2>1
  <2>3. SoftWeights \in WeightsOf(Names)
    BY GeneratorAssumption DEF Names
  <2>4. Pick(SoftWeights, drawn) \in Names
    BY <2>3, PickType
  <2>5. offset \in 0..(Span - 1)
    BY OffsetsInSpan
  <2>6. Generating /\ ~(Len(events) < HardCount)
    BY <1>0, <1>2, HardCountType DEF GenerateSoft
  <2> QED BY <2>2, <2>4, <2>5, <2>6, CodesHard, GenerateKeeps
<1>3. ASSUME Shuffle PROVE GeneratorInv'
  <2>0. Len(events) <= TotalCount /\ left \in Nat /\ left <= TotalCount
    BY DEF GeneratorInv
  <2>1. Len(events) = TotalCount /\ left \in DOMAIN events
    <3>1. ~(Len(events) < TotalCount) /\ left > 1
      BY <1>3 DEF Shuffle, Generating
    <3>2. Len(events) = TotalCount
      <4>1. \A m, n \in Nat : m <= n /\ ~(m < n) => m = n
        OBVIOUS
      <4> QED BY <1>0, <2>0, <3>1, <4>1, HardCountType
    <3>3. left \in 1..Len(events)
      BY <2>0, <3>1, <3>2
    <3> QED BY <1>0, <3>2, <3>3
  <2>2. PICK j \in DOMAIN events : events' = Swap(events, left, j)
    BY <1>0, <1>3, <2>1 DEF Shuffle
  <2>3. left' \in Nat /\ left' <= TotalCount
    BY <1>3, HardCountType DEF Shuffle, GeneratorInv
  <2>4. /\ events' \in Seq(Event) /\ Len(events') = Len(events)
        /\ Ids(events)' = Ids(events)
        /\ \A k \in DOMAIN events : \E m \in DOMAIN events : events'[k] = events[m]
        /\ IsFiniteSet(Hards(events)') /\ Cardinality(Hards(events)') = Cardinality(Hards(events))
    <3>1. PICK s : s = Swap(events, left, j)
      OBVIOUS
    <3>2. events' = s
      BY <2>2, <3>1
    <3>3. Hards(events)' = Hards(s) /\ Ids(events)' = Ids(s)
      BY <3>2 DEF Hards, Ids
    <3>4. /\ s \in Seq(Event) /\ Len(s) = Len(events)
          /\ Ids(s) = Ids(events)
          /\ \A k \in DOMAIN events : \E m \in DOMAIN events : s[k] = events[m]
          /\ IsFiniteSet(Hards(s)) /\ Cardinality(Hards(s)) = Cardinality(Hards(events))
      <4>1. events \in Seq(Event) /\ left \in DOMAIN events /\ IsFiniteSet(Hards(events))
        BY <2>1 DEF GeneratorInv
      <4> QED BY <3>1, <4>1, SwapKeeps
    <3> QED BY <3>2, <3>3, <3>4
  <2>5. DOMAIN events' = DOMAIN events
    BY <1>0, <2>4
  <2>6. EventsInDefaultRange'
    BY <2>4, <2>5 DEF EventsInDefaultRange, GeneratorInv
  <2> QED BY <2>3, <2>4, <2>6 DEF GeneratorInv
<1>4. ASSUME UNCHANGED vars PROVE GeneratorInv'
  BY <1>4 DEF vars, GeneratorInv, EventsInDefaultRange, Hards, Ids
<1> QED BY <1>1, <1>2, <1>3, <1>4 DEF Next

LEMMA GeneratorStart == Init => GeneratorInv
<1> SUFFICES ASSUME Init PROVE GeneratorInv
  OBVIOUS
<1>1. events = <<>> /\ left = TotalCount
  BY DEF Init
<1>2. Hards(events) = {} /\ Ids(events) = {}
  BY <1>1 DEF Hards, Ids
<1>3. IsFiniteSet({}) /\ Cardinality({}) = 0
  BY FS_EmptySet
<1>4. events \in Seq(Event) /\ Len(events) = 0 /\ DOMAIN events = {} /\ 0..(0 - 1) = {}
  BY <1>1
<1>5. EventsInDefaultRange
  BY <1>4 DEF EventsInDefaultRange
<1>6. Ids(events) = 0..(Len(events) - 1) /\ Len(events) <= HardCount /\ Len(events) <= TotalCount
  BY <1>2, <1>4, HardCountType
<1>7. IsFiniteSet(Hards(events)) /\ Cardinality(Hards(events)) = Len(events)
  BY <1>2, <1>3, <1>4
<1>8. left \in Nat /\ left <= TotalCount
  BY <1>1, HardCountType
<1> QED BY <1>4, <1>5, <1>6, <1>7, <1>8 DEF GeneratorInv

(* GeneratorInv is inductive. *)
THEOREM GeneratorInvariant == Spec => []GeneratorInv
BY GeneratorStart, GeneratorStep, PTL DEF Spec

(* Each processor gets exactly its weight of the numbers that can be drawn
   (pickWeightedProcessor, pickSoftProcessor), whatever the weights: no draw
   falls between two shares or reaches the fallback after the loop. *)
THEOREM WeightsHonoured == Spec => []PickHonoursWeights
<1>1. PickHonoursWeights
  <2>1. \A weights \in {HardWeights, SoftWeights} : weights \in WeightsOf(Names)
    BY GeneratorAssumption DEF Names
  <2> QED BY <2>1, WeightHonoured DEF PickHonoursWeights
<1> QED BY <1>1, PTL

(* The shuffle loses and repeats no event, and two in five are hard declines,
   rounded down, for every number of events (GenerateEvents). *)
THEOREM EventsKept == Spec => []ShuffleKeepsEvents
<1>1. GeneratorInv => ShuffleKeepsEvents
  <2> SUFFICES ASSUME GeneratorInv PROVE ShuffleKeepsEvents
    OBVIOUS
  <2>1. Done => Len(events) = TotalCount
    BY HardCountType DEF Done, Generating, GeneratorInv
  <2> QED BY <2>1, HardCountType DEF GeneratorInv, ShuffleKeepsEvents, Hards, Ids
<1> QED BY <1>1, GeneratorInvariant, PTL

(* Every generated event lies in the past and in the default range of the
   metrics, also those of the bad period of processor C (GenerateEvents). *)
THEOREM EventsRecent == Spec => []EventsInDefaultRange
<1>1. GeneratorInv => EventsInDefaultRange
  BY DEF GeneratorInv
<1> QED BY <1>1, GeneratorInvariant, PTL
=============================================================================

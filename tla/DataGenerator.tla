---------------------------- MODULE DataGenerator ----------------------------
(***************************************************************************)
(* datagen/generator.go: GenerateEvents.  Every draw of the random source  *)
(* is a choice among what it may return.  Time is relative to the call:    *)
(* the present is 0.  Amounts, currencies, cards and countries are left    *)
(* out.                                                                    *)
(***************************************************************************)
EXTENDS Classifier, Integers, Sequences, FiniteSetsExt, Functions

CONSTANTS TotalCount,    \* totalCount
          Codes,         \* the codes told apart
          HardWeights,   \* weightedProcessors: pairs <<processor, weight>>
          SoftWeights,   \* softProcessorWeights
          Span,          \* how long before the call the events begin, 2 h
          DegradeStart,  \* processor C's bad period, from the beginning
          DegradeEnd,
          Day            \* default time range of the metrics

(* The weights of some processors, each named once. *)
WeightsOf(names) == {weights \in Seq(names \X Nat) :
                       \A i, j \in DOMAIN weights : weights[i][1] = weights[j][1] => i = j}

ASSUME GeneratorAssumption ==
  /\ TotalCount \in Nat /\ Span \in Nat /\ Day \in Nat
  /\ DegradeStart \in Nat /\ DegradeEnd \in Nat /\ DegradeStart < DegradeEnd /\ DegradeEnd <= Span
  /\ Span <= Day
  /\ \A weights \in {HardWeights, SoftWeights} : weights \in WeightsOf({"A", "B", "C"})

VARIABLES events,  \* the events generated so far
          left     \* the prefix of them that is left to shuffle, 0 when done

vars == <<events, left>>

SoftCodes == ImmediateCodes \cup AlternativeCodes \cup DelayedCodes
HardCount == (2 * TotalCount) \div 5
BaseTime  == -Span

-----------------------------------------------------------------------------
(* pickWeightedProcessor and pickSoftProcessor: the first processor whose
   cumulative weight exceeds the number drawn. *)

Cumulative(weights, k) == SumFunctionOnSet([i \in DOMAIN weights |-> weights[i][2]], 1..k)
Draws(weights)         == 0..(Cumulative(weights, Len(weights)) - 1)

PickInclusive(weights, drawn) ==   \* mutant: compares with <=
  LET hits == {k \in DOMAIN weights : drawn <= Cumulative(weights, k)}
  IN  IF hits = {} THEN "A" ELSE weights[Min(hits)][1]
Pick(weights, drawn) ==
  LET hits == {k \in DOMAIN weights : drawn < Cumulative(weights, k)}
  IN  IF hits = {} THEN "A" ELSE weights[Min(hits)][1]

-----------------------------------------------------------------------------
Generating == Len(events) < TotalCount

Init == events = <<>> /\ left = TotalCount

Generate(code, p, offset) ==
  /\ events' = Append(events, [id |-> Len(events), code |-> code, processor |-> p,
                               ts |-> BaseTime + offset])
  /\ UNCHANGED left

GenerateHard ==
  /\ Len(events) < HardCount
  /\ \E drawn \in Draws(HardWeights), code \in HardCodes \cap Codes, jitter \in 0..(Span - 1) :
       Generate(code, Pick(HardWeights, drawn), jitter)

(* Most soft declines of C fall into its bad period, the others anywhere. *)
SoftOffsetsLate(p) == 0..(2 * Span)   \* mutant: minutes taken for half minutes
SoftOffsets(p) == 0..(Span - 1) \cup IF p = "C" THEN DegradeStart..(DegradeEnd - 1) ELSE {}

GenerateSoft ==
  /\ HardCount <= Len(events) /\ Generating
  /\ \E drawn \in Draws(SoftWeights), code \in SoftCodes \cap Codes :
       LET p == Pick(SoftWeights, drawn)
       IN  \E offset \in SoftOffsets(p) : Generate(code, p, offset)

(* One exchange of the Fisher-Yates shuffle. *)
Overwrite(s, i, j) == [s EXCEPT ![i] = s[j]]   \* mutant: the other half of the exchange is missing
Swap(s, i, j) == [s EXCEPT ![i] = s[j], ![j] = s[i]]

Shuffle ==
  /\ ~Generating /\ left > 1
  /\ \E j \in 1..left : events' = Swap(events, left, j)
  /\ left' = left - 1

Done == ~Generating /\ left <= 1

Next == GenerateHard \/ GenerateSoft \/ Shuffle \/ (Done /\ UNCHANGED vars)

Spec == Init /\ [][Next]_vars

-----------------------------------------------------------------------------
(* Properties *)

(* Whenever an event is generated, the cumulative scan gives every processor
   exactly its weight of the draws (the loops end in a fallback that no draw
   reaches). *)
PickHonoursWeights ==
  Generating => \A weights \in {HardWeights, SoftWeights} : \A k \in DOMAIN weights :
    Cardinality({drawn \in Draws(weights) : Pick(weights, drawn) = weights[k][1]}) = weights[k][2]

(* The shuffle only reorders: at every step each transaction id occurs once,
   so no generated event is rejected as a duplicate of another, and the hard
   declines are still two in five. *)
ShuffleKeepsEvents ==
  /\ {events[i].id : i \in DOMAIN events} = 0..(Len(events) - 1)
  /\ Done => Cardinality({i \in DOMAIN events : IsHard(events[i].code)}) = HardCount

(* Every generated event lies in the past and in the range that the metrics
   cover by default, right after the call that generated it. *)
EventsInDefaultRange == \A i \in DOMAIN events : -Day <= events[i].ts /\ events[i].ts < 0
=============================================================================

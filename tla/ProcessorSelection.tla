------------------------- MODULE ProcessorSelection -------------------------
(***************************************************************************)
(* The ranking inside selectBestAlternative of                             *)
(* internal/orchestrator/orchestrator.go.  Rates are fractions, the pairs  *)
(* <<numerator, denominator>> the code divides; costs are in cents.        *)
(***************************************************************************)
EXTENDS Integers, Sequences

CONSTANTS ProcessorOrder,  \* AllProcessors()
          Cost             \* ProcessorCost

Processors == {ProcessorOrder[i] : i \in DOMAIN ProcessorOrder}

MaxFallbackCost == 99900   \* bestCost := float64(999)

ASSUME SelectionAssumption ==
  /\ ProcessorOrder \in Seq(Processors)
  /\ Cost \in [Processors -> Nat]

LessRate(a, b) == a[1] * b[2] < b[1] * a[2]

(* A candidate: [name, adaptive, failure], the rates read while scanning.
   The less function of the sort: the adaptive rate, highest first, then the
   cost and then the failure rate, lowest first. *)
CheapestFirst(c, d) ==     \* mutant: the cost is compared before the adaptive rate
  \/ Cost[c.name] < Cost[d.name]
  \/ Cost[c.name] = Cost[d.name] /\ LessRate(d.adaptive, c.adaptive)
Better(c, d) ==
  \/ LessRate(d.adaptive, c.adaptive)
  \/ /\ ~LessRate(c.adaptive, d.adaptive)
     /\ \/ Cost[c.name] < Cost[d.name]
        \/ Cost[c.name] = Cost[d.name] /\ LessRate(c.failure, d.failure)

(* The candidates sort.Slice may leave in front. *)
Best(candidates) == {c \in candidates : \A d \in candidates : ~Better(d, c)}

(* With no candidate: the cheapest processor but the excluded one, the first
   of them in AllProcessors order when several cost the same; none when the
   loop finds nothing under its initial bestCost. *)
Fallback(exclude) ==
  LET eligible == {i \in DOMAIN ProcessorOrder :
                     ProcessorOrder[i] # exclude /\ Cost[ProcessorOrder[i]] < MaxFallbackCost}
  IN  {ProcessorOrder[i] : i \in {k \in eligible : \A j \in eligible :
          \/ Cost[ProcessorOrder[k]] < Cost[ProcessorOrder[j]]
          \/ Cost[ProcessorOrder[k]] = Cost[ProcessorOrder[j]] /\ k <= j}}

(* There is somewhere to fall back to, as with the three processors and the
   costs of the code: the table of processors is not the single processor
   the failure came from. *)
ASSUME FallbackAssumption == \A p \in Processors : Fallback(p) # {}
=============================================================================

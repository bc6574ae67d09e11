------------------------------ MODULE MCRetry ------------------------------
(***************************************************************************)
(* Small instances of the orchestrator for TLC.  Processor costs are those *)
(* of domain.ProcessorCost, in cents.                                      *)
(***************************************************************************)
EXTENDS RetryProperties, TLC

TwoProcessors   == <<"A", "B">>
ThreeProcessors == <<"A", "B", "C">>

CostOfTwo   == "A" :> 30 @@ "B" :> 25
CostOfThree == CostOfTwo @@ "C" :> 20

RequestSymmetry == Permutations(Requests)
=============================================================================

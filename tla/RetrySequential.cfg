SPECIFICATION Spec
CONSTANTS
  Requests = {r1, r2, r3, r4}
  TxnIds = {t1, t2}
  Nil = Nil
  Operations = {"submit", "report", "reset"}
  Codes = {"ISSUER_UNAVAILABLE", "NETWORK_ERROR", "FRAUD_SUSPECTED"}
  Sources = {"A"}
  Reported = {"B", "C"}
  ClientTimes = {0}
  MaxInFlight = 1
  MaxRetries = 2
  Names = {"A", "B", "C"}
  Times = {0}
  MaxTime = 0
  Window = 1
  MinSamples = 2
  MaxRepeat = 0
  ProcessorOrder <- ThreeProcessors
  Cost <- CostOfThree
SYMMETRY RequestSymmetry
PROPERTIES
  DownOnlyAsLastResort
  ImplementsLifecycle

SPECIFICATION Spec
CONSTANTS
  Requests = {r1, r2, r3}
  TxnIds = {t1}
  Nil = Nil
  Operations = {"submit", "report", "reset"}
  Codes = {"ISSUER_UNAVAILABLE", "NETWORK_ERROR", "INSUFFICIENT_FUNDS"}
  Sources = {"A"}
  Reported = {"B", "X"}
  ClientTimes = {0}
  MaxInFlight = 3
  MaxRetries = 2
  Names = {"A", "B", "X"}
  Times = {0}
  MaxTime = 0
  Window = 1
  MinSamples = 1
  MaxRepeat = 0
  ProcessorOrder <- TwoProcessors
  Cost <- CostOfTwo
SYMMETRY RequestSymmetry
INVARIANTS
  TypeOK
  ChainsAreWhole
  HardNeverRetried
  CostsAddUp
  AlternativeMeansOther
  OrderListsStore
  AdaptiveLedger

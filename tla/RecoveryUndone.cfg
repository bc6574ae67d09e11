SPECIFICATION Spec
CONSTANTS
  Requests = {r1, r2}
  TxnIds = {t1}
  Nil = Nil
  Operations = {"submit", "report"}
  Codes = {"NETWORK_ERROR"}
  Sources = {"A"}
  Reported = {"B"}
  ClientTimes = {0}
  MaxInFlight = 3
  MaxRetries = 1
  Names = {"A", "B"}
  Times = {0}
  MaxTime = 0
  Window = 1
  MinSamples = 1
  MaxRepeat = 0
  ProcessorOrder <- TwoProcessors
  Cost <- CostOfTwo
INVARIANTS
  ReportedRecoveryKept

SPECIFICATION ReadersSpec
CONSTANTS
  Requests = {r1, r2}
  TxnIds = {"t1", "t2"}
  Nil = Nil
  Operations = {"submit", "report"}
  Codes = {"ISSUER_UNAVAILABLE", "INSUFFICIENT_FUNDS"}
  Sources = {"A"}
  Reported = {"B", "X"}
  ClientTimes = {0}
  MaxInFlight = 3
  MaxRetries = 2
  Names = {"A", "B", "X"}
  Times = {0}
  MaxTime = 0
  Window = 1
  MinSamples = 2
  MaxRepeat = 0
  ProcessorOrder <- TwoProcessors
  Cost <- CostOfTwo
  Amount <- AmountOfTwo
  Day = 0
  Readers = {q1}
  PageLimits = {Nil}
  DefaultLimit = 1
SYMMETRY RequestSymmetry
INVARIANTS
  WalkSeesEverything
  RecoveryRateAtMostOne
  ProcessorsShareRetries
  HealthLedger
  AuditMatchesReply
  HistoryIsExplained
  MetricsInHealth

SPECIFICATION JobsFairSpec
CONSTANTS
  Requests = {"r1", "r2", "r3"}
  TxnIds = {t1, t2}
  Nil = Nil
  Operations = {}
  Codes = {"ISSUER_UNAVAILABLE", "CARD_EXPIRED"}
  Sources = {"A"}
  Reported = {}
  ClientTimes = {0}
  MaxInFlight = 0
  MaxRetries = 1
  Names = {"A", "B"}
  Times = {0}
  MaxTime = 0
  Window = 1
  MinSamples = 9
  MaxRepeat = 0
  ProcessorOrder <- TwoProcessors
  Cost <- CostOfTwo
  Batches = {"batch"}
  Generators = {"generator"}
  Calls <- TwoAndOne
  Generated = {t1}
INVARIANTS
  AnswersAddUp
  GeneratorsSettle
PROPERTIES
  EveryJobAnswered

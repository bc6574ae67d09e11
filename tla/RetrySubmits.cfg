SPECIFICATION FairSpec
CONSTANTS
  Requests = {r1, r2}
  TxnIds = {t1, t2}
  Nil = Nil
  Operations = {"submit"}
  Codes = {"NETWORK_ERROR", "CARD_EXPIRED"}
  Sources = {"A"}
  Reported = {"B"}
  ClientTimes = {0}
  MaxInFlight = 3
  MaxRetries = 2
  Names = {"A", "B"}
  Times = {0, 1}
  MaxTime = 1
  Window = 0
  MinSamples = 2
  MaxRepeat = 0
  ProcessorOrder <- TwoProcessors
  Cost <- CostOfTwo
INVARIANTS
  OneChainPerTransaction
  AuditMatchesReply
  ReplyMatchesStore
PROPERTIES
  EveryRequestAnswered
  SoftDeclinesResolve
  ImplementsLifecycle

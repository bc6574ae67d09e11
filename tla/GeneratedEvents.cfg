SPECIFICATION Spec
CONSTANTS
  TotalCount = 4
  Codes = {"CARD_EXPIRED", "NETWORK_ERROR"}
  HardWeights <- Fifths
  SoftWeights <- SoftFifths
  Span = 3
  DegradeStart = 1
  DegradeEnd = 2
  Day = 36
INVARIANTS
  PickHonoursWeights
  ShuffleKeepsEvents
  EventsInDefaultRange

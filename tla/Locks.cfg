SPECIFICATION FairSpec
CONSTANTS
  Threads = {g1, g2}
  MaxAttempts = 2
INVARIANTS
  TypeOK
  NoDataRace
  SomeoneCanProceed
PROPERTIES
  EveryOperationReturns

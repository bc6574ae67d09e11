SPECIFICATION HealthFairSpec
CONSTANTS
  Names = {p1, p2}
  Times <- MCTimes
  MaxTime = 4
  Window = 2
  MinSamples = 3
  MaxRepeat = 2
INVARIANT HealthTypeOK
PROPERTIES
  ImplementsRollingWindow
  WritePrunes
  SuccessNeverWorsens
  RecoversByItself

SPECIFICATION SysFairSpec
CONSTANTS
  Configs <- AllRuns
  Setups <- FailingSetups
  HighWaterMark = 2
INVARIANTS
  CleanExit
  NoStandstill
  CrashHasCause
PROPERTIES
  EndsOrStalls
CHECK_DEADLOCK FALSE

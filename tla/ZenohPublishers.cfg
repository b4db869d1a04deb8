SPECIFICATION SysSpec
CONSTANTS
  Configs <- TeleopRuns
  Setups <- ZenohSetups
  HighWaterMark = 2
INVARIANTS
  NoCrash
CHECK_DEADLOCK FALSE

SPECIFICATION SysFairSpec
CONSTANTS
  Configs <- AllRuns
  Setups <- WorkingSetups
  HighWaterMark = 2
INVARIANTS
  WorkersTypeOK
  NoCrash
  CleanExit
  OneCamera
  ControlBracketed
  VideoFollowsTeleoperation
PROPERTIES
  AllExit

SPECIFICATION FairSpec
CONSTANT Configs <- TeleopConfigs
INVARIANTS
  TypeOK
  OneStateStream
  NodesAndEdgesInStep
  OneOrderStream
  OrderStreamsBounded
  BacklogBounded
  ControlOnlyWhileTeleoperating
PROPERTIES
  ImplementsTeleopSession
  Termination

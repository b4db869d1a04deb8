SPECIFICATION FairSpec
CONSTANT Configs <- VdaConfigs
INVARIANTS
  TypeOK
  OneStateStream
  NodesAndEdgesInStep
  OneOrderStream
  RouteInOrder
PROPERTIES
  ImplementsOrderExecution
  Termination

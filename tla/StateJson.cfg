SPECIFICATION Spec
CONSTANT Configs <- VdaConfigs
INVARIANT
  ListsWellFormed

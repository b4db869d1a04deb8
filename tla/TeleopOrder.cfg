SPECIFICATION Spec
CONSTANT Configs <- TeleopConfigs
INVARIANT
  NoOrderWhileTeleoperating

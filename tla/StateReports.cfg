SPECIFICATION ReportsSpec
CONSTANT Configs <- ReportConfigs
INVARIANTS
  OneStateStream
  StrayStreamsBounded
  StateSilenceBounded

CONSTANTS
  Absent = Absent
  Invalid = Invalid
  Torn = Torn
  NoLag = NoLag
  Repositories <- MCRepositories
  MaxBuilds = 1
  LongNames = {"long"}
  KnownPipeline = "retail_data_platform_pipeline"
  OrderGroup = "order-processing-group-v1"
  MaxLineageNodes = 2
  LineageDepth = 1
  MaxFaults = 2
  Alerts <- MCAlerts
SPECIFICATION Spec
INVARIANTS
  TypeOK
  AnswersMatch
  CompletedOnlyOffIndex
  OnlyACrashLosesTheReport
  ImpactComplete
  FinishedBuildValidates

PROPERTY
  SessionEnds
CHECK_DEADLOCK FALSE

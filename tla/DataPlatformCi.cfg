\* Five revisions of a small project; two runs of Slim CI, or one and two gates, or three gates.
SPECIFICATION Spec
CONSTANTS
  Absent = Absent
  Local = Local
  MetricColumns = {}
  StatedGrains = {"one row"}
  RequiredModels = {"fct_orders", "mart_daily_sales"}
  UnfilteredModel = "fct_orders"
  Tree <- MCTree
  FirstRevision = "base"
  LocalIds <- LookAlikeIds
  MaxLoad = 7
INVARIANTS
  TypeOK
  SchemasAccountedFor
  GreenChainKeepsPromises
  PolicyNeverWeakens
PROPERTIES
  PassedInForce
  LatestPushJudged
CHECK_DEADLOCK FALSE

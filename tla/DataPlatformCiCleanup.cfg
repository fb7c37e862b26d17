\* Two runs of Slim CI by hand.
SPECIFICATION Spec
CONSTANTS
  Absent = Absent
  Local = Local
  MetricColumns = {}
  StatedGrains = {"one row"}
  RequiredModels = {"fct_orders", "mart_daily_sales"}
  UnfilteredModel = "fct_orders"
  Tree <- MCTree
  FirstRevision = "base"
  LocalIds <- PrefixIds
  MaxLoad = 6
PROPERTY
  OnlyOwnSchemasDropped
CHECK_DEADLOCK FALSE

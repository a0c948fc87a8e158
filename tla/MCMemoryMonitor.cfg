SPECIFICATION PipelineSpec
CONSTANTS
  Sample <- MCSample
  HalfWord = 4
  MetricName <- MCMetricName
  Time <- MCTime
  Foreign <- MCForeign
INVARIANTS GaugesExact PointsTranslated
PROPERTIES MonitorQuits
CHECK_DEADLOCK FALSE

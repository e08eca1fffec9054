\* Two concurrent executions, two data sources.
SPECIFICATION SafeSpec
CONSTANTS
  Queries = {q1, q2}
  DataSources = {glue1, glue2}
  Clusters = {local}
  Local = local
  SessionClusters = {local}
  LiveStatuses = {"running"}
  MaxDeletes = 1
  None = None
SYMMETRY QuerySymmetry
INVARIANTS OutcomeReported ReportIsTrue SessionOfDataSource
PROPERTIES FulfilledIsFinal NoPollAfterCancel
CHECK_DEADLOCK FALSE

\* Two queries, run together or one after the other, and one synchronous run.
SPECIFICATION MainSafeSpec
CONSTANTS
  Queries = {q1, q2}
  DataSources = {glue}
  Clusters = {local}
  Local = local
  SessionClusters = {}
  LiveStatuses = {"running"}
  MaxDeletes = 1
  None = None
  OpenSearch = OpenSearch
  Sync = Sync
  MaxSync = 1
SYMMETRY QuerySymmetry
INVARIANTS LoadingExplained ShownSucceeded
CHECK_DEADLOCK FALSE

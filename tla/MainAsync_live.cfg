\* One query, every live status, a local and a remote cluster, a second DELETE
\* while the first is in flight; liveness under MainFairness.
SPECIFICATION MainSpec
CONSTANTS
  Queries = {q1}
  DataSources = {glue}
  Clusters = {local, remote}
  Local = local
  SessionClusters = {remote}
  LiveStatuses = {"pending", "running", "scheduled", "waiting"}
  MaxDeletes = 2
  None = None
  OpenSearch = OpenSearch
  Sync = Sync
  MaxSync = 1
PROPERTIES LoadingEnds ImplementsAsyncJob
CHECK_DEADLOCK FALSE

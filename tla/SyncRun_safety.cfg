\* OpenSearch 3: no JSON format.
SPECIFICATION Spec
CONSTANTS
  q1 = q1
  q2 = q2
  Queries = {q1, q2}
  Batches <- SmallBatches
  Clusters = {local}
  Connections = {glue}
  OpenSearch = OpenSearch
  Offered = {"jdbc", "csv"}
  MaxRequests = 2
INVARIANTS SelectedTabHasTable TableMatchesBodies JdbcFailsOnlyOnAsync FullScreenHasExit
PROPERTIES RunShown
CHECK_DEADLOCK FALSE

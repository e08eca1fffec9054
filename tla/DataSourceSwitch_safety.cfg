\* Elasticsearch, OpenSearch without the data source API, OpenSearch with a connection.
SPECIFICATION Spec
CONSTANTS
  Clusters = {es, os1, os2}
  Legacy = {es}
  FlintApi = {os2}
  Connected = {os2}
  MaxSwitches = 2
  None = None
INVARIANTS TreeOfSelected TreeComes
PROPERTIES LatestAnswersShow
CHECK_DEADLOCK FALSE

\* Two requests, the local cluster and one data source; as many promises as
\* the requests can ever need, so that the bound stops nobody.
SPECIFICATION Spec
CONSTANTS
  Requests = {r1, r2}
  Targets = {local, remote}
  Local = local
  Promises = {p1, p2, p3}
  Deployments <- SmallDeployments
  None = None
INVARIANTS NoFailureKept OneAnswer RoutedRight
PROPERTIES RequestsEnd
CHECK_DEADLOCK FALSE

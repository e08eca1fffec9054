SPECIFICATION FairSpec
CONSTANTS
  near = near
  other = other
  far = far
  db1 = db1
  db2 = db2
  None = None
  Conns <- MCConns
  Cluster <- MCCluster
  Name <- MCName
  Databases <- MCDatabases
  Catalog <- MCCatalog
  MaxTreeLoads = 3
  MaxObjectLoads = 2
INVARIANTS FilledOnce TreeOfSelected TablesOfTree
PROPERTIES Unlocks SpinnerEnds
CHECK_DEADLOCK FALSE

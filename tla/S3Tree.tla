-------------------------------- MODULE S3Tree --------------------------------
(***************************************************************************)
(* The catalog tree of a Flint data source (public/components/SQLPage/     *)
(* sql_catalog_tree/s3_tree.tsx and s3_tree_helpers.tsx), as catalog_tree  *)
(* .tsx mounts it on the Data source Connections tab.                      *)
(*                                                                         *)
(* The catalog cache and the three hooks that load it belong to the        *)
(* observability plugin and are external: a hook follows the load that was *)
(* started last, and when it ends the cache says Updated or Failed before  *)
(* the effect on the status runs.  An effect and the effects that follow   *)
(* from it run before the next event.                                      *)
(*                                                                         *)
(* A connection is a data source of a cluster.  Every database of a        *)
(* connection has one table with one index, and one materialized view;     *)
(* an item of the tree remembers the connection it was read from.          *)
(***************************************************************************)
EXTENDS Naturals, Sequences

CONSTANTS
  Conns,      \* the connections of all clusters
  Cluster,    \* the cluster of a connection
  Name,       \* its name, which is unique in a cluster only
  Databases,  \* the names of databases
  Catalog,    \* the databases of a connection
  MaxTreeLoads,    \* bound on the loads of databases
  MaxObjectLoads,  \* bound on the loads of a database's objects
  None

ASSUME ConnAssumption ==
  /\ None \notin Conns \cup Databases \cup (Conns \X Databases)
  /\ Catalog \in [Conns -> SUBSET Databases]
ASSUME BoundAssumption == MaxTreeLoads \in Nat /\ MaxObjectLoads \in Nat

VARIABLES
  source,          \* dataSource and dataSourceMDSId, None while not mounted
  treeStatus,      \* isTreeLoading.status
  treeMessage,     \* isTreeLoading.message is not empty
  treeData,
  treeOf,          \* where the databases of treeData were read from
  currentSelectedDatabase,
  tableStatus, accelerationsStatus,  \* isObjectLoading
  flyout,          \* the acceleration details were opened, with handleRefresh
  databasesLoad, tablesLoad, accelerationsLoad,  \* what each hook is loading
  cache,           \* CatalogCacheManager
  loads            \* loads started so far

treeVars == <<treeStatus, treeMessage, treeData, treeOf>>
objectVars == <<currentSelectedDatabase, tableStatus, accelerationsStatus>>
hookVars == <<databasesLoad, tablesLoad, accelerationsLoad>>
s3Vars == <<source, treeVars, objectVars, flyout, hookVars, cache, loads>>

CachedDataSourceStatus == {"Updated", "Failed", "Empty"}

Kinds == {"table", "materialized"}
Items == [kind : Kinds, of : Conns, index : Conns \cup {None}]
Nodes == [isExpanded : BOOLEAN, isLoading : BOOLEAN, values : Seq(Items)]
FreshNode == [isExpanded |-> FALSE, isLoading |-> FALSE, values |-> <<>>]

\* getOrCreateDataSource, getDatabase, getOrCreateAccelerationsByDataSource:
\* what the cache has of a connection.
Entries == [databases : CachedDataSourceStatus,
            tables : [Databases -> CachedDataSourceStatus],
            accelerations : CachedDataSourceStatus]
EmptyEntry == [databases |-> "Empty",
               tables |-> [d \in Databases |-> "Empty"],
               accelerations |-> "Empty"]

\* getDatabase throws for a database the cache does not list.
Listed(c, d) == cache[c].databases = "Updated" /\ d \in Catalog[c]

NoTree == [d \in {} |-> FreshNode]

TypeOK ==
  /\ source \in Conns \cup {None}
  /\ treeStatus \in BOOLEAN /\ treeMessage \in BOOLEAN
  /\ treeOf \in Conns \cup {None}
  /\ DOMAIN treeData \subseteq Databases
  /\ \A d \in DOMAIN treeData : treeData[d] \in Nodes
  /\ currentSelectedDatabase \in Databases \cup {None}
  /\ tableStatus \in BOOLEAN /\ accelerationsStatus \in BOOLEAN
  /\ flyout \in BOOLEAN
  /\ databasesLoad \in Conns \cup {None}
  /\ tablesLoad \in (Conns \X Databases) \cup {None}
  /\ accelerationsLoad \in Conns \cup {None}
  /\ cache \in [Conns -> Entries]
  /\ loads \in [databases : 0..MaxTreeLoads, objects : 0..MaxObjectLoads]

Init ==
  /\ source = None
  /\ treeStatus = FALSE /\ treeMessage = FALSE
  /\ treeData = NoTree /\ treeOf = None
  /\ currentSelectedDatabase = None
  /\ tableStatus = FALSE /\ accelerationsStatus = FALSE
  /\ flyout = FALSE
  /\ databasesLoad = None /\ tablesLoad = None /\ accelerationsLoad = None
  /\ cache = [c \in Conns |-> EmptyEntry]
  /\ loads = [databases |-> 0, objects |-> 0]

-----------------------------------------------------------------------------
(* Helpers *)

\* What the user sees: the spinner, the failure, or the tree.
Spinner == source # None /\ treeStatus /\ ~treeMessage
ShowsTree == source # None /\ ~treeStatus /\ ~treeMessage

\* isEitherObjectCacheEmpty: FALSE as well when getDatabase throws.
isEitherObjectCacheEmpty(c, d) ==
  Listed(c, d) /\ (cache[c].tables[d] # "Updated" \/ cache[c].accelerations # "Updated")

\* getTablesFromCache: nothing, with a toast, when getDatabase throws.
getTablesFromCache(c, d, from) ==
  IF from[c].databases = "Updated" /\ d \in Catalog[c] /\ from[c].tables[d] = "Updated"
  THEN <<"table">> ELSE <<>>

\* getAccelerationsFromCache with the id of the cluster: those of connection c.
AccelerationsOf(c, from) == IF from[c].accelerations = "Updated" THEN c ELSE None

\* Without the id it is an entry of that name, of any cluster.
AccelerationsNamed(c, from) ==
  {AccelerationsOf(e, from) : e \in {e \in Conns : Name[e] = Name[c]}}

\* constructObjectTree with findSkippingAndCoveringIndexNames and
\* findMaterializedViewsForDatabase.
constructObjectTree(tables, c, accelerations) ==
  [i \in DOMAIN tables |-> [kind |-> "table", of |-> c, index |-> accelerations]]
    \o IF accelerations = None THEN <<>>
       ELSE <<[kind |-> "materialized", of |-> accelerations, index |-> None]>>

\* updateDatabaseState: a database the tree does not have is not added, and
\* values are appended.
updateDatabaseState(tree, d, loading, values) ==
  [e \in DOMAIN tree |->
     IF e # d THEN tree[e]
     ELSE [isExpanded |-> TRUE, isLoading |-> loading, values |-> tree[e].values \o values]]

\* refreshDatabasesinTree
Collapsed(tree) == [d \in DOMAIN tree |-> FreshNode]

\* The items of the databases the cache lists for connection c.
DatabaseItems(c) == [d \in Catalog[c] |-> FreshNode]

-----------------------------------------------------------------------------
(* The tree of databases *)

startDatabasesLoading(c) ==
  /\ loads.databases < MaxTreeLoads
  /\ databasesLoad' = c
  /\ loads' = [loads EXCEPT !.databases = @ + 1]

\* onLoadS3Tree: the databases are cached, or have to be loaded.  After a failed
\* load neither is the case, and the loading state stays.  `tree` is what the
\* component shows now.
onLoadS3Tree(c, tree, of) ==
  /\ treeMessage' = FALSE
  /\ CASE cache[c].databases = "Updated" ->
            /\ treeStatus' = FALSE
            /\ treeData' = DatabaseItems(c) /\ treeOf' = c
            /\ UNCHANGED <<databasesLoad, loads>>
       [] cache[c].databases = "Empty" ->
            /\ treeStatus' = TRUE
            /\ treeData' = tree /\ treeOf' = of
            /\ startDatabasesLoading(c)
       [] cache[c].databases = "Failed" ->
            /\ treeStatus' = TRUE
            /\ treeData' = tree /\ treeOf' = of
            /\ UNCHANGED <<databasesLoad, loads>>

\* The user picks a connection on the tab: the component mounts.
Mount(c) ==
  /\ source = None
  /\ source' = c
  /\ onLoadS3Tree(c, NoTree, None)
  /\ UNCHANGED <<objectVars, flyout, tablesLoad, accelerationsLoad, cache>>

\* Slip: the effect does not depend on dataSource.
SelectSource_NoEffect(c) ==
  /\ source # None /\ c # source /\ Cluster[c] = Cluster[source]
  /\ source' = c
  /\ UNCHANGED <<treeVars, objectVars, flyout, hookVars, cache, loads>>

\* Another connection of the same cluster: the effect on dataSource.  What is
\* selected, loading or shown stays.
SelectSource(c) ==
  /\ source # None /\ c # source /\ Cluster[c] = Cluster[source]
  /\ source' = c
  /\ onLoadS3Tree(c, treeData, treeOf)
  /\ UNCHANGED <<objectVars, flyout, tablesLoad, accelerationsLoad, cache>>

\* The same effect when the language changes.
ChangeLanguage ==
  /\ source # None
  /\ onLoadS3Tree(source, treeData, treeOf)
  /\ UNCHANGED <<source, objectVars, flyout, tablesLoad, accelerationsLoad, cache>>

\* The other tab, or another cluster in the menu: the cleanup stops the loads.
Unmount ==
  /\ source # None
  /\ source' = None
  /\ treeStatus' = FALSE /\ treeMessage' = FALSE
  /\ treeData' = NoTree /\ treeOf' = None
  /\ currentSelectedDatabase' = None
  /\ tableStatus' = FALSE /\ accelerationsStatus' = FALSE
  /\ flyout' = FALSE
  /\ databasesLoad' = None /\ tablesLoad' = None /\ accelerationsLoad' = None
  /\ UNCHANGED <<cache, loads>>

\* The effect on refreshTree: onRefreshTree.
RefreshTree ==
  /\ source # None
  /\ treeStatus' = TRUE /\ treeMessage' = FALSE
  /\ startDatabasesLoading(source)
  /\ UNCHANGED <<source, treeData, treeOf, objectVars, flyout, tablesLoad, accelerationsLoad, cache>>

\* The effect on loadDatabasesStatus when the load succeeds.  The databases are
\* new to the cache, their tables are not in it; the tree is made from the entry
\* of the connection that is selected now.
DatabasesLoaded ==
  /\ databasesLoad # None
  /\ databasesLoad' = None
  /\ cache' = [cache EXCEPT ![databasesLoad].databases = "Updated",
                            ![databasesLoad].tables = [d \in Databases |-> "Empty"]]
  /\ treeStatus' = FALSE /\ treeMessage' = FALSE
  /\ IF cache'[source].databases = "Updated"
     THEN treeData' = DatabaseItems(source) /\ treeOf' = source
     ELSE treeData' = Collapsed(treeData) /\ UNCHANGED treeOf
  /\ UNCHANGED <<source, objectVars, flyout, tablesLoad, accelerationsLoad, loads>>

\* Slip: a cancelled load, which the cache does not keep, is left out.
DatabasesFailed_CancelledIgnored ==
  /\ databasesLoad # None
  /\ databasesLoad' = None
  /\ cache' = [cache EXCEPT ![databasesLoad].databases = "Empty"]
  /\ UNCHANGED <<source, treeVars, objectVars, flyout, tablesLoad, accelerationsLoad, loads>>

\* The same effect when the load fails or is cancelled.
DatabasesFailed ==
  /\ databasesLoad # None
  /\ databasesLoad' = None
  /\ cache' = [cache EXCEPT ![databasesLoad].databases = "Failed"]
  /\ treeStatus' = FALSE /\ treeMessage' = TRUE
  /\ UNCHANGED <<source, treeData, treeOf, objectVars, flyout, tablesLoad, accelerationsLoad, loads>>

-----------------------------------------------------------------------------
(* The objects of a database *)

\* Slip: a second database can be opened while one is loading.
CanClick_Always(d) == ShowsTree /\ d \in DOMAIN treeData /\ treeData[d].values = <<>>

\* The callback of a database is there for one without values; onClickDatabase
\* does no more than warn while another is loading.
CanClick(d) ==
  /\ ShowsTree /\ d \in DOMAIN treeData /\ treeData[d].values = <<>>
  /\ currentSelectedDatabase = None

\* onClickDatabase when the cache has all, or cannot find the database.
OpenCached(d) ==
  /\ CanClick(d)
  /\ ~isEitherObjectCacheEmpty(source, d)
  /\ treeData' = updateDatabaseState(treeData, d, FALSE,
                   constructObjectTree(getTablesFromCache(source, d, cache), source,
                                       AccelerationsOf(source, cache)))
  /\ UNCHANGED <<source, treeStatus, treeMessage, treeOf, objectVars, flyout, hookVars, cache, loads>>

\* onClickDatabase when something is missing: both are loaded.
OpenLoading(d) ==
  /\ CanClick(d)
  /\ isEitherObjectCacheEmpty(source, d)
  /\ loads.objects < MaxObjectLoads
  /\ loads' = [loads EXCEPT !.objects = @ + 1]
  /\ currentSelectedDatabase' = d
  /\ treeData' = updateDatabaseState(treeData, d, TRUE, <<>>)
  /\ tableStatus' = TRUE /\ accelerationsStatus' = TRUE
  /\ tablesLoad' = <<source, d>> /\ accelerationsLoad' = source
  /\ UNCHANGED <<source, treeStatus, treeMessage, treeOf, flyout, databasesLoad, cache>>

\* Slip: nothing is done when the cache has no tables after all.
ObjectsSettle_OnlyTables(d, tables, accelerations) ==
  IF ~tables /\ ~accelerations /\ d # None /\ getTablesFromCache(source, d, cache') # <<>>
  THEN /\ currentSelectedDatabase' = None
       /\ \E a \in AccelerationsNamed(source, cache') :
            treeData' = updateDatabaseState(treeData, d, FALSE,
                          constructObjectTree(getTablesFromCache(source, d, cache'), source, a))
  ELSE UNCHANGED <<currentSelectedDatabase, treeData>>

\* The effect on isObjectLoading: once neither is loading the database is filled
\* from what the cache has for the connection that is selected now.
ObjectsSettle(d, tables, accelerations) ==
  IF ~tables /\ ~accelerations /\ d # None
  THEN /\ currentSelectedDatabase' = None
       /\ \E a \in AccelerationsNamed(source, cache') :
            treeData' = updateDatabaseState(treeData, d, FALSE,
                          constructObjectTree(getTablesFromCache(source, d, cache'), source, a))
  ELSE UNCHANGED <<currentSelectedDatabase, treeData>>

\* The effect on loadTablesStatus, for every way the load can end.  The cache
\* cannot keep the tables of a database it does not list.
TablesEnd(result) ==
  /\ tablesLoad # None
  /\ tablesLoad' = None
  /\ tableStatus' = FALSE
  /\ LET c == tablesLoad[1]
         d == tablesLoad[2]
     IN  cache' = IF Listed(c, d) THEN [cache EXCEPT ![c].tables[d] = result] ELSE cache
  /\ ObjectsSettle(currentSelectedDatabase, FALSE, accelerationsStatus)
  /\ UNCHANGED <<source, treeStatus, treeMessage, treeOf, accelerationsStatus, flyout,
                 databasesLoad, accelerationsLoad, loads>>

\* The effect on loadAccelerationsStatus.
AccelerationsEnd(result) ==
  /\ accelerationsLoad # None
  /\ accelerationsLoad' = None
  /\ accelerationsStatus' = FALSE
  /\ cache' = [cache EXCEPT ![accelerationsLoad].accelerations = result]
  /\ ObjectsSettle(currentSelectedDatabase, tableStatus, FALSE)
  /\ UNCHANGED <<source, treeStatus, treeMessage, treeOf, tableStatus, flyout,
                 databasesLoad, tablesLoad, loads>>

\* onClickAcceleration on a view or an index: the flyout opens.
OpenAcceleration(d) ==
  /\ ShowsTree /\ d \in DOMAIN treeData
  /\ \E i \in DOMAIN treeData[d].values :
       treeData[d].values[i].kind = "materialized" \/ treeData[d].values[i].index # None
  /\ flyout' = TRUE
  /\ UNCHANGED <<source, treeVars, objectVars, hookVars, cache, loads>>

\* The flyout's handleRefresh.
RefreshFromFlyout ==
  /\ flyout
  /\ treeData' = Collapsed(treeData)
  /\ UNCHANGED <<source, treeStatus, treeMessage, treeOf, objectVars, flyout, hookVars, cache, loads>>

-----------------------------------------------------------------------------
(* Specification *)

LoadsEnd ==
  \/ DatabasesLoaded \/ DatabasesFailed
  \/ \E result \in {"Updated", "Failed"} : TablesEnd(result) \/ AccelerationsEnd(result)

Next ==
  \/ \E c \in Conns : Mount(c) \/ SelectSource(c)
  \/ ChangeLanguage \/ RefreshTree \/ Unmount
  \/ \E d \in Databases : OpenCached(d) \/ OpenLoading(d) \/ OpenAcceleration(d)
  \/ RefreshFromFlyout
  \/ LoadsEnd

\* A load ends, one way or the other; nobody has to click anything.
Fairness ==
  /\ WF_s3Vars(DatabasesLoaded \/ DatabasesFailed)
  /\ WF_s3Vars(\E result \in {"Updated", "Failed"} : TablesEnd(result))
  /\ WF_s3Vars(\E result \in {"Updated", "Failed"} : AccelerationsEnd(result))

Spec == Init /\ [][Next]_s3Vars
FairSpec == Spec /\ Fairness

-----------------------------------------------------------------------------
(* Properties *)

\* While a database is selected every other click is refused, so what it waits
\* for has to be on its way: each flag of isObjectLoading stands for a load of
\* its hook, and one of them is up.
LockExplained ==
  /\ tableStatus = (tablesLoad # None)
  /\ accelerationsStatus = (accelerationsLoad # None)
  /\ currentSelectedDatabase # None => tableStatus \/ accelerationsStatus

\* updateDatabaseState appends to the values: no sequence of clicks, refreshes
\* and late answers fills a database twice.
FilledOnce ==
  \A d \in DOMAIN treeData : \A i, j \in DOMAIN treeData[d].values :
    treeData[d].values[i].kind = treeData[d].values[j].kind => i = j

\* A database shows a spinner only while it is the one that is being loaded,
\* also when the tree was rebuilt or another connection selected meanwhile.
SpinnerOfSelected ==
  \A d \in DOMAIN treeData : treeData[d].isLoading => d = currentSelectedDatabase

\* "Loading databases" is shown while they are loaded, or because the cache has
\* a failed load for the connection.
TreeSpinnerExplained ==
  Spinner => databasesLoad # None \/ cache[source].databases = "Failed"

\* The databases shown are those of the selected connection, whatever loads of
\* another one end meanwhile, unless loading them has failed.
TreeOfSelected ==
  ShowsTree /\ treeOf # source => cache[source].databases = "Failed"

\* The tables under a database were read from the connection the tree is of.
TablesOfTree ==
  \A d \in DOMAIN treeData : \A i \in DOMAIN treeData[d].values :
    treeData[d].values[i].kind = "table" => treeData[d].values[i].of = treeOf

\* Once a database has been clicked the others can be clicked again later, also
\* after a failed load.
Unlocks == currentSelectedDatabase # None ~> currentSelectedDatabase = None

\* A load of databases takes the spinner away when it ends, also when another
\* connection has been selected meanwhile.
SpinnerEnds == (Spinner /\ databasesLoad # None) ~> ~Spinner
=============================================================================

---------------------------- MODULE S3TreeProofs ----------------------------
(***************************************************************************)
(* Proofs about S3Tree, for every set of connections and databases and any *)
(* number of loads.                                                        *)
(***************************************************************************)
EXTENDS S3Tree, SequenceTheorems, TLAPS

\* Without a connection nothing is shown, selected or loading.
Mounted ==
  source = None =>
    /\ ~treeStatus /\ DOMAIN treeData = {} /\ currentSelectedDatabase = None
    /\ databasesLoad = None /\ tablesLoad = None /\ accelerationsLoad = None

\* What the cache has of the selected connection is what the tree is made of;
\* if it has nothing yet, it is being loaded and the spinner says so.
CacheShown ==
  source # None =>
    /\ cache[source].databases = "Updated" => treeOf = source
    /\ cache[source].databases = "Empty" => databasesLoad = source /\ treeStatus /\ ~treeMessage

\* The database that is being loaded has no objects yet.
SelectedEmpty ==
  \A d \in DOMAIN treeData : d = currentSelectedDatabase => treeData[d].values = <<>>

TreeSound == SpinnerOfSelected /\ SelectedEmpty /\ TablesOfTree /\ FilledOnce

\* The inductive invariant.
Sound ==
  /\ TypeOK /\ Mounted /\ CacheShown
  /\ LockExplained /\ TreeSpinnerExplained /\ TreeSound

-----------------------------------------------------------------------------
(* Operators *)

LEMMA TablesCached ==
  ASSUME NEW c, NEW d, NEW from
  PROVE  /\ getTablesFromCache(c, d, from) \in {<<>>, <<"table">>}
         /\ from[c].databases # "Updated" => getTablesFromCache(c, d, from) = <<>>
BY DEF getTablesFromCache

\* The objects of a database are items, the tables are of the connection, and
\* there is at most one of each kind.
LEMMA Constructed ==
  ASSUME NEW tables \in {<<>>, <<"table">>}, NEW c \in Conns, NEW a \in Conns \cup {None},
         NEW s, s = constructObjectTree(tables, c, a)
  PROVE  /\ s \in Seq(Items)
         /\ \A i \in DOMAIN s : s[i].kind = "table" => s[i].of = c /\ tables # <<>>
         /\ \A i, j \in DOMAIN s : s[i].kind = s[j].kind => i = j
<1> DEFINE table == [kind |-> "table", of |-> c, index |-> a]
           view  == [kind |-> "materialized", of |-> a, index |-> None]
<1>1. [i \in DOMAIN tables |-> table] = IF tables = <<>> THEN <<>> ELSE <<table>>
  OBVIOUS
<1>2. s = (IF tables = <<>> THEN <<>> ELSE <<table>>) \o (IF a = None THEN <<>> ELSE <<view>>)
  BY <1>1 DEF constructObjectTree
<1>3. table \in Items /\ (a # None => view \in Items)
  BY DEF Items, Kinds
<1>4. CASE tables # <<>> /\ a # None
  <2>1. s = <<table>> \o <<view>> /\ <<table>> \in Seq(Items) /\ <<view>> \in Seq(Items)
    BY <1>2, <1>3, <1>4
  <2>2. /\ s \in Seq(Items) /\ Len(s) = 2
        /\ \A i \in 1..2 : s[i] = IF i <= 1 THEN <<table>>[i] ELSE <<view>>[i - 1]
    BY <2>1, ConcatProperties
  <2>3. DOMAIN s = {1, 2} /\ s[1] = table /\ s[2] = view
    BY <2>2
  <2>4. QED
    BY <1>4, <2>2, <2>3
<1>5. CASE tables = <<>> \/ a = None
  <2>1. \/ s = <<>>
        \/ s = <<table>> /\ tables # <<>>
        \/ s = <<view>> /\ a # None
    <3>1. <<>> \o <<>> = <<>>
      OBVIOUS
    <3>2. <<table>> \o <<>> = <<table>>
      OBVIOUS
    <3>3. <<>> \o <<view>> = <<view>>
      OBVIOUS
    <3>4. QED
      BY <1>2, <1>5, <3>1, <3>2, <3>3, Zenon
  <2>2. CASE s = <<>>
    BY <2>2
  <2>3. CASE s = <<table>> /\ tables # <<>>
    BY <1>3, <2>3
  <2>4. CASE s = <<view>> /\ a # None
    BY <1>3, <2>4
  <2>5. QED
    BY <2>1, <2>2, <2>3, <2>4
<1>6. QED
  BY <1>4, <1>5

\* The items of the cache and a collapsed tree have no objects and no spinner.
LEMMA FreshTrees ==
  /\ \A c \in Conns : \A d \in Catalog[c] : DatabaseItems(c)[d] = FreshNode
  /\ \A c \in Conns : DOMAIN DatabaseItems(c) = Catalog[c]
  /\ \A tree : DOMAIN Collapsed(tree) = DOMAIN tree
  /\ \A tree : \A d \in DOMAIN tree : Collapsed(tree)[d] = FreshNode
  /\ FreshNode \in Nodes
BY DEF DatabaseItems, Collapsed, FreshNode, Nodes

\* A tree of fresh databases is sound, whatever is selected.
LEMMA FreshTreeSound ==
  ASSUME \A d \in DOMAIN treeData' : treeData'[d] = FreshNode
  PROVE  TreeSound'
BY DEF TreeSound, SpinnerOfSelected, SelectedEmpty, TablesOfTree, FilledOnce, FreshNode

\* onLoadS3Tree shows what is cached or loads what is not.
LEMMA Loaded ==
  ASSUME TypeOK, NEW c \in Conns, NEW tree, NEW of, onLoadS3Tree(c, tree, of),
         source' = c, UNCHANGED cache
  PROVE  /\ treeStatus' \in BOOLEAN /\ treeMessage' \in BOOLEAN
         /\ databasesLoad' \in Conns \cup {None}
         /\ loads' \in [databases : 0..MaxTreeLoads, objects : 0..MaxObjectLoads]
         /\ CacheShown' /\ TreeSpinnerExplained'
         /\ \/ treeData' = DatabaseItems(c) /\ treeOf' = c
            \/ treeData' = tree /\ treeOf' = of
<1>1. cache[c].databases \in {"Updated", "Failed", "Empty"}
  BY DEF TypeOK, Entries, CachedDataSourceStatus
<1> USE ConnAssumption, BoundAssumption DEF onLoadS3Tree, TypeOK
<1>2. CASE cache[c].databases = "Updated"
  BY <1>2 DEF CacheShown, TreeSpinnerExplained, Spinner
<1>3. CASE cache[c].databases = "Failed"
  BY <1>3 DEF CacheShown, TreeSpinnerExplained, Spinner
<1>4. CASE cache[c].databases = "Empty"
  <2>1. /\ startDatabasesLoading(c) /\ treeStatus' = TRUE /\ treeMessage' = FALSE
        /\ treeData' = tree /\ treeOf' = of
    BY <1>4
  <2>2. databasesLoad' = c /\ loads' \in [databases : 0..MaxTreeLoads, objects : 0..MaxObjectLoads]
    BY <2>1 DEF startDatabasesLoading
  <2>3. QED
    BY <1>4, <2>1, <2>2 DEF CacheShown, TreeSpinnerExplained, Spinner
<1>5. QED
  BY <1>1, <1>2, <1>3, <1>4

\* Filling the selected database keeps the tree sound.
LEMMA Settled ==
  ASSUME Sound, source \in Conns, source' = source, treeOf' = treeOf,
         cache' \in [Conns -> Entries], \A c \in Conns : cache'[c].databases = cache[c].databases,
         NEW t \in BOOLEAN, NEW a \in BOOLEAN, ObjectsSettle(currentSelectedDatabase, t, a)
  PROVE  /\ TreeSound'
         /\ DOMAIN treeData' \subseteq Databases
         /\ \A d \in DOMAIN treeData' : treeData'[d] \in Nodes
         /\ currentSelectedDatabase' \in Databases \cup {None}
         /\ currentSelectedDatabase' # None => t \/ a
<1> DEFINE d == currentSelectedDatabase
<1>1. CASE ~t /\ ~a /\ d # None
  <2>1. PICK acc \in AccelerationsNamed(source, cache') :
          treeData' = updateDatabaseState(treeData, d, FALSE,
                        constructObjectTree(getTablesFromCache(source, d, cache'), source, acc))
    BY <1>1 DEF ObjectsSettle
  <2>2. currentSelectedDatabase' = None
    BY <1>1 DEF ObjectsSettle
  <2> DEFINE tables == getTablesFromCache(source, d, cache')
             s == constructObjectTree(tables, source, acc)
  <2>3. acc \in Conns \cup {None}
    BY DEF AccelerationsNamed, AccelerationsOf
  <2>4. tables \in {<<>>, <<"table">>} /\ (tables # <<>> => cache'[source].databases = "Updated")
    BY TablesCached
  <2>5. /\ s \in Seq(Items)
        /\ \A i \in DOMAIN s : s[i].kind = "table" => s[i].of = treeOf
        /\ \A i, j \in DOMAIN s : s[i].kind = s[j].kind => i = j
    <3> HIDE DEF tables, s
    <3>1. s = constructObjectTree(tables, source, acc)
      BY DEF s
    <3>2. /\ s \in Seq(Items)
          /\ \A i \in DOMAIN s : s[i].kind = "table" => s[i].of = source /\ tables # <<>>
          /\ \A i, j \in DOMAIN s : s[i].kind = s[j].kind => i = j
      BY <2>3, <2>4, <3>1, Constructed
    <3>3. tables # <<>> => treeOf = source
      BY <2>4, ConnAssumption DEF Sound, CacheShown
    <3>4. QED
      BY <3>2, <3>3
  <2> HIDE DEF tables, s
  <2>6. /\ DOMAIN treeData' = DOMAIN treeData
        /\ \A e \in DOMAIN treeData : e # d => treeData'[e] = treeData[e]
        /\ d \in DOMAIN treeData => treeData'[d] = [isExpanded |-> TRUE, isLoading |-> FALSE, values |-> s]
    <3>1. <<>> \o s = s
      BY <2>5, ConcatEmptySeq
    <3>2. d \in DOMAIN treeData => treeData[d].values = <<>>
      BY DEF Sound, TreeSound, SelectedEmpty
    <3>3. treeData' = updateDatabaseState(treeData, d, FALSE, s)
      BY <2>1 DEF s, tables
    <3>4. /\ DOMAIN treeData' = DOMAIN treeData
          /\ \A e \in DOMAIN treeData : e # d => treeData'[e] = treeData[e]
          /\ d \in DOMAIN treeData =>
               treeData'[d] = [isExpanded |-> TRUE, isLoading |-> FALSE,
                               values |-> treeData[d].values \o s]
      BY <3>3 DEF updateDatabaseState
    <3>5. QED
      BY <3>1, <3>2, <3>4
  <2>7. \A e \in DOMAIN treeData : treeData[e] \in Nodes /\ treeData[e].isLoading \in BOOLEAN
    BY DEF Sound, TypeOK, Nodes
  <2>8. d \in DOMAIN treeData => treeData'[d] \in Nodes
    <3>1. [isExpanded |-> TRUE, isLoading |-> FALSE, values |-> s] \in Nodes
      BY <2>5 DEF Nodes
    <3>2. QED
      BY <2>6, <3>1
  <2>9. TreeSound'
    <3>1. SpinnerOfSelected' /\ SelectedEmpty'
      <4>1. \A e \in DOMAIN treeData' : ~treeData'[e].isLoading
        BY <2>6, <2>7 DEF Sound, TreeSound, SpinnerOfSelected
      <4>2. \A e \in DOMAIN treeData' : e # currentSelectedDatabase'
        BY <2>2, <2>6, ConnAssumption DEF Sound, TypeOK
      <4>3. QED
        BY <4>1, <4>2 DEF SpinnerOfSelected, SelectedEmpty
    <3>2. TablesOfTree'
      BY <2>5, <2>6 DEF Sound, TreeSound, TablesOfTree
    <3>3. FilledOnce'
      BY <2>5, <2>6 DEF Sound, TreeSound, FilledOnce
    <3>4. QED
      BY <3>1, <3>2, <3>3 DEF TreeSound
  <2>10. QED
    BY <2>2, <2>6, <2>7, <2>8, <2>9 DEF Sound, TypeOK
<1>2. CASE t \/ a \/ d = None
  <2>1. UNCHANGED <<currentSelectedDatabase, treeData>>
    BY <1>2 DEF ObjectsSettle
  <2>2. TreeSound'
    BY <2>1 DEF Sound, TreeSound, SpinnerOfSelected, SelectedEmpty, TablesOfTree, FilledOnce
  <2>3. QED
    BY <1>2, <2>1, <2>2 DEF Sound, TypeOK
<1>3. QED
  BY <1>1, <1>2

-----------------------------------------------------------------------------
(* The steps *)

LEMMA InitSound == Init => Sound
<1> SUFFICES ASSUME Init PROVE Sound
  OBVIOUS
<1>1. TypeOK
  <2>1. EmptyEntry \in Entries
    BY DEF EmptyEntry, Entries, CachedDataSourceStatus
  <2>2. cache \in [Conns -> Entries]
    BY <2>1 DEF Init
  <2>3. loads \in [databases : 0..MaxTreeLoads, objects : 0..MaxObjectLoads]
    BY BoundAssumption DEF Init
  <2>4. QED
    BY <2>2, <2>3 DEF Init, TypeOK, NoTree
<1>2. Mounted /\ CacheShown /\ LockExplained /\ TreeSpinnerExplained /\ TreeSound
  BY DEF Init, NoTree, Mounted, CacheShown, LockExplained, TreeSpinnerExplained, Spinner, TreeSound,
         SpinnerOfSelected, SelectedEmpty, TablesOfTree, FilledOnce
<1>3. QED
  BY <1>1, <1>2 DEF Sound

\* A connection is selected, or selected again: the tree stays or is made anew.
LEMMA SelectSound ==
  ASSUME Sound, NEW c \in Conns, onLoadS3Tree(c, treeData, treeOf), source' = c,
         UNCHANGED <<objectVars, flyout, tablesLoad, accelerationsLoad, cache>>
  PROVE  Sound'
<1> USE ConnAssumption DEF objectVars
<1>1. /\ treeStatus' \in BOOLEAN /\ treeMessage' \in BOOLEAN
      /\ databasesLoad' \in Conns \cup {None}
      /\ loads' \in [databases : 0..MaxTreeLoads, objects : 0..MaxObjectLoads]
      /\ CacheShown' /\ TreeSpinnerExplained'
      /\ \/ treeData' = DatabaseItems(c) /\ treeOf' = c
         \/ treeData' = treeData /\ treeOf' = treeOf
  BY Loaded DEF Sound
<1>2. CASE treeData' = DatabaseItems(c) /\ treeOf' = c
  <2>1. DOMAIN treeData' = Catalog[c] /\ \A d \in DOMAIN treeData' : treeData'[d] = FreshNode
    BY <1>2, FreshTrees
  <2>2. TypeOK'
    BY <1>1, <1>2, <2>1, FreshTrees DEF Sound, TypeOK
  <2>3. TreeSound'
    BY <2>1, FreshTreeSound
  <2>4. QED
    BY <1>1, <2>2, <2>3 DEF Sound, Mounted, LockExplained
<1>3. CASE treeData' = treeData /\ treeOf' = treeOf
  <2>1. TypeOK'
    BY <1>1, <1>3 DEF Sound, TypeOK
  <2>2. TreeSound'
    BY <1>3 DEF Sound, TreeSound, SpinnerOfSelected, SelectedEmpty, TablesOfTree, FilledOnce
  <2>3. QED
    BY <1>1, <2>1, <2>2 DEF Sound, Mounted, LockExplained
<1>4. QED
  BY <1>1, <1>2, <1>3

LEMMA MountSound == ASSUME Sound, NEW c \in Conns, Mount(c) PROVE Sound'
<1> USE ConnAssumption DEF objectVars
<1>1. /\ treeStatus' \in BOOLEAN /\ treeMessage' \in BOOLEAN
      /\ databasesLoad' \in Conns \cup {None}
      /\ loads' \in [databases : 0..MaxTreeLoads, objects : 0..MaxObjectLoads]
      /\ CacheShown' /\ TreeSpinnerExplained'
      /\ \/ treeData' = DatabaseItems(c) /\ treeOf' = c
         \/ treeData' = NoTree /\ treeOf' = None
  BY Loaded DEF Sound, Mount
<1>2. DOMAIN treeData' \subseteq Databases /\ \A d \in DOMAIN treeData' : treeData'[d] = FreshNode
  BY <1>1, FreshTrees DEF NoTree
<1>3. TypeOK'
  BY <1>1, <1>2, FreshTrees DEF Sound, TypeOK, Mount
<1>4. TreeSound'
  BY <1>2, FreshTreeSound
<1>5. QED
  BY <1>1, <1>3, <1>4 DEF Sound, Mount, Mounted, LockExplained

LEMMA UnmountSound == ASSUME Sound, Unmount PROVE Sound'
<1>1. DOMAIN treeData' = {}
  BY DEF Unmount, NoTree
<1>2. TypeOK'
  BY <1>1 DEF Sound, TypeOK, Unmount
<1>3. TreeSound'
  BY <1>1, FreshTreeSound
<1>4. QED
  BY <1>1, <1>2, <1>3 DEF Sound, Unmount, Mounted, CacheShown, LockExplained, TreeSpinnerExplained, Spinner

LEMMA RefreshSound == ASSUME Sound, RefreshTree PROVE Sound'
<1> USE ConnAssumption, BoundAssumption
<1>1. source \in Conns /\ databasesLoad' = source
  BY DEF Sound, TypeOK, RefreshTree, startDatabasesLoading
<1>2. loads' \in [databases : 0..MaxTreeLoads, objects : 0..MaxObjectLoads]
  BY DEF Sound, TypeOK, RefreshTree, startDatabasesLoading
<1>3. TypeOK'
  BY <1>1, <1>2 DEF Sound, TypeOK, RefreshTree, objectVars
<1>4. TreeSound'
  BY DEF Sound, RefreshTree, objectVars, TreeSound, SpinnerOfSelected, SelectedEmpty, TablesOfTree, FilledOnce
<1>5. QED
  BY <1>1, <1>3, <1>4
  DEF Sound, RefreshTree, objectVars, Mounted, CacheShown, LockExplained, TreeSpinnerExplained, Spinner

LEMMA DatabasesLoadedSound == ASSUME Sound, DatabasesLoaded PROVE Sound'
<1> USE ConnAssumption
<1>1. source \in Conns /\ databasesLoad \in Conns
  BY DEF Sound, TypeOK, Mounted, DatabasesLoaded
<1>2. /\ cache' \in [Conns -> Entries]
      /\ \A c \in Conns : cache'[c].databases =
           IF c = databasesLoad THEN "Updated" ELSE cache[c].databases
  <2>1. [d \in Databases |-> "Empty"] \in [Databases -> CachedDataSourceStatus]
    BY DEF CachedDataSourceStatus
  <2>2. cache[databasesLoad] \in Entries
    BY <1>1 DEF Sound, TypeOK
  <2> DEFINE entry == [cache[databasesLoad] EXCEPT !.databases = "Updated",
                                                   !.tables = [d \in Databases |-> "Empty"]]
  <2>3. entry \in Entries /\ entry.databases = "Updated"
    BY <2>1, <2>2 DEF Entries, CachedDataSourceStatus
  <2>4. cache' = [cache EXCEPT ![databasesLoad] = entry]
    BY <1>1 DEF Sound, TypeOK, DatabasesLoaded
  <2> HIDE DEF entry
  <2>5. QED
    BY <1>1, <2>3, <2>4 DEF Sound, TypeOK
<1>3. cache'[source].databases # "Empty"
  BY <1>1, <1>2 DEF Sound, CacheShown
<1>4. /\ DOMAIN treeData' \subseteq Databases
      /\ \A d \in DOMAIN treeData' : treeData'[d] = FreshNode
      /\ treeOf' \in Conns \cup {None}
  <2>1. CASE treeData' = DatabaseItems(source) /\ treeOf' = source
    BY <1>1, <2>1, FreshTrees
  <2>2. CASE treeData' = Collapsed(treeData) /\ treeOf' = treeOf
    BY <2>2, FreshTrees DEF Sound, TypeOK
  <2>3. QED
    BY <2>1, <2>2 DEF DatabasesLoaded
<1>5. cache'[source].databases = "Updated" => treeOf' = source
  BY DEF DatabasesLoaded
<1>6. TypeOK'
  BY <1>2, <1>4, FreshTrees DEF Sound, TypeOK, DatabasesLoaded, objectVars
<1>7. TreeSound'
  BY <1>4, FreshTreeSound
<1>8. QED
  BY <1>1, <1>3, <1>5, <1>6, <1>7
  DEF Sound, DatabasesLoaded, objectVars, Mounted, CacheShown, LockExplained, TreeSpinnerExplained, Spinner

LEMMA DatabasesFailedSound == ASSUME Sound, DatabasesFailed PROVE Sound'
<1> USE ConnAssumption
<1>1. source \in Conns /\ databasesLoad \in Conns
  BY DEF Sound, TypeOK, Mounted, DatabasesFailed
<1>2. /\ cache' \in [Conns -> Entries]
      /\ \A c \in Conns : cache'[c].databases =
           IF c = databasesLoad THEN "Failed" ELSE cache[c].databases
  BY <1>1 DEF Sound, TypeOK, DatabasesFailed, Entries, CachedDataSourceStatus
<1>3. TypeOK'
  BY <1>2 DEF Sound, TypeOK, DatabasesFailed, objectVars
<1>4. TreeSound'
  BY DEF Sound, DatabasesFailed, objectVars, TreeSound, SpinnerOfSelected, SelectedEmpty, TablesOfTree, FilledOnce
<1>5. QED
  BY <1>1, <1>2, <1>3, <1>4
  DEF Sound, DatabasesFailed, objectVars, Mounted, CacheShown, LockExplained, TreeSpinnerExplained, Spinner

\* What a database is filled with when the cache has it.
LEMMA OpenCachedSound == ASSUME Sound, NEW d \in Databases, OpenCached(d) PROVE Sound'
<1> DEFINE tables == getTablesFromCache(source, d, cache)
           acc == AccelerationsOf(source, cache)
           s == constructObjectTree(tables, source, acc)
<1>1. source \in Conns /\ d \in DOMAIN treeData /\ treeData[d].values = <<>>
      /\ currentSelectedDatabase = None
  BY DEF Sound, TypeOK, OpenCached, CanClick, ShowsTree
<1>2. /\ s \in Seq(Items)
      /\ \A i \in DOMAIN s : s[i].kind = "table" => s[i].of = treeOf
      /\ \A i, j \in DOMAIN s : s[i].kind = s[j].kind => i = j
  <2>1. acc \in Conns \cup {None}
    BY <1>1 DEF AccelerationsOf
  <2>2. tables \in {<<>>, <<"table">>} /\ (tables # <<>> => cache[source].databases = "Updated")
    BY TablesCached
  <2>3. tables # <<>> => treeOf = source
    BY <1>1, <2>2, ConnAssumption DEF Sound, CacheShown
  <2> HIDE DEF tables, acc, s
  <2>4. s = constructObjectTree(tables, source, acc)
    BY DEF s
  <2>5. /\ s \in Seq(Items)
        /\ \A i \in DOMAIN s : s[i].kind = "table" => s[i].of = source /\ tables # <<>>
        /\ \A i, j \in DOMAIN s : s[i].kind = s[j].kind => i = j
    BY <1>1, <2>1, <2>2, <2>4, Constructed
  <2>6. QED
    BY <2>3, <2>5
<1>3. treeData' = updateDatabaseState(treeData, d, FALSE, s)
  BY DEF OpenCached
<1> HIDE DEF s
<1>4. /\ DOMAIN treeData' = DOMAIN treeData
      /\ \A e \in DOMAIN treeData : e # d => treeData'[e] = treeData[e]
      /\ treeData'[d] = [isExpanded |-> TRUE, isLoading |-> FALSE, values |-> s]
  <2>1. <<>> \o s = s
    BY <1>2, ConcatEmptySeq
  <2>2. QED
    BY <1>1, <1>3, <2>1 DEF updateDatabaseState
<1>5. [isExpanded |-> TRUE, isLoading |-> FALSE, values |-> s] \in Nodes
  BY <1>2 DEF Nodes
<1>6. UNCHANGED <<source, treeStatus, treeMessage, treeOf, objectVars, flyout, hookVars, cache, loads>>
  BY DEF OpenCached
<1> USE DEF objectVars, hookVars
<1>7. TypeOK'
  BY <1>4, <1>5, <1>6 DEF Sound, TypeOK
<1>8. TreeSound'
  <2>1. SpinnerOfSelected' /\ SelectedEmpty'
    BY <1>1, <1>4, <1>6, ConnAssumption DEF Sound, TypeOK, TreeSound, SpinnerOfSelected, SelectedEmpty
  <2>2. TablesOfTree' /\ FilledOnce'
    BY <1>2, <1>4, <1>6 DEF Sound, TreeSound, TablesOfTree, FilledOnce
  <2>3. QED
    BY <2>1, <2>2 DEF TreeSound
<1>9. QED
  BY <1>1, <1>6, <1>7, <1>8, ConnAssumption
  DEF Sound, Mounted, CacheShown, LockExplained, TreeSpinnerExplained, Spinner

LEMMA OpenLoadingSound == ASSUME Sound, NEW d \in Databases, OpenLoading(d) PROVE Sound'
<1>1. /\ source \in Conns /\ d \in DOMAIN treeData /\ treeData[d].values = <<>>
      /\ currentSelectedDatabase = None /\ currentSelectedDatabase' = d
      /\ tablesLoad' = <<source, d>> /\ accelerationsLoad' = source
      /\ tableStatus' = TRUE /\ accelerationsStatus' = TRUE
      /\ UNCHANGED <<source, treeStatus, treeMessage, treeOf, flyout, databasesLoad, cache>>
  BY DEF Sound, TypeOK, OpenLoading, CanClick, ShowsTree
<1>2. <<source, d>> \in Conns \X Databases
  BY <1>1
<1>3. loads' \in [databases : 0..MaxTreeLoads, objects : 0..MaxObjectLoads]
  BY BoundAssumption DEF Sound, TypeOK, OpenLoading
<1>4. /\ DOMAIN treeData' = DOMAIN treeData
      /\ \A e \in DOMAIN treeData : e # d => treeData'[e] = treeData[e]
      /\ treeData'[d] = [isExpanded |-> TRUE, isLoading |-> TRUE, values |-> <<>>]
  <2>1. <<>> \o <<>> = <<>>
    OBVIOUS
  <2>2. QED
    BY <1>1, <2>1 DEF OpenLoading, updateDatabaseState
<1>5. [isExpanded |-> TRUE, isLoading |-> TRUE, values |-> <<>>] \in Nodes
  BY DEF Nodes
<1>6. TypeOK'
  BY <1>1, <1>2, <1>3, <1>4, <1>5 DEF Sound, TypeOK
<1>7. TreeSound'
  <2>1. SpinnerOfSelected' /\ SelectedEmpty'
    BY <1>1, <1>4, ConnAssumption DEF Sound, TypeOK, TreeSound, SpinnerOfSelected, SelectedEmpty
  <2>2. TablesOfTree' /\ FilledOnce'
    BY <1>1, <1>4 DEF Sound, TreeSound, TablesOfTree, FilledOnce
  <2>3. QED
    BY <2>1, <2>2 DEF TreeSound
<1>8. LockExplained'
  BY <1>1, <1>2, ConnAssumption DEF LockExplained
<1>9. QED
  BY <1>1, <1>6, <1>7, <1>8, ConnAssumption
  DEF Sound, Mounted, CacheShown, TreeSpinnerExplained, Spinner

LEMMA TablesEndSound ==
  ASSUME Sound, NEW result \in {"Updated", "Failed"}, TablesEnd(result)
  PROVE  Sound'
<1> USE ConnAssumption
<1> DEFINE c == tablesLoad[1]
           d == tablesLoad[2]
<1>1. source \in Conns /\ c \in Conns /\ d \in Databases
  BY DEF Sound, TypeOK, Mounted, TablesEnd
<1>2. cache' \in [Conns -> Entries] /\ \A e \in Conns : cache'[e].databases = cache[e].databases
  <2>1. CASE cache' = cache
    BY <2>1 DEF Sound, TypeOK
  <2>2. CASE cache' = [cache EXCEPT ![c].tables[d] = result]
    <3>1. cache[c] \in Entries
      BY <1>1 DEF Sound, TypeOK
    <3>2. [cache[c] EXCEPT !.tables[d] = result] \in Entries
      BY <1>1, <3>1 DEF Entries, CachedDataSourceStatus
    <3>3. QED
      BY <1>1, <2>2, <3>1, <3>2 DEF Sound, TypeOK, Entries
  <2>3. QED
    BY <2>1, <2>2 DEF TablesEnd
<1>3. /\ TreeSound'
      /\ DOMAIN treeData' \subseteq Databases
      /\ \A e \in DOMAIN treeData' : treeData'[e] \in Nodes
      /\ currentSelectedDatabase' \in Databases \cup {None}
      /\ currentSelectedDatabase' # None => accelerationsStatus
  <2>1. accelerationsStatus \in BOOLEAN /\ ObjectsSettle(currentSelectedDatabase, FALSE, accelerationsStatus)
        /\ source' = source /\ treeOf' = treeOf
    BY DEF Sound, TypeOK, TablesEnd
  <2>2. QED
    BY <1>1, <1>2, <2>1, Settled
<1>4. /\ tablesLoad' = None /\ tableStatus' = FALSE
      /\ UNCHANGED <<source, treeStatus, treeMessage, treeOf, accelerationsStatus, flyout,
                     databasesLoad, accelerationsLoad, loads>>
  BY DEF TablesEnd
<1>5. TypeOK'
  BY <1>2, <1>3, <1>4 DEF Sound, TypeOK
<1>6. QED
  BY <1>1, <1>2, <1>3, <1>4, <1>5
  DEF Sound, Mounted, CacheShown, LockExplained, TreeSpinnerExplained, Spinner

LEMMA AccelerationsEndSound ==
  ASSUME Sound, NEW result \in {"Updated", "Failed"}, AccelerationsEnd(result)
  PROVE  Sound'
<1> USE ConnAssumption
<1>1. source \in Conns /\ accelerationsLoad \in Conns
  BY DEF Sound, TypeOK, Mounted, AccelerationsEnd
<1>2. cache' \in [Conns -> Entries] /\ \A e \in Conns : cache'[e].databases = cache[e].databases
  BY <1>1 DEF Sound, TypeOK, AccelerationsEnd, Entries, CachedDataSourceStatus
<1>3. /\ TreeSound'
      /\ DOMAIN treeData' \subseteq Databases
      /\ \A e \in DOMAIN treeData' : treeData'[e] \in Nodes
      /\ currentSelectedDatabase' \in Databases \cup {None}
      /\ currentSelectedDatabase' # None => tableStatus
  <2>1. tableStatus \in BOOLEAN /\ ObjectsSettle(currentSelectedDatabase, tableStatus, FALSE)
        /\ source' = source /\ treeOf' = treeOf
    BY DEF Sound, TypeOK, AccelerationsEnd
  <2>2. QED
    BY <1>1, <1>2, <2>1, Settled
<1>4. /\ accelerationsLoad' = None /\ accelerationsStatus' = FALSE
      /\ UNCHANGED <<source, treeStatus, treeMessage, treeOf, tableStatus, flyout,
                     databasesLoad, tablesLoad, loads>>
  BY DEF AccelerationsEnd
<1>5. TypeOK'
  BY <1>2, <1>3, <1>4 DEF Sound, TypeOK
<1>6. QED
  BY <1>1, <1>2, <1>3, <1>4, <1>5
  DEF Sound, Mounted, CacheShown, LockExplained, TreeSpinnerExplained, Spinner

\* The flyout opens, or refreshes the tree, which collapses it.
LEMMA FlyoutSound ==
  ASSUME Sound, (\E d \in Databases : OpenAcceleration(d)) \/ RefreshFromFlyout
  PROVE  Sound'
<1> USE DEF objectVars, treeVars, hookVars
<1>1. CASE \E d \in Databases : OpenAcceleration(d)
  <2>1. flyout' = TRUE /\ UNCHANGED <<source, treeVars, objectVars, hookVars, cache, loads>>
    BY <1>1 DEF OpenAcceleration
  <2>2. TypeOK'
    BY <2>1 DEF Sound, TypeOK
  <2>3. TreeSound'
    BY <2>1 DEF Sound, TreeSound, SpinnerOfSelected, SelectedEmpty, TablesOfTree, FilledOnce
  <2>4. QED
    BY <2>1, <2>2, <2>3
    DEF Sound, Mounted, CacheShown, LockExplained, TreeSpinnerExplained, Spinner
<1>2. CASE RefreshFromFlyout
  <2>1. DOMAIN treeData' = DOMAIN treeData /\ \A d \in DOMAIN treeData' : treeData'[d] = FreshNode
    BY <1>2, FreshTrees DEF RefreshFromFlyout
  <2>2. UNCHANGED <<source, treeStatus, treeMessage, treeOf, objectVars, flyout, hookVars, cache, loads>>
    BY <1>2 DEF RefreshFromFlyout
  <2>3. TypeOK'
    BY <2>1, <2>2, FreshTrees DEF Sound, TypeOK
  <2>4. TreeSound'
    BY <2>1, FreshTreeSound
  <2>5. QED
    BY <2>1, <2>2, <2>3, <2>4
    DEF Sound, Mounted, CacheShown, LockExplained, TreeSpinnerExplained, Spinner
<1>3. QED
  BY <1>1, <1>2

LEMMA StepSound == Sound /\ [Next]_s3Vars => Sound'
<1> SUFFICES ASSUME Sound, [Next]_s3Vars PROVE Sound'
  OBVIOUS
<1>1. ASSUME NEW c \in Conns, SelectSource(c) PROVE Sound'
  BY <1>1, SelectSound DEF SelectSource
<1>2. CASE ChangeLanguage
  <2>1. source \in Conns
    BY <1>2 DEF ChangeLanguage, Sound, TypeOK
  <2>2. QED
    BY <1>2, <2>1, SelectSound DEF ChangeLanguage
<1>3. CASE UNCHANGED s3Vars
  <2>1. UNCHANGED s3Vars
    BY <1>3
  <2> USE DEF s3Vars, treeVars, objectVars, hookVars
  <2>2. TypeOK'
    BY <2>1 DEF Sound, TypeOK
  <2>3. TreeSound'
    BY <2>1 DEF Sound, TreeSound, SpinnerOfSelected, SelectedEmpty, TablesOfTree, FilledOnce
  <2>4. QED
    BY <2>1, <2>2, <2>3
    DEF Sound, Mounted, CacheShown, LockExplained, TreeSpinnerExplained, Spinner
<1>4. QED
  BY <1>1, <1>2, <1>3, MountSound, UnmountSound, RefreshSound, DatabasesLoadedSound,
     DatabasesFailedSound, OpenCachedSound, OpenLoadingSound, TablesEndSound,
     AccelerationsEndSound, FlyoutSound DEF Next, LoadsEnd

\* In every execution of the tree the invariant holds.
THEOREM Soundness == Spec => []Sound
BY InitSound, StepSound, PTL DEF Spec

-----------------------------------------------------------------------------
(* What follows *)

\* Every variable keeps its type.
THEOREM TreeTypeCorrect == Spec => []TypeOK
<1>1. Sound => TypeOK
  BY DEF Sound
<1>2. QED
  BY <1>1, Soundness, PTL

\* While clicks are refused a load is on its way that will end the refusal.
THEOREM LocksAreExplained == Spec => []LockExplained
<1>1. Sound => LockExplained
  BY DEF Sound
<1>2. QED
  BY <1>1, Soundness, PTL

\* No database is filled twice.
THEOREM DatabasesFilledOnce == Spec => []FilledOnce
<1>1. Sound => FilledOnce
  BY DEF Sound, TreeSound
<1>2. QED
  BY <1>1, Soundness, PTL

\* The spinners of the tree and of its databases stand for loads.
THEOREM SpinnersOfLoads == Spec => []TreeSpinnerExplained /\ []SpinnerOfSelected
<1>1. Sound => TreeSpinnerExplained /\ SpinnerOfSelected
  BY DEF Sound, TreeSound
<1>2. QED
  BY <1>1, Soundness, PTL

\* The tree shown is that of the selected connection, unless loading it failed.
THEOREM TreeOfConnection == Spec => []TreeOfSelected
<1>1. Sound => TreeOfSelected
  BY ConnAssumption
  DEF Sound, TypeOK, Entries, CachedDataSourceStatus, CacheShown, TreeOfSelected, ShowsTree
<1>2. QED
  BY <1>1, Soundness, PTL

\* The tables under a database come from the connection the tree is of.
THEOREM TablesOfConnection == Spec => []TablesOfTree
<1>1. Sound => TablesOfTree
  BY DEF Sound, TreeSound
<1>2. QED
  BY <1>1, Soundness, PTL
=============================================================================

-------------------------- MODULE DataSourceSwitch --------------------------
(***************************************************************************)
(* Main (public/components/Main/main.tsx) when the user picks another      *)
(* cluster in the data source menu: the capabilities of the new cluster    *)
(* are resolved, the list of Flint connections is fetched, the starter     *)
(* query in the editor is rewritten for the engine, and OSTree (os_tree    *)
(* .tsx) reloads the indices.  Answers arrive in any order, and the editor *)
(* hands its text to the page through a 250 ms debounce.                   *)
(*                                                                         *)
(* The page stays on the Indexes tab, as it is without a data source in    *)
(* the URL.  Clusters and what they answer are external.                   *)
(***************************************************************************)
EXTENDS Naturals

CONSTANTS
  Clusters,     \* the clusters in the menu
  Legacy,       \* those that run OpenDistro on Elasticsearch
  FlintApi,     \* those with the data source API (OpenSearch 2.11)
  Connected,    \* those with an S3GLUE connection
  MaxSwitches,  \* bound on the user's picks
  None

ASSUME ClusterAssumption ==
  Legacy \subseteq Clusters /\ Connected \subseteq FlintApi /\ FlintApi \subseteq Clusters \ Legacy
ASSUME SwitchAssumption == MaxSwitches \in Nat

VARIABLES
  selected,   \* selectedMDSDataConnectionId
  token,      \* capsRequestToken
  asked,      \* asked[n]: the cluster whose capabilities call n resolves
  resolving,  \* the calls of resolveDeploymentCapabilities in flight
  listing,    \* listing[n]: the cluster asked for its connections after call n
  caps,
  flint,      \* flintDataConnections
  sql,        \* sqlQueriesString
  pending,    \* the argument of the debounced updateSQLQueries, None if no timer
  loads,      \* the loads of OSTree in flight
  tree        \* what OSTree shows, None while it says "Loading indices"

switchVars == <<selected, token, asked>>
capsVars == <<resolving, caps>>
flintVars == <<listing, flint>>
editorVars == <<sql, pending>>
treeVars == <<loads, tree>>
pageVars == <<switchVars, capsVars, flintVars, editorVars, treeVars>>

Calls == 1..(MaxSwitches + 1)

\* The two features of DeploymentCapabilities that this page state depends on.
Caps == [usesLegacyOpenDistroSql : BOOLEAN, hasDataSources : BOOLEAN]
DEFAULT_CAPABILITIES == [usesLegacyOpenDistroSql |-> FALSE, hasDataSources |-> TRUE]
CapsOf(c) == [usesLegacyOpenDistroSql |-> c \in Legacy, hasDataSources |-> c \in FlintApi]

\* OPENSEARCH_SQL_INIT_QUERY and its legacy form, the empty editor, and
\* anything the user wrote.
Seeds == {"seed", "legacySeed"}
Texts == Seeds \cup {"empty", "typed"}
getOpenSearchSqlInitQuery(legacy) == IF legacy THEN "legacySeed" ELSE "seed"

\* A load asks one cluster with the query for one engine; `stale` is what its
\* isStale closure returns.
Trees == [cluster : Clusters, legacy : BOOLEAN]
Loads == [cluster : Clusters, legacy : BOOLEAN, stale : BOOLEAN]

ASSUME NoneAssumption == None \notin Texts /\ None \notin Trees

TypeOK ==
  /\ selected \in Clusters
  /\ token \in Calls
  /\ asked \in [Calls -> Clusters \cup {None}]
  /\ resolving \subseteq Calls
  /\ listing \in [Calls -> Clusters \cup {None}]
  /\ caps \in Caps
  /\ flint \in BOOLEAN
  /\ sql \in Texts
  /\ pending \in Texts \cup {None}
  /\ loads \subseteq Loads
  /\ tree \in Trees \cup {None}

FreshLoad(c, legacy) == [cluster |-> c, legacy |-> legacy, stale |-> FALSE]

\* componentDidMount has called fetchAndSetCaps, and OSTree its first load.
Init ==
  /\ selected \in Clusters
  /\ token = 1
  /\ asked = [n \in Calls |-> IF n = 1 THEN selected ELSE None]
  /\ resolving = {1}
  /\ listing = [n \in Calls |-> None]
  /\ caps = DEFAULT_CAPABILITIES
  /\ flint = FALSE
  /\ sql = "seed"
  /\ pending = None
  /\ loads = {FreshLoad(selected, FALSE)}
  /\ tree = None

-----------------------------------------------------------------------------
(* OSTree *)

\* Slip: all loads share one flag.
Reload_SharedFlag(c, legacy) ==
  /\ loads' = {[l EXCEPT !.stale = TRUE] : l \in loads \cup {FreshLoad(c, legacy)}}
  /\ tree' = None

\* The effect's cleanup marks the load in flight, and loadtree empties the tree.
Reload(c, legacy) ==
  /\ loads' = {[l EXCEPT !.stale = TRUE] : l \in loads} \cup {FreshLoad(c, legacy)}
  /\ tree' = None

\* Slip: whichever load returns last wins.
LoadSettles_LastWins(l) ==
  /\ l \in loads
  /\ loads' = loads \ {l}
  /\ tree' = [cluster |-> l.cluster, legacy |-> l.legacy]
  /\ UNCHANGED <<switchVars, capsVars, flintVars, editorVars>>

\* The indices, or the message that they could not be loaded.
LoadSettles(l) ==
  /\ l \in loads
  /\ loads' = loads \ {l}
  /\ tree' = IF l.stale THEN tree ELSE [cluster |-> l.cluster, legacy |-> l.legacy]
  /\ UNCHANGED <<switchVars, capsVars, flintVars, editorVars>>

\* handleReloadTree: the button is there only with the connection tabs.
RefreshTree ==
  /\ flint
  /\ Reload(selected, caps.usesLegacyOpenDistroSql)
  /\ UNCHANGED <<switchVars, capsVars, flintVars, editorVars>>

-----------------------------------------------------------------------------
(* Switching *)

\* onSelectedDataSource up to the answer: the new selection is a new prop of
\* OSTree even when it is the same cluster.
Switch(c) ==
  /\ token <= MaxSwitches
  /\ selected' = c
  /\ token' = token + 1
  /\ asked' = [asked EXCEPT ![token + 1] = c]
  /\ resolving' = resolving \cup {token + 1}
  /\ Reload(c, caps.usesLegacyOpenDistroSql)
  /\ UNCHANGED <<caps, flintVars, editorVars>>

\* Slip: no token.
IsLatest_Always(n) == TRUE

IsLatest(n) == n = token

IsUntouched == sql \in Seeds

\* syncSeededSqlQuery looks at the text the page holds, not at the editor.
SyncSeededSqlQuery(new) ==
  LET seeded == getOpenSearchSqlInitQuery(new.usesLegacyOpenDistroSql)
  IN  pending' = IF IsUntouched /\ sql # seeded THEN seeded ELSE pending

\* fetchFlintDataSources, with the capabilities of call n and the cluster that
\* is selected now.
FetchFlint(n, new) ==
  IF new.hasDataSources
  THEN listing' = [listing EXCEPT ![n] = selected] /\ UNCHANGED flint
  ELSE flint' = FALSE /\ UNCHANGED listing

\* Call n answers, with the default if nothing could be found out.  A call that
\* is not the latest leaves the capabilities alone, but not the connections.
CapsResolved(n) ==
  /\ n \in resolving
  /\ resolving' = resolving \ {n}
  /\ \E new \in {CapsOf(asked[n]), DEFAULT_CAPABILITIES} :
       /\ FetchFlint(n, new)
       /\ IF IsLatest(n)
          THEN /\ caps' = new
               /\ SyncSeededSqlQuery(new)
               /\ IF new.usesLegacyOpenDistroSql # caps.usesLegacyOpenDistroSql
                  THEN Reload(selected, new.usesLegacyOpenDistroSql)
                  ELSE UNCHANGED treeVars
          ELSE UNCHANGED <<caps, pending, treeVars>>
  /\ UNCHANGED <<switchVars, sql>>

\* The list of connections arrives: flint is whether it has any.
FlintListed(n) ==
  /\ listing[n] # None
  /\ flint' = IF listing[n] \in Connected THEN TRUE ELSE FALSE
  /\ listing' = [listing EXCEPT ![n] = None]
  /\ UNCHANGED <<switchVars, capsVars, editorVars, treeVars>>

\* The error is logged and nothing else.
FlintFails(n) ==
  /\ listing[n] # None
  /\ listing' = [listing EXCEPT ![n] = None]
  /\ UNCHANGED <<switchVars, capsVars, flint, editorVars, treeVars>>

-----------------------------------------------------------------------------
(* The editor *)

\* onChange of the editor, and its Clear button: updateSQLQueries is debounced,
\* the last call before the timer wins.
Edit(text) ==
  /\ pending' = text
  /\ UNCHANGED <<switchVars, capsVars, flintVars, sql, treeVars>>

DebounceFires ==
  /\ pending # None
  /\ sql' = pending
  /\ pending' = None
  /\ UNCHANGED <<switchVars, capsVars, flintVars, treeVars>>

-----------------------------------------------------------------------------
(* Specification *)

Next ==
  \/ \E c \in Clusters : Switch(c)
  \/ \E n \in Calls : CapsResolved(n) \/ FlintListed(n) \/ FlintFails(n)
  \/ \E l \in Loads : LoadSettles(l)
  \/ RefreshTree
  \/ \E text \in {"typed", "empty"} : Edit(text)
  \/ DebounceFires

Spec == Init /\ [][Next]_pageVars

-----------------------------------------------------------------------------
(* Properties *)

\* When the latest resolution is over, the capabilities are those of the
\* selected cluster or the default, whatever other calls are still in flight.
CapsOfSelected ==
  token \notin resolving => caps \in {CapsOf(selected), DEFAULT_CAPABILITIES}

\* A tree that is shown was loaded from the selected cluster, with the query for
\* the engine of the present capabilities, although several loads race.
TreeOfSelected ==
  tree # None => /\ tree.cluster = selected
                 /\ tree.legacy = caps.usesLegacyOpenDistroSql

\* A page that shows no tree has a load on the way that will show one: no
\* interleaving marks the last load as stale.
TreeComes == tree = None => \E l \in loads : ~l.stale

\* A rewrite of the starter query under way replaces a starter query only, so
\* text the page holds is never lost to it.
RewriteOnlySeeds == pending \in Seeds => sql \in Seeds

\* The capabilities as the answers to the latest selection.  Those of the cluster
\* before are kept meanwhile.
Resolution == INSTANCE LatestRequest WITH
  Requests <- Clusters,
  Answers <- [c \in Clusters |-> {CapsOf(c), DEFAULT_CAPABILITIES}],
  First <- DEFAULT_CAPABILITIES,
  Meanwhile <- [a \in Caps |-> a],
  request <- selected,
  answered <- token \notin resolving,
  answer <- caps

\* The tree as the answer to the latest load.  There is none meanwhile.
Indices == INSTANCE LatestRequest WITH
  Requests <- Trees,
  Answers <- [t \in Trees |-> {t}],
  First <- None,
  Meanwhile <- [a \in Trees \cup {None} |-> None],
  request <- [cluster |-> selected, legacy |-> caps.usesLegacyOpenDistroSql],
  answered <- tree # None,
  answer <- tree

\* Whatever the order of answers, the capabilities change once for each selection,
\* to an answer for it, and the tree once for each load, to what it asked for.
LatestAnswersShow == Resolution!Spec /\ Indices!Spec

\* What the user typed is not replaced by a rewrite while the debounce holds it.
TypedTextKept ==
  [][pending = "typed" => pending' \notin Seeds]_pageVars
=============================================================================

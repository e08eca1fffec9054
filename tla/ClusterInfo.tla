---------------------------- MODULE ClusterInfo -----------------------------
(***************************************************************************)
(* The server plugin: ClusterInfoService finds out, once, the version and  *)
(* engine of the local cluster and of each data source, and QueryService,  *)
(* TranslateService and the cluster_info route ask it before they call the *)
(* cluster.  The two caches hold promises, so requests that arrive while a *)
(* probe is in flight share it; a probe that fails evicts its promise.     *)
(*                                                                         *)
(* Requests, probes and cluster answers interleave at every await.  The    *)
(* clusters, and the saved objects that describe data sources, are         *)
(* external.  Without the data source plugin only Local is ever a target.  *)
(***************************************************************************)
EXTENDS Capabilities

CONSTANTS
  Requests,     \* requests of browsers; each is made at most once
  Targets,      \* the local cluster and the data sources
  Local,
  Promises,     \* bounds the probes of the model
  Deployments,  \* what a cluster can be: [version, engine]
  None

ASSUME TargetAssumption == Local \in Targets
ASSUME PromiseAssumption == Promises # {} /\ None \notin Promises
\* Releases that exist: Elasticsearch has majors 6 and 7, OpenSearch has others.
ASSUME DeploymentAssumption ==
  /\ Deployments \subseteq [version : [major : Nat, minor : Nat],
                            engine : {"opensearch", "elasticsearch"}]
  /\ \A d \in Deployments : /\ d.version # NoVersion
                            /\ d.engine = "elasticsearch" <=> d.version.major \in {6, 7}

VARIABLES
  \* ClusterInfoService
  cache,    \* infoPromise (Local) and dataSourceInfoCache
  promise,  \* promise[p]: [target, stage, info]
  \* requests being served
  life,     \* life[r]: "idle", "waiting" for a lookup, "called", "ended"
  kind, target,
  awaits,   \* awaits[r]: the promise r waits for
  used,     \* used[r]: the info r was routed by
  via,      \* via[r]: how r was routed
  \* external
  actual,   \* actual[t]: what the cluster runs
  saved,    \* saved[t]: dataSourceVersion and dataSourceEngineType
  changed   \* changed[t]: the cluster was upgraded or migrated since the plugin
            \* started, or since its saved object was written

serviceVars == <<cache, promise>>
requestVars == <<life, kind, target, awaits, used, via>>
clusterVars == <<actual, saved, changed>>
serverVars == <<serviceVars, requestVars, clusterVars>>

-----------------------------------------------------------------------------
\* "query": the LEGACY_ELIGIBLE_ACTIONS, translate included; "async": submitting
\* a Flint query; "job": its GET and DELETE; "datasources"; "info": cluster_info.
Kinds == {"query", "async", "job", "datasources", "info"}
Routes == {"none", "plugins", "opendistro", "emptyList", "clusterInfo"}

\* ClusterEngineInfo, with engine for isOpenSearch.
Infos == [version : [major : Nat, minor : Nat], engine : Engines]

\* What a failed probe resolves to.
Unknown == [version |-> NoVersion, engine |-> "undefined"]

\* An info response of the local cluster that has no version at all.
BlankInfo == [version |-> NoVersion, engine |-> "elasticsearch"]

Stages == {"unused", "reading", "probing", "resolved"}
NoPromise == [target |-> Local, stage |-> "unused", info |-> Unknown]

\* The promise the next probe returns, if the bound leaves one.
Fresh(promises) ==
  LET unused == {p \in Promises : promises[p].stage = "unused"}
  IN  IF unused = {} THEN {} ELSE {CHOOSE p \in unused : TRUE}

TypeOK ==
  /\ cache \in [Targets -> Promises \cup {None}]
  /\ promise \in [Promises -> [target : Targets, stage : Stages, info : Infos]]
  /\ life \in [Requests -> {"idle", "waiting", "called", "ended"}]
  /\ kind \in [Requests -> Kinds]
  /\ target \in [Requests -> Targets]
  /\ awaits \in [Requests -> Promises \cup {None}]
  /\ used \in [Requests -> Infos]
  /\ via \in [Requests -> Routes]
  /\ actual \in [Targets -> Deployments]
  /\ saved \in [Targets -> Infos]
  /\ changed \in [Targets -> BOOLEAN]

\* A saved object may lack the engine, or both attributes.
Recordings(d) == {Unknown, d, [d EXCEPT !.engine = "undefined"]}

\* start() has just primed the cache of the local cluster.
Init ==
  /\ \E p \in Fresh([x \in Promises |-> NoPromise]) :
       /\ promise = [x \in Promises |->
                       IF x = p THEN [NoPromise EXCEPT !.stage = "probing"] ELSE NoPromise]
       /\ cache = [t \in Targets |-> IF t = Local THEN p ELSE None]
  /\ life = [r \in Requests |-> "idle"]
  /\ kind = [r \in Requests |-> "query"]
  /\ target = [r \in Requests |-> Local]
  /\ awaits = [r \in Requests |-> None]
  /\ used = [r \in Requests |-> Unknown]
  /\ via = [r \in Requests |-> "none"]
  /\ actual \in [Targets -> Deployments]
  /\ changed \in [Targets -> BOOLEAN]
  /\ saved \in [Targets -> UNION {Recordings(d) : d \in Deployments}]
  /\ \A t \in Targets : changed[t] \/ saved[t] \in Recordings(actual[t])
  /\ saved[Local] = Unknown /\ ~changed[Local]

-----------------------------------------------------------------------------
(* Lookups *)

\* Queries and the data source list are routed by engine and version; every
\* POST to the local cluster awaits the lookup even when the answer is unused.
NeedsLookup(k, t) ==
  \/ k \in {"query", "datasources", "info"}
  \/ k = "async" /\ t = Local

\* Slip: only a value is cached, not the promise.
NeedsProbe_Unresolved(t) == cache[t] = None \/ promise[cache[t]].stage # "resolved"

NeedsProbe(t) == cache[t] = None

FirstStage(t) == IF t = Local THEN "probing" ELSE "reading"

\* getVersion and getDataSourceInfo: share the cached promise, or start a probe.
Arrive(r, k, t) ==
  /\ life[r] = "idle"
  /\ NeedsLookup(k, t)
  /\ life' = [life EXCEPT ![r] = "waiting"]
  /\ kind' = [kind EXCEPT ![r] = k]
  /\ target' = [target EXCEPT ![r] = t]
  /\ IF NeedsProbe(t)
     THEN \E p \in Fresh(promise) :
            /\ promise' = [promise EXCEPT ![p] =
                             [target |-> t, stage |-> FirstStage(t), info |-> Unknown]]
            /\ cache' = [cache EXCEPT ![t] = p]
            /\ awaits' = [awaits EXCEPT ![r] = p]
     ELSE /\ awaits' = [awaits EXCEPT ![r] = cache[t]]
          /\ UNCHANGED serviceVars
  /\ UNCHANGED <<used, via, clusterVars>>

\* No lookup: the `_plugins` endpoint is called at once.
ArriveDirect(r, k, t) ==
  /\ life[r] = "idle"
  /\ ~NeedsLookup(k, t)
  /\ life' = [life EXCEPT ![r] = "called"]
  /\ kind' = [kind EXCEPT ![r] = k]
  /\ target' = [target EXCEPT ![r] = t]
  /\ via' = [via EXCEPT ![r] = "plugins"]
  /\ UNCHANGED <<awaits, used, serviceVars, clusterVars>>

-----------------------------------------------------------------------------
(* Probes *)

Resolved(p, info) == [promise EXCEPT ![p].stage = "resolved", ![p].info = info]

\* probeDataSource: a recorded version settles it ...
ReadRecorded(p) ==
  LET t == promise[p].target IN
  /\ promise[p].stage = "reading"
  /\ saved[t].version # NoVersion
  /\ promise' = Resolved(p, saved[t])
  /\ UNCHANGED <<cache, requestVars, clusterVars>>

\* ... and without one, or when the read fails, the cluster itself is asked.
ReadNothing(p) ==
  /\ promise[p].stage = "reading"
  /\ promise' = [promise EXCEPT ![p].stage = "probing"]
  /\ UNCHANGED <<cache, requestVars, clusterVars>>

ProbeAnswered(p) ==
  /\ promise[p].stage = "probing"
  /\ promise' = Resolved(p, actual[promise[p].target])
  /\ UNCHANGED <<cache, requestVars, clusterVars>>

\* An answer without a version is accepted from the local cluster only.
ProbeBlank(p) ==
  /\ promise[p].stage = "probing"
  /\ promise[p].target = Local
  /\ promise' = Resolved(p, BlankInfo)
  /\ UNCHANGED <<cache, requestVars, clusterVars>>

\* Slip: the failed promise stays.
Evicted_Not(t) == cache

Evicted(t) == [cache EXCEPT ![t] = None]

\* Slip: the error is not turned into an answer for those who wait.
ProbeFails_Unhandled(p) ==
  /\ promise[p].stage = "probing"
  /\ promise' = [promise EXCEPT ![p] = NoPromise]
  /\ cache' = Evicted(promise[p].target)
  /\ UNCHANGED <<requestVars, clusterVars>>

\* The catch handlers: whatever the cache holds for the target is evicted, and
\* the requests that wait go on with an unknown cluster.
ProbeFails(p) ==
  /\ promise[p].stage = "probing"
  /\ promise' = Resolved(p, Unknown)
  /\ cache' = Evicted(promise[p].target)
  /\ UNCHANGED <<requestVars, clusterVars>>

-----------------------------------------------------------------------------
(* Routing *)

\* Slip: a missing engine is taken for OpenSearch.
legacyActionFor_Recorded(k, info) ==
  IF k = "query" /\ info.engine = "elasticsearch" THEN "opendistro" ELSE "plugins"

legacyActionFor(k, info) ==
  IF k = "query" /\ getDeploymentCapabilities(info.version, info.engine).usesLegacyOpenDistroSql
  THEN "opendistro" ELSE "plugins"

\* describeQueryGetInternalSync: no such endpoint, no call.
HasDataSources(info) == getDeploymentCapabilities(info.version, info.engine).hasDataSources

\* The await returns, some time after the promise was resolved.
Resume(r) ==
  LET info == promise[awaits[r]].info IN
  /\ life[r] = "waiting"
  /\ promise[awaits[r]].stage = "resolved"
  /\ used' = [used EXCEPT ![r] = info]
  /\ \/ /\ kind[r] = "info"
        /\ via' = [via EXCEPT ![r] = "clusterInfo"]
        /\ life' = [life EXCEPT ![r] = "ended"]
     \/ /\ kind[r] = "datasources"
        /\ ~HasDataSources(info)
        /\ via' = [via EXCEPT ![r] = "emptyList"]
        /\ life' = [life EXCEPT ![r] = "ended"]
     \/ /\ kind[r] \in {"query", "async"} \/ (kind[r] = "datasources" /\ HasDataSources(info))
        /\ via' = [via EXCEPT ![r] = legacyActionFor(kind[r], info)]
        /\ life' = [life EXCEPT ![r] = "called"]
  /\ UNCHANGED <<kind, target, awaits, serviceVars, clusterVars>>

\* The cluster answers or fails: the browser gets a result or the error.
CallEnds(r) ==
  /\ life[r] = "called"
  /\ life' = [life EXCEPT ![r] = "ended"]
  /\ UNCHANGED <<kind, target, awaits, used, via, serviceVars, clusterVars>>

\* A cluster is upgraded or migrated.  Nothing tells the plugin, and the saved
\* object keeps what it recorded.  Once per cluster, as a bound.
ClusterChanges(t) ==
  /\ ~changed[t]
  /\ \E d \in Deployments \ {actual[t]} : actual' = [actual EXCEPT ![t] = d]
  /\ changed' = [changed EXCEPT ![t] = TRUE]
  /\ UNCHANGED <<saved, serviceVars, requestVars>>

-----------------------------------------------------------------------------
(* Specification *)

ProbeStep(p) ==
  ReadRecorded(p) \/ ReadNothing(p) \/ ProbeAnswered(p) \/ ProbeBlank(p) \/ ProbeFails(p)

Next ==
  \/ \E r \in Requests, k \in Kinds, t \in Targets : Arrive(r, k, t) \/ ArriveDirect(r, k, t)
  \/ \E p \in Promises : ProbeStep(p)
  \/ \E r \in Requests : Resume(r) \/ CallEnds(r)
  \/ \E t \in Targets : ClusterChanges(t)

\* Every request to a cluster or to the saved objects is answered or fails, and
\* a handler whose promise is resolved runs on.
Fairness ==
  /\ \A p \in Promises : WF_serverVars(ProbeStep(p))
  /\ \A r \in Requests : WF_serverVars(Resume(r) \/ CallEnds(r))

SafeSpec == Init /\ [][Next]_serverVars
Spec == SafeSpec /\ Fairness

-----------------------------------------------------------------------------
(* Properties *)

\* At most one probe of a cluster is in flight, and it is the one the cache
\* holds: however many requests arrive together, and although a failing probe
\* evicts without looking whose entry it evicts.
SingleFlight ==
  \A p \in Promises :
    promise[p].stage \in {"reading", "probing"} => cache[promise[p].target] = p

\* A failed lookup is never remembered, so the next request tries again; and
\* what is remembered of a data source always has a version.
NoFailureKept ==
  \A t \in Targets :
    cache[t] # None /\ promise[cache[t]].stage = "resolved" =>
      /\ promise[cache[t]].info # Unknown
      /\ t # Local => promise[cache[t]].info.version # NoVersion

\* All requests to a cluster whose lookup succeeded were routed by the same
\* answer, also those that resumed after a failure, or around an upgrade.
OneAnswer ==
  \A r, s \in Requests :
    target[r] = target[s] /\ used[r] # Unknown /\ used[s] # Unknown => used[r] = used[s]

\* A query goes to the endpoints its cluster has, the engine recorded or not,
\* unless the lookup found nothing or the cluster changed behind the plugin.
RoutedRight ==
  \A r \in Requests :
    /\ kind[r] = "query" /\ life[r] \in {"called", "ended"}
    /\ used[r].version # NoVersion
    /\ ~changed[target[r]]
    => (via[r] = "opendistro" <=> actual[target[r]].engine = "elasticsearch")

\* Every request that waits for a lookup is answered, whoever started the probe
\* and whether or not it failed.
RequestsEnd == \A r \in Requests : life[r] = "waiting" ~> life[r] = "ended"
=============================================================================

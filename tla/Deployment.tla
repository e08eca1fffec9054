----------------------------- MODULE Deployment -----------------------------
(***************************************************************************)
(* A cluster through its upgrades, and what getDeploymentCapabilities says *)
(* of it at each version.  A cluster is Elasticsearch with the OpenDistro  *)
(* plugins or OpenSearch; it may move from the first to the second.        *)
(* Routing sends requests to such a cluster while it changes.              *)
(***************************************************************************)
EXTENDS Capabilities

CONSTANT Minors  \* the minor versions explored

ASSUME MinorsAssumption == Minors \subseteq Nat

VARIABLES isOpenSearch,  \* what the cluster runs
          version,
          signal         \* what the workbench is told of the engine

deploymentVars == <<isOpenSearch, version, signal>>

\* The versions that exist: OpenSearch 1 to 3, OpenDistro on Elasticsearch 6 and 7.
Majors(os) == IF os THEN {1, 2, 3} ELSE {6, 7}
Releases(os) == {Version(major, minor) : major \in Majors(os), minor \in Minors}

\* The signal is right or missing.
Signals(os) == {"undefined", IF os THEN "opensearch" ELSE "elasticsearch"}

DeploymentInit ==
  /\ isOpenSearch \in BOOLEAN
  /\ version \in Releases(isOpenSearch)
  /\ signal \in Signals(isOpenSearch)

\* Releases come out in this order, whatever the code makes of them.
Newer(v, w) == v.major > w.major \/ (v.major = w.major /\ v.minor > w.minor)

\* To the next release: upgrades that skip some are several of these.
Upgrade ==
  /\ \E v \in Releases(isOpenSearch) :
       /\ Newer(v, version)
       /\ ~\E w \in Releases(isOpenSearch) : Newer(w, version) /\ Newer(v, w)
       /\ version' = v
  /\ UNCHANGED <<isOpenSearch, signal>>

Migrate ==
  /\ ~isOpenSearch
  /\ isOpenSearch' = TRUE
  /\ version' \in Releases(TRUE)
  /\ signal' \in Signals(TRUE)

DeploymentNext == Upgrade \/ Migrate

caps == getDeploymentCapabilities(version, signal)

-----------------------------------------------------------------------------
\* Whatever the signal, the engine is recognised: the version-major heuristic
\* agrees with the explicit signal on every release that exists.
EngineRecognised == caps.usesLegacyOpenDistroSql = ~isOpenSearch

\* The state summarises the features it is computed from, and no state hides
\* a feature of a later one.
StateSummarises ==
  /\ caps.state = "S-min" => ~caps.hasDataSources /\ ~caps.hasSessionId /\ ~caps.hasFlintDDL
  /\ caps.state = "S-async" => caps.hasDataSources /\ ~caps.hasSessionId /\ ~caps.hasFlintDDL
  /\ caps.state = "S-flint-none" => caps.hasSessionId /\ ~caps.hasFlintDDL
  /\ caps.state = "S-full" <=> caps.hasFlintDDL /\ caps.hasCatalogCache /\ caps.hasAccelerationFlyout

\* Features that only ever arrive with a newer version.
Gained == {"hasDataSources", "hasAsyncQuery", "hasSessionId", "hasFlintDDL", "hasCatalogCache",
           "hasAccelerationFlyout", "hasPpl"}

\* An upgrade takes no feature away, but for the DSL JSON format, which never
\* comes back once OpenSearch has dropped it.
UpgradeKeepsFeatures ==
  [][/\ \A f \in Gained : caps[f] => caps'[f]
     /\ isOpenSearch /\ ~caps.hasDslJsonFormat => ~caps'.hasDslJsonFormat]_deploymentVars
=============================================================================

---------------------------- MODULE Capabilities ----------------------------
(***************************************************************************)
(* getDeploymentCapabilities (common/utils/deployment_capabilities.ts):    *)
(* which features the workbench enables for a cluster, from its version    *)
(* and from what is known of its engine.  Patch numbers play no part.      *)
(***************************************************************************)
EXTENDS Naturals

\* A version that semver.coerce understands, and one that is missing or not
\* understood.
Version(major, minor) == [major |-> major, minor |-> minor]
NoVersion == [major |-> 0, minor |-> 0]

\* isOpenSearch: true, false or undefined.
Engines == {"opensearch", "elasticsearch", "undefined"}

\* Slip: major and minor are compared separately.
AtLeast_Each(v, major, minor) == v.major >= major /\ v.minor >= minor

\* semver.gte(v, "<major>.<minor>.0")
AtLeast(v, major, minor) ==
  v.major > major \/ (v.major = major /\ v.minor >= minor)

\* The authoritative signal if there is one, else Elasticsearch is major 6 or 7.
IsOpenSearch(v, engine) ==
  IF engine = "undefined" THEN v.major \notin {6, 7} ELSE engine = "opensearch"

\* S-min, S-async, S-flint-none or S-full, by the first feature that is missing.
GateState(hasAsyncQuery, hasSessionId, hasFlintDDL) ==
  IF ~hasAsyncQuery THEN "S-min"
  ELSE IF ~hasSessionId THEN "S-async"
  ELSE IF ~hasFlintDDL THEN "S-flint-none"
  ELSE "S-full"

DEFAULT_CAPABILITIES ==
  [state |-> "S-full", hasDataSources |-> TRUE, hasAsyncQuery |-> TRUE, hasSessionId |-> TRUE,
   hasFlintDDL |-> TRUE, hasCatalogCache |-> TRUE, hasAccelerationFlyout |-> TRUE,
   hasDslJsonFormat |-> FALSE, usesLegacyOpenDistroSql |-> FALSE, hasPpl |-> TRUE]

\* What the version and the engine say, for a version that is known.
KnownCapabilities(v, engine) ==
  LET isOpenSearch == IsOpenSearch(v, engine)
      hasAsyncQuery == isOpenSearch /\ AtLeast(v, 2, 11)
      hasSessionId == isOpenSearch /\ AtLeast(v, 2, 12)
      hasFlintDDL == isOpenSearch /\ AtLeast(v, 2, 13)
  IN  [state |-> GateState(hasAsyncQuery, hasSessionId, hasFlintDDL),
       hasDataSources |-> hasAsyncQuery,
       hasAsyncQuery |-> hasAsyncQuery,
       hasSessionId |-> hasSessionId,
       hasFlintDDL |-> hasFlintDDL,
       hasCatalogCache |-> isOpenSearch /\ AtLeast(v, 2, 13),
       hasAccelerationFlyout |-> isOpenSearch /\ AtLeast(v, 2, 13),
       hasDslJsonFormat |-> ~AtLeast(v, 3, 0),
       usesLegacyOpenDistroSql |-> ~isOpenSearch,
       hasPpl |-> isOpenSearch \/ AtLeast(v, 7, 9)]

getDeploymentCapabilities(v, engine) ==
  IF v = NoVersion THEN DEFAULT_CAPABILITIES ELSE KnownCapabilities(v, engine)
=============================================================================

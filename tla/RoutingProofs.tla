--------------------------- MODULE RoutingProofs ----------------------------
(***************************************************************************)
(* Proofs about Routing and Deployment, for every set of minor versions.   *)
(***************************************************************************)
EXTENDS Routing, TLAPS

\* The cluster runs a version that exists, and what is told of it is true.
ClusterSound == version \in Releases(isOpenSearch) /\ signal \in Signals(isOpenSearch)

\* The action that is chosen for a request by what was known of the cluster.
Chosen(name, known) ==
  IF name \in JobActions \cup {"datasourcesGetQuery"} THEN Action(name, FALSE)
  ELSE legacyActionFor(name, known)

\* An answered request keeps where it went, with which action, and what the page
\* makes of the answer.
RequestSound ==
  /\ request.stage = "resolved" =>
       /\ request.action = Chosen(request.name, request.asked)
       /\ request.name = "datasourcesGetQuery" => CapsOf(request.asked).hasDataSources
  /\ Called =>
       /\ \E known : request.action = Chosen(request.name, known)
       /\ request.reached = Reached(Wire(request.name, request.id))
       /\ request.made = Made(request.name, request.outcome)

\* The inductive invariant.
Sound ==
  /\ TypeOK /\ (remote => dataSourceEnabled)
  /\ RequestSound /\ KnownClusterServes

-----------------------------------------------------------------------------
(* The capabilities *)

LEMMA ReleasesAreVersions ==
  \A os \in BOOLEAN : \A v \in Releases(os) :
    /\ v.major \in Majors(os) /\ v.minor \in Nat
    /\ v # NoVersion
BY MinorsAssumption DEF Releases, Majors, Version, NoVersion

\* The engine is recognised, with the signal or by the version.
LEMMA Recognised ==
  ASSUME NEW os \in BOOLEAN, NEW v \in Releases(os), NEW s \in Signals(os)
  PROVE  /\ getDeploymentCapabilities(v, s) = KnownCapabilities(v, s)
         /\ IsOpenSearch(v, s) = os
<1>1. v # NoVersion /\ v.major \in Majors(os)
  BY ReleasesAreVersions
<1>2. getDeploymentCapabilities(v, s) = KnownCapabilities(v, s)
  BY <1>1 DEF getDeploymentCapabilities
<1>3. IsOpenSearch(v, s) = os
  BY <1>1 DEF IsOpenSearch, Majors, Signals
<1>4. QED
  BY <1>2, <1>3

LEMMA CapsOfCluster ==
  ASSUME isOpenSearch \in BOOLEAN, ClusterSound
  PROVE  /\ caps = KnownCapabilities(version, signal)
         /\ IsOpenSearch(version, signal) = isOpenSearch
BY Recognised DEF ClusterSound, caps

LEMMA EngineStep == isOpenSearch \in BOOLEAN /\ ClusterSound => EngineRecognised
<1> SUFFICES ASSUME isOpenSearch \in BOOLEAN, ClusterSound PROVE EngineRecognised
  OBVIOUS
<1>1. KnownCapabilities(version, signal).usesLegacyOpenDistroSql = ~IsOpenSearch(version, signal)
  BY DEF KnownCapabilities
<1>2. QED
  BY <1>1, CapsOfCluster DEF EngineRecognised

LEMMA StateStep == isOpenSearch \in BOOLEAN /\ ClusterSound => StateSummarises
<1> SUFFICES ASSUME isOpenSearch \in BOOLEAN, ClusterSound PROVE StateSummarises
  OBVIOUS
<1>1. version.major \in Nat /\ version.minor \in Nat
  BY ReleasesAreVersions DEF ClusterSound, Majors
<1> DEFINE async == isOpenSearch /\ AtLeast(version, 2, 11)
           session == isOpenSearch /\ AtLeast(version, 2, 12)
           flint == isOpenSearch /\ AtLeast(version, 2, 13)
<1>2. (flint => session) /\ (session => async)
  BY <1>1 DEF AtLeast
<1> HIDE DEF async, session, flint
<1>3. /\ caps.state = GateState(async, session, flint)
      /\ caps.hasDataSources = async /\ caps.hasSessionId = session /\ caps.hasFlintDDL = flint
      /\ caps.hasCatalogCache = flint /\ caps.hasAccelerationFlyout = flint
  BY CapsOfCluster DEF KnownCapabilities, async, session, flint
<1>4. async \in BOOLEAN /\ session \in BOOLEAN /\ flint \in BOOLEAN
  BY <1>1 DEF async, session, flint, AtLeast
<1>5. QED
  BY <1>2, <1>3, <1>4 DEF StateSummarises, GateState

\* A later version of the same engine reaches every threshold an earlier one does.
LEMMA LaterReachesMore ==
  ASSUME NEW os \in BOOLEAN, NEW v \in Releases(os), NEW w \in Releases(os), Newer(w, v),
         NEW major \in Nat, NEW minor \in Nat, AtLeast(v, major, minor)
  PROVE  AtLeast(w, major, minor)
<1>1. /\ v.major \in Nat /\ v.minor \in Nat
      /\ w.major \in Nat /\ w.minor \in Nat
  BY ReleasesAreVersions DEF Majors
<1>2. QED
  BY <1>1 DEF Newer, AtLeast

LEMMA UpgradeStep ==
  ASSUME isOpenSearch \in BOOLEAN, ClusterSound, DeploymentNext
  PROVE  /\ isOpenSearch' \in BOOLEAN /\ ClusterSound'
         /\ \A f \in Gained : caps[f] => caps'[f]
         /\ isOpenSearch /\ ~caps.hasDslJsonFormat => ~caps'.hasDslJsonFormat
<1>1. isOpenSearch' \in BOOLEAN /\ ClusterSound'
  BY DEF DeploymentNext, Upgrade, Migrate, ClusterSound
<1>2. /\ caps = KnownCapabilities(version, signal)
      /\ IsOpenSearch(version, signal) = isOpenSearch
  BY CapsOfCluster
<1>3. /\ caps' = KnownCapabilities(version', signal')
      /\ IsOpenSearch(version', signal') = isOpenSearch'
  BY <1>1, Recognised DEF ClusterSound, caps
<1>4. CASE Upgrade
  <2>1. /\ version \in Releases(isOpenSearch) /\ version' \in Releases(isOpenSearch)
        /\ Newer(version', version) /\ isOpenSearch' = isOpenSearch
    BY <1>4 DEF Upgrade, ClusterSound
  <2>2. \A major, minor \in Nat : AtLeast(version, major, minor) => AtLeast(version', major, minor)
    BY <2>1, LaterReachesMore
  <2>3. AtLeast(version, 2, 11) => AtLeast(version', 2, 11)
    BY <2>2
  <2>4. AtLeast(version, 2, 12) => AtLeast(version', 2, 12)
    BY <2>2
  <2>5. AtLeast(version, 2, 13) => AtLeast(version', 2, 13)
    BY <2>2
  <2>6. AtLeast(version, 3, 0) => AtLeast(version', 3, 0)
    BY <2>2
  <2>7. AtLeast(version, 7, 9) => AtLeast(version', 7, 9)
    BY <2>2
  <2>8. QED
    BY <1>1, <1>2, <1>3, <2>1, <2>3, <2>4, <2>5, <2>6, <2>7 DEF KnownCapabilities, Gained
<1>5. CASE Migrate
  <2>1. isOpenSearch = FALSE /\ isOpenSearch' = TRUE
    BY <1>5 DEF Migrate
  <2>2. QED
    BY <1>1, <1>2, <1>3, <2>1 DEF KnownCapabilities, Gained
<1>6. QED
  BY <1>4, <1>5 DEF DeploymentNext

-----------------------------------------------------------------------------
(* The request *)

LEMMA InitSound == Init => Sound
BY DEF Init, DeploymentInit, Sound, TypeOK, RequestSound, KnownClusterServes, Called, NoRequest

\* A cluster that is known as it is has what is called.
LEMMA ServedAction ==
  ASSUME Sound, request.stage = "resolved",
         request.asked = Current \/ request.name \in AsyncActions, Offered(request.name),
         NEW outcome \in Outcomes(request.action, "selected")
  PROVE  outcome # "lacking"
<1> DEFINE name == request.name
<1>1. /\ name \in Requests
      /\ request.action = Chosen(name, request.asked)
      /\ name = "datasourcesGetQuery" => CapsOf(request.asked).hasDataSources
      /\ isOpenSearch \in BOOLEAN /\ ClusterSound
  <2>1. request # NoRequest
    BY DEF NoRequest
  <2>2. QED
    BY <2>1 DEF Sound, TypeOK, RequestSound, ClusterSound
<1>2. /\ caps = KnownCapabilities(version, signal)
      /\ IsOpenSearch(version, signal) = isOpenSearch
  BY <1>1, CapsOfCluster
<1>3. request.asked = Current => CapsOf(request.asked) = caps
  BY DEF CapsOf, Current, caps
<1>4. ~Lacks(request.action) /\ ~(request.action.legacy /\ isOpenSearch)
  <2>1. CASE name \in AsyncActions
    <3>1. isOpenSearch /\ AtLeast(version, 2, 11)
      BY <1>2, <2>1 DEF Offered, KnownCapabilities
    <3>2. request.action = Action(name, FALSE)
      <4>1. name \notin LEGACY_ELIGIBLE_ACTIONS
        BY <2>1 DEF AsyncActions, JobActions, LEGACY_ELIGIBLE_ACTIONS, QueryActions, TranslateActions
      <4>2. legacyActionFor(name, request.asked) = Action(name, FALSE)
        BY <4>1 DEF legacyActionFor, Action
      <4>3. QED
        BY <1>1, <4>2 DEF Chosen
    <3>3. QED
      BY <2>1, <3>1, <3>2 DEF Lacks, Action
  <2>2. CASE name = "datasourcesGetQuery"
    <3>1. request.asked = Current
      BY <2>2 DEF AsyncActions, JobActions
    <3>2. caps.hasDataSources
      BY <1>1, <1>3, <2>2, <3>1
    <3>3. isOpenSearch /\ AtLeast(version, 2, 11)
      BY <1>2, <3>2 DEF KnownCapabilities
    <3>4. request.action = Action(name, FALSE)
      BY <1>1, <2>2 DEF Chosen
    <3>5. QED
      BY <3>3, <3>4 DEF Lacks, Action
  <2>3. CASE name \in LEGACY_ELIGIBLE_ACTIONS
    <3>1. name \notin AsyncActions \cup {"datasourcesGetQuery"}
      BY <2>3 DEF LEGACY_ELIGIBLE_ACTIONS, QueryActions, TranslateActions, AsyncActions, JobActions
    <3>2. request.asked = Current
      BY <3>1
    <3>3. request.action.name = name /\ request.action.legacy = ~isOpenSearch
      <4>1. request.action = legacyActionFor(name, request.asked)
        BY <1>1, <3>1 DEF Chosen, AsyncActions
      <4>2. caps.usesLegacyOpenDistroSql = ~isOpenSearch
        BY <1>1, EngineStep DEF EngineRecognised
      <4>3. (name \in LEGACY_ELIGIBLE_ACTIONS /\ CapsOf(request.asked).usesLegacyOpenDistroSql)
               = ~isOpenSearch
        BY <1>3, <2>3, <3>2, <4>2
      <4>4. request.action = Action(name, ~isOpenSearch)
        BY <4>1, <4>3 DEF legacyActionFor
      <4>5. QED
        BY <4>4 DEF Action
    <3>4. name \in PplActions => isOpenSearch \/ AtLeast(version, 7, 9)
      BY <1>2 DEF Offered, KnownCapabilities
    <3>5. QED
      BY <1>1, <3>1, <3>3, <3>4 DEF Lacks
  <2>4. QED
    BY <1>1, <2>1, <2>2, <2>3 DEF Requests, LEGACY_ELIGIBLE_ACTIONS
<1>5. QED
  BY <1>4 DEF Outcomes

LEMMA ClusterSteps ==
  ASSUME Sound, ClusterChanges
  PROVE  Sound'
<1>1. isOpenSearch' \in BOOLEAN /\ ClusterSound'
  BY UpgradeStep DEF Sound, TypeOK, ClusterSound, ClusterChanges
<1>2. UNCHANGED <<dataSourceEnabled, remote, info, request>>
  BY DEF ClusterChanges
<1>3. TypeOK'
  BY <1>1, <1>2 DEF Sound, TypeOK, ClusterSound, Ids
<1>4. RequestSound' /\ KnownClusterServes'
  BY <1>2 DEF Sound, RequestSound, KnownClusterServes, Called, Reached, IsDataSource, CapsOf,
              Chosen, legacyActionFor
<1>5. QED
  BY <1>2, <1>3, <1>4 DEF Sound

LEMMA InfoTyped ==
  ASSUME Sound, NEW known, Known(known)
  PROVE  info' = Unknown \/ \E os \in BOOLEAN : info'.version \in Releases(os) /\ info'.signal \in Signals(os)
BY DEF Sound, TypeOK, Known, Current

\* A request whose action is chosen.
LEMMA ResolvedSound ==
  ASSUME Sound, request.stage = "sent", NEW known, NEW action, Resolved(known, action),
         action = Chosen(request.name, known),
         request.name = "datasourcesGetQuery" => CapsOf(known).hasDataSources,
         UNCHANGED <<deploymentVars, dataSourceEnabled, remote>>,
         info' = Unknown \/ \E os \in BOOLEAN : info'.version \in Releases(os) /\ info'.signal \in Signals(os)
  PROVE  Sound'
<1>1. request.name \in Requests /\ request.id \in Ids
  BY DEF Sound, TypeOK, NoRequest
<1>2. /\ request'.name = request.name /\ request'.id = request.id /\ request'.stage = "resolved"
      /\ request'.asked = known /\ request'.action = action
  BY DEF Resolved
<1>3. TypeOK'
  BY <1>1, <1>2 DEF Sound, TypeOK, deploymentVars, Ids
<1>4. RequestSound' /\ KnownClusterServes'
  BY <1>2 DEF RequestSound, KnownClusterServes, Called, CapsOf, Chosen, legacyActionFor
<1>5. QED
  BY <1>3, <1>4 DEF Sound

LEMMA ResolveSteps ==
  ASSUME Sound, ResolveJob \/ \E known : ResolveAction(known) \/ ResolveDataSources(known)
  PROVE  Sound'
<1>1. CASE ResolveJob
  <2>1. request.name \in JobActions /\ request.stage = "sent" /\ request.name # "datasourcesGetQuery"
    BY <1>1 DEF ResolveJob, Sent, JobActions
  <2>2. Action(request.name, FALSE) = Chosen(request.name, Unknown)
    BY <2>1 DEF Chosen
  <2>3. info' = info
    BY <1>1 DEF ResolveJob
  <2>4. info' = Unknown \/ \E os \in BOOLEAN : info'.version \in Releases(os) /\ info'.signal \in Signals(os)
    BY <2>3 DEF Sound, TypeOK
  <2>5. QED
    BY <1>1, <2>1, <2>2, <2>4, ResolvedSound DEF ResolveJob
<1>2. ASSUME NEW known, ResolveAction(known) PROVE Sound'
  <2>1. /\ request.stage = "sent"
        /\ request.name \notin JobActions \cup {"datasourcesGetQuery"}
    BY <1>2 DEF ResolveAction, Sent
  <2>2. legacyActionFor(request.name, known) = Chosen(request.name, known)
    BY <2>1 DEF Chosen
  <2>3. info' = Unknown \/ \E os \in BOOLEAN : info'.version \in Releases(os) /\ info'.signal \in Signals(os)
    <3>1. CASE Known(known)
      BY <3>1, InfoTyped
    <3>2. CASE info' = info
      BY <3>2 DEF Sound, TypeOK
    <3>3. QED
      BY <1>2, <3>1, <3>2 DEF ResolveAction
  <2>4. QED
    BY <1>2, <2>1, <2>2, <2>3, ResolvedSound DEF ResolveAction
<1>3. ASSUME NEW known, ResolveDataSources(known) PROVE Sound'
  <2>1. /\ request.name = "datasourcesGetQuery" /\ request.stage = "sent"
        /\ Known(known) /\ UNCHANGED <<deploymentVars, dataSourceEnabled, remote>>
    BY <1>3 DEF ResolveDataSources, Sent
  <2>2. info' = Unknown \/ \E os \in BOOLEAN : info'.version \in Releases(os) /\ info'.signal \in Signals(os)
    BY <2>1, InfoTyped
  <2>3. CASE CapsOf(known).hasDataSources
    <3>1. Resolved(known, Action(request.name, FALSE))
      BY <1>3, <2>3 DEF ResolveDataSources
    <3>2. Action(request.name, FALSE) = Chosen(request.name, known)
      BY <2>1 DEF Chosen
    <3>3. QED
      BY <2>1, <2>2, <2>3, <3>1, <3>2, ResolvedSound
  <2>4. CASE ~CapsOf(known).hasDataSources
    <3>1. request' = [name |-> request.name, id |-> request.id, stage |-> "answered",
                      outcome |-> "empty"]
      BY <1>3, <2>4 DEF ResolveDataSources
    <3>2. request.name \in Requests /\ request.id \in Ids
      BY <2>1 DEF Sound, TypeOK, NoRequest
    <3>3. TypeOK'
      BY <2>1, <2>2, <3>1, <3>2 DEF Sound, TypeOK, deploymentVars, Ids
    <3>4. RequestSound' /\ KnownClusterServes'
      BY <3>1 DEF RequestSound, KnownClusterServes, Called
    <3>5. QED
      BY <2>1, <3>3, <3>4 DEF Sound
  <2>5. QED
    BY <2>3, <2>4
<1>4. QED
  BY <1>1, <1>2, <1>3

LEMMA AnswerSound ==
  ASSUME Sound, NEW outcome, Answer(outcome)
  PROVE  Sound'
<1>1. /\ request.name \in Requests /\ request.id \in Ids
      /\ request.action = Chosen(request.name, request.asked)
  BY DEF Sound, TypeOK, NoRequest, RequestSound, Answer
<1>2. /\ request'.name = request.name /\ request'.id = request.id /\ request'.stage = "answered"
      /\ request'.action = request.action /\ request'.outcome = outcome
      /\ request'.reached = ReachedNow
      /\ request'.made = Made(request.name, outcome)
      /\ request'.fresh = ((request.asked = Current \/ request.name \in AsyncActions) /\ Offered(request.name))
      /\ UNCHANGED <<deploymentVars, dataSourceEnabled, remote, info>>
  BY DEF Answer
<1>3. TypeOK'
  BY <1>1, <1>2 DEF Sound, TypeOK, deploymentVars, Ids
<1>4. RequestSound'
  BY <1>1, <1>2 DEF RequestSound, Called, ReachedNow, Reached, IsDataSource, Chosen, legacyActionFor, CapsOf
<1>5. KnownClusterServes'
  <2>1. outcome \in Outcomes(request.action, ReachedNow) /\ request.stage = "resolved"
    BY DEF Answer
  <2>2. QED
    BY <1>2, <2>1, ServedAction DEF KnownClusterServes
<1>6. QED
  BY <1>2, <1>3, <1>4, <1>5 DEF Sound

LEMMA StepSound == Sound /\ [Next]_vars => Sound'
<1> SUFFICES ASSUME Sound, [Next]_vars PROVE Sound'
  OBVIOUS
<1>1. ASSUME NEW name \in Requests, NEW id \in Ids, Send(name, id) PROVE Sound'
  <2>1. /\ request' = [name |-> name, id |-> id, stage |-> "sent"]
        /\ UNCHANGED <<deploymentVars, dataSourceEnabled, remote, info>>
    BY <1>1 DEF Send
  <2>2. TypeOK'
    BY <1>1, <2>1 DEF Sound, TypeOK, deploymentVars, Ids
  <2>3. RequestSound' /\ KnownClusterServes'
    BY <2>1 DEF RequestSound, KnownClusterServes, Called
  <2>4. QED
    BY <2>1, <2>2, <2>3 DEF Sound
<1>2. CASE UNCHANGED vars
  BY <1>2 DEF vars, deploymentVars, Sound, TypeOK, Ids, RequestSound, KnownClusterServes, Called,
              Reached, IsDataSource, Chosen, legacyActionFor, CapsOf
<1>3. QED
  BY <1>1, <1>2, ClusterSteps, ResolveSteps, AnswerSound DEF Next

\* In every execution the cluster, what is cached of it and the request are sound.
THEOREM Soundness == Spec => []Sound
BY InitSound, StepSound, PTL DEF Spec

-----------------------------------------------------------------------------
(* What follows *)

\* Every variable keeps its type.
THEOREM RoutingTypeCorrect == Spec => []TypeOK
<1>1. Sound => TypeOK
  BY DEF Sound
<1>2. QED
  BY <1>1, Soundness, PTL

\* The engine is recognised on every release, with the signal or without it.
THEOREM EnginesRecognised == Spec => []EngineRecognised
<1>1. Sound => EngineRecognised
  BY EngineStep DEF Sound, TypeOK, ClusterSound
<1>2. QED
  BY <1>1, Soundness, PTL

\* The state of the capabilities summarises the features.
THEOREM StatesSummarise == Spec => []StateSummarises
<1>1. Sound => StateSummarises
  BY StateStep DEF Sound, TypeOK, ClusterSound
<1>2. QED
  BY <1>1, Soundness, PTL

\* No upgrade takes a feature away.
THEOREM FeaturesKept == Spec => UpgradeKeepsFeatures
<1> DEFINE Step ==
      /\ \A f \in Gained : caps[f] => caps'[f]
      /\ isOpenSearch /\ ~caps.hasDslJsonFormat => ~caps'.hasDslJsonFormat
<1>1. Sound /\ [Next]_vars => [Step]_deploymentVars
  <2> SUFFICES ASSUME Sound, [Next]_vars, deploymentVars' # deploymentVars PROVE Step
    OBVIOUS
  <2>1. ClusterChanges
    BY DEF Next, vars, Send, ResolveJob, ResolveAction, ResolveDataSources, Answer
  <2>2. QED
    BY <2>1, UpgradeStep DEF ClusterChanges, Sound, TypeOK, ClusterSound
<1>2. QED
  BY <1>1, Soundness, PTL DEF Spec, UpgradeKeepsFeatures

\* The actions that are chosen exist.
THEOREM ActionsDefined == Spec => []ActionDefined
<1>1. Sound => ActionDefined
  <2> SUFFICES ASSUME Sound, request.stage = "resolved" \/ Called
               PROVE  request.action \in PluginActions \cup LegacyActions
    BY DEF ActionDefined
  <2>1. request.name \in Requests
    BY DEF Sound, TypeOK, NoRequest, Called
  <2>2. PICK known : request.action = Chosen(request.name, known)
    BY DEF Sound, RequestSound
  <2>3. \/ request.action = Action(request.name, FALSE)
        \/ request.name \in LEGACY_ELIGIBLE_ACTIONS /\ request.action = Action(request.name, TRUE)
    <3>1. CASE request.name \in LEGACY_ELIGIBLE_ACTIONS /\ CapsOf(known).usesLegacyOpenDistroSql
      BY <2>2, <3>1 DEF Chosen, legacyActionFor
    <3>2. CASE ~(request.name \in LEGACY_ELIGIBLE_ACTIONS /\ CapsOf(known).usesLegacyOpenDistroSql)
      BY <2>2, <3>2 DEF Chosen, legacyActionFor
    <3>3. QED
      BY <3>1, <3>2
  <2>4. QED
    BY <2>1, <2>3 DEF PluginActions, LegacyActions, LEGACY_ELIGIBLE_ACTIONS
<1>2. QED
  BY <1>1, Soundness, PTL

\* A cluster that is known as it is has what is called.
THEOREM KnownClustersServe == Spec => []KnownClusterServes
<1>1. Sound => KnownClusterServes
  BY DEF Sound
<1>2. QED
  BY <1>1, Soundness, PTL

\* A poll goes where the query went, or nowhere.
THEOREM PollsFollowQueries == Spec => []PollsWhereAccepted
<1>1. Sound => PollsWhereAccepted
  <2> SUFFICES ASSUME Sound, Called, request.name = "sparkSqlGetQuery", request.reached # "nowhere"
               PROVE  request.reached = Reached(Wire("sparkSqlQuery", request.id))
    BY DEF PollsWhereAccepted
  <2>1. /\ request.id \in Ids /\ (remote => dataSourceEnabled)
        /\ request.reached = Reached(Wire("sparkSqlGetQuery", request.id))
    BY DEF Sound, TypeOK, NoRequest, RequestSound, Called
  <2>2. CASE request.id = Absent
    BY <2>1, <2>2 DEF Wire, Reached, IsDataSource, Absent, Ids
  <2>3. CASE request.id # Absent
    BY <2>1, <2>3 DEF Wire
  <2>4. QED
    BY <2>2, <2>3
<1>2. QED
  BY <1>1, Soundness, PTL

\* No failure is taken for a result.
THEOREM FailuresSeen == Spec => []FailureSeen
<1>1. Sound => FailureSeen
  BY DEF Sound, RequestSound, FailureSeen, Made, Status
<1>2. QED
  BY <1>1, Soundness, PTL
=============================================================================

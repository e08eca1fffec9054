------------------------- MODULE ClusterInfoProofs --------------------------
(***************************************************************************)
(* Proofs about ClusterInfo, for every set of requests, data sources and   *)
(* promises.  The eviction in the catch handlers is unconditional; what    *)
(* makes it safe is that the promise that fails is always the cached one,  *)
(* which is the core of the invariant.                                     *)
(***************************************************************************)
EXTENDS ClusterInfo, TLAPS

Pending(p) == promise[p].stage \in {"reading", "probing"}
Settled(p) == promise[p].stage = "resolved"

\* The cache points at a promise of its target, never at one that failed.
CachePoints ==
  \A t \in Targets : cache[t] # None =>
    /\ promise[cache[t]].target = t
    /\ promise[cache[t]].stage # "unused"
    /\ Settled(cache[t]) => promise[cache[t]].info # Unknown

\* A pending promise, and one that was resolved with an answer, is the cached one.
CacheHolds ==
  \A p \in Promises :
    Pending(p) \/ (Settled(p) /\ promise[p].info # Unknown) => cache[promise[p].target] = p

RemoteVersioned ==
  \A p \in Promises :
    Settled(p) /\ promise[p].target # Local /\ promise[p].info # Unknown =>
      promise[p].info.version # NoVersion

CacheSound == CachePoints /\ CacheHolds /\ RemoteVersioned

\* A waiting request waits for a promise made for its target; what a request was
\* routed by, if anything, is what the cache still holds.
RequestsSound ==
  /\ \A r \in Requests : life[r] = "waiting" =>
       /\ awaits[r] \in Promises
       /\ promise[awaits[r]].target = target[r]
       /\ promise[awaits[r]].stage # "unused"
  /\ \A r \in Requests : life[r] \in {"idle", "waiting"} => used[r] = Unknown
  /\ \A r \in Requests : used[r] # Unknown =>
       /\ cache[target[r]] # None
       /\ Settled(cache[target[r]])
       /\ used[r] = promise[cache[target[r]]].info

\* info describes the cluster d: its version, and its engine if known.
Describes(info, d) == info.version = d.version /\ info.engine \in {d.engine, "undefined"}

\* Everything that is known of a cluster that has not changed describes it.
KnowledgeSound ==
  /\ \A t \in Targets : ~changed[t] /\ saved[t].version # NoVersion => Describes(saved[t], actual[t])
  /\ \A p \in Promises :
       Settled(p) /\ ~changed[promise[p].target] /\ promise[p].info.version # NoVersion =>
         Describes(promise[p].info, actual[promise[p].target])
  /\ \A r \in Requests :
       ~changed[target[r]] /\ used[r].version # NoVersion => Describes(used[r], actual[target[r]])
  /\ \A r \in Requests :
       kind[r] = "query" /\ life[r] \in {"called", "ended"} =>
         via[r] = legacyActionFor("query", used[r])

\* The inductive invariant.
Sound == TypeOK /\ CacheSound /\ RequestsSound /\ KnowledgeSound

-----------------------------------------------------------------------------
LEMMA UnknownInfos == Unknown \in Infos /\ BlankInfo \in Infos /\ BlankInfo # Unknown
BY DEF Unknown, BlankInfo, Infos, Engines, NoVersion

LEMMA DeploymentInfos == Deployments \subseteq Infos
BY DeploymentAssumption DEF Infos, Engines

\* A new promise is one of the unused ones.
LEMMA FreshUnused ==
  ASSUME NEW f, NEW p \in Fresh(f)
  PROVE  p \in Promises /\ f[p].stage = "unused"
<1> DEFINE unused == {x \in Promises : f[x].stage = "unused"}
<1>1. unused # {} /\ p = CHOOSE x \in unused : TRUE
  BY DEF Fresh
<1>2. p \in unused
  BY <1>1
<1>3. QED
  BY <1>2

\* Resolving a promise changes its stage and its info.
LEMMA ResolvedPromise ==
  ASSUME TypeOK, NEW p \in Promises, NEW i \in Infos, promise' = Resolved(p, i)
  PROVE  /\ promise' \in [Promises -> [target : Targets, stage : Stages, info : Infos]]
         /\ promise'[p] = [target |-> promise[p].target, stage |-> "resolved", info |-> i]
         /\ \A x \in Promises \ {p} : promise'[x] = promise[x]
BY DEF TypeOK, Resolved, Stages

\* The values of every variable stay in their types.
LEMMA TypeStep == TypeOK /\ RequestsSound /\ [Next]_serverVars => TypeOK'
<1> SUFFICES ASSUME TypeOK, RequestsSound, [Next]_serverVars PROVE TypeOK'
  OBVIOUS
<1> USE DEF TypeOK, serviceVars, requestVars, clusterVars
<1>1. ASSUME NEW r \in Requests, NEW k \in Kinds, NEW t \in Targets, Arrive(r, k, t) PROVE TypeOK'
  <2>1. CASE NeedsProbe(t)
    <3>1. PICK p \in Promises :
            /\ promise' = [promise EXCEPT ![p] =
                             [target |-> t, stage |-> FirstStage(t), info |-> Unknown]]
            /\ cache' = [cache EXCEPT ![t] = p]
            /\ awaits' = [awaits EXCEPT ![r] = p]
      BY <1>1, <2>1, FreshUnused DEF Arrive
    <3>2. [target |-> t, stage |-> FirstStage(t), info |-> Unknown]
            \in [target : Targets, stage : Stages, info : Infos]
      BY UnknownInfos DEF FirstStage, Stages
    <3>3. QED
      BY <1>1, <3>1, <3>2 DEF Arrive
  <2>2. CASE ~NeedsProbe(t)
    BY <1>1, <2>2 DEF Arrive
  <2>3. QED
    BY <2>1, <2>2
<1>2. ASSUME NEW r \in Requests, NEW k \in Kinds, NEW t \in Targets, ArriveDirect(r, k, t)
      PROVE TypeOK'
  BY <1>2 DEF ArriveDirect, Routes
<1>3. ASSUME NEW p \in Promises, ProbeStep(p) PROVE TypeOK'
  <2>1. CASE ReadRecorded(p)
    BY <2>1, ResolvedPromise DEF ReadRecorded
  <2>2. CASE ReadNothing(p)
    BY <2>2 DEF ReadNothing, Stages
  <2>3. CASE ProbeAnswered(p)
    <3>1. actual[promise[p].target] \in Infos
      BY DeploymentInfos
    <3>2. QED
      BY <2>3, <3>1, ResolvedPromise DEF ProbeAnswered
  <2>4. CASE ProbeBlank(p)
    BY <2>4, UnknownInfos, ResolvedPromise DEF ProbeBlank
  <2>5. CASE ProbeFails(p)
    BY <2>5, UnknownInfos, ResolvedPromise DEF ProbeFails, Evicted
  <2>6. QED
    BY <1>3, <2>1, <2>2, <2>3, <2>4, <2>5 DEF ProbeStep
<1>4. ASSUME NEW r \in Requests, Resume(r) PROVE TypeOK'
  <2>1. promise[awaits[r]].info \in Infos
    BY <1>4 DEF Resume, RequestsSound
  <2>2. QED
    BY <1>4, <2>1 DEF Resume, Routes, legacyActionFor
<1>5. ASSUME NEW r \in Requests, CallEnds(r) PROVE TypeOK'
  BY <1>5 DEF CallEnds
<1>6. ASSUME NEW t \in Targets, ClusterChanges(t) PROVE TypeOK'
  BY <1>6 DEF ClusterChanges
<1>7. CASE UNCHANGED serverVars
  BY <1>7 DEF serverVars
<1>8. QED
  BY <1>1, <1>2, <1>3, <1>4, <1>5, <1>6, <1>7 DEF Next

LEMMA InitSound == Init => Sound
<1> SUFFICES ASSUME Init PROVE Sound
  OBVIOUS
<1> USE UnknownInfos, TargetAssumption, PromiseAssumption
<1>1. PICK p \in Promises :
        /\ promise = [x \in Promises |->
                        IF x = p THEN [NoPromise EXCEPT !.stage = "probing"] ELSE NoPromise]
        /\ cache = [t \in Targets |-> IF t = Local THEN p ELSE None]
  BY FreshUnused DEF Init
<1>2. /\ promise[p] = [target |-> Local, stage |-> "probing", info |-> Unknown]
      /\ \A x \in Promises \ {p} :
           promise[x] = [target |-> Local, stage |-> "unused", info |-> Unknown]
  BY <1>1 DEF NoPromise
<1>3. promise \in [Promises -> [target : Targets, stage : Stages, info : Infos]]
  BY <1>1 DEF NoPromise, Stages
<1>4. \A d \in Deployments : Recordings(d) \subseteq Infos
  BY DeploymentAssumption DEF Recordings, Infos, Engines
<1>5. TypeOK
  BY <1>1, <1>3, <1>4 DEF Init, TypeOK, Kinds, Routes
<1>6. CacheSound
  BY <1>1, <1>2 DEF CacheSound, CachePoints, CacheHolds, RemoteVersioned, Pending, Settled
<1>7. RequestsSound
  BY DEF Init, RequestsSound
<1>8. \A t \in Targets : ~changed[t] /\ saved[t].version # NoVersion => Describes(saved[t], actual[t])
  <2> SUFFICES ASSUME NEW t \in Targets, ~changed[t], saved[t].version # NoVersion
               PROVE  Describes(saved[t], actual[t])
    OBVIOUS
  <2>1. actual[t] \in Deployments /\ saved[t] \in Recordings(actual[t])
    BY DEF Init
  <2>2. QED
    BY <2>1, DeploymentAssumption DEF Recordings, Describes, Unknown
<1>9. KnowledgeSound
  BY <1>2, <1>8 DEF Init, KnowledgeSound, Settled, Unknown
<1>10. QED
  BY <1>5, <1>6, <1>7, <1>9 DEF Sound

\* A pending promise is the cached one of its target, and nobody was routed by it.
LEMMA PendingCached ==
  ASSUME Sound, NEW p \in Promises, Pending(p)
  PROVE  /\ promise[p].target \in Targets
         /\ cache[promise[p].target] = p
         /\ \A r \in Requests : used[r] # Unknown => cache[target[r]] # p
BY DEF Sound, TypeOK, CacheSound, CacheHolds, RequestsSound, Pending, Settled

\* A pending promise goes on, or is resolved with an answer: it stays cached.
LEMMA PromiseMoves ==
  ASSUME Sound, NEW p \in Promises, Pending(p), NEW s \in Stages \ {"unused"}, NEW i \in Infos,
         promise'[p] = [target |-> promise[p].target, stage |-> s, info |-> i],
         \A x \in Promises \ {p} : promise'[x] = promise[x],
         s = "resolved" => i # Unknown,
         s = "resolved" /\ promise[p].target # Local => i.version # NoVersion,
         UNCHANGED <<cache, requestVars>>
  PROVE  CacheSound' /\ RequestsSound'
<1> USE PendingCached DEF Sound, TypeOK, CacheSound, Pending, Settled
<1>1. CachePoints'
  BY DEF CachePoints
<1>2. CacheHolds'
  BY DEF CacheHolds
<1>3. RemoteVersioned'
  BY DEF RemoteVersioned
<1>4. RequestsSound'
  BY DEF RequestsSound, requestVars
<1>5. QED
  BY <1>1, <1>2, <1>3, <1>4

\* A probe that settles with an answer is still the cached one afterwards; a
\* probe that fails is not cached anymore.
LEMMA ProbeSound ==
  ASSUME Sound, NEW p \in Promises, ProbeStep(p)
  PROVE  CacheSound' /\ RequestsSound'
<1>1. TypeOK /\ promise[p] \in [target : Targets, stage : Stages, info : Infos]
  BY DEF Sound, TypeOK
<1>2. Pending(p)
  BY DEF ProbeStep, ReadRecorded, ReadNothing, ProbeAnswered, ProbeBlank, ProbeFails, Pending
<1>3. ASSUME NEW i \in Infos, i # Unknown, promise[p].target # Local => i.version # NoVersion,
             promise' = Resolved(p, i), UNCHANGED <<cache, requestVars>>
      PROVE CacheSound' /\ RequestsSound'
  <2>1. /\ promise'[p] = [target |-> promise[p].target, stage |-> "resolved", info |-> i]
        /\ \A x \in Promises \ {p} : promise'[x] = promise[x]
    BY <1>1, <1>3, ResolvedPromise
  <2>2. QED
    BY <1>2, <1>3, <2>1, PromiseMoves DEF Stages
<1>4. CASE ReadRecorded(p)
  <2>1. saved[promise[p].target] \in Infos /\ saved[promise[p].target] # Unknown
    BY <1>1, <1>4 DEF ReadRecorded, TypeOK, Unknown
  <2>2. QED
    BY <1>3, <1>4, <2>1 DEF ReadRecorded
<1>5. CASE ReadNothing(p)
  <2>1. /\ promise'[p] = [target |-> promise[p].target, stage |-> "probing", info |-> promise[p].info]
        /\ \A x \in Promises \ {p} : promise'[x] = promise[x]
    BY <1>1, <1>5 DEF ReadNothing, TypeOK
  <2>2. QED
    BY <1>1, <1>2, <1>5, <2>1, PromiseMoves DEF ReadNothing, Stages
<1>6. CASE ProbeAnswered(p)
  <2>1. /\ actual[promise[p].target] \in Infos
        /\ actual[promise[p].target].version # NoVersion
    BY <1>1, DeploymentInfos, DeploymentAssumption DEF TypeOK
  <2>2. QED
    BY <1>3, <1>6, <2>1 DEF ProbeAnswered, Unknown
<1>7. CASE ProbeBlank(p)
  BY <1>3, <1>7, UnknownInfos DEF ProbeBlank
<1>8. CASE ProbeFails(p)
  <2> USE <1>2, PendingCached DEF Sound, TypeOK, CacheSound, Pending, Settled
  <2>1. /\ promise'[p] = [target |-> promise[p].target, stage |-> "resolved", info |-> Unknown]
        /\ \A x \in Promises \ {p} : promise'[x] = promise[x]
    BY <1>1, <1>8, UnknownInfos, ResolvedPromise DEF ProbeFails
  <2>2. cache' = [cache EXCEPT ![promise[p].target] = None] /\ UNCHANGED requestVars
    BY <1>8 DEF ProbeFails, Evicted
  <2>3. CachePoints'
    BY <2>1, <2>2 DEF CachePoints
  <2>4. CacheHolds'
    <3> SUFFICES ASSUME NEW x \in Promises,
                        Pending(x)' \/ (Settled(x)' /\ promise'[x].info # Unknown)
                 PROVE  cache'[promise'[x].target] = x
      BY DEF CacheHolds
    <3>1. x # p /\ promise'[x] = promise[x]
      BY <2>1
    <3>2. cache[promise[x].target] = x /\ promise[x].target \in Targets
      BY <3>1 DEF CacheHolds
    <3>3. promise[x].target # promise[p].target
      BY <3>1, <3>2
    <3>4. QED
      BY <2>2, <3>1, <3>2, <3>3
  <2>5. RemoteVersioned'
    BY <2>1, <2>2 DEF RemoteVersioned
  <2>6. RequestsSound'
    BY <2>1, <2>2 DEF RequestsSound, requestVars
  <2>7. QED
    BY <2>3, <2>4, <2>5, <2>6
<1>9. QED
  BY <1>4, <1>5, <1>6, <1>7, <1>8 DEF ProbeStep

\* A request that arrives waits for the cached promise, or for a new one that
\* it puts in the empty cache.
LEMMA ArriveSound ==
  ASSUME Sound, NEW r \in Requests, NEW k \in Kinds, NEW t \in Targets, Arrive(r, k, t)
  PROVE  CacheSound' /\ RequestsSound'
<1> USE DEF Sound, CacheSound, Pending, Settled
<1>1. TypeOK /\ used[r] = Unknown
  BY DEF Arrive, RequestsSound
<1>2. CASE NeedsProbe(t)
  <2>1. PICK p \in Promises :
          /\ promise[p].stage = "unused"
          /\ promise' = [promise EXCEPT ![p] =
                           [target |-> t, stage |-> FirstStage(t), info |-> Unknown]]
          /\ cache' = [cache EXCEPT ![t] = p]
          /\ awaits' = [awaits EXCEPT ![r] = p]
    BY <1>2, FreshUnused DEF Arrive
  <2>2. /\ promise'[p] = [target |-> t, stage |-> FirstStage(t), info |-> Unknown]
        /\ \A x \in Promises \ {p} : promise'[x] = promise[x]
        /\ FirstStage(t) \in {"reading", "probing"}
    BY <1>1, <2>1 DEF TypeOK, FirstStage
  <2>3. cache[t] = None /\ cache'[t] = p /\ \A u \in Targets \ {t} : cache'[u] = cache[u]
    BY <1>1, <1>2, <2>1 DEF TypeOK, NeedsProbe
  <2>4. CachePoints'
    BY <1>1, <2>1, <2>2, <2>3 DEF CachePoints, TypeOK
  <2>5. CacheHolds'
    BY <1>1, <2>1, <2>2, <2>3, PromiseAssumption DEF CacheHolds, TypeOK
  <2>6. RemoteVersioned'
    BY <1>1, <2>2 DEF RemoteVersioned
  <2>7. RequestsSound'
    <3>1. \A q \in Requests : used[q] # Unknown => q # r /\ target[q] # t /\ cache[target[q]] # p
      BY <1>1, <2>1, <2>3 DEF RequestsSound
    <3>2. /\ life' = [life EXCEPT ![r] = "waiting"] /\ target' = [target EXCEPT ![r] = t]
          /\ used' = used
      BY DEF Arrive
    <3>3. \A q \in Requests : life'[q] = "waiting" =>
            /\ awaits'[q] \in Promises
            /\ promise'[awaits'[q]].target = target'[q]
            /\ promise'[awaits'[q]].stage # "unused"
      BY <1>1, <2>1, <2>2, <3>2 DEF RequestsSound, TypeOK
    <3>4. \A q \in Requests : used'[q] # Unknown =>
            /\ cache'[target'[q]] # None
            /\ promise'[cache'[target'[q]]].stage = "resolved"
            /\ used'[q] = promise'[cache'[target'[q]]].info
      BY <1>1, <2>1, <2>2, <2>3, <3>1, <3>2 DEF RequestsSound, TypeOK
    <3>5. \A q \in Requests : life'[q] \in {"idle", "waiting"} => used'[q] = Unknown
      BY <1>1, <3>2 DEF RequestsSound, TypeOK
    <3>6. QED
      BY <3>3, <3>4, <3>5 DEF RequestsSound
  <2>8. QED
    BY <2>4, <2>5, <2>6, <2>7
<1>3. CASE ~NeedsProbe(t)
  <2>1. /\ UNCHANGED <<cache, promise, used>>
        /\ cache[t] \in Promises /\ promise[cache[t]].target = t /\ promise[cache[t]].stage # "unused"
    BY <1>1, <1>3 DEF Arrive, serviceVars, NeedsProbe, CachePoints, TypeOK
  <2>2. CacheSound'
    BY <2>1 DEF CachePoints, CacheHolds, RemoteVersioned
  <2>3. RequestsSound'
    BY <1>1, <1>3, <2>1 DEF Arrive, RequestsSound, TypeOK
  <2>4. QED
    BY <2>2, <2>3
<1>4. QED
  BY <1>2, <1>3

\* The next step of a request leaves the caches alone, and it is routed by a
\* lookup that either found nothing or is still cached.
LEMMA RequestSound ==
  ASSUME Sound, NEW r \in Requests,
         \/ \E k \in Kinds, t \in Targets : ArriveDirect(r, k, t)
         \/ Resume(r) \/ CallEnds(r)
  PROVE  CacheSound' /\ RequestsSound'
<1> USE DEF Sound
<1>1. TypeOK /\ UNCHANGED <<cache, promise, awaits>>
  BY DEF ArriveDirect, Resume, CallEnds, serviceVars
<1>2. CacheSound'
  BY <1>1 DEF CacheSound, CachePoints, CacheHolds, RemoteVersioned, Pending, Settled
<1>3. CASE \E k \in Kinds, t \in Targets : ArriveDirect(r, k, t)
  BY <1>1, <1>2, <1>3 DEF ArriveDirect, RequestsSound, Settled, TypeOK
<1>4. CASE Resume(r)
  <2>1. awaits[r] \in Promises /\ promise[awaits[r]].target = target[r] /\ Settled(awaits[r])
    BY <1>4 DEF Resume, RequestsSound, Settled
  <2>2. promise[awaits[r]].info # Unknown => cache[target[r]] = awaits[r]
    BY <2>1 DEF CacheSound, CacheHolds
  <2>3. /\ used' = [used EXCEPT ![r] = promise[awaits[r]].info]
        /\ UNCHANGED target
        /\ \E l \in {"called", "ended"} : life' = [life EXCEPT ![r] = l]
    BY <1>4 DEF Resume
  <2>4. QED
    BY <1>1, <1>2, <2>1, <2>2, <2>3, PromiseAssumption DEF RequestsSound, Settled, TypeOK
<1>5. CASE CallEnds(r)
  BY <1>1, <1>2, <1>5 DEF CallEnds, RequestsSound, Settled, TypeOK
<1>6. QED
  BY <1>3, <1>4, <1>5

\* What is known of a cluster keeps describing it until the cluster changes.
LEMMA KnowledgeStep == Sound /\ [Next]_serverVars => KnowledgeSound'
<1> SUFFICES ASSUME Sound, [Next]_serverVars PROVE KnowledgeSound'
  OBVIOUS
<1> USE DEF Sound, KnowledgeSound, Settled
<1>1. TypeOK
  OBVIOUS
<1>2. ASSUME NEW r \in Requests, NEW k \in Kinds, NEW t \in Targets, Arrive(r, k, t)
      PROVE KnowledgeSound'
  <2>1. UNCHANGED <<used, via, actual, saved, changed>> /\ used[r] = Unknown
    BY <1>2 DEF Arrive, clusterVars, RequestsSound
  <2>2. /\ life' = [life EXCEPT ![r] = "waiting"] /\ target' = [target EXCEPT ![r] = t]
        /\ kind' = [kind EXCEPT ![r] = k]
    BY <1>2 DEF Arrive
  <2>3. \A p \in Promises : promise'[p] = promise[p] \/ promise'[p].stage # "resolved"
    BY <1>1, <1>2 DEF Arrive, serviceVars, FirstStage, TypeOK
  <2>4. QED
    BY <1>1, <2>1, <2>2, <2>3 DEF TypeOK, Unknown
<1>3. ASSUME NEW r \in Requests, NEW k \in Kinds, NEW t \in Targets, ArriveDirect(r, k, t)
      PROVE KnowledgeSound'
  <2>1. UNCHANGED <<promise, used, actual, saved, changed>> /\ used[r] = Unknown /\ k # "query"
    BY <1>3 DEF ArriveDirect, NeedsLookup, serviceVars, clusterVars, RequestsSound
  <2>2. QED
    BY <1>1, <1>3, <2>1 DEF ArriveDirect, TypeOK, Unknown
<1>4. ASSUME NEW p \in Promises, ProbeStep(p) PROVE KnowledgeSound'
  <2>1. UNCHANGED <<requestVars, clusterVars>>
    BY <1>4 DEF ProbeStep, ReadRecorded, ReadNothing, ProbeAnswered, ProbeBlank, ProbeFails
  <2>2. \A x \in Promises \ {p} : promise'[x] = promise[x]
    BY <1>1, <1>4
    DEF ProbeStep, ReadRecorded, ReadNothing, ProbeAnswered, ProbeBlank, ProbeFails, Resolved, TypeOK
  <2>3. promise'[p].stage = "resolved" /\ promise'[p].info.version # NoVersion =>
          /\ promise'[p].target = promise[p].target
          /\ \/ saved[promise[p].target].version # NoVersion /\ promise'[p].info = saved[promise[p].target]
             \/ promise'[p].info = actual[promise[p].target]
    BY <1>1, <1>4
    DEF ProbeStep, ReadRecorded, ReadNothing, ProbeAnswered, ProbeBlank, ProbeFails, Resolved, TypeOK,
        Unknown, BlankInfo
  <2>4. promise[p].target \in Targets
    BY <1>1 DEF TypeOK
  <2>5. QED
    BY <2>1, <2>2, <2>3, <2>4 DEF requestVars, clusterVars, Describes
<1>5. ASSUME NEW r \in Requests, Resume(r) PROVE KnowledgeSound'
  <2>1. awaits[r] \in Promises /\ promise[awaits[r]].target = target[r] /\ Settled(awaits[r])
    BY <1>5 DEF Resume, RequestsSound
  <2>2. UNCHANGED <<kind, target, promise, actual, saved, changed>>
    BY <1>5 DEF Resume, serviceVars, clusterVars
  <2>3. used' = [used EXCEPT ![r] = promise[awaits[r]].info]
    BY <1>5 DEF Resume
  <2>4. \A x \in Requests \ {r} : life'[x] = life[x] /\ via'[x] = via[x]
    BY <1>1, <1>5 DEF Resume, TypeOK
  <2>5. kind[r] = "query" => via'[r] = legacyActionFor("query", promise[awaits[r]].info)
    BY <1>1, <1>5 DEF Resume, TypeOK
  <2>6. QED
    BY <1>1, <2>1, <2>2, <2>3, <2>4, <2>5 DEF TypeOK
<1>6. ASSUME NEW r \in Requests, CallEnds(r) PROVE KnowledgeSound'
  BY <1>1, <1>6 DEF CallEnds, serviceVars, clusterVars, TypeOK
<1>7. ASSUME NEW t \in Targets, ClusterChanges(t) PROVE KnowledgeSound'
  <2>1. UNCHANGED <<promise, saved, kind, life, target, used, via>>
    BY <1>7 DEF ClusterChanges, serviceVars, requestVars
  <2>2. changed'[t] /\ \A u \in Targets \ {t} : changed'[u] = changed[u] /\ actual'[u] = actual[u]
    BY <1>1, <1>7 DEF ClusterChanges, TypeOK
  <2>3. QED
    BY <1>1, <2>1, <2>2 DEF TypeOK
<1>8. CASE UNCHANGED serverVars
  BY <1>8 DEF serverVars, serviceVars, requestVars, clusterVars
<1>9. QED
  BY <1>2, <1>3, <1>4, <1>5, <1>6, <1>7, <1>8 DEF Next

LEMMA StepSound == Sound /\ [Next]_serverVars => Sound'
<1> SUFFICES ASSUME Sound, [Next]_serverVars PROVE Sound'
  OBVIOUS
<1>1. TypeOK' /\ KnowledgeSound'
  BY TypeStep, KnowledgeStep DEF Sound
<1>2. CacheSound' /\ RequestsSound'
  <2>1. ASSUME NEW t \in Targets, ClusterChanges(t) PROVE CacheSound' /\ RequestsSound'
    BY <2>1 DEF ClusterChanges, serviceVars, requestVars, Sound, CacheSound, CachePoints, CacheHolds,
                RemoteVersioned, RequestsSound, Pending, Settled
  <2>2. CASE UNCHANGED serverVars
    BY <2>2 DEF serverVars, serviceVars, requestVars, Sound, CacheSound, CachePoints, CacheHolds,
                RemoteVersioned, RequestsSound, Pending, Settled
  <2>3. QED
    BY <2>1, <2>2, ArriveSound, RequestSound, ProbeSound DEF Next
<1>3. QED
  BY <1>1, <1>2 DEF Sound

\* In every execution the cache, the requests and what is known agree.
THEOREM Soundness == SafeSpec => []Sound
BY InitSound, StepSound, PTL DEF SafeSpec

-----------------------------------------------------------------------------
\* Every variable keeps its type.
THEOREM ServerTypeCorrect == SafeSpec => []TypeOK
<1>1. Sound => TypeOK
  BY DEF Sound
<1>2. QED
  BY <1>1, Soundness, PTL

\* However many requests arrive together, a cluster is probed by one at a time.
THEOREM OneProbeAtATime == SafeSpec => []SingleFlight
<1>1. Sound => SingleFlight
  BY DEF Sound, CacheSound, CacheHolds, Pending, SingleFlight
<1>2. QED
  BY <1>1, Soundness, PTL

\* No failure stays in a cache, so the next request probes again.
THEOREM FailuresForgotten == SafeSpec => []NoFailureKept
<1>1. Sound => NoFailureKept
  BY DEF Sound, TypeOK, CacheSound, CachePoints, RemoteVersioned, Settled, NoFailureKept
<1>2. QED
  BY <1>1, Soundness, PTL

\* All requests routed by a successful lookup of a cluster were routed alike.
THEOREM LookupsAgree == SafeSpec => []OneAnswer
<1>1. Sound => OneAnswer
  BY DEF Sound, RequestsSound, OneAnswer
<1>2. QED
  BY <1>1, Soundness, PTL

\* A query is sent to the endpoints its cluster has: the engine, or the version
\* where the engine is not recorded, tells the two kinds of cluster apart.
THEOREM QueriesRoutedRight == SafeSpec => []RoutedRight
<1>1. ASSUME Sound PROVE RoutedRight
  <2> SUFFICES ASSUME NEW r \in Requests,
                      kind[r] = "query", life[r] \in {"called", "ended"},
                      used[r].version # NoVersion, ~changed[target[r]]
               PROVE  via[r] = "opendistro" <=> actual[target[r]].engine = "elasticsearch"
    BY DEF RoutedRight
  <2>1. /\ via[r] = legacyActionFor("query", used[r])
        /\ Describes(used[r], actual[target[r]])
    BY <1>1 DEF Sound, KnowledgeSound
  <2>2. /\ actual[target[r]] \in Deployments
        /\ used[r].engine \in Engines
    BY <1>1 DEF Sound, TypeOK, Infos
  <2>3. via[r] = "opendistro" <=> ~IsOpenSearch(used[r].version, used[r].engine)
    BY <2>1 DEF legacyActionFor, getDeploymentCapabilities, KnownCapabilities
  <2>4. QED
    BY <2>1, <2>2, <2>3, DeploymentAssumption DEF IsOpenSearch, Describes, Engines
<1>2. QED
  BY <1>1, Soundness, PTL
=============================================================================

----------------------- MODULE DataSourceSwitchProofs -----------------------
(***************************************************************************)
(* Proofs about DataSourceSwitch, for every set of clusters and any number *)
(* of switches.                                                            *)
(***************************************************************************)
EXTENDS DataSourceSwitch, TLAPS

\* Every call in flight was made for a cluster, the latest one for the cluster
\* that is selected.
CallsSound ==
  /\ \A n \in resolving : n <= token /\ asked[n] \in Clusters
  /\ asked[token] = selected

\* A load that is not stale will show what the page is about.
LoadsSound ==
  \A l \in loads : ~l.stale => l.cluster = selected /\ l.legacy = caps.usesLegacyOpenDistroSql

\* It is all that the page will show: a tree that is there is not to be replaced.
TreeAwaited == (\E l \in loads : ~l.stale) => tree = None

\* The inductive invariant.
Settled ==
  /\ TypeOK /\ CallsSound /\ LoadsSound /\ TreeAwaited
  /\ CapsOfSelected /\ TreeOfSelected /\ TreeComes /\ RewriteOnlySeeds

-----------------------------------------------------------------------------
LEMMA CapsInCaps == DEFAULT_CAPABILITIES \in Caps /\ \A c \in Clusters : CapsOf(c) \in Caps
BY DEF DEFAULT_CAPABILITIES, CapsOf, Caps

\* After a reload one load is fresh, it is for the given cluster and engine,
\* and the tree is empty.
LEMMA ReloadFresh ==
  ASSUME TypeOK, NEW c \in Clusters, NEW e \in BOOLEAN, Reload(c, e)
  PROVE  /\ loads' \subseteq Loads
         /\ FreshLoad(c, e) \in loads'
         /\ \A l \in loads' : ~l.stale => l.cluster = c /\ l.legacy = e
         /\ tree' = None
<1>1. \A l \in loads : /\ [l EXCEPT !.stale = TRUE] \in Loads
                       /\ [l EXCEPT !.stale = TRUE].stale
  BY DEF TypeOK, Loads
<1>2. FreshLoad(c, e) \in Loads /\ FreshLoad(c, e).cluster = c /\ FreshLoad(c, e).legacy = e
  BY DEF FreshLoad, Loads
<1>3. QED
  BY <1>1, <1>2 DEF Reload

LEMMA FreshLoadWaits == \A c, e : ~FreshLoad(c, e).stale
BY DEF FreshLoad

LEMMA InitSettled == Init => Settled
<1> SUFFICES ASSUME Init PROVE Settled
  OBVIOUS
<1>1. 1 \in Calls
  BY SwitchAssumption DEF Calls
<1>2. FreshLoad(selected, FALSE) \in Loads /\ ~FreshLoad(selected, FALSE).stale
  BY DEF Init, FreshLoad, Loads
<1>3. TypeOK
  BY <1>1, <1>2, CapsInCaps DEF Init, TypeOK, Texts, Seeds
<1>4. CallsSound /\ CapsOfSelected /\ RewriteOnlySeeds
  BY <1>1 DEF Init, CallsSound, CapsOfSelected, RewriteOnlySeeds, Seeds
<1>5. LoadsSound /\ TreeOfSelected /\ TreeComes /\ TreeAwaited
  BY <1>2 DEF Init, LoadsSound, TreeOfSelected, TreeComes, TreeAwaited, FreshLoad, DEFAULT_CAPABILITIES
<1>6. QED
  BY <1>3, <1>4, <1>5 DEF Settled

\* One step per action of Next.
LEMMA StepSettled == Settled /\ [Next]_pageVars => Settled'
<1> SUFFICES ASSUME Settled, [Next]_pageVars PROVE Settled'
  OBVIOUS
<1> USE DEF Settled
<1>1. ASSUME NEW c \in Clusters, Switch(c) PROVE Settled'
  <2>1. /\ token + 1 \in Calls /\ token \in Nat
        /\ caps.usesLegacyOpenDistroSql \in BOOLEAN
    BY <1>1, SwitchAssumption DEF Switch, TypeOK, Calls, Caps
  <2>2. /\ loads' \subseteq Loads
        /\ \E l \in loads' : ~l.stale
        /\ \A l \in loads' : ~l.stale => l.cluster = c /\ l.legacy = caps.usesLegacyOpenDistroSql
        /\ tree' = None
    BY <1>1, <2>1, ReloadFresh, FreshLoadWaits DEF Switch
  <2>3. TypeOK'
    BY <1>1, <2>1, <2>2 DEF Switch, TypeOK, flintVars, editorVars
  <2>4. CallsSound'
    BY <1>1, <2>1 DEF Switch, CallsSound, TypeOK, Calls
  <2>5. CapsOfSelected' /\ RewriteOnlySeeds'
    BY <1>1 DEF Switch, CapsOfSelected, RewriteOnlySeeds, editorVars
  <2>6. LoadsSound' /\ TreeOfSelected' /\ TreeComes' /\ TreeAwaited'
    BY <1>1, <2>2 DEF Switch, LoadsSound, TreeOfSelected, TreeComes, TreeAwaited
  <2>7. QED
    BY <2>3, <2>4, <2>5, <2>6
<1>2. ASSUME NEW n \in Calls, CapsResolved(n) PROVE Settled'
  <2>1. PICK new \in {CapsOf(asked[n]), DEFAULT_CAPABILITIES} :
          /\ FetchFlint(n, new)
          /\ IF IsLatest(n)
             THEN /\ caps' = new
                  /\ SyncSeededSqlQuery(new)
                  /\ IF new.usesLegacyOpenDistroSql # caps.usesLegacyOpenDistroSql
                     THEN Reload(selected, new.usesLegacyOpenDistroSql)
                     ELSE UNCHANGED treeVars
             ELSE UNCHANGED <<caps, pending, treeVars>>
    BY <1>2 DEF CapsResolved
  <2>2. /\ UNCHANGED <<selected, token, asked, sql>>
        /\ n \in resolving /\ resolving' = resolving \ {n}
    BY <1>2 DEF CapsResolved, switchVars
  <2>3. new \in Caps
    BY <2>1, <2>2, CapsInCaps DEF CallsSound
  <2>4. flint' \in BOOLEAN /\ listing' \in [Calls -> Clusters \cup {None}]
    BY <2>1 DEF FetchFlint, TypeOK
  <2>5. CASE IsLatest(n)
    <3>1. new \in {CapsOf(selected), DEFAULT_CAPABILITIES}
      BY <2>1, <2>5 DEF IsLatest, CallsSound
    <3>2. pending' \in Texts \cup {None} /\ RewriteOnlySeeds'
      BY <2>1, <2>2, <2>5
      DEF SyncSeededSqlQuery, IsUntouched, getOpenSearchSqlInitQuery, RewriteOnlySeeds, TypeOK, Texts, Seeds
    <3>3. /\ loads' \subseteq Loads /\ tree' \in Trees \cup {None}
          /\ LoadsSound' /\ TreeOfSelected' /\ TreeComes' /\ TreeAwaited'
      <4>1. CASE new.usesLegacyOpenDistroSql # caps.usesLegacyOpenDistroSql
        <5>1. Reload(selected, new.usesLegacyOpenDistroSql) /\ new.usesLegacyOpenDistroSql \in BOOLEAN
          BY <2>1, <2>3, <2>5, <4>1 DEF Caps
        <5>2. /\ loads' \subseteq Loads
              /\ \E l \in loads' : ~l.stale
              /\ \A l \in loads' : ~l.stale => l.cluster = selected /\ l.legacy = new.usesLegacyOpenDistroSql
              /\ tree' = None
          BY <5>1, ReloadFresh, FreshLoadWaits DEF TypeOK
        <5>3. QED
          BY <2>1, <2>2, <2>5, <5>2 DEF LoadsSound, TreeOfSelected, TreeComes, TreeAwaited
      <4>2. CASE new.usesLegacyOpenDistroSql = caps.usesLegacyOpenDistroSql
        BY <2>1, <2>2, <2>5, <4>2 DEF treeVars, TypeOK, LoadsSound, TreeOfSelected, TreeComes, TreeAwaited
      <4>3. QED
        BY <4>1, <4>2
    <3>4. TypeOK'
      BY <2>1, <2>2, <2>3, <2>4, <2>5, <3>2, <3>3 DEF TypeOK
    <3>5. CallsSound' /\ CapsOfSelected'
      BY <2>1, <2>2, <2>5, <3>1 DEF CallsSound, CapsOfSelected
    <3>6. QED
      BY <3>2, <3>3, <3>4, <3>5
  <2>6. CASE ~IsLatest(n)
    <3>1. UNCHANGED <<caps, pending, loads, tree>>
      BY <2>1, <2>6 DEF treeVars
    <3>2. TypeOK' /\ CallsSound' /\ RewriteOnlySeeds'
      BY <2>2, <2>4, <3>1 DEF TypeOK, CallsSound, RewriteOnlySeeds
    <3>3. CapsOfSelected'
      BY <2>2, <2>6, <3>1 DEF CapsOfSelected, IsLatest
    <3>4. LoadsSound' /\ TreeOfSelected' /\ TreeComes' /\ TreeAwaited'
      BY <2>2, <3>1 DEF LoadsSound, TreeOfSelected, TreeComes, TreeAwaited
    <3>5. QED
      BY <3>2, <3>3, <3>4
  <2>7. QED
    BY <2>5, <2>6
<1>3. ASSUME NEW n \in Calls, FlintListed(n) \/ FlintFails(n) PROVE Settled'
  <2>1. UNCHANGED <<switchVars, capsVars, editorVars, treeVars>>
    BY <1>3 DEF FlintListed, FlintFails
  <2>2. flint' \in BOOLEAN
    BY <1>3 DEF FlintListed, FlintFails, TypeOK
  <2>3. listing' \in [Calls -> Clusters \cup {None}]
    BY <1>3 DEF FlintListed, FlintFails, TypeOK
  <2>4. QED
    BY <2>1, <2>2, <2>3 DEF switchVars, capsVars, editorVars, treeVars, TypeOK, CallsSound, LoadsSound,
                      CapsOfSelected, TreeOfSelected, TreeComes, TreeAwaited, RewriteOnlySeeds
<1>4. ASSUME NEW l \in Loads, LoadSettles(l) PROVE Settled'
  <2>1. UNCHANGED <<switchVars, capsVars, flintVars, editorVars>>
    BY <1>4 DEF LoadSettles
  <2>2. /\ l \in loads /\ loads' = loads \ {l}
        /\ tree' = IF l.stale THEN tree ELSE [cluster |-> l.cluster, legacy |-> l.legacy]
    BY <1>4 DEF LoadSettles
  <2>3. [cluster |-> l.cluster, legacy |-> l.legacy] \in Trees
    BY DEF Loads, Trees
  <2>4. TypeOK'
    BY <2>1, <2>2, <2>3 DEF TypeOK, switchVars, capsVars, flintVars, editorVars
  <2>5. LoadsSound' /\ TreeOfSelected'
    BY <2>1, <2>2 DEF LoadsSound, TreeOfSelected, switchVars, capsVars
  <2>6. TreeComes'
    <3>1. CASE l.stale
      BY <2>2, <3>1 DEF TreeComes
    <3>2. CASE ~l.stale
      <4>1. tree' # None
        BY <2>2, <2>3, <3>2, NoneAssumption
      <4>2. QED
        BY <4>1 DEF TreeComes
    <3>3. QED
      BY <3>1, <3>2
  <2>7. TreeAwaited'
    <3>1. ASSUME ~l.stale, NEW m \in loads, ~m.stale PROVE m = l
      BY <2>2, <3>1 DEF LoadsSound, TypeOK, Loads
    <3>2. QED
      BY <2>2, <3>1 DEF TreeAwaited
  <2>8. CallsSound' /\ CapsOfSelected' /\ RewriteOnlySeeds'
    BY <2>1 DEF CallsSound, CapsOfSelected, RewriteOnlySeeds, switchVars, capsVars, editorVars
  <2>9. QED
    BY <2>4, <2>5, <2>6, <2>7, <2>8
<1>5. CASE RefreshTree
  <2>1. /\ UNCHANGED <<switchVars, capsVars, flintVars, editorVars>>
        /\ caps.usesLegacyOpenDistroSql \in BOOLEAN /\ selected \in Clusters
    BY <1>5 DEF RefreshTree, TypeOK, Caps
  <2>2. /\ loads' \subseteq Loads
        /\ \E l \in loads' : ~l.stale
        /\ \A l \in loads' : ~l.stale => l.cluster = selected /\ l.legacy = caps.usesLegacyOpenDistroSql
        /\ tree' = None
    BY <1>5, <2>1, ReloadFresh, FreshLoadWaits DEF RefreshTree
  <2>3. QED
    BY <2>1, <2>2 DEF switchVars, capsVars, flintVars, editorVars, TypeOK, CallsSound, LoadsSound,
                      CapsOfSelected, TreeOfSelected, TreeComes, TreeAwaited, RewriteOnlySeeds
<1>6. ASSUME NEW text \in {"typed", "empty"}, Edit(text) PROVE Settled'
  BY <1>6 DEF Edit, Texts, Seeds, switchVars, capsVars, flintVars, treeVars, TypeOK, CallsSound,
              LoadsSound, CapsOfSelected, TreeOfSelected, TreeComes, TreeAwaited, RewriteOnlySeeds
<1>7. CASE DebounceFires
  BY <1>7, NoneAssumption DEF DebounceFires, Texts, Seeds, switchVars, capsVars, flintVars, treeVars, TypeOK, CallsSound,
              LoadsSound, CapsOfSelected, TreeOfSelected, TreeComes, TreeAwaited, RewriteOnlySeeds
<1>8. CASE UNCHANGED pageVars
  BY <1>8 DEF pageVars, switchVars, capsVars, flintVars, editorVars, treeVars, TypeOK, CallsSound,
              LoadsSound, CapsOfSelected, TreeOfSelected, TreeComes, TreeAwaited, RewriteOnlySeeds
<1>9. QED
  BY <1>1, <1>2, <1>3, <1>4, <1>5, <1>6, <1>7, <1>8 DEF Next

\* In every execution the page is consistent with its selection.
THEOREM PageSettled == Spec => []Settled
BY InitSettled, StepSettled, PTL DEF Spec

-----------------------------------------------------------------------------
\* Every variable keeps its type.
THEOREM SwitchTypeCorrect == Spec => []TypeOK
<1>1. Settled => TypeOK
  BY DEF Settled
<1>2. QED
  BY <1>1, PageSettled, PTL

\* Once the last switch is resolved the capabilities belong to its cluster.
THEOREM CapabilitiesFollowSelection == Spec => []CapsOfSelected
<1>1. Settled => CapsOfSelected
  BY DEF Settled
<1>2. QED
  BY <1>1, PageSettled, PTL

\* No superseded load ever reaches the tree.
THEOREM TreeFollowsSelection == Spec => []TreeOfSelected
<1>1. Settled => TreeOfSelected
  BY DEF Settled
<1>2. QED
  BY <1>1, PageSettled, PTL

\* An empty tree is being loaded: no order of switches, reloads and answers makes
\* every load stale while the tree has yet to come.
THEOREM TreeIsLoaded == Spec => []TreeComes
<1>1. Settled => TreeComes
  BY DEF Settled
<1>2. QED
  BY <1>1, PageSettled, PTL

\* Text held by the page is never under threat of a rewrite.
THEOREM HeldTextSafe == Spec => []RewriteOnlySeeds
<1>1. Settled => RewriteOnlySeeds
  BY DEF Settled
<1>2. QED
  BY <1>1, PageSettled, PTL
-----------------------------------------------------------------------------
(* The refinements *)

\* What a reload is to the tree: the request changes, and the tree is emptied.
LEMMA ReloadAsks ==
  ASSUME Settled, Settled', tree' = None
  PROVE  [Indices!Next]_(Indices!vars)
<1> DEFINE r == [cluster |-> selected, legacy |-> caps.usesLegacyOpenDistroSql]
<1>1. r' \in Trees
  BY DEF Settled, TypeOK, Caps, Trees
<1>2. Indices!Ask(r')
  BY DEF Indices!Ask, Settled, TypeOK
<1>3. QED
  BY <1>1, <1>2 DEF Indices!Next

\* Each action is, to the capabilities, a new request, its answer, or nothing.
LEMMA ResolutionStep == Settled /\ [Next]_pageVars => [Resolution!Next]_(Resolution!vars)
<1> SUFFICES ASSUME Settled, [Next]_pageVars PROVE [Resolution!Next]_(Resolution!vars)
  OBVIOUS
<1>1. ASSUME NEW c \in Clusters, Switch(c) PROVE [Resolution!Next]_(Resolution!vars)
  <2>1. Resolution!Ask(c)
    BY <1>1 DEF Switch, Resolution!Ask, Settled, TypeOK
  <2>2. QED
    BY <2>1 DEF Resolution!Next
<1>2. ASSUME NEW n \in Calls, CapsResolved(n) PROVE [Resolution!Next]_(Resolution!vars)
  <2>1. n \in resolving /\ resolving' = resolving \ {n} /\ UNCHANGED <<selected, token, asked>>
    BY <1>2 DEF CapsResolved, switchVars
  <2>2. CASE IsLatest(n)
    <3>1. asked[n] = selected /\ n = token
      BY <2>2 DEF IsLatest, Settled, CallsSound
    <3>2. caps' \in {CapsOf(selected), DEFAULT_CAPABILITIES}
      BY <1>2, <2>2, <3>1 DEF CapsResolved
    <3>3. Resolution!Reply
      BY <2>1, <3>1, <3>2 DEF Resolution!Reply, Settled, TypeOK
    <3>4. QED
      BY <3>3 DEF Resolution!Next
  <2>3. CASE ~IsLatest(n)
    BY <1>2, <2>1, <2>3 DEF CapsResolved, IsLatest, Resolution!vars
  <2>4. QED
    BY <2>2, <2>3
<1>3. ASSUME \/ \E n \in Calls : FlintListed(n) \/ FlintFails(n)
             \/ \E l \in Loads : LoadSettles(l)
             \/ RefreshTree
             \/ \E text \in {"typed", "empty"} : Edit(text)
             \/ DebounceFires
             \/ UNCHANGED pageVars
      PROVE  UNCHANGED <<selected, token, resolving, caps>>
  BY <1>3 DEF FlintListed, FlintFails, LoadSettles, RefreshTree, Edit, DebounceFires, pageVars,
              switchVars, capsVars
<1>4. QED
  BY <1>1, <1>2, <1>3 DEF Next, Resolution!vars

\* And to the tree: a load of a cluster, what it brings, or nothing.
LEMMA IndicesStep == Settled /\ Settled' /\ [Next]_pageVars => [Indices!Next]_(Indices!vars)
<1> SUFFICES ASSUME Settled, Settled', [Next]_pageVars PROVE [Indices!Next]_(Indices!vars)
  OBVIOUS
<1>1. ASSUME \/ \E c \in Clusters : Switch(c)
             \/ RefreshTree
      PROVE  [Indices!Next]_(Indices!vars)
  BY <1>1, ReloadAsks DEF Switch, RefreshTree, Reload
<1>2. ASSUME NEW n \in Calls, CapsResolved(n) PROVE [Indices!Next]_(Indices!vars)
  <2>1. \/ tree' = None
        \/ UNCHANGED <<selected, tree>> /\ caps'.usesLegacyOpenDistroSql = caps.usesLegacyOpenDistroSql
    BY <1>2 DEF CapsResolved, Reload, treeVars, switchVars
  <2>2. QED
    BY <2>1, ReloadAsks DEF Indices!vars
<1>3. ASSUME NEW l \in Loads, LoadSettles(l) PROVE [Indices!Next]_(Indices!vars)
  <2>1. /\ UNCHANGED <<selected, caps>> /\ l \in loads
        /\ tree' = IF l.stale THEN tree ELSE [cluster |-> l.cluster, legacy |-> l.legacy]
    BY <1>3 DEF LoadSettles, switchVars, capsVars
  <2>2. CASE l.stale
    BY <2>1, <2>2 DEF Indices!vars
  <2>3. CASE ~l.stale
    <3>1. tree = None /\ tree' = [cluster |-> selected, legacy |-> caps.usesLegacyOpenDistroSql]
      BY <2>1, <2>3 DEF Settled, LoadsSound, TreeAwaited
    <3>2. tree' \in Trees /\ tree' # None
      BY <3>1, NoneAssumption DEF Settled, TypeOK, Caps, Trees
    <3>3. Indices!Reply
      BY <2>1, <3>1, <3>2 DEF Indices!Reply
    <3>4. QED
      BY <3>3 DEF Indices!Next
  <2>4. QED
    BY <2>2, <2>3
<1>4. ASSUME \/ \E n \in Calls : FlintListed(n) \/ FlintFails(n)
             \/ \E text \in {"typed", "empty"} : Edit(text)
             \/ DebounceFires
             \/ UNCHANGED pageVars
      PROVE  UNCHANGED <<selected, caps, tree>>
  BY <1>4 DEF FlintListed, FlintFails, Edit, DebounceFires, pageVars, switchVars, capsVars, treeVars
<1>5. QED
  BY <1>1, <1>2, <1>3, <1>4 DEF Next, Indices!vars

\* The capabilities change once for each selection, to an answer for it, and the
\* tree once for each load, to what it asked for: answers to earlier selections and
\* loads never show.
THEOREM LatestAnswersWin == Spec => LatestAnswersShow
<1>1. Init => Resolution!Init
  BY DEF Init, Resolution!Init
<1>2. Init => Indices!Init
  BY DEF Init, Indices!Init, Trees, DEFAULT_CAPABILITIES
<1>3. Spec => Resolution!Spec
  BY <1>1, PageSettled, ResolutionStep, PTL DEF Spec, Resolution!Spec
<1>4. Spec => Indices!Spec
  BY <1>2, PageSettled, IndicesStep, PTL DEF Spec, Indices!Spec
<1>5. QED
  BY <1>3, <1>4 DEF LatestAnswersShow
=============================================================================

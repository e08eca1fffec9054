------------------------- MODULE ResultsTableProofs -------------------------
(***************************************************************************)
(* Proofs about ResultsTable, whatever the responses, the searches and the *)
(* page sizes.  First what the expanded rows need: rendering keeps the     *)
(* trees there are and enters those of the page.  Then what a search       *)
(* finds, how a page is cut from it, and that every rendering puts pager,  *)
(* page and trees in order, from which the invariant of the table follows. *)
(***************************************************************************)
EXTENDS ResultsTable, FiniteSetTheorems, WellFoundedInduction, SequenceTheorems, TLAPS

Parts == {"of", "selectedNodes", "open", "drawn"}

\* An entry of the map is the tree of a row, and what is open of it is drawn.
Entry(e) ==
  /\ DOMAIN e = Parts
  /\ e.open => e.drawn = e.selectedNodes

\* All entries are such.
Drawn == \A id \in DOMAIN itemIdToExpandedRowMap : Entry(itemIdToExpandedRowMap[id])

-----------------------------------------------------------------------------
LEMMA FreshEntry == \A r : Entry(createRowTree(r))
BY DEF Entry, createRowTree, Parts

\* Rendering keeps the trees there are; those it adds are fresh.
LEMMA RenderedKeeps ==
  ASSUME NEW map, NEW p, Rendered(map, p), \A id \in DOMAIN map : Entry(map[id])
  PROVE  /\ DOMAIN map \subseteq DOMAIN itemIdToExpandedRowMap'
         /\ \A id \in DOMAIN map : itemIdToExpandedRowMap'[id] = map[id]
         /\ Drawn'
<1>1. CASE itemIdToExpandedRowMap' = map
  BY <1>1 DEF Drawn
<1>2. ASSUME NEW items, itemIdToExpandedRowMap' = Registered(items, map)
      PROVE  /\ DOMAIN map \subseteq DOMAIN itemIdToExpandedRowMap'
             /\ \A id \in DOMAIN map : itemIdToExpandedRowMap'[id] = map[id]
             /\ Drawn'
  BY <1>2, FreshEntry DEF Registered, Drawn
<1>3. QED
  BY <1>1, <1>2 DEF Rendered

LEMMA EmptyMapDrawn == DOMAIN EmptyMap = {}
BY DEF EmptyMap

\* What a click on a row puts in the place of its tree is a tree of that row.
LEMMA Changes ==
  ASSUME NEW e, Entry(e)
  PROVE  /\ Entry(Redrawn(e)) /\ Redrawn(e).of = e.of
         /\ Entry([e EXCEPT !.open = FALSE, !.drawn = {}])
         /\ [e EXCEPT !.open = FALSE, !.drawn = {}].of = e.of
         /\ \A f : /\ Entry(Redrawn(updateSelectedNodes(e, f, TRUE)))
                   /\ Redrawn(updateSelectedNodes(e, f, TRUE)).of = e.of
                   /\ Entry(Redrawn(updateSelectedNodes(e, f, FALSE)))
                   /\ Redrawn(updateSelectedNodes(e, f, FALSE)).of = e.of
<1>1. \A x : DOMAIN x = Parts => Entry(Redrawn(x)) /\ Redrawn(x).of = x.of
  BY DEF Entry, Redrawn, renderNav, Parts
<1>2. /\ Entry([e EXCEPT !.open = FALSE, !.drawn = {}])
      /\ [e EXCEPT !.open = FALSE, !.drawn = {}].of = e.of
  BY DEF Entry, Parts
<1>3. \A f : /\ DOMAIN updateSelectedNodes(e, f, TRUE) = Parts
             /\ updateSelectedNodes(e, f, TRUE).of = e.of
             /\ DOMAIN updateSelectedNodes(e, f, FALSE) = Parts
             /\ updateSelectedNodes(e, f, FALSE).of = e.of
  BY DEF Entry, updateSelectedNodes, Parts
<1>4. QED
  BY <1>1, <1>2, <1>3 DEF Entry

\* A click on a row changes the tree of that row only.
LEMMA TouchedKeeps ==
  ASSUME Drawn, NEW id, NEW e, Entry(e), Touched(id, e),
         id \in DOMAIN itemIdToExpandedRowMap => e.of = itemIdToExpandedRowMap[id].of
  PROVE  /\ DOMAIN itemIdToExpandedRowMap \subseteq DOMAIN itemIdToExpandedRowMap'
         /\ \A i \in DOMAIN itemIdToExpandedRowMap :
              /\ itemIdToExpandedRowMap'[i].of = itemIdToExpandedRowMap[i].of
              /\ i # id => itemIdToExpandedRowMap'[i] = itemIdToExpandedRowMap[i]
         /\ Drawn'
<1> DEFINE map == [itemIdToExpandedRowMap EXCEPT ![id] = e]
<1>1. Rendered(map, pager)
  BY DEF Touched
<1>2. /\ DOMAIN map = DOMAIN itemIdToExpandedRowMap
      /\ \A i \in DOMAIN map : map[i] = IF i = id THEN e ELSE itemIdToExpandedRowMap[i]
  OBVIOUS
<1>3. \A i \in DOMAIN map : Entry(map[i])
  BY <1>2 DEF Drawn
<1> HIDE DEF map
<1>4. QED
  BY <1>1, <1>2, <1>3, RenderedKeeps

-----------------------------------------------------------------------------
(* The page after a rendering *)

\* The rows of the page are in the map.
PageEntered == \A i \in DOMAIN RowsOfPage : RowsOfPage[i].rowId \in DOMAIN itemIdToExpandedRowMap

\* Rendering enters the rows of its page.
LEMMA RenderedEnters ==
  ASSUME NEW map, NEW p, Rendered(map, p)
  PROVE  PageEntered'
<1>1. CASE TableShown'
  <2>1. itemIdToExpandedRowMap' = Registered(RowsOfPage', map)
    BY <1>1 DEF Rendered, TableShown, RowsOfPage, ItemsNow
  <2>2. QED
    BY <2>1 DEF Registered, IdsOf, PageEntered
<1>2. CASE ~TableShown'
  BY <1>2 DEF RowsOfPage, PageEntered
<1>3. QED
  BY <1>1, <1>2

Inv == Drawn /\ PageEntered

LEMMA InvInit == Init => Inv
BY EmptyMapDrawn DEF Init, Inv, Drawn, PageEntered, RowsOfPage, TableShown, HasTable

\* What every click on a row does.
LEMMA RowStep ==
  ASSUME Inv, NEW i \in DOMAIN RowsOfPage,
         \/ ToggleRow(RowsOfPage[i])
         \/ \E f \in Fields : OpenField(RowsOfPage[i], f) \/ ToggleField(RowsOfPage[i], f)
  PROVE  /\ Drawn' /\ PageEntered'
         /\ DOMAIN itemIdToExpandedRowMap \subseteq DOMAIN itemIdToExpandedRowMap'
         /\ \A id \in DOMAIN itemIdToExpandedRowMap :
              /\ itemIdToExpandedRowMap'[id].of = itemIdToExpandedRowMap[id].of
              /\ id # RowsOfPage[i].rowId
                   => itemIdToExpandedRowMap'[id] = itemIdToExpandedRowMap[id]
<1> DEFINE item == RowsOfPage[i]
           e    == itemIdToExpandedRowMap[item.rowId]
<1>1. Entry(e)
  BY DEF Inv, Drawn, PageEntered
<1>2. PICK d : Entry(d) /\ d.of = e.of /\ Touched(item.rowId, d)
  <2>1. CASE ToggleRow(item)
    BY <1>1, <2>1, Changes DEF ToggleRow, EntryOf
  <2>2. CASE \E f \in Fields : OpenField(item, f)
    <3>1. PICK f : Touched(item.rowId, Redrawn(updateSelectedNodes(e, f, TRUE)))
      BY <2>2 DEF OpenField, EntryOf
    <3>2. /\ Entry(Redrawn(updateSelectedNodes(e, f, TRUE)))
          /\ Redrawn(updateSelectedNodes(e, f, TRUE)).of = e.of
      BY <1>1, Changes, Zenon
    <3>3. QED
      BY <3>1, <3>2, Zenon
  <2>3. CASE \E f \in Fields : ToggleField(item, f)
    <3>1. PICK f : Touched(item.rowId, Redrawn(updateSelectedNodes(e, f, FALSE)))
      BY <2>3 DEF ToggleField, EntryOf
    <3>2. /\ Entry(Redrawn(updateSelectedNodes(e, f, FALSE)))
          /\ Redrawn(updateSelectedNodes(e, f, FALSE)).of = e.of
      BY <1>1, Changes, Zenon
    <3>3. QED
      BY <3>1, <3>2, Zenon
  <2>4. QED
    BY <2>1, <2>2, <2>3
<1>3. PageEntered'
  BY <1>2, RenderedEnters DEF Touched
<1>4. QED
  BY <1>2, <1>3, TouchedKeeps DEF Inv

\* The other steps either keep the map or start from an empty one.
LEMMA PageStep ==
  ASSUME Inv, PagerActs \/ ToggleFullScreen
  PROVE  \E p : Rendered(itemIdToExpandedRowMap, p)
BY DEF PagerActs, ToggleFullScreen, ChangeItemsPerPage, ChangePage

LEMMA MainStep ==
  ASSUME Inv, MainActs
  PROVE  \E map \in {EmptyMap, itemIdToExpandedRowMap} : \E p : Rendered(map, p)
<1>1. CASE \E resp \in Responses : RunSucceeds(resp)
  BY <1>1 DEF RunSucceeds
<1>2. CASE ClearPage
  BY <1>2 DEF ClearPage
<1>3. CASE ChangeLanguage
  BY <1>3 DEF ChangeLanguage
<1>4. CASE ToggleFullScreen
  BY <1>4 DEF ToggleFullScreen
<1>5. CASE \E tab \in Tabs : SelectTab(tab)
  BY <1>5 DEF SelectTab
<1>6. CASE \E query \in Queries : Search(query)
  BY <1>6 DEF Search
<1>7. QED
  BY <1>1, <1>2, <1>3, <1>4, <1>5, <1>6 DEF MainActs

LEMMA InvStep == Inv /\ [Next]_vars => Inv'
<1> SUFFICES ASSUME Inv, [Next]_vars PROVE Inv'
  OBVIOUS
<1>1. ASSUME NEW map \in {EmptyMap, itemIdToExpandedRowMap}, NEW p, Rendered(map, p)
      PROVE  Inv'
  <2>1. \A id \in DOMAIN map : Entry(map[id])
    BY EmptyMapDrawn DEF Inv, Drawn
  <2>2. QED
    BY <1>1, <2>1, RenderedKeeps, RenderedEnters DEF Inv
<1>2. CASE MainActs
  BY <1>1, <1>2, MainStep
<1>3. CASE PagerActs
  BY <1>1, <1>3, PageStep
<1>4. CASE RowActs
  BY <1>4, RowStep DEF RowActs, Inv
<1>5. CASE UNCHANGED vars
  BY <1>5 DEF vars, mainVars, Inv, Drawn, PageEntered, RowsOfPage, TableShown, ItemsNow
<1>6. QED
  BY <1>2, <1>3, <1>4, <1>5 DEF Next

LEMMA Invariance == Spec => []Inv
BY InvInit, InvStep, PTL DEF Spec

-----------------------------------------------------------------------------
\* An expanded row is drawn as it is selected: the drawing is made anew by each
\* click that changes the selection, and rendering never touches it.
THEOREM DrawingsAreCurrent == Spec => []DrawnAsSelected
<1>1. Inv => DrawnAsSelected
  BY DEF Inv, Drawn, Entry, DrawnAsSelected
<1>2. QED
  BY <1>1, Invariance, PTL

\* A click on the pager or a row, or the full screen, keeps the trees of the rows
\* and changes one of them at most.
THEOREM TreesAreKept == Spec => ClicksKeepTrees
<1> DEFINE Changed == {id \in DOMAIN itemIdToExpandedRowMap :
                         itemIdToExpandedRowMap'[id] # itemIdToExpandedRowMap[id]}
           Kept == /\ DOMAIN itemIdToExpandedRowMap \subseteq DOMAIN itemIdToExpandedRowMap'
                   /\ \A id \in DOMAIN itemIdToExpandedRowMap :
                        itemIdToExpandedRowMap'[id].of = itemIdToExpandedRowMap[id].of
                   /\ Cardinality(Changed) <= 1
<1>1. ASSUME Inv, PagerActs \/ ToggleFullScreen
      PROVE  Kept
  <2>1. PICK p : Rendered(itemIdToExpandedRowMap, p)
    BY <1>1, PageStep
  <2>2. /\ DOMAIN itemIdToExpandedRowMap \subseteq DOMAIN itemIdToExpandedRowMap'
        /\ \A id \in DOMAIN itemIdToExpandedRowMap :
             itemIdToExpandedRowMap'[id] = itemIdToExpandedRowMap[id]
    BY <1>1, <2>1, RenderedKeeps DEF Inv, Drawn
  <2>3. Changed = {}
    BY <2>2
  <2>4. Cardinality(Changed) = 0
    BY <2>3, FS_EmptySet
  <2> HIDE DEF Changed
  <2>5. QED
    BY <2>2, <2>4
<1>2. ASSUME Inv, RowActs
      PROVE  Kept
  <2>1. PICK i \in DOMAIN RowsOfPage :
          \/ ToggleRow(RowsOfPage[i])
          \/ \E f \in Fields : OpenField(RowsOfPage[i], f) \/ ToggleField(RowsOfPage[i], f)
    BY <1>2 DEF RowActs
  <2>2. /\ DOMAIN itemIdToExpandedRowMap \subseteq DOMAIN itemIdToExpandedRowMap'
        /\ \A id \in DOMAIN itemIdToExpandedRowMap :
             itemIdToExpandedRowMap'[id].of = itemIdToExpandedRowMap[id].of
        /\ Changed \subseteq {RowsOfPage[i].rowId}
    BY <1>2, <2>1, RowStep
  <2> HIDE DEF Changed
  <2>3. Cardinality(Changed) <= 1
    <3>1. /\ IsFiniteSet({RowsOfPage[i].rowId})
          /\ Cardinality({RowsOfPage[i].rowId}) = 1
      BY FS_Singleton
    <3>2. QED
      BY <2>2, <3>1, FS_Subset
  <2>4. QED
    BY <2>2, <2>3
<1>3. Inv /\ [Next]_vars
      => [PagerActs \/ RowActs \/ ToggleFullScreen => Kept]_vars
  BY <1>1, <1>2
<1>4. QED
  BY <1>3, Invariance, PTL DEF Spec, ClicksKeepTrees

-----------------------------------------------------------------------------
(* What a search finds *)

\* The least of some numbers.
LEMMA LeastNumber ==
  ASSUME NEW T \in SUBSET Nat, T # {}
  PROVE  \E x \in T : \A y \in T : x <= y
<1>1. PICK x \in T : \A y \in T : <<y, x>> \notin OpToRel(<, Nat)
  BY NatLessThanWellFounded, WFMin
<1>2. \A y \in T : ~(y < x)
  BY <1>1 DEF OpToRel
<1>3. QED
  BY <1>2

LEMMA RankStep ==
  ASSUME NEW s, NEW set, NEW i \in Nat
  PROVE  /\ Rank(s, set, 0) = 0 /\ Rank(s, set, i) \in Nat
         /\ Rank(s, set, i + 1) = Rank(s, set, i) + (IF s[i + 1] \in set THEN 1 ELSE 0)
<1> DEFINE found(n) == {j \in 1..n : s[j] \in set}
<1>0. \A n : Rank(s, set, n) = Cardinality(found(n))
  BY DEF Rank
<1>1. IsFiniteSet(1..i)
  BY FS_Interval
<1>2. IsFiniteSet(found(i)) /\ Cardinality(found(i)) \in Nat
  BY <1>1, FS_Subset, FS_CardinalityType
<1>3. found(0) = {}
  OBVIOUS
<1>4. Cardinality(found(0)) = 0
  BY <1>3, FS_EmptySet
<1>5. CASE s[i + 1] \in set
  <2>1. found(i + 1) = found(i) \cup {i + 1} /\ i + 1 \notin found(i)
    BY <1>5
  <2>2. Cardinality(found(i + 1)) = Cardinality(found(i)) + 1
    BY <1>2, <2>1, FS_AddElement
  <2>3. QED
    BY <1>0, <1>2, <1>4, <1>5, <2>2
<1>6. CASE s[i + 1] \notin set
  <2>1. found(i + 1) = found(i)
    BY <1>6
  <2> HIDE DEF found
  <2>2. QED
    BY <1>0, <1>2, <1>4, <1>6, <2>1
<1>7. QED
  BY <1>5, <1>6

LEMMA RankBefore ==
  ASSUME NEW s, NEW set, NEW i \in Nat \ {0}
  PROVE  /\ Rank(s, set, i) \in Nat /\ Rank(s, set, i - 1) \in Nat
         /\ Rank(s, set, i) = Rank(s, set, i - 1) + (IF s[i] \in set THEN 1 ELSE 0)
<1> DEFINE j == i - 1
<1>1. j \in Nat /\ i = j + 1
  OBVIOUS
<1> HIDE DEF j
<1>2. Rank(s, set, j + 1) = Rank(s, set, j) + (IF s[j + 1] \in set THEN 1 ELSE 0)
  BY <1>1, RankStep
<1>3. Rank(s, set, i) \in Nat /\ Rank(s, set, j) \in Nat
  BY <1>1, RankStep
<1>4. QED
  BY <1>1, <1>2, <1>3 DEF j

LEMMA RankGrows ==
  ASSUME NEW s, NEW set, NEW i \in Nat, NEW j \in Nat, i <= j
  PROVE  Rank(s, set, i) <= Rank(s, set, j)
<1>1. {k \in 1..i : s[k] \in set} \subseteq {k \in 1..j : s[k] \in set}
  OBVIOUS
<1>2. IsFiniteSet(1..j)
  BY FS_Interval
<1>3. IsFiniteSet({k \in 1..j : s[k] \in set})
  BY <1>2, FS_Subset
<1>4. QED
  BY <1>1, <1>3, FS_Subset DEF Rank

\* Each number up to the last rank is the rank of an element found.
LEMMA RankTaken ==
  ASSUME NEW s, NEW set, NEW n \in Nat, NEW k \in 1..Rank(s, set, n)
  PROVE  \E i \in 1..n : s[i] \in set /\ Rank(s, set, i) = k
<1> DEFINE T == {i \in 0..n : Rank(s, set, i) >= k}
<1>1. n \in T /\ T \subseteq Nat
  BY RankStep
<1>2. PICK i \in T : \A j \in T : i <= j
  BY <1>1, LeastNumber
<1>3. i # 0 /\ i \in 0..n
  BY RankStep
<1>4. i \in Nat \ {0} /\ i - 1 \in 0..n
  BY <1>3
<1>5. /\ Rank(s, set, i - 1) \in Nat
      /\ Rank(s, set, i) = Rank(s, set, i - 1) + (IF s[i] \in set THEN 1 ELSE 0)
  BY <1>4, RankBefore
<1>6. Rank(s, set, i - 1) < k
  BY <1>2, <1>4, <1>5
<1>7. s[i] \in set /\ Rank(s, set, i) = k
  BY <1>2, <1>5, <1>6
<1>8. QED
  BY <1>3, <1>7

\* A search keeps the order, finds all that is in the set and nothing else:
\* `pos` says where each element that was found came from.
THEOREM FilteredIsFilter ==
  ASSUME NEW S, NEW s \in Seq(S), NEW set
  PROVE  /\ Filtered(s, set) \in Seq(S \cap set)
         /\ \E pos \in [DOMAIN Filtered(s, set) -> DOMAIN s] :
              /\ \A k \in DOMAIN pos : Filtered(s, set)[k] = s[pos[k]]
              /\ \A k, l \in DOMAIN pos : k < l => pos[k] < pos[l]
              /\ \A i \in DOMAIN s : s[i] \in set => \E k \in DOMAIN pos : pos[k] = i
<1> DEFINE n == Len(s)
           last == Rank(s, set, n)
           at(k) == CHOOSE i \in 1..n : s[i] \in set /\ Rank(s, set, i) = k
           pos == [k \in 1..last |-> at(k)]
<1>1. n \in Nat /\ DOMAIN s = 1..n /\ last \in Nat
  BY RankStep
<1>2. \A k \in 1..last : at(k) \in 1..n /\ s[at(k)] \in set /\ Rank(s, set, at(k)) = k
  BY <1>1, RankTaken
<1>3. DOMAIN Filtered(s, set) = 1..last /\ \A k \in 1..last : Filtered(s, set)[k] = s[at(k)]
  BY DEF Filtered
<1>4. Filtered(s, set) = [k \in 1..last |-> s[at(k)]]
  BY DEF Filtered
<1> HIDE DEF at, last, n
<1>5. Filtered(s, set) \in Seq(S \cap set)
  <2>1. \A k \in 1..last : s[at(k)] \in S \cap set
    BY <1>1, <1>2
  <2>2. QED
    BY <1>1, <1>4, <2>1
<1>6. pos \in [1..last -> 1..n]
  BY <1>2
<1>7. ASSUME NEW k \in 1..last, NEW l \in 1..last, k < l
      PROVE  pos[k] < pos[l]
  <2>1. at(k) \in Nat /\ at(l) \in Nat /\ k \in Nat /\ l \in Nat
    BY <1>1, <1>2
  <2>2. Rank(s, set, at(k)) = k /\ Rank(s, set, at(l)) = l
    BY <1>2
  <2>3. at(l) <= at(k) => l <= k
    BY <2>1, <2>2, RankGrows
  <2>4. QED
    BY <1>7, <2>1, <2>3
<1>8. ASSUME NEW i \in 1..n, s[i] \in set
      PROVE  \E k \in 1..last : pos[k] = i
  <2> DEFINE k == Rank(s, set, i)
  <2>1. i \in Nat \ {0} /\ i - 1 \in Nat /\ i <= n
    BY <1>1
  <2>2. k \in Nat /\ k >= 1 /\ k <= last
    <3>1. k \in Nat /\ k >= 1
      BY <1>8, <2>1, RankBefore
    <3>2. k <= last
      BY <1>1, <2>1, RankGrows DEF last
    <3>3. QED
      BY <3>1, <3>2
  <2> HIDE DEF k
  <2>3. at(k) \in 1..n /\ s[at(k)] \in set /\ Rank(s, set, at(k)) = k
    BY <1>1, <1>2, <2>2
  <2>4. ~ at(k) < i
    <3>1. SUFFICES ASSUME at(k) < i PROVE FALSE
      OBVIOUS
    <3>2. Rank(s, set, at(k)) <= Rank(s, set, i - 1)
      BY <1>1, <2>1, <2>3, <3>1, RankGrows
    <3>3. Rank(s, set, i) = Rank(s, set, i - 1) + 1 /\ Rank(s, set, i - 1) \in Nat
      BY <1>8, <2>1, RankBefore
    <3>4. QED
      BY <2>2, <2>3, <3>2, <3>3 DEF k
  <2>5. ~ i < at(k)
    <3>1. SUFFICES ASSUME i < at(k) PROVE FALSE
      OBVIOUS
    <3>2. at(k) \in Nat \ {0} /\ at(k) - 1 \in Nat /\ i <= at(k) - 1
      BY <1>1, <2>1, <2>3, <3>1
    <3>3. Rank(s, set, i) <= Rank(s, set, at(k) - 1)
      BY <2>1, <3>2, RankGrows
    <3>4. Rank(s, set, at(k)) = Rank(s, set, at(k) - 1) + 1 /\ Rank(s, set, at(k) - 1) \in Nat
      BY <2>3, <3>2, RankBefore
    <3>5. QED
      BY <2>2, <2>3, <3>3, <3>4 DEF k
  <2>6. at(k) = i
    BY <1>1, <2>1, <2>3, <2>4, <2>5
  <2>7. k \in 1..last
    BY <1>1, <2>2
  <2>8. QED
    BY <2>6, <2>7
<1>9. DOMAIN pos = 1..last
  OBVIOUS
<1>10. \A k \in 1..last : Filtered(s, set)[k] = s[pos[k]]
  BY <1>3
<1> HIDE DEF pos
<1>11. pos \in [DOMAIN Filtered(s, set) -> DOMAIN s]
  BY <1>1, <1>3, <1>6
<1>12. /\ \A k \in DOMAIN pos : Filtered(s, set)[k] = s[pos[k]]
       /\ \A k, l \in DOMAIN pos : k < l => pos[k] < pos[l]
       /\ \A i \in DOMAIN s : s[i] \in set => \E k \in DOMAIN pos : pos[k] = i
  BY <1>1, <1>7, <1>8, <1>9, <1>10
<1>13. QED
  BY <1>5, <1>11, <1>12

-----------------------------------------------------------------------------
(* The page *)

Pagers == [total : Nat, size : PageSizes, index : Nat \cup {-1}]

\* The number of pages that n items fill.
LEMMA PagesFilled ==
  ASSUME NEW n \in Nat \ {0}, NEW z \in Nat \ {0}
  PROVE  LET pages == (n + z - 1) \div z
         IN  pages \in Nat \ {0} /\ (pages - 1) * z < n /\ n <= pages * z
OBVIOUS

LEMMA TimesBefore ==
  ASSUME NEW a \in Nat \ {0}, NEW z \in Nat
  PROVE  (a - 1) * z \in Nat /\ a * z = (a - 1) * z + z
OBVIOUS

LEMMA TimesGrows ==
  ASSUME NEW a \in Nat, NEW b \in Nat, NEW z \in Nat, a <= b
  PROVE  a * z \in Nat /\ b * z \in Nat /\ a * z <= b * z
OBVIOUS

\* What the correction of the page index gives.
LEMMA UpdatedPager ==
  ASSUME NEW p, p.index \in Int, p \in [total : Nat, size : PageSizes, index : Int]
  PROVE  /\ Updated(p) \in Pagers
         /\ Updated(p).total = p.total /\ Updated(p).size = p.size
         /\ p.total > 0 => Updated(p).index \in 0..((p.total + p.size - 1) \div p.size - 1)
<1> DEFINE pages == (p.total + p.size - 1) \div p.size
<1>1. p.total \in Nat /\ p.size \in Nat \ {0}
  BY PageSizesAssumption
<1>2. CASE p.total = 0
  <2>1. Updated(p) = [p EXCEPT !.index = -1]
    BY <1>2 DEF Updated
  <2>2. QED
    BY <1>2, <2>1 DEF Pagers
<1>3. CASE p.total # 0
  <2>1. pages \in Nat \ {0}
    BY <1>1, <1>3, PagesFilled
  <2>2. Updated(p) = [p EXCEPT !.index = LesserOf(pages - 1, GreaterOf(0, p.index))]
    BY <1>3 DEF Updated
  <2> HIDE DEF pages
  <2>3. LesserOf(pages - 1, GreaterOf(0, p.index)) \in 0..(pages - 1)
    BY <2>1 DEF LesserOf, GreaterOf
  <2>4. QED
    BY <2>1, <2>2, <2>3 DEF Pagers, pages
<1>4. QED
  BY <1>2, <1>3

\* The page of a pager that knows the number of items and whose index is in range.
LEMMA PageCut ==
  ASSUME NEW I, NEW items \in Seq(I), NEW p \in Pagers, p.total = Len(items),
         p.total > 0 => p.index \in 0..((p.total + p.size - 1) \div p.size - 1)
  PROVE  /\ OnPage(items, p) \in Seq(I)
         /\ \A k \in DOMAIN OnPage(items, p) :
              /\ FirstItem(p) + k - 1 \in DOMAIN items
              /\ OnPage(items, p)[k] = items[FirstItem(p) + k - 1]
         /\ items # <<>> =>
              /\ Len(OnPage(items, p)) \in 1..p.size
              /\ p.index = (p.total + p.size - 1) \div p.size - 1
                   => FirstItem(p) + Len(OnPage(items, p)) - 1 = Len(items)
<1> DEFINE n == p.total
           z == p.size
           pages == (n + z - 1) \div z
           index == p.index
           first == index * z + 1
           end == LesserOf(first + z - 1, n)
<1>1. n \in Nat /\ z \in Nat \ {0} /\ n = Len(items) /\ DOMAIN items = 1..n
  <2>1. n \in Nat /\ z \in Nat \ {0} /\ n = Len(items)
    BY PageSizesAssumption DEF Pagers
  <2>2. DOMAIN items = 1..Len(items)
    OBVIOUS
  <2>3. QED
    BY <2>1, <2>2
<1>2. n # 0 => index \in 0..(pages - 1)
  BY <1>1
<1>3. n # 0 => pages \in Nat \ {0} /\ (pages - 1) * z < n /\ n <= pages * z
  BY <1>1, PagesFilled
<1>4. CASE n = 0
  <2>1. OnPage(items, p) = <<>>
    BY <1>4 DEF OnPage
  <2>2. items = <<>>
    BY <1>1, <1>4
  <2>3. QED
    BY <2>1, <2>2
<1>5. CASE n # 0
  <2>1. FirstItem(p) = first /\ LastItem(p) = end
    BY <1>5 DEF FirstItem, LastItem
  <2>2. OnPage(items, p) = SubSeq(items, first, LesserOf(end, n))
    BY <1>1, <1>5, <2>1 DEF OnPage
  <2> HIDE DEF n, z, index
  <2>3. index \in Nat /\ pages \in Nat \ {0} /\ pages - 1 \in Nat /\ index <= pages - 1
    BY <1>2, <1>3, <1>5
  <2> HIDE DEF pages
  <2>4. index * z \in Nat /\ index * z <= (pages - 1) * z
    BY <1>1, <2>3, TimesGrows
  <2>5. (pages - 1) * z \in Nat /\ pages * z = (pages - 1) * z + z
    BY <1>1, <2>3, TimesBefore
  <2> DEFINE low == index * z
             top == (pages - 1) * z
             whole == pages * z
  <2>6. low \in Nat /\ top \in Nat /\ low <= top /\ whole = top + z /\ top < n /\ n <= whole
    BY <1>3, <1>5, <2>4, <2>5
  <2>7. first = low + 1 /\ (index = pages - 1 => low = top)
    OBVIOUS
  <2> HIDE DEF low, top, whole
  <2>8. /\ first \in 1..n /\ end \in first..n /\ end - first + 1 \in 1..z
        /\ index = pages - 1 => end = n
    <3> HIDE DEF first
    <3>1. QED
      BY <1>1, <2>6, <2>7 DEF LesserOf
  <2> HIDE DEF first, end
  <2>9. OnPage(items, p) = SubSeq(items, first, end)
    <3>1. n \in Nat /\ end \in first..n /\ first \in Nat
      BY <1>1, <2>8
    <3>2. LesserOf(end, n) = end
      BY <3>1 DEF LesserOf
    <3>3. QED
      BY <2>2, <3>2
  <2>10. /\ OnPage(items, p) \in Seq(I)
         /\ Len(OnPage(items, p)) = end - first + 1
         /\ \A k \in 1..(end - first + 1) : OnPage(items, p)[k] = items[first + k - 1]
    BY <1>1, <2>8, <2>9
  <2>11. \A k \in 1..(end - first + 1) : first + k - 1 \in DOMAIN items
    BY <1>1, <2>8
  <2>12. DOMAIN OnPage(items, p) = 1..(end - first + 1)
    BY <2>10
  <2>13. first + (end - first + 1) - 1 = end
    BY <1>1, <2>8
  <2>14. QED
    BY <1>1, <2>1, <2>8, <2>10, <2>11, <2>12, <2>13 DEF n, z, pages, index
<1>6. QED
  BY <1>4, <1>5

-----------------------------------------------------------------------------
(* The rows of the page *)

Item == [rowId : Nat, row : Rows]

\* What can be shown of the results is a sequence of rows; without a search each
\* has its place as its row id.
LEMMA ItemsTyped ==
  ASSUME NEW results \in Responses \cup {<<>>}, NEW tab, HasTable(results, tab), NEW query
  PROVE  /\ Items(results, tab, query) \in Seq(Item)
         /\ query = NoSearch =>
              \A i \in DOMAIN Items(results, tab, query) :
                /\ i \in DOMAIN results[tab].records
                /\ Items(results, tab, query)[i] = [rowId |-> i - 1, row |-> results[tab].records[i]]
<1> DEFINE rows == results[tab].records
           found == Filtered(rows, {r \in Rows : Matches(r, query)})
<1>1. results # <<>>
  BY DEF HasTable
<1>2. results \in Seq([fulfilled : BOOLEAN, records : Seq(Rows)])
  BY <1>1, ResponsesAssumption
<1>3. rows \in Seq(Rows)
  <2> DEFINE Result == [fulfilled : BOOLEAN, records : Seq(Rows)]
  <2>1. results \in Seq(Result) /\ tab \in DOMAIN results
    BY <1>2 DEF HasTable
  <2> HIDE DEF Result
  <2>2. results[tab] \in Result
    BY <2>1
  <2>3. QED
    BY <2>2 DEF Result
<1> HIDE DEF rows
<1>4. CASE query = NoSearch
  <2>1. Items(results, tab, query) = [i \in DOMAIN rows |-> [rowId |-> i - 1, row |-> rows[i]]]
    BY <1>4 DEF Items, rows
  <2>2. DOMAIN rows = 1..Len(rows) /\ Len(rows) \in Nat
    BY <1>3
  <2>3. \A i \in 1..Len(rows) : [rowId |-> i - 1, row |-> rows[i]] \in Item
    BY <1>3, <2>2 DEF Item
  <2>4. Items(results, tab, query) \in Seq(Item)
    BY <2>1, <2>2, <2>3
  <2>5. \A i \in DOMAIN Items(results, tab, query) :
          /\ i \in DOMAIN rows
          /\ Items(results, tab, query)[i] = [rowId |-> i - 1, row |-> rows[i]]
    BY <2>1
  <2>6. QED
    BY <2>4, <2>5 DEF rows
<1>5. CASE query # NoSearch
  <2>1. Items(results, tab, query) = [i \in DOMAIN found |-> [rowId |-> 0, row |-> found[i]]]
    BY <1>5 DEF Items, rows
  <2>2. found \in Seq(Rows \cap {r \in Rows : Matches(r, query)})
    BY <1>3, FilteredIsFilter
  <2> HIDE DEF found
  <2>3. DOMAIN found = 1..Len(found) /\ Len(found) \in Nat
    BY <2>2
  <2>4. \A i \in 1..Len(found) : [rowId |-> 0, row |-> found[i]] \in Item
    BY <2>2, <2>3 DEF Item
  <2>5. QED
    BY <1>5, <2>1, <2>3, <2>4
<1>6. QED
  BY <1>4, <1>5

\* The item with an id that is entered in the map is one of the items.
LEMMA FirstIsOne ==
  ASSUME NEW items \in Seq(Item), NEW id \in IdsOf(items)
  PROVE  \E i \in DOMAIN items : FirstWithId(items, id) = items[i] /\ items[i].rowId = id
<1> DEFINE T == {i \in DOMAIN items : items[i].rowId = id}
<1>1. DOMAIN items = 1..Len(items) /\ Len(items) \in Nat
  OBVIOUS
<1>2. T \subseteq Nat /\ T # {}
  BY <1>1 DEF IdsOf
<1>3. PICK i \in T : \A j \in T : i <= j
  BY <1>2, LeastNumber
<1>4. i \in DOMAIN items /\ items[i].rowId = id
  OBVIOUS
<1>5. \A j \in 1..(i - 1) : items[j].rowId # id
  <2> SUFFICES ASSUME NEW j \in 1..(i - 1), items[j].rowId = id PROVE FALSE
    OBVIOUS
  <2>1. j \in Nat /\ i \in Nat /\ j < i /\ j \in DOMAIN items
    BY <1>1, <1>4
  <2>2. i <= j
    BY <1>3, <2>1
  <2>3. QED
    BY <2>1, <2>2
<1>6. QED
  BY <1>4, <1>5 DEF FirstWithId

\* The tree of a row, and what is open of it.
Tree(e) ==
  /\ e \in [of : Rows, selectedNodes : SUBSET Fields, open : BOOLEAN, drawn : SUBSET Fields]
  /\ e.selectedNodes \cup e.drawn \subseteq Nested[e.of]

MapTyped(map) == DOMAIN map \subseteq Nat /\ \A id \in DOMAIN map : Tree(map[id])

\* Each tree of a map is that of the row whose place its id is.
Owned(map, rows) == \A id \in DOMAIN map : id + 1 \in DOMAIN rows /\ map[id].of = rows[id + 1]

\* Entering the rows of a page keeps a map typed, and the trees those of their rows.
LEMMA RegisteredTyped ==
  ASSUME NEW items \in Seq(Item), NEW map, MapTyped(map)
  PROVE  /\ MapTyped(Registered(items, map))
         /\ \A rows : /\ Owned(map, rows)
                      /\ \A i \in DOMAIN items : /\ items[i].rowId + 1 \in DOMAIN rows
                                                 /\ items[i].row = rows[items[i].rowId + 1]
                      => Owned(Registered(items, map), rows)
<1> DEFINE new == Registered(items, map)
<1>1. \A i \in DOMAIN items : items[i].rowId \in Nat /\ items[i].row \in Rows
  <2>1. \A i \in DOMAIN items : items[i] \in Item
    OBVIOUS
  <2>2. QED
    BY <2>1 DEF Item
<1>2. DOMAIN new = DOMAIN map \cup IdsOf(items) /\ IdsOf(items) \subseteq Nat
  BY <1>1 DEF Registered, IdsOf
<1>3. ASSUME NEW id \in DOMAIN new, id \notin DOMAIN map
      PROVE  \E i \in DOMAIN items : items[i].rowId = id /\ new[id] = createRowTree(items[i].row)
  BY <1>2, <1>3, FirstIsOne DEF Registered
<1>4. \A id \in DOMAIN map : new[id] = map[id]
  BY DEF Registered
<1>5. \A r \in Rows : Tree(createRowTree(r)) /\ createRowTree(r).of = r
  BY DEF Tree, createRowTree
<1> HIDE DEF new
<1>6. MapTyped(new)
  BY <1>1, <1>2, <1>3, <1>4, <1>5 DEF MapTyped
<1>7. ASSUME NEW rows, Owned(map, rows),
             \A i \in DOMAIN items : /\ items[i].rowId + 1 \in DOMAIN rows
                                     /\ items[i].row = rows[items[i].rowId + 1]
      PROVE  Owned(new, rows)
  BY <1>1, <1>3, <1>4, <1>5, <1>7 DEF Owned
<1>8. QED
  BY <1>6, <1>7 DEF new

-----------------------------------------------------------------------------
(* The invariant of the table *)

\* Without a search the trees of the map are those of the rows shown.
OwnTrees ==
  searchQuery = NoSearch /\ TableShown
    => Owned(itemIdToExpandedRowMap, queryResultsTable[selectedTabId].records)

\* The page exists.
PagerInRange == TableShown /\ pager.total > 0 => pager.index \in 0..(TotalPages - 1)

InOrder == TypeOK /\ PageOfItems /\ PagerInRange /\ OwnTrees

\* The inductive invariant.
TableInv == Inv /\ InOrder

\* The rest of TypeOK, which rendering leaves alone.
ChoiceTyped ==
  /\ language \in {"SQL", "PPL"}
  /\ isResultFullScreen \in BOOLEAN
  /\ queryResultsTable \in Responses \cup {<<>>}
  /\ selectedTabId \in Nat
  /\ searchQuery \in Queries

LEMMA TypeParts == TypeOK <=> ChoiceTyped /\ MapTyped(itemIdToExpandedRowMap) /\ pager \in Pagers
BY DEF TypeOK, ChoiceTyped, MapTyped, Tree, Pagers

\* The rows of a page, cut from the items by a pager that knows their number.
PageFrom(results, tab, query, p) == OnPage(Items(results, tab, query), p)

LEMMA PageShown ==
  ASSUME NEW results \in Responses \cup {<<>>}, NEW tab, HasTable(results, tab), NEW query,
         NEW p \in Pagers, p.total = Len(Items(results, tab, query)),
         p.total > 0 => p.index \in 0..((p.total + p.size - 1) \div p.size - 1)
  PROVE  /\ PageFrom(results, tab, query, p) \in Seq(Item)
         /\ Items(results, tab, query) # <<>> =>
              /\ Len(PageFrom(results, tab, query, p)) \in 1..p.size
              /\ p.index = (p.total + p.size - 1) \div p.size - 1
                   => FirstItem(p) + Len(PageFrom(results, tab, query, p)) - 1
                        = Len(Items(results, tab, query))
         /\ query = NoSearch =>
              \A k \in DOMAIN PageFrom(results, tab, query, p) :
                LET item == PageFrom(results, tab, query, p)[k]
                IN  /\ item.rowId + 1 \in DOMAIN results[tab].records
                    /\ item.row = results[tab].records[item.rowId + 1]
<1> DEFINE rows == results[tab].records
           items == Items(results, tab, query)
           page == PageFrom(results, tab, query, p)
<1>1. /\ items \in Seq(Item)
      /\ query = NoSearch =>
           \A i \in DOMAIN items : i \in DOMAIN rows /\ items[i] = [rowId |-> i - 1, row |-> rows[i]]
  BY ItemsTyped
<1>2. page = OnPage(items, p)
  BY DEF PageFrom
<1> HIDE DEF rows, items, page
<1>3. /\ page \in Seq(Item)
      /\ \A k \in DOMAIN page :
           FirstItem(p) + k - 1 \in DOMAIN items /\ page[k] = items[FirstItem(p) + k - 1]
      /\ items # <<>> =>
           /\ Len(page) \in 1..p.size
           /\ p.index = (p.total + p.size - 1) \div p.size - 1
                => FirstItem(p) + Len(page) - 1 = Len(items)
  <2>1. p.total = Len(items)
    BY DEF items
  <2>2. QED
    BY <1>1, <1>2, <2>1, PageCut
<1>4. ASSUME query = NoSearch, NEW k \in DOMAIN page
      PROVE  page[k].rowId + 1 \in DOMAIN rows /\ page[k].row = rows[page[k].rowId + 1]
  <2> DEFINE i == FirstItem(p) + k - 1
  <2>1. i \in DOMAIN items /\ page[k] = items[i]
    BY <1>3
  <2>2. i \in Int
    BY <1>1, <2>1
  <2> HIDE DEF i
  <2>3. i \in DOMAIN rows /\ page[k] = [rowId |-> i - 1, row |-> rows[i]]
    BY <1>1, <1>4, <2>1
  <2>4. page[k].rowId + 1 = i /\ page[k].row = rows[i]
    BY <2>2, <2>3
  <2>5. QED
    BY <2>3, <2>4
<1>5. QED
  BY <1>3, <1>4 DEF page, rows, items

\* Every rendering puts the page in order, whatever the pager showed before.
LEMMA RenderedInOrder ==
  ASSUME NEW map, MapTyped(map), NEW p \in Pagers, Rendered(map, p), ChoiceTyped',
         searchQuery' = NoSearch /\ TableShown'
           => Owned(map, queryResultsTable'[selectedTabId'].records)
  PROVE  InOrder'
<1>0. ASSUME MapTyped(itemIdToExpandedRowMap'), pager' \in Pagers
      PROVE  TypeOK'
  BY <1>0 DEF TypeOK, ChoiceTyped, MapTyped, Tree, Pagers
<1>1. CASE ~TableShown'
  <2>1. pager' = p /\ itemIdToExpandedRowMap' = map
    BY <1>1 DEF Rendered, TableShown
  <2>2. QED
    BY <1>0, <1>1, <2>1 DEF InOrder, PageOfItems, PagerInRange, OwnTrees
<1>2. CASE TableShown'
  <2> DEFINE q == [p EXCEPT !.total = Len(ItemsNow')]
             page == PageFrom(queryResultsTable', selectedTabId', searchQuery', pager')
             rows == queryResultsTable'[selectedTabId'].records
  <2>1. /\ queryResultsTable' \in Responses \cup {<<>>}
        /\ HasTable(queryResultsTable', selectedTabId')
        /\ ItemsNow' = Items(queryResultsTable', selectedTabId', searchQuery')
    BY <1>2 DEF ChoiceTyped, TableShown, ItemsNow
  <2>2. ItemsNow' \in Seq(Item)
    BY <2>1, ItemsTyped
  <2>3. q \in [total : Nat, size : PageSizes, index : Int] /\ q.index \in Int /\ q.total = Len(ItemsNow')
    BY <2>2 DEF Pagers
  <2>4. /\ pager' = Updated(q) /\ itemIdToExpandedRowMap' = Registered(page, map)
        /\ RowsOfPage' = page
    BY <1>2 DEF Rendered, TableShown, ItemsNow, RowsOfPage, PageFrom
  <2> HIDE DEF q
  <2>5. /\ pager' \in Pagers /\ pager'.total = Len(ItemsNow')
        /\ pager'.total > 0 => pager'.index \in 0..((pager'.total + pager'.size - 1) \div pager'.size - 1)
    BY <2>3, <2>4, UpdatedPager
  <2>6. /\ page \in Seq(Item)
        /\ ItemsNow' # <<>> =>
              /\ Len(page) \in 1..pager'.size
              /\ pager'.index = (pager'.total + pager'.size - 1) \div pager'.size - 1
                   => FirstItem(pager') + Len(page) - 1 = Len(ItemsNow')
        /\ searchQuery' = NoSearch =>
             \A k \in DOMAIN page : /\ page[k].rowId + 1 \in DOMAIN rows
                                    /\ page[k].row = rows[page[k].rowId + 1]
    BY <2>1, <2>5, PageShown
  <2>7. PageOfItems'
    BY <2>4, <2>5, <2>6 DEF PageOfItems, TotalPages, FirstItem
  <2> HIDE DEF page, rows
  <2>8. /\ MapTyped(itemIdToExpandedRowMap')
        /\ searchQuery' = NoSearch => Owned(itemIdToExpandedRowMap', rows)
    <3>1. searchQuery' = NoSearch => Owned(map, rows)
      BY <1>2 DEF rows
    <3>2. QED
      BY <2>4, <2>6, <3>1, RegisteredTyped
  <2>9. OwnTrees'
    BY <2>8 DEF OwnTrees, rows
  <2>10. QED
    BY <1>0, <2>5, <2>7, <2>8, <2>9 DEF InOrder, PagerInRange, TotalPages
<1>3. QED
  BY <1>1, <1>2

-----------------------------------------------------------------------------
(* The steps *)

LEMMA NewPagerTyped == NewPager \in Pagers /\ Updated(NewPager) \in Pagers
<1>1. \E n \in PageSizes : \A m \in PageSizes : n <= m
  BY PageSizesAssumption, LeastNumber
<1>2. DefaultSize \in PageSizes
  BY <1>1 DEF DefaultSize
<1>3. NewPager \in Pagers
  BY <1>2 DEF NewPager, Pagers
<1>4. QED
  BY <1>3, UpdatedPager DEF Pagers

\* The setters of the pager give a pager.
LEMMA PagerSet ==
  ASSUME pager \in Pagers
  PROVE  /\ \A n \in PageSizes : Updated([pager EXCEPT !.size = n]) \in Pagers
         /\ \A page \in Int : Updated([pager EXCEPT !.index = page]) \in Pagers
<1>1. ASSUME NEW n \in PageSizes
      PROVE  Updated([pager EXCEPT !.size = n]) \in Pagers
  <2> DEFINE p == [pager EXCEPT !.size = n]
  <2>1. p \in [total : Nat, size : PageSizes, index : Int] /\ p.index \in Int
    BY DEF Pagers
  <2>2. QED
    BY <2>1, UpdatedPager
<1>2. ASSUME NEW page \in Int
      PROVE  Updated([pager EXCEPT !.index = page]) \in Pagers
  <2> DEFINE p == [pager EXCEPT !.index = page]
  <2>1. p \in [total : Nat, size : PageSizes, index : Int] /\ p.index \in Int
    BY DEF Pagers
  <2>2. QED
    BY <2>1, UpdatedPager
<1>3. QED
  BY <1>1, <1>2

LEMMA EmptyMapTyped == MapTyped(EmptyMap) /\ \A rows : Owned(EmptyMap, rows)
BY EmptyMapDrawn DEF MapTyped, Owned

\* A step that starts from an empty map.
LEMMA AnewInOrder ==
  ASSUME NEW p \in Pagers, Rendered(EmptyMap, p), ChoiceTyped'
  PROVE  InOrder'
BY EmptyMapTyped, RenderedInOrder

\* A step that keeps results, tab and search, and renders a map that has the trees
\* of the one before.
LEMMA KeptInOrder ==
  ASSUME TypeOK, OwnTrees, UNCHANGED mainVars, ChoiceTyped',
         NEW map, MapTyped(map), DOMAIN map = DOMAIN itemIdToExpandedRowMap,
         \A id \in DOMAIN map : map[id].of = itemIdToExpandedRowMap[id].of,
         NEW p \in Pagers, Rendered(map, p)
  PROVE  InOrder'
<1>1. searchQuery' = NoSearch /\ TableShown'
        => Owned(map, queryResultsTable'[selectedTabId'].records)
  BY DEF OwnTrees, Owned, mainVars, TableShown
<1>2. QED
  BY <1>1, RenderedInOrder

LEMMA MainInOrder ==
  ASSUME TableInv, MainActs
  PROVE  InOrder'
<1> USE DEF TableInv, InOrder
<1>0. pager \in Pagers /\ ChoiceTyped /\ MapTyped(itemIdToExpandedRowMap)
  BY TypeParts
<1>1. ASSUME NEW resp \in Responses, RunSucceeds(resp) PROVE InOrder'
  <2>1. ChoiceTyped'
    BY <1>0, <1>1 DEF RunSucceeds, ChoiceTyped, Output, Queries
  <2>2. QED
    BY <1>0, <1>1, <2>1, AnewInOrder DEF RunSucceeds
<1>2. CASE ClearPage
  <2>1. ChoiceTyped'
    BY <1>0, <1>2 DEF ClearPage, ChoiceTyped, Output
  <2>2. QED
    BY <1>0, <1>2, <2>1, AnewInOrder DEF ClearPage
<1>3. CASE ChangeLanguage
  <2>1. ChoiceTyped'
    BY <1>0, <1>3 DEF ChangeLanguage, ChoiceTyped
  <2>2. ~TableShown'
    BY <1>3 DEF ChangeLanguage, TableShown, HasTable
  <2>3. QED
    BY <1>0, <1>3, <2>1, <2>2, RenderedInOrder DEF ChangeLanguage
<1>4. CASE ToggleFullScreen
  <2>1. ChoiceTyped'
    BY <1>0, <1>4 DEF ToggleFullScreen, ChoiceTyped, mainVars
  <2>2. QED
    BY <1>0, <1>4, <2>1, NewPagerTyped, KeptInOrder DEF ToggleFullScreen
<1>5. ASSUME NEW tab \in Tabs, SelectTab(tab) PROVE InOrder'
  <2>1. tab \in Nat
    <3>1. queryResultsTable \in Seq([fulfilled : BOOLEAN, records : Seq(Rows)]) \cup {<<>>}
      BY <1>0, ResponsesAssumption DEF ChoiceTyped
    <3>2. DOMAIN queryResultsTable \subseteq Nat
      BY <3>1
    <3>3. QED
      BY <3>2 DEF Tabs, Output
  <2>2. ChoiceTyped'
    BY <1>0, <1>5, <2>1 DEF SelectTab, ChoiceTyped, Queries
  <2>3. Updated([pager EXCEPT !.index = 0]) \in Pagers
    BY <1>0, PagerSet
  <2>4. QED
    BY <1>5, <2>2, <2>3, AnewInOrder DEF SelectTab
<1>6. ASSUME NEW query \in Queries, Search(query) PROVE InOrder'
  <2>1. ChoiceTyped'
    BY <1>0, <1>6 DEF Search, ChoiceTyped
  <2>2. QED
    BY <1>0, <1>6, <2>1, AnewInOrder DEF Search
<1>7. QED
  BY <1>1, <1>2, <1>3, <1>4, <1>5, <1>6 DEF MainActs

LEMMA PagerInOrder ==
  ASSUME TableInv, PagerActs
  PROVE  InOrder'
<1> USE DEF TableInv, InOrder
<1>0. pager \in Pagers /\ ChoiceTyped /\ MapTyped(itemIdToExpandedRowMap)
  BY TypeParts
<1>1. UNCHANGED mainVars /\ ChoiceTyped'
  BY <1>0 DEF PagerActs, ChangeItemsPerPage, ChangePage, ChoiceTyped, mainVars
<1>2. PICK p \in Pagers : Rendered(itemIdToExpandedRowMap, p)
  <2>1. CASE \E n \in PageSizes : ChangeItemsPerPage(n)
    BY <1>0, <2>1, PagerSet DEF ChangeItemsPerPage
  <2>2. CASE \E page \in 0..(TotalPages - 1) : ChangePage(page)
    <3>1. PICK page \in 0..(TotalPages - 1) : ChangePage(page)
      BY <2>2
    <3>2. page \in Int
      OBVIOUS
    <3>3. QED
      BY <1>0, <3>1, <3>2, PagerSet DEF ChangePage
  <2>3. QED
    BY <2>1, <2>2 DEF PagerActs
<1>3. QED
  BY <1>0, <1>1, <1>2, KeptInOrder

\* What a click puts in the place of a tree is the tree of the same row.
LEMMA TreeChanges ==
  ASSUME NEW e, Tree(e)
  PROVE  /\ Tree(Redrawn(e)) /\ Redrawn(e).of = e.of
         /\ Tree([e EXCEPT !.open = FALSE, !.drawn = {}])
         /\ [e EXCEPT !.open = FALSE, !.drawn = {}].of = e.of
         /\ \A f \in Nested[e.of] :
              /\ Tree(Redrawn(updateSelectedNodes(e, f, TRUE)))
              /\ Redrawn(updateSelectedNodes(e, f, TRUE)).of = e.of
              /\ Tree(Redrawn(updateSelectedNodes(e, f, FALSE)))
              /\ Redrawn(updateSelectedNodes(e, f, FALSE)).of = e.of
<1>1. ASSUME NEW x, Tree(x)
      PROVE  Tree(Redrawn(x)) /\ Redrawn(x).of = x.of
  BY <1>1 DEF Tree, Redrawn, renderNav
<1>2. /\ Tree([e EXCEPT !.open = FALSE, !.drawn = {}])
      /\ [e EXCEPT !.open = FALSE, !.drawn = {}].of = e.of
  BY DEF Tree
<1>3. Nested[e.of] \subseteq Fields
  BY RowsAssumption DEF Tree
<1>4. ASSUME NEW f \in Nested[e.of]
      PROVE  /\ Tree(updateSelectedNodes(e, f, TRUE)) /\ updateSelectedNodes(e, f, TRUE).of = e.of
             /\ Tree(updateSelectedNodes(e, f, FALSE)) /\ updateSelectedNodes(e, f, FALSE).of = e.of
  BY <1>3 DEF Tree, updateSelectedNodes
<1>5. QED
  BY <1>1, <1>2, <1>4

LEMMA RowInOrder ==
  ASSUME TableInv, RowActs
  PROVE  InOrder'
<1> USE DEF TableInv, InOrder
<1>0. pager \in Pagers /\ ChoiceTyped /\ MapTyped(itemIdToExpandedRowMap)
  BY TypeParts
<1>1. PICK i \in DOMAIN RowsOfPage :
        \/ ToggleRow(RowsOfPage[i])
        \/ \E f \in Fields : OpenField(RowsOfPage[i], f) \/ ToggleField(RowsOfPage[i], f)
  BY DEF RowActs
<1> DEFINE id == RowsOfPage[i].rowId
           e  == itemIdToExpandedRowMap[id]
<1>2. id \in DOMAIN itemIdToExpandedRowMap
  BY DEF Inv, PageEntered
<1>3. Tree(e)
  BY <1>0, <1>2 DEF MapTyped
<1>4. PICK d : Tree(d) /\ d.of = e.of /\ Touched(id, d)
  <2>1. CASE ToggleRow(RowsOfPage[i])
    BY <1>3, <2>1, TreeChanges DEF ToggleRow, EntryOf
  <2>2. CASE \E f \in Fields : OpenField(RowsOfPage[i], f)
    <3>1. PICK f \in Nested[e.of] : Touched(id, Redrawn(updateSelectedNodes(e, f, TRUE)))
      BY <2>2 DEF OpenField, EntryOf
    <3>2. /\ Tree(Redrawn(updateSelectedNodes(e, f, TRUE)))
          /\ Redrawn(updateSelectedNodes(e, f, TRUE)).of = e.of
      BY <1>3, TreeChanges, Zenon
    <3>3. QED
      BY <3>1, <3>2, Zenon
  <2>3. CASE \E f \in Fields : ToggleField(RowsOfPage[i], f)
    <3>1. PICK f \in Nested[e.of] : Touched(id, Redrawn(updateSelectedNodes(e, f, FALSE)))
      BY <2>3 DEF ToggleField, EntryOf
    <3>2. /\ Tree(Redrawn(updateSelectedNodes(e, f, FALSE)))
          /\ Redrawn(updateSelectedNodes(e, f, FALSE)).of = e.of
      BY <1>3, TreeChanges, Zenon
    <3>3. QED
      BY <3>1, <3>2, Zenon
  <2>4. QED
    BY <1>1, <2>1, <2>2, <2>3
<1> DEFINE map == [itemIdToExpandedRowMap EXCEPT ![id] = d]
<1>5. /\ DOMAIN map = DOMAIN itemIdToExpandedRowMap
      /\ \A k \in DOMAIN map : map[k] = IF k = id THEN d ELSE itemIdToExpandedRowMap[k]
  OBVIOUS
<1>6. UNCHANGED mainVars /\ ChoiceTyped' /\ Rendered(map, pager)
  BY <1>0, <1>4 DEF Touched, ChoiceTyped, mainVars
<1> HIDE DEF map
<1>7. MapTyped(map) /\ \A k \in DOMAIN map : map[k].of = itemIdToExpandedRowMap[k].of
  BY <1>0, <1>4, <1>5 DEF MapTyped
<1>8. QED
  BY <1>0, <1>5, <1>6, <1>7, KeptInOrder

LEMMA TableInvInit == Init => TableInv
<1> SUFFICES ASSUME Init PROVE TableInv
  OBVIOUS
<1>1. MapTyped(itemIdToExpandedRowMap) /\ pager \in Pagers
  BY EmptyMapTyped, NewPagerTyped DEF Init
<1>2. ChoiceTyped
  BY DEF Init, ChoiceTyped, Output, Queries
<1>3. ~TableShown
  BY DEF Init, TableShown, HasTable
<1>4. QED
  BY <1>1, <1>2, <1>3, InvInit, TypeParts DEF TableInv, InOrder, PageOfItems, PagerInRange, OwnTrees

LEMMA TableInvStep == TableInv /\ [Next]_vars => TableInv'
<1> SUFFICES ASSUME TableInv, [Next]_vars PROVE TableInv'
  OBVIOUS
<1>1. Inv'
  BY InvStep DEF TableInv
<1>2. CASE UNCHANGED vars
  BY <1>1, <1>2 DEF vars, mainVars, TableInv, InOrder, TypeOK, PageOfItems, PagerInRange, OwnTrees,
                    TableShown, ItemsNow, RowsOfPage, TotalPages
<1>3. QED
  BY <1>1, <1>2, MainInOrder, PagerInOrder, RowInOrder DEF Next, TableInv

LEMMA TableInvariance == Spec => []TableInv
BY TableInvInit, TableInvStep, PTL DEF Spec

-----------------------------------------------------------------------------
\* The results, the pager and the trees keep their types, for every response and
\* search: a click never selects a field that the tree of its row lacks.
THEOREM TableTypeCorrect == Spec => []TypeOK
<1>1. TableInv => TypeOK
  BY DEF TableInv, InOrder
<1>2. QED
  BY <1>1, TableInvariance, PTL

\* The page is one of the rows to show, for any number of rows found and any page
\* size: it is empty only when there are none, and the last ends at the last row.
THEOREM PagesAreOfItems == Spec => []PageOfItems
<1>1. TableInv => PageOfItems
  BY DEF TableInv, InOrder
<1>2. QED
  BY <1>1, TableInvariance, PTL

\* Every row of the page has a tree, which without a search is its own.
THEOREM RowsOwnTheirTrees == Spec => []RowsHaveTheirTree
<1>1. TableInv => RowsHaveTheirTree
  <2> SUFFICES ASSUME TableInv, NEW i \in DOMAIN RowsOfPage
               PROVE  LET item == RowsOfPage[i]
                      IN  /\ item.rowId \in DOMAIN itemIdToExpandedRowMap
                          /\ searchQuery = NoSearch => EntryOf(item).of = item.row
    BY DEF RowsHaveTheirTree
  <2>1. RowsOfPage[i].rowId \in DOMAIN itemIdToExpandedRowMap
    BY DEF TableInv, Inv, PageEntered
  <2>2. ASSUME searchQuery = NoSearch PROVE EntryOf(RowsOfPage[i]).of = RowsOfPage[i].row
    <3>1. TableShown
      BY DEF RowsOfPage
    <3> DEFINE rows == queryResultsTable[selectedTabId].records
    <3>2. RowsOfPage[i].row = rows[RowsOfPage[i].rowId + 1]
      <4> DEFINE page == PageFrom(queryResultsTable, selectedTabId, searchQuery, pager)
      <4>1. page = RowsOfPage
        BY <3>1 DEF PageFrom, RowsOfPage, ItemsNow
      <4>2. /\ queryResultsTable \in Responses \cup {<<>>} /\ HasTable(queryResultsTable, selectedTabId)
            /\ pager \in Pagers
        BY <3>1, TypeParts DEF TableInv, InOrder, ChoiceTyped, TableShown
      <4>3. /\ pager.total = Len(Items(queryResultsTable, selectedTabId, searchQuery))
            /\ pager.total > 0
                 => pager.index \in 0..((pager.total + pager.size - 1) \div pager.size - 1)
        BY <3>1 DEF TableInv, InOrder, PageOfItems, PagerInRange, TotalPages, ItemsNow
      <4>4. \A k \in DOMAIN page : page[k].row = rows[page[k].rowId + 1]
        BY <2>2, <4>2, <4>3, PageShown
      <4> HIDE DEF page, rows
      <4>5. QED
        BY <4>1, <4>4
    <3>3. itemIdToExpandedRowMap[RowsOfPage[i].rowId].of = rows[RowsOfPage[i].rowId + 1]
      BY <2>1, <2>2, <3>1 DEF TableInv, InOrder, OwnTrees, Owned
    <3>4. QED
      BY <3>2, <3>3 DEF EntryOf
  <2>3. QED
    BY <2>1, <2>2
<1>2. QED
  BY <1>1, TableInvariance, PTL

=============================================================================

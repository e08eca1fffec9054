---------------------------- MODULE ResultsTable ----------------------------
(***************************************************************************)
(* The table of results: its tabs, search box, pager and expanded rows.    *)
(*                                                                         *)
(* Main holds the results, the selected tab, the search and the map of     *)
(* expanded rows (src/public/components/Main/main.tsx).  QueryResults      *)
(* holds EUI's Pager and gives it, in every rendering, the number of rows  *)
(* that match.  QueryResultsBody renders the rows of the page and, while   *)
(* it does, enters the tree of each of them in the map under its row id,   *)
(* unless there is one: rendering changes the state.  The pager, the       *)
(* search bar and what a search matches are EUI's.                         *)
(*                                                                         *)
(* A row is known by the nested fields it has and by the texts found in    *)
(* it.  Of the tree of a row only the first level is modelled, sorting is  *)
(* not reachable (nothing calls onSort), and the body is taken as shown    *)
(* whenever there are results.                                             *)
(***************************************************************************)
EXTENDS Integers, Sequences, FiniteSets

CONSTANTS
  Rows,         \* the rows a response can bring
  Fields,       \* the names of nested fields
  Nested,       \* Nested[r]: the nested fields of row r
  Texts,        \* what can be typed in the search box
  Words,        \* Words[r]: the texts that match row r
  Responses,    \* what a run can bring: a result for each of its statements
  PageSizes     \* PAGE_OPTIONS

ASSUME RowsAssumption ==
  /\ Nested \in [Rows -> SUBSET Fields]
  /\ Words \in [Rows -> SUBSET Texts]
ASSUME ResponsesAssumption ==
  Responses \subseteq Seq([fulfilled : BOOLEAN, records : Seq(Rows)])
ASSUME PageSizesAssumption == PageSizes # {} /\ PageSizes \subseteq Nat \ {0}

VARIABLES
  language,
  isResultFullScreen,
  queryResultsTable,      \* the results of the statements of the last run
  selectedTabId,          \* a statement, or Output
  searchQuery,            \* the text searched, Blank, or NoSearch
  itemIdToExpandedRowMap, \* row id -> its tree, and what is open of it
  pager                   \* EUI's Pager: total items, page size, page index

mainVars == <<queryResultsTable, selectedTabId, searchQuery>>
vars == <<language, isResultFullScreen, mainVars, itemIdToExpandedRowMap, pager>>

Output == 0
Blank == "blank"          \* the query of an empty box: an object, so it is a search
NoSearch == "no search"   \* '' at first, null for what cannot be parsed
Queries == Texts \cup {Blank, NoSearch}

DefaultSize == CHOOSE n \in PageSizes : \A m \in PageSizes : n <= m

-----------------------------------------------------------------------------
(* What is rendered *)

\* getSelectedResults.
HasTable(results, tab) == tab \in DOMAIN results /\ results[tab].fulfilled

Matches(r, query) == query = Blank \/ query \in Words[r]

\* What a filter leaves of a sequence: the elements of a set, in their order.
Rank(s, set, i) == Cardinality({j \in 1..i : s[j] \in set})
Filtered(s, set) ==
  [k \in 1..Rank(s, set, Len(s)) |->
     s[CHOOSE i \in 1..Len(s) : s[i] \in set /\ Rank(s, set, i) = k]]

\* getItems and searchItems: a row that is found gets the row id 0.
Items(results, tab, query) ==
  LET rows == results[tab].records
      found == Filtered(rows, {r \in Rows : Matches(r, query)})
  IN  IF query = NoSearch
      THEN [i \in DOMAIN rows |-> [rowId |-> i - 1, row |-> rows[i]]]
      ELSE [i \in DOMAIN found |-> [rowId |-> 0, row |-> found[i]]]

LesserOf(a, b) == IF a < b THEN a ELSE b
GreaterOf(a, b) == IF a > b THEN a ELSE b

\* Pager.update, which each of its setters ends with.
Updated(p) ==
  IF p.total = 0 THEN [p EXCEPT !.index = -1]
  ELSE LET totalPages == (p.total + p.size - 1) \div p.size
       IN  [p EXCEPT !.index = LesserOf(totalPages - 1, GreaterOf(0, @))]

\* getFirstItemIndex and getLastItemIndex, counting from 1.
FirstItem(p) == p.index * p.size + 1
LastItem(p) == IF p.total = 0 THEN 0 ELSE LesserOf(FirstItem(p) + p.size - 1, p.total)

\* renderRows: the items of the page.
OnPage(items, p) ==
  IF p.total = 0 THEN <<>>
  ELSE SubSeq(items, FirstItem(p), LesserOf(LastItem(p), Len(items)))

\* createRowTree, with nothing of it open.
createRowTree(r) == [of |-> r, selectedNodes |-> {}, open |-> FALSE, drawn |-> {}]

FirstWithId(items, id) ==
  items[CHOOSE i \in DOMAIN items :
          /\ items[i].rowId = id
          /\ \A j \in 1..(i - 1) : items[j].rowId # id]

IdsOf(items) == {items[i].rowId : i \in DOMAIN items}

\* Slip: the tree of a row is made anew whenever the row is rendered.
Registered_Anew(items, map) ==
  [id \in DOMAIN map \cup IdsOf(items) |->
     IF id \in IdsOf(items) THEN createRowTree(FirstWithId(items, id).row) ELSE map[id]]

\* renderRow and getRowTree: rendering enters the rows that have no tree yet.
Registered(items, map) ==
  [id \in DOMAIN map \cup IdsOf(items) |->
     IF id \in DOMAIN map THEN map[id] ELSE createRowTree(FirstWithId(items, id).row)]

EmptyMap == [id \in {} |-> createRowTree(CHOOSE r \in Rows : TRUE)]

\* Slip: the pager is told of the rows of the results, matching or not.
Rendered_AllRows(map, p) ==
  IF HasTable(queryResultsTable', selectedTabId')
  THEN LET items == Items(queryResultsTable', selectedTabId', searchQuery')
           q     == Updated([p EXCEPT !.total = Len(queryResultsTable'[selectedTabId'].records)])
       IN  /\ pager' = q
           /\ itemIdToExpandedRowMap' = Registered(OnPage(items, q), map)
  ELSE pager' = p /\ itemIdToExpandedRowMap' = map

\* The rendering that ends every step: the pager gets the number of matching
\* items, then the rows of its page are rendered.
Rendered(map, p) ==
  IF HasTable(queryResultsTable', selectedTabId')
  THEN LET items == Items(queryResultsTable', selectedTabId', searchQuery')
           q     == Updated([p EXCEPT !.total = Len(items)])
       IN  /\ pager' = q
           /\ itemIdToExpandedRowMap' = Registered(OnPage(items, q), map)
  ELSE pager' = p /\ itemIdToExpandedRowMap' = map

NewPager == [total |-> 0, size |-> DefaultSize, index |-> -1]

-----------------------------------------------------------------------------
ItemsNow == Items(queryResultsTable, selectedTabId, searchQuery)
TableShown == HasTable(queryResultsTable, selectedTabId)
RowsOfPage == IF TableShown THEN OnPage(ItemsNow, pager) ELSE <<>>

EntryOf(item) == itemIdToExpandedRowMap[item.rowId]

TypeOK ==
  /\ language \in {"SQL", "PPL"}
  /\ isResultFullScreen \in BOOLEAN
  /\ queryResultsTable \in Responses \cup {<<>>}
  /\ selectedTabId \in Nat
  /\ searchQuery \in Queries
  /\ DOMAIN itemIdToExpandedRowMap \subseteq Nat
  /\ \A id \in DOMAIN itemIdToExpandedRowMap :
       LET e == itemIdToExpandedRowMap[id]
       IN  /\ e \in [of : Rows, selectedNodes : SUBSET Fields, open : BOOLEAN,
                     drawn : SUBSET Fields]
           /\ e.selectedNodes \cup e.drawn \subseteq Nested[e.of]
  /\ pager \in [total : Nat, size : PageSizes, index : Nat \cup {-1}]

Init ==
  /\ language = "SQL"
  /\ isResultFullScreen = FALSE
  /\ queryResultsTable = <<>>
  /\ selectedTabId = Output
  /\ searchQuery = NoSearch
  /\ itemIdToExpandedRowMap = EmptyMap
  /\ pager = NewPager

-----------------------------------------------------------------------------
(* Main *)

\* Slip: the expanded rows of the last run are kept.
RunSucceeds_KeepsRows(resp) ==
  /\ queryResultsTable' = resp
  /\ selectedTabId' = IF resp # <<>> /\ resp[1].fulfilled THEN 1 ELSE Output
  /\ searchQuery' = NoSearch
  /\ Rendered(itemIdToExpandedRowMap, pager)
  /\ UNCHANGED <<language, isResultFullScreen>>

\* The answers to a run, synchronous or not, are put on the page.
RunSucceeds(resp) ==
  /\ queryResultsTable' = resp
  /\ selectedTabId' = IF resp # <<>> /\ resp[1].fulfilled THEN 1 ELSE Output
  /\ searchQuery' = NoSearch
  /\ Rendered(EmptyMap, pager)
  /\ UNCHANGED <<language, isResultFullScreen>>

\* onClear, and onRunAsync when it clears the page: the search stays.
ClearPage ==
  /\ ~isResultFullScreen
  /\ queryResultsTable' = <<>>
  /\ selectedTabId' = Output
  /\ UNCHANGED <<language, isResultFullScreen, searchQuery>>
  /\ Rendered(EmptyMap, pager)

\* onChange: the language is switched.
ChangeLanguage ==
  /\ ~isResultFullScreen
  /\ language' = IF language = "SQL" THEN "PPL" ELSE "SQL"
  /\ queryResultsTable' = <<>>
  /\ UNCHANGED <<isResultFullScreen, selectedTabId, searchQuery>>
  /\ Rendered(itemIdToExpandedRowMap, pager)

\* The page in full screen has a QueryResults of its own.
ToggleFullScreen ==
  /\ queryResultsTable # <<>>
  /\ isResultFullScreen' = ~isResultFullScreen
  /\ UNCHANGED <<language, mainVars>>
  /\ Rendered(itemIdToExpandedRowMap, NewPager)

\* renderTabs: the tabs are the output and the fulfilled results.
Tabs == {Output} \cup {i \in DOMAIN queryResultsTable : queryResultsTable[i].fulfilled}

\* The click on a tab and onSelectedTabIdChange.
SelectTab(tab) ==
  /\ queryResultsTable # <<>>
  /\ tab \in Tabs
  /\ selectedTabId' = tab
  /\ searchQuery' = NoSearch
  /\ UNCHANGED <<language, isResultFullScreen, queryResultsTable>>
  /\ Rendered(EmptyMap, Updated([pager EXCEPT !.index = 0]))

\* onQueryChange: the page stays where it is, unless it is past the end.
Search(query) ==
  /\ TableShown
  /\ language = "SQL"
  /\ searchQuery' = query
  /\ UNCHANGED <<language, isResultFullScreen, queryResultsTable, selectedTabId>>
  /\ Rendered(EmptyMap, pager)

-----------------------------------------------------------------------------
(* The pager *)

\* onChangeItemsPerPage.
ChangeItemsPerPage(n) ==
  /\ TableShown
  /\ UNCHANGED <<language, isResultFullScreen, mainVars>>
  /\ Rendered(itemIdToExpandedRowMap, Updated([pager EXCEPT !.size = n]))

TotalPages == (pager.total + pager.size - 1) \div pager.size

\* onChangePage.
ChangePage(page) ==
  /\ TableShown
  /\ UNCHANGED <<language, isResultFullScreen, mainVars>>
  /\ Rendered(itemIdToExpandedRowMap, Updated([pager EXCEPT !.index = page]))

-----------------------------------------------------------------------------
(* Expanded rows.  A row that is open was drawn once, by renderNav: it shows
   what was selected then. *)

\* renderNav with getChildrenItems and createItem: what is marked as selected.
renderNav(e) == e.selectedNodes

\* updateExpandedRow
Redrawn(e) == [e EXCEPT !.open = TRUE, !.drawn = renderNav(e)]

\* updateSelectedNodes: a node that was selected is removed, unless it is to be
\* kept open.
updateSelectedNodes(e, f, keepOpen) ==
  [e EXCEPT !.selectedNodes = IF f \in @ /\ ~keepOpen THEN @ \ {f} ELSE @ \cup {f}]

\* getFieldValue: the cell of a nested field is a link.
hasExpandingRow(r, f) == f \in Nested[r]

\* updateExpandedMap: the map was changed in place.
Touched(id, e) ==
  /\ UNCHANGED <<language, isResultFullScreen, mainVars>>
  /\ Rendered([itemIdToExpandedRowMap EXCEPT ![id] = e], pager)

\* Slip: the row is not drawn again.
OpenField_NotRedrawn(item, f) ==
  LET e == EntryOf(item)
  IN  /\ hasExpandingRow(item.row, f)
      /\ f \in Nested[e.of]
      /\ Touched(item.rowId, [updateSelectedNodes(e, f, TRUE) EXCEPT !.open = TRUE])

\* Slip: a field that the tree of the row lacks is selected in it all the same.
OpenField_Unfound(item, f) ==
  LET e == EntryOf(item)
  IN  /\ hasExpandingRow(item.row, f)
      /\ Touched(item.rowId, Redrawn(updateSelectedNodes(e, f, TRUE)))

\* The link in the cell of a nested field.  The node is looked for in the tree
\* that the map has for the row id: the link does nothing when it is not there.
OpenField(item, f) ==
  LET e == EntryOf(item)
  IN  /\ hasExpandingRow(item.row, f)
      /\ f \in Nested[e.of]
      /\ Touched(item.rowId, Redrawn(updateSelectedNodes(e, f, TRUE)))

\* toggleNodeData on the root of a row, whose icon is there if it has children.
ToggleRow(item) ==
  LET e == EntryOf(item)
  IN  /\ Nested[e.of] # {}
      /\ Touched(item.rowId, IF e.open THEN [e EXCEPT !.open = FALSE, !.drawn = {}]
                             ELSE Redrawn(e))

\* The icon of a field in the navigation of an expanded row.
ToggleField(item, f) ==
  LET e == EntryOf(item)
  IN  /\ e.open
      /\ f \in Nested[e.of]
      /\ Touched(item.rowId, Redrawn(updateSelectedNodes(e, f, FALSE)))

-----------------------------------------------------------------------------
MainActs ==
  \/ \E resp \in Responses : RunSucceeds(resp)
  \/ ClearPage \/ ChangeLanguage \/ ToggleFullScreen
  \/ \E tab \in Tabs : SelectTab(tab)
  \/ \E query \in Queries : Search(query)

PagerActs ==
  \/ \E n \in PageSizes : ChangeItemsPerPage(n)
  \/ \E page \in 0..(TotalPages - 1) : ChangePage(page)

RowActs ==
  \E i \in DOMAIN RowsOfPage :
    LET item == RowsOfPage[i]
    IN  \/ ToggleRow(item)
        \/ \E f \in Fields : OpenField(item, f) \/ ToggleField(item, f)

Next == MainActs \/ PagerActs \/ RowActs

Spec == Init /\ [][Next]_vars

-----------------------------------------------------------------------------
(* Properties *)

\* Whatever the run, the search, the tab or the page size that came last, the
\* page is one of the rows to show: it is not empty unless there are none, and
\* the last page ends at the last row.
PageOfItems ==
  TableShown =>
    /\ pager.total = Len(ItemsNow)
    /\ ItemsNow # <<>> =>
         /\ Len(RowsOfPage) \in 1..pager.size
         /\ pager.index = TotalPages - 1 =>
              FirstItem(pager) + Len(RowsOfPage) - 1 = Len(ItemsNow)

\* Every row on the page has a tree, and without a search it is its own: what
\* was expanded under the same row id in another tab, run or search is gone.
RowsHaveTheirTree ==
  \A i \in DOMAIN RowsOfPage :
    LET item == RowsOfPage[i]
    IN  /\ item.rowId \in DOMAIN itemIdToExpandedRowMap
        /\ searchQuery = NoSearch => EntryOf(item).of = item.row

\* The drawing of an expanded row shows the fields that are selected now,
\* although it was made by the click that changed them, before the rendering.
DrawnAsSelected ==
  \A id \in DOMAIN itemIdToExpandedRowMap :
    LET e == itemIdToExpandedRowMap[id] IN e.open => e.drawn = e.selectedNodes

\* A click on the pager or on a row, or the full screen, never replaces the tree
\* of a row under its id, and changes what is open of one row at most.
ClicksKeepTrees ==
  [][PagerActs \/ RowActs \/ ToggleFullScreen
     => /\ DOMAIN itemIdToExpandedRowMap \subseteq DOMAIN itemIdToExpandedRowMap'
        /\ \A id \in DOMAIN itemIdToExpandedRowMap :
             itemIdToExpandedRowMap'[id].of = itemIdToExpandedRowMap[id].of
        /\ Cardinality({id \in DOMAIN itemIdToExpandedRowMap :
             itemIdToExpandedRowMap'[id] # itemIdToExpandedRowMap[id]}) <= 1]_vars

\* "rowId does not matter here since the data rows would be sorted later"
\* (QueryResults.tsx:191, QueryResultsBody.tsx:295): a row that is expanded
\* shows its own data, searched or not.
ExpandedShowsItsRow ==
  \A i \in DOMAIN RowsOfPage :
    LET e == EntryOf(RowsOfPage[i]) IN e.open => e.of = RowsOfPage[i].row

=============================================================================

------------------------------ MODULE SyncRun -------------------------------
(***************************************************************************)
(* Main, QueryResults and QueryResultsBody: Run, Explain and the downloads *)
(* of the OpenSearch data source.  Each posts one request per statement    *)
(* and writes the page when all are answered; nothing ties an answer to    *)
(* what the page shows by then, so answers of several requests, the tabs,  *)
(* the switches and the two-second timers of the downloads interleave.     *)
(*                                                                         *)
(* The asynchronous runs of the other data sources write the same page.    *)
(* Here they are of one statement and call back at any time, whatever      *)
(* status they last reported; how a run comes to call back is in           *)
(* MainAsync.                                                              *)
(*                                                                         *)
(* The arrays of the page are always those of one request, so the page     *)
(* keeps the number of the request each comes from, 0 when it is empty.    *)
(***************************************************************************)
EXTENDS Naturals, Sequences

CONSTANTS Queries,      \* statements
          Batches,      \* what getQueries can make of the editor, but []
          Clusters,
          Connections,  \* data sources whose runs are asynchronous
          OpenSearch,   \* label of the default data source
          Offered,      \* the entries of the Download menu
          MaxRequests   \* bound on the requests of a behaviour

Formats == {"json", "jdbc", "csv", "text"}

ASSUME BatchAssumption == \A b \in Batches : b \in Seq(Queries) /\ b # <<>>
ASSUME LabelAssumption == OpenSearch \notin Connections
ASSUME OfferedAssumption == Offered \subseteq Formats
ASSUME BoundAssumption == MaxRequests \in Nat

VARIABLES
  language,
  selectedMDSDataConnectionId,
  selectedDatasource,
  asyncLoadingStatus,
  queries,
  queryTranslations,    \* request of the translations shown
  queryResultsTable,    \* request of the tables shown
  bodies,               \* request of queryResults ("jdbc"), queryResultsJSON...
  selectedTabId,        \* 0 for the Output tab
  isResultFullScreen,
  requests,             \* every request posted, with the answers so far
  timers,               \* downloads waiting for their two seconds
  lastFile              \* the last file written, as a set of at most one

tableVars == <<queryResultsTable, selectedTabId, asyncLoadingStatus>>
resultVars == <<queries, queryTranslations, bodies, tableVars>>
sourceVars == <<selectedMDSDataConnectionId, selectedDatasource>>
choiceVars == <<language, sourceVars, isResultFullScreen>>
vars == <<resultVars, choiceVars, requests, timers, lastFile>>

-----------------------------------------------------------------------------
(* Requests and their answers *)

Output == 0
Languages == {"SQL", "PPL"}
Kinds == {"run", "explain", "async"} \cup Formats

\* "rows": a body to show or save; "blank": one that is empty, no table at all,
\* or asynchronous and without a schema; "refused": ok is false, the POST itself
\* failed, or the asynchronous run did.
Outcomes == {"rows", "blank", "refused"}
Pending == "pending"

Ids == 1..Len(requests)
Statements(r) == DOMAIN requests[r].queries

\* processQueryResponse on the answer to statement i of r.
Fulfilled(r, i) == requests[r].answers[i] \in {"rows", "blank"}

\* A statement of a request: what a table or a file is the result of.
Result(r, i) == [req |-> r, tab |-> i]
Nothing == Result(0, 0)

\* getSelectedResults: what the props of the body hold of format f.
AtHand(f) ==
  LET r == bodies[f]
  IN  IF r # 0 /\ selectedTabId \in Statements(r) /\ requests[r].answers[selectedTabId] = "rows"
      THEN Result(r, selectedTabId)
      ELSE Nothing

Post(kind, qs) ==
  /\ Len(requests) < MaxRequests
  /\ requests' = Append(requests,
       [kind |-> kind, queries |-> qs, cluster |-> selectedMDSDataConnectionId,
        answers |-> [i \in DOMAIN qs |-> Pending]])

-----------------------------------------------------------------------------
(* The body of the results, and the timers it has set *)

\* asyncLoading is set together with asyncLoadingStatus.  "running" stands for
\* every status under which the page offers Cancel.
Statuses == {"success", "cancelled", "failed", "scheduled", "running"}
asyncLoading == asyncLoadingStatus \in {"scheduled", "running"}

\* Without one of these statuses the table, if any, gives way to AsyncQueryBody.
BodyMounted == queryResultsTable # 0 /\ asyncLoadingStatus \in {"success", "cancelled"}

\* PanelWrapper renders a different element with and without the panel.
Wrapped == language = "SQL" /\ selectedTabId # Output

\* A body taken off the page keeps the props of its last rendering, and its
\* timers read them from there.
KeepTimers ==
  timers' = IF /\ BodyMounted /\ BodyMounted'
               /\ Wrapped' = Wrapped
               /\ isResultFullScreen' = isResultFullScreen
            THEN timers
            ELSE {IF t.live THEN [t EXCEPT !.live = FALSE, !.data = AtHand(t.format)] ELSE t :
                    t \in timers}

RequestsOK ==
  /\ Len(requests) <= MaxRequests
  /\ requests \in Seq([kind : Kinds, queries : Batches, cluster : Clusters,
                       answers : Seq(Outcomes \cup {Pending})])
  /\ \A r \in Ids : DOMAIN requests[r].answers = Statements(r)

PageOK ==
  /\ language \in Languages
  /\ selectedMDSDataConnectionId \in Clusters
  /\ selectedDatasource \in Connections \cup {OpenSearch}
  /\ asyncLoadingStatus \in Statuses
  /\ isResultFullScreen \in BOOLEAN
  /\ queries \in Batches \cup {<<>>}
  /\ queryResultsTable # 0 => queries # <<>>
  /\ {queryTranslations, queryResultsTable} \subseteq 0..Len(requests)
  /\ bodies \in [Formats -> 0..Len(requests)]
  /\ selectedTabId \in Nat

TimersOK ==
  LET Results == [req : 0..Len(requests), tab : Nat]
  IN  /\ timers \subseteq [format : Formats, asked : Results, live : BOOLEAN, data : Results]
      /\ lastFile \subseteq [format : Formats, asked : Results, data : Results]

TypeOK == RequestsOK /\ PageOK /\ TimersOK

Init ==
  /\ language = "SQL"
  /\ selectedMDSDataConnectionId \in Clusters
  /\ selectedDatasource = OpenSearch
  /\ asyncLoadingStatus = "success"
  /\ queries = <<>>
  /\ queryTranslations = 0
  /\ queryResultsTable = 0
  /\ bodies = [f \in Formats |-> 0]
  /\ selectedTabId = Output
  /\ isResultFullScreen = FALSE
  /\ requests = <<>>
  /\ timers = {}
  /\ lastFile = {}

-----------------------------------------------------------------------------
(* The user.  In full screen only the results are on the page. *)

\* onTranslate, and onRun unless the button shows a run going on, for the
\* statements of the editor.
RunOrExplain(kind, qs) ==
  /\ ~isResultFullScreen
  /\ selectedDatasource = OpenSearch
  /\ kind = "run" => ~asyncLoading
  /\ Post(kind, qs)
  /\ UNCHANGED <<resultVars, choiceVars, timers, lastFile>>

EmptyPage ==
  /\ queryTranslations' = 0
  /\ queryResultsTable' = 0
  /\ bodies' = [f \in Formats |-> 0]
  /\ selectedTabId' = Output

\* onRunAsync; queries stay.
RunAsync(qs) ==
  /\ ~isResultFullScreen
  /\ selectedDatasource # OpenSearch
  /\ ~asyncLoading
  /\ Post("async", qs)
  /\ EmptyPage
  /\ asyncLoadingStatus' = "scheduled"
  /\ UNCHANGED <<queries, choiceVars, lastFile>>
  /\ KeepTimers

\* cancelQueryRequester; full screen has the button, too.
Cancel ==
  /\ asyncLoadingStatus = "running"
  /\ asyncLoadingStatus' = "cancelled"
  /\ UNCHANGED <<queries, queryTranslations, bodies, queryResultsTable, selectedTabId,
                 choiceVars, requests, lastFile>>
  /\ KeepTimers

\* onClear, whose onClick stays active while loading.
onClear ==
  /\ ~isResultFullScreen
  /\ EmptyPage
  /\ queries' = <<>>
  /\ asyncLoadingStatus' = "success"
  /\ UNCHANGED <<language, selectedMDSDataConnectionId, isResultFullScreen, requests, lastFile>>
  /\ KeepTimers

Clear == onClear /\ UNCHANGED selectedDatasource

\* handleDataSelect; as in MainAsync, a list that comes late may call it while
\* loading.
SelectDatasource(d) == onClear /\ selectedDatasource' = d

\* onChange: only the table goes; queries, bodies and selected tab stay.
SwitchTo(l) ==
  /\ ~isResultFullScreen /\ ~asyncLoading
  /\ language' = l
  /\ queryResultsTable' = 0
  /\ UNCHANGED <<sourceVars, isResultFullScreen, queries, queryTranslations, bodies,
                 selectedTabId, asyncLoadingStatus, requests, lastFile>>
  /\ KeepTimers

\* onChangeCluster, with or without going back to the indexes.
ChangeCluster ==
  /\ ~isResultFullScreen /\ ~asyncLoading
  /\ selectedDatasource' \in {selectedDatasource, OpenSearch}
  /\ queryResultsTable' = 0
  /\ UNCHANGED <<language, selectedMDSDataConnectionId, isResultFullScreen, queries,
                 queryTranslations, bodies, selectedTabId, asyncLoadingStatus, requests, lastFile>>
  /\ KeepTimers

\* onSelectedDataSource: what is shown stays, also the result of an asynchronous
\* run, which from now on has the Download menu of OpenSearch.
SelectCluster(c) ==
  /\ ~isResultFullScreen
  /\ selectedMDSDataConnectionId' = c
  /\ selectedDatasource' = OpenSearch
  /\ UNCHANGED <<language, isResultFullScreen, resultVars, requests, timers, lastFile>>

\* setIsResultFullScreen, from buttons that are there with a table only.
ToggleFullScreen ==
  /\ queryResultsTable # 0
  /\ isResultFullScreen' = ~isResultFullScreen
  /\ UNCHANGED <<language, sourceVars, resultVars, requests, lastFile>>
  /\ KeepTimers

\* onSelectedTabIdChange, from the tabs of renderTabs.
SelectTab(i) ==
  /\ BodyMounted
  /\ i # Output => Fulfilled(queryResultsTable, i)
  /\ selectedTabId' = i
  /\ UNCHANGED <<queries, queryTranslations, queryResultsTable, bodies, asyncLoadingStatus,
                 choiceVars, requests, lastFile>>
  /\ KeepTimers

\* A table is rendered, and under SQL and OpenSearch it has the Download menu.
MenuShown ==
  /\ BodyMounted
  /\ selectedTabId \in Statements(queryResultsTable)
  /\ Fulfilled(queryResultsTable, selectedTabId)
  /\ language = "SQL"
  /\ selectedDatasource = OpenSearch

\* onDownloadJSON, onDownloadJDBC, onDownloadCSV, onDownloadText: a body that is
\* not at hand is fetched for the statements of the page, on the cluster
\* selected now.  One timer per format bounds the clicks.
Download(f) ==
  /\ MenuShown
  /\ \A t \in timers : t.format # f
  /\ IF AtHand(f) = Nothing THEN Post(f, queries) ELSE UNCHANGED requests
  /\ timers' = timers \cup {[format |-> f, live |-> TRUE, data |-> Nothing,
                             asked |-> Result(queryResultsTable, selectedTabId)]}
  /\ UNCHANGED <<resultVars, choiceVars, lastFile>>

\* What the timer of a download finds in the props.
Data(t) == IF t.live THEN AtHand(t.format) ELSE t.data

\* JSON.parse throws on nothing, and on the body of an asynchronous run, which
\* onRunAsync keeps as an object.  CSV and text write whatever the props hold.
Writes(t) ==
  \/ t.format \in {"csv", "text"}
  \/ Data(t) # Nothing /\ requests[Data(t).req].kind # "async"

\* The two seconds are over.
TimerFires(t) ==
  /\ timers' = timers \ {t}
  /\ lastFile' = IF Writes(t)
                 THEN {[format |-> t.format, asked |-> t.asked, data |-> Data(t)]}
                 ELSE lastFile
  /\ UNCHANGED <<resultVars, choiceVars, requests>>

-----------------------------------------------------------------------------
(* Answers.  When the last statement of a request is answered, its Promise.all *)
(* continues in the same step.                                             *)

AllAnswered(r) == \A i \in Statements(r) : requests[r].answers[i] # Pending

\* Statements of r are still unanswered.
StillWaits(r) == ~AllAnswered(r)' /\ UNCHANGED <<resultVars, timers>>

\* A body that is no table: getQueryResultsForTable throws, and the run is never
\* shown.  (Of an asynchronous run, a result without a schema, which is.)
Unreadable(r) == \E i \in Statements(r) : requests[r].answers[i] = "blank"

RunLost(r) ==
  /\ requests[r].kind = "run" /\ AllAnswered(r)' /\ Unreadable(r)'
  /\ UNCHANGED <<resultVars, timers>>

RunReadable(r) == requests[r].kind = "run" /\ AllAnswered(r)' /\ ~Unreadable(r)'

\* getDefaultTabId.
DefaultTabId(r) == IF Fulfilled(r, 1) THEN 1 ELSE Output

ShowRun(r, table, tab) ==
  /\ queries' = requests[r].queries
  /\ queryResultsTable' = table
  /\ bodies' = [[f \in Formats |-> 0] EXCEPT !["jdbc"] = r]
  /\ selectedTabId' = tab
  /\ asyncLoadingStatus' = "success"
  /\ UNCHANGED queryTranslations

\* Slip: the tab selected before the run stays.
RunAnswered_KeepsTab(r) ==
  RunReadable(r) /\ ShowRun(r, r, selectedTabId) /\ KeepTimers

\* Slip: no table for a run that failed, as onRunAsync has none without a schema.
RunAnswered_NoTable(r) ==
  /\ RunReadable(r)
  /\ ShowRun(r, IF Fulfilled(r, 1)' THEN r ELSE 0, DefaultTabId(r)')
  /\ KeepTimers

\* Slip: a run is shown only while the page still shows its statements.
RunAnswered_OnlyIfAsked(r) ==
  /\ RunReadable(r)
  /\ IF queries \in {<<>>, requests[r].queries}
     THEN ShowRun(r, r, DefaultTabId(r)')
     ELSE UNCHANGED resultVars
  /\ KeepTimers

\* The continuation of onRun, which selects the first table.
RunAnswered(r) ==
  RunReadable(r) /\ ShowRun(r, r, DefaultTabId(r)') /\ KeepTimers

\* Slip: an explanation empties the results, as its unused shouldCleanResults
\* suggests, but not the table.
ExplainAnswered_CleansResults(r) ==
  /\ requests[r].kind = "explain" /\ AllAnswered(r)'
  /\ queries' = requests[r].queries
  /\ queryTranslations' = r
  /\ bodies' = [f \in Formats |-> 0]
  /\ UNCHANGED <<tableVars, timers>>

\* The continuation of onTranslate, whose two branches do the same.
ExplainAnswered(r) ==
  /\ requests[r].kind = "explain" /\ AllAnswered(r)'
  /\ queries' = requests[r].queries
  /\ queryTranslations' = r
  /\ UNCHANGED <<bodies, tableVars, timers>>

\* The continuation of getJson, getJdbc, getCsv and getText.
DownloadAnswered(r) ==
  /\ requests[r].kind \in Formats /\ AllAnswered(r)'
  /\ queries' = requests[r].queries
  /\ bodies' = [bodies EXCEPT ![requests[r].kind] = r]
  /\ UNCHANGED <<queryTranslations, tableVars, timers>>

Answer(r, i, o) ==
  /\ requests[r].kind # "async"
  /\ requests[r].answers[i] = Pending
  /\ requests' = [requests EXCEPT ![r].answers[i] = o]
  /\ UNCHANGED <<choiceVars, lastFile>>
  /\ \/ StillWaits(r)
     \/ RunLost(r) \/ RunAnswered(r)
     \/ ExplainAnswered(r)
     \/ DownloadAnswered(r)

-----------------------------------------------------------------------------
(* The callbacks of an asynchronous run that has not ended, cancelled or not *)

Calling(r) == requests[r].kind = "async" /\ ~AllAnswered(r)

\* A status that ends nothing.
AsyncReports(r, status) ==
  /\ Calling(r)
  /\ asyncLoadingStatus' = status
  /\ UNCHANGED <<queries, queryTranslations, bodies, queryResultsTable, selectedTabId,
                 choiceVars, requests, lastFile>>
  /\ KeepTimers

Ends(r, o) ==
  /\ Calling(r)
  /\ requests' = [requests EXCEPT ![r].answers = [i \in Statements(r) |-> o]]
  /\ UNCHANGED <<choiceVars, lastFile>>

\* A result without a schema empties the table.
AsyncSucceeds(r, o) ==
  /\ Ends(r, o)
  /\ ShowRun(r, IF o = "rows" THEN r ELSE 0, 1)
  /\ KeepTimers

\* A status of failed or cancelled, or onErrorCallback: the page keeps the rest.
AsyncFails(r, status) ==
  /\ Ends(r, "refused")
  /\ asyncLoadingStatus' = status
  /\ UNCHANGED <<queries, queryTranslations, bodies, queryResultsTable, selectedTabId>>
  /\ KeepTimers

-----------------------------------------------------------------------------
(* Specification *)

Settles(r) == r \in Ids /\ \E i \in Statements(r), o \in Outcomes : Answer(r, i, o)

CallsBack(r) ==
  \/ \E status \in {"scheduled", "running"} : AsyncReports(r, status)
  \/ \E o \in {"rows", "blank"} : AsyncSucceeds(r, o)
  \/ \E status \in {"failed", "cancelled"} : AsyncFails(r, status)

User ==
  \/ \E kind \in {"run", "explain"}, qs \in Batches : RunOrExplain(kind, qs)
  \/ \E qs \in Batches : Len(qs) = 1 /\ RunAsync(qs)
  \/ Cancel
  \/ Clear
  \/ \E d \in Connections : SelectDatasource(d)
  \/ \E l \in Languages : SwitchTo(l)
  \/ ChangeCluster
  \/ \E c \in Clusters : SelectCluster(c)
  \/ ToggleFullScreen
  \/ BodyMounted /\ \E i \in {Output} \cup Statements(queryResultsTable) : SelectTab(i)
  \/ \E f \in Offered : Download(f)

Next ==
  \/ User
  \/ \E r \in Ids : Settles(r) \/ CallsBack(r)
  \/ \E t \in timers : TimerFires(t)

SafeSpec == Init /\ [][Next]_vars

\* Every request is answered or times out.  Asynchronous runs need not end.
Fairness == \A r \in 1..MaxRequests : WF_vars(Settles(r))
Spec == SafeSpec /\ Fairness

-----------------------------------------------------------------------------
(* Properties *)

\* A tab that is selected has a table to show: whatever is answered, cleared or
\* switched between, selectedTabId is never the index of a failed statement or
\* one beyond the results of a shorter run.
SelectedTabHasTable ==
  queryResultsTable # 0 /\ selectedTabId # Output =>
    selectedTabId \in Statements(queryResultsTable) /\ Fulfilled(queryResultsTable, selectedTabId)

\* The tables shown and the bodies they were made from are of one run, also when
\* an explanation or a download of something else is answered in between.
TableMatchesBodies ==
  queryResultsTable # 0 =>
    /\ bodies["jdbc"] = queryResultsTable
    /\ requests[queryResultsTable].kind \in {"run", "async"}

\* The body of a JDBC download is always at hand: getJdbc, which would replace
\* the bodies under the table, is never called.
JdbcNeverFetched == \A r \in Ids : requests[r].kind # "jdbc"

\* The timer of a JDBC download always finds the body of a run, although it
\* outlives tabs, tables and bodies.  It writes its file if the run was
\* synchronous; if it was asynchronous the download fails, be it because
\* SelectCluster left the result under the Download menu or because the run
\* ended within the two seconds.
JdbcFailsOnlyOnAsync ==
  \A t \in timers :
    t.format = "jdbc" =>
      /\ Data(t).req \in Ids
      /\ requests[Data(t).req].kind = IF Writes(t) THEN "run" ELSE "async"

\* Full screen, which hides everything else, keeps its exit button, unless an
\* asynchronous run without a schema has emptied the table under it.
FullScreenHasExit ==
  isResultFullScreen =>
    \/ queryResultsTable # 0
    \/ LET r == bodies["jdbc"]
       IN  r # 0 /\ requests[r].kind = "async" /\ Unreadable(r)

\* A run whose answers can all be read is shown, even if only until the next.
RunShown ==
  \A r \in 1..MaxRequests :
    (r \in Ids /\ requests[r].kind = "run" /\ ~AllAnswered(r))
      ~> (queryResultsTable = r \/ (r \in Ids /\ Unreadable(r)))

\* A file holds the result that was on the page when its download was asked.  This
\* does not hold, and no run checks it: what the props hold after two seconds may
\* be nothing, or of another query or cluster.  (A download that fails leaves no
\* file at all.)
FilesAreOfResults ==
  \A file \in lastFile :
    /\ file.data # Nothing
    /\ LET asked == requests[file.asked.req]
           saved == requests[file.data.req]
       IN  /\ saved.queries[file.data.tab] = asked.queries[file.asked.tab]
           /\ saved.cluster = asked.cluster
=============================================================================

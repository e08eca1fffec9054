# Query workbench: TLA+ specifications and proofs

This directory holds TLA+ models of the query workbench plugin for OpenSearch
Dashboards, the TLC configurations that check them on small instances, and
TLAPS proofs of their main invariants for instances of every size. Every
definition is translated from the TypeScript in `src/`; `PROJECT.json` maps each
one to the lines it stands for.

To check a module: `tlc -config AsyncQuery_safety.cfg MCAsyncQuery`. To check
proofs: `tlapm AsyncQueryProofs.tla`.

## The system

The plugin lets a user run SQL and PPL on a cluster. Its browser side (`public/`,
and `common/` which both sides use) is a page, `Main`, with an editor, a tree of
indices or catalogs, and results. Its server side (`server/`) forwards requests
to the local cluster or, with the data source plugin (MDS), to a remote one.
A cluster runs OpenSearch, or OpenDistro on Elasticsearch; an OpenSearch cluster
may have Flint data sources (connections to S3), whose queries are jobs that are
submitted, polled and cancelled.

| Part | State it keeps | Operations | Talks to |
|---|---|---|---|
| asynchronous query client (`async_query_helpers.ts`) | per query: `jobId`, `isQueryFulfilled`, `isQueryCancelled`, an outstanding request or timer; session ids in `sessionStorage` | `executeAsyncQuery`, the function it returns to cancel | the job API through the server; its caller through two callbacks |
| Main, asynchronous runs (`main.tsx`) | one loading flag and status, one result table and tab, one cancel handler | `onRunAsync` and its callbacks, Cancel, `onClear`, `handleDataSelect`, `onChangeCluster`, `onSelectedDataSource` | the client above |
| Main, synchronous runs, explain, downloads | `queries`, `queryResults`, translations, one array per download format | `onRun`, `onTranslate`, `getJdbc`, `getJson`, `getCsv`, `getText`, the download buttons | the server |
| Main, data source switch | capabilities and the token of the last request for them, Flint flag, editor text and its debounce | `fetchAndSetCaps`, `syncSeededSqlQuery`, `fetchFlintDataSources`, `updateSQLQueries` | saved objects, the server, the index tree |
| deployment capabilities (`deployment_capabilities.ts`) | none | `getDeploymentCapabilities` | used on both sides |
| cluster info service (`ClusterInfoService.ts`) | two caches of promises | `getVersion`, `getDataSourceInfo` | clusters, saved objects |
| query routing (`QueryService.ts`, `TranslateService.ts`, `routes/`, `sqlPlugin.js`) | none | one handler per route, which chooses one of the client's actions | the service above, clusters |
| index tree (`os_tree.tsx`) | tree, loading flag, an `isStale` closure per load | load, reload | the server |
| S3 catalog tree (`s3_tree.tsx`, helpers) | tree of databases, tables and accelerations, three loading flags, the observability plugin's cache | expand, refresh, effects on the status of each load | the observability plugin |
| acceleration flyout (`acceleration/`) | the form, what the selectors and the builder show, three spinners | selectors that run queries, builders of three kinds of index, settings, validators, the statement | asynchronous query client |
| results (`QueryResults.tsx`, `QueryResultsBody.tsx`) | EUI's pager, the map of expanded rows (in Main), timers of downloads | tabs, search, paging, expanding rows, downloads, full screen | props and callbacks of Main |
| table view, header, language switch | presentation state | popovers, menus | props of Main |

What is hard here is what happens between a request and its answer. A caller may
run several queries in one click, clear, cancel, switch the data source or the
cluster while answers are outstanding; answers come in any order, get lost, or
arrive after the user has moved on; and few handlers carry a token that says
whether they are still wanted. On the server, requests that arrive together
share one probe, which may fail. `PROJECT.json` lists these hazards one by one,
each at its line and with the properties that watch it.

What makes each part correct:

- asynchronous query client: every query ends with exactly one report to its
  caller, the report is true, cancelling stops the polling, a session never
  crosses data sources;
- Main: the page says it is loading only if something will end that, shows only
  results of queries that succeeded, offers Cancel only if there is something to
  cancel;
- switch: once answers are in, capabilities, tree and starter query are those of
  the selected cluster, and what the user typed is kept;
- server: one probe at a time per cluster, failures are not remembered, waiting
  requests are answered, queries go to the endpoints their cluster has;
- capabilities: the engine is recognised with or without the explicit signal, and
  upgrades only add features;
- routing: every action that can be chosen exists, a cluster has what it is asked
  for, polls go where the query went, failures are seen as failures;
- S3 tree: it shows the selected connection, no database is filled twice, and every
  click that locks the tree unlocks it;
- acceleration form: the definition belongs to the table that was described, and the
  builder agrees with the form on its columns;
- results: the page is one of the rows to show, and every row has its own tree.

## Modules

### AsyncQuery and AsyncJob

`AsyncQuery` is `executeAsyncQuery`. One element of `Queries` is one call of it,
with the closure's variables as functions of the query. `post[q]` is the life of
the POST: `sent`, then `accepted` or `invalid` once the server has handled it,
then `done` once the closure has seen the answer. `poll[q]` is the one thing the
polling loop has outstanding: a `timer`, a GET that is `sent`, or an answer in
flight, written as the status it carries. Splitting each request into serving
and answering is what lets an answer be lost after it took effect, and a status
be stale when it is read.

| Action | Code |
|---|---|
| `Start` | `getJobId` up to the POST, for all queries of one handler |
| `PostAnswered`, `PostInvalid`, `PostFails` | the `then` and `catch` of the POST |
| `PollLive`, `PollEnded`, `PollSuccess`, `PollUnrecognized`, `PollFails` | the cases of the switch in `pollQueryStatus`, and its `catch` |
| `TimerFires` | `setTimeout(() => pollQueryStatus(...))` |
| `CancelQuery`, `DeleteAnswered`, `DeleteFails` | `cancelQuery` and the answer to its DELETE |
| `AcceptPost`, `RefusePost`, `AnswerPoll`, `JobMoves`, `JobEnds` | the server and the job, external |

A status is a value of the `AsyncQueryStatus` enumeration, or `unrecognized` for
any other string. Results, messages and toasts are left out. Whether the body
has a session id depends on the caller's capabilities, which may be stale, so
`Start` chooses.

`AsyncJob` is the contract: a caller that starts a query sees `waiting`, then one
outcome, which does not change; and it sees one unless it cancelled. `AsyncQuery`
implements it under the mapping `CallerView`.

### MainAsync

`MainAsync` extends `AsyncQuery` with the state of the page. An action of the
closure that calls back is conjoined with the state update of the callback, since
both run in one turn of the event loop: `RunSucceeds` is `PollSuccess` with the
first case of the callback in `onRunAsync`. Actions that do not call back are in
`Silent`. The table is abstracted to the query whose rows it shows, the tab to
the query it is named after (`head[q]`, the first of the run), the Cancel button
to the query its handler belongs to. A synchronous run is only its answer, which
overwrites the same state. Controls follow the page: Run is disabled while
loading, Clear is not (its `onClick` is on the item around the button), Cancel is
there for statuses other than `scheduled`, the cluster menu is always enabled.

### SyncRun

`SyncRun` is the page of results, on the OpenSearch data source and, as far as they
write the same page, on the others. `requests` is the log of what
was posted, one entry per Run, Explain or download with its statements, the cluster
selected at that time and the answers so far. The arrays that `setState` writes
(`queryResultsTable`, `queryResults`, `queryResultsCSV`...) are always those of one
request, so each is its number, 0 when empty; `bodies["jdbc"]` is `queryResults`.
An answer is `rows`, `blank` (ok, but nothing to show) or `refused` (ok is false, or
the POST failed). `Batches` stands for what `getQueries` makes of the editor.

An asynchronous run is an entry, too, of one statement. Its callbacks set
`asyncLoadingStatus`, on which the body of the results and most controls depend, and
when it succeeds they fill the page like an answer to `onRun`. They may come at any
time until the run has ended; which of them can come after which is what `MainAsync`
is about, and nothing here depends on it. Such a result stays on the page when
`onSelectedDataSource` goes back to OpenSearch (`SelectCluster`), so that it gets a
Download menu that was not meant for it.

| Action | Code |
|---|---|
| `RunOrExplain` | `onRun` and `onTranslate` up to the POSTs |
| `Answer` | one answer; the last of a request continues in `Promise.all` |
| `RunAnswered`, `RunLost` | the continuation of `onRun`, and its end when `getQueryResultsForTable` throws |
| `ExplainAnswered`, `DownloadAnswered` | the continuations of `onTranslate` and of `getJson`, `getJdbc`, `getCsv`, `getText` |
| `Download`, `TimerFires` | the four download handlers, and what they do after 2000 ms |
| `RunAsync`, `Cancel` | `onRunAsync` up to the POST, `cancelQueryRequester` |
| `AsyncReports`, `AsyncSucceeds`, `AsyncFails` | the cases of the callback in `onRunAsync`, and `onErrorCallback` |
| `Clear`, `SelectDatasource` | `onClear`, `handleDataSelect` |
| `SwitchTo`, `ChangeCluster`, `SelectCluster` | `onChange`, `onChangeCluster`, `onSelectedDataSource` |
| `SelectTab`, `ToggleFullScreen` | the tabs and the full screen buttons of `QueryResults` |

A timer reads `this.props` of the `QueryResultsBody` that set it. React keeps that
component while its place in the page stays the same, and takes it off when the
table goes or gives way to `AsyncQueryBody`, when `PanelWrapper` changes between its
two shapes, and when full screen is entered or left; it then keeps its last props for ever. `KeepTimers` says so, and
is part of each action that changes what is rendered: `live` timers read the page,
others what was at hand when the body went. Tab labels, messages, paging and sorting
are left out.

### Capabilities, Deployment and Routing

`Capabilities` is `getDeploymentCapabilities` as a function of major and minor
version and engine. `Deployment` is a cluster that is upgraded, and moved from
Elasticsearch to OpenSearch, with what it reports of its engine. The releases are
what exists: OpenSearch 1 to 3, Elasticsearch 6 and 7.

`Routing` extends `Deployment` with one request for that cluster, from the page
through its route, its service and the client action to the cluster and back. A
request is known by the name of its action. What the cluster is taken for (`info`)
is the cache of the cluster info service; what concurrent requests do to it is in
`ClusterInfo`, which is why one request at a time is enough here.

| Action | Code |
|---|---|
| `Send`, `Wire` | the calls of `Main` and of the asynchronous client, with the id as it reaches the server |
| `ResolveJob`, `ResolveAction`, `ResolveDataSources` | the three internals of `QueryService`, and `TranslateService` |
| `Known`, `LooksUp` | `getVersion` or `getDataSourceInfo`, and which actions ask |
| `Answer`, with `Status` and `Made` | the answer of the cluster, the status the route gives it, and `processQueryResponse`, `processTranslateResponse` or the client's reading of it |
| `ClusterChanges` | an upgrade or a migration, external |

A body is abstracted to its outcome: a result, a failure, an endpoint that is
`lacking`, or a body the client could not parse.

### ClusterInfo

`ClusterInfo` is the server. A promise is an element of `Promises` with a target,
a stage and, once resolved, an info; `cache` is `infoPromise` for the local
cluster and `dataSourceInfoCache` for the others. A request arrives, takes the
cached promise or starts a probe (`Arrive`), resumes some time after the promise
is resolved, is routed (`Resume`), and ends when the cluster has answered
(`CallEnds`). `ArriveDirect` is for requests that look nothing up. A probe of a data
source reads the saved object first (`ReadRecorded`, `ReadNothing`), then asks the
cluster (`ProbeAnswered`, `ProbeBlank`, `ProbeFails`). The initial state is the one
after `start()` has primed the local cache. Bodies and formats are left out.

### DataSourceSwitch and LatestRequest

`DataSourceSwitch` is the page when the user picks a cluster: the resolution of
capabilities with its token, the list of connections without one, the debounced
editor and the rewrite of the starter query, and the loads of `OSTree` with their
`isStale` closures. A text is one of the two starter queries, empty or typed. A
tree is what it was loaded from and with which query. The model stays on the
Indexes tab.

`LatestRequest` is what a page promises that asks anew before it has been answered:
one answer at most to each request, only to the latest, and no change without one.
`DataSourceSwitch` implements it twice (`LatestAnswersShow`). For the capabilities a
request is a selection, answered when the latest call is no longer in flight, and the
old ones stay meanwhile: that is what `capsRequestToken` is for. For the index tree a
request is a load, of a cluster with the query of an engine, and there is no tree
meanwhile: that is what the `isStale` closures are for.

### S3Tree

`S3Tree` is the tree on the Data source Connections tab. The catalog cache and the
three loading hooks are the observability plugin's: a hook follows the load that was
started last (`databasesLoad`, `tablesLoad`, `accelerationsLoad`), and the cache has
the outcome before the effect on the status runs. Effects that follow from an event
run before the next one, so they are part of its action. Every database has one table
with one index and one materialized view, and each item remembers the connection it
was read from, which is what the properties compare.

| Action | Code |
|---|---|
| `Mount`, `SelectSource`, `ChangeLanguage` | the effect on `dataSource` and `language`, with `onLoadS3Tree` |
| `RefreshTree` | the effect on `refreshTree` |
| `DatabasesLoaded`, `DatabasesFailed` | the effect on `loadDatabasesStatus` |
| `OpenCached`, `OpenLoading` | `onClickDatabase` |
| `TablesEnd`, `AccelerationsEnd`, both with `ObjectsSettle` | the effects on the two statuses, and the one on `isObjectLoading` |
| `OpenAcceleration`, `RefreshFromFlyout` | the details of an acceleration, and its `handleRefresh` |
| `Unmount` | the cleanups |

### AccelerationForm

`AccelerationForm` is the form that builds the statement for a new index. `form` is
`accelerationFormData`, which everything writes; `shown` is what the selectors,
settings and builders keep for themselves. `describing` holds, for each DESC in
flight, the form its callback closes over, because the callback puts that form back.
Numbers are one that was not read (`nan`), one below the minimum or another.

| Action | Code |
|---|---|
| `PickSource`, `PickDatabase`, `PickTable` | the `onChange` of the selectors, with the effects on the form that send the next query |
| `DatabasesAnswer`, `TablesAnswer`, `Described`, `DescribeFails`, `Lost` | the callbacks of the three queries, for each way they can end |
| `AddField`, `DeleteField`, `ChangeAccelerationMethod` | the builder of a skipping index and its modals |
| `ChangeCovering` | the builder of a covering index |
| `AddColumn`, `EditColumn`, `DeleteColumn`, `ChangeTumble` | the builder of a materialized view |
| `ChangeIndexType`, `ChangeIndexName`, `ChangeSetting` | the settings |
| `CopyToEditor` | `formValidator` and `accelerationQueryBuilder` |

### ResultsTable

`ResultsTable` is the table of results. Rendering changes the state, since it enters
the rows of the page in the map of expanded rows, so every action ends with
`Rendered`: the pager gets the number of rows that match, then the rows of its page
are entered. A row is known by the nested fields it has and the texts that find it.
EUI's `Pager` is external: `Updated` is the correction of the page index with which
each of its setters ends.

| Action | Code |
|---|---|
| `RunSucceeds`, `ClearPage`, `ChangeLanguage`, `ToggleFullScreen` | what Main does to results, tab, search and map |
| `SelectTab` | the click on a tab and `onSelectedTabIdChange` |
| `Search` | `onQueryChange` |
| `ChangeItemsPerPage`, `ChangePage` | the handlers of the pager |
| `OpenField`, `ToggleRow`, `ToggleField` | the link in a cell, the icon of a row, the icon of a field in its navigation |

Main appears in three modules, each with the part of its state that the others leave
alone: `MainAsync` has why the page is loading and which query's rows are shown,
`SyncRun` which run every array belongs to, and `ResultsTable` the rows themselves.

### MC modules and slips

`MC*.tla` name the values and symmetries used by the configurations. Operators
whose comment begins with "Slip" are plausible mistakes in the definition that
follows them; with one in the place of the original, some property must fail.
`PROJECT.json` lists the pairs. They show that each property can fail, and are
used nowhere else.

## Runs

| Run | Instance | What it shows |
|---|---|---|
| `async_safety` | 2 queries, 2 data sources, one status in progress and the unrecognized one; 967k states | reports are made, true, final; no poll after a cancel; sessions stay with their data source |
| `main_safety` | 2 queries in one run or two, clears, switches, 1 synchronous run; 1.8M states | loading is explained, results come from success |
| `main_live` | 1 query, every status, local and remote, 2 DELETEs; fairness | loading ends; the query implements `AsyncJob`, liveness included |
| `sync_safety` | 2 requests of one or two statements, synchronous or not, JDBC and CSV downloads; fairness; 174k states | tab, table and bodies are of one run; JDBC downloads find a run in memory, and fail only if it was asynchronous; what can take the exit from full screen; runs are shown |
| `routing` | every kind of request, local or data source, minors on both sides of each threshold; 220k states | actions exist, clusters have what they are asked for, polls go where the query went, failures are seen, upgrades take nothing away |
| `cluster` | 2 requests of any kind, local and one data source, Elasticsearch 7.10 or OpenSearch 2.13, 3 promises; fairness; 982k states | no failure kept, one answer, right route, nobody waits for ever |
| `switch_safety` | 3 clusters (one Elasticsearch), 2 switches; 262k states | `LatestRequest` is implemented by the capabilities (so they are those of the selected cluster, `CapsOfSelected`) and by the tree; tree of the selected cluster, a load always on its way |
| `switch_typed` | as above, 1 switch | violated: see Divergences |
| `s3` | 3 connections of 2 clusters, two of one name, 2 databases; fairness; 140k states | the tree is that of the selected connection, no database is filled twice, the lock and the spinner end |
| `accel` | 2 sources with a database each, 2 tables; 1.8M states | the definition keeps to the described table, the builder to the form, a spinner to its query |
| `results` | 3 rows in responses of two, one and no readable statement, pages of one and two; 3.5k states | the page is one of the rows found, rows have their own tree, drawings are current, clicks are local |
| `results_rows` | as above | violated: see Divergences |

### Bounds

- `Queries = 2`: the interactions of closures are pairwise (a session stored by one
  and read by another, a callback that overwrites the other's status). Proofs cover any number.
- `LiveStatuses = {running}` where two queries run: all live statuses take the same
  branch of the switch. Runs with one query have all four; `scheduled` matters to
  the Cancel button.
- `MaxDeletes`: a second Cancel while a DELETE is in flight is the only case that
  differs.
- `MaxSync = 1`: a synchronous answer has the same effect each time.
- `MaxRequests = 2`: a request whose answer comes late and one that came after it.
  Batches of one and two statements give a tab that only the longer
  one has. `Offered` is the menu of OpenSearch 3, which has no JSON; text behaves as
  CSV, and the proofs cover all four. One cluster is enough for safety, since
  clusters only matter to `FilesAreOfResults`. One timer for each format bounds the clicks.
- `Promises = 3`: the primed one and one for each request, so no request is ever
  refused a probe by the bound.
- `MaxSwitches = 2`: the first load, and two switches whose answers may cross.
- `Minors = {8, 9, 11, 12, 13}`: both sides of 2.11, 2.12, 2.13, 3.0 and 7.9, the
  only versions the code or the clusters compare with; the proofs cover all minors.
- `MaxTreeLoads = 3`: a load of databases for each of two connections, and a refresh.
  `MaxObjectLoads = 2`: a database that is opened, collapsed by a refresh and opened
  again, or two of them.
- `MaxPicks = 3`: a database and its table, and one pick more that crosses their
  answers. `MaxEdits = 4` completes a definition of each kind: the type, the name and
  what the builder has to be given. `Editable` has the setting that decides which
  others are shown; the others are copied to form and screen alike.
- `ResultsTable` has no bound: its state space is finite. Three rows and pages of one
  or two give a last page that is full, one that is not, and one that vanishes.
- In `ClusterInfo`, `ClusterChanges` happens once per cluster, as its effect is only that the cache
  is stale.

`CHECK_DEADLOCK FALSE` appears where each query, request or switch happens a
bounded number of times and the system then rests.

### Fairness

A request is answered or fails, since the HTTP client and the proxies time out;
timers of the polling loop fire; a handler whose promise is resolved runs on; a job ends
(`WF` on `JobEnds`, justified by the job server's own timeout). Users are never fair:
nothing is assumed of a click. No fairness is assumed of which of two outcomes
a request has. In `S3Tree` each of the three loads ends, well or not: they are
asynchronous queries of the observability plugin, which end by the same argument.

## Proofs

Proofs hold for any number of queries, data sources, clusters, requests, promises,
connections, tables, picks, rows and minor versions, under the `ASSUME`s of the
modules, which say that constants are of the right kind and that `None` is not one of
them. Every safety invariant and action property that a passing run checks is a theorem.
`ClusterInfo` also assumes that majors 6 and 7 are Elasticsearch and no others are.
The type invariants of the modules with proofs are theorems and need no run.

- `AsyncQueryProofs`. `OutcomeReported` is not inductive: that nothing is
  outstanding does not say why. `AllCoherent` lists, for one query, what its
  variables can be together (no POST, no poll; a poll needs a job id; fulfilled means
  reported or in error; a report of `success` means the job has it, and an answer in
  flight with a final status is the job's). It is preserved by each action because
  an action changes one query. From it follow `OutcomesReported`, `ReportsAreTrue`,
  `FulfilledForGood` and `CancelStopsPolling`. `SessionsStayApart` needs that
  a stored session is of a query with a job id and of the same data source.
  `Refinement` shows that each step maps to a step of `AsyncJob` or to a stutter.
  The second half is about `MainAsync` and builds on the coherence of the closures,
  carried over because every page action is an action of a closure or leaves closures
  alone. Added are: loading needs a started query that is outstanding or unheard, and
  a displayed live status is the last report of some query.
- `SyncRunProofs`. Requests are only added, and one that is fully answered does
  not change (`RequestsGrow`). On this rest the parts of the invariant: the run of the
  table is fully answered, and readable (`TableSettled`), which with the next part
  gives `TableAndBodiesOfOneRun`; `queryResults` holds a settled run,
  shown or not (`BodiesOfRun`); a live timer has its body mounted in the panel, under
  a selected tab (`TimersMounted`). The last is why a JDBC download always finds the
  body of a run (`JdbcOfRun`): what takes the body off the page leaves the timer with
  what it had at hand. It follows that `getJdbc` is never called, and that a JDBC
  download writes its file exactly if the run it finds was synchronous
  (`JdbcFromMemory`): the body of an asynchronous one is an object, on which
  `JSON.parse` throws.
- `ClusterInfoProofs`. `Sound` says that an unsettled promise is the cached one of
  its target, that a cached promise was really started for that target, that a
  request that has been routed was routed by the cached promise or by nothing, and
  that what the cache knows describes the cluster unless it changed. The second
  part is why eviction without looking is safe: only the cached promise can fail.
- `DataSourceSwitchProofs`. `Settled` relates the token to the cluster asked, the
  resolved capabilities to the selected cluster, and the loads that are not stale
  to both. `LatestAnswersWin` needs one part more, that a load which is not stale means
  an empty tree (`TreeAwaited`): there is one such load at most, since two would be
  of the same cluster and engine, and when it ends none is left. With it each step
  maps to a request, an answer or a stutter of `LatestRequest`.
- `RoutingProofs`. `Sound` adds to the types that the action of a request was chosen
  by what is remembered as asked, and that an answer keeps where it went and what was
  made of it. That a known cluster has what is called follows from lemmas about
  `getDeploymentCapabilities` for every minor version, which also give the theorems on
  engine, state and features.
- `S3TreeProofs`. `FilledOnce` needs more than that only empty databases can be
  clicked: the one that is being loaded must stay empty until it is filled
  (`SelectedEmpty`), although the tree is rebuilt meanwhile. `TreeOfSelected` needs
  that an empty entry of the cache is being loaded (`CacheShown`). `TablesOfTree`
  holds although the database is filled from whichever connection is selected then,
  because only a connection whose databases are cached has tables, and its tree is
  then the one shown. `Sound` is their conjunction, with the flags of `LockExplained`.
- `ResultsTableProofs`. Rendering keeps the trees there are and adds fresh ones
  (`RenderedKeeps`), and the rows of the page are in the map afterwards
  (`RenderedEnters`), so a click always finds an entry. From this follow
  `DrawingsAreCurrent` and `TreesAreKept`. What a search finds is given by `Filtered`,
  an explicit filter, since `SelectSeq` is recursive: `FilteredIsFilter` shows that it
  has exactly the matching rows, in order, and TLC that it is `SelectSeq`
  (`FilteredSelects` in `MCResultsTable`). Its length bounds the pages, and with the
  arithmetic of `Updated` gives `PagesAreOfItems`. `RowsOwnTheirTrees` needs more than
  the rows of the page: without a search, every entry of the map, shown or not, is the
  tree of the row of its number (`OwnTrees`), which holds because whatever changes the
  rows or leaves a search also empties the map.
- `AccelerationFormProofs`. An answer puts back the form of an earlier time, so types
  must hold of the forms in `describing` too. `RowsOfFields` and `ColumnsCounted` need
  nothing of them: the callback of DESC replaces fields and definition together, and
  the builder is mounted with defaults of those fields. An edit keeps them by lemmas on
  `Append` and `RemoveAt`; that `Offered` excludes the fields with a row is what keeps
  rows distinct. `SpinnersExplained` needs that DESC is only in flight for a table
  (`Asked`), since otherwise restoring a form could set a spinner without a query.

Only model-checked: liveness (`RequestsEnd`, `LoadingEnds`, `RunShown`, `Unlocks`,
`SpinnerEnds`, the liveness of `AsyncJob`), which these provers do not reach; that
`Filtered` is `SelectSeq`, whose definition is recursive, for sequences of up to four
rows; and that violated properties are violated.

## Divergences

Two statements of the source that the code does not keep, each with a run that shows
an execution:

1. `TypedTextKept` (`main.tsx:359`). Text typed within the debounce is replaced by the
   starter query when capabilities arrive.
2. `ExpandedShowsItsRow` (`QueryResultsBody.tsx:295`). Rows found by a search all have
   row id 0, so the ones that are expanded show the nested data of the first. Emptying
   the search box does not help, since that is still a search.

What follows is reachable in the models and has no run of its own.

- `CancelTakesEffect` in `AsyncQuery`. `cancelQuery` does not name the remote cluster
  in its DELETE, and the route answers ok whatever the cluster says, so a job on a
  remote cluster goes on although no error is shown.
- `CancelEndsLoading` in `MainAsync`. A poll answered after Cancel puts the page back
  to loading, and then polling stops: the page stays at Running. The answer of an
  earlier run also fills the table that a later run has emptied.
- `FilesAreOfResults` in `SyncRun`. A CSV or text file says `undefined` when its answer
  takes more than two seconds, and holds the result of other statements when an
  Explain or a late answer has replaced `queries` under the table, or of another
  cluster when the selection has changed. A run with one answer that is ok and no
  table is never shown, without a message (`RunLost`).
- `JdbcFailsOnlyOnAsync` in `SyncRun` says when a JDBC download fails, and it does.
  Selecting a cluster keeps the result of an asynchronous run and makes OpenSearch the
  data source (`main.tsx:978`), so the Download menu appears over it; `queryResults`
  holds an object (`main.tsx:600`), `JSON.parse` (`QueryResultsBody.tsx:217`) throws,
  and nothing is written or said. The same happens to a download of a synchronous
  result when an asynchronous run succeeds within its two seconds.
- `FullScreenHasExit` in `SyncRun` excepts an asynchronous run without a schema. When
  it ends in full screen it empties the table, the exit button goes with the table,
  and the page has no other control.
- `DataSourceSwitch`. Two resolutions within one debounce leave the starter query of
  the wrong engine, since the second looks at the text before the first rewrite has
  landed; a superseded resolution still sets `flintDataConnections`, since
  `fetchFlintDataSources` has no token.
- `S3Tree`. When the cache holds a failed load for a connection, selecting it leaves
  the spinner (`onLoadS3Tree` has no case for it), and the databases of the connection
  before are shown again after the load of another one. "Failed to load databases" may
  be of a load for the connection before. If another connection is selected while a
  database loads, the database of that name in the new tree is filled with views only
  and cannot be clicked any more. `getAccelerationsFromCache` is called without the id
  of the cluster (`s3_tree.tsx:336`), so the views may be those of a connection of the
  same name elsewhere.
- `AccelerationForm`. The callback of DESC restores the form of the time its table was
  picked: edits since are lost, selectors show another table than the statement has,
  and two DESC in flight for different tables restart each other for ever
  (`FormSettles`). Another source leaves the database and table of the one before, and
  the fields of the former table stay while DESC is outstanding or has failed. An
  edited column of a view is not in the statement before the next addition or
  deletion. A builder that is mounted again shows its defaults and not the form. NaN
  passes the validators. `executeAsyncQuery` gets the error callback in the place of
  the capabilities (`source_selector.tsx:106`), so a query that is lost leaves its
  spinner.
- `ResultsTable`. A comment of `onQueryChange` (`main.tsx:459`) says "Reset pagination
  state.", and the page index is kept.

## Not modelled

- The table view and the acceleration dialog that goes with it: no component mounts
  them at this commit, only their tests do.
- The errors under the fields of the acceleration form (`formErrors`), aliases and
  functions of view columns, and the wording of the statement.
- Of the results: trees below their first level, where arrays of objects share the
  tree of their first element, and sorting, which nothing calls.
- Of the index tree: what it displays when a query finds nothing. Of the data source
  switch: the list of connections of `DataSelect`, which `MainAsync` takes as a
  selection that may happen at any time, and `SyncRun` as one outside full screen. (A
  list that comes in full screen with the data source of the URL clears the page, and
  the exit goes with the table.)
- Of the asynchronous runs in `SyncRun`: those of several statements, which share the
  page in `MainAsync`; there are no downloads nor full screen there.
- Of the S3 tree: the guards on a catalog cache manager that is null, that is, an
  observability plugin that provides none. Of the acceleration form: that fields are
  selected in the dialog before they are added; `AddField` does both, which relies on
  the table of EUI dropping selected items that are no longer listed.
- The text of queries, results, toasts and messages; HTTP formats.
- The observability plugin: external; its registration has no state here.
- Presentation: header, language switch, editor, tabs.

## Plan

Done, in this order: the asynchronous client with its contract, the page that uses
it, capabilities, the server, the data source switch, the synchronous page, routing,
the S3 tree, the acceleration form, the table of results; the proofs of all of them;
and the contract of the switch. Next:

1. A contract for the cluster info service (a lookup is shared, and forgotten when it
   fails) and one for the downloads, with the refinements.
2. The connection list of `DataSelect` in `DataSourceSwitch`, with the data source of
   the URL, and the composition of the S3 tree with it.
3. Asynchronous runs of several statements in `SyncRun`, with the closures of
   `AsyncQuery` in place of callbacks at any time.

----------------------------- MODULE MainAsync ------------------------------
(***************************************************************************)
(* Main (public/components/Main/main.tsx) running queries on Flint data    *)
(* sources: onRunAsync starts one executeAsyncQuery closure per query of   *)
(* the editor, and its callbacks write the one loading flag, status,       *)
(* result table and cancel handler of the page.  Every step of a closure   *)
(* that calls back is one step with the state update it causes.            *)
(*                                                                         *)
(* onRun, the synchronous path of the OpenSearch data source, is here for  *)
(* what it does to the same page state when its answer arrives.            *)
(***************************************************************************)
EXTENDS AsyncQuery

CONSTANTS OpenSearch,  \* label of the default data source
          Sync,        \* stands for the result of a synchronous run
          MaxSync      \* bound on the synchronous runs in flight

ASSUME LabelAssumption == OpenSearch \notin DataSources
ASSUME SyncAssumption == Sync \notin Queries \cup {None} /\ MaxSync \in Nat

VARIABLES
  asyncLoading, asyncLoadingStatus,
  queryResultsTable,            \* the query whose result is shown, None if empty
  selectedTabName,              \* the query the result tab is named after
  cancelQueryHandler,           \* the query the Cancel button cancels
  selectedDatasource,
  selectedMDSDataConnectionId,  \* the cluster of the selected data source
  head,                         \* head[q]: queries[0] of the run q belongs to
  syncRuns                      \* synchronous runs in flight

loadingVars == <<asyncLoading, asyncLoadingStatus>>
resultVars == <<queryResultsTable, selectedTabName>>
choiceVars == <<selectedDatasource, selectedMDSDataConnectionId>>
runVars == <<cancelQueryHandler, head>>
mainVars == <<vars, loadingVars, resultVars, choiceVars, runVars, syncRuns>>

PageTypeOK ==
  /\ asyncLoading \in BOOLEAN
  /\ asyncLoadingStatus \in Statuses \cup {"scheduled"}
  /\ queryResultsTable \in Queries \cup {Sync, None}
  /\ selectedTabName \in Queries \cup {Sync, None}
  /\ cancelQueryHandler \in Queries \cup {None}
  /\ selectedDatasource \in DataSources \cup {OpenSearch}
  /\ selectedMDSDataConnectionId \in Clusters
  /\ head \in [Queries -> Queries \cup {None}]
  /\ syncRuns \in 0..MaxSync

MainTypeOK == TypeOK /\ PageTypeOK

MainInit ==
  /\ Init
  /\ asyncLoading = FALSE
  /\ asyncLoadingStatus = "success"
  /\ queryResultsTable = None
  /\ selectedTabName = None
  /\ cancelQueryHandler = None
  /\ selectedDatasource = OpenSearch
  /\ selectedMDSDataConnectionId \in Clusters
  /\ head = [q \in Queries |-> None]
  /\ syncRuns = 0

-----------------------------------------------------------------------------
(* What several handlers do to the page *)

SetLoading(loading, status) ==
  /\ asyncLoading' = loading
  /\ asyncLoadingStatus' = status

ShowNothing ==
  /\ queryResultsTable' = None
  /\ selectedTabName' = None

-----------------------------------------------------------------------------
(* The user *)

\* onRunAsync: the same handler starts a closure for each query; the cancel
\* handler left in the state is that of the last one.
RunAsync(qs, first, last) ==
  /\ ~asyncLoading
  /\ selectedDatasource # OpenSearch
  /\ Cardinality(qs) > 1 => first # last
  /\ Start(qs, selectedDatasource, selectedMDSDataConnectionId)
  /\ SetLoading(TRUE, "scheduled")
  /\ ShowNothing
  /\ cancelQueryHandler' = last
  /\ head' = [q \in Queries |-> IF q \in qs THEN first ELSE head[q]]
  /\ UNCHANGED <<choiceVars, syncRuns>>

\* QueryResults and AsyncQueryBody: no Cancel button in these statuses.
CancelVisible == asyncLoadingStatus \notin Ended \cup {"scheduled"}

\* cancelQueryRequester: the page says "cancelled" whether or not cancelQuery
\* finds something to cancel.  The button is there only after a run.
Cancel ==
  /\ CancelVisible
  /\ cancelQueryHandler # None
  /\ SetLoading(FALSE, "cancelled")
  /\ IF CanCancel(cancelQueryHandler)
     THEN CancelQuery(cancelQueryHandler)
     ELSE UNCHANGED vars
  /\ UNCHANGED <<resultVars, runVars, choiceVars, syncRuns>>

\* onClear, also while loading: its onClick is on the item around the button.
Clear ==
  /\ SetLoading(FALSE, "success")
  /\ ShowNothing
  /\ UNCHANGED <<vars, runVars, choiceVars, syncRuns>>

\* handleDataSelect clears the page first.  The list of connections is disabled
\* while loading, but one that is fetched late selects the data source of the
\* URL at any time.
SelectDatasource(d) ==
  /\ SetLoading(FALSE, "success")
  /\ ShowNothing
  /\ selectedDatasource' = d
  /\ UNCHANGED <<vars, runVars, selectedMDSDataConnectionId, syncRuns>>

\* onSelectedDataSource: the menu stays enabled while a query runs, and what
\* the page shows is kept.
SelectCluster(c) ==
  /\ selectedMDSDataConnectionId' = c
  /\ selectedDatasource' = OpenSearch
  /\ UNCHANGED <<vars, loadingVars, resultVars, runVars, syncRuns>>

\* onChange (language) and onChangeCluster empty the table; the latter may
\* also go back to the OpenSearch data source.
ChangeTab ==
  /\ ~asyncLoading
  /\ queryResultsTable' = None
  /\ selectedDatasource' \in {selectedDatasource, OpenSearch}
  /\ UNCHANGED <<vars, loadingVars, selectedTabName, runVars, selectedMDSDataConnectionId, syncRuns>>

\* onRun sets no loading flag when it posts.
RunSync ==
  /\ ~asyncLoading
  /\ selectedDatasource = OpenSearch
  /\ syncRuns < MaxSync
  /\ syncRuns' = syncRuns + 1
  /\ UNCHANGED <<vars, loadingVars, resultVars, runVars, choiceVars>>

-----------------------------------------------------------------------------
(* Answers *)

SyncAnswered ==
  /\ syncRuns > 0
  /\ syncRuns' = syncRuns - 1
  /\ SetLoading(FALSE, "success")
  /\ queryResultsTable' = Sync
  /\ selectedTabName' = Sync
  /\ UNCHANGED <<vars, runVars, choiceVars>>

\* Slip: only the status is set.
RunRefused_StillLoading(q) ==
  /\ PostInvalid(q) \/ PostFails(q)
  /\ SetLoading(asyncLoading, "failed")
  /\ UNCHANGED <<resultVars, runVars, choiceVars, syncRuns>>

\* onErrorCallback, after a POST that failed or brought no query id.
RunRefused(q) ==
  /\ PostInvalid(q) \/ PostFails(q)
  /\ SetLoading(FALSE, "failed")
  /\ UNCHANGED <<resultVars, runVars, choiceVars, syncRuns>>

\* The callback's success case: the table stays empty for a result without a
\* schema, and the tab is named after the first query of the run.
RunSucceeds(q) ==
  /\ PollSuccess(q)
  /\ SetLoading(FALSE, "success")
  /\ queryResultsTable' \in {q, None}
  /\ selectedTabName' = head[q]
  /\ UNCHANGED <<runVars, choiceVars, syncRuns>>

\* Slip: the result table is filled whatever the outcome.
RunEnds_Shows(q) ==
  /\ PollEnded(q)
  /\ SetLoading(FALSE, poll[q])
  /\ queryResultsTable' = q
  /\ UNCHANGED <<selectedTabName, runVars, choiceVars, syncRuns>>

RunEnds(q) ==
  /\ PollEnded(q)
  /\ SetLoading(FALSE, poll[q])
  /\ UNCHANGED <<resultVars, runVars, choiceVars, syncRuns>>

\* Slip: a poll that fails does not end the loading.
RunFails_StillLoading(q) ==
  /\ PollFails(q)
  /\ SetLoading(asyncLoading, "failed")
  /\ UNCHANGED <<resultVars, runVars, choiceVars, syncRuns>>

RunFails(q) ==
  /\ PollFails(q)
  /\ SetLoading(FALSE, "failed")
  /\ UNCHANGED <<resultVars, runVars, choiceVars, syncRuns>>

\* The callback's last case.  After a status that is not recognized,
\* onErrorCallback runs first and is overwritten.
RunReports(q) ==
  /\ PollLive(q) \/ PollUnrecognized(q)
  /\ SetLoading(TRUE, poll[q])
  /\ UNCHANGED <<resultVars, runVars, choiceVars, syncRuns>>

\* Steps of the closures and of the server that do not call back.
Silent(q) ==
  /\ \/ ServesPost(q) \/ PostAnswered(q)
     \/ AnswerPoll(q) \/ TimerFires(q)
     \/ DeleteSettles(q)
     \/ JobMoves(q) \/ JobEnds(q)
  /\ UNCHANGED <<loadingVars, resultVars, runVars, choiceVars, syncRuns>>

-----------------------------------------------------------------------------
(* Specification *)

CallsBack(q) ==
  RunRefused(q) \/ RunSucceeds(q) \/ RunEnds(q) \/ RunFails(q) \/ RunReports(q)

User ==
  \/ \E qs \in SUBSET Queries : \E first, last \in qs : RunAsync(qs, first, last)
  \/ Cancel \/ Clear \/ RunSync \/ ChangeTab
  \/ \E d \in DataSources : SelectDatasource(d)
  \/ \E c \in Clusters : SelectCluster(c)

MainNext ==
  \/ User
  \/ SyncAnswered
  \/ \E q \in Queries : CallsBack(q) \/ Silent(q)

\* The fairness of AsyncQuery; the user may stop at any time.
QuietPage == UNCHANGED <<loadingVars, resultVars, runVars, choiceVars, syncRuns>>
MainFairness ==
  \A q \in Queries :
    /\ WF_mainVars(\/ (ServesPost(q) \/ PostAnswered(q)) /\ QuietPage
                   \/ RunRefused(q))
    /\ WF_mainVars(\/ (AnswerPoll(q) \/ TimerFires(q)) /\ QuietPage
                   \/ RunSucceeds(q) \/ RunEnds(q) \/ RunFails(q) \/ RunReports(q))
    /\ WF_mainVars(JobEnds(q) /\ QuietPage)

MainSafeSpec == MainInit /\ [][MainNext]_mainVars
MainSpec == MainSafeSpec /\ MainFairness

-----------------------------------------------------------------------------
(* Properties *)

\* The closure of q has a request, an answer or a timer outstanding.
Outstanding(q) == post[q] \in {"sent", "accepted", "invalid"} \/ poll[q] # "none"

\* What can leave the page loading with nothing to wait for: an answer that
\* came after the user cancelled, or a status that is not recognized.
Unheard(q) == cancelled[q] \/ reported[q] = Unrecognized

\* The page says "Running" only while a closure is going to call back, but for
\* the two cases of Unheard; whatever the runs, clears and switches between.
LoadingExplained ==
  asyncLoading => \E q \in Queries : Outstanding(q) \/ Unheard(q)

\* The result shown is that of a query the server ran successfully, although
\* answers of several runs arrive in any order.
ShownSucceeded ==
  queryResultsTable \in Queries =>
    /\ reported[queryResultsTable] = "success"
    /\ job[queryResultsTable] = "success"

\* Whenever the page offers Cancel there is a job that can be cancelled, the
\* one whose status is displayed (the handler may belong to another one).
CancelOffered ==
  CancelVisible => \E q \in Queries : reported[q] = asyncLoadingStatus /\ CanCancel(q)

\* A page that is loading stops loading, unless a query is left unheard.
LoadingEnds ==
  asyncLoading ~> (~asyncLoading \/ \E q \in Queries : Unheard(q))

\* After the cancelled queries have fallen silent the page is not loading.  This
\* does not hold, and no run checks it: a poll answered late starts the loading
\* again, which LoadingExplained and LoadingEnds except.
CancelEndsLoading ==
  (/\ \E q \in Queries : cancelled[q]
   /\ \A q \in Queries : ~Outstanding(q) /\ reported[q] # Unrecognized) => ~asyncLoading
=============================================================================

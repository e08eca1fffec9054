--------------------------- MODULE SyncRunProofs ----------------------------
(***************************************************************************)
(* Proofs about SyncRun.  A request that is shown is settled, so neither a *)
(* later request nor a later answer changes what the page refers to.       *)
(***************************************************************************)
EXTENDS SyncRun, SequenceTheorems, TLAPS

\* The tables shown are those of a settled run that could be read.
TableSettled ==
  queryResultsTable # 0 => AllAnswered(queryResultsTable) /\ ~Unreadable(queryResultsTable)

\* queryResults holds a settled run, shown or not.
BodiesOfRun ==
  bodies["jdbc"] # 0 =>
    /\ requests[bodies["jdbc"]].kind \in {"run", "async"}
    /\ AllAnswered(bodies["jdbc"])

\* A number under which a run was posted.
IsRun(r) == r \in Ids /\ requests[r].kind \in {"run", "async"}

\* The JDBC downloads under way have a run to read, which is JdbcFailsOnlyOnAsync
\* without what Writes makes of it.
JdbcOfRun == \A t \in timers : t.format = "jdbc" => IsRun(Data(t).req)

\* The timers of the mounted body were set under a table that is still selected.
TimersMounted == \A t \in timers : t.live => BodyMounted /\ Wrapped

PageInv ==
  /\ SelectedTabHasTable
  /\ TableMatchesBodies
  /\ TableSettled
  /\ BodiesOfRun

\* The strengthening of the invariants that is inductive.
IInv ==
  /\ TypeOK
  /\ PageInv
  /\ FullScreenHasExit
  /\ TimersMounted
  /\ JdbcOfRun
  /\ JdbcNeverFetched

-----------------------------------------------------------------------------
(* Requests *)

\* What a step may do to the requests: add some, and answer those that wait.
RequestsGrow ==
  /\ Len(requests) <= Len(requests')
  /\ \A r \in Ids :
       /\ requests'[r].kind = requests[r].kind
       /\ requests'[r].queries = requests[r].queries
       /\ AllAnswered(r) => requests'[r] = requests[r]

LEMMA PostGrows ==
  ASSUME TypeOK, NEW kind \in Kinds, NEW qs \in Batches, Post(kind, qs)
  PROVE  /\ RequestsOK' /\ RequestsGrow
         /\ Len(requests') = Len(requests) + 1
         /\ requests'[Len(requests')].kind = kind
<1> DEFINE new == [kind |-> kind, queries |-> qs, cluster |-> selectedMDSDataConnectionId,
                   answers |-> [i \in DOMAIN qs |-> Pending]]
           Req == [kind : Kinds, queries : Batches, cluster : Clusters,
                   answers : Seq(Outcomes \cup {Pending})]
<1>1. requests' = Append(requests, new)
  BY DEF Post
<1>2. DOMAIN qs = 1..Len(qs) /\ Len(qs) \in Nat
  BY BatchAssumption
<1>3. new.answers \in Seq(Outcomes \cup {Pending})
  BY <1>2
<1>4. new \in Req
  BY <1>3 DEF TypeOK, PageOK
<1>5. requests \in Seq(Req) /\ Len(requests) \in Nat /\ MaxRequests \in Nat
  BY BoundAssumption DEF TypeOK, RequestsOK
<1> HIDE DEF new, Req
<1>6. /\ requests' \in Seq(Req)
      /\ Len(requests') = Len(requests) + 1
      /\ requests'[Len(requests')] = new
      /\ \A r \in Ids : requests'[r] = requests[r]
  BY <1>1, <1>4, <1>5 DEF Ids
<1>7. Len(requests') <= MaxRequests
  BY <1>5, <1>6 DEF Post
<1>8. ASSUME NEW r \in Ids' PROVE DOMAIN requests'[r].answers = DOMAIN requests'[r].queries
  <2>1. CASE r \in Ids
    BY <1>6, <2>1 DEF TypeOK, RequestsOK, Statements
  <2>2. CASE r = Len(requests')
    BY <1>6, <2>2 DEF new
  <2>3. QED
    BY <1>5, <1>6, <2>1, <2>2 DEF Ids
<1>9. RequestsOK'
  BY <1>6, <1>7, <1>8 DEF RequestsOK, Req, Statements
<1>10. QED
  BY <1>5, <1>6, <1>9 DEF RequestsGrow, new

\* Giving answers to a request that waits, one or all.
LEMMA AnswersGrow ==
  ASSUME TypeOK, NEW r \in Ids, ~AllAnswered(r),
         NEW answers \in Seq(Outcomes \cup {Pending}), DOMAIN answers = Statements(r),
         requests' = [requests EXCEPT ![r].answers = answers]
  PROVE  RequestsOK' /\ RequestsGrow /\ Len(requests') = Len(requests)
<1> DEFINE Req == [kind : Kinds, queries : Batches, cluster : Clusters,
                   answers : Seq(Outcomes \cup {Pending})]
           new == [requests[r] EXCEPT !.answers = answers]
<1>1. requests \in Seq(Req) /\ requests[r] \in Req
  <2>1. requests \in Seq(Req)
    BY DEF TypeOK, RequestsOK
  <2>2. QED
    BY <2>1, ElementOfSeq DEF Ids
<1>2. new \in Req
  BY <1>1
<1>3. requests' = [requests EXCEPT ![r] = new]
  OBVIOUS
<1>4. /\ new.kind = requests[r].kind
      /\ new.queries = requests[r].queries
      /\ DOMAIN new.answers = Statements(r)
  BY <1>1
<1> HIDE DEF new, Req
<1>5. /\ requests' \in Seq(Req)
      /\ Len(requests') = Len(requests)
      /\ requests'[r] = new
      /\ \A s \in Ids : s # r => requests'[s] = requests[s]
  BY <1>1, <1>2, <1>3 DEF Ids
<1>6. RequestsOK'
  <2>1. \A s \in Ids' : DOMAIN requests'[s].answers = DOMAIN requests'[s].queries
    BY <1>4, <1>5 DEF TypeOK, RequestsOK, Ids, Statements
  <2>2. Len(requests') <= MaxRequests
    BY <1>5 DEF TypeOK, RequestsOK
  <2>3. QED
    BY <1>5, <2>1, <2>2 DEF RequestsOK, Statements, Req
<1>7. Len(requests) <= Len(requests')
  BY <1>1, <1>5
<1>8. QED
  BY <1>4, <1>5, <1>6, <1>7 DEF RequestsGrow

LEMMA AnswerGrows ==
  ASSUME TypeOK, NEW r \in Ids, NEW i \in Statements(r), NEW o \in Outcomes, Answer(r, i, o)
  PROVE  RequestsOK' /\ RequestsGrow /\ Len(requests') = Len(requests)
<1> DEFINE answers == [requests[r].answers EXCEPT ![i] = o]
<1>1. /\ requests[r].answers \in Seq(Outcomes \cup {Pending})
      /\ DOMAIN requests[r].answers = Statements(r)
  <2>1. requests[r] \in [kind : Kinds, queries : Batches, cluster : Clusters,
                         answers : Seq(Outcomes \cup {Pending})]
    BY ElementOfSeq DEF TypeOK, RequestsOK, Ids
  <2>2. QED
    BY <2>1 DEF TypeOK, RequestsOK
<1>2. answers \in Seq(Outcomes \cup {Pending}) /\ DOMAIN answers = Statements(r)
  BY <1>1, ExceptSeq
<1>3. ~AllAnswered(r)
  BY DEF Answer, AllAnswered
<1>4. requests' = [requests EXCEPT ![r].answers = answers]
  BY DEF Answer
<1> HIDE DEF answers
<1>5. QED
  BY <1>2, <1>3, <1>4, AnswersGrow

LEMMA EndsGrows ==
  ASSUME TypeOK, NEW r \in Ids, NEW o \in Outcomes, Ends(r, o)
  PROVE  RequestsOK' /\ RequestsGrow /\ Len(requests') = Len(requests)
<1> DEFINE answers == [i \in Statements(r) |-> o]
<1>1. requests[r].queries \in Batches
  <2>1. requests[r] \in [kind : Kinds, queries : Batches, cluster : Clusters,
                         answers : Seq(Outcomes \cup {Pending})]
    BY ElementOfSeq DEF TypeOK, RequestsOK, Ids
  <2>2. QED
    BY <2>1
<1>2. Statements(r) = 1..Len(requests[r].queries) /\ Len(requests[r].queries) \in Nat
  BY <1>1, BatchAssumption DEF Statements
<1>3. answers \in Seq(Outcomes \cup {Pending}) /\ DOMAIN answers = Statements(r)
  BY <1>2
<1>4. requests' = [requests EXCEPT ![r].answers = answers] /\ ~AllAnswered(r)
  BY DEF Ends, Calling
<1> HIDE DEF answers
<1>5. QED
  BY <1>3, <1>4, AnswersGrow

LEMMA UnchangedGrows ==
  ASSUME TypeOK, UNCHANGED requests
  PROVE  RequestsOK' /\ RequestsGrow /\ Len(requests') = Len(requests)
<1>1. Len(requests) \in Nat
  BY DEF TypeOK, RequestsOK
<1>2. RequestsOK'
  BY DEF TypeOK, RequestsOK, Ids, Statements
<1>3. QED
  BY <1>1, <1>2 DEF RequestsGrow

\* In whatever step, requests keep their type and only grow.
LEMMA RequestsStep == TypeOK /\ [Next]_vars => RequestsOK' /\ RequestsGrow
<1> SUFFICES ASSUME TypeOK, [Next]_vars PROVE RequestsOK' /\ RequestsGrow
  OBVIOUS
<1>1. ASSUME NEW kind \in {"run", "explain"}, NEW qs \in Batches, RunOrExplain(kind, qs)
      PROVE  RequestsOK' /\ RequestsGrow
  BY <1>1, PostGrows DEF RunOrExplain, Kinds
<1>2. ASSUME NEW f \in Offered, Download(f) PROVE RequestsOK' /\ RequestsGrow
  <2>1. f \in Kinds
    BY OfferedAssumption DEF Kinds
  <2>2. queries \in Batches
    BY <1>2 DEF TypeOK, PageOK, Download, MenuShown, BodyMounted
  <2>3. CASE Post(f, queries)
    BY <2>1, <2>2, <2>3, PostGrows
  <2>4. CASE UNCHANGED requests
    BY <2>4, UnchangedGrows
  <2>5. QED
    BY <1>2, <2>3, <2>4 DEF Download
<1>3. ASSUME NEW r \in Ids, Settles(r) PROVE RequestsOK' /\ RequestsGrow
  BY <1>3, AnswerGrows DEF Settles
<1>4. CASE UNCHANGED requests
  BY <1>4, UnchangedGrows
<1>5. ASSUME NEW qs \in Batches, RunAsync(qs) PROVE RequestsOK' /\ RequestsGrow
  BY <1>5, PostGrows DEF RunAsync, Kinds
<1>6. ASSUME NEW r \in Ids, CallsBack(r) PROVE RequestsOK' /\ RequestsGrow
  <2>1. ASSUME NEW o \in Outcomes, Ends(r, o) PROVE RequestsOK' /\ RequestsGrow
    BY <2>1, EndsGrows
  <2>2. QED
    BY <1>4, <1>6, <2>1 DEF CallsBack, AsyncReports, AsyncSucceeds, AsyncFails, Outcomes
<1>7. QED
  BY <1>1, <1>2, <1>3, <1>4, <1>5, <1>6
  DEF Next, User, Cancel, Clear, SelectDatasource, onClear, SwitchTo, ChangeCluster, SelectCluster,
      ToggleFullScreen, SelectTab, TimerFires, vars

-----------------------------------------------------------------------------
(* Types *)

LEMMA RequestTyped ==
  ASSUME RequestsOK, NEW r \in Ids
  PROVE  requests[r] \in [kind : Kinds, queries : Batches, cluster : Clusters,
                          answers : Seq(Outcomes \cup {Pending})]
  BY ElementOfSeq DEF RequestsOK, Ids

LEMMA IdsWithin ==
  ASSUME RequestsOK, RequestsOK', RequestsGrow
  PROVE  /\ Len(requests) \in Nat /\ Len(requests') \in Nat
         /\ 0..Len(requests) \subseteq 0..Len(requests')
<1>1. Len(requests) \in Nat /\ Len(requests') \in Nat
  BY DEF RequestsOK
<1>2. QED
  BY <1>1 DEF RequestsGrow

LEMMA AtHandTyped ==
  ASSUME TypeOK, NEW f \in Formats
  PROVE  AtHand(f) \in [req : 0..Len(requests), tab : Nat]
<1>1. bodies[f] \in 0..Len(requests) /\ selectedTabId \in Nat /\ Len(requests) \in Nat
  BY DEF TypeOK, PageOK, RequestsOK
<1>2. QED
  BY <1>1 DEF AtHand, Result, Nothing

\* What a step may do to the timers: take some away, or detach them.
TimersShrink == timers' \subseteq timers \/ KeepTimers

LEMMA TimersTyped ==
  ASSUME TypeOK, RequestsOK', RequestsGrow, TimersShrink,
         lastFile' \subseteq [format : Formats, asked : [req : 0..Len(requests'), tab : Nat],
                              data : [req : 0..Len(requests'), tab : Nat]]
  PROVE  TimersOK'
<1> DEFINE Timer == [format : Formats, asked : [req : 0..Len(requests), tab : Nat],
                     live : BOOLEAN, data : [req : 0..Len(requests), tab : Nat]]
           TimerNext == [format : Formats, asked : [req : 0..Len(requests'), tab : Nat],
                         live : BOOLEAN, data : [req : 0..Len(requests'), tab : Nat]]
<1>1. timers \subseteq Timer
  BY DEF TypeOK, TimersOK
<1>2. timers' \subseteq Timer
  <2>1. CASE timers' \subseteq timers
    BY <1>1, <2>1
  <2>2. ASSUME NEW t \in timers
        PROVE  [t EXCEPT !.live = FALSE, !.data = AtHand(t.format)] \in Timer
    <3>1. t \in Timer
      BY <1>1
    <3>2. AtHand(t.format) \in [req : 0..Len(requests), tab : Nat]
      BY <3>1, AtHandTyped
    <3>3. QED
      BY <3>1, <3>2
  <2>3. ASSUME KeepTimers, timers' # timers, NEW u \in timers' PROVE u \in Timer
    <3> HIDE DEF Timer
    <3>1. PICK t \in timers :
            u = IF t.live THEN [t EXCEPT !.live = FALSE, !.data = AtHand(t.format)] ELSE t
      BY <2>3 DEF KeepTimers
    <3>2. QED
      BY <1>1, <2>2, <3>1
  <2>4. QED
    BY <2>1, <2>3 DEF TimersShrink
<1>3. 0..Len(requests) \subseteq 0..Len(requests')
  BY IdsWithin DEF TypeOK
<1>4. Timer \subseteq TimerNext
  BY <1>3
<1>5. QED
  BY <1>2, <1>4 DEF TimersOK

LEMMA PageTyped ==
  ASSUME TypeOK, [Next]_vars, RequestsOK', RequestsGrow
  PROVE  PageOK'
<1>1. 0..Len(requests) \subseteq 0..Len(requests') /\ Len(requests) \in Nat
  BY IdsWithin DEF TypeOK
<1>2. 0 \in 0..Len(requests') /\ Ids \subseteq 0..Len(requests')
  BY <1>1 DEF Ids
<1> USE DEF TypeOK, PageOK, tableVars, sourceVars
<1>3. CASE UNCHANGED <<resultVars, choiceVars>>
  BY <1>1, <1>3 DEF resultVars, choiceVars
<1>4. ASSUME EmptyPage, queries' \in Batches \cup {<<>>}, asyncLoadingStatus' \in Statuses,
             selectedDatasource' \in Connections \cup {OpenSearch},
             UNCHANGED <<language, selectedMDSDataConnectionId, isResultFullScreen>>
      PROVE  PageOK'
  BY <1>2, <1>4 DEF EmptyPage, Output
<1>5. ASSUME NEW qs \in Batches, RunAsync(qs) PROVE PageOK'
  BY <1>4, <1>5 DEF RunAsync, choiceVars, Statuses
<1>6. ASSUME Clear \/ \E d \in Connections : SelectDatasource(d) PROVE PageOK'
  BY <1>4, <1>6 DEF Clear, SelectDatasource, onClear, Statuses
<1>7. ASSUME queryResultsTable' \in {0, queryResultsTable}, language' \in Languages,
             selectedDatasource' \in Connections \cup {OpenSearch}, asyncLoadingStatus' \in Statuses,
             UNCHANGED <<selectedMDSDataConnectionId, isResultFullScreen, queries, queryTranslations,
                         bodies, selectedTabId>>
      PROVE  PageOK'
  BY <1>1, <1>2, <1>7
<1>8. ASSUME ChangeCluster \/ \E l \in Languages : SwitchTo(l) PROVE PageOK'
  BY <1>7, <1>8 DEF SwitchTo, ChangeCluster
<1>9. ASSUME NEW r \in Ids, \E status \in Statuses : AsyncReports(r, status) \/ AsyncFails(r, status)
      PROVE  PageOK'
  BY <1>7, <1>9 DEF AsyncReports, AsyncFails, Ends, choiceVars
<1>10. ASSUME NEW c \in Clusters, SelectCluster(c) PROVE PageOK'
  BY <1>1, <1>10 DEF SelectCluster, resultVars
<1>11. CASE ToggleFullScreen
  BY <1>1, <1>11 DEF ToggleFullScreen, resultVars
<1>12. ASSUME NEW i \in {Output} \cup Statements(queryResultsTable), BodyMounted, SelectTab(i) PROVE PageOK'
  <2>1. i \in Nat
    <3>1. queryResultsTable \in Ids
      BY <1>12 DEF Ids, BodyMounted
    <3>2. requests[queryResultsTable].queries \in Batches
      BY <3>1, RequestTyped
    <3>3. QED
      BY <3>2, BatchAssumption DEF Statements, Output
  <2>2. QED
    BY <1>1, <1>12, <2>1 DEF SelectTab, choiceVars
<1>13. ASSUME NEW r \in Ids, NEW table \in {0, r}, NEW tab \in Nat, ShowRun(r, table, tab),
              UNCHANGED choiceVars
       PROVE  PageOK'
  <2>1. requests[r].queries \in Batches /\ requests[r].queries # <<>>
    BY BatchAssumption, RequestTyped
  <2>2. QED
    BY <1>1, <1>2, <1>13, <2>1 DEF ShowRun, choiceVars, Statuses
<1>14. ASSUME NEW r \in Ids, NEW i \in Statements(r), NEW o \in Outcomes, Answer(r, i, o)
       PROVE  PageOK'
  <2>1. requests[r].queries \in Batches /\ requests[r].queries # <<>> /\ requests[r].kind \in Kinds
    BY BatchAssumption, RequestTyped
  <2>2. CASE StillWaits(r) \/ RunLost(r)
    BY <1>3, <1>14, <2>2 DEF Answer, StillWaits, RunLost
  <2>3. CASE RunAnswered(r)
    <3>1. DefaultTabId(r)' \in Nat
      BY DEF DefaultTabId, Output
    <3>2. QED
      BY <1>13, <1>14, <2>3, <3>1 DEF Answer, RunAnswered
  <2>4. CASE ExplainAnswered(r)
    BY <1>1, <1>2, <1>14, <2>1, <2>4 DEF Answer, ExplainAnswered, choiceVars
  <2>5. CASE DownloadAnswered(r)
    BY <1>1, <1>2, <1>14, <2>1, <2>5 DEF Answer, DownloadAnswered, choiceVars
  <2>6. QED
    BY <1>14, <2>2, <2>3, <2>4, <2>5 DEF Answer
<1>15. ASSUME NEW r \in Ids, NEW o \in Outcomes, AsyncSucceeds(r, o) PROVE PageOK'
  BY <1>13, <1>15 DEF AsyncSucceeds, Ends
<1>16. ASSUME NEW r \in Ids, CallsBack(r) PROVE PageOK'
  BY <1>9, <1>15, <1>16 DEF CallsBack, Statuses, Outcomes
<1>17. CASE Cancel
  BY <1>7, <1>17 DEF Cancel, choiceVars, Statuses
<1>18. QED
  BY <1>3, <1>5, <1>6, <1>8, <1>10, <1>11, <1>12, <1>14, <1>16, <1>17
  DEF Next, User, Settles, RunOrExplain, Download, TimerFires, vars

LEMMA TypeStep == TypeOK /\ [Next]_vars => TypeOK'
<1> SUFFICES ASSUME TypeOK, [Next]_vars PROVE TypeOK'
  OBVIOUS
<1> DEFINE Results == [req : 0..Len(requests), tab : Nat]
           ResultsNext == [req : 0..Len(requests'), tab : Nat]
<1>1. RequestsOK' /\ RequestsGrow
  BY RequestsStep
<1>2. PageOK'
  BY <1>1, PageTyped
<1>3. Results \subseteq ResultsNext
  BY <1>1, IdsWithin DEF TypeOK
<1>4. lastFile \subseteq [format : Formats, asked : ResultsNext, data : ResultsNext]
  BY <1>3 DEF TypeOK, TimersOK
<1>5. ASSUME NEW f \in Offered, Download(f) PROVE TimersOK'
  <2> DEFINE new == [format |-> f, live |-> TRUE, data |-> Nothing,
                     asked |-> Result(queryResultsTable, selectedTabId)]
             TimerNext == [format : Formats, asked : ResultsNext, live : BOOLEAN, data : ResultsNext]
  <2>1. Result(queryResultsTable, selectedTabId) \in ResultsNext /\ Nothing \in ResultsNext
    <3>1. 0 \in 0..Len(requests') /\ queryResultsTable \in 0..Len(requests') /\ selectedTabId \in Nat
      BY <1>1, IdsWithin DEF TypeOK, PageOK
    <3>2. QED
      BY <3>1 DEF Result, Nothing
  <2>2. f \in Formats
    BY OfferedAssumption
  <2>3. timers \subseteq TimerNext
    BY <1>3 DEF TypeOK, TimersOK
  <2>4. new \in TimerNext
    BY <2>1, <2>2
  <2>5. timers' = timers \cup {new} /\ UNCHANGED lastFile
    BY <1>5 DEF Download
  <2>6. timers' \subseteq TimerNext
    <3> HIDE DEF new, TimerNext
    <3>1. QED
      BY <2>3, <2>4, <2>5
  <2>7. QED
    BY <1>4, <2>5, <2>6 DEF TimersOK
<1>6. ASSUME NEW t \in timers, TimerFires(t) PROVE TimersOK'
  <2>1. t.format \in Formats /\ t.asked \in Results /\ t.data \in Results
    BY DEF TypeOK, TimersOK
  <2>2. AtHand(t.format) \in Results
    BY <2>1, AtHandTyped
  <2>3. lastFile' \subseteq [format : Formats, asked : ResultsNext, data : ResultsNext]
    BY <1>3, <1>4, <1>6, <2>1, <2>2 DEF TimerFires, Data
  <2>4. TimersShrink
    BY <1>6 DEF TimerFires, TimersShrink
  <2>5. QED
    BY <1>1, <2>3, <2>4, TimersTyped
<1>7. ASSUME UNCHANGED lastFile, TimersShrink PROVE TimersOK'
  <2>1. lastFile' \subseteq [format : Formats, asked : ResultsNext, data : ResultsNext]
    BY <1>4, <1>7
  <2>2. QED
    BY <1>1, <1>7, <2>1, TimersTyped
<1>8. ASSUME NEW r \in Ids, NEW i \in Statements(r), NEW o \in Outcomes, Answer(r, i, o)
      PROVE  TimersOK'
  <2>1. TimersShrink
    BY <1>8 DEF Answer, StillWaits, RunLost, RunAnswered, ExplainAnswered, DownloadAnswered, TimersShrink
  <2>2. QED
    BY <1>7, <1>8, <2>1 DEF Answer
<1>9. ASSUME NEW r \in Ids, CallsBack(r) PROVE TimersOK'
  BY <1>7, <1>9 DEF CallsBack, AsyncReports, AsyncSucceeds, AsyncFails, Ends, TimersShrink
<1>10. TimersOK'
  BY <1>5, <1>6, <1>7, <1>8, <1>9
  DEF Next, User, Settles, RunOrExplain, RunAsync, Cancel, Clear, SelectDatasource, onClear, SwitchTo,
      ChangeCluster, SelectCluster, ToggleFullScreen, SelectTab, TimersShrink, vars
<1>11. QED
  BY <1>1, <1>2, <1>10 DEF TypeOK

LEMMA TypeInit == Init => TypeOK
<1> SUFFICES ASSUME Init PROVE TypeOK
  OBVIOUS
<1>1. RequestsOK
  BY BoundAssumption DEF Init, RequestsOK, Ids
<1>2. PageOK
  <2>1. Len(requests) = 0 /\ 0 \in 0..0
    BY DEF Init
  <2>2. QED
    BY <2>1 DEF Init, PageOK, Languages, Statuses, Output
<1>3. TimersOK
  BY DEF Init, TimersOK
<1>4. QED
  BY <1>1, <1>2, <1>3 DEF TypeOK

\* Every variable keeps its type; in particular what the page, a timer or a file
\* refers to is a request that was posted.
THEOREM TypeCorrect == SafeSpec => []TypeOK
  BY TypeInit, TypeStep, PTL DEF SafeSpec

-----------------------------------------------------------------------------
(* The tables, the bodies under them and the selected tab *)

LEMMA TableIsPosted ==
  ASSUME TypeOK
  PROVE  /\ queryResultsTable # 0 => queryResultsTable \in Ids
         /\ bodies["jdbc"] # 0 => bodies["jdbc"] \in Ids
  BY DEF TypeOK, PageOK, RequestsOK, Ids, Formats

\* A step that keeps the tables and their bodies keeps them of one settled run.
LEMMA TableKept ==
  ASSUME TypeOK, PageInv, RequestsGrow,
         UNCHANGED <<queryResultsTable, bodies["jdbc"]>>,
         \/ UNCHANGED selectedTabId
         \/ /\ queryResultsTable # 0
            /\ \/ selectedTabId' = Output
               \/ /\ selectedTabId' \in Statements(queryResultsTable)
                  /\ Fulfilled(queryResultsTable, selectedTabId')
  PROVE  PageInv'
<1>1. BodiesOfRun'
  BY TableIsPosted DEF PageInv, BodiesOfRun, RequestsGrow, AllAnswered, Statements
<1>2. CASE queryResultsTable # 0
  <2> DEFINE table == queryResultsTable
  <2>1. table \in Ids /\ requests'[table] = requests[table]
    BY <1>2, TableIsPosted DEF PageInv, TableSettled, RequestsGrow
  <2>2. SelectedTabHasTable'
    BY <1>2, <2>1 DEF PageInv, SelectedTabHasTable, Statements, Fulfilled
  <2>3. TableMatchesBodies'
    BY <1>2, <2>1 DEF PageInv, TableMatchesBodies
  <2>4. TableSettled'
    BY <1>2, <2>1 DEF PageInv, TableSettled, AllAnswered, Unreadable, Statements
  <2>5. QED
    BY <1>1, <2>2, <2>3, <2>4 DEF PageInv
<1>3. CASE queryResultsTable = 0
  BY <1>1, <1>3 DEF PageInv, SelectedTabHasTable, TableMatchesBodies, TableSettled
<1>4. QED
  BY <1>2, <1>3

\* A step without a table that keeps the bodies, or has none.
LEMMA NoTable ==
  ASSUME TypeOK, PageInv, RequestsGrow, queryResultsTable' = 0,
         bodies'["jdbc"] \in {0, bodies["jdbc"]}
  PROVE  PageInv'
<1>1. BodiesOfRun'
  BY TableIsPosted DEF PageInv, BodiesOfRun, RequestsGrow, AllAnswered, Statements
<1>2. QED
  BY <1>1 DEF PageInv, SelectedTabHasTable, TableMatchesBodies, TableSettled

\* Showing a run, all of it or none, is right whatever was shown before.
LEMMA RunShownPage ==
  ASSUME TypeOK, RequestsGrow, NEW r \in Ids, requests[r].kind \in {"run", "async"},
         AllAnswered(r)', NEW table \in {0, r}, table = r => ~Unreadable(r)',
         ShowRun(r, table, DefaultTabId(r)')
  PROVE  PageInv'
<1> USE DEF ShowRun
<1>1. /\ queryResultsTable' = table
      /\ bodies'["jdbc"] = r
      /\ requests'[r].kind \in {"run", "async"}
  BY DEF Formats, RequestsGrow
<1>2. SelectedTabHasTable'
  <2>1. Statements(r)' = Statements(r)
    BY DEF RequestsGrow, Statements
  <2>2. 1 \in Statements(r)
    <3>1. requests[r].queries \in Batches
      BY RequestTyped DEF TypeOK
    <3>2. QED
      BY <3>1, BatchAssumption DEF Statements
  <2>3. QED
    BY <1>1, <2>1, <2>2 DEF SelectedTabHasTable, DefaultTabId, Fulfilled, Statements
<1>3. TableMatchesBodies' /\ TableSettled' /\ BodiesOfRun'
  BY <1>1 DEF TableMatchesBodies, TableSettled, BodiesOfRun, AllAnswered, Unreadable, Statements
<1>4. QED
  BY <1>2, <1>3 DEF PageInv

\* An asynchronous run that ends has the same answer to all of its statements.
LEMMA EndsAnswers ==
  ASSUME TypeOK, NEW r \in Ids, NEW o \in Outcomes, Ends(r, o)
  PROVE  /\ requests'[r].answers = [i \in Statements(r) |-> o]
         /\ Statements(r)' = Statements(r)
         /\ 1 \in Statements(r)
         /\ AllAnswered(r)'
<1>1. requests[r] \in [kind : Kinds, queries : Batches, cluster : Clusters,
                       answers : Seq(Outcomes \cup {Pending})]
  BY RequestTyped DEF TypeOK
<1>2. requests \in Seq([kind : Kinds, queries : Batches, cluster : Clusters,
                        answers : Seq(Outcomes \cup {Pending})])
  BY DEF TypeOK, RequestsOK
<1>3. requests' = [requests EXCEPT ![r].answers = [i \in Statements(r) |-> o]]
  BY DEF Ends
<1>4. /\ requests'[r].answers = [i \in Statements(r) |-> o]
      /\ requests'[r].queries = requests[r].queries
  BY <1>1, <1>2, <1>3 DEF Ids
<1>5. Statements(r)' = Statements(r)
  BY <1>4 DEF Statements
<1>6. 1 \in Statements(r)
  BY <1>1, BatchAssumption DEF Statements
<1>7. AllAnswered(r)'
  BY <1>4, <1>5 DEF AllAnswered, Outcomes, Pending
<1>8. QED
  BY <1>4, <1>5, <1>6, <1>7

LEMMA AsyncShownPage ==
  ASSUME TypeOK, RequestsGrow, NEW r \in Ids, NEW o \in {"rows", "blank"}, AsyncSucceeds(r, o)
  PROVE  /\ PageInv'
         /\ o = "blank" => Unreadable(r)'
<1>1. Ends(r, o) /\ o \in Outcomes
  BY DEF AsyncSucceeds, Outcomes
<1>2. /\ requests'[r].answers = [i \in Statements(r) |-> o]
      /\ Statements(r)' = Statements(r)
      /\ 1 \in Statements(r)
      /\ AllAnswered(r)'
  BY <1>1, EndsAnswers
<1>3. DefaultTabId(r)' = 1
  BY <1>2 DEF DefaultTabId, Fulfilled
<1>4. o = "rows" => ~Unreadable(r)'
  BY <1>2 DEF Unreadable
<1>5. o = "blank" => Unreadable(r)'
  BY <1>2 DEF Unreadable
<1>6. PageInv'
  <2> DEFINE table == IF o = "rows" THEN r ELSE 0
  <2>1. table \in {0, r} /\ (table = r => ~Unreadable(r)')
    BY <1>4 DEF Ids
  <2>2. ShowRun(r, table, DefaultTabId(r)') /\ requests[r].kind = "async"
    BY <1>3 DEF AsyncSucceeds, Ends, Calling
  <2> HIDE DEF table
  <2>3. QED
    BY <1>2, <2>1, <2>2, RunShownPage
<1>7. QED
  BY <1>5, <1>6

LEMMA PageStep ==
  ASSUME TypeOK, PageInv, JdbcNeverFetched, [Next]_vars, RequestsGrow
  PROVE  PageInv'
<1> USE DEF tableVars
<1>1. CASE UNCHANGED resultVars
  BY <1>1, TableKept DEF resultVars
<1>2. ASSUME EmptyPage PROVE PageInv'
  BY <1>2, NoTable DEF EmptyPage, Formats
<1>3. ASSUME ChangeCluster \/ \E l \in Languages : SwitchTo(l) PROVE PageInv'
  BY <1>3, NoTable DEF ChangeCluster, SwitchTo
<1>4. ASSUME NEW i \in {Output} \cup Statements(queryResultsTable), BodyMounted, SelectTab(i) PROVE PageInv'
  BY <1>4, TableKept DEF SelectTab, BodyMounted
<1>5. ASSUME NEW r \in Ids, NEW i \in Statements(r), NEW o \in Outcomes, Answer(r, i, o) PROVE PageInv'
  <2>1. CASE RunAnswered(r)
    BY <2>1, RunShownPage DEF RunAnswered, RunReadable
  <2>2. CASE DownloadAnswered(r)
    <3>1. requests[r].kind # "jdbc" /\ bodies \in [Formats -> 0..Len(requests)]
      BY DEF JdbcNeverFetched, TypeOK, PageOK
    <3>2. bodies'["jdbc"] = bodies["jdbc"]
      BY <2>2, <3>1 DEF DownloadAnswered, Formats
    <3>3. QED
      BY <2>2, <3>2, TableKept DEF DownloadAnswered
  <2>3. CASE StillWaits(r) \/ RunLost(r) \/ ExplainAnswered(r)
    BY <2>3, TableKept DEF StillWaits, RunLost, ExplainAnswered, resultVars
  <2>4. QED
    BY <1>5, <2>1, <2>2, <2>3 DEF Answer
<1>6. ASSUME NEW r \in Ids, CallsBack(r) PROVE PageInv'
  <2>1. ASSUME NEW status \in Statuses, AsyncReports(r, status) \/ AsyncFails(r, status) PROVE PageInv'
    BY <2>1, TableKept DEF AsyncReports, AsyncFails
  <2>2. ASSUME NEW o \in {"rows", "blank"}, AsyncSucceeds(r, o) PROVE PageInv'
    BY <2>2, AsyncShownPage
  <2>3. QED
    BY <1>6, <2>1, <2>2 DEF CallsBack, Statuses
<1>7. CASE Cancel
  BY <1>7, TableKept DEF Cancel
<1>8. QED
  BY <1>1, <1>2, <1>3, <1>4, <1>5, <1>6, <1>7
  DEF Next, User, Settles, RunOrExplain, RunAsync, Clear, SelectDatasource, onClear, SelectCluster,
      ToggleFullScreen, Download, TimerFires, vars

-----------------------------------------------------------------------------
(* The timers *)

\* A table under SQL whose tab is selected has its rows at hand as JDBC.
LEMMA RowsAtHand == TypeOK /\ PageInv /\ BodyMounted /\ Wrapped => IsRun(AtHand("jdbc").req)
<1> SUFFICES ASSUME TypeOK, PageInv, BodyMounted, Wrapped
             PROVE  IsRun(AtHand("jdbc").req)
  OBVIOUS
<1> DEFINE table == queryResultsTable
<1>1. table # 0
  BY DEF BodyMounted
<1>2. IsRun(table) /\ bodies["jdbc"] = table
  BY <1>1, TableIsPosted DEF PageInv, TableMatchesBodies, IsRun
<1>3. /\ selectedTabId \in Statements(table)
      /\ requests[table].answers[selectedTabId] = "rows"
  BY <1>1 DEF PageInv, SelectedTabHasTable, TableSettled, Unreadable, Fulfilled, Wrapped
<1>4. AtHand("jdbc") = Result(table, selectedTabId)
  BY <1>1, <1>2, <1>3 DEF AtHand
<1>5. QED
  BY <1>2, <1>4 DEF Result

LEMMA MenuIsWrapped ==
  ASSUME TypeOK, MenuShown
  PROVE  BodyMounted /\ Wrapped
<1>1. selectedTabId # Output
  <2>1. requests[queryResultsTable].queries \in Batches
    BY TableIsPosted, RequestTyped DEF MenuShown, BodyMounted, TypeOK
  <2>2. QED
    BY <2>1, BatchAssumption DEF MenuShown, Statements, Output
<1>2. QED
  BY <1>1 DEF MenuShown, Wrapped

\* getJdbc is not called, whatever is downloaded.
LEMMA JdbcStep ==
  ASSUME TypeOK, PageInv, JdbcNeverFetched, [Next]_vars, RequestsGrow
  PROVE  JdbcNeverFetched'
<1> USE DEF JdbcNeverFetched, RequestsGrow
<1>1. ASSUME Len(requests') = Len(requests) PROVE JdbcNeverFetched'
  BY <1>1 DEF Ids
<1>2. ASSUME NEW kind \in Kinds \ {"jdbc"}, NEW qs \in Batches, Post(kind, qs) PROVE JdbcNeverFetched'
  <2>1. Len(requests) \in Nat
    BY DEF TypeOK, RequestsOK
  <2>2. Len(requests') = Len(requests) + 1 /\ requests'[Len(requests')].kind = kind
    BY <1>2, PostGrows
  <2>3. QED
    BY <2>1, <2>2 DEF Ids
<1>3. ASSUME NEW f \in Offered, Download(f) PROVE JdbcNeverFetched'
  <2>1. CASE AtHand(f) = Nothing
    <3>1. f # "jdbc"
      <4>1. Nothing.req \notin Ids
        BY DEF Nothing, Result, Ids
      <4>2. QED
        BY <1>3, <2>1, <4>1, MenuIsWrapped, RowsAtHand DEF Download, IsRun
    <3>2. queries \in Batches
      BY <1>3 DEF TypeOK, PageOK, Download, MenuShown, BodyMounted
    <3>3. f \in Kinds \ {"jdbc"} /\ Post(f, queries)
      BY <1>3, <2>1, <3>1, OfferedAssumption DEF Download, Kinds
    <3>4. QED
      BY <1>2, <3>2, <3>3
  <2>2. CASE AtHand(f) # Nothing
    BY <1>1, <1>3, <2>2 DEF Download
  <2>3. QED
    BY <2>1, <2>2
<1>4. ASSUME NEW kind \in {"run", "explain"}, NEW qs \in Batches, RunOrExplain(kind, qs)
      PROVE  JdbcNeverFetched'
  BY <1>2, <1>4 DEF RunOrExplain, Kinds
<1>5. ASSUME NEW r \in Ids, Settles(r) PROVE JdbcNeverFetched'
  BY <1>1, <1>5, AnswerGrows DEF Settles
<1>6. ASSUME NEW qs \in Batches, RunAsync(qs) PROVE JdbcNeverFetched'
  BY <1>2, <1>6 DEF RunAsync, Kinds
<1>7. ASSUME NEW r \in Ids, CallsBack(r) PROVE JdbcNeverFetched'
  <2>1. ASSUME NEW o \in Outcomes, Ends(r, o) PROVE JdbcNeverFetched'
    BY <1>1, <2>1, EndsGrows
  <2>2. QED
    BY <1>1, <1>7, <2>1 DEF CallsBack, AsyncReports, AsyncSucceeds, AsyncFails, Outcomes
<1>8. QED
  BY <1>1, <1>3, <1>4, <1>5, <1>6, <1>7
  DEF Next, User, Cancel, Clear, SelectDatasource, onClear, SwitchTo, ChangeCluster, SelectCluster,
      ToggleFullScreen, SelectTab, TimerFires, vars

\* Timers stay as they are while the mounted body stays, and else are detached.
BodyStays ==
  /\ BodyMounted' = BodyMounted
  /\ Wrapped' = Wrapped

\* A timer after a step is one from before, one detached from its body, or one
\* that was just set.
LEMMA TimersFrom ==
  ASSUME [Next]_vars, NEW u \in timers', TypeOK
  PROVE  \/ u \in timers /\ (BodyStays \/ KeepTimers)
         \/ /\ ~u.live
            /\ \E t \in timers : t.live /\ u.format = t.format /\ u.data = AtHand(t.format)
         \/ MenuShown /\ BodyStays /\ u.live
<1>1. CASE UNCHANGED <<resultVars, choiceVars>> /\ timers' \subseteq timers
  BY <1>1 DEF BodyStays, BodyMounted, Wrapped, resultVars, tableVars, choiceVars
<1>2. CASE KeepTimers
  <2>1. CASE u \in timers
    BY <1>2, <2>1
  <2>2. CASE u \notin timers
    <3>1. PICK t \in timers :
            u = IF t.live THEN [t EXCEPT !.live = FALSE, !.data = AtHand(t.format)] ELSE t
      BY <1>2, <2>2 DEF KeepTimers
    <3>2. t \in [format : Formats, asked : [req : 0..Len(requests), tab : Nat],
                 live : BOOLEAN, data : [req : 0..Len(requests), tab : Nat]]
      BY DEF TypeOK, TimersOK
    <3>3. t.live
      BY <2>2, <3>1
    <3>4. ~u.live /\ u.format = t.format /\ u.data = AtHand(t.format)
      BY <3>1, <3>2, <3>3
    <3>5. QED
      BY <3>3, <3>4
  <2>3. QED
    BY <2>1, <2>2
<1>3. ASSUME NEW f \in Offered, Download(f) PROVE (u \in timers \/ u.live) /\ MenuShown /\ BodyStays
  BY <1>3 DEF Download, BodyStays, BodyMounted, Wrapped, resultVars, tableVars, choiceVars
<1>4. ASSUME NEW r \in Ids, NEW i \in Statements(r), NEW o \in Outcomes, Answer(r, i, o)
      PROVE  KeepTimers \/ (BodyStays /\ timers' \subseteq timers)
  <2>1. CASE RunAnswered(r)
    BY <2>1 DEF RunAnswered
  <2>2. CASE StillWaits(r) \/ RunLost(r) \/ ExplainAnswered(r) \/ DownloadAnswered(r)
    BY <1>4, <2>2
    DEF Answer, StillWaits, RunLost, ExplainAnswered, DownloadAnswered, BodyStays, BodyMounted, Wrapped,
        resultVars, tableVars, choiceVars
  <2>3. QED
    BY <1>4, <2>1, <2>2 DEF Answer
<1>5. ASSUME NEW c \in Clusters, SelectCluster(c) PROVE BodyStays /\ timers' \subseteq timers
  BY <1>5 DEF SelectCluster, BodyStays, BodyMounted, Wrapped, resultVars, tableVars
<1>6. ASSUME NEW r \in Ids, CallsBack(r) PROVE KeepTimers
  BY <1>6 DEF CallsBack, AsyncReports, AsyncSucceeds, AsyncFails
<1>7. QED
  BY <1>1, <1>2, <1>3, <1>4, <1>5, <1>6
  DEF Next, User, Settles, RunOrExplain, RunAsync, Cancel, Clear, SelectDatasource, onClear, SwitchTo,
      ChangeCluster, ToggleFullScreen, SelectTab, TimerFires, vars

LEMMA TimersMountedStep ==
  ASSUME TypeOK, TimersMounted, [Next]_vars
  PROVE  TimersMounted'
<1> SUFFICES ASSUME NEW u \in timers', u.live PROVE (BodyMounted /\ Wrapped)'
  BY DEF TimersMounted
<1>1. CASE u \in timers /\ BodyStays
  BY <1>1 DEF TimersMounted, BodyStays
<1>2. CASE u \in timers /\ KeepTimers
  <2>1. BodyMounted /\ Wrapped
    BY <1>2 DEF TimersMounted
  <2>2. CASE BodyMounted' /\ Wrapped' = Wrapped
    BY <2>1, <2>2
  <2>3. CASE ~(BodyMounted' /\ Wrapped' = Wrapped)
    <3>1. PICK t \in timers :
            u = IF t.live THEN [t EXCEPT !.live = FALSE, !.data = AtHand(t.format)] ELSE t
      BY <1>2, <2>3 DEF KeepTimers
    <3>2. t \in [format : Formats, asked : [req : 0..Len(requests), tab : Nat],
                 live : BOOLEAN, data : [req : 0..Len(requests), tab : Nat]]
      BY DEF TypeOK, TimersOK
    <3>3. QED
      BY <3>1, <3>2
  <2>4. QED
    BY <2>2, <2>3
<1>3. CASE MenuShown /\ BodyStays
  BY <1>3, MenuIsWrapped DEF BodyStays
<1>4. QED
  BY <1>1, <1>2, <1>3, TimersFrom

LEMMA DownloadsStep ==
  ASSUME TypeOK, PageInv, TimersMounted, JdbcOfRun, [Next]_vars, RequestsOK', RequestsGrow,
         TypeOK', PageInv', TimersMounted'
  PROVE  JdbcOfRun'
<1>1. BodyMounted' /\ Wrapped' => IsRun(AtHand("jdbc").req)'
  <2>1. (TypeOK /\ PageInv /\ BodyMounted /\ Wrapped => IsRun(AtHand("jdbc").req))'
    BY RowsAtHand, PTL
  <2>2. QED
    BY <2>1
<1>2. ASSUME NEW r \in 0..Len(requests), IsRun(r)
      PROVE  r \in Ids' /\ requests'[r].kind \in {"run", "async"}
  BY <1>2, IdsWithin DEF RequestsGrow, Ids, IsRun, TypeOK
<1> SUFFICES ASSUME NEW u \in timers', u.format = "jdbc"
             PROVE  LET data == IF u.live THEN AtHand("jdbc")' ELSE u.data
                    IN  data.req \in Ids' /\ requests'[data.req].kind \in {"run", "async"}
  BY DEF JdbcOfRun, IsRun, Data
<1>3. CASE u.live
  BY <1>1, <1>3 DEF TimersMounted, IsRun
<1>4. CASE ~u.live
  <2>1. ASSUME IsRun(u.data.req)
        PROVE  u.data.req \in Ids' /\ requests'[u.data.req].kind \in {"run", "async"}
    <3>1. u.data.req \in 0..Len(requests)
      BY <2>1, IdsWithin DEF IsRun, Ids, TypeOK
    <3>2. QED
      BY <1>2, <2>1, <3>1
  <2>2. CASE u \in timers
    BY <1>4, <2>1, <2>2 DEF JdbcOfRun, Data
  <2>3. ASSUME NEW t \in timers, t.live, u.format = t.format, u.data = AtHand(t.format)
        PROVE  u.data.req \in Ids' /\ requests'[u.data.req].kind \in {"run", "async"}
    BY <2>1, <2>3 DEF JdbcOfRun, Data
  <2>4. QED
    BY <1>4, <2>2, <2>3, TimersFrom
<1>5. QED
  BY <1>3, <1>4

\* What a JDBC download finds decides whether it writes its file.
LEMMA JdbcWrites ==
  ASSUME JdbcOfRun
  PROVE  JdbcFailsOnlyOnAsync
<1> SUFFICES ASSUME NEW t \in timers, t.format = "jdbc"
             PROVE  /\ Data(t).req \in Ids
                    /\ requests[Data(t).req].kind = IF Writes(t) THEN "run" ELSE "async"
  BY DEF JdbcFailsOnlyOnAsync
<1>1. IsRun(Data(t).req)
  BY DEF JdbcOfRun
<1>2. Data(t) # Nothing
  BY <1>1 DEF IsRun, Ids, Nothing, Result
<1>3. QED
  BY <1>1, <1>2 DEF IsRun, Writes

-----------------------------------------------------------------------------
(* The invariant *)

LEMMA FullScreenStep ==
  ASSUME FullScreenHasExit, TypeOK, PageInv, JdbcNeverFetched, [Next]_vars, RequestsGrow
  PROVE  FullScreenHasExit'
<1> USE DEF FullScreenHasExit, tableVars
<1>1. ASSUME UNCHANGED <<queryResultsTable, bodies["jdbc"], isResultFullScreen>> PROVE FullScreenHasExit'
  <2> DEFINE r == bodies["jdbc"]
  <2>1. CASE queryResultsTable # 0
    BY <1>1, <2>1
  <2>2. CASE isResultFullScreen /\ queryResultsTable = 0
    <3>1. r \in Ids /\ requests[r].kind = "async" /\ Unreadable(r) /\ AllAnswered(r)
      BY <2>2, TableIsPosted DEF PageInv, BodiesOfRun
    <3>2. requests'[r] = requests[r]
      BY <3>1 DEF RequestsGrow
    <3>3. QED
      BY <1>1, <2>2, <3>1, <3>2 DEF Unreadable, Statements
  <2>3. QED
    BY <1>1, <2>1, <2>2
<1>2. CASE ~isResultFullScreen'
  BY <1>2
<1>3. CASE ToggleFullScreen
  BY <1>3 DEF ToggleFullScreen, resultVars
<1>4. ASSUME NEW r \in Ids, NEW i \in Statements(r), NEW o \in Outcomes, Answer(r, i, o)
      PROVE  FullScreenHasExit'
  <2>1. CASE RunAnswered(r)
    BY <2>1 DEF RunAnswered, ShowRun, Ids
  <2>2. CASE DownloadAnswered(r)
    <3>1. bodies'["jdbc"] = bodies["jdbc"]
      BY <2>2 DEF DownloadAnswered, JdbcNeverFetched, TypeOK, PageOK, Formats
    <3>2. QED
      BY <1>1, <1>4, <2>2, <3>1 DEF Answer, DownloadAnswered, choiceVars
  <2>3. CASE StillWaits(r) \/ RunLost(r) \/ ExplainAnswered(r)
    BY <1>1, <1>4, <2>3 DEF Answer, StillWaits, RunLost, ExplainAnswered, resultVars, choiceVars
  <2>4. QED
    BY <1>4, <2>1, <2>2, <2>3 DEF Answer
<1>5. ASSUME NEW r \in Ids, CallsBack(r) PROVE FullScreenHasExit'
  <2>1. ASSUME NEW status \in Statuses, AsyncReports(r, status) \/ AsyncFails(r, status)
        PROVE  FullScreenHasExit'
    BY <1>1, <2>1 DEF AsyncReports, AsyncFails, Ends, choiceVars
  <2>2. ASSUME NEW o \in {"rows", "blank"}, AsyncSucceeds(r, o) PROVE FullScreenHasExit'
    <3>1. r # 0
      BY DEF Ids
    <3>2. CASE o = "rows"
      BY <2>2, <3>1, <3>2 DEF AsyncSucceeds, ShowRun
    <3>3. CASE o = "blank"
      <4>1. Unreadable(r)'
        BY <2>2, <3>3, AsyncShownPage
      <4>2. bodies'["jdbc"] = r
        BY <2>2 DEF AsyncSucceeds, ShowRun, Formats
      <4>3. requests'[r].kind = "async"
        BY <2>2 DEF AsyncSucceeds, Ends, Calling, RequestsGrow
      <4>4. Unreadable(bodies["jdbc"])'
        BY <4>1, <4>2 DEF Unreadable, Statements
      <4>5. QED
        BY <3>1, <4>2, <4>3, <4>4
    <3>4. QED
      BY <3>2, <3>3
  <2>3. QED
    BY <1>5, <2>1, <2>2 DEF CallsBack, Statuses
<1>6. CASE Cancel
  BY <1>1, <1>6 DEF Cancel, choiceVars
<1>7. CASE UNCHANGED <<resultVars, isResultFullScreen>>
  BY <1>1, <1>7 DEF resultVars
<1>8. ASSUME NEW i \in {Output} \cup Statements(queryResultsTable), SelectTab(i) PROVE FullScreenHasExit'
  BY <1>1, <1>8 DEF SelectTab, choiceVars
<1>9. ASSUME NEW c \in Clusters, SelectCluster(c) PROVE FullScreenHasExit'
  BY <1>7, <1>9 DEF SelectCluster
<1>10. ASSUME Clear \/ (\E d \in Connections : SelectDatasource(d)) \/ ChangeCluster
                    \/ (\E l \in Languages : SwitchTo(l)) \/ (\E qs \in Batches : RunAsync(qs))
       PROVE  FullScreenHasExit'
  BY <1>2, <1>10 DEF Clear, SelectDatasource, onClear, ChangeCluster, SwitchTo, RunAsync, choiceVars
<1>11. QED
  BY <1>3, <1>4, <1>5, <1>6, <1>7, <1>8, <1>9, <1>10
  DEF Next, User, Settles, RunOrExplain, Download, TimerFires, vars, choiceVars

LEMMA IInvInit == Init => IInv
<1> SUFFICES ASSUME Init PROVE IInv
  OBVIOUS
<1>1. PageInv
  BY DEF Init, PageInv, SelectedTabHasTable, TableMatchesBodies, TableSettled, BodiesOfRun, Formats
<1>2. FullScreenHasExit /\ TimersMounted /\ JdbcOfRun
  BY DEF Init, FullScreenHasExit, TimersMounted, JdbcOfRun
<1>3. JdbcNeverFetched
  BY DEF Init, JdbcNeverFetched, Ids
<1>4. QED
  BY <1>1, <1>2, <1>3, TypeInit DEF IInv

LEMMA IInvStep == IInv /\ [Next]_vars => IInv'
<1> SUFFICES ASSUME IInv, [Next]_vars PROVE IInv'
  OBVIOUS
<1> USE DEF IInv
<1>1. RequestsOK' /\ RequestsGrow /\ TypeOK'
  BY RequestsStep, TypeStep
<1>2. PageInv'
  BY <1>1, PageStep
<1>3. FullScreenHasExit' /\ TimersMounted'
  BY <1>1, FullScreenStep, TimersMountedStep
<1>4. JdbcOfRun'
  BY <1>1, <1>2, <1>3, DownloadsStep
<1>5. JdbcNeverFetched'
  BY <1>1, JdbcStep
<1>6. QED
  BY <1>1, <1>2, <1>3, <1>4, <1>5

LEMMA Invariance == SafeSpec => []IInv
  BY IInvInit, IInvStep, PTL DEF SafeSpec

\* The tab selected always has a table, for every number of statements, requests
\* and formats offered, and whatever is cleared while answers are outstanding.
THEOREM PageConsistent == SafeSpec => []SelectedTabHasTable
<1>1. IInv => SelectedTabHasTable
  BY DEF IInv, PageInv
<1>2. QED
  BY <1>1, Invariance, PTL

\* Tables and bodies are of one run: onRun writes both, and getJdbc, which would
\* replace the bodies alone, is never called.
THEOREM TableAndBodiesOfOneRun == SafeSpec => []TableMatchesBodies
<1>1. IInv => TableMatchesBodies
  BY DEF IInv, PageInv
<1>2. QED
  BY <1>1, Invariance, PTL

\* A JDBC download never fetches and always finds the body of a run: getJdbc is
\* dead code.  It writes its file exactly if that run was synchronous.
THEOREM JdbcFromMemory == SafeSpec => []JdbcNeverFetched /\ []JdbcFailsOnlyOnAsync
<1>1. IInv => JdbcNeverFetched /\ JdbcFailsOnlyOnAsync
  BY JdbcWrites DEF IInv
<1>2. QED
  BY <1>1, Invariance, PTL

\* The results in full screen have a table, and so their exit, unless an
\* asynchronous run without a schema took it away.
THEOREM ExitFromFullScreen == SafeSpec => []FullScreenHasExit
<1>1. IInv => FullScreenHasExit
  BY DEF IInv
<1>2. QED
  BY <1>1, Invariance, PTL
=============================================================================

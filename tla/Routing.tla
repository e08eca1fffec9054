------------------------------ MODULE Routing -------------------------------
(***************************************************************************)
(* A request of the page on its way through the server, while the cluster  *)
(* it is for is upgraded or migrated: the wire (src/public, src/common),   *)
(* the routes (server/routes), QueryService and TranslateService, the      *)
(* client actions (server/clusters/sql/sqlPlugin.js), the cluster, and     *)
(* back to what the page makes of the answer.                              *)
(*                                                                         *)
(* Deployment's variables are the cluster that the page has selected: the  *)
(* local one, or a data source.  One request is under way at a time; what  *)
(* concurrent requests do to the cached cluster info is in ClusterInfo.    *)
(* The bodies are abstracted to what they are an answer of.                *)
(***************************************************************************)
EXTENDS Deployment

VARIABLES
  dataSourceEnabled,  \* the data source plugin is there
  remote,             \* the selected cluster is a data source
  info,               \* what ClusterInfoService has cached of that cluster
  request             \* the request under way, or NoRequest

vars == <<deploymentVars, dataSourceEnabled, remote, info, request>>

-----------------------------------------------------------------------------
(* The routes and the client actions.  A request is known by its action. *)

QueryActions ==
  {"sqlQuery", "pplQuery", "sqlJson", "pplJson", "sqlCsv", "pplCsv", "sqlText", "pplText"}
TranslateActions == {"translateSQL", "translatePPL"}
JobActions == {"sparkSqlGetQuery", "asyncDeleteQuery"}
AsyncActions == {"sparkSqlQuery"} \cup JobActions
PplActions == {"pplQuery", "pplJson", "pplCsv", "pplText", "translatePPL"}
Requests == QueryActions \cup TranslateActions \cup AsyncActions \cup {"datasourcesGetQuery"}

Action(name, legacy) == [name |-> name, legacy |-> legacy]

\* What sqlPlugin defines under _plugins, and under _opendistro.
PluginActions == {Action(name, FALSE) : name \in Requests}
LegacyActions == {Action(name, TRUE) : name \in QueryActions \cup TranslateActions}

\* Slip: asynchronous queries are sent to the legacy namespace as well.
LEGACY_ELIGIBLE_ACTIONS_Async == QueryActions \cup TranslateActions \cup {"sparkSqlQuery"}

LEGACY_ELIGIBLE_ACTIONS == QueryActions \cup TranslateActions

-----------------------------------------------------------------------------
(* The data source id on the wire *)

Absent == "absent"
Ids == IF remote THEN {"ds"} ELSE {"", Absent}

\* Slip: the id is left out of the path of a poll as it is out of a DELETE's.
Wire_NoPollId(name, id) == IF name \in JobActions THEN Absent ELSE id

\* What the page sends for its id, which may be undefined: the path of a poll
\* then ends in 'undefined'; a DELETE carries none; fetchDataSources makes it ''.
Wire(name, id) ==
  CASE name = "asyncDeleteQuery" -> Absent
    [] name = "sparkSqlGetQuery" /\ id = Absent -> "undefined"
    [] name = "datasourcesGetQuery" /\ id = Absent -> ""
    [] OTHER -> id

\* The services' test: a data source, or else the local cluster.
IsDataSource(wire) == dataSourceEnabled /\ wire \notin {"", Absent}

\* The cluster that is asked.  There is no client for a data source 'undefined'.
Reached(wire) ==
  IF ~IsDataSource(wire) THEN (IF remote THEN "other" ELSE "selected")
  ELSE IF wire = "ds" THEN "selected" ELSE "nowhere"

-----------------------------------------------------------------------------
(* What is known of the cluster, and the action chosen for it *)

Current == [version |-> version, signal |-> signal]
Unknown == [version |-> NoVersion, signal |-> "undefined"]

CapsOf(known) == getDeploymentCapabilities(known.version, known.signal)

\* Slip: the engine is taken for OpenSearch unless the signal says otherwise.
legacyActionFor_SignalOnly(name, known) ==
  Action(name, name \in LEGACY_ELIGIBLE_ACTIONS /\ known.signal = "elasticsearch")

\* legacyActionFor, and TranslateService's choice, whose actions are all eligible.
legacyActionFor(name, known) ==
  Action(name, name \in LEGACY_ELIGIBLE_ACTIONS /\ CapsOf(known).usesLegacyOpenDistroSql)

\* What a cluster has: Elasticsearch no _plugins, asynchronous queries and
\* connections from OpenSearch 2.11 on, PPL from Elasticsearch 7.9 on.  Whether
\* OpenSearch still has _opendistro is left open.
Lacks(action) ==
  \/ ~isOpenSearch /\ ~action.legacy
  \/ action.name \in AsyncActions \cup {"datasourcesGetQuery"} /\ ~AtLeast(version, 2, 11)
  \/ action.name \in PplActions /\ ~isOpenSearch /\ ~AtLeast(version, 7, 9)

\* 'unparsed': the client cannot parse a body, and has it in the error.
Outcomes(action, reached) ==
  CASE reached = "nowhere" -> {"failed"}
    [] reached = "other" -> {"result", "failed", "lacking"}
    [] Lacks(action) -> {"lacking"}
    [] OTHER -> {"result", "failed", "unparsed"}
         \cup (IF action.legacy /\ isOpenSearch THEN {"lacking"} ELSE {})

-----------------------------------------------------------------------------
(* The answer *)

\* Routes that answer 200 whatever comes back; the others answer the status of
\* the error, and the page gets an exception.
AlwaysOk == {"pplQuery", "asyncDeleteQuery"} \cup TranslateActions

Status(name, outcome) == IF outcome = "result" \/ name \in AlwaysOk THEN "ok" ELSE "error"

\* Slip: an answer is taken for a result because it is a 200.
Made_NoOkCheck(name, outcome) == IF Status(name, outcome) = "ok" THEN "result" ELSE "failure"

\* What the page makes of it.  processQueryResponse takes an unparsed body for a
\* result, if the route lets it through; cancelQuery does not look at its answer.
Made(name, outcome) ==
  CASE Status(name, outcome) = "error" -> "failure"
    [] name = "asyncDeleteQuery" -> "unread"
    [] outcome = "result" -> "result"
    [] outcome = "unparsed" /\ name \in QueryActions -> "result"
    [] OTHER -> "failure"

-----------------------------------------------------------------------------
NoRequest == [name |-> "none", stage |-> "none"]

TypeOK ==
  /\ isOpenSearch \in BOOLEAN
  /\ version \in Releases(isOpenSearch) /\ signal \in Signals(isOpenSearch)
  /\ dataSourceEnabled \in BOOLEAN /\ remote \in BOOLEAN
  /\ info = Unknown
     \/ \E os \in BOOLEAN : info.version \in Releases(os) /\ info.signal \in Signals(os)
  /\ request = NoRequest
     \/ /\ request.name \in Requests /\ request.id \in Ids
        /\ request.stage \in {"sent", "resolved", "answered"}

Init ==
  /\ DeploymentInit
  /\ dataSourceEnabled \in BOOLEAN
  /\ remote \in BOOLEAN
  /\ remote => dataSourceEnabled
  /\ ~remote => signal # "undefined"
  /\ info = Unknown
  /\ request = NoRequest

\* The local probe always has the engine, a data source may miss it.
ClusterChanges ==
  /\ DeploymentNext
  /\ ~remote => signal' # "undefined"
  /\ UNCHANGED <<dataSourceEnabled, remote, info, request>>

Send(name, id) ==
  /\ request.stage \in {"none", "answered"}
  /\ request' = [name |-> name, id |-> id, stage |-> "sent"]
  /\ UNCHANGED <<deploymentVars, dataSourceEnabled, remote, info>>

Sent(names) == request.stage = "sent" /\ request.name \in names
ReachedNow == Reached(Wire(request.name, request.id))

\* The action is chosen, by what was known of the cluster.
Resolved(known, action) ==
  request' = [name |-> request.name, id |-> request.id, stage |-> "resolved",
              asked |-> known, action |-> action]

\* describeQueryJobIdInternal asks nothing of the cluster first.
ResolveJob ==
  /\ Sent(JobActions)
  /\ Resolved(Unknown, Action(request.name, FALSE))
  /\ UNCHANGED <<deploymentVars, dataSourceEnabled, remote, info>>

\* getVersion and getDataSourceInfo: the cache, or the cluster, which may fail;
\* a failure is not kept.
Known(known) ==
  IF info # Unknown THEN known = info /\ info' = info
  ELSE known \in {Current, Unknown} /\ info' = known

\* resolveDataSourceAction looks nothing up for an action that has no legacy form;
\* resolveLocalClusterAction always does.
LooksUp(name, id) == name \in LEGACY_ELIGIBLE_ACTIONS \/ ~IsDataSource(Wire(name, id))

\* describeQueryPostInternal, translateSQL, translatePPL: the action is chosen.
ResolveAction(known) ==
  /\ Sent(Requests \ (JobActions \cup {"datasourcesGetQuery"}))
  /\ IF LooksUp(request.name, request.id) THEN Known(known)
     ELSE known = Unknown /\ UNCHANGED info
  /\ Resolved(known, legacyActionFor(request.name, known))
  /\ UNCHANGED <<deploymentVars, dataSourceEnabled, remote>>

\* describeQueryGetInternalSync: no call, and an empty list, for a cluster that
\* is known to have no connections.
ResolveDataSources(known) ==
  /\ Sent({"datasourcesGetQuery"})
  /\ Known(known)
  /\ IF CapsOf(known).hasDataSources
     THEN Resolved(known, Action(request.name, FALSE))
     ELSE request' = [name |-> request.name, id |-> request.id, stage |-> "answered",
                      outcome |-> "empty"]
  /\ UNCHANGED <<deploymentVars, dataSourceEnabled, remote>>

\* The page offers PPL by the capabilities, and asynchronous queries where there
\* are connections, which is where hasDataSources and hasAsyncQuery hold.
Offered(name) ==
  /\ name \in PplActions => caps.hasPpl
  /\ name \in AsyncActions => caps.hasAsyncQuery

\* The call, the answer of the cluster, that of the route, and its reading.
Answer(outcome) ==
  /\ request.stage = "resolved"
  /\ outcome \in Outcomes(request.action, ReachedNow)
  /\ request' = [name |-> request.name, id |-> request.id, stage |-> "answered",
                 action |-> request.action, reached |-> ReachedNow, outcome |-> outcome,
                 fresh |-> /\ request.asked = Current \/ request.name \in AsyncActions
                           /\ Offered(request.name),
                 made |-> Made(request.name, outcome)]
  /\ UNCHANGED <<deploymentVars, dataSourceEnabled, remote, info>>

Next ==
  \/ ClusterChanges
  \/ \E name \in Requests, id \in Ids : Send(name, id)
  \/ ResolveJob
  \/ \E known \in {info, Current, Unknown} : ResolveAction(known) \/ ResolveDataSources(known)
  \/ \E outcome \in {"result", "failed", "unparsed", "lacking"} : Answer(outcome)

Spec == Init /\ [][Next]_vars

-----------------------------------------------------------------------------
(* Properties *)

Called == request.stage = "answered" /\ request.outcome # "empty"

\* Every action the services can choose, with its legacy suffix, is one that
\* sqlPlugin defines: a missing one is only found when a cluster needs it.
ActionDefined ==
  request.stage = "resolved" \/ Called => request.action \in PluginActions \cup LegacyActions

\* If what the action was chosen by still holds when the call is made, and the
\* page offers such requests, the cluster has what is called: Elasticsearch is
\* never asked under _plugins, nor OpenSearch under _opendistro, and no
\* connections are asked of a cluster that has none.
KnownClusterServes ==
  Called /\ request.fresh /\ request.reached = "selected" => request.outcome # "lacking"

\* A poll that reaches a cluster reaches the one that took the query, also when
\* the page has no id and the path of the poll ends in 'undefined'.
PollsWhereAccepted ==
  Called /\ request.name = "sparkSqlGetQuery" /\ request.reached # "nowhere" =>
    request.reached = Reached(Wire("sparkSqlQuery", request.id))

\* No failure of a cluster is taken for a result by the page, whichever of the
\* routes answers 200 to it.
FailureSeen == Called /\ request.outcome \in {"failed", "lacking"} => request.made # "result"
=============================================================================

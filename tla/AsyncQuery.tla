----------------------------- MODULE AsyncQuery -----------------------------
(***************************************************************************)
(* executeAsyncQuery (common/utils/async_query_helpers.ts): one closure    *)
(* per query submitted to a Flint data source.  The closure POSTs the      *)
(* query, polls the job it gets back every POLL_INTERVAL_MS with one GET   *)
(* at a time, and hands each status to the caller's pollingCallback and    *)
(* each failure to its onErrorCallback.  The function it returns cancels   *)
(* the job with a DELETE.                                                  *)
(*                                                                         *)
(* The requests, their answers and the job server interleave freely.  The  *)
(* server is external: it accepts or refuses a query, moves the job from   *)
(* status to status, and answers a GET with the status of that moment.     *)
(***************************************************************************)
EXTENDS Naturals, FiniteSets

CONSTANTS
  Queries,          \* the executions; each is started at most once
  DataSources,      \* labels of the Flint data sources
  Clusters,         \* the local cluster and the remote (MDS) clusters
  Local,            \* the cluster addressed when no dataSourceMDSId is given
  SessionClusters,  \* clusters that answer a POST with a session id
  LiveStatuses,     \* the statuses of a job in progress that are explored
  MaxDeletes,       \* bound on the DELETEs in flight for one query
  None

ASSUME LiveAssumption ==
  LiveStatuses \subseteq {"pending", "running", "scheduled", "waiting"}
ASSUME DeleteAssumption == MaxDeletes \in Nat
ASSUME NoneAssumption == None \notin Queries

VARIABLES
  \* the closure's variables and its outstanding request or timer
  post,       \* post[q]: life of the POST
  poll,       \* poll[q]: "timer", "sent", or the status in an answer in flight
  jobId,      \* jobId[q]: jobId is defined
  fulfilled,  \* isQueryFulfilled
  cancelled,  \* isQueryCancelled
  deletes,    \* deletes[q]: number of DELETEs in flight
  acked,      \* acked[q]: a DELETE was answered without raising a toast
  target,     \* target[q]: the data source and cluster the query was sent to
  \* sessionStorage: per data source, the query whose answer brought the session
  session,
  sent,       \* sent[q]: the session in the body of q's POST
  \* what the caller has seen
  reported,   \* reported[q]: last status given to pollingCallback
  errors,     \* errors[q]: onErrorCallback was called
  \* the job server
  job         \* job[q]: status of the job, "none" if it was never created

closureVars == <<post, poll, jobId, fulfilled, cancelled, target>>
deleteVars == <<deletes, acked>>
sessionVars == <<session, sent>>
callerVars == <<reported, errors>>
vars == <<closureVars, deleteVars, sessionVars, callerVars, job>>

-----------------------------------------------------------------------------
(* Statuses *)

Ended == {"success", "failed", "cancelled"}

\* Any status string outside the AsyncQueryStatus enumeration.
Unrecognized == "unrecognized"

Active == LiveStatuses \cup {Unrecognized}
Statuses == Active \cup Ended

PostStates == {"idle", "sent", "accepted", "invalid", "done"}
PollStates == {"none", "timer", "sent"} \cup Statuses
Targets == [dataSource : DataSources, cluster : Clusters]
NoTarget == [dataSource |-> None, cluster |-> None]

TypeOK ==
  /\ post \in [Queries -> PostStates]
  /\ poll \in [Queries -> PollStates]
  /\ jobId \in [Queries -> BOOLEAN]
  /\ fulfilled \in [Queries -> BOOLEAN]
  /\ cancelled \in [Queries -> BOOLEAN]
  /\ deletes \in [Queries -> 0..MaxDeletes]
  /\ acked \in [Queries -> BOOLEAN]
  /\ target \in [Queries -> Targets \cup {NoTarget}]
  /\ session \in [DataSources -> Queries \cup {None}]
  /\ sent \in [Queries -> Queries \cup {None}]
  /\ reported \in [Queries -> Statuses \cup {"none"}]
  /\ errors \in [Queries -> BOOLEAN]
  /\ job \in [Queries -> Statuses \cup {"none"}]

Init ==
  /\ post = [q \in Queries |-> "idle"]
  /\ poll = [q \in Queries |-> "none"]
  /\ jobId = [q \in Queries |-> FALSE]
  /\ fulfilled = [q \in Queries |-> FALSE]
  /\ cancelled = [q \in Queries |-> FALSE]
  /\ deletes = [q \in Queries |-> 0]
  /\ acked = [q \in Queries |-> FALSE]
  /\ target = [q \in Queries |-> NoTarget]
  /\ session = [d \in DataSources |-> None]
  /\ sent = [q \in Queries |-> None]
  /\ reported = [q \in Queries |-> "none"]
  /\ errors = [q \in Queries |-> FALSE]
  /\ job = [q \in Queries |-> "none"]

-----------------------------------------------------------------------------
(* Starting, and the answer to the POST *)

\* The body has a session id only if one is stored for the data source.
BodySession(d, hasSessionId) == IF hasSessionId THEN session[d] ELSE None

\* getJobId, up to the POST.  A caller may start several queries in one event
\* handler; each body carries the session stored for the data source.  The
\* caller's capabilities need not be those of the cluster: they are resolved
\* some time after the cluster is selected.
Start(qs, d, c) ==
  /\ qs # {}
  /\ \A q \in qs : post[q] = "idle"
  /\ post' = [q \in Queries |-> IF q \in qs THEN "sent" ELSE post[q]]
  /\ target' = [q \in Queries |->
                  IF q \in qs THEN [dataSource |-> d, cluster |-> c] ELSE target[q]]
  /\ \E hasSessionId \in BOOLEAN :
       sent' = [q \in Queries |-> IF q \in qs THEN BodySession(d, hasSessionId) ELSE sent[q]]
  /\ UNCHANGED <<poll, jobId, fulfilled, cancelled, deleteVars, session, callerVars, job>>

\* The server creates the job, or answers without a query id.
AcceptPost(q) ==
  /\ post[q] = "sent"
  /\ post' = [post EXCEPT ![q] = "accepted"]
  /\ \E s \in LiveStatuses : job' = [job EXCEPT ![q] = s]
  /\ UNCHANGED <<poll, jobId, fulfilled, cancelled, target, deleteVars, sessionVars, callerVars>>

RefusePost(q) ==
  /\ post[q] = "sent"
  /\ post' = [post EXCEPT ![q] = "invalid"]
  /\ UNCHANGED <<poll, jobId, fulfilled, cancelled, target, deleteVars, sessionVars, callerVars, job>>

\* Slip: one session for all data sources.
StoreSession_Shared(d, s) ==
  session' = IF s = None THEN session ELSE [x \in DataSources |-> s]

\* setAsyncSessionId: an answer without a session id leaves the store alone.
StoreSession(d, s) == session' = IF s = None THEN session ELSE [session EXCEPT ![d] = s]

\* Slip: isQueryCancelled is not looked at.
PollOrStop_Always(q) == "sent"

\* The first poll, and each later one, is sent only if nobody cancelled.
PollOrStop(q) == IF cancelled[q] THEN "none" ELSE "sent"

\* A session id in the answer is the one that was sent or a new one; clusters
\* without sessions send none.
AnsweredSessions(q) ==
  IF target[q].cluster \in SessionClusters THEN {None, sent[q], q} ELSE {None}

PostAnswered(q) ==
  /\ post[q] = "accepted"
  /\ post' = [post EXCEPT ![q] = "done"]
  /\ jobId' = [jobId EXCEPT ![q] = TRUE]
  /\ \E s \in AnsweredSessions(q) : StoreSession(target[q].dataSource, s)
  /\ poll' = [poll EXCEPT ![q] = PollOrStop(q)]
  /\ UNCHANGED <<fulfilled, cancelled, target, deleteVars, sent, callerVars, job>>

\* Slip: the caller is not told.
PostInvalid_Silent(q) ==
  /\ post[q] = "invalid"
  /\ post' = [post EXCEPT ![q] = "done"]
  /\ UNCHANGED <<poll, jobId, fulfilled, cancelled, target, deleteVars, sessionVars, callerVars, job>>

\* "Received an invalid query id": the closure stops, isQueryFulfilled stays false.
PostInvalid(q) ==
  /\ post[q] = "invalid"
  /\ post' = [post EXCEPT ![q] = "done"]
  /\ errors' = [errors EXCEPT ![q] = TRUE]
  /\ UNCHANGED <<poll, jobId, fulfilled, cancelled, target, deleteVars, sessionVars, reported, job>>

\* The request or its answer is lost, or the answer is an HTTP error; the job
\* may exist all the same.
PostFails(q) ==
  /\ post[q] \in {"sent", "accepted", "invalid"}
  /\ post' = [post EXCEPT ![q] = "done"]
  /\ fulfilled' = [fulfilled EXCEPT ![q] = TRUE]
  /\ errors' = [errors EXCEPT ![q] = TRUE]
  /\ UNCHANGED <<poll, jobId, cancelled, target, deleteVars, sessionVars, reported, job>>

-----------------------------------------------------------------------------
(* pollQueryStatus *)

AnswerPoll(q) ==
  /\ poll[q] = "sent"
  /\ poll' = [poll EXCEPT ![q] = job[q]]
  /\ UNCHANGED <<post, jobId, fulfilled, cancelled, target, deleteVars, sessionVars, callerVars, job>>

\* Slip: the next poll is not scheduled.
PollLive_Once(q) ==
  /\ poll[q] \in LiveStatuses
  /\ reported' = [reported EXCEPT ![q] = poll[q]]
  /\ poll' = [poll EXCEPT ![q] = "none"]
  /\ UNCHANGED <<post, jobId, fulfilled, cancelled, target, deleteVars, sessionVars, errors, job>>

\* The answer is handed to the callback even when the query was cancelled
\* while the GET was in flight.
PollLive(q) ==
  /\ poll[q] \in LiveStatuses
  /\ reported' = [reported EXCEPT ![q] = poll[q]]
  /\ poll' = [poll EXCEPT ![q] = "timer"]
  /\ UNCHANGED <<post, jobId, fulfilled, cancelled, target, deleteVars, sessionVars, errors, job>>

\* Slip: both cases report the same status.
PollEnded_Cancelled(q) ==
  /\ poll[q] \in {"failed", "cancelled"}
  /\ fulfilled' = [fulfilled EXCEPT ![q] = TRUE]
  /\ errors' = [errors EXCEPT ![q] = TRUE]
  /\ reported' = [reported EXCEPT ![q] = "cancelled"]
  /\ poll' = [poll EXCEPT ![q] = "none"]
  /\ UNCHANGED <<post, jobId, cancelled, target, deleteVars, sessionVars, job>>

\* Slip: the case falls through to the one that polls again.
PollEnded_PollsOn(q) ==
  /\ poll[q] \in {"failed", "cancelled"}
  /\ fulfilled' = [fulfilled EXCEPT ![q] = TRUE]
  /\ errors' = [errors EXCEPT ![q] = TRUE]
  /\ reported' = [reported EXCEPT ![q] = poll[q]]
  /\ poll' = [poll EXCEPT ![q] = "timer"]
  /\ UNCHANGED <<post, jobId, cancelled, target, deleteVars, sessionVars, job>>

PollEnded(q) ==
  /\ poll[q] \in {"failed", "cancelled"}
  /\ fulfilled' = [fulfilled EXCEPT ![q] = TRUE]
  /\ errors' = [errors EXCEPT ![q] = TRUE]
  /\ reported' = [reported EXCEPT ![q] = poll[q]]
  /\ poll' = [poll EXCEPT ![q] = "none"]
  /\ UNCHANGED <<post, jobId, cancelled, target, deleteVars, sessionVars, job>>

PollSuccess(q) ==
  /\ poll[q] = "success"
  /\ fulfilled' = [fulfilled EXCEPT ![q] = TRUE]
  /\ reported' = [reported EXCEPT ![q] = "success"]
  /\ poll' = [poll EXCEPT ![q] = "none"]
  /\ UNCHANGED <<post, jobId, cancelled, target, deleteVars, sessionVars, errors, job>>

\* The default case of the switch: an error, then the callback, and no timer.
PollUnrecognized(q) ==
  /\ poll[q] = Unrecognized
  /\ errors' = [errors EXCEPT ![q] = TRUE]
  /\ reported' = [reported EXCEPT ![q] = Unrecognized]
  /\ poll' = [poll EXCEPT ![q] = "none"]
  /\ UNCHANGED <<post, jobId, fulfilled, cancelled, target, deleteVars, sessionVars, job>>

\* The catch: the GET failed, its answer was lost or has no status, or the
\* callback threw on it (a result it cannot read).  The callback is told
\* "failed"; onErrorCallback is not called.
PollFails(q) ==
  /\ poll[q] \in {"sent"} \cup Statuses
  /\ fulfilled' = [fulfilled EXCEPT ![q] = TRUE]
  /\ reported' = [reported EXCEPT ![q] = "failed"]
  /\ poll' = [poll EXCEPT ![q] = "none"]
  /\ UNCHANGED <<post, jobId, cancelled, target, deleteVars, sessionVars, errors, job>>

\* setTimeout(() => pollQueryStatus(id, callback), POLL_INTERVAL_MS)
TimerFires(q) ==
  /\ poll[q] = "timer"
  /\ poll' = [poll EXCEPT ![q] = PollOrStop(q)]
  /\ UNCHANGED <<post, jobId, fulfilled, cancelled, target, deleteVars, sessionVars, callerVars, job>>

-----------------------------------------------------------------------------
(* cancelQuery *)

CanCancel(q) == jobId[q] /\ ~fulfilled[q]

\* cancelQuery returns without doing anything unless CanCancel(q); it may be
\* called again.  MaxDeletes bounds the DELETEs in flight.
CancelQuery(q) ==
  /\ CanCancel(q)
  /\ deletes[q] < MaxDeletes
  /\ cancelled' = [cancelled EXCEPT ![q] = TRUE]
  /\ deletes' = [deletes EXCEPT ![q] = @ + 1]
  /\ UNCHANGED <<post, poll, jobId, fulfilled, target, acked, sessionVars, callerVars, job>>

\* The DELETE names no data source, so the server asks the local cluster.  The
\* route answers ok whatever the cluster says, which may be a refusal.
DeleteAnswered(q) ==
  /\ deletes[q] > 0
  /\ deletes' = [deletes EXCEPT ![q] = @ - 1]
  /\ acked' = [acked EXCEPT ![q] = TRUE]
  /\ \/ /\ target[q].cluster = Local
        /\ job[q] \in Active
        /\ job' = [job EXCEPT ![q] = "cancelled"]
     \/ UNCHANGED job
  /\ UNCHANGED <<closureVars, sessionVars, callerVars>>

\* The request fails on the way: a toast, nothing else.
DeleteFails(q) ==
  /\ deletes[q] > 0
  /\ deletes' = [deletes EXCEPT ![q] = @ - 1]
  /\ UNCHANGED <<closureVars, acked, sessionVars, callerVars, job>>

-----------------------------------------------------------------------------
(* The job server *)

JobMoves(q) ==
  /\ job[q] \in Active
  /\ \E s \in Active \ {job[q]} : job' = [job EXCEPT ![q] = s]
  /\ UNCHANGED <<closureVars, deleteVars, sessionVars, callerVars>>

JobEnds(q) ==
  /\ job[q] \in Active
  /\ \E s \in Ended : job' = [job EXCEPT ![q] = s]
  /\ UNCHANGED <<closureVars, deleteVars, sessionVars, callerVars>>

-----------------------------------------------------------------------------
(* Specification *)

PostSettles(q) == PostAnswered(q) \/ PostInvalid(q) \/ PostFails(q)
ServesPost(q) == AcceptPost(q) \/ RefusePost(q)
PollSettles(q) == PollLive(q) \/ PollEnded(q) \/ PollSuccess(q) \/ PollUnrecognized(q) \/ PollFails(q)
DeleteSettles(q) == DeleteAnswered(q) \/ DeleteFails(q)

\* Everything that happens without the caller.
Background(q) ==
  \/ ServesPost(q) \/ PostSettles(q)
  \/ AnswerPoll(q) \/ PollSettles(q) \/ TimerFires(q)
  \/ DeleteSettles(q)
  \/ JobMoves(q) \/ JobEnds(q)

Next ==
  \/ \E qs \in SUBSET Queries, d \in DataSources, c \in Clusters : Start(qs, d, c)
  \/ \E q \in Queries : CancelQuery(q)
  \/ \E q \in Queries : Background(q)

\* A request is always answered or fails, a timer always fires, and a job ends.
Fairness ==
  \A q \in Queries :
    /\ WF_vars(ServesPost(q) \/ PostSettles(q))
    /\ WF_vars(AnswerPoll(q) \/ PollSettles(q) \/ TimerFires(q))
    /\ WF_vars(DeleteSettles(q))
    /\ WF_vars(JobEnds(q))

SafeSpec == Init /\ [][Next]_vars
Spec == SafeSpec /\ Fairness

-----------------------------------------------------------------------------
(* Properties *)

\* A closure that has nothing outstanding has told its caller how the query
\* ended: a final status, an error, or the caller itself cancelled.  Every exit
\* of getJobId and pollQueryStatus is concerned.
OutcomeReported ==
  \A q \in Queries :
    post[q] = "done" /\ poll[q] = "none" =>
      reported[q] \in Ended \/ errors[q] \/ cancelled[q]

\* The caller is told "success" or "cancelled" only of a job that ended so on
\* the server ("failed" also stands for a poll that failed), and the job has
\* not changed since.
ReportIsTrue ==
  \A q \in Queries : reported[q] \in {"success", "cancelled"} => job[q] = reported[q]

\* Once isQueryFulfilled is set nothing of the closure runs again: no poll is
\* sent or answered, neither callback is called, no DELETE is added.
FulfilledIsFinal ==
  [][\A q \in Queries :
       fulfilled[q] => /\ post'[q] = post[q] /\ poll'[q] = poll[q]
                       /\ reported'[q] = reported[q] /\ errors'[q] = errors[q]
                       /\ deletes'[q] <= deletes[q]]_vars

\* Once the caller has cancelled, no GET is sent: at most the one already in
\* flight is answered, whether a timer was pending or not.
NoPollAfterCancel ==
  [][\A q \in Queries : cancelled[q] /\ poll'[q] = "sent" => poll[q] = "sent"]_vars

\* The session in the body of a POST was brought by the answer to an earlier
\* query of the same data source, although queries of several data sources
\* are answered in any order.
SessionOfDataSource ==
  \A q \in Queries :
    sent[q] # None => /\ jobId[sent[q]]
                      /\ target[sent[q]].dataSource = target[q].dataSource

\* What the caller of q knows of it.
CallerView(q) ==
  IF post[q] = "idle" THEN "idle"
  ELSE IF reported[q] \in Ended THEN reported[q]
  ELSE IF reported[q] = Unrecognized THEN "unknown"
  ELSE IF errors[q] THEN "failed"
  ELSE "waiting"

Promise == INSTANCE AsyncJob WITH
  view <- [q \in Queries |-> CallerView(q)],
  stopping <- cancelled

\* Every execution of the closures is one AsyncJob allows: each query is settled
\* at most once, and is settled in the end unless it was cancelled.
ImplementsAsyncJob == Promise!Spec

\* A DELETE the server has acknowledged has stopped the job.  This does not hold,
\* and no run checks it: the DELETE does not say which cluster runs the job.
CancelTakesEffect ==
  \A q \in Queries : acked[q] => job[q] \notin Active
=============================================================================

-------------------------- MODULE AsyncQueryProofs --------------------------
(***************************************************************************)
(* Proofs about AsyncQuery and MainAsync, for every set of queries, data   *)
(* sources and clusters.  The state of one closure is a small automaton    *)
(* spread over eight variables; Coherent says which combinations it can be *)
(* in, and is what each property of the closure follows from.  Main drives *)
(* the closures only through their own operations, so an execution of Main *)
(* is one of AsyncQuery and keeps all that; the page is then related to    *)
(* the closures.                                                           *)
(***************************************************************************)
EXTENDS MainAsync, TLAPS

\* Before its POST is answered a closure has done nothing else.
Waiting(q) ==
  /\ poll[q] = "none" /\ ~jobId[q] /\ ~fulfilled[q] /\ ~cancelled[q]
  /\ reported[q] = "none" /\ ~errors[q]

\* Polling needs a job, and goes on only while nothing final was reported.
Polling(q) ==
  /\ jobId[q] /\ ~fulfilled[q] /\ ~errors[q]
  /\ reported[q] \in LiveStatuses \cup {"none"}
  /\ poll[q] \in Ended => job[q] = poll[q]

Coherent(q) ==
  /\ post[q] # "done" => Waiting(q)
  /\ post[q] = "accepted" => job[q] # "none"
  /\ poll[q] # "none" => Polling(q)
  /\ jobId[q] => job[q] # "none"
  /\ cancelled[q] => jobId[q]
  /\ reported[q] \in Ended => fulfilled[q]
  /\ reported[q] \in {"success", "cancelled"} => job[q] = reported[q]
  /\ jobId[q] /\ errors[q] => fulfilled[q] \/ reported[q] = Unrecognized
  /\ post[q] = "done" /\ poll[q] = "none" =>
       reported[q] \in Ended \/ errors[q] \/ cancelled[q]

\* The inductive invariant.
AllCoherent == TypeOK /\ \A q \in Queries : Coherent(q)

-----------------------------------------------------------------------------
\* The values of every variable stay in their types.
LEMMA TypeStep == TypeOK /\ [Next]_vars => TypeOK'
<1> SUFFICES ASSUME TypeOK, [Next]_vars PROVE TypeOK'
  OBVIOUS
<1> USE DeleteAssumption DEF TypeOK, PostStates, PollStates, Targets, Statuses, Active, Ended,
        closureVars, deleteVars, sessionVars, callerVars
<1>1. ASSUME NEW qs \in SUBSET Queries, NEW d \in DataSources, NEW c \in Clusters, Start(qs, d, c)
      PROVE TypeOK'
  BY <1>1 DEF Start, BodySession
<1>2. ASSUME NEW q \in Queries, CancelQuery(q) PROVE TypeOK'
  BY <1>2 DEF CancelQuery, CanCancel
<1>3. ASSUME NEW q \in Queries, ServesPost(q) PROVE TypeOK'
  BY <1>3 DEF ServesPost, AcceptPost, RefusePost
<1>4. ASSUME NEW q \in Queries, PostAnswered(q) PROVE TypeOK'
  <2>1. PICK s \in AnsweredSessions(q) : StoreSession(target[q].dataSource, s)
    BY <1>4 DEF PostAnswered
  <2>2. s \in Queries \cup {None}
    BY <2>1 DEF AnsweredSessions
  <2>3. session' \in [DataSources -> Queries \cup {None}]
    BY <2>1, <2>2 DEF StoreSession
  <2>4. QED
    BY <1>4, <2>3 DEF PostAnswered, PollOrStop
<1>5. ASSUME NEW q \in Queries, PostInvalid(q) \/ PostFails(q) PROVE TypeOK'
  BY <1>5 DEF PostInvalid, PostFails
<1>6. ASSUME NEW q \in Queries, AnswerPoll(q) PROVE TypeOK'
  BY <1>6 DEF AnswerPoll
<1>7. ASSUME NEW q \in Queries, PollSettles(q) PROVE TypeOK'
  BY <1>7 DEF PollSettles, PollLive, PollEnded, PollSuccess, PollUnrecognized, PollFails
<1>8. ASSUME NEW q \in Queries, TimerFires(q) PROVE TypeOK'
  BY <1>8 DEF TimerFires, PollOrStop
<1>9. ASSUME NEW q \in Queries, DeleteSettles(q) PROVE TypeOK'
  <2>1. deletes' \in [Queries -> 0..MaxDeletes]
    <3>1. deletes' = [deletes EXCEPT ![q] = @ - 1] /\ deletes[q] > 0
      BY <1>9 DEF DeleteSettles, DeleteAnswered, DeleteFails
    <3>2. deletes[q] - 1 \in 0..MaxDeletes
      BY <3>1
    <3>3. QED
      BY <3>1, <3>2
  <2>2. CASE DeleteAnswered(q)
    BY <2>1, <2>2 DEF DeleteAnswered
  <2>3. CASE DeleteFails(q)
    BY <2>1, <2>3 DEF DeleteFails
  <2>4. QED
    BY <1>9, <2>2, <2>3 DEF DeleteSettles
<1>10. ASSUME NEW q \in Queries, JobMoves(q) \/ JobEnds(q) PROVE TypeOK'
  BY <1>10 DEF JobMoves, JobEnds
<1>11. CASE UNCHANGED vars
  BY <1>11 DEF vars
<1>12. QED
  BY <1>1, <1>2, <1>3, <1>4, <1>5, <1>6, <1>7, <1>8, <1>9, <1>10, <1>11
  DEF Next, Background, PostSettles

LEMMA InitCoherent == Init => AllCoherent
<1> SUFFICES ASSUME Init PROVE AllCoherent
  OBVIOUS
<1>1. 0 \in 0..MaxDeletes
  BY DeleteAssumption
<1>2. TypeOK
  BY <1>1 DEF Init, TypeOK, PostStates, PollStates
<1>3. ASSUME NEW q \in Queries PROVE Coherent(q)
  BY DEF Init, Coherent, Waiting, Ended
<1>4. QED
  BY <1>2, <1>3 DEF AllCoherent

\* A step leaves each closure coherent: the one it belongs to, and the others,
\* whose variables it does not touch.
LEMMA CoherentStep ==
  ASSUME AllCoherent, [Next]_vars, NEW r \in Queries
  PROVE  Coherent(r)'
<1> USE DEF AllCoherent, TypeOK, Coherent, Waiting, Polling, Active, Ended, Unrecognized, Statuses,
        closureVars, deleteVars, sessionVars, callerVars
<1>1. ASSUME NEW qs \in SUBSET Queries, NEW d \in DataSources, NEW c \in Clusters, Start(qs, d, c)
      PROVE Coherent(r)'
  BY <1>1 DEF Start
<1>2. ASSUME NEW q \in Queries, CancelQuery(q) PROVE Coherent(r)'
  BY <1>2 DEF CancelQuery, CanCancel
<1>3. ASSUME NEW q \in Queries, ServesPost(q) PROVE Coherent(r)'
  BY <1>3, LiveAssumption DEF ServesPost, AcceptPost, RefusePost
<1>4. ASSUME NEW q \in Queries, PostAnswered(q) PROVE Coherent(r)'
  BY <1>4 DEF PostAnswered, PollOrStop
<1>5. ASSUME NEW q \in Queries, PostInvalid(q) \/ PostFails(q) PROVE Coherent(r)'
  BY <1>5 DEF PostInvalid, PostFails
<1>6. ASSUME NEW q \in Queries, AnswerPoll(q) PROVE Coherent(r)'
  BY <1>6 DEF AnswerPoll
<1>7. ASSUME NEW q \in Queries, PollSettles(q) PROVE Coherent(r)'
  BY <1>7, LiveAssumption
  DEF PollSettles, PollLive, PollEnded, PollSuccess, PollUnrecognized, PollFails
<1>8. ASSUME NEW q \in Queries, TimerFires(q) PROVE Coherent(r)'
  BY <1>8 DEF TimerFires, PollOrStop
<1>9. ASSUME NEW q \in Queries, DeleteSettles(q) PROVE Coherent(r)'
  BY <1>9, LiveAssumption DEF DeleteSettles, DeleteAnswered, DeleteFails
<1>10. ASSUME NEW q \in Queries, JobMoves(q) \/ JobEnds(q) PROVE Coherent(r)'
  BY <1>10, LiveAssumption DEF JobMoves, JobEnds
<1>11. CASE UNCHANGED vars
  BY <1>11 DEF vars
<1>12. QED
  BY <1>1, <1>2, <1>3, <1>4, <1>5, <1>6, <1>7, <1>8, <1>9, <1>10, <1>11
  DEF Next, Background, PostSettles

LEMMA StepCoherent == AllCoherent /\ [Next]_vars => AllCoherent'
BY TypeStep, CoherentStep DEF AllCoherent

\* In every execution the closures are well typed and coherent.
THEOREM Coherence == SafeSpec => []AllCoherent
BY InitCoherent, StepCoherent, PTL DEF SafeSpec

\* The variables of AsyncQuery keep their types.
THEOREM TypeCorrect == SafeSpec => []TypeOK
<1>1. AllCoherent => TypeOK
  BY DEF AllCoherent
<1>2. QED
  BY <1>1, Coherence, PTL

\* A closure with nothing outstanding has told its caller how the query ended.
THEOREM OutcomesReported == SafeSpec => []OutcomeReported
<1>1. AllCoherent => OutcomeReported
  BY DEF AllCoherent, Coherent, OutcomeReported
<1>2. QED
  BY <1>1, Coherence, PTL

\* "success" and "cancelled" are reported of jobs that ended so.
THEOREM ReportsAreTrue == SafeSpec => []ReportIsTrue
<1>1. AllCoherent => ReportIsTrue
  BY DEF AllCoherent, Coherent, ReportIsTrue
<1>2. QED
  BY <1>1, Coherence, PTL

-----------------------------------------------------------------------------
\* What isQueryFulfilled means: no request and no timer is outstanding.
LEMMA FulfilledIsIdle ==
  ASSUME AllCoherent, NEW q \in Queries, fulfilled[q]
  PROVE  post[q] = "done" /\ poll[q] = "none"
BY DEF AllCoherent, Coherent, Waiting, Polling

\* The action of FulfilledIsFinal, for one closure.
FrozenStep(r) ==
  /\ post'[r] = post[r] /\ poll'[r] = poll[r]
  /\ reported'[r] = reported[r] /\ errors'[r] = errors[r]
  /\ deletes'[r] <= deletes[r]

LEMMA FulfilledStep ==
  ASSUME AllCoherent, [Next]_vars, NEW r \in Queries, fulfilled[r]
  PROVE  FrozenStep(r)
<1>1. post[r] = "done" /\ poll[r] = "none"
  BY FulfilledIsIdle
<1>2. deletes[r] \in Nat
  BY DeleteAssumption DEF AllCoherent, TypeOK
<1> USE <1>1, <1>2 DEF FrozenStep, AllCoherent, TypeOK, closureVars, deleteVars, sessionVars, callerVars
<1>3. ASSUME NEW qs \in SUBSET Queries, NEW d \in DataSources, NEW c \in Clusters, Start(qs, d, c)
      PROVE FrozenStep(r)
  BY <1>3 DEF Start
<1>4. ASSUME NEW q \in Queries, CancelQuery(q) PROVE FrozenStep(r)
  BY <1>4 DEF CancelQuery, CanCancel
<1>5. ASSUME NEW q \in Queries, ServesPost(q) PROVE FrozenStep(r)
  BY <1>5 DEF ServesPost, AcceptPost, RefusePost
<1>6. ASSUME NEW q \in Queries, PostSettles(q) PROVE FrozenStep(r)
  BY <1>6 DEF PostSettles, PostAnswered, PostInvalid, PostFails
<1>7. ASSUME NEW q \in Queries, AnswerPoll(q) \/ TimerFires(q) PROVE FrozenStep(r)
  BY <1>7 DEF AnswerPoll, TimerFires
<1>8. ASSUME NEW q \in Queries, PollSettles(q) PROVE FrozenStep(r)
  <2>1. q # r
    BY <1>8, LiveAssumption DEF PollSettles, PollLive, PollEnded, PollSuccess, PollUnrecognized, PollFails,
          Statuses, Active, Ended, Unrecognized
  <2>2. QED
    BY <1>8, <2>1 DEF PollSettles, PollLive, PollEnded, PollSuccess, PollUnrecognized, PollFails
<1>9. ASSUME NEW q \in Queries, DeleteSettles(q) PROVE FrozenStep(r)
  <2>1. deletes' = [deletes EXCEPT ![q] = @ - 1] /\ UNCHANGED <<closureVars, callerVars>>
    BY <1>9 DEF DeleteSettles, DeleteAnswered, DeleteFails
  <2>2. deletes'[r] <= deletes[r]
    BY <2>1
  <2>3. QED
    BY <2>1, <2>2
<1>10. ASSUME NEW q \in Queries, JobMoves(q) \/ JobEnds(q) PROVE FrozenStep(r)
  BY <1>10 DEF JobMoves, JobEnds
<1>11. CASE UNCHANGED vars
  BY <1>11 DEF vars
<1>12. QED
  BY <1>3, <1>4, <1>5, <1>6, <1>7, <1>8, <1>9, <1>10, <1>11 DEF Next, Background

\* Nothing of a closure runs once isQueryFulfilled is set.
THEOREM FulfilledForGood == SafeSpec => FulfilledIsFinal
<1>1. AllCoherent /\ [Next]_vars =>
        [\A q \in Queries :
           fulfilled[q] => /\ post'[q] = post[q] /\ poll'[q] = poll[q]
                           /\ reported'[q] = reported[q] /\ errors'[q] = errors[q]
                           /\ deletes'[q] <= deletes[q]]_vars
  BY FulfilledStep DEF FrozenStep
<1>2. QED
  BY <1>1, Coherence, PTL DEF SafeSpec, FulfilledIsFinal

-----------------------------------------------------------------------------
LEMMA CancelledStep ==
  ASSUME AllCoherent, [Next]_vars, NEW r \in Queries, cancelled[r], poll'[r] = "sent"
  PROVE  poll[r] = "sent"
<1>1. post[r] = "done"
  BY DEF AllCoherent, Coherent, Waiting
<1> USE <1>1 DEF AllCoherent, TypeOK, closureVars, deleteVars, sessionVars, callerVars
<1>2. ASSUME NEW qs \in SUBSET Queries, NEW d \in DataSources, NEW c \in Clusters, Start(qs, d, c)
      PROVE poll[r] = "sent"
  BY <1>2 DEF Start
<1>3. ASSUME NEW q \in Queries, CancelQuery(q) PROVE poll[r] = "sent"
  BY <1>3 DEF CancelQuery
<1>4. ASSUME NEW q \in Queries, ServesPost(q) PROVE poll[r] = "sent"
  BY <1>4 DEF ServesPost, AcceptPost, RefusePost
<1>5. ASSUME NEW q \in Queries, PostSettles(q) PROVE poll[r] = "sent"
  BY <1>5 DEF PostSettles, PostAnswered, PostInvalid, PostFails
<1>6. ASSUME NEW q \in Queries, AnswerPoll(q) PROVE poll[r] = "sent"
  BY <1>6 DEF AnswerPoll
<1>7. ASSUME NEW q \in Queries, PollSettles(q) PROVE poll[r] = "sent"
  BY <1>7 DEF PollSettles, PollLive, PollEnded, PollSuccess, PollUnrecognized, PollFails
<1>8. ASSUME NEW q \in Queries, TimerFires(q) PROVE poll[r] = "sent"
  BY <1>8 DEF TimerFires, PollOrStop
<1>9. ASSUME NEW q \in Queries, DeleteSettles(q) \/ JobMoves(q) \/ JobEnds(q) PROVE poll[r] = "sent"
  BY <1>9 DEF DeleteSettles, DeleteAnswered, DeleteFails, JobMoves, JobEnds
<1>10. CASE UNCHANGED vars
  BY <1>10 DEF vars
<1>11. QED
  BY <1>2, <1>3, <1>4, <1>5, <1>6, <1>7, <1>8, <1>9, <1>10 DEF Next, Background

\* No GET is sent for a query its caller has cancelled.
THEOREM CancelStopsPolling == SafeSpec => NoPollAfterCancel
<1>1. AllCoherent /\ [Next]_vars =>
        [\A q \in Queries : cancelled[q] /\ poll'[q] = "sent" => poll[q] = "sent"]_vars
  BY CancelledStep
<1>2. QED
  BY <1>1, Coherence, PTL DEF SafeSpec, NoPollAfterCancel

-----------------------------------------------------------------------------
(* Sessions *)

\* The store, like the bodies, only holds sessions of the right data source.
StoredSession ==
  \A d \in DataSources :
    session[d] # None => jobId[session[d]] /\ target[session[d]].dataSource = d

\* A query has a target once it is started.
Targeted == \A q \in Queries : post[q] # "idle" => target[q] \in Targets

SessionInv == AllCoherent /\ Targeted /\ StoredSession /\ SessionOfDataSource

LEMMA SessionStep ==
  ASSUME SessionInv, [Next]_vars
  PROVE  Targeted' /\ StoredSession' /\ SessionOfDataSource'
<1> USE NoneAssumption DEF SessionInv, AllCoherent, TypeOK, Targeted, StoredSession, SessionOfDataSource,
        closureVars, deleteVars, sessionVars, callerVars
<1> DEFINE Goal == Targeted /\ StoredSession /\ SessionOfDataSource
<1>1. ASSUME NEW qs \in SUBSET Queries, NEW d \in DataSources, NEW c \in Clusters, Start(qs, d, c)
      PROVE Goal'
  <2>1. \A q \in Queries : jobId[q] => q \notin qs
    BY <1>1 DEF Start, Coherent, Waiting
  <2>2. Targeted'
    BY <1>1 DEF Start, Targets
  <2>3. StoredSession'
    BY <1>1, <2>1 DEF Start
  <2>4. ASSUME NEW q \in Queries, sent'[q] # None
        PROVE  jobId'[sent'[q]] /\ target'[sent'[q]].dataSource = target'[q].dataSource
    <3>1. CASE q \in qs
      <4>1. sent'[q] = session[d] /\ target'[q].dataSource = d
        BY <1>1, <2>4, <3>1 DEF Start, BodySession
      <4>2. QED
        BY <1>1, <2>1, <2>4, <4>1 DEF Start
    <3>2. CASE q \notin qs
      BY <1>1, <2>1, <2>4, <3>2 DEF Start
    <3>3. QED
      BY <3>1, <3>2
  <2>5. QED
    BY <2>2, <2>3, <2>4
<1>2. ASSUME NEW q \in Queries, PostAnswered(q) PROVE Goal'
  <2>1. PICK s \in AnsweredSessions(q) : StoreSession(target[q].dataSource, s)
    BY <1>2 DEF PostAnswered
  <2>2. target[q] \in Targets
    BY <1>2 DEF PostAnswered
  <2>3. jobId' = [jobId EXCEPT ![q] = TRUE] /\ UNCHANGED <<target, sent>>
    BY <1>2 DEF PostAnswered
  <2>4. s # None => s \in Queries /\ jobId'[s] /\ target[s].dataSource = target[q].dataSource
    BY <2>1, <2>3 DEF AnsweredSessions
  <2>5. StoredSession'
    BY <2>1, <2>2, <2>3, <2>4 DEF StoreSession, Targets
  <2>6. SessionOfDataSource'
    BY <2>3
  <2>7. Targeted'
    BY <1>2, <2>2 DEF PostAnswered
  <2>8. QED
    BY <2>5, <2>6, <2>7
<1>3. ASSUME NEW q \in Queries, ServesPost(q) \/ PostInvalid(q) \/ PostFails(q) PROVE Goal'
  BY <1>3 DEF ServesPost, AcceptPost, RefusePost, PostInvalid, PostFails
<1>4. ASSUME NEW q \in Queries, CancelQuery(q) \/ AnswerPoll(q) \/ PollSettles(q) \/ TimerFires(q)
      PROVE Goal'
  BY <1>4 DEF CancelQuery, AnswerPoll, TimerFires, PollSettles, PollLive, PollEnded, PollSuccess,
        PollUnrecognized, PollFails
<1>5. ASSUME NEW q \in Queries, DeleteSettles(q) \/ JobMoves(q) \/ JobEnds(q) PROVE Goal'
  BY <1>5 DEF DeleteSettles, DeleteAnswered, DeleteFails, JobMoves, JobEnds
<1>6. CASE UNCHANGED vars
  BY <1>6 DEF vars
<1>7. QED
  BY <1>1, <1>2, <1>3, <1>4, <1>5, <1>6 DEF Next, Background, PostSettles

\* A POST carries no session but one of its own data source.
THEOREM SessionsStayApart == SafeSpec => []SessionOfDataSource
<1>1. Init => SessionInv
  BY InitCoherent DEF Init, SessionInv, Targeted, StoredSession, SessionOfDataSource
<1>2. SessionInv /\ [Next]_vars => SessionInv'
  BY SessionStep, StepCoherent DEF SessionInv
<1>3. SessionInv => SessionOfDataSource
  BY DEF SessionInv
<1>4. QED
  BY <1>1, <1>2, <1>3, PTL DEF SafeSpec

-----------------------------------------------------------------------------
(* The refinement of AsyncJob *)

View == [q \in Queries |-> CallerView(q)]

\* A step that changes the caller's view of at most one query, from waiting to
\* an outcome, is a step of AsyncJob or a stutter.
LEMMA ViewStep ==
  ASSUME NEW q \in Queries, UNCHANGED cancelled,
         CallerView(q) = "waiting",
         CallerView(q)' \in {"waiting"} \cup Promise!Outcomes,
         \A r \in Queries \ {q} : CallerView(r)' = CallerView(r)
  PROVE  [Promise!Next]_(Promise!vars)
<1>1. CASE CallerView(q)' = "waiting"
  <2>1. View' = View
    BY <1>1 DEF View
  <2>2. QED
    BY <2>1 DEF View, Promise!vars
<1>2. CASE CallerView(q)' \in Promise!Outcomes
  <2>1. View' = [View EXCEPT ![q] = CallerView(q)']
    BY DEF View
  <2>2. Promise!Settle(q)
    BY <1>2, <2>1 DEF View, Promise!Settle
  <2>3. QED
    BY <2>2 DEF Promise!Next
<1>3. QED
  BY <1>1, <1>2

\* A step that leaves every view alone is a stutter.
LEMMA ViewStutter ==
  ASSUME UNCHANGED cancelled, \A r \in Queries : CallerView(r)' = CallerView(r)
  PROVE  UNCHANGED Promise!vars
<1>1. View' = View
  BY DEF View
<1>2. QED
  BY <1>1 DEF View, Promise!vars

LEMMA PromiseStep ==
  ASSUME AllCoherent, [Next]_vars
  PROVE  [Promise!Next]_(Promise!vars)
<1> USE DEF AllCoherent, TypeOK, closureVars, deleteVars, sessionVars, callerVars
<1>1. ASSUME NEW qs \in SUBSET Queries, NEW d \in DataSources, NEW c \in Clusters, Start(qs, d, c)
      PROVE Promise!Next
  <2>1. \A q \in qs : CallerView(q) = "idle" /\ CallerView(q)' = "waiting"
    BY <1>1 DEF Start, CallerView, Coherent, Waiting, Ended, Unrecognized
  <2>2. \A q \in Queries \ qs : CallerView(q)' = CallerView(q)
    BY <1>1 DEF Start, CallerView
  <2>3. View' = [q \in Queries |-> IF q \in qs THEN "waiting" ELSE View[q]]
    BY <2>1, <2>2 DEF View
  <2>4. Promise!Submit(qs)
    BY <1>1, <2>1, <2>3 DEF Start, View, Promise!Submit
  <2>5. QED
    BY <2>4 DEF Promise!Next
<1>2. ASSUME NEW q \in Queries, CancelQuery(q) PROVE Promise!Next
  <2>1. post[q] = "done" /\ reported[q] \notin Ended
    BY <1>2 DEF CancelQuery, CanCancel, Coherent, Waiting
  <2>2. CallerView(q) \in {"waiting", "unknown"}
    BY <1>2, <2>1 DEF CancelQuery, CanCancel, CallerView, Coherent
  <2>3. \A r \in Queries : CallerView(r)' = CallerView(r)
    BY <1>2 DEF CancelQuery, CallerView
  <2>4. View' = View
    BY <2>3 DEF View
  <2>5. Promise!AskCancel(q)
    BY <1>2, <2>2, <2>4 DEF CancelQuery, View, Promise!AskCancel
  <2>6. QED
    BY <2>5 DEF Promise!Next
<1>3. ASSUME NEW q \in Queries, ServesPost(q) PROVE UNCHANGED Promise!vars
  <2>1. \A r \in Queries : CallerView(r)' = CallerView(r)
    BY <1>3 DEF ServesPost, AcceptPost, RefusePost, CallerView
  <2>2. QED
    BY <1>3, <2>1, ViewStutter DEF ServesPost, AcceptPost, RefusePost
<1>4. ASSUME NEW q \in Queries, PostSettles(q) PROVE [Promise!Next]_(Promise!vars)
  <2>1. CallerView(q) = "waiting"
    BY <1>4 DEF PostSettles, PostAnswered, PostInvalid, PostFails, CallerView, Coherent, Waiting, Ended, Unrecognized
  <2>2. CallerView(q)' \in {"waiting"} \cup Promise!Outcomes
    BY <1>4 DEF PostSettles, PostAnswered, PostInvalid, PostFails, CallerView, Coherent, Waiting, Ended,
          Unrecognized, Promise!Outcomes
  <2>3. \A r \in Queries \ {q} : CallerView(r)' = CallerView(r)
    BY <1>4 DEF PostSettles, PostAnswered, PostInvalid, PostFails, CallerView
  <2>4. UNCHANGED cancelled
    BY <1>4 DEF PostSettles, PostAnswered, PostInvalid, PostFails
  <2>5. QED
    BY <2>1, <2>2, <2>3, <2>4, ViewStep
<1>5. ASSUME NEW q \in Queries, PollSettles(q) PROVE [Promise!Next]_(Promise!vars)
  <2>1. poll[q] # "none" /\ poll[q] # "timer"
    BY <1>5, LiveAssumption DEF PollSettles, PollLive, PollEnded, PollSuccess, PollUnrecognized, PollFails,
          Statuses, Active, Ended, Unrecognized
  <2>2. CallerView(q) = "waiting"
    BY <2>1, LiveAssumption DEF CallerView, Coherent, Polling, Waiting, Ended, Unrecognized
  <2>3. CallerView(q)' \in {"waiting"} \cup Promise!Outcomes
    BY <1>5, <2>1, LiveAssumption DEF PollSettles, PollLive, PollEnded, PollSuccess, PollUnrecognized, PollFails,
          CallerView, Coherent, Polling, Waiting, Ended, Unrecognized, Promise!Outcomes
  <2>4. \A r \in Queries \ {q} : CallerView(r)' = CallerView(r)
    BY <1>5 DEF PollSettles, PollLive, PollEnded, PollSuccess, PollUnrecognized, PollFails, CallerView
  <2>5. UNCHANGED cancelled
    BY <1>5 DEF PollSettles, PollLive, PollEnded, PollSuccess, PollUnrecognized, PollFails
  <2>6. QED
    BY <2>2, <2>3, <2>4, <2>5, ViewStep
<1>6. ASSUME NEW q \in Queries, AnswerPoll(q) \/ TimerFires(q) PROVE UNCHANGED Promise!vars
  BY <1>6, ViewStutter DEF AnswerPoll, TimerFires, CallerView
<1>7. ASSUME NEW q \in Queries, DeleteSettles(q) \/ JobMoves(q) \/ JobEnds(q) PROVE UNCHANGED Promise!vars
  BY <1>7, ViewStutter DEF DeleteSettles, DeleteAnswered, DeleteFails, JobMoves, JobEnds, CallerView
<1>8. CASE UNCHANGED vars
  BY <1>8, ViewStutter DEF vars, CallerView
<1>9. QED
  BY <1>1, <1>2, <1>3, <1>4, <1>5, <1>6, <1>7, <1>8 DEF Next, Background

\* The closures implement AsyncJob, but for its fairness: whatever they do, the
\* caller sees each query settled at most once.
THEOREM Refinement == SafeSpec => Promise!SafeSpec
<1>1. Init => Promise!Init
  BY DEF Init, Promise!Init, CallerView
<1>2. AllCoherent /\ [Next]_vars => [Promise!Next]_(Promise!vars)
  BY PromiseStep
<1>3. QED
  BY <1>1, <1>2, Coherence, PTL DEF SafeSpec, Promise!SafeSpec

-----------------------------------------------------------------------------
(* The page *)

LEMMA PageTypeStep == PageTypeOK /\ [MainNext]_mainVars => PageTypeOK'
<1> SUFFICES ASSUME PageTypeOK, [MainNext]_mainVars PROVE PageTypeOK'
  OBVIOUS
<1> USE DEF PageTypeOK, SetLoading, ShowNothing, Statuses, Active, Ended, Unrecognized,
        loadingVars, resultVars, choiceVars, runVars
<1>1. ASSUME NEW qs \in SUBSET Queries, NEW first \in qs, NEW last \in qs, RunAsync(qs, first, last)
      PROVE  PageTypeOK'
  BY <1>1 DEF RunAsync
<1>2. ASSUME Cancel \/ Clear \/ ChangeTab PROVE PageTypeOK'
  BY <1>2 DEF Cancel, Clear, ChangeTab
<1>3. CASE RunSync
  <2>1. syncRuns' \in 0..MaxSync
    BY <1>3, SyncAssumption DEF RunSync
  <2>2. QED
    BY <1>3, <2>1 DEF RunSync
<1>4. ASSUME NEW d \in DataSources \cup {OpenSearch}, SelectDatasource(d) PROVE PageTypeOK'
  BY <1>4 DEF SelectDatasource
<1>5. ASSUME NEW c \in Clusters, SelectCluster(c) PROVE PageTypeOK'
  BY <1>5 DEF SelectCluster
<1>6. CASE SyncAnswered
  <2>1. syncRuns' \in 0..MaxSync
    BY <1>6, SyncAssumption DEF SyncAnswered
  <2>2. QED
    BY <1>6, <2>1 DEF SyncAnswered
<1>7. ASSUME NEW q \in Queries, CallsBack(q) PROVE PageTypeOK'
  BY <1>7 DEF CallsBack, RunRefused, RunSucceeds, RunEnds, RunFails, RunReports, PollEnded, PollLive, PollUnrecognized
<1>8. ASSUME NEW q \in Queries, Silent(q) PROVE PageTypeOK'
  BY <1>8 DEF Silent
<1>9. CASE UNCHANGED mainVars
  BY <1>9 DEF mainVars
<1>10. QED
  BY <1>1, <1>2, <1>3, <1>4, <1>5, <1>6, <1>7, <1>8, <1>9 DEF MainNext, User

LEMMA PageTyped == MainSafeSpec => []PageTypeOK
<1>1. MainInit => PageTypeOK
  <2>1. 0 \in 0..MaxSync
    BY SyncAssumption
  <2>2. QED
    BY <2>1 DEF MainInit, PageTypeOK, Statuses, Ended
<1>2. QED
  BY <1>1, PageTypeStep, PTL DEF MainSafeSpec

\* A step of Main is a step of the closures or leaves them alone.
LEMMA MainDrivesClosures == PageTypeOK /\ [MainNext]_mainVars => [Next]_vars
<1> SUFFICES ASSUME PageTypeOK, [MainNext]_mainVars PROVE [Next]_vars
  OBVIOUS
<1>1. ASSUME NEW qs \in SUBSET Queries, NEW first \in qs, NEW last \in qs, RunAsync(qs, first, last)
      PROVE  Next
  BY <1>1 DEF RunAsync, PageTypeOK, Next
<1>2. CASE Cancel
  <2>1. CASE CanCancel(cancelQueryHandler) /\ cancelQueryHandler \in Queries
    BY <1>2, <2>1 DEF Cancel, Next
  <2>2. CASE ~CanCancel(cancelQueryHandler)
    BY <1>2, <2>2 DEF Cancel
  <2>3. QED
    BY <1>2, <2>1, <2>2 DEF PageTypeOK, Cancel
<1>3. ASSUME NEW q \in Queries, CallsBack(q) PROVE Next
  BY <1>3 DEF CallsBack, RunRefused, RunSucceeds, RunEnds, RunFails, RunReports, Next, Background,
        PostSettles, PollSettles
<1>4. ASSUME NEW q \in Queries, Silent(q) PROVE Next
  BY <1>4 DEF Silent, Next, Background, PostSettles
<1>5. QED
  BY <1>1, <1>2, <1>3, <1>4 DEF MainNext, User, Clear, ChangeTab, RunSync, SelectDatasource, SelectCluster,
        SyncAnswered, mainVars

LEMMA MainRunsClosures == MainSafeSpec => SafeSpec
<1>1. MainInit => Init
  BY DEF MainInit
<1>2. QED
  BY <1>1, PageTyped, MainDrivesClosures, PTL DEF MainSafeSpec, SafeSpec

\* Every variable of the page and of the closures keeps its type.
THEOREM MainTypeCorrect == MainSafeSpec => []MainTypeOK
<1>1. TypeOK /\ PageTypeOK => MainTypeOK
  BY DEF MainTypeOK
<1>2. QED
  BY <1>1, PageTyped, MainRunsClosures, TypeCorrect, PTL

-----------------------------------------------------------------------------
(* The loading flag *)

\* A closure that falls silent in a step that does not call back was cancelled.
LEMMA SilentKeepsExplained ==
  ASSUME AllCoherent, NEW q \in Queries, Silent(q), NEW r \in Queries,
         Outstanding(r) \/ Unheard(r)
  PROVE  (Outstanding(r) \/ Unheard(r))'
<1> USE DEF AllCoherent, TypeOK, Outstanding, Unheard, closureVars, deleteVars, sessionVars, callerVars
<1>1. CASE ServesPost(q)
  BY <1>1 DEF ServesPost, AcceptPost, RefusePost
<1>2. CASE PostAnswered(q)
  BY <1>2 DEF PostAnswered, PollOrStop
<1>3. CASE AnswerPoll(q)
  BY <1>3 DEF AnswerPoll, Coherent, Polling
<1>4. CASE TimerFires(q)
  BY <1>4 DEF TimerFires, PollOrStop
<1>5. CASE DeleteSettles(q) \/ JobMoves(q) \/ JobEnds(q)
  BY <1>5 DEF DeleteSettles, DeleteAnswered, DeleteFails, JobMoves, JobEnds
<1>6. QED
  BY <1>1, <1>2, <1>3, <1>4, <1>5 DEF Silent

LEMMA LoadingStep ==
  ASSUME AllCoherent, PageTypeOK, LoadingExplained, [MainNext]_mainVars
  PROVE  LoadingExplained'
<1> USE DEF LoadingExplained, SetLoading
<1>1. ASSUME NEW qs \in SUBSET Queries, NEW first \in qs, NEW last \in qs, RunAsync(qs, first, last)
      PROVE  LoadingExplained'
  <2>1. Outstanding(first)'
    BY <1>1 DEF RunAsync, Start, Outstanding
  <2>2. QED
    BY <2>1
<1>2. ASSUME Cancel \/ Clear \/ SyncAnswered PROVE LoadingExplained'
  BY <1>2 DEF Cancel, Clear, SyncAnswered
<1>3. ASSUME NEW d \in DataSources \cup {OpenSearch}, SelectDatasource(d) PROVE LoadingExplained'
  BY <1>3 DEF SelectDatasource
<1>4. ASSUME UNCHANGED <<vars, asyncLoading>> PROVE LoadingExplained'
  BY <1>4 DEF vars, closureVars, deleteVars, sessionVars, callerVars, Outstanding, Unheard
<1>5. ASSUME NEW q \in Queries, RunRefused(q) \/ RunSucceeds(q) \/ RunEnds(q) \/ RunFails(q)
      PROVE  LoadingExplained'
  BY <1>5 DEF RunRefused, RunSucceeds, RunEnds, RunFails
<1>6. ASSUME NEW q \in Queries, RunReports(q) PROVE LoadingExplained'
  <2>1. (Outstanding(q) \/ Unheard(q))'
    BY <1>6 DEF RunReports, PollLive, PollUnrecognized, Outstanding, Unheard, AllCoherent, TypeOK
  <2>2. QED
    BY <2>1
<1>7. ASSUME NEW q \in Queries, Silent(q) PROVE LoadingExplained'
  <2>1. UNCHANGED asyncLoading
    BY <1>7 DEF Silent, loadingVars
  <2>2. QED
    BY <1>7, <2>1, SilentKeepsExplained
<1>8. QED
  BY <1>1, <1>2, <1>3, <1>4, <1>5, <1>6, <1>7
  DEF MainNext, User, CallsBack, SelectCluster, ChangeTab, RunSync, mainVars, loadingVars

\* The page is loading only while a closure will call back, or after a late
\* answer or an unknown status that no later one follows.
THEOREM LoadingIsExplained == MainSafeSpec => []LoadingExplained
<1>1. MainInit => LoadingExplained
  BY DEF MainInit, LoadingExplained
<1>2. QED
  BY <1>1, LoadingStep, PageTyped, MainRunsClosures, Coherence, PTL DEF MainSafeSpec

-----------------------------------------------------------------------------
(* The Cancel button *)

Cancellable(q) == reported[q] = asyncLoadingStatus /\ CanCancel(q)

LEMMA CancelStep ==
  ASSUME AllCoherent, PageTypeOK, CancelOffered, [MainNext]_mainVars
  PROVE  CancelOffered'
<1> USE DEF CancelOffered, CancelVisible, SetLoading, Ended
<1>1. ASSUME NEW qs \in SUBSET Queries, NEW first \in qs, NEW last \in qs, RunAsync(qs, first, last)
      PROVE  CancelOffered'
  BY <1>1 DEF RunAsync
<1>2. ASSUME Cancel \/ Clear \/ SyncAnswered PROVE CancelOffered'
  BY <1>2 DEF Cancel, Clear, SyncAnswered
<1>3. ASSUME NEW d \in DataSources \cup {OpenSearch}, SelectDatasource(d) PROVE CancelOffered'
  BY <1>3 DEF SelectDatasource
<1>4. ASSUME UNCHANGED <<vars, asyncLoadingStatus>> PROVE CancelOffered'
  BY <1>4 DEF vars, closureVars, callerVars, CanCancel
<1>5. ASSUME NEW q \in Queries, RunRefused(q) \/ RunSucceeds(q) \/ RunEnds(q) \/ RunFails(q)
      PROVE  CancelOffered'
  BY <1>5 DEF RunRefused, RunSucceeds, RunEnds, RunFails, PollEnded
<1>6. ASSUME NEW q \in Queries, RunReports(q) PROVE CancelOffered'
  <2>1. Cancellable(q)'
    BY <1>6, LiveAssumption DEF RunReports, PollLive, PollUnrecognized, Cancellable, CanCancel, AllCoherent,
          TypeOK, Coherent, Polling, Unrecognized
  <2>2. QED
    BY <2>1 DEF Cancellable
<1>7. ASSUME NEW q \in Queries, Silent(q) PROVE CancelOffered'
  <2>1. UNCHANGED <<asyncLoadingStatus, reported, fulfilled>>
    BY <1>7 DEF Silent, loadingVars, closureVars, callerVars, ServesPost, AcceptPost, RefusePost, PostAnswered,
          AnswerPoll, TimerFires, DeleteSettles, DeleteAnswered, DeleteFails, JobMoves, JobEnds
  <2>2. \A r \in Queries : jobId[r] => jobId'[r]
    BY <1>7 DEF Silent, closureVars, ServesPost, AcceptPost, RefusePost, PostAnswered,
          AnswerPoll, TimerFires, DeleteSettles, DeleteAnswered, DeleteFails, JobMoves, JobEnds,
          AllCoherent, TypeOK
  <2>3. QED
    BY <2>1, <2>2 DEF CanCancel
<1>8. QED
  BY <1>1, <1>2, <1>3, <1>4, <1>5, <1>6, <1>7
  DEF MainNext, User, CallsBack, SelectCluster, ChangeTab, RunSync, mainVars, loadingVars

\* The page offers Cancel only while a job whose status it displays can be cancelled.
THEOREM CancelIsOffered == MainSafeSpec => []CancelOffered
<1>1. MainInit => CancelOffered
  BY DEF MainInit, CancelOffered, CancelVisible, Ended
<1>2. QED
  BY <1>1, CancelStep, PageTyped, MainRunsClosures, Coherence, PTL DEF MainSafeSpec

-----------------------------------------------------------------------------
(* The result table *)

\* What is shown was reported as a success; the truth of reports does the rest.
ShownReported == queryResultsTable \in Queries => reported[queryResultsTable] = "success"

LEMMA ShownStep ==
  ASSUME AllCoherent, PageTypeOK, ShownReported, [MainNext]_mainVars
  PROVE  ShownReported'
<1> USE DEF ShownReported, ShowNothing, resultVars
<1>1. UNCHANGED queryResultsTable => ShownReported'
  <2> SUFFICES ASSUME UNCHANGED queryResultsTable, queryResultsTable \in Queries PROVE ShownReported'
    OBVIOUS
  <2>1. fulfilled[queryResultsTable]
    BY DEF AllCoherent, Coherent, Ended
  <2>2. FrozenStep(queryResultsTable)
    BY <2>1, MainDrivesClosures, FulfilledStep
  <2>3. QED
    BY <2>2 DEF FrozenStep
<1>2. queryResultsTable' \notin Queries => ShownReported'
  OBVIOUS
<1>3. ASSUME NEW q \in Queries, RunSucceeds(q) PROVE ShownReported'
  BY <1>3, NoneAssumption DEF RunSucceeds, PollSuccess, AllCoherent, TypeOK
<1>4. ASSUME NEW q \in Queries, RunRefused(q) \/ RunEnds(q) \/ RunFails(q) \/ RunReports(q) \/ Silent(q)
      PROVE  ShownReported'
  BY <1>1, <1>4 DEF RunRefused, RunEnds, RunFails, RunReports, Silent
<1>5. QED
  BY <1>1, <1>2, <1>3, <1>4, NoneAssumption, SyncAssumption
  DEF MainNext, User, CallsBack, RunAsync, Cancel, Clear, SelectDatasource, SelectCluster, ChangeTab, RunSync,
      SyncAnswered, mainVars

\* Only the result of a query that succeeded on the server is ever shown.
THEOREM ShownHasSucceeded == MainSafeSpec => []ShownSucceeded
<1>1. MainInit => ShownReported
  BY NoneAssumption DEF MainInit, ShownReported
<1>2. AllCoherent /\ ShownReported => ShownSucceeded
  BY DEF AllCoherent, Coherent, ShownReported, ShownSucceeded
<1>3. QED
  BY <1>1, <1>2, ShownStep, PageTyped, MainRunsClosures, Coherence, PTL DEF MainSafeSpec
=============================================================================

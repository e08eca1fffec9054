------------------------------ MODULE AsyncJob ------------------------------
(***************************************************************************)
(* What executeAsyncQuery promises to its caller, without the network, the *)
(* polling loop or the job server: every submitted query is settled at     *)
(* most once, and is settled eventually unless its caller asked for it to  *)
(* be cancelled.  AsyncQuery is shown to implement this module.            *)
(***************************************************************************)
CONSTANT Queries

VARIABLES view,      \* view[q]: what the caller has been told about q
          stopping   \* stopping[q]: the caller asked for q to be cancelled

vars == <<view, stopping>>

\* "unknown": the caller was given a status it cannot interpret, and an error.
Outcomes == {"success", "failed", "cancelled", "unknown"}

Init ==
  /\ view = [q \in Queries |-> "idle"]
  /\ stopping = [q \in Queries |-> FALSE]

\* One event handler may submit several queries.
Submit(qs) ==
  /\ \A q \in qs : view[q] = "idle"
  /\ view' = [q \in Queries |-> IF q \in qs THEN "waiting" ELSE view[q]]
  /\ UNCHANGED stopping

Settle(q) ==
  /\ view[q] = "waiting"
  /\ \E o \in Outcomes : view' = [view EXCEPT ![q] = o]
  /\ UNCHANGED stopping

\* A cancellation may be asked while the query runs, and after an answer that
\* could not be interpreted, since the job may then still be running.
AskCancel(q) ==
  /\ view[q] \in {"waiting", "unknown"}
  /\ stopping' = [stopping EXCEPT ![q] = TRUE]
  /\ UNCHANGED view

Next ==
  \/ \E qs \in SUBSET Queries : Submit(qs)
  \/ \E q \in Queries : Settle(q) \/ AskCancel(q)

\* A cancelled query may stay without an outcome: nobody polls for it anymore.
Fairness == \A q \in Queries : WF_vars(Settle(q) /\ ~stopping[q])

SafeSpec == Init /\ [][Next]_vars
Spec == SafeSpec /\ Fairness
=============================================================================

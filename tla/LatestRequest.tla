---------------------------- MODULE LatestRequest ----------------------------
(***************************************************************************)
(* What a page that asks anew before the last answer has come promises:    *)
(* it shows one answer to each request at most, and only to the latest.    *)
(* Answers to requests that were superseded do not show, and an answer     *)
(* that is shown stays until something else is asked.  DataSourceSwitch    *)
(* is shown to implement this module twice, with the capabilities and      *)
(* with the index tree.                                                    *)
(***************************************************************************)
CONSTANTS
  Requests,    \* what can be asked
  Answers,     \* Answers[r]: the answers to r
  First,       \* what is shown before anything has been answered
  Meanwhile    \* Meanwhile[a]: what takes the place of a until the next answer

VARIABLES request,    \* the latest
          answered,   \* it has been answered
          answer      \* what is shown

vars == <<request, answered, answer>>

Init ==
  /\ request \in Requests
  /\ answered = FALSE
  /\ answer = First

Ask(r) ==
  /\ request' = r
  /\ answered' = FALSE
  /\ answer' = Meanwhile[answer]

Reply ==
  /\ ~answered
  /\ answered' = TRUE
  /\ answer' \in Answers[request]
  /\ UNCHANGED request

Next == Reply \/ \E r \in Requests : Ask(r)

Spec == Init /\ [][Next]_vars
=============================================================================

----------------------------- MODULE MCSyncRun ------------------------------
(* SyncRun on small instances. *)
EXTENDS SyncRun

CONSTANTS q1, q2

SmallBatches == {<<q1>>, <<q2, q1>>}
=============================================================================

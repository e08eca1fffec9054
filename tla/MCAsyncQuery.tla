---------------------------- MODULE MCAsyncQuery ----------------------------
(* AsyncQuery on small instances. *)
EXTENDS AsyncQuery, TLC

\* The safety run explores executions up to a permutation of the queries.
QuerySymmetry == Permutations(Queries)
=============================================================================

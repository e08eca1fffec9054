---------------------------- MODULE MCMainAsync -----------------------------
(* MainAsync on small instances. *)
EXTENDS MainAsync, TLC

QuerySymmetry == Permutations(Queries)
=============================================================================

------------------------------ MODULE MCRouting -----------------------------
(* The minor versions on both sides of every threshold: 2.11, 2.12, 2.13,   *)
(* 3.0 and 7.9.                                                             *)
EXTENDS Routing

MCMinors == {8, 9, 11, 12, 13}
=============================================================================

------------------------- MODULE MCAccelerationForm -------------------------
(* AccelerationForm on small instances. *)
EXTENDS AccelerationForm, TLC

CONSTANTS s1, s2, d1, d2, t1, t2

MCSourceOf == d1 :> s1 @@ d2 :> s2
MCDatabaseOf == t1 :> d1 @@ t2 :> d1
=============================================================================

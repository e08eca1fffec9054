------------------------- MODULE MCDataSourceSwitch -------------------------
(* DataSourceSwitch on small instances. *)
EXTENDS DataSourceSwitch
=============================================================================

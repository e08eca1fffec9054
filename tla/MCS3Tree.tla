------------------------------ MODULE MCS3Tree ------------------------------
(* S3Tree on small instances: two connections of one cluster, and one of    *)
(* another cluster that has the name of the first.                          *)
EXTENDS S3Tree

CONSTANTS near, other, far, db1, db2

MCConns == {near, other, far}
MCCluster == [c \in MCConns |-> IF c = far THEN "remote" ELSE "local"]
MCName == [c \in MCConns |-> IF c = other THEN "glue" ELSE "s3"]
MCDatabases == {db1, db2}
MCCatalog == [c \in MCConns |-> IF c = other THEN {db1} ELSE {db1, db2}]
=============================================================================

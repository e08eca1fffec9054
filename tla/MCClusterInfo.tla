--------------------------- MODULE MCClusterInfo ----------------------------
(* ClusterInfo on a small instance. *)
EXTENDS ClusterInfo

\* OpenDistro on Elasticsearch 7.10, without data sources, and OpenSearch with them.
SmallDeployments ==
  {[version |-> Version(7, 10), engine |-> "elasticsearch"],
   [version |-> Version(2, 13), engine |-> "opensearch"]}
=============================================================================

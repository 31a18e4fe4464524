------------------------------- MODULE MCCluster -------------------------------
(* Instances of Cluster.                                                   *)
EXTENDS Cluster

\* One packet, and more than two parts.
MCSizes == {1, 5}
MCReplySizes == {3}
=============================================================================

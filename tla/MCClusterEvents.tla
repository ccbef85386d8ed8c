--------------------------- MODULE MCClusterEvents ---------------------------
(***************************************************************************)
(* Instances of ClusterEvents for TLC: the configurations give the         *)
(* constants their values.                                                 *)
(***************************************************************************)
EXTENDS ClusterEvents
=============================================================================

----------------------------- MODULE MCRaftNode -----------------------------
(***************************************************************************)
(* Instances of RaftNode for TLC: the configurations give the constants    *)
(* their values.                                                           *)
(***************************************************************************)
EXTENDS RaftNode
=============================================================================

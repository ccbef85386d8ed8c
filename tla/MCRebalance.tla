----------------------------- MODULE MCRebalance -----------------------------
(***************************************************************************)
(* Instances of Rebalance for TLC: the configurations give the constants   *)
(* their values.                                                           *)
(***************************************************************************)
EXTENDS Rebalance
=============================================================================

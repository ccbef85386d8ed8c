------------------------ MODULE MCTransactionManager ------------------------
(***************************************************************************)
(* Instances of TransactionManager for TLC: the configurations give the    *)
(* constants their values.                                                 *)
(***************************************************************************)
EXTENDS TransactionManager
=============================================================================

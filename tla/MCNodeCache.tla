---------------------------- MODULE MCNodeCache ----------------------------
(***************************************************************************)
(* Instances of NodeCache.                                                 *)
(***************************************************************************)
EXTENDS NodeCache
=============================================================================

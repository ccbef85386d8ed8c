--------------------------- MODULE MCLockManager ---------------------------
(***************************************************************************)
(* Instances of LockManager for TLC.                                       *)
(***************************************************************************)
EXTENDS LockManager

\* Every goroutine passes an owner identifier of its own.
ClientIsOwner == [c \in Clients |-> c]
=============================================================================

----------------------------- MODULE MCDatabase -----------------------------
(***************************************************************************)
(* Instances of Database for TLC: two migrators in one process, one in the *)
(* other, and lists of migrations that are unsorted, have gaps, name a     *)
(* version twice and contradict each other.                                *)
(***************************************************************************)
EXTENDS Database

MCHome == [g \in Migrators |-> IF g \in {"g1", "g2"} THEN "s1" ELSE "s2"]
MCLists == {<<2, 1, 5>>, <<5, 2, 5>>}
=============================================================================

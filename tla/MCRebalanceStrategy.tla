------------------------ MODULE MCRebalanceStrategy ------------------------
(***************************************************************************)
(* An instance of RebalanceStrategy for TLC.  The nodes are symmetric.     *)
(***************************************************************************)
EXTENDS RebalanceStrategy, TLC

\* An empty node, one with a single shard, and loads that differ in every
\* component, so that the strategies disagree on the order of the nodes.
MCMetrics ==
  {[cpu |-> 0, mem |-> 0, disk |-> 0, shards |-> 0],
   [cpu |-> 3, mem |-> 0, disk |-> 3, shards |-> 8],
   [cpu |-> 4, mem |-> 1, disk |-> 2, shards |-> 1],
   [cpu |-> 0, mem |-> 1, disk |-> 1, shards |-> 7]}

NodeSymmetry == Permutations(Nodes)
============================================================================

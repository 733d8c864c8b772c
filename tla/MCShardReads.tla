---------------------------- MODULE MCShardReads ----------------------------
(* What TLC needs to check ShardReads: the symmetry of its pools.          *)
EXTENDS ShardReads, TLC

Symmetry == Permutations(Keys) \cup Permutations(Objects) \cup Permutations(Threads)

=============================================================================

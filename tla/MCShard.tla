------------------------------ MODULE MCShard -------------------------------
(* What TLC needs to check Shard: hashes, and the symmetry of the keys.    *)
EXTENDS Shard, TLC

\* No two keys hash alike.
DistinctHash == [k \in Keys |-> k]
\* All keys do.
SameHash == [k \in Keys |-> CHOOSE h \in Hashes : TRUE]

Symmetry == Permutations(Keys)

=============================================================================

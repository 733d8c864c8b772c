------------------------------ MODULE MCBatch -------------------------------
(* What TLC needs to check Batch: the symmetry of its keys and callers.      *)
EXTENDS Batch, TLC

Symmetry == Permutations(Keys) \cup Permutations(Callers)

=============================================================================

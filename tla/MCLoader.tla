------------------------------ MODULE MCLoader ------------------------------
(* What TLC needs to check Loader: the symmetry of its pools.              *)
EXTENDS Loader, TLC

Symmetry == Permutations(Keys) \cup Permutations(Callers) \cup Permutations(Flights)

=============================================================================

------------------------------- MODULE MCView -------------------------------
(* What TLC needs to check View: views, their types, which of them callers *)
(* call together, and the symmetry of the pools.                           *)
EXTENDS View, TLC

CONSTANTS v1, v2, off

MCViews == {v1, v2, off}
MCTypeOf == [v \in MCViews |-> IF v = v2 THEN "b" ELSE "a"]
MCPlans == {plan \in [Callers -> Hosts] :
    {plan[c] : c \in Callers} \in {{Cache, v1}, {v1}, {v1, v2}, {off}}}
Symmetry == Permutations(Callers) \cup Permutations(Flights)

=============================================================================

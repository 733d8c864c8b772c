SPECIFICATION Spec
CONSTANTS
    Keys = {k1, k2}
    Callers = {c1, c2}
    None = None
    Negatives = {}
    Outcomes = {"ok", "absent", "panic"}
SYMMETRY Symmetry
INVARIANTS
    WaitersCounted
    OnlyAbandonedCancelled
    SingleFlight
    AnsweredAndStored

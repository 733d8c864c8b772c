SPECIFICATION Spec
CONSTANTS
    Cache = cache
    v1 = v1
    v2 = v2
    off = off
    Views <- MCViews
    Off = {off}
    Types = {"a", "b"}
    TypeOf <- MCTypeOf
    Refreshing = {cache, v1, v2}
    Callers = {c1, c2}
    Plans <- MCPlans
    Flights = {f1, f2}
    None = None
    MaxSource = 1
SYMMETRY Symmetry
INVARIANTS
    ViewInv
    NeverGoesBack
    AnswerFresh
    SingleFlight
PROPERTIES
    NoNeedlessLoad

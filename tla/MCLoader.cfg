SPECIFICATION Spec
CONSTANTS
    Keys = {k1}
    Callers = {c1, c2}
    Flights = {f1, f2}
    None = None
    MaxSource = 1
    Outcomes = {"ok", "absent", "failed"}
    NegativeTTL = TRUE
    RefreshAfter = TRUE
    SplitRead = TRUE
SYMMETRY Symmetry
INVARIANTS
    LoaderInv
    WaitersCounted
    AnswerFresh
    SingleFlight
    OnlyAbandonedCancelled
    StoredBeforeReturn
PROPERTIES
    NoNeedlessLoad
    ImplementsFreshCache

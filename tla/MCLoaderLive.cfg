SPECIFICATION FairSpec
CONSTANTS
    Keys = {k1}
    Callers = {c1, c2}
    Flights = {f1, f2}
    None = None
    MaxSource = 0
    Outcomes = {"ok", "refused", "exited"}
    NegativeTTL = FALSE
    RefreshAfter = FALSE
    SplitRead = FALSE
PROPERTIES
    CallsReturn
    AbandonedCancelled
    TokensReleased

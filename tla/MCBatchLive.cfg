SPECIFICATION FairSpec
CONSTANTS
    Keys = {k1, k2}
    Callers = {c1, c2}
    None = None
    Negatives = {}
    Outcomes = {"panic"}
PROPERTIES
    CallsReturn
    AbandonedCancelled

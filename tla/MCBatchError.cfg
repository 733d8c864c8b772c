SPECIFICATION Spec
CONSTANTS
    Keys = {k1, k2}
    Callers = {c1, c2}
    None = None
    Negatives = {k1, k2}
    Outcomes = {"error", "notfound"}
SYMMETRY Symmetry
PROPERTIES
    NothingCachedOnError

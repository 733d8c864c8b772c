SPECIFICATION Spec
CONSTANTS
    Width = 12
    Precision = 6
    Options <- MCOptions
    Durations <- MCDurations
    Times = {1, 380, 2000}
    Samples = 32
    None = None
INVARIANTS
    ExpiresInTime
    RefreshInProportion
    NeverStricter

SPECIFICATION FairSpec
CONSTANTS
    Granularity = 1
    SweepEvery = 1
    Shards = 2
    Callers = {c1}
    Lives = {1}
    StartDelay = 0
    MaxDelay = 1
    None = None
    MaxTime = 5
INVARIANTS
    ClockInv
    Accurate
PROPERTIES
    NeverBack
    CloseEnds
    Swept

SPECIFICATION FairSpec
CONSTANTS
    Keys = {k1, k2, k3}
    Hashes = {h1, h2}
    Hash <- SameHash
    None = None
    Policies = {"S3FIFO"}
    MaxBytes = 4
    MaxEntries = 0
    Costs = {0, 1, 3}
    SmallShare = 2
    MaxFreq = 2
PROPERTIES
    EvictionEnds
    GhostsRemembered

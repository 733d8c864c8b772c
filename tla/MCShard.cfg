SPECIFICATION Spec
CONSTANTS
    Keys = {k1, k2, k3, k4}
    Hashes = {k1, k2, k3, k4}
    Hash <- DistinctHash
    None = None
    Policies = {"LRU", "ClearOnFull", "S3FIFO"}
    MaxBytes = 5
    MaxEntries = 3
    Costs = {1, 3}
    SmallShare = 2
    MaxFreq = 3
SYMMETRY Symmetry
INVARIANTS
    ListsMatchItems
    AccountsExact
PROPERTIES
    EvictsLeastRecent
    ImplementsBoundedCache

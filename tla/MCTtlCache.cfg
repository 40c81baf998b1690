SPECIFICATION MemSpec
CONSTANTS
    k1 = k1  k2 = k2  k3 = k3  k4 = k4  k5 = k5
    s1 = s1  s2 = s2
    Keys <- MCKeys
    Shards <- MCShards
    ShardOf <- MCShardOf
    Values = {a, b}
    Capacity = 4
    TTLs = {1}
    MaxClock = 2
SYMMETRY Symmetric
INVARIANTS
    MemTypeOK
    FoundIsWhatWasSet
    WorkingSetIsKept
    CapacityHolds
PROPERTY ActsAsLocalTier
CHECK_DEADLOCK FALSE

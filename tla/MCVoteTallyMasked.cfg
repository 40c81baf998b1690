SPECIFICATION MaskedSpec
CONSTANTS
    b1 = b1  b2 = b2  b3 = b3
    v1 = v1  v2 = v2
    yes = yes  no = no
    s1 = s1  s2 = s2
    Ballots <- MCBallots
    Voters <- MCVoters
    Options <- MCOptions
    Shards <- MCShards
    VoterOf <- MCVoterOf
    ChoiceOf <- MCChoiceOf
    ShardOf <- MCShardOf
    DedupTTL = 1
    CounterRetention = 2
    MaxTime = 3
    MaxLosses = 0
    Syncers = {p1}
    Readers = {}
    Fragile = {}
    MaxCalls = 1
INVARIANT
    SavedBallotsAreDurable
CHECK_DEADLOCK FALSE

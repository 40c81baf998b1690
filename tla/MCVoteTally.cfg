SPECIFICATION FairSpec
CONSTANTS
    b1 = b1  b2 = b2  b3 = b3
    v1 = v1  v2 = v2
    yes = yes  no = no
    s1 = s1  s2 = s2
    Ballots <- MCBallots
    Voters <- MCVoters
    Options <- MCOptions
    Shards <- MCShards
    VoterOf <- MCVoterOf
    ChoiceOf <- MCChoiceOf
    ShardOf <- MCShardOf
    DedupTTL = 1
    CounterRetention = 1
    MaxTime = 2
    MaxLosses = 1
    Syncers = {p1, p2}
    Readers = {r1}
    Fragile = {s2}
    MaxCalls = 2
INVARIANTS
    TypeOK
    DurableNeverOvercounts
    AnswerWithinCounted
PROPERTIES
    SavedCycleIsComplete
    AnswerIsComplete
    ImplementsDurableTally
    DurableCatchesUp
CHECK_DEADLOCK FALSE

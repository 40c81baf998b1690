SPECIFICATION Spec
CONSTANTS
    b1 = b1  b2 = b2
    v1 = v1
    yes = yes  no = no
    s1 = s1
    Ballots <- MCBallots
    Voters <- MCVoters
    Options <- MCOptions
    Shards <- MCShards
    VoterOf <- MCVoterOf
    ChoiceOf <- MCChoiceOf
    ShardOf <- MCShardOf
    DedupTTL = 2
    CounterRetention = 3
    MaxTime = 6
    MaxLosses = 1
    MaxRetries = 1
    RequestTimeout = 1
    NetworkDelay = 1
INVARIANTS
    TypeOK
    OneBallotPerDedupWindow
    AcceptedIsCounted
PROPERTIES
    CountedOnce
    RefusedOnlyWithinWindow
CHECK_DEADLOCK FALSE

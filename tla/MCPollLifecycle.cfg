SPECIFICATION FairSpec
CONSTANTS
    Admins = {a1, a2}
    Voters = {u1}
    Syncers = {s1}
    RequestTimeout = 2
    CacheStaleness = 1
    SyncTimeout = 2
    SettleAfter = 5
    MaxTime = 7
INVARIANTS
    TypeOK
    ActivatedStaysTracked
    SettledIsPersisted
PROPERTIES
    FinishedForGood
    BallotsReachPostgres
CHECK_DEADLOCK FALSE

SPECIFICATION Spec
CONSTANTS
    Admins = {a1, a2}
    Voters = {u1}
    Syncers = {s1}
    RequestTimeout = 1
    CacheStaleness = 1
    SyncTimeout = 1
    SettleAfter = 4
    MaxTime = 4
INVARIANT
    ActivePollIsTracked
CHECK_DEADLOCK FALSE

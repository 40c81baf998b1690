SPECIFICATION FairSpec
CONSTANTS
    Probes = {p1, p2}
    ProbeTimeout = 2
    RedisTimeout = 3
    CacheFor = 2
PROPERTIES
    UnreadyHasACause
    ReadyMeansRedisAnswered
    EveryProbeIsAnswered

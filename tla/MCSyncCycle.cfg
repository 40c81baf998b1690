SPECIFICATION FairSpec
CONSTANTS
    p1 = p1  p2 = p2
    yes = yes  no = no  only = only
    Polls <- MCPolls
    Options <- MCOptions
    PollOf <- MCPollOf
    Ballots <- MCBallots
    Workers = {w1, w2}
    Sessions = {c1, c2}
    None = None
    MaxVotes = 1
    MaxFaults = 1
INVARIANTS
    TypeOK
    UntrackedIsDurable
PROPERTIES
    ReportIsHonest
    EveryPollIsCopied

SPECIFICATION RulesSpec
CONSTANTS
    RawTexts <- MCRawTexts
    Trim <- MCTrim
    TooLong = {"long"}
    MaxOptions = 2
    Instants = {2, 3, 4, 5}
    Resolution = 2
INVARIANTS
    BallotsAreSetsOfOptions
    EveryPollCanBeVoted
CHECK_DEADLOCK FALSE

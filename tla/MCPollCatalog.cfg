SPECIFICATION Spec
CONSTANTS
    Creators = {1, 2, 3}
    Limits = {0, 3}
    DefaultPageSize = 1
    MaxPageSize = 2
    MaxTime = 2
INVARIANTS
    PagesAreWhole
    NothingIsSkipped
CHECK_DEADLOCK FALSE

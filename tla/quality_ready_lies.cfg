SPECIFICATION QualitySpec
CONSTANTS
    Keys = {k1}
    Requests = {q1}
    Operators = {o1}
    NoArchive = NoArchive
    MaxErrors = 2
    MaxArchives = 1
    MaxCrashes = 0
    RefreshFaults = FALSE
INVARIANT ReadyIsTrue
CHECK_DEADLOCK FALSE

SPECIFICATION ServicesSpec
CONSTANTS
    Captures = {c1, c2, c3, c4}
    Workers = {w1, w2}
    MaxEnvelope = 3
    Budgets = {10}
    Sizes = {3, 4}
    UntoldLength = 2
    BatchBytes = 4
    BatchRecords = 2
    ReadConcurrency = 2
    Keys = {k1, k2}
    Requests = {q1}
    Operators = {o1, o2}
    NoArchive = NoArchive
    MaxErrors = 2
    MaxArchives = 2
    MaxCrashes = 1
    RefreshFaults = TRUE
    Ids = {0, 1}
    Payloads = {p1, p2}
    p1 = p1
    p2 = p2
    Hash <- HashOfIds
    Batches <- SomeBatches
    Counts = {1, 2}
    Connections = {q1, q2}
    Capacity = 2
    MaxBody = 2
    NoCount = NoCount
    MaxFaults = 1
INVARIANTS
    PermitsKept
    ErrorsConserved
    AnswersHold
PROPERTIES
    AmpleBudgetEnds
CHECK_DEADLOCK FALSE

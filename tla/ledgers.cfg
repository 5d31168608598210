SPECIFICATION LedgersSpec
CONSTANTS
    Ids = {i1, i2}
    Workers = {w1}
    Clash = {i2}
    QueueItems = 1
    BatchRecords = 2
    MaxFaults = 1
    SlowDelivery = FALSE
    Archives = {a1}
    Shards = {s1}
    MaxSealed = 2
    Archivers = {p1, p2}
    Restorers = {r1}
    None = None
    MaxMishaps = 2
    Mishaps = {"crash", "remove", "change"}
INVARIANTS
    LedgerConsistent
    AckedHasDelivery
    ScheduledIsLive
    OkIsRestorable
PROPERTIES
    StartLeavesNoneOut
    ImplementsCommitLast
    RetryCommits
CHECK_DEADLOCK FALSE

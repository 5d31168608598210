SPECIFICATION SettlesSpec
CONSTANTS
    Ids = {i1, i2}
    Workers = {w1}
    Clash = {i1, i2}
    QueueItems = 1
    BatchRecords = 1
    MaxFaults = 1
    SlowDelivery = FALSE
    Absent = Absent
    Null = Null
    Blank = Blank
    Odd = Odd
    alpha = alpha
    beta = beta
    yes = yes
    obj = obj
    num = num
    plain = plain
    Words = {alpha, beta}
    Flags = {yes}
    Members <- SomeMembers
    Json = {obj, num}
    Objects = {obj}
    Corpora <- SomeCorpora
    MaxLosses = 1
INVARIANTS
    CaptureStaysTrue
PROPERTIES
    AckedSettles
    SteadyIsDelivered
CHECK_DEADLOCK FALSE

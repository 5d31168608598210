SPECIFICATION RelaySpec
CONSTANTS
    Ids = {i1}
    Workers = {w1, w2}
    Clash = {}
    QueueItems = 2
    BatchRecords = 2
    MaxFaults = 1
    SlowDelivery = TRUE
    Wires = {g1}
    Good = {g1}
    Sources = {logs, hooks}
    SlowSources = {hooks}
    Window = 0
    HookWindow = 1
    Callers = {x1, x2}
    Silent = Silent
    MaxTime = 2
    MaxRejected = 1
    MaxLives = 2
    s1 = s1
    s2 = s2
    e1 = e1
    Corpora <- SomeCorpora
    Senders = {q1, q2}
    Absent = Absent
    Unreadable = Unreadable
    MaxOutages = 1
    MaxCounted = 2
SYMMETRY RelaySymmetry
INVARIANTS
    DeliveredIsRemote
    OneHolder
    ReadyIsTold
    CloudAnswersHold
PROPERTIES
    SettledStays

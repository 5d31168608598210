SPECIFICATION FairSpec
CONSTANTS
    Ids = {i1, i2, i3}
    Payloads = {p1, p2}
    NoPayload = NoPayload
    BatchRecords = 2
    SegmentMax = 2
    MaxSegments = 4
    MaxFaults = 2
    Faults = {"power", "recovery"}
INVARIANTS
    AckedReadable
    RecoveryAccepts
PROPERTIES
    SealedImmutable
    ImplementsPromise
    ComesBack

SPECIFICATION Spec
CONSTANTS
    Ids = {i1, i2}
    Payloads = {p1, p2}
    NoPayload = NoPayload
    BatchRecords = 1
    SegmentMax = 2
    MaxSegments = 4
    MaxFaults = 2
    Faults = {"process", "flush"}
SYMMETRY Symmetry
INVARIANTS
    LedgerIsComplete
CHECK_DEADLOCK FALSE

SPECIFICATION Spec
CONSTANTS
    Ids = {i1}
    Payloads = {p1}
    NoPayload = NoPayload
    BatchRecords = 1
    SegmentMax = 2
    MaxSegments = 3
    MaxFaults = 2
    Faults = {"process", "power"}
INVARIANTS
    AckedReadable

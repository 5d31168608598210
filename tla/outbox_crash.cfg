SPECIFICATION FairSpec
CONSTANTS
    Ids = {i1, i2}
    Recovery = Recovery
    MaxChunks = 1
    Refusals = {"request", "recovery"}
    MaxFaults = 1
INVARIANTS
    EvidenceKept
    OneVersion
PROPERTIES
    Settles

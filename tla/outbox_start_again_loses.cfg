SPECIFICATION Spec
CONSTANTS
    Ids = {i1, i2}
    Recovery = Recovery
    MaxChunks = 1
    Refusals = {"recovery"}
    MaxFaults = 0
INVARIANTS
    NothingLost
SYMMETRY Symmetry

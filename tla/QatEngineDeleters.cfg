SPECIFICATION Spec
CONSTANTS
    MaxInQat = 2
    SlotNum = 2
    b1 = b1
    b2 = b2
    Bufs = {b1, b2}
    NoBuf = NoBuf
    HaEnabled = FALSE
    TriggerErrorNum = 2
    SpareUnits = 1
    MaxReqId = 4
CHECK_DEADLOCK FALSE
SYMMETRY BufSymmetry
INVARIANTS
    DeletersOnlyOfTimedOut

SPECIFICATION FairSpec
CONSTANTS
    MaxInQat = 2
    SlotNum = 2
    b1 = b1
    b2 = b2
    Bufs = {b1, b2}
    NoBuf = NoBuf
    HaEnabled = TRUE
    TriggerErrorNum = 2
    SpareUnits = 1
    MaxReqId = 3
CHECK_DEADLOCK FALSE
INVARIANTS
    EachRequestOnceInOrder
    ResultIsOwn
    HardwareBuffersUntouched
    InductiveInvariant
PROPERTIES
    ChannelSpec
    EveryRequestAnswered

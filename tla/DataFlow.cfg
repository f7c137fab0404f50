SPECIFICATION FairSpec
CONSTANTS
    c1 = c1
    c2 = c2
    Channels = {c1, c2}
    Options <- MCOptions
    Strategies = {"kNumaAware", "kDeviceAware", "kRoundRobin"}
    Capacity <- MCCapacity
    Numa <- MCNuma
    IoDepth = 2
    MaxBatch = 7
    Ops <- MCOps
    MaxPoll = 2
INVARIANTS
    ObjectsExact
    AnsweredOnce
    DescriptorsCorrect
PROPERTY
    EveryRequestAnswered
CHECK_DEADLOCK FALSE

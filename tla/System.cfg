SPECIFICATION SystemSpec
CONSTANTS
    p1 = p1
    p2 = p2
    p3 = p3
    Producers = {p1, p2, p3}
    SizeMod = 8
    MaxNode = 4
    MaxAnswers = 4
    t1 = t1
    t2 = t2
    n1 = n1
    n2 = n2
    n3 = n3
    h1 = h1
    h2 = h2
    NoNode = NoNode
INVARIANTS
    InductiveInvariant
    QuiescentSize
    MemoryAccounted
    DmaExact
    UnitsExact
    AllOrNothing
    ErrorsAsAsked
    QueuesAccounted
    StubCallsLoaded
    CallsExact
    ConversionsExact
    RequestsOutlive
    ReportsExact
PROPERTIES
    FifoSpec
    PopReturns
    TimersExact
CHECK_DEADLOCK FALSE

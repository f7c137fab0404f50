SPECIFICATION ThreadsSpec
CONSTANTS
    u1 = u1
    u2 = u2
    Users = {u1, u2}
    MaxSubmitNum = 2
    MaxInQat = 2
    MaxTask = 2
    c1 = c1
    c2 = c2
    c3 = c3
    k1 = k1
    k2 = k2
    w1 = w1
    w2 = w2
    w3 = w3
    NoAddr = NoAddr
    NoChannel = NoChannel
INVARIANTS
    WorkerSafe
    SchedulerSafe
    SharedSafe
PROPERTIES
    CompletedNeverStarts
    WorkerLive
    EveryTaskRuns
    SharedLive
CHECK_DEADLOCK FALSE

SPECIFICATION FairSpec
CONSTANTS
    u1 = u1
    u2 = u2
    Users = {u1}
    Intervals = {1, 3}
    MaxId = 1
    MaxLate = 1
PROPERTY StopReturns
CHECK_DEADLOCK FALSE

SPECIFICATION FairSpec
CONSTANTS
    u1 = u1
    u2 = u2
    Users = {u1}
    MaxSubmitNum = 2
    MaxInQat = 2
    MaxTask = 2
PROPERTY UninitEnds
CHECK_DEADLOCK FALSE

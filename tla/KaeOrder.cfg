SPECIFICATION Spec
CONSTANTS
    N = 2
    MaxReq = 5
    MaxPoll = 2
INVARIANT
    InSubmissionOrder
CHECK_DEADLOCK FALSE

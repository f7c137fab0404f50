SPECIFICATION Spec
CONSTANT
    MaxCalls = 6
INVARIANT
    RetryIsSafe
CHECK_DEADLOCK FALSE

SPECIFICATION ChannelsSpec
CONSTANTS
    N = 4
    MaxReq = 6
    MaxPoll = 3
INVARIANTS
    KaeSafe
    CypherSafe
    MessagesIntact
PROPERTIES
    CypherIsChannel
    EveryRequestAnswered
    CypherAnswers
    StopReturns
CHECK_DEADLOCK FALSE

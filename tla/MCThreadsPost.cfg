SPECIFICATION FairSpec
CONSTANTS
    MaxAttempts = 2
    MaxChecks = 2
    MaxCalls = 2
INVARIANTS TypeOK OneLive ReturnedIsLive
PROPERTIES CallsEnd ImplementsPostCall
CHECK_DEADLOCK FALSE

SPECIFICATION FairSpec
CONSTANTS
    Fds = {f1, f2, f3}
    MaxConns = 3
    Limit = 2
    MaxAge = 1
    MaxEvents = 3
    Pipeliners = {1}
    None = None
CHECK_DEADLOCK FALSE
INVARIANTS
    Tracked
    UpstreamOwned
    ExitedClean
    SerialRecipient
PROPERTIES
    SlotsReturn

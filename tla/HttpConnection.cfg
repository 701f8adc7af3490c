SPECIFICATION FairSpec
CONSTANTS
    Scripts <- MCScripts
    FileParts = 2
    OutCap = 1
    Deps = {d1, d2}
    Required = {d1}
    None = None
CHECK_DEADLOCK FALSE
INVARIANTS
    InOrder
    NoLostWakeup
    BufferedHandled
    
    OkMeansAnswered

    
    

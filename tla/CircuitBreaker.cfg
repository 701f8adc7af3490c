SPECIFICATION FairSpec
CONSTANTS
    r1 = r1
    r2 = r2
    r3 = r3
    Requests = {r1, r2, r3}
    Backends = {b1, b2}
    Threshold <- MCThreshold
    Recovery <- MCRecovery
    MaxRetries <- MCMaxRetries
    Idempotent <- MCIdempotent
    FailureCap = 3
    MaxElapsed = 2
    NoOne = NoOne
    Leaked = Leaked
INVARIANTS
    ProbeOnlyWhenOpen
    
    SlotAccounted
    RetryOnlyIdempotent
PROPERTY
    CircuitRecovers

SPECIFICATION Spec
CONSTANTS
    None = None
    Key <- MCKey
    Quota <- MCQuota
    Worker = {w1, w2}
    Scale = 2
    Idle = 2
    Every = 2
    MaxTime = 5
    Revision = {1, 2}
    Config <- MCConfig
    Parameter = {"{id}"}
    Requests <- MCRequests
    ExemptPaths <- MCExempt
INVARIANT RateBound IdleForgotten FirstMatch 
PROPERTY LimiterRefines
SYMMETRY MCSymmetry
CHECK_DEADLOCK FALSE

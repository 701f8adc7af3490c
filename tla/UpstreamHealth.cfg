SPECIFICATION FairSpec
CONSTANTS
    Workers = {w1, w2}
    a = a
    b = b
    c = c
    Configs <- MCConfigs
    MaxReloads = 2
    MaxFlips = 2
    FailureCap = 2
INVARIANTS
    Rotation
PROPERTIES
    Converges

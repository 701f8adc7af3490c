SPECIFICATION Spec
CONSTANTS
    x1 = x1
    x2 = x2
    x3 = x3
    u1 = u1
    u2 = u2
    Exchanges = {x1, x2, x3}
    Upstreams = {u1, u2}
    Target <- MCTwoTargets
    Tls = {u2}
    Idempotent <- MCIdempotent
    Sockets = {s1, s2}
    MaxIdle = 1
    MaxResponse = 1
    Kinds = {"keep", "until_eof", "bad", "garbled", "part"}
    Chatty = {u2}
    None = None
    Orphan = Orphan
SYMMETRY MCSymmetry
CHECK_DEADLOCK FALSE
INVARIANTS
    SingleOwner
    IdleIsQuiet
    OwnResponse
    AtMostOnce

    

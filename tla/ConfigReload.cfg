SPECIFICATION FairSpec
CONSTANTS
    Workers = {w1, w2}
    r1 = r1
    r2 = r2
    r3 = r3
    Revisions <- MCRevisions
    First = r1
    AdminOff <- MCAdminOff
    BadCert <- MCBadCert
    Bad = Bad
    Missing = Missing
    Default = Default
    MaxEdits = 2
    MaxRequests = 2
    None = None
CHECK_DEADLOCK FALSE
INVARIANTS
    NoLostReload
    KeysFollow
PROPERTY AllAdopt

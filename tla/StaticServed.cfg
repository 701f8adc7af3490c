SPECIFICATION Spec
CONSTANTS
    small = small
    large = large
    t = t
    u = u
    Path = {small, large}
    StartSize <- MCStart
    Requests <- MCRequests
    Changes <- MCChanges
    Conn = {t, u}
    Tls = {t}
    Number = {1, 2, 3, 4}
    FdEntries = 1
    Ttl = 1
    FileEntries = 1
    MaxFileSize = 1
    MaxInline = 1
    Size = {1, 2}
    Gone = Gone
    None = None
    Other = Other
    MaxTime = 4
    MaxEdits = 0
INVARIANT Served

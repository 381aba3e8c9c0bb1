\* A process is killed while it creates a reference in a missing directory.
CONSTANTS
    a = a
    b = b
    v = v
    w = w
    Names <- MCNames
    Values <- MCValues
    Requests <- NestedRequests
    Oversized = {}
    Absent = Absent
    Anything = Anything
    Procs = {p, q}
    NoProc = NoProc
    Opening = Opening
    NoCall = NoCall
    Empty = Empty
    NoName = NoName
    NoJournal = NoJournal
    MaxUpdates = 2
    Nested <- NestedNames
    Outages = FALSE
    Kills = TRUE
    Faults = FALSE
    Gaps = TRUE
SPECIFICATION Spec
PROPERTY RecoveryResolves

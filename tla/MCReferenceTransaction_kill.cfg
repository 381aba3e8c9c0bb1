\* A running machine: killed processes, failing operations, and a
\* reference in a missing directory.
CONSTANTS
    a = a
    b = b
    v = v
    w = w
    Names <- MCNames
    Values <- MCValues
    Requests <- RunningRequests
    Oversized <- MCOversized
    Absent = Absent
    Anything = Anything
    Procs = {p, q}
    NoProc = NoProc
    Opening = Opening
    NoCall = NoCall
    Empty = Empty
    NoName = NoName
    NoJournal = NoJournal
    MaxUpdates = 2
    Nested <- NestedNames
    Outages = FALSE
    Kills = TRUE
    Faults = TRUE
    Gaps = TRUE
SPECIFICATION FairSpec
INVARIANT TypeOK
PROPERTIES LockReleased AtomicSpec OpenShowsCommitted

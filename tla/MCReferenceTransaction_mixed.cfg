\* Power failures, killed processes and failing operations together, except that
\* a barrier of the transactions directory always follows.
CONSTANTS
    a = a
    b = b
    v = v
    w = w
    Names <- MCNames
    Values <- MCValues
    Requests <- MoveRequests
    Oversized = {}
    Absent = Absent
    Anything = Anything
    Procs = {p, q}
    NoProc = NoProc
    Opening = Opening
    NoCall = NoCall
    Empty = Empty
    NoName = NoName
    NoJournal = NoJournal
    MaxUpdates = 2
    Nested = {}
    Outages = TRUE
    Kills = TRUE
    Faults = TRUE
    Gaps = FALSE
SPECIFICATION Spec
SYMMETRY Symmetry
INVARIANTS WriteAhead CrashConsistent
PROPERTIES AtomicSpec DurableAnswer

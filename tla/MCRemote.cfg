\* A clone that fetches and pushes, while another session pushes.
CONSTANTS
    c = c
    s = s
    a = a
    t = t
    x = x
    y = y
    Sessions = {c, s}
    Names = {a, t}
    Objects = {x, y}
    Reach <- MCReach
    Absent = Absent
    None = None
    AtFirst <- MCAtFirst
    Pushes <- MCPushes
    Client = c
    Tags = {t}
    Starts <- MCStarts
    Fetches <- MCFetches
    Calls <- MCCalls
    MaxCalls = 2
SPECIFICATION RemoteSpec
INVARIANTS CloneTypeOK RefsHaveObjects OkMeansInForce CleanAnswer AtomicUnlessDisturbed CloneComplete
PROPERTY TrackingFollows
CHECK_DEADLOCK FALSE

\* Sets, a removal and packing, each ended; a process may stop half-way.
CONSTANTS
    a = a
    b = b
    v = v
    w = w
    s = s
    p = p
    q = q
    r = r
    f1 = f1
    f2 = f2
    f3 = f3
    f4 = f4
    f5 = f5
    g1 = g1
    g2 = g2
    g3 = g3
    g4 = g4
    g5 = g5
    Names <- OneName
    Values <- MCValues
    Requests <- AnyChange
    Absent = Absent
    Anything = Anything
    Procs <- TwoProcs
    Setters = {p}
    Readers = {}
    Packers = {q}
    Files <- ThreeFiles
    Packs <- FourPacks
    NoFile = NoFile
    NoPack = NoPack
    NoName = NoName
    Empty = Empty
    Garbled = Garbled
    Symbolic <- MCSymbolic
    Length <- MCLength
    LooseAtFirst <- FewRef
    PackedAtFirst <- FewRef
    Stops = TRUE
SPECIFICATION FairSpec
PROPERTY CallsEnd

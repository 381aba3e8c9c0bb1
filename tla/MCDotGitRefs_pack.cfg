\* Two packers and readers.
CONSTANTS
    a = a
    b = b
    v = v
    w = w
    s = s
    p = p
    q = q
    r = r
    f1 = f1
    f2 = f2
    f3 = f3
    f4 = f4
    f5 = f5
    g1 = g1
    g2 = g2
    g3 = g3
    g4 = g4
    g5 = g5
    Names <- TwoNames
    Values <- MCValues
    Requests <- Plain
    Absent = Absent
    Anything = Anything
    Procs <- ThreeProcs
    Setters = {}
    Readers = {r}
    Packers = {p, q}
    Files <- FiveFiles
    Packs <- FivePacks
    NoFile = NoFile
    NoPack = NoPack
    NoName = NoName
    Empty = Empty
    Garbled = Garbled
    Symbolic <- MCSymbolic
    Length <- MCLength
    LooseAtFirst <- HashRef
    PackedAtFirst <- HashRef
    Stops = FALSE
SPECIFICATION Spec
SYMMETRY PairSymmetry
INVARIANTS LookupFinds ReadsFresh

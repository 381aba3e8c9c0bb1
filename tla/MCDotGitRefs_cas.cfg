\* Check-and-set, removals and reads of a loose reference.
CONSTANTS
    a = a
    b = b
    v = v
    w = w
    s = s
    p = p
    q = q
    r = r
    f1 = f1
    f2 = f2
    f3 = f3
    f4 = f4
    f5 = f5
    g1 = g1
    g2 = g2
    g3 = g3
    g4 = g4
    g5 = g5
    Names <- OneName
    Values <- MCValues
    Requests <- Compared
    Absent = Absent
    Anything = Anything
    Procs <- ThreeProcs
    Setters = {p, q, r}
    Readers = {}
    Packers = {}
    Files <- FourFiles
    Packs <- FivePacks
    NoFile = NoFile
    NoPack = NoPack
    NoName = NoName
    Empty = Empty
    Garbled = Garbled
    Symbolic <- MCSymbolic
    Length <- MCLength
    LooseAtFirst <- AnyRef
    PackedAtFirst <- Unpacked
    Stops = FALSE
SPECIFICATION Spec
SYMMETRY Symmetry
INVARIANT LookupFinds
PROPERTY AtomicSpec

\* Two references, two objects and one of an unsupported type.
CONSTANTS
    a = a
    b = b
    x = x
    y = y
    z = z
    i = i
    Names = {a, b}
    Objects = {x, y, z}
    Unsupported = {z}
    Settings = {i}
    Absent = Absent
SPECIFICATION Spec
SYMMETRY Symmetry
INVARIANTS TypeOK RefsHaveObjects CommitPublishes
PROPERTY CommitIsInvisible

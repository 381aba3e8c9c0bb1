----------------------- MODULE MCReferenceTransaction -----------------------
(***************************************************************************)
(* Instances of ReferenceTransaction for TLC: two references, two values,  *)
(* and update sets that change both, delete, create, repeat a name, are    *)
(* too many and are too large.                                             *)
(***************************************************************************)
EXTENDS ReferenceTransaction, TLC

CONSTANTS a, b, v, w

U(n, new, guard) == [name |-> n, new |-> new, guard |-> guard]

Swap    == {U(a, w, v), U(b, w, Anything)}
Rename  == {U(a, w, v), U(b, w, Absent)}
Delete  == {U(a, v, Anything), U(b, Absent, Anything)}
Move    == {U(a, w, v), U(b, Absent, Anything)}
CreateB == {U(b, w, Absent)}
DropB   == {U(b, Absent, Anything)}
Repeat  == {U(a, v, Anything), U(a, w, Anything)}
TooMany == {U(a, v, Anything), U(a, w, Anything), U(b, v, Anything)}
TooLong == {U(b, v, Anything)}

MCNames == {a, b}
MCValues == {v, w}
RunningRequests == {Rename, Delete, Repeat, TooMany, TooLong}
MCOversized == {TooLong}
MoveRequests == {Move, CreateB}
NestedRequests == {Swap, CreateB, DropB}
NestedNames == {b}
Symmetry == Permutations(Procs)
=============================================================================

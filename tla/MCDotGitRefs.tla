---------------------------- MODULE MCDotGitRefs ----------------------------
(***************************************************************************)
(* Instances of DotGitRefs for TLC: two or three processes, one or two     *)
(* references, three values of which s is symbolic and longer.             *)
(***************************************************************************)
EXTENDS DotGitRefs, TLC

CONSTANTS a, b, v, w, s, p, q, r, f1, f2, f3, f4, f5, g1, g2, g3, g4, g5

U(n, new, guard) == [name |-> n, new |-> new, guard |-> guard]
Single(S) == {{u} : u \in S}

OneName == {a}
TwoNames == {a, b}
MCValues == {v, w, s}
MCSymbolic == {s}
MCLength == [x \in MCValues |-> IF x = s THEN 2 ELSE 1]
ThreeFiles == {f1, f2, f3}
FourFiles == {f1, f2, f3, f4}
FiveFiles == {f1, f2, f3, f4, f5}
FourPacks == {g1, g2, g3, g4}
FivePacks == {g1, g2, g3, g4, g5}
TwoProcs == {p, q}
ThreeProcs == {p, q, r}

AnyRef == MCValues \cup {Absent}
HashRef == {v, w, Absent}
Unpacked == {Absent}

\* Check-and-set against check-and-set, and the removal of a loose reference.
Compared == Single({U(a, w, v), U(a, s, v), U(a, Absent, Anything)})
\* One check-and-set and removals.
AnyChange == Single({U(a, w, v), U(a, Absent, Anything)})
FewRef == {v, Absent}
AnySet == Single({U(a, w, v), U(a, s, Anything), U(a, v, Anything)})
Plain == Single({U(a, w, Anything)})

Symmetry == Permutations(Procs)
PairSymmetry == Permutations({p, q})
=============================================================================

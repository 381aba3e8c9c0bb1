------------------------------ MODULE MCRemote ------------------------------
(***************************************************************************)
(* One clone, one session of somebody else, a branch and a tag, and two    *)
(* objects, y on top of x.                                                 *)
(***************************************************************************)
EXTENDS Remote

CONSTANTS c, s, a, t, x, y

MCReach == [o \in {x, y} |-> IF o = y THEN {x, y} ELSE {x}]

Change(n, o) == [name |-> n, new |-> o]
Branch(o) == <<Change(a, o)>>
Both(o, r) == <<Change(a, o), Change(t, r)>>

\* Somebody else moves, rewinds or deletes the branch, or changes it with the tag,
\* or twice.
MCPushes ==
    [atomic : {TRUE}, changes : {Both(x, Absent)}]
    \cup [atomic : {FALSE}, changes : {Branch(y), <<Change(a, x), Change(a, Absent)>>}]

At(o, r) == [n \in {a, t} |-> IF n = a THEN o ELSE r]
MCAtFirst == {
    [refs |-> At(Absent, Absent), objects |-> {}],
    [refs |-> At(x, x), objects |-> {x}],
    [refs |-> At(y, Absent), objects |-> {x, y}]}

MCStarts == {
    [own |-> At(Absent, Absent), tracking |-> At(Absent, Absent), have |-> {}],
    [own |-> At(y, x), tracking |-> At(x, Absent), have |-> {x, y}],
    [own |-> At(x, y), tracking |-> At(y, Absent), have |-> {x, y}]}

\* To force a fetch is to have a + in its refspec but for pruning.
MCFetches == {
    [tags |-> "following", plus |-> TRUE, force |-> FALSE, prune |-> TRUE],
    [tags |-> "all", plus |-> FALSE, force |-> FALSE, prune |-> TRUE]}

Ref1(n, f) == <<[name |-> n, form |-> f]>>
MCCalls ==
    {[specs |-> sp, lease |-> FALSE, atomic |-> TRUE, prune |-> TRUE] :
        sp \in {Ref1(a, "plain") \o Ref1(t, "force")}}
    \cup {[specs |-> sp, lease |-> FALSE, atomic |-> FALSE, prune |-> FALSE] :
        sp \in {Ref1(a, "plain") \o Ref1(t, "delete")}}
    \cup {[specs |-> sp, lease |-> TRUE, atomic |-> FALSE, prune |-> FALSE] :
        sp \in {Ref1(a, "plain")}}
=============================================================================

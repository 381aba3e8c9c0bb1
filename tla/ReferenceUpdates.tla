-------------------------- MODULE ReferenceUpdates --------------------------
(***************************************************************************)
(* The vocabulary shared by every specification of reference updates: what *)
(* a reference may hold, what one entry of an update set asks for, and     *)
(* when a whole set may be applied to the references as they are.  It      *)
(* models `ReferenceUpdate` and the validation both storages run on it     *)
(* before any reference changes (`prepareUpdates`).                        *)
(***************************************************************************)
EXTENDS FiniteSets, Integers

CONSTANTS
    Names,      \* reference names
    Values,     \* what a reference may hold: a hash or a symbolic target
    Absent,     \* the reference does not exist
    Anything,        \* the update expects nothing of the current value
    Requests    \* the update sets callers ask for

Ref == Values \cup {Absent}

\* `expected` is a value, `require_absent` is Absent, neither is Anything.
Update == [name : Names, new : Ref, guard : Ref \cup {Anything}]

ASSUME SentinelsDiffer == Absent \notin Values /\ Anything \notin Values \cup {Absent}
ASSUME RequestsAreUpdates == Requests \subseteq SUBSET Update

Touched(us) == {u.name : u \in us}

\* The same name twice in one set is error.DuplicateReference.
Distinct(us) == \A u, v \in us : u.name = v.name => u = v

\* What the set asks for the name n, which it touches.
Target(us, n) == (CHOOSE u \in us : u.name = n).new

\* A mismatch of `expected` or `require_absent` is error.ReferenceHasChanged.
Admissible(us, cur) ==
    /\ Distinct(us)
    /\ \A u \in us : u.guard \in {Anything, cur[u.name]}

Applied(us, cur) ==
    [n \in Names |-> IF n \in Touched(us) THEN Target(us, n) ELSE cur[n]]
=============================================================================

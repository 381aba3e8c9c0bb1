------------------------ MODULE TransactionalStorage ------------------------
(***************************************************************************)
(* The overlay of storage/transactional: reads go to a base store and a    *)
(* temporal one, writes go to the temporal one, and commit copies what was *)
(* written into the base: objects first, then the removals and the         *)
(* references, then index, shallow list and configuration.  Both stores    *)
(* are in memory; every step of a commit that allocates may fail and end   *)
(* it half-way.                                                            *)
(***************************************************************************)
CONSTANTS
    Names,        \* reference names
    Objects,      \* objects; the value of a reference is an object's hash
    Unsupported,  \* objects of a type setEncodedObject does not accept
    Settings,     \* contents of an index, a shallow list or a configuration
    Absent        \* no such reference; a setting that was not made

ASSUME AbsentAssumption == Absent \notin Objects /\ Absent \notin Settings
ASSUME ObjectsAssumption == Unsupported \subseteq Objects

VARIABLES
    base, temporal,                 \* the references of the two stores
    deleted,                        \* names removed until the commit
    baseObjects, temporalObjects,
    baseSettings, temporalSettings,
    phase,                          \* what the commit is copying
    left,                           \* objects or names it has not copied yet
    outcome                         \* what the last commit returned

refVars == <<base, temporal, deleted>>
objectVars == <<baseObjects, temporalObjects>>
settingVars == <<baseSettings, temporalSettings>>
commitVars == <<phase, left, outcome>>
vars == <<refVars, objectVars, settingVars, commitVars>>

Cells == {"index", "shallow", "config"}
Following == [index |-> "shallow", shallow |-> "config", config |-> "idle"]

\* What the overlay shows: temporal before base, and nothing that is deleted.
Current(n) == IF temporal[n] # Absent THEN temporal[n] ELSE base[n]
Shown(n) == IF n \in deleted THEN Absent ELSE Current(n)
ShownSetting(c) ==
    IF temporalSettings[c] # Absent THEN temporalSettings[c] ELSE baseSettings[c]
Known == baseObjects \cup temporalObjects

\* The base is a closed store of its own; the overlay is empty.
Init ==
    /\ baseObjects \in SUBSET (Objects \ Unsupported)
    /\ base \in [Names -> baseObjects \cup {Absent}]
    /\ baseSettings \in [Cells -> Settings \cup {Absent}]
    /\ temporal = [n \in Names |-> Absent]
    /\ deleted = {}
    /\ temporalObjects = {}
    /\ temporalSettings = [c \in Cells |-> Absent]
    /\ phase = "idle" /\ left = {} /\ outcome = "none"

-----------------------------------------------------------------------------
\* Calls between commits

Call == phase = "idle" /\ outcome' = "none" /\ UNCHANGED <<phase, left>>

\* An object of an unsupported type is refused after it was put in the map.
SetEncodedObject(o) ==
    /\ Call
    /\ temporalObjects' = temporalObjects \cup {o}
    /\ UNCHANGED <<refVars, baseObjects, settingVars>>

\* Faulty variant: the name stays deleted.
SetReferenceDeleted(n, o) ==
    /\ Call
    /\ o \in Known
    /\ temporal' = [temporal EXCEPT ![n] = o]
    /\ UNCHANGED <<base, deleted, objectVars, settingVars>>

\* Callers store an object before they let a reference point to it.
SetReference(n, o) ==
    /\ Call
    /\ o \in Known
    /\ temporal' = [temporal EXCEPT ![n] = o]
    /\ deleted' = deleted \ {n}
    /\ UNCHANGED <<base, objectVars, settingVars>>

\* The temporal store cannot allocate: the name is no longer deleted.
SetReferenceFails(n) ==
    /\ Call
    /\ deleted' = deleted \ {n}
    /\ UNCHANGED <<base, temporal, objectVars, settingVars>>

\* Refused, with no change, when the reference is missing or has changed; the
\* deleted names are not looked at.
CheckAndSetReference(n, o, old) ==
    /\ old = Current(n)
    /\ SetReference(n, o) \/ SetReferenceFails(n)

RemoveReference(n) ==
    /\ Call
    /\ deleted' = deleted \cup {n}
    /\ temporal' = [temporal EXCEPT ![n] = Absent]
    /\ UNCHANGED <<base, objectVars, settingVars>>

\* An empty shallow list is the same as one that was never set.
Set(c, x) ==
    /\ Call
    /\ x = Absent => c = "shallow"
    /\ temporalSettings' = [temporalSettings EXCEPT ![c] = x]
    /\ UNCHANGED <<refVars, objectVars, baseSettings>>

\* The owner of the base goes on using it.
BaseChanges(n) ==
    /\ Call
    /\ \E r \in baseObjects \cup {Absent} : base' = [base EXCEPT ![n] = r]
    /\ UNCHANGED <<temporal, deleted, objectVars, settingVars>>

-----------------------------------------------------------------------------
\* commit

Commit ==
    /\ phase = "idle"
    /\ phase' = "objects" /\ left' = temporalObjects /\ outcome' = "none"
    /\ UNCHANGED <<refVars, objectVars, settingVars>>

CopyObject(o) ==
    /\ phase = "objects" /\ o \in left
    /\ baseObjects' = baseObjects \cup {o}
    /\ IF o \in Unsupported
       THEN phase' = "idle" /\ left' = {} /\ outcome' = "failed"
       ELSE left' = left \ {o} /\ UNCHANGED <<phase, outcome>>
    /\ UNCHANGED <<refVars, temporalObjects, settingVars>>

\* Faulty variant: the references do not wait for the objects.
RemoveDeletedEarly ==
    /\ phase = "objects"
    /\ base' = [n \in Names |-> IF n \in deleted THEN Absent ELSE base[n]]
    /\ phase' = "references" /\ left' = {n \in Names : temporal[n] # Absent}
    /\ UNCHANGED <<temporal, deleted, objectVars, settingVars, outcome>>

\* Removing cannot fail; the copies are made from a snapshot taken after it.
RemoveDeleted ==
    /\ phase = "objects" /\ left = {}
    /\ base' = [n \in Names |-> IF n \in deleted THEN Absent ELSE base[n]]
    /\ phase' = "references" /\ left' = {n \in Names : temporal[n] # Absent}
    /\ UNCHANGED <<temporal, deleted, objectVars, settingVars, outcome>>

\* Faulty variant: a reference the base has is not overwritten.
CopyReferenceIfMissing(n) ==
    /\ phase = "references" /\ n \in left
    /\ base' = IF base[n] = Absent THEN [base EXCEPT ![n] = temporal[n]] ELSE base
    /\ left' = left \ {n}
    /\ UNCHANGED <<temporal, deleted, objectVars, settingVars, phase, outcome>>

CopyReference(n) ==
    /\ phase = "references" /\ n \in left
    /\ base' = [base EXCEPT ![n] = temporal[n]]
    /\ left' = left \ {n}
    /\ UNCHANGED <<temporal, deleted, objectVars, settingVars, phase, outcome>>

ReferencesDone ==
    /\ phase = "references" /\ left = {}
    /\ phase' = "index"
    /\ UNCHANGED <<refVars, objectVars, settingVars, left, outcome>>

\* Neither the temporal store nor the set of deleted names is cleared.
CopySetting(c) ==
    /\ phase = c
    /\ baseSettings' = [baseSettings EXCEPT ![c] = ShownSetting(c)]
    /\ phase' = Following[c]
    /\ outcome' = IF Following[c] = "idle" THEN "done" ELSE outcome
    /\ UNCHANGED <<refVars, objectVars, temporalSettings, left>>

\* Faulty variant: a failed commit gives up the pending removals.
CommitFailsClean ==
    /\ phase # "idle"
    /\ left # {} \/ (phase \in Cells /\ temporalSettings[phase] # Absent)
    /\ phase' = "idle" /\ left' = {} /\ outcome' = "failed" /\ deleted' = {}
    /\ UNCHANGED <<base, temporal, objectVars, settingVars>>

\* An allocation fails where there is something to copy.
CommitFails ==
    /\ phase # "idle"
    /\ left # {} \/ (phase \in Cells /\ temporalSettings[phase] # Absent)
    /\ phase' = "idle" /\ left' = {} /\ outcome' = "failed"
    /\ UNCHANGED <<refVars, objectVars, settingVars>>

CommitStep ==
    \/ \E o \in Objects : CopyObject(o)
    \/ RemoveDeleted
    \/ \E n \in Names : CopyReference(n)
    \/ ReferencesDone
    \/ \E c \in Cells : CopySetting(c)

Next ==
    \/ \E o \in Objects : SetEncodedObject(o)
    \/ \E n \in Names :
        \/ \E o \in Objects : SetReference(n, o)
        \/ SetReferenceFails(n)
        \/ \E o, old \in Objects : CheckAndSetReference(n, o, old)
        \/ RemoveReference(n)
        \/ BaseChanges(n)
    \/ \E c \in Cells, x \in Settings \cup {Absent} : Set(c, x)
    \/ Commit
    \/ CommitStep
    \/ CommitFails

Spec == Init /\ [][Next]_vars

-----------------------------------------------------------------------------
(* Types; a name is never both written and deleted in the overlay.         *)
TypeOK ==
    /\ base \in [Names -> Objects \cup {Absent}]
    /\ temporal \in [Names -> Objects \cup {Absent}]
    /\ deleted \subseteq Names
    /\ baseObjects \subseteq Objects /\ temporalObjects \subseteq Objects
    /\ baseSettings \in [Cells -> Settings \cup {Absent}]
    /\ temporalSettings \in [Cells -> Settings \cup {Absent}]
    /\ phase \in {"idle", "objects", "references"} \cup Cells
    /\ left \subseteq (IF phase = "objects" THEN temporalObjects
                       ELSE IF phase = "references" THEN Names ELSE {})
    /\ outcome \in {"none", "done", "failed"}
    /\ \A n \in deleted : temporal[n] = Absent

(* Whatever a commit did before it failed, and whoever reads the base in   *)
(* between, no reference of the base or of the overlay points to an object *)
(* its store does not have: objects are copied before references.          *)
RefsHaveObjects ==
    \A n \in Names :
        /\ base[n] # Absent => base[n] \in baseObjects
        /\ Shown(n) # Absent => Shown(n) \in Known

(* A commit that returned without an error left the base exactly as the    *)
(* overlay shows it, also when earlier commits failed half-way, when       *)
(* others wrote to the base before it, and when names were removed and set *)
(* again: removals first and copies after them lose neither.               *)
CommitPublishes ==
    outcome = "done" =>
        /\ \A n \in Names : base[n] = Shown(n)
        /\ temporalObjects \subseteq baseObjects
        /\ \A c \in Cells : baseSettings[c] = ShownSetting(c)

(* No step of a commit, and no failure of one, changes what a reader of    *)
(* the overlay sees, and the base only ever receives what is shown: a      *)
(* failed commit can be repeated, and loses no pending write or removal.   *)
CommitIsInvisible ==
    [][phase # "idle" =>
        /\ Known' = Known
        /\ \A n \in Names : Shown(n)' = Shown(n) /\ base[n]' \in {base[n], Shown(n)}
        /\ \A c \in Cells : ShownSetting(c)' = ShownSetting(c)]_vars
=============================================================================

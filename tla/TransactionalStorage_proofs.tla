--------------------- MODULE TransactionalStorage_proofs ---------------------
(***************************************************************************)
(* Proofs about the overlay, for any names, objects and settings.          *)
(***************************************************************************)
EXTENDS TransactionalStorage, TLAPS

Copying == {"references"} \cup Cells

\* How far a commit has come: what it has left behind it is in the base.
ObjectsCopied ==
    /\ phase = "objects" => temporalObjects \subseteq baseObjects \cup left
    /\ phase \in Copying => temporalObjects \subseteq baseObjects
NamesCopied ==
    phase \in Copying => \A n \in Names \ left : base[n] = Shown(n)
RemovalsDone ==
    phase \in Copying => \A n \in deleted : base[n] = Absent
LeftHasValues ==
    phase = "references" => \A n \in left : temporal[n] # Absent
SettingsCopied ==
    /\ phase \in {"shallow", "config"} =>
         baseSettings["index"] = ShownSetting("index")
    /\ phase = "config" => baseSettings["shallow"] = ShownSetting("shallow")
TemporalHasObjects ==
    \A n \in Names : temporal[n] # Absent => temporal[n] \in Known
BaseHasObjects ==
    \A n \in Names : base[n] # Absent => base[n] \in baseObjects

Progress ==
    /\ ObjectsCopied /\ NamesCopied /\ RemovalsDone
    /\ LeftHasValues /\ SettingsCopied

Closed == TemporalHasObjects /\ BaseHasObjects

\* Outside a commit nothing is left, and an answer is cleared by every call.
Answered == phase # "idle" => outcome = "none"

Inv == TypeOK /\ Closed /\ Progress /\ Answered /\ CommitPublishes

USE AbsentAssumption, ObjectsAssumption

-----------------------------------------------------------------------------
\* Every reachable state is well-formed.
THEOREM InitTypeOK == Init => TypeOK
  BY DEF Init, TypeOK, Cells

LEMMA NextTypeOK == TypeOK /\ [Next]_vars => TypeOK'
<1> SUFFICES ASSUME TypeOK, [Next]_vars PROVE TypeOK'
  OBVIOUS
<1> USE DEF TypeOK, Cells
<1>1. ASSUME NEW o \in Objects, SetEncodedObject(o) PROVE TypeOK'
  BY <1>1 DEF SetEncodedObject, Call, refVars, settingVars
<1>2. ASSUME NEW n \in Names, NEW o \in Objects, SetReference(n, o) PROVE TypeOK'
  BY <1>2 DEF SetReference, Call, objectVars, settingVars
<1>3. ASSUME NEW n \in Names, SetReferenceFails(n) PROVE TypeOK'
  BY <1>3 DEF SetReferenceFails, Call, objectVars, settingVars
<1>4. ASSUME NEW n \in Names, RemoveReference(n) PROVE TypeOK'
  BY <1>4 DEF RemoveReference, Call, objectVars, settingVars
<1>5. ASSUME NEW n \in Names, BaseChanges(n) PROVE TypeOK'
  BY <1>5 DEF BaseChanges, Call, objectVars, settingVars
<1>6. ASSUME NEW c \in Cells, NEW x \in Settings \cup {Absent}, Set(c, x) PROVE TypeOK'
  BY <1>6 DEF Set, Call, refVars, objectVars
<1>7. CASE Commit
  BY <1>7 DEF Commit, refVars, objectVars, settingVars
<1>8. ASSUME NEW o \in Objects, CopyObject(o) PROVE TypeOK'
  BY <1>8 DEF CopyObject, refVars, settingVars
<1>9. CASE RemoveDeleted
  BY <1>9 DEF RemoveDeleted, objectVars, settingVars
<1>10. ASSUME NEW n \in Names, CopyReference(n) PROVE TypeOK'
  BY <1>10 DEF CopyReference, objectVars, settingVars
<1>11. CASE ReferencesDone
  BY <1>11 DEF ReferencesDone, refVars, objectVars, settingVars
<1>12. ASSUME NEW c \in Cells, CopySetting(c) PROVE TypeOK'
  BY <1>12 DEF CopySetting, Following, ShownSetting, refVars, objectVars
<1>13. CASE CommitFails
  BY <1>13 DEF CommitFails, refVars, objectVars, settingVars
<1>14. CASE UNCHANGED vars
  BY <1>14 DEF vars, refVars, objectVars, settingVars, commitVars
<1> QED
  BY <1>1, <1>2, <1>3, <1>4, <1>5, <1>6, <1>7, <1>8, <1>9, <1>10, <1>11,
     <1>12, <1>13, <1>14 DEF Next, CommitStep, CheckAndSetReference

\* Every variable keeps its type, whatever the order of calls, failures and commits.
THEOREM TypeCorrect == Spec => []TypeOK
  BY InitTypeOK, NextTypeOK, PTL DEF Spec

-----------------------------------------------------------------------------
\* The invariant that says how far a commit has come.
LEMMA InitInv == Init => Inv
<1> SUFFICES ASSUME Init PROVE Inv
  OBVIOUS
<1>1. TypeOK
  BY InitTypeOK
<1>2. Closed
  BY DEF Init, Closed, TemporalHasObjects, BaseHasObjects, Known
<1>3. Progress /\ Answered /\ CommitPublishes
  BY DEF Init, Progress, ObjectsCopied, NamesCopied, RemovalsDone, LeftHasValues,
     SettingsCopied, Answered, CommitPublishes, Copying, Cells
<1> QED
  BY <1>1, <1>2, <1>3 DEF Inv

\* Between commits there is no progress to keep.
LEMMA IdleInv ==
  ASSUME TypeOK', Closed', phase' = "idle", outcome' # "done"
  PROVE  Inv'
<1>1. Progress'
  BY DEF Progress, ObjectsCopied, NamesCopied, RemovalsDone, LeftHasValues,
     SettingsCopied, Copying, Cells
<1>2. Answered' /\ CommitPublishes'
  BY DEF Answered, CommitPublishes
<1> QED
  BY <1>1, <1>2 DEF Inv

\* The calls keep the stores closed: callers store objects first.
LEMMA CallInv ==
  ASSUME Inv, TypeOK',
         \/ \E o \in Objects : SetEncodedObject(o)
         \/ \E n \in Names, o \in Objects : SetReference(n, o)
         \/ \E n \in Names : SetReferenceFails(n)
         \/ \E n \in Names : RemoveReference(n)
         \/ \E n \in Names : BaseChanges(n)
         \/ \E c \in Cells, x \in Settings \cup {Absent} : Set(c, x)
  PROVE  Inv'
<1> USE DEF Inv, TypeOK, Closed, TemporalHasObjects, BaseHasObjects, Known
<1>1. ASSUME NEW o \in Objects, SetEncodedObject(o) PROVE Closed'
  BY <1>1 DEF SetEncodedObject, refVars
<1>2. ASSUME NEW n \in Names, NEW o \in Objects, SetReference(n, o) PROVE Closed'
  BY <1>2 DEF SetReference, objectVars
<1>3. ASSUME NEW n \in Names, SetReferenceFails(n) PROVE Closed'
  BY <1>3 DEF SetReferenceFails, objectVars
<1>4. ASSUME NEW n \in Names, RemoveReference(n) PROVE Closed'
  BY <1>4 DEF RemoveReference, objectVars
<1>5. ASSUME NEW n \in Names, BaseChanges(n) PROVE Closed'
  BY <1>5 DEF BaseChanges, objectVars
<1>6. ASSUME NEW c \in Cells, NEW x \in Settings \cup {Absent}, Set(c, x) PROVE Closed'
  BY <1>6 DEF Set, refVars, objectVars
<1>7. Closed'
  BY <1>1, <1>2, <1>3, <1>4, <1>5, <1>6
<1>8. phase' = "idle" /\ outcome' = "none"
  BY DEF SetEncodedObject, SetReference, SetReferenceFails, RemoveReference,
     BaseChanges, Set, Call
<1> QED
  BY <1>7, <1>8, IdleInv

LEMMA CommitInv == Inv /\ TypeOK' /\ Commit => Inv'
<1> SUFFICES ASSUME Inv, TypeOK', Commit PROVE Inv'
  OBVIOUS
<1> USE DEF Commit, refVars, objectVars, settingVars
<1>1. Closed'
  BY DEF Inv, Closed, TemporalHasObjects, BaseHasObjects, Known
<1>2. Progress'
  BY DEF Progress, ObjectsCopied, NamesCopied, RemovalsDone, LeftHasValues,
     SettingsCopied, Copying, Cells
<1>3. Answered' /\ CommitPublishes'
  BY DEF Answered, CommitPublishes
<1> QED
  BY <1>1, <1>2, <1>3 DEF Inv

LEMMA CopyObjectInv ==
  ASSUME Inv, TypeOK', NEW o \in Objects, CopyObject(o)
  PROVE  Inv'
<1> USE DEF CopyObject, refVars, settingVars
<1>1. Closed'
  BY DEF Inv, Closed, TemporalHasObjects, BaseHasObjects, Known
<1>2. CASE o \in Unsupported
  BY <1>1, <1>2, IdleInv
<1>3. CASE o \notin Unsupported
  <2>1. ObjectsCopied'
    BY <1>3 DEF Inv, Progress, ObjectsCopied, Copying, Cells
  <2>2. Progress'
    BY <1>3, <2>1 DEF Progress, NamesCopied, RemovalsDone, LeftHasValues,
       SettingsCopied, Copying, Cells
  <2>3. Answered' /\ CommitPublishes'
    BY <1>3 DEF Inv, Answered, CommitPublishes
  <2> QED
    BY <1>1, <2>2, <2>3 DEF Inv
<1> QED
  BY <1>2, <1>3

\* After the removals exactly the written references are left to copy.
LEMMA RemoveDeletedInv == Inv /\ TypeOK' /\ RemoveDeleted => Inv'
<1> SUFFICES ASSUME Inv, TypeOK', RemoveDeleted PROVE Inv'
  OBVIOUS
<1> USE DEF RemoveDeleted, objectVars, settingVars
<1>1. Closed'
  BY DEF Inv, TypeOK, Closed, TemporalHasObjects, BaseHasObjects, Known
<1>2. ObjectsCopied'
  BY DEF Inv, Progress, ObjectsCopied, Copying, Cells
<1>3. NamesCopied'
  BY DEF Inv, TypeOK, NamesCopied, Shown, Current
<1>4. RemovalsDone' /\ LeftHasValues' /\ SettingsCopied'
  BY DEF Inv, TypeOK, RemovalsDone, LeftHasValues, SettingsCopied
<1>5. Answered' /\ CommitPublishes'
  BY DEF Inv, Answered, CommitPublishes
<1> QED
  BY <1>1, <1>2, <1>3, <1>4, <1>5 DEF Inv, Progress

\* A copied reference is not deleted, so it is what the overlay shows.
LEMMA CopyReferenceInv ==
  ASSUME Inv, TypeOK', NEW n \in Names, CopyReference(n)
  PROVE  Inv'
<1> USE DEF CopyReference, objectVars, settingVars
<1>1. temporal[n] # Absent /\ n \notin deleted
  BY DEF Inv, TypeOK, Progress, LeftHasValues
<1>2. temporal[n] \in baseObjects
  BY <1>1 DEF Inv, Closed, TemporalHasObjects, Known, Progress, ObjectsCopied, Copying
<1>3. Closed'
  BY <1>2 DEF Inv, TypeOK, Closed, TemporalHasObjects, BaseHasObjects, Known
<1>4. NamesCopied'
  BY <1>1 DEF Inv, TypeOK, Progress, NamesCopied, Shown, Current, Copying
<1>5. RemovalsDone'
  BY <1>1 DEF Inv, TypeOK, Progress, RemovalsDone, Copying
<1>6. ObjectsCopied' /\ LeftHasValues' /\ SettingsCopied'
  BY DEF Inv, Progress, ObjectsCopied, LeftHasValues, SettingsCopied, Copying, Cells
<1>7. Answered' /\ CommitPublishes'
  BY DEF Inv, Answered, CommitPublishes
<1> QED
  BY <1>3, <1>4, <1>5, <1>6, <1>7 DEF Inv, Progress

LEMMA ReferencesDoneInv == Inv /\ TypeOK' /\ ReferencesDone => Inv'
<1> SUFFICES ASSUME Inv, TypeOK', ReferencesDone PROVE Inv'
  OBVIOUS
<1> USE DEF ReferencesDone, refVars, objectVars, settingVars
<1>1. Closed'
  BY DEF Inv, Closed, TemporalHasObjects, BaseHasObjects, Known
<1>2. Progress'
  BY DEF Inv, Progress, ObjectsCopied, NamesCopied, RemovalsDone, LeftHasValues,
     SettingsCopied, Copying, Cells, Shown, Current
<1>3. Answered' /\ CommitPublishes'
  BY DEF Inv, Answered, CommitPublishes
<1> QED
  BY <1>1, <1>2, <1>3 DEF Inv

LEMMA CopySettingInv ==
  ASSUME Inv, TypeOK', NEW c \in Cells, CopySetting(c)
  PROVE  Inv'
<1> USE DEF CopySetting, refVars, objectVars, Following
<1>1. Closed'
  BY DEF Inv, Closed, TemporalHasObjects, BaseHasObjects, Known
<1>2. baseSettings'[c] = ShownSetting(c) /\ ShownSetting(c)' = ShownSetting(c)
  BY DEF Inv, TypeOK, ShownSetting
<1>3. ASSUME NEW d \in Cells, d # c
      PROVE  baseSettings'[d] = baseSettings[d] /\ ShownSetting(d)' = ShownSetting(d)
  BY <1>3 DEF Inv, TypeOK, ShownSetting
<1>4. left = {} /\ temporalObjects \subseteq baseObjects
  BY DEF Inv, TypeOK, Progress, ObjectsCopied, Copying, Cells
<1>5. \A n \in Names : base[n] = Shown(n)
  BY <1>4 DEF Inv, Progress, NamesCopied, Copying
<1>6. CASE c = "config"
  <2>1. CommitPublishes'
    <3>1. \A d \in Cells : baseSettings[d]' = ShownSetting(d)'
      BY <1>2, <1>3, <1>6 DEF Inv, Progress, SettingsCopied, Cells
    <3> QED
      BY <1>4, <1>5, <3>1 DEF CommitPublishes, Shown, Current
  <2>2. Progress' /\ Answered'
    BY <1>6 DEF Progress, ObjectsCopied, NamesCopied, RemovalsDone, LeftHasValues,
       SettingsCopied, Answered, Copying, Cells
  <2> QED
    BY <1>1, <2>1, <2>2 DEF Inv
<1>7. CASE c # "config"
  <2>1. phase' \in {"shallow", "config"} /\ outcome' = "none"
    BY <1>7 DEF Inv, Answered, Cells
  <2>2. SettingsCopied'
    <3>1. CASE c = "index"
      BY <1>2, <3>1 DEF SettingsCopied
    <3>2. CASE c = "shallow"
      <4>1. baseSettings["index"] = ShownSetting("index")
        BY <3>2 DEF Inv, Progress, SettingsCopied
      <4> QED
        BY <1>2, <1>3, <3>2, <4>1 DEF SettingsCopied, Cells
    <3> QED
      BY <1>7, <3>1, <3>2 DEF Cells
  <2>3. ObjectsCopied' /\ LeftHasValues'
    BY <1>4, <2>1 DEF ObjectsCopied, LeftHasValues
  <2>4. NamesCopied'
    BY <1>5 DEF NamesCopied, Shown, Current
  <2>5. RemovalsDone'
    BY DEF Inv, Progress, RemovalsDone, Copying, Cells
  <2>6. Answered' /\ CommitPublishes'
    BY <2>1 DEF Answered, CommitPublishes
  <2> QED
    BY <1>1, <2>2, <2>3, <2>4, <2>5, <2>6 DEF Inv, Progress
<1> QED
  BY <1>6, <1>7

LEMMA CommitFailsInv == Inv /\ TypeOK' /\ CommitFails => Inv'
<1> SUFFICES ASSUME Inv, TypeOK', CommitFails PROVE Inv'
  OBVIOUS
<1>1. Closed'
  BY DEF Inv, Closed, TemporalHasObjects, BaseHasObjects, Known, CommitFails,
     refVars, objectVars
<1> QED
  BY <1>1, IdleInv DEF CommitFails

LEMMA StutterInv == Inv /\ TypeOK' /\ UNCHANGED vars => Inv'
  BY DEF Inv, Closed, TemporalHasObjects, BaseHasObjects, Known, Progress,
     ObjectsCopied, NamesCopied, RemovalsDone, LeftHasValues, SettingsCopied,
     Answered, CommitPublishes, Shown, Current, ShownSetting,
     vars, refVars, objectVars, settingVars, commitVars

LEMMA NextInv == Inv /\ [Next]_vars => Inv'
<1> SUFFICES ASSUME Inv, [Next]_vars PROVE Inv'
  OBVIOUS
<1>1. TypeOK'
  BY NextTypeOK DEF Inv
<1> QED
  BY <1>1, CallInv, CommitInv, CopyObjectInv, RemoveDeletedInv, CopyReferenceInv,
     ReferencesDoneInv, CopySettingInv, CommitFailsInv, StutterInv
     DEF Next, CommitStep, CheckAndSetReference

LEMMA InvHolds == Spec => []Inv
  BY InitInv, NextInv, PTL DEF Spec

\* No reference of the base or of the overlay points to a missing object.
THEOREM ReferencesHaveObjects == Spec => []RefsHaveObjects
<1>1. Inv => RefsHaveObjects
  BY DEF Inv, TypeOK, Closed, TemporalHasObjects, BaseHasObjects, RefsHaveObjects,
     Known, Shown, Current
<1> QED
  BY <1>1, InvHolds, PTL

\* A commit that succeeded has published the overlay.
THEOREM CommitsPublish == Spec => []CommitPublishes
<1>1. Inv => CommitPublishes
  BY DEF Inv
<1> QED
  BY <1>1, InvHolds, PTL

-----------------------------------------------------------------------------
\* What a reader of the overlay sees, and what the base may receive.
Unseen ==
    /\ Known' = Known
    /\ \A n \in Names : Shown(n)' = Shown(n) /\ base[n]' \in {base[n], Shown(n)}
    /\ \A c \in Cells : ShownSetting(c)' = ShownSetting(c)

\* Nothing a commit does is seen through the overlay.
LEMMA CommitUnseen ==
  ASSUME Inv, [Next]_vars, phase # "idle"
  PROVE  Unseen
<1> USE DEF Inv, TypeOK, Unseen, Known, Shown, Current, ShownSetting
<1>1. ASSUME NEW o \in Objects, CopyObject(o) PROVE Unseen
  BY <1>1 DEF CopyObject, refVars, settingVars
<1>2. CASE RemoveDeleted
  BY <1>2 DEF RemoveDeleted, objectVars, settingVars
<1>3. ASSUME NEW n \in Names, CopyReference(n) PROVE Unseen
  <2>1. temporal[n] # Absent /\ n \notin deleted
    BY <1>3 DEF CopyReference, Progress, LeftHasValues
  <2> QED
    BY <1>3, <2>1 DEF CopyReference, objectVars, settingVars
<1>4. CASE ReferencesDone
  BY <1>4 DEF ReferencesDone, refVars, objectVars, settingVars
<1>5. ASSUME NEW c \in Cells, CopySetting(c) PROVE Unseen
  BY <1>5 DEF CopySetting, refVars, objectVars
<1>6. CASE CommitFails
  BY <1>6 DEF CommitFails, refVars, objectVars, settingVars
<1>7. CASE UNCHANGED vars
  BY <1>7 DEF vars, refVars, objectVars, settingVars
<1> QED
  BY <1>1, <1>2, <1>3, <1>4, <1>5, <1>6, <1>7
     DEF Next, CommitStep, Commit, Call, CheckAndSetReference, SetEncodedObject,
         SetReference, SetReferenceFails, RemoveReference, BaseChanges, Set

\* No step of a commit, nor its failure, changes what a reader of the transaction
\* sees.
THEOREM CommitsAreInvisible == Spec => CommitIsInvisible
<1>1. Inv /\ [Next]_vars => (phase # "idle" => Unseen)
  BY CommitUnseen
<1>2. Inv /\ [Next]_vars => [phase # "idle" => Unseen]_vars
  BY <1>1
<1> QED
  BY <1>2, InvHolds, PTL DEF Spec, CommitIsInvisible, Unseen
=============================================================================

-------------------- MODULE ReferenceTransaction_proofs --------------------
(***************************************************************************)
(* Proofs about ReferenceTransaction, for any names, values, processes and *)
(* requests.                                                               *)
(***************************************************************************)
EXTENDS ReferenceTransaction, TLAPS

Calls == Requests \cup {Opening}

\* Who is inside the lock, on behalf of what, and where the loop stands.
ControlOK ==
    /\ holder = NoProc <=> phase = "none"
    /\ stage = "none" <=> phase = "none"
    /\ holder # NoProc => call[holder] \in Calls
    /\ stage \in {"apply", "undo"} => call[holder] \in Requests
    /\ phase \in {"prepare", "journalsync"} => stage = "recover" /\ call[holder] \in Requests
    /\ phase \in {"mark", "marksync"} => stage = "apply"
    /\ phase = "check" => stage # "apply"
    /\ phase \in LoopPhases \cup {"mark", "marksync", "clean", "journalsync"} =>
            journal # NoJournal
    /\ phase \in LoopPhases => todo \subseteq DOMAIN journal
    /\ phase \in LoopPhases \ {"put"} => at \in todo

TypeInv == TypeOK /\ ControlOK

\* The assumption of the safety theorems: where the power can fail, no process
\* dies and no operation fails between a change of the transactions directory
\* and its barrier, and every reference's directory exists.  Without it the
\* theorems are false: the source has gaps there.
Regime == Outages => ~Gaps /\ Nested = {}

\* What is seen is what is durable, except between an operation on the
\* transactions directory and its barrier.
DirectoryOK ==
    /\ phase \notin {"journalsync", "cleansync"} => journalP = {journal}
    /\ phase = "journalsync" => journal \in journalP /\ journalP \subseteq {NoJournal, journal}
    /\ phase = "cleansync" => NoJournal \in journalP
    /\ phase \in {"prepare", "cleansync", "unmark", "unmarksync"} => journal = NoJournal
    /\ phase \notin {"marksync", "unmarksync"} => markerP = {marker}
    /\ phase = "marksync" => marker /\ TRUE \in markerP
    /\ phase \in {"prepare", "journalsync", "mark", "unmarksync"} => ~marker
    /\ stage = "apply" /\ phase \in LoopPhases => ~marker
    /\ stage = "apply" /\ phase \in LoopPhases \cup {"mark", "marksync"} => forward
    /\ stage # "apply" /\ phase \in LoopPhases => forward = marker
    /\ phase = "clean" => forward = marker

\* Only names that the loop has still to apply may be unsettled.
SettledOK ==
    /\ \A n \in Names : loose[n] \in fileP[n]
    /\ \A n \in Names : loose[n] = Absent => fileP[n] = {Absent}
    /\ packed \in packedP
    /\ \A n \in Names : Unsettled(n) =>
          /\ journal # NoJournal /\ journalP = {journal} /\ n \in DOMAIN journal
          /\ phase \in LoopPhases => n \in todo
          /\ phase \notin {"mark", "marksync", "clean", "journalsync"}

\* Names already applied hold what the journal says.
AppliedOK ==
    /\ phase \in LoopPhases =>
          \A n \in DOMAIN journal \ todo : Visible[n] = Value(n)
    /\ phase \in {"mark", "marksync", "clean"} =>
          \A n \in DOMAIN journal : Visible[n] = Value(n)
    /\ phase = "cleansync" =>
          \A j \in journalP \ {NoJournal} : \A n \in DOMAIN j :
              Visible[n] = IF marker THEN j[n].new ELSE j[n].old
    /\ phase = "journalsync" =>
          \A n \in DOMAIN journal : Visible[n] = journal[n].old
    /\ phase = "write" => Value(at) # Absent
    /\ phase = "flush" => loose[at] = Value(at) /\ Value(at) # Absent
    /\ phase = "unpack" => loose[at] = Absent /\ Value(at) = Absent
    /\ phase = "parent" =>
          /\ loose[at] = Value(at) /\ fileP[at] = {loose[at]}
          /\ Value(at) = Absent => packed[at] = Absent

\* Without power failures the disk and what is seen are the same.
CachedOK ==
    ~Outages =>
        /\ \A n \in Names : fileP[n] = {loose[n]} /\ entryP[n] = {}
        /\ packedP = {packed} /\ journalP = {journal} /\ markerP = {marker}

SafeInv == TypeInv /\ DirectoryOK /\ SettledOK /\ AppliedOK /\ CachedOK

\* Every journal that may be on the disk records an admissible request.
Records(j, us) ==
    /\ Distinct(us) /\ DOMAIN j = Touched(us)
    /\ \A u \in us : j[u.name].new = u.new /\ u.guard \in {Anything, j[u.name].old}

JournalOK == \A j \in journalP \cup {journal} : j # NoJournal => \E us \in Requests : Records(j, us)
-----------------------------------------------------------------------------
\* Requests and journals.

LEMMA RequestTypes ==
    ASSUME NEW us \in Requests
    PROVE  /\ Touched(us) \subseteq Names
           /\ \A n \in Touched(us) : Target(us, n) \in Ref
           /\ \A n \in Touched(us) : \E u \in us : u.name = n /\ Target(us, n) = u.new
  <1>1. us \subseteq Update
    BY RequestsAreUpdates
  <1>2. Touched(us) \subseteq Names
    BY <1>1 DEF Touched, Update
  <1>3. ASSUME NEW n \in Touched(us)
        PROVE  \E u \in us : u.name = n /\ Target(us, n) = u.new
    <2>1. \E u \in us : u.name = n
      BY DEF Touched
    <2>2. (CHOOSE u \in us : u.name = n) \in us /\ (CHOOSE u \in us : u.name = n).name = n
      BY <2>1
    <2> QED BY <2>2 DEF Target
  <1>4. \A n \in Touched(us) : Target(us, n) \in Ref
    BY <1>1, <1>3 DEF Update
  <1> QED BY <1>2, <1>3, <1>4

LEMMA JournalTypes ==
    ASSUME NEW j \in Journal
    PROVE  /\ DOMAIN j \subseteq Names
           /\ \A n \in DOMAIN j : j[n].old \in Ref /\ j[n].new \in Ref
  BY DEF Journal, Entry

LEMMA WrittenJournal ==
    ASSUME NEW us \in Requests, TypeOK, \A n \in Touched(us) : loose[n] # Empty
    PROVE  [n \in Touched(us) |-> [old |-> Visible[n], new |-> Target(us, n)]] \in Journal
  <1>1. \A n \in Touched(us) : Visible[n] \in Ref /\ Target(us, n) \in Ref
    BY RequestTypes DEF TypeOK, Visible, Ref
  <1>2. [n \in Touched(us) |-> [old |-> Visible[n], new |-> Target(us, n)]]
            \in [Touched(us) -> Entry]
    BY <1>1 DEF Entry
  <1> QED BY <1>2, RequestTypes DEF Journal

-----------------------------------------------------------------------------
\* Type correctness.

LEMMA TypeInit == Init => TypeInv
  <1> SUFFICES ASSUME Init PROVE TypeInv
    OBVIOUS
  <1>1. TypeOK
    <2>1. loose \in [Names -> Ref \cup {Empty}] /\ packed \in [Names -> Ref]
      BY DEF Init
    <2>2. /\ fileP \in [Names -> SUBSET (Ref \cup {Empty})]
          /\ entryP \in [Names -> SUBSET (Ref \cup {Empty})]
          /\ packedP \subseteq [Names -> Ref]
      BY <2>1 DEF Init
    <2> QED BY <2>1, <2>2 DEF Init, TypeOK, Stages, Phases, LoopPhases
  <1>2. ControlOK
    BY MoreSentinelsDiffer DEF Init, ControlOK, LoopPhases
  <1> QED BY <1>1, <1>2 DEF TypeInv

LEMMA ValueType ==
    ASSUME TypeOK, journal # NoJournal, NEW n \in DOMAIN journal
    PROVE  n \in Names /\ Value(n) \in Ref
  BY JournalTypes DEF TypeOK, Value

\* The ways in which an operation ends the call or moves on.
LEMMA ReturnType ==
    ASSUME TypeInv, phase # "none", NEW o \in {"ok", "error"}, Return(o), UNCHANGED diskVars
    PROVE  TypeInv'
  BY MoreSentinelsDiffer
     DEF TypeInv, TypeOK, ControlOK, Return, LoopIdle, diskVars, refVars, txVars,
         Stages, Phases, LoopPhases, Calls

LEMMA FinishType ==
    ASSUME TypeInv, phase \in {"check", "unmarksync"}, stage # "apply" \/ phase # "check",
           Finish,
           UNCHANGED <<refVars, journal, marker>>,
           journalP' \subseteq Journal \cup {NoJournal}, markerP' \subseteq BOOLEAN
    PROVE  TypeInv'
  <1>1. CASE stage = "recover" /\ call[holder] \in Requests /\ Goto("prepare")
             /\ UNCHANGED <<loopVars, procVars, stage>>
    BY <1>1 DEF TypeInv, TypeOK, ControlOK, Goto, Quiet, loopVars, procVars, refVars,
                Stages, Phases, LoopPhases, Calls
  <1>2. CASE Return("error") \/ Return("ok")
    BY <1>2, MoreSentinelsDiffer
       DEF TypeInv, TypeOK, ControlOK, Return, LoopIdle, refVars, Stages, Phases,
           LoopPhases, Calls
  <1> QED BY <1>1, <1>2 DEF Finish

LEMMA AbortType ==
    ASSUME TypeInv, phase # "none", Abort, UNCHANGED diskVars
    PROVE  TypeInv'
  <1>1. CASE stage' = "undo" /\ Goto("check") /\ LoopIdle /\ UNCHANGED procVars
             /\ stage = "apply"
    BY <1>1 DEF TypeInv, TypeOK, ControlOK, Goto, Quiet, LoopIdle, procVars, diskVars,
                refVars, txVars, Stages, Phases, LoopPhases, Calls
  <1>2. CASE Return("error")
    BY <1>2, ReturnType
  <1> QED BY <1>1, <1>2 DEF Abort

LEMMA TypeStep == TypeInv /\ [Next]_vars => TypeInv'
  <1> SUFFICES ASSUME TypeInv, [Next]_vars PROVE TypeInv'
    OBVIOUS
  <1> USE DEF TypeInv
  <1>1. ASSUME NEW p \in Procs, NEW c \in Calls, Invoke(p, c) PROVE TypeInv'
    BY <1>1, MoreSentinelsDiffer
       DEF Invoke, TypeOK, ControlOK, Quiet, diskVars, refVars, txVars, loopVars, Calls
  <1>2. ASSUME NEW p \in Procs, NEW us \in Requests, Refuse(p, us) PROVE TypeInv'
    BY <1>2 DEF Refuse, TypeOK, ControlOK, diskVars, refVars, txVars, loopVars, procVars
  <1>3. ASSUME NEW p \in Procs, Lock(p) PROVE TypeInv'
    BY <1>3, MoreSentinelsDiffer
       DEF Lock, TypeOK, ControlOK, Goto, Quiet, diskVars, refVars, txVars, loopVars,
           Stages, Phases, LoopPhases, Calls
  <1>4. ASSUME NEW p \in Procs, LockFails(p) PROVE TypeInv'
    BY <1>4 DEF LockFails, TypeOK, ControlOK, diskVars, refVars, txVars, loopVars
  <1>5. ASSUME NEW p \in Procs, Kill(p) PROVE TypeInv'
    <2>1. CASE holder = p
      BY <1>5, <2>1, MoreSentinelsDiffer
         DEF Kill, TypeOK, ControlOK, Quiet, LoopIdle, diskVars, refVars, txVars,
             Stages, Phases, LoopPhases
    <2>2. CASE holder # p
      BY <1>5, <2>2
         DEF Kill, TypeOK, ControlOK, Quiet, diskVars, refVars, txVars, loopVars
    <2> QED BY <2>1, <2>2
  <1>6. ASSUME Recover PROVE TypeInv'
    <2>1. CASE CheckNothing
      BY <2>1, FinishType DEF CheckNothing, diskVars, refVars, txVars, TypeOK, ControlOK
    <2>2. CASE CheckStray
      BY <2>2 DEF CheckStray, TypeOK, ControlOK, Goto, Quiet, diskVars, refVars, txVars,
                  loopVars, procVars, Stages, Phases, LoopPhases
    <2>3. CASE CheckJournal
      BY <2>3, JournalTypes
         DEF CheckJournal, TypeOK, ControlOK, Goto, Quiet, diskVars, refVars, txVars,
             procVars, Stages, Phases, LoopPhases
    <2> QED BY <1>6, <2>1, <2>2, <2>3 DEF Recover
  <1>7. ASSUME Apply PROVE TypeInv'
    <2>1. CASE Reject
      BY <2>1, ReturnType DEF Reject
    <2>2. CASE WriteJournal
      <3>1. journal' \in Journal
        BY <2>2, WrittenJournal DEF WriteJournal, ControlOK
      <3>2. journal' # NoJournal /\ journalP' \subseteq Journal \cup {NoJournal}
        BY <2>2, <3>1, NoJournalIsNone DEF WriteJournal, Persist, TypeOK
      <3> QED BY <2>2, <3>1, <3>2
              DEF WriteJournal, TypeOK, ControlOK, Goto, Quiet, refVars, loopVars, procVars,
                  Stages, Phases, LoopPhases
    <2>3. CASE SyncJournal
      BY <2>3, JournalTypes
         DEF SyncJournal, SyncTransactions, TypeOK, ControlOK, Goto, Quiet, refVars,
             procVars, Stages, Phases, LoopPhases
    <2>4. CASE WriteMarker
      BY <2>4 DEF WriteMarker, Persist, TypeOK, ControlOK, Goto, Quiet, refVars, loopVars,
                  procVars, Stages, Phases, LoopPhases
    <2>5. CASE SyncMarker
      BY <2>5 DEF SyncMarker, SyncTransactions, TypeOK, ControlOK, Goto, Quiet, refVars,
                  loopVars, procVars, Stages, Phases, LoopPhases
    <2> QED BY <1>7, <2>1, <2>2, <2>3, <2>4, <2>5 DEF Apply
  <1>8. ASSUME NEW n \in Names, Truncate(n) PROVE TypeInv'
    BY <1>8, NestedAreNames
       DEF Truncate, Persist, TypeOK, ControlOK, Goto, Quiet, txVars, procVars, Stages,
           Phases, LoopPhases
  <1>9. ASSUME NEW n \in Names, Unlink(n) PROVE TypeInv'
    BY <1>9 DEF Unlink, Persist, TypeOK, ControlOK, Goto, Quiet, txVars, procVars, Stages,
                Phases, LoopPhases, Ref
  <1>10. ASSUME Write \/ Flush \/ Unpack \/ SyncParent \/ ParentMissing \/ LoopDone
         PROVE  TypeInv'
    <2>1. CASE Write
      <3>1. at \in Names /\ Value(at) \in Ref
        BY <2>1, ValueType DEF Write, ControlOK, LoopPhases
      <3> QED BY <2>1, <3>1
              DEF Write, Persist, TypeOK, ControlOK, Goto, Quiet, txVars, loopVars,
                  procVars, Stages, Phases, LoopPhases
    <2>2. CASE Flush
      BY <2>2 DEF Flush, TypeOK, ControlOK, Goto, Quiet, txVars, loopVars, procVars,
                  Stages, Phases, LoopPhases
    <2>3. CASE Unpack
      BY <2>3 DEF Unpack, Persist, TypeOK, ControlOK, Goto, Quiet, txVars, loopVars,
                  procVars, Stages, Phases, LoopPhases, Ref
    <2>4. CASE SyncParent
      BY <2>4 DEF SyncParent, TypeOK, ControlOK, Goto, Quiet, txVars, procVars,
                  Stages, Phases, LoopPhases
    <2>5. CASE ParentMissing
      BY <2>5, AbortType DEF ParentMissing
    <2>6. CASE LoopDone
      BY <2>6 DEF LoopDone, TypeOK, ControlOK, Goto, Quiet, diskVars, refVars, txVars,
                  loopVars, procVars, Stages, Phases, LoopPhases
    <2> QED BY <1>10, <2>1, <2>2, <2>3, <2>4, <2>5, <2>6
  <1>11. ASSUME Cleanup PROVE TypeInv'
    <2>1. CASE RemoveJournal
      BY <2>1 DEF RemoveJournal, Persist, TypeOK, ControlOK, Goto, Quiet, LoopIdle, refVars,
                  procVars, Stages, Phases, LoopPhases
    <2>2. CASE SyncRemoval
      BY <2>2 DEF SyncRemoval, SyncTransactions, TypeOK, ControlOK, Goto, Quiet, refVars,
                  loopVars, procVars, Stages, Phases, LoopPhases
    <2>3. CASE RemoveMarker
      BY <2>3 DEF RemoveMarker, Persist, TypeOK, ControlOK, Goto, Quiet, refVars, loopVars,
                  procVars, Stages, Phases, LoopPhases
    <2>4. CASE SyncUnmark
      BY <2>4, FinishType DEF SyncUnmark, SyncTransactions, refVars, TypeOK
    <2> QED BY <1>11, <2>1, <2>2, <2>3, <2>4 DEF Cleanup
  <1>12. CASE Fail
    BY <1>12, AbortType DEF Fail, ControlOK
  <1>13. CASE Outage
    BY <1>13, MoreSentinelsDiffer
       DEF Outage, TypeOK, ControlOK, LoopIdle, Quiet, Stages, Phases, LoopPhases
  <1>14. CASE UNCHANGED vars
    BY <1>14 DEF vars, TypeOK, ControlOK, diskVars, refVars, txVars, loopVars, procVars
  <1> QED BY <1>1, <1>2, <1>3, <1>4, <1>5, <1>6, <1>7, <1>8, <1>9, <1>10, <1>11, <1>12,
             <1>13, <1>14 DEF Next, Step, Put, Calls

\* Every reachable state is well-formed, the phases of apply and recoverLocked
\* included.
THEOREM TypeCorrect == Spec => []TypeOK
  <1>1. Spec => []TypeInv
    BY TypeInit, TypeStep, PTL DEF Spec
  <1>2. TypeInv => TypeOK
    BY DEF TypeInv
  <1> QED BY <1>1, <1>2, PTL

-----------------------------------------------------------------------------
\* The inductive invariant of crash safety.

LEMMA PossibleFiles ==
    ASSUME Regime, NEW n
    PROVE  Possible(n) = fileP[n] \cup entryP[n]
  BY DEF Regime, Possible

LEMMA SameReferences ==
    ASSUME UNCHANGED refVars
    PROVE  /\ \A n \in Names : Unsettled(n)' <=> Unsettled(n)
           /\ Visible' = Visible
  BY DEF refVars, Unsettled, Possible, Visible

LEMMA SafeInit == Regime /\ Init => SafeInv
  <1> SUFFICES ASSUME Regime, Init PROVE SafeInv
    OBVIOUS
  <1>1. TypeInv
    BY TypeInit
  <1>2. \A n \in Names : ~Unsettled(n)
    BY PossibleFiles, MoreSentinelsDiffer DEF Init, Unsettled, Ref
  <1>3. DirectoryOK /\ SettledOK /\ AppliedOK /\ CachedOK
    BY <1>2 DEF Init, DirectoryOK, SettledOK, AppliedOK, CachedOK, LoopPhases
  <1> QED BY <1>1, <1>3 DEF SafeInv

\* Steps that leave the disk alone and end outside the loop.
LEMMA SafeOutside ==
    ASSUME Regime, SafeInv, UNCHANGED diskVars,
           phase' \in {"none", "check"} \/ (phase' = "unmark" /\ journal = NoJournal)
                \/ (phase' = "prepare" /\ journal = NoJournal /\ ~marker),
           ~BarrierDue \/ ~Outages
    PROVE  DirectoryOK' /\ SettledOK' /\ AppliedOK' /\ CachedOK'
  <1>1. journalP = {journal} /\ markerP = {marker}
    BY DEF SafeInv, DirectoryOK, CachedOK, BarrierDue
  <1>2. DirectoryOK'
    BY <1>1 DEF DirectoryOK, diskVars, txVars, LoopPhases
  <1>3. \A n \in Names : Unsettled(n)' <=> Unsettled(n)
    BY SameReferences DEF diskVars
  <1>4. SettledOK'
    BY <1>3 DEF SafeInv, SettledOK, diskVars, refVars, txVars, LoopPhases
  <1>5. AppliedOK' /\ CachedOK'
    BY DEF SafeInv, AppliedOK, CachedOK, diskVars, refVars, txVars, LoopPhases
  <1> QED BY <1>2, <1>4, <1>5

LEMMA SafeTransactions ==
    ASSUME Regime, SafeInv, TypeInv',
           \/ WriteJournal \/ SyncJournal \/ WriteMarker \/ SyncMarker
           \/ RemoveJournal \/ SyncRemoval \/ RemoveMarker \/ LoopDone \/ CheckJournal
    PROVE  DirectoryOK' /\ SettledOK' /\ AppliedOK' /\ CachedOK'
  <1> USE DEF SafeInv, TypeInv
  <1>1. CASE WriteJournal
    <2>1. UNCHANGED refVars
      BY <1>1 DEF WriteJournal
    <2>2. \A n \in Names : Unsettled(n)' <=> Unsettled(n)
      BY <2>1, SameReferences
    <2>3. journal = NoJournal /\ journalP = {NoJournal} /\ ~marker /\ markerP = {marker}
      BY <1>1 DEF WriteJournal, DirectoryOK
    <2>4. \A n \in Names : ~Unsettled(n)
      BY <2>3 DEF SettledOK
    <2>5. DirectoryOK'
      BY <1>1, <2>3 DEF WriteJournal, DirectoryOK, Persist, Goto, LoopPhases
    <2>6. SettledOK'
      BY <1>1, <2>1, <2>2, <2>4 DEF SettledOK, refVars
    <2>7. AppliedOK'
      <3>1. phase' = "journalsync"
        BY <1>1 DEF WriteJournal, Goto
      <3>2. \A n \in DOMAIN journal' : n \in Touched(call[holder])
                                      /\ journal'[n].old = Visible[n]
        BY <1>1 DEF WriteJournal
      <3>3. Visible' = Visible
        BY <2>1, SameReferences
      <3> QED BY <3>1, <3>2, <3>3 DEF AppliedOK, LoopPhases
    <2>8. CachedOK'
      BY <1>1, <2>1 DEF WriteJournal, CachedOK, Persist, refVars
    <2> QED BY <2>5, <2>6, <2>7, <2>8
  <1>2. CASE SyncJournal
    <2>1. UNCHANGED refVars
      BY <1>2 DEF SyncJournal, SyncTransactions
    <2>2. \A n \in Names : Unsettled(n)' <=> Unsettled(n)
      BY <2>1, SameReferences
    <2>4. \A n \in Names : ~Unsettled(n)
      BY <1>2 DEF SettledOK, SyncJournal
    <2>5. DirectoryOK'
      BY <1>2 DEF SyncJournal, SyncTransactions, DirectoryOK, Goto, LoopPhases
    <2>6. SettledOK' /\ CachedOK'
      BY <1>2, <2>1, <2>2, <2>4
         DEF SettledOK, refVars, SyncJournal, SyncTransactions, CachedOK
    <2>7. AppliedOK'
      BY <1>2 DEF SyncJournal, AppliedOK, Goto, LoopPhases, SyncTransactions
    <2> QED BY <2>5, <2>6, <2>7
  <1>3. CASE WriteMarker \/ SyncMarker
    <2>1. UNCHANGED refVars
      BY <1>3 DEF WriteMarker, SyncMarker, SyncTransactions
    <2>2. (\A n \in Names : Unsettled(n)' <=> Unsettled(n)) /\ Visible' = Visible
      BY <2>1, SameReferences
    <2>4. \A n \in Names : ~Unsettled(n)
      BY <1>3 DEF SettledOK, WriteMarker, SyncMarker
    <2>5. DirectoryOK'
      BY <1>3 DEF WriteMarker, SyncMarker, SyncTransactions, DirectoryOK, Goto, LoopPhases,
                  Persist, ControlOK, loopVars
    <2>6. SettledOK' /\ CachedOK'
      BY <1>3, <2>1, <2>2, <2>4
         DEF SettledOK, refVars, WriteMarker, SyncMarker, SyncTransactions, CachedOK, Persist
    <2>7. AppliedOK'
      <3>1. /\ phase \in {"mark", "marksync"} /\ phase' \in {"marksync", "clean"}
            /\ journal' = journal /\ forward' = forward
        BY <1>3 DEF WriteMarker, SyncMarker, SyncTransactions, Goto, loopVars
      <3>2. \A n \in DOMAIN journal : Visible[n] = Value(n)
        BY <3>1 DEF AppliedOK
      <3>3. \A n \in DOMAIN journal' : Visible'[n] = Value(n)'
        BY <2>2, <3>1, <3>2 DEF Value
      <3> QED BY <3>1, <3>3 DEF AppliedOK, LoopPhases
    <2> QED BY <2>5, <2>6, <2>7
  <1>4. CASE RemoveJournal
    <2>1. UNCHANGED refVars
      BY <1>4 DEF RemoveJournal
    <2>2. (\A n \in Names : Unsettled(n)' <=> Unsettled(n)) /\ Visible' = Visible
      BY <2>1, SameReferences
    <2>4. \A n \in Names : ~Unsettled(n)
      BY <1>4 DEF SettledOK, RemoveJournal
    <2>5. DirectoryOK'
      BY <1>4 DEF RemoveJournal, DirectoryOK, Goto, LoopPhases, Persist
    <2>6. SettledOK' /\ CachedOK'
      BY <1>4, <2>1, <2>2, <2>4 DEF SettledOK, refVars, RemoveJournal, CachedOK, Persist
    <2>7. journalP' \ {NoJournal} \subseteq {journal} /\ marker' = marker /\ forward = marker
      BY <1>4 DEF RemoveJournal, DirectoryOK, Persist
    <2>8. AppliedOK'
      <3>1. phase' = "cleansync" /\ phase = "clean"
        BY <1>4 DEF RemoveJournal, Goto
      <3>2. \A n \in DOMAIN journal :
                Visible[n] = IF marker THEN journal[n].new ELSE journal[n].old
        BY <2>7, <3>1 DEF AppliedOK, Value
      <3>3. ASSUME NEW j \in journalP' \ {NoJournal}, NEW n \in DOMAIN j
            PROVE  Visible'[n] = IF marker' THEN j[n].new ELSE j[n].old
        BY <2>2, <2>7, <3>2
      <3> QED BY <3>1, <3>3 DEF AppliedOK, LoopPhases
    <2> QED BY <2>5, <2>6, <2>8
  <1>5. CASE SyncRemoval \/ RemoveMarker
    <2>1. UNCHANGED refVars
      BY <1>5 DEF SyncRemoval, RemoveMarker, SyncTransactions
    <2>2. \A n \in Names : Unsettled(n)' <=> Unsettled(n)
      BY <2>1, SameReferences
    <2>3. journal = NoJournal
      BY <1>5 DEF SyncRemoval, RemoveMarker, DirectoryOK
    <2>4. \A n \in Names : ~Unsettled(n)
      BY <2>3 DEF SettledOK
    <2>5. DirectoryOK'
      BY <1>5, <2>3 DEF SyncRemoval, RemoveMarker, SyncTransactions, DirectoryOK, Goto,
                        LoopPhases, Persist
    <2>6. SettledOK' /\ CachedOK'
      BY <1>5, <2>1, <2>2, <2>4
         DEF SettledOK, refVars, SyncRemoval, RemoveMarker, SyncTransactions, CachedOK, Persist
    <2>7. AppliedOK'
      BY <1>5 DEF SyncRemoval, RemoveMarker, AppliedOK, Goto, LoopPhases
    <2> QED BY <2>5, <2>6, <2>7
  <1>6. CASE LoopDone
    <2>1. UNCHANGED refVars /\ UNCHANGED txVars
      BY <1>6 DEF LoopDone, diskVars
    <2>2. (\A n \in Names : Unsettled(n)' <=> Unsettled(n)) /\ Visible' = Visible
      BY <2>1, SameReferences
    <2>4. \A n \in Names : ~Unsettled(n)
      BY <1>6 DEF SettledOK, LoopDone, LoopPhases
    <2>5. DirectoryOK'
      BY <1>6, <2>1 DEF LoopDone, DirectoryOK, Goto, LoopPhases, loopVars, txVars
    <2>6. SettledOK' /\ CachedOK'
      BY <2>1, <2>2, <2>4 DEF SettledOK, refVars, txVars, CachedOK
    <2>7. AppliedOK'
      BY <1>6, <2>1, <2>2 DEF LoopDone, AppliedOK, Goto, LoopPhases, Value, loopVars, txVars
    <2> QED BY <2>5, <2>6, <2>7
  <1>7. CASE CheckJournal
    <2>1. UNCHANGED refVars /\ UNCHANGED txVars
      BY <1>7 DEF CheckJournal, diskVars
    <2>2. \A n \in Names : Unsettled(n)' <=> Unsettled(n)
      BY <2>1, SameReferences
    <2>5. DirectoryOK'
      BY <1>7, <2>1 DEF CheckJournal, DirectoryOK, ControlOK, Goto, LoopPhases, txVars
    <2>6. SettledOK' /\ CachedOK'
      BY <1>7, <2>1, <2>2
         DEF CheckJournal, SettledOK, refVars, txVars, CachedOK, Goto, LoopPhases
    <2>7. AppliedOK'
      BY <1>7, <2>1 DEF CheckJournal, AppliedOK, Goto, LoopPhases, txVars
    <2> QED BY <2>5, <2>6, <2>7
  <1> QED BY <1>1, <1>2, <1>3, <1>4, <1>5, <1>6, <1>7

\* Steps of the loop: only the name being applied changes.
LEMMA LoopDirectory ==
    ASSUME DirectoryOK, phase \in LoopPhases, phase' \in LoopPhases,
           UNCHANGED <<txVars, stage, forward>>
    PROVE  DirectoryOK'
  BY DEF DirectoryOK, LoopPhases, txVars

LEMMA LoopApplied ==
    ASSUME AppliedOK, phase \in LoopPhases, phase' \in LoopPhases,
           UNCHANGED <<journal, forward, todo>>, NEW n \in todo,
           \A m \in Names \ {n} : loose'[m] = loose[m] /\ packed'[m] = packed[m],
           DOMAIN journal \subseteq Names
    PROVE  \A m \in DOMAIN journal' \ todo' : Visible'[m] = Value(m)'
  <1>1. \A m \in DOMAIN journal \ todo : Visible[m] = Value(m)
    BY DEF AppliedOK
  <1>2. \A m \in DOMAIN journal \ todo : Visible'[m] = Visible[m]
    BY DEF Visible
  <1> QED BY <1>1, <1>2 DEF Value

LEMMA OtherUnsettled ==
    ASSUME Regime, NEW n \in Names, NEW m \in Names \ {n},
           loose'[m] = loose[m], fileP'[m] = fileP[m], entryP'[m] = entryP[m],
           packed'[m] = packed[m],
           \A pk \in packedP' : pk \in packedP \/ pk[m] = packed[m],
           Unsettled(m)'
    PROVE  Unsettled(m)
  BY PossibleFiles DEF Unsettled, Possible, Regime

LEMMA SafeLoop ==
    ASSUME Regime, SafeInv, TypeInv', NEW n \in Names,
           Truncate(n) \/ Unlink(n) \/ Write \/ Flush \/ Unpack \/ SyncParent
    PROVE  DirectoryOK' /\ SettledOK' /\ AppliedOK' /\ CachedOK'
  <1> USE DEF SafeInv, TypeInv
  <1>1. DOMAIN journal \subseteq Names /\ journal # NoJournal /\ journalP = {journal}
        /\ todo \subseteq DOMAIN journal /\ phase \in LoopPhases
    BY JournalTypes DEF TypeOK, ControlOK, DirectoryOK, Truncate, Unlink, Write, Flush,
                        Unpack, SyncParent, LoopPhases
  <1>2. CASE Truncate(n)
    <2>1. DirectoryOK'
      BY <1>1, <1>2, LoopDirectory DEF Truncate, Goto, LoopPhases
    <2>2. /\ \A m \in Names \ {n} : loose'[m] = loose[m] /\ fileP'[m] = fileP[m]
                                    /\ entryP'[m] = entryP[m]
          /\ loose'[n] = Empty /\ Empty \in fileP'[n] /\ UNCHANGED <<packed, packedP>>
      BY <1>2 DEF Truncate, TypeOK, Persist
    <2>3. SettledOK'
      <3>1. \A m \in Names : loose'[m] \in fileP'[m]
        BY <2>2 DEF SettledOK
      <3>2. \A m \in Names : loose'[m] = Absent => fileP'[m] = {Absent}
        BY <2>2, MoreSentinelsDiffer DEF SettledOK, Ref
      <3>3. \A m \in Names \ {n} : Unsettled(m)' => Unsettled(m)
        BY <2>2, OtherUnsettled
      <3> QED BY <1>1, <1>2, <2>2, <3>1, <3>2, <3>3
              DEF SettledOK, Truncate, txVars, Goto, LoopPhases
    <2>4. AppliedOK'
      <3>1. \A m \in DOMAIN journal' \ todo' : Visible'[m] = Value(m)'
        BY <1>1, <1>2, <2>2, LoopApplied DEF Truncate, Goto, LoopPhases, txVars
      <3>2. phase' = "write" /\ Value(at)' # Absent
        BY <1>2 DEF Truncate, Goto, Value, txVars
      <3> QED BY <3>1, <3>2 DEF AppliedOK
    <2>5. CachedOK'
      BY <1>2, <2>2 DEF Truncate, CachedOK, Persist, TypeOK, txVars
    <2> QED BY <2>1, <2>3, <2>4, <2>5
  <1>3. CASE Unlink(n)
    <2>1. DirectoryOK'
      BY <1>1, <1>3, LoopDirectory DEF Unlink, Goto, LoopPhases
    <2>2. /\ \A m \in Names \ {n} : loose'[m] = loose[m] /\ fileP'[m] = fileP[m]
                                    /\ entryP'[m] = entryP[m]
          /\ loose'[n] = Absent /\ fileP'[n] = {Absent} /\ UNCHANGED <<packed, packedP>>
      BY <1>3 DEF Unlink, TypeOK, SettledOK
    <2>3. SettledOK'
      <3>1. \A m \in Names : loose'[m] \in fileP'[m]
        BY <2>2 DEF SettledOK
      <3>2. \A m \in Names : loose'[m] = Absent => fileP'[m] = {Absent}
        BY <2>2 DEF SettledOK
      <3>3. \A m \in Names \ {n} : Unsettled(m)' => Unsettled(m)
        BY <2>2, OtherUnsettled
      <3> QED BY <1>1, <1>3, <2>2, <3>1, <3>2, <3>3
              DEF SettledOK, Unlink, txVars, Goto, LoopPhases
    <2>4. AppliedOK'
      <3>1. \A m \in DOMAIN journal' \ todo' : Visible'[m] = Value(m)'
        BY <1>1, <1>3, <2>2, LoopApplied DEF Unlink, Goto, LoopPhases, txVars
      <3>2. phase' = "unpack" /\ Value(at)' = Absent /\ loose'[at'] = Absent
        BY <1>3, <2>2 DEF Unlink, Goto, Value, txVars
      <3> QED BY <3>1, <3>2 DEF AppliedOK
    <2>5. CachedOK'
      BY <1>3, <2>2 DEF Unlink, CachedOK, TypeOK, txVars
    <2> QED BY <2>1, <2>3, <2>4, <2>5
  <1>4. CASE Write
    <2>0. at \in todo /\ at \in Names /\ Value(at) \in Ref /\ Value(at) # Absent
      BY <1>1, <1>4, ValueType DEF Write, ControlOK, LoopPhases, AppliedOK
    <2>1. DirectoryOK'
      BY <1>1, <1>4, LoopDirectory DEF Write, Goto, LoopPhases, loopVars
    <2>2. /\ \A m \in Names \ {at} : loose'[m] = loose[m] /\ fileP'[m] = fileP[m]
                                    /\ entryP'[m] = entryP[m]
          /\ loose'[at] = Value(at) /\ Value(at) \in fileP'[at]
          /\ UNCHANGED <<packed, packedP>>
      BY <1>4, <2>0 DEF Write, TypeOK, Persist
    <2>3. SettledOK'
      <3>1. \A m \in Names : loose'[m] \in fileP'[m]
        BY <2>2 DEF SettledOK
      <3>2. \A m \in Names : loose'[m] = Absent => fileP'[m] = {Absent}
        BY <2>0, <2>2 DEF SettledOK
      <3>3. \A m \in Names \ {at} : Unsettled(m)' => Unsettled(m)
        BY <2>0, <2>2, OtherUnsettled
      <3> QED BY <1>1, <1>4, <2>0, <2>2, <3>1, <3>2, <3>3
              DEF SettledOK, Write, txVars, loopVars, Goto, LoopPhases
    <2>4. AppliedOK'
      <3>1. \A m \in DOMAIN journal' \ todo' : Visible'[m] = Value(m)'
        BY <1>1, <1>4, <2>0, <2>2, LoopApplied DEF Write, Goto, LoopPhases, txVars, loopVars
      <3>2. phase' = "flush" /\ loose'[at'] = Value(at)' /\ Value(at)' # Absent
        BY <1>4, <2>0, <2>2 DEF Write, Goto, Value, txVars, loopVars
      <3> QED BY <3>1, <3>2 DEF AppliedOK
    <2>5. CachedOK'
      BY <1>4, <2>0, <2>2 DEF Write, CachedOK, Persist, TypeOK, txVars
    <2> QED BY <2>1, <2>3, <2>4, <2>5
  <1>5. CASE Flush
    <2>0. at \in todo /\ at \in Names /\ loose[at] = Value(at) /\ Value(at) # Absent
      BY <1>1, <1>5 DEF Flush, ControlOK, LoopPhases, AppliedOK
    <2>1. DirectoryOK'
      BY <1>1, <1>5, LoopDirectory DEF Flush, Goto, LoopPhases, loopVars
    <2>2. /\ \A m \in Names \ {at} : loose'[m] = loose[m] /\ fileP'[m] = fileP[m]
                                    /\ entryP'[m] = entryP[m]
          /\ loose' = loose /\ fileP'[at] = {loose[at]}
          /\ UNCHANGED <<packed, packedP>>
      BY <1>5, <2>0 DEF Flush, TypeOK
    <2>3. SettledOK'
      <3>1. \A m \in Names : loose'[m] \in fileP'[m]
        BY <2>2 DEF SettledOK
      <3>2. \A m \in Names : loose'[m] = Absent => fileP'[m] = {Absent}
        BY <2>0, <2>2 DEF SettledOK
      <3>3. \A m \in Names \ {at} : Unsettled(m)' => Unsettled(m)
        BY <2>0, <2>2, OtherUnsettled
      <3> QED BY <1>1, <1>5, <2>0, <2>2, <3>1, <3>2, <3>3
              DEF SettledOK, Flush, txVars, loopVars, Goto, LoopPhases
    <2>4. AppliedOK'
      <3>1. \A m \in DOMAIN journal' \ todo' : Visible'[m] = Value(m)'
        BY <1>1, <1>5, <2>0, <2>2, LoopApplied DEF Flush, Goto, LoopPhases, txVars, loopVars
      <3>2. phase' = "parent" /\ loose'[at'] = Value(at)' /\ Value(at)' # Absent
            /\ fileP'[at'] = {loose'[at']}
        BY <1>5, <2>0, <2>2 DEF Flush, Goto, Value, txVars, loopVars
      <3> QED BY <3>1, <3>2 DEF AppliedOK
    <2>5. CachedOK'
      BY <1>5, <2>0, <2>2 DEF Flush, CachedOK, TypeOK, txVars
    <2> QED BY <2>1, <2>3, <2>4, <2>5
  <1>6. CASE Unpack
    <2>0. at \in todo /\ at \in Names /\ loose[at] = Absent /\ Value(at) = Absent
          /\ fileP[at] = {Absent}
      BY <1>1, <1>6 DEF Unpack, ControlOK, LoopPhases, AppliedOK, SettledOK
    <2>1. DirectoryOK'
      BY <1>1, <1>6, LoopDirectory DEF Unpack, Goto, LoopPhases, loopVars
    <2>2. /\ UNCHANGED <<loose, fileP, entryP>>
          /\ \A m \in Names \ {at} : packed'[m] = packed[m]
          /\ packed'[at] = Absent /\ packed' \in packedP'
          /\ packedP' \subseteq packedP \cup {packed'}
      BY <1>6, <2>0 DEF Unpack, TypeOK, Persist
    <2>3. SettledOK'
      <3>3. \A m \in Names \ {at} : Unsettled(m)' => Unsettled(m)
        BY <2>0, <2>2, OtherUnsettled
      <3> QED BY <1>1, <1>6, <2>0, <2>2, <3>3
              DEF SettledOK, Unpack, txVars, loopVars, Goto, LoopPhases
    <2>4. AppliedOK'
      <3>1. \A m \in DOMAIN journal' \ todo' : Visible'[m] = Value(m)'
        BY <1>1, <1>6, <2>0, <2>2, LoopApplied DEF Unpack, Goto, LoopPhases, txVars, loopVars
      <3>2. phase' = "parent" /\ loose'[at'] = Value(at)' /\ packed'[at'] = Absent
            /\ fileP'[at'] = {loose'[at']}
        BY <1>6, <2>0, <2>2 DEF Unpack, Goto, Value, txVars, loopVars
      <3> QED BY <3>1, <3>2 DEF AppliedOK
    <2>5. CachedOK'
      BY <1>6, <2>2 DEF Unpack, CachedOK, Persist, txVars
    <2> QED BY <2>1, <2>3, <2>4, <2>5
  <1>7. CASE SyncParent
    <2>0. /\ at \in todo /\ at \in Names /\ loose[at] = Value(at) /\ Value(at) \in Ref
          /\ fileP[at] = {loose[at]} /\ (Value(at) = Absent => packed[at] = Absent)
      BY <1>1, <1>7, ValueType DEF SyncParent, ControlOK, LoopPhases, AppliedOK
    <2>1. DirectoryOK'
      BY <1>1, <1>7, LoopDirectory DEF SyncParent, Goto, LoopPhases
    <2>2. /\ UNCHANGED <<loose, fileP, packed>>
          /\ \A m \in Names \ {at} : entryP'[m] = entryP[m]
          /\ entryP'[at] = {} /\ packedP' = {packed}
      BY <1>7, <2>0 DEF SyncParent, TypeOK
    <2>3. SettledOK'
      <3>2. \A m \in Names \ {at} : Unsettled(m)' => Unsettled(m)
        BY <2>0, <2>2, OtherUnsettled
      <3>3. \A m \in Names : Unsettled(m)' => m # at /\ Unsettled(m)
        <4>1. SUFFICES ASSUME NEW m \in Names, Unsettled(m)' PROVE m # at /\ Unsettled(m)
          OBVIOUS
        <4>2. CASE m = at
          <5>1. \A x \in Names : x = at => ~(\/ loose'[x] = Empty \/ fileP'[x] \cup entryP'[x] # {loose'[x]}
                            \/ \E pk \in packedP' : pk[x] # packed'[x])
            BY <2>0, <2>2, MoreSentinelsDiffer
          <5> QED BY <4>1, <4>2, <5>1 DEF Unsettled, Possible, Regime
        <4>3. CASE m # at
          BY <4>1, <4>3, <3>2
        <4> QED BY <4>2, <4>3
      <3>4. journal' = journal /\ journalP' = journalP /\ todo' = todo \ {at}
            /\ phase' = "put"
        BY <1>7 DEF SyncParent, txVars, Goto
      <3> QED BY <1>1, <2>2, <3>3, <3>4 DEF SettledOK, LoopPhases
    <2>4. AppliedOK'
      <3>1. /\ UNCHANGED <<journal, forward, loose, packed>> /\ todo' = todo \ {at}
            /\ phase' = "put"
        BY <1>7 DEF SyncParent, Goto, txVars
      <3>2. \A m \in DOMAIN journal \ todo : Visible[m] = Value(m)
        BY <1>1 DEF AppliedOK
      <3>3. Visible[at] = Value(at)
        BY <2>0 DEF Visible
      <3>4. \A m \in DOMAIN journal' \ todo' : Visible'[m] = Value(m)'
        BY <3>1, <3>2, <3>3 DEF Visible, Value
      <3> QED BY <3>1, <3>4 DEF AppliedOK
    <2>5. CachedOK'
      BY <1>7, <2>0, <2>2 DEF SyncParent, CachedOK, TypeOK, txVars
    <2> QED BY <2>1, <2>3, <2>4, <2>5
  <1> QED BY <1>2, <1>3, <1>4, <1>5, <1>6, <1>7

\* Steps that touch neither the disk nor the algorithm inside the lock.
LEMMA SafeAside ==
    ASSUME SafeInv, UNCHANGED <<diskVars, loopVars, stage, phase>>
    PROVE  DirectoryOK' /\ SettledOK' /\ AppliedOK' /\ CachedOK'
  <1>1. \A n \in Names : Unsettled(n)' <=> Unsettled(n)
    BY SameReferences DEF diskVars
  <1>2. DirectoryOK' /\ CachedOK'
    BY DEF SafeInv, DirectoryOK, CachedOK, diskVars, refVars, txVars, loopVars
  <1>3. SettledOK'
    BY <1>1 DEF SafeInv, SettledOK, diskVars, refVars, txVars, loopVars
  <1>4. AppliedOK'
    BY DEF SafeInv, AppliedOK, Visible, Value, diskVars, refVars, txVars, loopVars
  <1> QED BY <1>2, <1>3, <1>4

\* The last barrier of cleanup.
LEMMA SafeUnmark ==
    ASSUME Regime, SafeInv, SyncUnmark
    PROVE  DirectoryOK' /\ SettledOK' /\ AppliedOK' /\ CachedOK'
  <1>1. /\ UNCHANGED <<refVars, journal, marker>> /\ phase' \in {"none", "prepare"}
        /\ journalP' = {journal} /\ markerP' = {marker}
        /\ journal = NoJournal /\ ~marker
    BY DEF SafeInv, DirectoryOK, SyncUnmark, SyncTransactions, Finish, Return, Goto
  <1>2. \A n \in Names : Unsettled(n)' <=> Unsettled(n)
    BY <1>1, SameReferences
  <1>3. \A n \in Names : ~Unsettled(n)
    BY <1>1 DEF SafeInv, SettledOK
  <1>4. DirectoryOK' /\ CachedOK' /\ AppliedOK'
    BY <1>1 DEF SafeInv, DirectoryOK, CachedOK, AppliedOK, refVars, LoopPhases
  <1>5. SettledOK'
    BY <1>1, <1>2, <1>3 DEF SafeInv, SettledOK, refVars
  <1> QED BY <1>4, <1>5

\* A power failure turns one possible content of the disk into the only one.
LEMMA SafeOutage ==
    ASSUME Regime, SafeInv, Outage
    PROVE  DirectoryOK' /\ SettledOK' /\ AppliedOK' /\ CachedOK'
  <1>1. /\ phase' = "none" /\ stage' = "none"
        /\ journal' \in journalP /\ journalP' = {journal'} /\ markerP' = {marker'}
        /\ packedP' = {packed'}
    BY DEF Outage
  <1>2. /\ \A n \in Names : fileP'[n] = {loose'[n]} /\ entryP'[n] = {}
        /\ \A n \in Names : loose'[n] \in fileP[n] \cup entryP[n]
    BY DEF Outage, Regime
  <1>3. ASSUME NEW n \in Names, Unsettled(n)'
        PROVE  journal' # NoJournal /\ journalP' = {journal'} /\ n \in DOMAIN journal'
    <2>1. Possible(n)' = fileP'[n] \cup entryP'[n] /\ Possible(n) = fileP[n] \cup entryP[n]
      BY DEF Possible, Regime
    <2>2. loose'[n] = Empty
      BY <1>1, <1>2, <1>3, <2>1 DEF Unsettled
    <2>3. Unsettled(n)
      BY <1>2, <2>1, <2>2 DEF Unsettled
    <2> QED BY <1>1, <2>3 DEF SafeInv, SettledOK
  <1>4. SettledOK'
    BY <1>1, <1>2, <1>3 DEF SettledOK, LoopPhases
  <1>5. DirectoryOK' /\ AppliedOK' /\ CachedOK'
    BY <1>1, <1>2 DEF DirectoryOK, AppliedOK, CachedOK, LoopPhases
  <1> QED BY <1>4, <1>5

LEMMA SafeStep == Regime /\ SafeInv /\ [Next]_vars => SafeInv'
  <1> SUFFICES ASSUME Regime, SafeInv, [Next]_vars PROVE SafeInv'
    OBVIOUS
  <1>1. TypeInv /\ TypeInv'
    BY TypeStep DEF SafeInv
  <1> SUFFICES DirectoryOK' /\ SettledOK' /\ AppliedOK' /\ CachedOK'
    BY <1>1 DEF SafeInv
  <1>2. ASSUME NEW p \in Procs,
               \/ \E c \in Calls : Invoke(p, c)
               \/ \E us \in Requests : Refuse(p, us)
               \/ LockFails(p)
               \/ UNCHANGED vars
        PROVE  DirectoryOK' /\ SettledOK' /\ AppliedOK' /\ CachedOK'
    BY <1>2, SafeAside DEF Invoke, Refuse, LockFails, vars
  <1>3. ASSUME NEW p \in Procs, Lock(p)
        PROVE  DirectoryOK' /\ SettledOK' /\ AppliedOK' /\ CachedOK'
    <2>1. phase = "none"
      BY <1>1, <1>3 DEF TypeInv, ControlOK, Lock
    <2> QED BY <1>3, <2>1, SafeOutside DEF Lock, Goto, BarrierDue
  <1>4. ASSUME NEW p \in Procs, Kill(p)
        PROVE  DirectoryOK' /\ SettledOK' /\ AppliedOK' /\ CachedOK'
    <2>1. CASE holder = p
      BY <1>4, <2>1, SafeOutside DEF Kill, Regime
    <2>2. CASE holder # p
      BY <1>4, <2>2, SafeAside DEF Kill
    <2> QED BY <2>1, <2>2
  <1>5. CASE CheckNothing \/ CheckStray \/ Reject
    <2>1. CASE CheckNothing
      BY <2>1, SafeOutside DEF CheckNothing, Finish, Return, Goto, BarrierDue
    <2>2. CASE CheckStray
      BY <2>2, SafeOutside DEF CheckStray, Goto, BarrierDue
    <2>3. CASE Reject
      BY <2>3, SafeOutside DEF Reject, Return, BarrierDue
    <2> QED BY <1>5, <2>1, <2>2, <2>3
  <1>6. CASE Fail
    <2>1. phase' \in {"check", "none"} /\ UNCHANGED diskVars
          /\ (~BarrierDue \/ ~Outages)
      BY <1>6 DEF Fail, Abort, Goto, Return, Regime
    <2> QED BY <2>1, SafeOutside
  <1>7. CASE ParentMissing
    <2>1. phase' \in {"check", "none"} /\ UNCHANGED diskVars /\ ~BarrierDue
      BY <1>7 DEF ParentMissing, Abort, Goto, Return, BarrierDue
    <2> QED BY <2>1, SafeOutside
  <1>8. CASE UNCHANGED vars
    BY <1>8, SafeAside DEF vars
  <1>9. CASE Write \/ Flush \/ Unpack \/ SyncParent
    <2>1. at \in Names
      BY <1>1, <1>9, JournalTypes
         DEF TypeInv, TypeOK, ControlOK, Write, Flush, Unpack, SyncParent, LoopPhases
    <2> QED BY <1>1, <1>9, <2>1, SafeLoop
  <1>10. ASSUME NEW n \in Names, Truncate(n) \/ Unlink(n)
         PROVE  DirectoryOK' /\ SettledOK' /\ AppliedOK' /\ CachedOK'
    BY <1>1, <1>10, SafeLoop
  <1>11. CASE Recover \/ Apply
    BY <1>1, <1>5, <1>11, SafeTransactions DEF Recover, Apply
  <1>12. CASE Put
    BY <1>1, <1>7, <1>9, <1>10, <1>12, SafeTransactions DEF Put
  <1>13. CASE Cleanup
    BY <1>1, <1>13, SafeTransactions, SafeUnmark DEF Cleanup
  <1> QED BY <1>2, <1>3, <1>4, <1>6, <1>8, <1>11, <1>12, <1>13, SafeOutage
          DEF Next, Step, Calls

LEMMA SafetyInvariant == ASSUME Regime PROVE Spec => []SafeInv
  BY SafeInit, SafeStep, PTL DEF Spec

\* Write-ahead: for any set of references, no reference file is torn or may
\* change in a power failure unless the journal that restores it is durable.
THEOREM WriteAheadHolds == ASSUME Regime PROVE Spec => []WriteAhead
  <1>1. SafeInv => WriteAhead
    BY DEF SafeInv, SettledOK, WriteAhead
  <1> QED BY <1>1, SafetyInvariant, PTL

\* What recovery makes of a reference that no power failure can change.
LEMMA SettledRecovered ==
    ASSUME Regime, NEW n \in Names, ~Unsettled(n), NEW j, NEW m,
           NEW pk \in packedP, NEW l \in Possible(n)
    PROVE  Recovered(j, m, pk, l, n) = Recovered(j, m, packed, loose[n], n)
  BY DEF Unsettled, Recovered

LEMMA CrashConsistency == ASSUME Regime, SafeInv PROVE CrashConsistent
  <1> SUFFICES ASSUME NEW j \in journalP, NEW m \in markerP
               PROVE  \/ RecoversTo(j, m, Committed)
                      \/ journal # NoJournal /\ m /\ RecoversTo(j, m, Proposed)
    BY DEF CrashConsistent
  <1> USE DEF SafeInv
  <1>1. ASSUME journalP = {journal}, NEW refs,
               \A n \in Names : refs[n] = Recovered(journal, m, packed, loose[n], n)
        PROVE  RecoversTo(j, m, refs)
    <2>1. ASSUME NEW pk \in packedP, NEW n \in Names, NEW l \in Possible(n)
          PROVE  Recovered(j, m, pk, l, n) = refs[n]
      <3>1. CASE Unsettled(n)
        BY <1>1, <3>1 DEF SettledOK, Recovered
      <3>2. CASE ~Unsettled(n)
        BY <1>1, <3>2, SettledRecovered
      <3> QED BY <3>1, <3>2
    <2> QED BY <2>1 DEF RecoversTo
  <1>2. CASE journalP = {journal} /\ markerP = {marker}
    <2>1. \A n \in Names : Committed[n] = Recovered(journal, m, packed, loose[n], n)
      BY <1>2 DEF Committed, TypeInv, TypeOK
    <2> QED BY <1>1, <1>2, <2>1
  <1>3. CASE phase = "marksync" /\ journalP = {journal}
    <2>0. journal # NoJournal /\ m \in BOOLEAN /\ TRUE \in markerP
      BY <1>3 DEF TypeInv, ControlOK, TypeOK, DirectoryOK
    <2>1. CASE m = (FALSE \notin markerP)
      <3>1. \A n \in Names : Committed[n] = Recovered(journal, m, packed, loose[n], n)
        BY <1>3, <2>1 DEF Committed
      <3> QED BY <1>1, <1>3, <3>1
    <2>2. CASE m # (FALSE \notin markerP)
      <3>1. m = TRUE
        BY <2>0, <2>2
      <3>2. \A n \in Names : Proposed[n] = Recovered(journal, m, packed, loose[n], n)
        BY <1>3, <2>0, <3>1 DEF Proposed, Committed, Recovered
      <3> QED BY <1>1, <1>3, <2>0, <3>1, <3>2
    <2> QED BY <2>1, <2>2
  <1>4. CASE phase = "unmarksync" /\ journalP = {journal}
    <2>1. journal = NoJournal
      BY <1>4 DEF DirectoryOK
    <2>2. \A n \in Names : Committed[n] = Recovered(journal, m, packed, loose[n], n)
      BY <1>4, <2>1 DEF Committed, Recovered
    <2> QED BY <1>1, <1>4, <2>2
  <1>5. CASE phase \in {"journalsync", "cleansync"} /\ journalP # {journal}
    <2>1. \A n \in Names : ~Unsettled(n)
      BY <1>5 DEF SettledOK, DirectoryOK
    <2>2. markerP = {marker} /\ NoJournal \in journalP
      BY <1>5 DEF DirectoryOK
    <2>3. \A n \in Names : Committed[n] = Visible[n]
      BY <2>2 DEF Committed, Recovered, Visible
    <2>4. \A n \in Names : Recovered(j, m, packed, loose[n], n) = Visible[n]
      <3>1. CASE phase = "journalsync"
        <4>1. j \in {NoJournal, journal} /\ m = FALSE
          BY <1>5, <2>2, <3>1 DEF DirectoryOK, TypeInv, TypeOK
        <4>2. \A n \in DOMAIN journal : Visible[n] = journal[n].old
          BY <3>1 DEF AppliedOK
        <4> QED BY <4>1, <4>2 DEF Recovered, Visible
      <3>2. CASE phase = "cleansync"
        <4>1. m = marker /\ m \in BOOLEAN
          BY <2>2 DEF TypeInv, TypeOK
        <4>2. j # NoJournal => \A n \in DOMAIN j : Visible[n] = IF m THEN j[n].new ELSE j[n].old
          BY <3>2, <4>1 DEF AppliedOK
        <4> QED BY <4>2 DEF Recovered, Visible
      <3> QED BY <1>5, <3>1, <3>2
    <2> QED BY <2>1, <2>3, <2>4, SettledRecovered DEF RecoversTo
  <1> QED BY <1>2, <1>3, <1>4, <1>5 DEF DirectoryOK

\* Whatever a power failure leaves of the journal, the marker, the references
\* and packed-refs, recovery makes of it all of the set or none of it.
THEOREM CrashConsistentHolds == ASSUME Regime PROVE Spec => []CrashConsistent
  BY SafetyInvariant, CrashConsistency, PTL

-----------------------------------------------------------------------------
\* The refinement: the committed references change by whole update sets.

LEMMA JournalInit == Init => JournalOK
  BY DEF Init, JournalOK

\* A request whose guards hold is what its journal records.
LEMMA WrittenRecords ==
    ASSUME TypeOK, NEW us \in Requests, NEW j, Admissible(us, Visible),
           j = [n \in Touched(us) |-> [old |-> Visible[n], new |-> Target(us, n)]]
    PROVE  Records(j, us)
  <1>1. ASSUME NEW u \in us
        PROVE  j[u.name].new = u.new /\ j[u.name].old = Visible[u.name]
    <2>1. u.name \in Touched(us)
      BY DEF Touched
    <2>2. Target(us, u.name) = u.new
      BY <2>1, RequestTypes DEF Admissible, Distinct
    <2> QED BY <2>1, <2>2
  <1>2. \A u \in us : u.guard \in {Anything, Visible[u.name]}
    BY DEF Admissible
  <1> QED BY <1>1, <1>2 DEF Records, Admissible

LEMMA JournalStep == TypeInv /\ JournalOK /\ [Next]_vars => JournalOK'
  <1> SUFFICES ASSUME TypeInv, JournalOK, [Next]_vars PROVE JournalOK'
    OBVIOUS
  <1> USE DEF TypeInv
  <1>1. CASE WriteJournal
    <2>1. call[holder] \in Requests
      BY <1>1 DEF WriteJournal, ControlOK
    <2>2. Records(journal', call[holder])
      BY <1>1, <2>1, WrittenRecords DEF WriteJournal
    <2>3. \A j \in journalP' \cup {journal'} : j \in journalP \/ j = journal'
      BY <1>1 DEF WriteJournal, Persist
    <2> QED BY <2>1, <2>2, <2>3 DEF JournalOK
  <1>2. CASE ~WriteJournal
    <2>1. journalP' \cup {journal'} \subseteq journalP \cup {journal, NoJournal}
      <3>1. ASSUME NEW p \in Procs,
                   \/ \E c \in Requests \cup {Opening} : Invoke(p, c)
                   \/ \E us \in Requests : Refuse(p, us)
                   \/ Lock(p) \/ LockFails(p) \/ Kill(p)
            PROVE  UNCHANGED <<journal, journalP>>
        BY <3>1 DEF Invoke, Refuse, Lock, LockFails, Kill, diskVars, txVars
      <3>2. CASE Recover \/ Apply
        BY <1>2, <3>2
           DEF Recover, Apply, CheckNothing, CheckStray, CheckJournal, Reject, SyncJournal,
               WriteMarker, SyncMarker, SyncTransactions, diskVars, txVars
      <3>3. CASE Put
        BY <3>3
           DEF Put, Truncate, Unlink, Write, Flush, Unpack, SyncParent, ParentMissing,
               LoopDone, diskVars, txVars
      <3>4. CASE Cleanup
        BY <3>4
           DEF Cleanup, RemoveJournal, SyncRemoval, RemoveMarker, SyncUnmark,
               SyncTransactions, Persist
      <3>5. CASE Fail \/ UNCHANGED vars
        BY <3>5 DEF Fail, vars, diskVars, txVars
      <3>6. CASE Outage
        BY <3>6 DEF Outage
      <3> QED BY <3>1, <3>2, <3>3, <3>4, <3>5, <3>6 DEF Next, Step
    <2> QED BY <2>1 DEF JournalOK
  <1> QED BY <1>1, <1>2

\* The journaled set turned from its old values into its new ones is a Commit.
LEMMA JournalCommits ==
    ASSUME NEW us \in Requests, NEW j, Records(j, us),
           \A n \in DOMAIN j : Committed[n] = j[n].old,
           \A n \in Names : Committed'[n] = IF n \in DOMAIN j THEN j[n].new ELSE Committed[n]
    PROVE  Atomic!Next
  <1>1. Touched(us) \subseteq Names /\ DOMAIN j = Touched(us)
    BY RequestTypes DEF Records
  <1>2. \A u \in us : u.name \in DOMAIN j
    BY <1>1 DEF Touched
  <1>3. \A u \in us : u.guard \in {Anything, Committed[u.name]}
    BY <1>2 DEF Records
  <1>4. \A n \in Touched(us) : Target(us, n) = j[n].new
    BY RequestTypes DEF Records
  <1>5. Committed' = [n \in Names |-> IF n \in Touched(us) THEN Target(us, n) ELSE Committed[n]]
    BY <1>1, <1>4 DEF Committed
  <1>6. Atomic!Commit(us)
    BY <1>3, <1>5
       DEF Atomic!Commit, Atomic!Admissible, Atomic!Applied, Atomic!Distinct,
           Atomic!Touched, Atomic!Target, Records, Distinct, Touched, Target
  <1> QED BY <1>6 DEF Atomic!Next

LEMMA AtomicInit == Init => Atomic!Init
  <1> SUFFICES ASSUME Init PROVE Committed \in [Names -> Ref]
    BY DEF Atomic!Init, Atomic!Ref, Ref
  <1>1. \A n \in Names : Committed[n] \in Ref
    BY DEF Init, Committed, Recovered
  <1> QED BY <1>1 DEF Committed

SameCommitted == \A n \in Names : Committed'[n] = Committed[n]

LEMMA CommittedForms ==
    /\ NoJournal \in journalP => \A n \in Names : Committed[n] = Visible[n]
    /\ NoJournal \notin journalP =>
          \A n \in Names : Committed[n] =
              Recovered(journal, FALSE \notin markerP, packed, loose[n], n)
  BY DEF Committed, Recovered, Visible

\* The same, one step later.
LEMMA CommittedFormsNext ==
    /\ NoJournal \in journalP' => \A n \in Names : Committed'[n] = Visible'[n]
    /\ NoJournal \notin journalP' =>
          \A n \in Names : Committed'[n] =
              Recovered(journal', FALSE \notin markerP', packed', loose'[n], n)
  BY DEF Committed, Recovered, Visible

LEMMA SameDisk == ASSUME UNCHANGED diskVars PROVE SameCommitted
  BY DEF SameCommitted, Committed, diskVars, refVars, txVars

\* The loop changes only references that the journal speaks for.
LEMMA LoopCommits ==
    ASSUME SafeInv, NEW n \in Names,
           Truncate(n) \/ Unlink(n) \/ Write \/ Flush \/ Unpack \/ SyncParent
    PROVE  SameCommitted
  <1>1. UNCHANGED txVars /\ phase \in LoopPhases
    BY DEF Truncate, Unlink, Write, Flush, Unpack, SyncParent, LoopPhases
  <1>2. journal # NoJournal /\ journalP = {journal}
    BY <1>1 DEF SafeInv, TypeInv, ControlOK, DirectoryOK, LoopPhases
  <1>3. \A m \in Names \ DOMAIN journal : loose'[m] = loose[m] /\ packed'[m] = packed[m]
    <2>1. Truncate(n) \/ Unlink(n) => n \in DOMAIN journal
      BY <1>1 DEF SafeInv, TypeInv, ControlOK, Truncate, Unlink
    <2>2. Write \/ Unpack => at \in DOMAIN journal
      BY <1>1 DEF SafeInv, TypeInv, ControlOK, Write, Unpack, LoopPhases
    <2>3. loose \in [Names -> Ref \cup {Empty}] /\ packed \in [Names -> Ref]
      BY DEF SafeInv, TypeInv, TypeOK
    <2> QED BY <2>1, <2>2, <2>3 DEF Truncate, Unlink, Write, Flush, Unpack, SyncParent
  <1>4. ASSUME NEW m \in Names PROVE Committed'[m] = Committed[m]
    <2>1. Committed[m] = Recovered(journal, FALSE \notin markerP, packed, loose[m], m)
      BY <1>2, CommittedForms
    <2>2. Committed'[m] = Recovered(journal, FALSE \notin markerP, packed', loose'[m], m)
      BY <1>1, <1>2, CommittedFormsNext DEF txVars
    <2> QED BY <1>2, <1>3, <2>1, <2>2 DEF Recovered
  <1> QED BY <1>4 DEF SameCommitted

\* Writing and removing the journal leave every committed reference alone ...
LEMMA TransactionsKeep ==
    ASSUME Regime, SafeInv, SafeInv',
           WriteJournal \/ SyncJournal \/ RemoveJournal \/ SyncRemoval \/ RemoveMarker
           \/ SyncUnmark
    PROVE  SameCommitted
  <1> USE DEF SafeInv, TypeInv
  <1>0. UNCHANGED refVars
    BY DEF WriteJournal, SyncJournal, RemoveJournal, SyncRemoval, RemoveMarker, SyncUnmark,
           SyncTransactions
  <1>1. Visible' = Visible
    BY <1>0, SameReferences
  <1>2. CASE SyncRemoval \/ RemoveMarker \/ SyncUnmark
    <2>1. NoJournal \in journalP /\ NoJournal \in journalP'
      BY <1>2 DEF SyncRemoval, RemoveMarker, SyncUnmark, SyncTransactions, DirectoryOK
    <2> QED BY <1>1, <2>1, CommittedForms, CommittedFormsNext DEF SameCommitted
  <1>3. CASE RemoveJournal
    <2>1. journalP = {journal} /\ journal # NoJournal /\ markerP = {marker} /\ forward = marker
          /\ marker \in BOOLEAN
      BY <1>3 DEF RemoveJournal, DirectoryOK, ControlOK, TypeOK
    <2>2. \A n \in DOMAIN journal :
              Visible[n] = IF marker THEN journal[n].new ELSE journal[n].old
      BY <1>3, <2>1 DEF RemoveJournal, AppliedOK, Value
    <2>3. \A n \in Names : Committed[n] = Visible[n]
      BY <2>1, <2>2, CommittedForms DEF Recovered, Visible
    <2>4. \A n \in Names : Committed'[n] = Visible'[n]
      BY <1>3, CommittedFormsNext DEF RemoveJournal, Persist
    <2> QED BY <1>1, <2>3, <2>4 DEF SameCommitted
  <1>4. CASE WriteJournal
    <2>1. journalP = {NoJournal} /\ markerP = {FALSE} /\ markerP' = markerP
      BY <1>4 DEF WriteJournal, DirectoryOK, TypeOK
    <2>2. \A n \in Names : Committed[n] = Visible[n]
      BY <2>1, CommittedForms
    <2>3. \A n \in DOMAIN journal' : journal'[n].old = Visible'[n]
      BY <1>4 DEF WriteJournal, Goto, AppliedOK
    <2>4. \A n \in Names : Committed'[n] = Visible'[n]
      BY <2>1, <2>3, CommittedFormsNext DEF Recovered, Visible
    <2> QED BY <1>1, <2>2, <2>4 DEF SameCommitted
  <1>5. CASE SyncJournal
    <2>1. markerP = {FALSE} /\ markerP' = {FALSE} /\ journal' = journal
      BY <1>5 DEF SyncJournal, SyncTransactions, DirectoryOK, TypeOK
    <2>2. \A n \in DOMAIN journal : Visible[n] = journal[n].old
      BY <1>5 DEF SyncJournal, AppliedOK
    <2>3. \A n \in Names : Committed[n] = Visible[n]
      BY <2>1, <2>2, CommittedForms DEF Recovered, Visible
    <2>4. \A n \in Names : Committed'[n] = Visible'[n]
      BY <1>1, <2>1, <2>2, CommittedFormsNext DEF Recovered, Visible
    <2> QED BY <1>1, <2>3, <2>4 DEF SameCommitted
  <1> QED BY <1>2, <1>3, <1>4, <1>5

\* ... and the set is committed when the marker cannot be lost any more.
LEMMA MarkerCommits ==
    ASSUME SafeInv, JournalOK, WriteMarker \/ SyncMarker
    PROVE  SameCommitted \/ Atomic!Next
  <1> USE DEF SafeInv, TypeInv
  <1>1. /\ journalP = {journal} /\ journalP' = {journal'} /\ journal' = journal
        /\ journal # NoJournal /\ UNCHANGED refVars
    BY DEF WriteMarker, SyncMarker, SyncTransactions, DirectoryOK, ControlOK
  <1>2. \A n \in Names : Committed[n] =
            Recovered(journal, FALSE \notin markerP, packed, loose[n], n)
    BY <1>1, CommittedForms
  <1>3. \A n \in Names : Committed'[n] =
            Recovered(journal, FALSE \notin markerP', packed, loose[n], n)
    BY <1>1, CommittedFormsNext DEF refVars
  <1>4. CASE (FALSE \notin markerP) = (FALSE \notin markerP')
    BY <1>2, <1>3, <1>4 DEF SameCommitted
  <1>5. CASE FALSE \in markerP /\ FALSE \notin markerP'
    <2>1. PICK us \in Requests : Records(journal, us)
      BY <1>1 DEF JournalOK
    <2>2. DOMAIN journal \subseteq Names
      BY <1>1, JournalTypes DEF TypeOK
    <2>3. \A n \in DOMAIN journal : Committed[n] = journal[n].old
      BY <1>1, <1>2, <1>5, <2>2 DEF Recovered
    <2>4. \A n \in Names : Committed'[n] =
              IF n \in DOMAIN journal THEN journal[n].new ELSE Committed[n]
      BY <1>1, <1>2, <1>3, <1>5 DEF Recovered
    <2> QED BY <2>1, <2>3, <2>4, JournalCommits
  <1>6. CASE FALSE \notin markerP /\ FALSE \in markerP'
    BY <1>6 DEF WriteMarker, SyncMarker, SyncTransactions, DirectoryOK, Persist
  <1> QED BY <1>4, <1>5, <1>6

\* A power failure keeps the committed references or commits the journaled set.
LEMMA OutageCommits ==
    ASSUME Regime, SafeInv, JournalOK, Outage
    PROVE  SameCommitted \/ Atomic!Next
  <1> USE DEF SafeInv, TypeInv
  <1>1. /\ journal' \in journalP /\ marker' \in markerP /\ packed' \in packedP
        /\ journalP' = {journal'} /\ markerP' = {marker'} /\ marker' \in BOOLEAN
    BY DEF Outage, TypeOK
  <1>2. \A n \in Names : loose'[n] \in Possible(n)
    BY PossibleFiles DEF Outage, Regime
  <1>3. \A n \in Names : Committed'[n] = Recovered(journal', marker', packed', loose'[n], n)
    BY <1>1 DEF Committed
  <1>4. CASE RecoversTo(journal', marker', Committed)
    BY <1>1, <1>2, <1>3, <1>4 DEF RecoversTo, SameCommitted
  <1>5. CASE journal # NoJournal /\ marker' /\ RecoversTo(journal', marker', Proposed)
    <2>1. \A n \in Names : Committed'[n] =
              IF n \in DOMAIN journal THEN journal[n].new ELSE Committed[n]
      BY <1>1, <1>2, <1>3, <1>5 DEF RecoversTo, Proposed
    <2>2. NoJournal \notin journalP
      BY <1>1, <1>5 DEF DirectoryOK
    <2>3. CASE FALSE \notin markerP
      <3>1. \A n \in Names : n \in DOMAIN journal => Committed[n] = journal[n].new
        BY <1>5, <2>2, <2>3, CommittedForms DEF Recovered
      <3> QED BY <2>1, <3>1 DEF SameCommitted
    <2>4. CASE FALSE \in markerP
      <3>1. PICK us \in Requests : Records(journal, us)
        BY <1>5 DEF JournalOK
      <3>2. DOMAIN journal \subseteq Names
        BY <1>5, JournalTypes DEF TypeOK
      <3>3. \A n \in DOMAIN journal : Committed[n] = journal[n].old
        BY <1>5, <2>2, <2>4, <3>2, CommittedForms DEF Recovered
      <3> QED BY <2>1, <3>1, <3>3, JournalCommits
    <2> QED BY <2>3, <2>4
  <1> QED BY <1>1, <1>4, <1>5, CrashConsistency DEF CrashConsistent

LEMMA AtomicStep ==
    ASSUME Regime, SafeInv, SafeInv', JournalOK, [Next]_vars
    PROVE  [Atomic!Next]_Committed
  <1> SUFFICES SameCommitted \/ Atomic!Next
    BY DEF SameCommitted, Committed
  <1>1. ASSUME UNCHANGED diskVars PROVE SameCommitted
    BY <1>1, SameDisk
  <1>2. ASSUME NEW p \in Procs,
               \/ \E c \in Requests \cup {Opening} : Invoke(p, c)
               \/ \E us \in Requests : Refuse(p, us)
               \/ Lock(p) \/ LockFails(p) \/ Kill(p)
        PROVE  SameCommitted
    BY <1>1, <1>2 DEF Invoke, Refuse, Lock, LockFails, Kill
  <1>3. CASE Recover
    BY <1>1, <1>3 DEF Recover, CheckNothing, CheckStray, CheckJournal
  <1>4. CASE Apply
    BY <1>1, <1>4, TransactionsKeep, MarkerCommits DEF Apply, Reject
  <1>5. CASE Put
    <2>1. CASE Write \/ Flush \/ Unpack \/ SyncParent
      <3>1. at \in Names
        BY <2>1, JournalTypes
           DEF SafeInv, TypeInv, TypeOK, ControlOK, Write, Flush, Unpack, SyncParent, LoopPhases
      <3> QED BY <2>1, <3>1, LoopCommits
    <2> QED BY <1>1, <1>5, <2>1, LoopCommits DEF Put, ParentMissing, LoopDone
  <1>6. CASE Cleanup
    BY <1>6, TransactionsKeep DEF Cleanup
  <1>7. CASE Fail \/ UNCHANGED vars
    BY <1>1, <1>7 DEF Fail, vars
  <1> QED BY <1>2, <1>3, <1>4, <1>5, <1>6, <1>7, OutageCommits DEF Next, Step

\* The transaction, with its recovery and the storages that open meanwhile,
\* implements the atomic references for any names, values and requests.
THEOREM Refinement == ASSUME Regime PROVE Spec => AtomicSpec
  <1>1. Init => SafeInv /\ JournalOK
    BY SafeInit, JournalInit
  <1>2. SafeInv /\ JournalOK /\ [Next]_vars => (SafeInv /\ JournalOK)'
    BY SafeStep, JournalStep DEF SafeInv
  <1>3. SafeInv /\ JournalOK /\ SafeInv' /\ [Next]_vars => [Atomic!Next]_Committed
    BY AtomicStep
  <1> QED BY <1>1, <1>2, <1>3, AtomicInit, PTL DEF Spec, AtomicSpec, Atomic!Spec

-----------------------------------------------------------------------------
\* What an answer is worth.

\* The journal of the running apply is that of its own request, and once the
\* journal is gone the references show what the request asked for.
AnswerOK ==
    /\ phase = "journalsync" => Records(journal, call[holder])
    /\ stage = "apply" =>
        /\ phase \in LoopPhases \cup {"mark", "marksync", "clean"} =>
                forward /\ Records(journal, call[holder])
        /\ phase \in {"cleansync", "unmark", "unmarksync"} =>
                \A u \in call[holder] : Visible[u.name] = u.new

LEMMA AnswerStep ==
    ASSUME Regime, SafeInv, SafeInv', AnswerOK, [Next]_vars
    PROVE  AnswerOK'
  <1> USE DEF SafeInv, TypeInv
  <1>1. ASSUME UNCHANGED <<diskVars, loopVars, stage, phase, holder>>,
               call'[holder] = call[holder] \/ holder = NoProc
        PROVE  AnswerOK'
    BY <1>1 DEF AnswerOK, ControlOK, Visible, diskVars, refVars, txVars, loopVars, LoopPhases
  <1>2. ASSUME NEW p \in Procs,
               \/ \E c \in Requests \cup {Opening} : Invoke(p, c)
               \/ \E us \in Requests : Refuse(p, us)
               \/ LockFails(p) \/ (Kill(p) /\ holder # p)
        PROVE  AnswerOK'
    <2>1. UNCHANGED <<diskVars, loopVars, stage, phase, holder>>
      BY <1>2 DEF Invoke, Refuse, LockFails, Kill, procVars
    <2>2. call'[holder] = call[holder] \/ holder = NoProc
      <3>1. CASE \E c \in Requests \cup {Opening} : Invoke(p, c)
        BY <3>1, MoreSentinelsDiffer DEF Invoke, ControlOK, TypeOK, Calls
      <3>2. CASE \E us \in Requests : Refuse(p, us)
        BY <3>2 DEF Refuse, procVars
      <3>3. CASE LockFails(p) \/ (Kill(p) /\ holder # p)
        BY <3>3 DEF LockFails, Kill, TypeOK
      <3> QED BY <1>2, <3>1, <3>2, <3>3
    <2> QED BY <1>1, <2>1, <2>2
  <1>3. ASSUME stage' # "apply", phase' # "journalsync" PROVE AnswerOK'
    BY <1>3 DEF AnswerOK
  <1>4. ASSUME NEW p \in Procs, Lock(p) \/ (Kill(p) /\ holder = p) PROVE AnswerOK'
    BY <1>3, <1>4 DEF Lock, Kill, Goto
  <1>5. CASE Recover \/ Fail \/ ParentMissing \/ Reject \/ SyncUnmark \/ Outage
    BY <1>3, <1>5
       DEF Recover, CheckNothing, CheckStray, CheckJournal, Finish, Return, Goto, Fail, Abort,
           ParentMissing, Reject, SyncUnmark, Outage, ControlOK, LoopPhases
  <1>6. CASE WriteJournal
    <2>1. call[holder] \in Requests /\ stage' = "recover"
      BY <1>6 DEF WriteJournal, ControlOK
    <2>2. Records(journal', call[holder]) /\ call' = call /\ holder' = holder
      BY <1>6, <2>1, WrittenRecords DEF WriteJournal, procVars
    <2> QED BY <2>1, <2>2 DEF AnswerOK
  <1>7. CASE SyncJournal
    BY <1>7 DEF SyncJournal, SyncTransactions, AnswerOK, Goto, procVars, LoopPhases
  <1>8. CASE WriteMarker \/ SyncMarker
    BY <1>8 DEF WriteMarker, SyncMarker, SyncTransactions, AnswerOK, Goto, procVars,
                loopVars, LoopPhases
  <1>9. ASSUME NEW n \in Names,
               Truncate(n) \/ Unlink(n) \/ Write \/ Flush \/ Unpack \/ SyncParent \/ LoopDone
        PROVE  AnswerOK'
    BY <1>9 DEF Truncate, Unlink, Write, Flush, Unpack, SyncParent, LoopDone, AnswerOK, Goto,
                procVars, loopVars, diskVars, txVars, LoopPhases
  <1>10. CASE RemoveJournal
    <2>1. UNCHANGED <<procVars, stage>> /\ phase' = "cleansync" /\ Visible' = Visible
          /\ phase = "clean"
      BY <1>10, SameReferences DEF RemoveJournal, Goto
    <2>2. ASSUME stage = "apply", NEW u \in call[holder] PROVE Visible[u.name] = u.new
      <3>1. Records(journal, call[holder]) /\ forward
        BY <2>1, <2>2 DEF AnswerOK
      <3>2. u.name \in DOMAIN journal /\ journal[u.name].new = u.new
        BY <2>2, <3>1 DEF Records, Touched
      <3> QED BY <2>1, <3>1, <3>2 DEF AppliedOK, Value
    <2> QED BY <2>1, <2>2 DEF AnswerOK, procVars, LoopPhases
  <1>11. CASE SyncRemoval \/ RemoveMarker
    <2>1. UNCHANGED <<procVars, stage>> /\ phase' \in {"unmark", "unmarksync"}
          /\ phase \in {"cleansync", "unmark"} /\ Visible' = Visible
      BY <1>11, SameReferences DEF SyncRemoval, RemoveMarker, SyncTransactions, Goto
    <2> QED BY <2>1 DEF AnswerOK, procVars, LoopPhases
  <1>12. CASE UNCHANGED vars
    BY <1>1, <1>12 DEF vars, procVars
  <1>13. CASE Apply \/ Cleanup
    BY <1>5, <1>6, <1>7, <1>8, <1>10, <1>11, <1>13 DEF Apply, Cleanup
  <1>14. CASE Put
    <2>1. CASE Write \/ Flush \/ Unpack \/ SyncParent
      <3>1. at \in Names
        BY <2>1, JournalTypes
           DEF TypeOK, ControlOK, Write, Flush, Unpack, SyncParent, LoopPhases
      <3> QED BY <2>1, <3>1, <1>9
    <2>2. CASE LoopDone
      BY <2>2 DEF LoopDone, AnswerOK, Goto, procVars, loopVars, diskVars, txVars, LoopPhases
    <2> QED BY <1>5, <1>9, <1>14, <2>1, <2>2 DEF Put
  <1> QED BY <1>2, <1>4, <1>5, <1>12, <1>13, <1>14 DEF Next, Step

\* The one step that answers "ok" to a request leaves a disk that can only be
\* recovered to what the request asked for.
LEMMA AnswerDurable ==
    ASSUME Regime, SafeInv, SafeInv', AnswerOK, [Next]_vars, ~UNCHANGED vars,
           answer' = "ok", call[holder] \in Requests
    PROVE  \A j \in journalP', m \in markerP', pk \in packedP', u \in call[holder] :
              \A l \in Possible(u.name)' : Recovered(j, m, pk, l, u.name) = u.new
  <1> USE DEF SafeInv, TypeInv
  <1>1. SyncUnmark /\ stage = "apply"
    <2>1. ASSUME NEW p \in Procs,
                 \/ \E c \in Requests \cup {Opening} : Invoke(p, c)
                 \/ \E us \in Requests : Refuse(p, us)
                 \/ Lock(p) \/ LockFails(p) \/ Kill(p)
          PROVE  FALSE
      BY <2>1 DEF Invoke, Refuse, Lock, LockFails, Kill, Goto, Quiet
    <2>2. ~Recover
      <3>1. ~CheckNothing
        <4>1. CheckNothing => stage \in {"recover", "undo"}
          BY DEF CheckNothing, TypeOK, ControlOK, Stages
        <4> QED BY <4>1, MoreSentinelsDiffer DEF CheckNothing, Finish, Return, Goto, Quiet
      <3> QED BY <3>1 DEF Recover, CheckStray, CheckJournal, Goto, Quiet
    <2>3. ~Apply
      BY DEF Apply, Reject, WriteJournal, SyncJournal, WriteMarker, SyncMarker, Return, Goto,
             Quiet
    <2>4. ~Put
      BY DEF Put, Truncate, Unlink, Write, Flush, Unpack, SyncParent, ParentMissing, LoopDone,
             Abort, Return, Goto, Quiet
    <2>5. ~Fail /\ ~Outage
      BY DEF Fail, Abort, Return, Outage, Goto, Quiet
    <2>6. SyncUnmark
      BY <2>1, <2>2, <2>3, <2>4, <2>5
         DEF Next, Step, Cleanup, RemoveJournal, SyncRemoval, RemoveMarker, Goto, Quiet
    <2>7. stage = "apply"
      BY <2>6, MoreSentinelsDiffer
         DEF SyncUnmark, Finish, Return, Goto, Quiet, TypeOK, ControlOK, Stages
    <2> QED BY <2>6, <2>7
  <1>2. /\ UNCHANGED refVars /\ journalP' = {NoJournal} /\ phase = "unmarksync"
        /\ journal = NoJournal
    BY <1>1 DEF SyncUnmark, SyncTransactions, DirectoryOK
  <1>3. ASSUME NEW j \in journalP', NEW m \in markerP', NEW pk \in packedP',
               NEW u \in call[holder], NEW l \in Possible(u.name)'
        PROVE  Recovered(j, m, pk, l, u.name) = u.new
    <2>1. u.name \in Names
      BY RequestTypes DEF Touched
    <2>2. ~Unsettled(u.name)
      BY <1>2, <2>1 DEF SettledOK
    <2>3. l = loose[u.name] /\ pk[u.name] = packed[u.name]
      BY <1>2, <1>3, <2>2 DEF Unsettled, Possible, refVars
    <2>4. Visible[u.name] = u.new
      BY <1>1, <1>2, <1>3 DEF AnswerOK
    <2> QED BY <1>2, <2>1, <2>3, <2>4 DEF Recovered, Visible
  <1> QED BY <1>3

\* An update set that apply acknowledged survives every power failure.
THEOREM AnswersAreDurable == ASSUME Regime PROVE Spec => DurableAnswer
  <1>1. Init => AnswerOK
    BY DEF Init, AnswerOK
  <1>2. SafeInv /\ AnswerOK /\ SafeInv' /\ [Next]_vars => AnswerOK'
    BY AnswerStep
  <1>3. SafeInv /\ AnswerOK /\ SafeInv' /\ [Next]_vars =>
            [answer' = "ok" /\ call[holder] \in Requests =>
                \A j \in journalP', m \in markerP', pk \in packedP', u \in call[holder] :
                    \A l \in Possible(u.name)' : Recovered(j, m, pk, l, u.name) = u.new]_vars
    BY AnswerDurable
  <1> QED BY <1>1, <1>2, <1>3, SafetyInvariant, PTL DEF Spec, DurableAnswer

LEMMA OpenCommitted ==
    ASSUME Regime, SafeInv, SafeInv', [Next]_vars, opened' \notin SUBSET opened
    PROVE  Visible' = Committed'
  <1> USE DEF SafeInv, TypeInv
  <1>1. SUFFICES NoJournal \in journalP'
    BY <1>1, CommittedFormsNext DEF Visible, Committed
  <1>2. CASE Next
    <2>1. ASSUME NEW p \in Procs,
                 \/ \E c \in Requests \cup {Opening} : Invoke(p, c)
                 \/ \E us \in Requests : Refuse(p, us)
                 \/ Lock(p) \/ LockFails(p) \/ Kill(p)
          PROVE  opened' \in SUBSET opened
      BY <2>1 DEF Invoke, Refuse, Lock, LockFails, Kill, procVars
    <2>2. CASE Recover
      BY <2>2 DEF Recover, CheckNothing, CheckStray, CheckJournal, procVars, diskVars, txVars,
                  DirectoryOK, LoopPhases
    <2>3. Apply \/ Put => opened' \in SUBSET opened
      BY DEF Apply, Put, Reject, WriteJournal, SyncJournal, WriteMarker, SyncMarker, Truncate,
             Unlink, Write, Flush, Unpack, SyncParent, ParentMissing, LoopDone, Abort, Return,
             procVars
    <2>4. CASE Cleanup
      BY <2>4 DEF Cleanup, RemoveJournal, SyncRemoval, RemoveMarker, SyncUnmark,
                  SyncTransactions, procVars, DirectoryOK
    <2>5. Fail \/ Outage => opened' \in SUBSET opened
      BY DEF Fail, Outage, Abort, Return, procVars
    <2> QED BY <1>2, <2>1, <2>2, <2>3, <2>4, <2>5 DEF Next, Step
  <1>3. CASE UNCHANGED vars
    BY <1>3 DEF vars, procVars
  <1> QED BY <1>2, <1>3

\* Whoever opens a storage sees exactly the committed references.
THEOREM OpensShowCommitted == ASSUME Regime PROVE Spec => OpenShowsCommitted
  <1>1. SafeInv /\ SafeInv' /\ [Next]_vars =>
            [opened' \notin SUBSET opened => Visible' = Committed']_vars
    BY OpenCommitted
  <1> QED BY <1>1, SafetyInvariant, PTL DEF Spec, OpenShowsCommitted
=============================================================================

------------------------ MODULE ReferenceTransaction ------------------------
(***************************************************************************)
(* The crash-recoverable multi-reference update of the filesystem storage  *)
(* (storage/filesystem/reference_transaction.zig), run by several          *)
(* processes on one repository, at the granularity of the file operations  *)
(* it makes and of the barriers (fsync of a file, fsync of a directory)    *)
(* between them.                                                           *)
(*                                                                         *)
(* For every file the model keeps what a running process sees and, in the  *)
(* variables whose names end in P, every content a power failure may leave *)
(* on the disk: an operation adds to that set, a barrier shrinks it to     *)
(* what is seen.  Only the holder of reference.lock is inside the          *)
(* algorithm, so the locals of apply and recoverLocked are global here.    *)
(***************************************************************************)
EXTENDS ReferenceUpdates

CONSTANTS
    Procs,      \* processes (or threads) using the repository
    NoProc,
    Opening,    \* the call that opens a storage, and so runs recover
    NoCall,
    Empty,      \* a loose file that was truncated and not written again
    NoName,
    NoJournal,
    MaxUpdates, \* max_updates
    Oversized,  \* the requests whose journal exceeds max_journal_bytes
    Nested,     \* the names whose parent directory does not exist at first
    Outages,    \* whether the power can fail
    Kills,      \* whether a process can die while the machine runs on
    Faults,     \* whether a file operation can fail
    Gaps        \* whether they can right before a barrier of the transactions directory

ASSUME MoreSentinelsDiffer ==
    /\ Empty \notin Ref
    /\ NoProc \notin Procs
    /\ NoName \notin Names
    /\ Opening \notin Requests
    /\ NoCall \notin Requests \cup {Opening}
ASSUME NestedAreNames == Nested \subseteq Names
ASSUME RegimesAreBooleans == {Outages, Kills, Faults, Gaps} \subseteq BOOLEAN

Entry == [old : Ref, new : Ref]
Journal == UNION {[D -> Entry] : D \in SUBSET Names}

ASSUME NoJournalIsNone == NoJournal \notin Journal

VARIABLES
    loose,      \* what the loose file of each name holds
    fileP,      \* contents the file now linked there may have on the disk
    entryP,     \* earlier states of its directory entry that may come back
    packed,     \* packed-refs, as a function of the name
    packedP,
    dirs,       \* the names of Nested whose parent directory exists
    dirsP,      \* those whose parent directory a power failure cannot undo
    journal,    \* transactions/reference-v1.journal
    journalP,
    marker,     \* transactions/reference-v1.committed exists
    markerP,
    opened,     \* the processes that hold an open storage
    call,       \* what each process is executing
    holder,     \* the owner of transactions/reference.lock
    stage,      \* what recoverLocked and the apply loop run on behalf of
    phase,      \* the next file operation
    forward,    \* `roll_forward`, true in the apply loop too
    todo,       \* names of the journal not yet applied
    at,         \* the name being applied
    answer      \* how the call that returned in the last step ended

refVars  == <<loose, fileP, entryP, packed, packedP, dirs, dirsP>>
txVars   == <<journal, journalP, marker, markerP>>
diskVars == <<refVars, txVars>>
loopVars == <<forward, todo, at>>
procVars == <<opened, call, holder>>
vars == <<diskVars, loopVars, procVars, stage, phase, answer>>

Stages == {"none", "recover", "apply", "undo"}
LoopPhases == {"put", "write", "flush", "unpack", "parent"}
Phases == LoopPhases \cup
    {"none", "check", "prepare", "journalsync", "mark", "marksync",
     "clean", "cleansync", "unmark", "unmarksync"}

TypeOK ==
    /\ loose \in [Names -> Ref \cup {Empty}]
    /\ fileP \in [Names -> SUBSET (Ref \cup {Empty})]
    /\ entryP \in [Names -> SUBSET (Ref \cup {Empty})]
    /\ packed \in [Names -> Ref]
    /\ packedP \subseteq [Names -> Ref]
    /\ dirs \subseteq Nested /\ dirsP \subseteq dirs
    /\ journal \in Journal \cup {NoJournal}
    /\ journalP \subseteq Journal \cup {NoJournal}
    /\ marker \in BOOLEAN /\ markerP \subseteq BOOLEAN
    /\ opened \subseteq Procs
    /\ call \in [Procs -> Requests \cup {Opening, NoCall}]
    /\ holder \in Procs \cup {NoProc}
    /\ stage \in Stages /\ phase \in Phases
    /\ forward \in BOOLEAN /\ todo \subseteq Names /\ at \in Names \cup {NoName}
    /\ answer \in {"none", "ok", "error"}

-----------------------------------------------------------------------------
\* `reference`: the loose file, and packed-refs when there is none.
Visible == [n \in Names |-> IF loose[n] = Absent THEN packed[n] ELSE loose[n]]

\* What the loop of apply or recoverLocked writes for the journaled name n.
Value(n) == IF forward THEN journal[n].new ELSE journal[n].old

\* Without power failures nothing but what is seen can come back.
Persist(S, v) == IF Outages THEN S \cup {v} ELSE {v}

LoopIdle == forward' = FALSE /\ todo' = {} /\ at' = NoName
Quiet == answer' = "none"
Goto(next) == phase' = next /\ Quiet

Init ==
    /\ loose \in [Names -> Ref] /\ \A n \in Nested : loose[n] = Absent
    /\ packed \in [Names -> Ref]
    /\ fileP = [n \in Names |-> {loose[n]}]
    /\ entryP = [n \in Names |-> {}]
    /\ packedP = {packed}
    /\ dirs = {} /\ dirsP = {}
    /\ journal = NoJournal /\ journalP = {NoJournal}
    /\ marker = FALSE /\ markerP = {FALSE}
    /\ opened = {} /\ call = [p \in Procs |-> NoCall] /\ holder = NoProc
    /\ stage = "none" /\ phase = "none"
    /\ forward = FALSE /\ todo = {} /\ at = NoName
    /\ answer = "none"

-----------------------------------------------------------------------------
\* Calls, and how they end.

\* apply on an open storage, or the recover that opens one.
Invoke(p, c) ==
    /\ call[p] = NoCall
    /\ c \in Requests => p \in opened /\ Cardinality(c) <= MaxUpdates
    /\ call' = [call EXCEPT ![p] = c]
    /\ Quiet
    /\ UNCHANGED <<diskVars, loopVars, opened, holder, stage, phase>>

\* More than max_updates entries: error.TransactionTooLarge, before the lock.
Refuse(p, us) ==
    /\ call[p] = NoCall /\ p \in opened
    /\ Cardinality(us) > MaxUpdates
    /\ answer' = "error"
    /\ UNCHANGED <<diskVars, loopVars, procVars, stage, phase>>

\* The lock file is locked: recoverLocked comes first in both calls.
Lock(p) ==
    /\ call[p] # NoCall /\ holder = NoProc
    /\ holder' = p
    /\ stage' = "recover" /\ Goto("check")
    /\ UNCHANGED <<diskVars, loopVars, opened, call>>

\* The transactions directory or the lock file cannot be opened.
LockFails(p) ==
    /\ Faults /\ call[p] # NoCall /\ holder # p
    /\ call' = [call EXCEPT ![p] = NoCall]
    /\ answer' = "error"
    /\ UNCHANGED <<diskVars, loopVars, opened, holder, stage, phase>>

\* Faulty variant: the lock is released before the storage counts as open.
ReturnLate(outcome) ==
    /\ call' = [call EXCEPT ![holder] = NoCall]
    /\ holder' = NoProc
    /\ opened' = IF outcome = "ok" /\ call[holder] = Opening
                 THEN opened \cup {holder'} ELSE opened
    /\ stage' = "none" /\ phase' = "none" /\ LoopIdle
    /\ answer' = outcome

Return(outcome) ==
    /\ opened' = IF outcome = "ok" /\ call[holder] = Opening
                 THEN opened \cup {holder} ELSE opened
    /\ call' = [call EXCEPT ![holder] = NoCall]
    /\ holder' = NoProc
    /\ stage' = "none" /\ phase' = "none" /\ LoopIdle
    /\ answer' = outcome

\* Faulty variant: apply undoes its set and forgets the error that made it.
FinishUndone ==
    \/ /\ stage = "recover" /\ call[holder] \in Requests
       /\ Goto("prepare")
       /\ UNCHANGED <<loopVars, procVars, stage>>
    \/ /\ stage = "recover" => call[holder] = Opening
       /\ Return("ok")

\* recoverLocked or cleanup came to its end.
Finish ==
    \/ /\ stage = "recover" /\ call[holder] \in Requests
       /\ Goto("prepare")
       /\ UNCHANGED <<loopVars, procVars, stage>>
    \/ /\ stage = "recover" => call[holder] = Opening
       /\ Return(IF stage = "undo" THEN "error" ELSE "ok")

\* Faulty variant: an error of the recovery that an open runs is swallowed.
AbortSwallowed ==
    IF stage = "apply" /\ phase \in LoopPhases \cup {"mark", "marksync"}
    THEN /\ stage' = "undo" /\ Goto("check") /\ LoopIdle
         /\ UNCHANGED procVars
    ELSE Return(IF call[holder] = Opening THEN "ok" ELSE "error")

\* An operation failed.  Between the journal and the marker, apply undoes what
\* it did before it returns the error; every other failure is just returned.
Abort ==
    IF stage = "apply" /\ phase \in LoopPhases \cup {"mark", "marksync"}
    THEN /\ stage' = "undo" /\ Goto("check") /\ LoopIdle
         /\ UNCHANGED procVars
    ELSE Return("error")

\* A journal or a marker was renamed or removed, and syncDir is still to come.
BarrierDue == phase \in {"journalsync", "marksync", "cleansync", "unmarksync"}

Fail ==
    /\ Faults /\ holder # NoProc
    /\ BarrierDue => Gaps
    /\ Abort
    /\ UNCHANGED diskVars

-----------------------------------------------------------------------------
\* recoverLocked.

\* No journal and no marker: nothing to do.
CheckNothing ==
    /\ phase = "check" /\ journal = NoJournal /\ ~marker
    /\ Finish
    /\ UNCHANGED diskVars

\* A marker alone is what a cleanup left behind.
CheckStray ==
    /\ phase = "check" /\ journal = NoJournal /\ marker
    /\ Goto("unmark")
    /\ UNCHANGED <<diskVars, loopVars, procVars, stage>>

\* Faulty variant: recovery always rolls back.
CheckJournalBackwards ==
    /\ phase = "check" /\ journal # NoJournal
    /\ forward' = FALSE
    /\ todo' = DOMAIN journal
    /\ Goto("put")
    /\ UNCHANGED <<diskVars, at, procVars, stage>>

\* A journal: forward if the marker is there, back otherwise.
CheckJournal ==
    /\ phase = "check" /\ journal # NoJournal
    /\ forward' = marker
    /\ todo' = DOMAIN journal
    /\ Goto("put")
    /\ UNCHANGED <<diskVars, at, procVars, stage>>

-----------------------------------------------------------------------------
\* apply, once recoverLocked has returned.

\* prepareUpdates refuses the set, or its journal is too large.
Reject ==
    /\ phase = "prepare"
    /\ \/ ~Admissible(call[holder], Visible)
       \/ call[holder] \in Oversized
       \/ \E n \in Touched(call[holder]) : loose[n] = Empty
    /\ Return("error")
    /\ UNCHANGED diskVars

\* The journal, written and synced under a temporary name, is renamed in place.
WriteJournal ==
    LET us == call[holder] IN
    /\ phase = "prepare"
    /\ Admissible(us, Visible) /\ us \notin Oversized
    /\ \A n \in Touched(us) : loose[n] # Empty
    /\ journal' = [n \in Touched(us) |-> [old |-> Visible[n], new |-> Target(us, n)]]
    /\ journalP' = Persist(journalP, journal')
    /\ Goto("journalsync")
    /\ UNCHANGED <<refVars, marker, markerP, loopVars, procVars, stage>>

\* syncDir(transaction_dir) is a barrier for the journal and for the marker.
SyncTransactions ==
    /\ journalP' = {journal} /\ markerP' = {marker}
    /\ UNCHANGED <<refVars, journal, marker>>

\* Faulty variant: the loop starts without the barrier behind the journal.
SyncJournalSkipped ==
    /\ phase = "journalsync"
    /\ forward' = TRUE /\ todo' = DOMAIN journal
    /\ stage' = "apply" /\ Goto("put")
    /\ UNCHANGED <<diskVars, at, procVars>>

SyncJournal ==
    /\ phase = "journalsync"
    /\ SyncTransactions
    /\ forward' = TRUE /\ todo' = DOMAIN journal
    /\ stage' = "apply" /\ Goto("put")
    /\ UNCHANGED <<at, procVars>>

WriteMarker ==
    /\ phase = "mark"
    /\ marker' = TRUE
    /\ markerP' = Persist(markerP, TRUE)
    /\ Goto("marksync")
    /\ UNCHANGED <<refVars, journal, journalP, loopVars, procVars, stage>>

SyncMarker ==
    /\ phase = "marksync"
    /\ SyncTransactions
    /\ Goto("clean")
    /\ UNCHANGED <<loopVars, procVars, stage>>

-----------------------------------------------------------------------------
\* applyReference and syncReferenceParent, for each name of the journal.

\* setRefFile opens the loose file with O_TRUNC, creating it and the
\* directories above it when they are missing.
Truncate(n) ==
    /\ phase = "put" /\ n \in todo /\ Value(n) # Absent
    /\ loose' = [loose EXCEPT ![n] = Empty]
    /\ IF loose[n] = Absent
       THEN /\ fileP' = [fileP EXCEPT ![n] = {Empty}]
            /\ entryP' = [entryP EXCEPT ![n] = IF Outages THEN @ \cup fileP[n] ELSE {}]
       ELSE /\ fileP' = [fileP EXCEPT ![n] = Persist(@, Empty)]
            /\ UNCHANGED entryP
    /\ dirs' = dirs \cup ({n} \cap Nested)
    /\ at' = n
    /\ Goto("write")
    /\ UNCHANGED <<packed, packedP, dirsP, txVars, forward, todo, procVars, stage>>

Write ==
    /\ phase = "write"
    /\ loose' = [loose EXCEPT ![at] = Value(at)]
    /\ fileP' = [fileP EXCEPT ![at] = Persist(@, Value(at))]
    /\ Goto("flush")
    /\ UNCHANGED <<entryP, packed, packedP, dirs, dirsP, txVars, loopVars, procVars, stage>>

\* Faulty variant: the loose file is closed without f.sync().
FlushSkipped ==
    /\ phase = "flush"
    /\ Goto("parent")
    /\ UNCHANGED <<diskVars, loopVars, procVars, stage>>

\* f.sync() pins the content of the file, not its directory entry.
Flush ==
    /\ phase = "flush"
    /\ fileP' = [fileP EXCEPT ![at] = {loose[at]}]
    /\ Goto("parent")
    /\ UNCHANGED <<loose, entryP, packed, packedP, dirs, dirsP, txVars, loopVars,
                   procVars, stage>>

\* removeRef deletes the loose file first ...
Unlink(n) ==
    /\ phase = "put" /\ n \in todo /\ Value(n) = Absent
    /\ IF loose[n] = Absent
       THEN UNCHANGED <<loose, fileP, entryP>>
       ELSE /\ loose' = [loose EXCEPT ![n] = Absent]
            /\ fileP' = [fileP EXCEPT ![n] = {Absent}]
            /\ entryP' = [entryP EXCEPT ![n] = IF Outages THEN @ \cup fileP[n] ELSE {}]
    /\ at' = n
    /\ Goto("unpack")
    /\ UNCHANGED <<packed, packedP, dirs, dirsP, txVars, forward, todo, procVars, stage>>

\* ... and then renames a packed-refs without the name over the old one.
Unpack ==
    /\ phase = "unpack"
    /\ packed' = [packed EXCEPT ![at] = Absent]
    /\ packedP' = Persist(packedP, packed')
    /\ Goto("parent")
    /\ UNCHANGED <<loose, fileP, entryP, dirs, dirsP, txVars, loopVars, procVars, stage>>

\* Faulty variant: the loop does not advance.
SyncParentAgain ==
    /\ phase = "parent" /\ (at \in Nested => at \in dirs)
    /\ entryP' = [entryP EXCEPT ![at] = {}]
    /\ packedP' = {packed}
    /\ at' = NoName
    /\ Goto("put")
    /\ UNCHANGED <<loose, fileP, packed, dirs, dirsP, txVars, forward, todo,
                   procVars, stage>>

\* The barriers for the loose file's directory and for the storage root.
SyncParent ==
    /\ phase = "parent" /\ (at \in Nested => at \in dirs)
    /\ entryP' = [entryP EXCEPT ![at] = {}]
    /\ packedP' = {packed}
    /\ todo' = todo \ {at} /\ at' = NoName
    /\ Goto("put")
    /\ UNCHANGED <<loose, fileP, packed, dirs, dirsP, txVars, forward, procVars, stage>>

\* syncDir of a directory that does not exist is error.NotExist.
ParentMissing ==
    /\ phase = "parent" /\ at \in Nested \ dirs
    /\ Abort
    /\ UNCHANGED diskVars

LoopDone ==
    /\ phase = "put" /\ todo = {}
    /\ Goto(IF stage = "apply" THEN "mark" ELSE "clean")
    /\ UNCHANGED <<diskVars, loopVars, procVars, stage>>

-----------------------------------------------------------------------------
\* cleanup: the journal goes first, the marker after a barrier.

RemoveJournal ==
    /\ phase = "clean"
    /\ journal' = NoJournal
    /\ journalP' = Persist(journalP, NoJournal)
    /\ Goto("cleansync") /\ LoopIdle
    /\ UNCHANGED <<refVars, marker, markerP, procVars, stage>>

\* Faulty variant: no barrier between the two removals.
SyncRemovalSkipped ==
    /\ phase = "cleansync"
    /\ Goto("unmark")
    /\ UNCHANGED <<diskVars, loopVars, procVars, stage>>

SyncRemoval ==
    /\ phase = "cleansync"
    /\ SyncTransactions
    /\ Goto("unmark")
    /\ UNCHANGED <<loopVars, procVars, stage>>

RemoveMarker ==
    /\ phase = "unmark"
    /\ marker' = FALSE
    /\ markerP' = Persist(markerP, FALSE)
    /\ Goto("unmarksync")
    /\ UNCHANGED <<refVars, journal, journalP, loopVars, procVars, stage>>

SyncUnmark ==
    /\ phase = "unmarksync"
    /\ SyncTransactions
    /\ Finish

-----------------------------------------------------------------------------
\* A process dies; the kernel drops its lock and keeps its cached writes.
Kill(p) ==
    /\ Kills /\ (p \in opened \/ call[p] # NoCall)
    /\ BarrierDue /\ holder = p => Gaps
    /\ opened' = opened \ {p}
    /\ call' = [call EXCEPT ![p] = NoCall]
    /\ IF holder = p
       THEN holder' = NoProc /\ stage' = "none" /\ phase' = "none" /\ LoopIdle
       ELSE UNCHANGED <<holder, stage, phase, loopVars>>
    /\ Quiet
    /\ UNCHANGED diskVars

\* The power fails: each file comes back as any of the states it may have on
\* the disk, independently of the others.
Outage ==
    /\ Outages
    /\ dirs' \in {D \in SUBSET dirs : dirsP \subseteq D} /\ dirsP' = dirs'
    /\ loose' \in [Names -> Ref \cup {Empty}]
    /\ \A n \in Names :
          IF n \in Nested \ dirs' THEN loose'[n] = Absent
                                  ELSE loose'[n] \in fileP[n] \cup entryP[n]
    /\ packed' \in packedP /\ journal' \in journalP /\ marker' \in markerP
    /\ fileP' = [n \in Names |-> {loose'[n]}]
    /\ entryP' = [n \in Names |-> {}]
    /\ packedP' = {packed'} /\ journalP' = {journal'} /\ markerP' = {marker'}
    /\ opened' = {} /\ call' = [p \in Procs |-> NoCall] /\ holder' = NoProc
    /\ stage' = "none" /\ phase' = "none" /\ LoopIdle
    /\ Quiet

Recover == CheckNothing \/ CheckStray \/ CheckJournal
Apply == Reject \/ WriteJournal \/ SyncJournal \/ WriteMarker \/ SyncMarker
Put == \/ \E n \in Names : Truncate(n) \/ Unlink(n)
       \/ Write \/ Flush \/ Unpack \/ SyncParent \/ ParentMissing \/ LoopDone
Cleanup == RemoveJournal \/ SyncRemoval \/ RemoveMarker \/ SyncUnmark

Step == Recover \/ Apply \/ Put \/ Cleanup

Next ==
    \/ \E p \in Procs : \/ \E c \in Requests \cup {Opening} : Invoke(p, c)
                        \/ \E us \in Requests : Refuse(p, us)
                        \/ Lock(p) \/ LockFails(p) \/ Kill(p)
    \/ Step
    \/ Fail
    \/ Outage

Spec == Init /\ [][Next]_vars

\* The holder of the lock keeps running.
FairSpec == Spec /\ WF_vars(Step)

-----------------------------------------------------------------------------
\* Properties.

\* The state of a reference that recovery makes of one image of the disk.
Recovered(j, m, pk, l, n) ==
    IF j # NoJournal /\ n \in DOMAIN j
    THEN IF m THEN j[n].new ELSE j[n].old
    ELSE IF l = Absent THEN pk[n] ELSE l

\* The references of the abstract specification: the marker decides once it
\* can no longer be lost, and the journal counts until it cannot come back.
Committed ==
    [n \in Names |->
        Recovered(IF NoJournal \in journalP THEN NoJournal ELSE journal,
                  FALSE \notin markerP, packed, loose[n], n)]

\* What the loose file of n may hold after a power failure.
Possible(n) ==
    fileP[n] \cup entryP[n] \cup (IF Outages /\ n \in Nested \ dirsP THEN {Absent} ELSE {})

\* A reference file that a power failure could change, or that is torn.
Unsettled(n) ==
    \/ loose[n] = Empty \/ Possible(n) # {loose[n]}
    \/ \E pk \in packedP : pk[n] # packed[n]

\* Write-ahead: while a reference file is torn or may change in a power
\* failure, the journal with its old and new values cannot be lost.
WriteAhead ==
    \A n \in Names : Unsettled(n) =>
        \A j \in journalP : j # NoJournal /\ n \in DOMAIN j

\* Recovery of the journal image j and the marker image m gives refs, whatever
\* became of the reference files.
RecoversTo(j, m, refs) ==
    \A pk \in packedP, n \in Names :
        \A l \in Possible(n) : Recovered(j, m, pk, l, n) = refs[n]

\* The references with the whole journaled update set applied.
Proposed ==
    [n \in Names |-> IF n \in DOMAIN journal THEN journal[n].new ELSE Committed[n]]

\* Whatever a power failure leaves, recovery makes of it the committed
\* references, or those the journaled update set would commit.
CrashConsistent ==
    \A j \in journalP, m \in markerP :
        \/ RecoversTo(j, m, Committed)
        \/ journal # NoJournal /\ m /\ RecoversTo(j, m, Proposed)

Atomic == INSTANCE AtomicReferences WITH refs <- Committed
AtomicSpec == Atomic!Spec

\* apply is to "validate, journal, durably publish" its set: when it returns
\* without an error, no power failure takes an update of the set back.
DurableAnswer ==
    [][answer' = "ok" /\ call[holder] \in Requests =>
        \A j \in journalP', m \in markerP', pk \in packedP', u \in call[holder] :
            \A l \in Possible(u.name)' : Recovered(j, m, pk, l, u.name) = u.new]_vars

\* A storage that opens shows the committed references and no torn file.
OpenShowsCommitted ==
    [][opened' \notin SUBSET opened => Visible' = Committed']_vars

\* The holder always lets go of the lock.
LockReleased == holder # NoProc ~> holder = NoProc

-----------------------------------------------------------------------------
\* A statement of the source that the code does not live up to.

\* "Absence of the durable commit marker means recovery rolls back": it does
\* not fail as long as no file operation does.
RecoveryResolves ==
    [][~Faults /\ holder # NoProc /\ call[holder] = Opening => answer' # "error"]_vars
=============================================================================

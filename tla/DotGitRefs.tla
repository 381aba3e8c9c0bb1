----------------------------- MODULE DotGitRefs -----------------------------
(***************************************************************************)
(* Loose reference files and packed-refs (storage/filesystem/dotgit), used *)
(* by several processes or threads at once, at the granularity of the file *)
(* operations each call makes.  A file is an inode: a process that has     *)
(* opened it keeps it, and the lock on it, when the name is unlinked or    *)
(* another file is renamed over it.                                        *)
(*                                                                         *)
(* The references live in one directory, which a walk lists in one step,   *)
(* and no name is the directory of another.                                *)
(***************************************************************************)
EXTENDS ReferenceUpdates, Functions

CONSTANTS
    Procs,
    Setters,   \* the processes that call setRef and removeRef, as Requests say
    Readers,   \* those that call ref and refs
    Packers,   \* those that call packRefs
    Files,     \* loose files, linked or only open
    Packs,     \* files that are or were packed-refs
    NoFile,
    NoPack,
    NoName,
    Empty,     \* the content of a file created or truncated and not yet written
    Garbled,   \* a content that does not parse
    Symbolic,  \* the values that are symbolic targets
    Length,    \* bytes of the content of each value
    LooseAtFirst, PackedAtFirst, \* what a loose file, and packed-refs, may say at first
    Stops      \* whether a call can stop half-way: an error, or its process dies

ASSUME RolesAreProcs == Setters \cup Readers \cup Packers \subseteq Procs
ASSUME RequestsAreSingle ==
    \A us \in Requests : \E u \in us : us = {u} /\ u.guard # Absent
ASSUME SymbolicAreValues == Symbolic \subseteq Values
ASSUME LengthsAreNumbers == Length \in [Values -> Nat]
ASSUME FirstAreRefs == LooseAtFirst \cup PackedAtFirst \subseteq Ref
ASSUME FileSentinelsDiffer ==
    NoFile \notin Files /\ NoPack \notin Packs /\ NoName \notin Names
    /\ Empty \notin Ref /\ Garbled \notin Ref \cup {Empty}
\* The file system does not run out of files: a name links one and a process has
\* one open; packed-refs is one more, and so is the one that replaces it.
ASSUME FilesSuffice ==
    /\ IsFiniteSet(Names) /\ IsFiniteSet(Procs) /\ IsFiniteSet(Files) /\ IsFiniteSet(Packs)
    /\ Cardinality(Names) + Cardinality(Procs) <= Cardinality(Files)
    /\ Cardinality(Procs) + 2 <= Cardinality(Packs)

VARIABLES
    link,    \* the loose file each name is linked to
    text,    \* the content of each loose file
    packed,  \* the file that is packed-refs
    table,   \* the references in each packed-refs file
    proc,    \* what each process is doing
    refs,    \* history: the references as the completed updates left them
    seen     \* history: the values a reference had since a call that reads it began

vars == <<link, text, packed, table, proc, refs, seen>>

Content == Values \cup {Empty, Garbled}
Table == [Names -> Ref]
Kinds == {"none", "set", "remove", "ref", "refs", "pack"}
Steps == {"idle", "open", "lock", "check", "consult", "truncate", "write",
          "stat", "unlink", "stripopen", "striplock", "strip",
          "packopen", "packlock", "scan", "walk", "read", "lookup", "rename", "drop",
          "done"}

\* The locals of a call: file and pack are the files it has open, todo the
\* names a walk (or the removal of packed loose files) has still to visit, at
\* the one being read, found the references listed so far.
Local == [pc : Steps, kind : Kinds, name : Names \cup {NoName}, new : Ref,
          guard : Values \cup {Anything}, file : Files \cup {NoFile},
          pack : Packs \cup {NoPack}, at : Names \cup {NoName},
          todo : SUBSET Names, found : Table]

TypeOK ==
    /\ link \in [Names -> Files \cup {NoFile}]
    /\ text \in [Files -> Content]
    /\ packed \in Packs \cup {NoPack}
    /\ table \in [Packs -> Table]
    /\ proc \in [Procs -> Local]
    /\ refs \in Table
    /\ seen \in [Procs -> [Names -> SUBSET Ref]]

-----------------------------------------------------------------------------
Nowhere == [n \in Names |-> Absent]

Idle == [pc |-> "idle", kind |-> "none", name |-> NoName, new |-> Absent,
         guard |-> Anything, file |-> NoFile, pack |-> NoPack, at |-> NoName,
         todo |-> {}, found |-> Nowhere]

Opened == {proc[q].file : q \in Procs}
NewFile == CHOOSE f \in Files \ Opened : \A n \in Names : link[n] # f
OpenPacks == {proc[q].pack : q \in Procs}
NewPack == CHOOSE g \in Packs \ OpenPacks : g # packed

\* f.lock() is held from then on until the file is closed.
FileHeld(f) == \E q \in Procs :
    proc[q].file = f /\ proc[q].pc \in {"check", "consult", "truncate", "write"}
PackHeld(g) == \E q \in Procs :
    proc[q].pack = g /\ proc[q].pc \notin {"striplock", "packlock"}

\* packed-refs holds "ref: <target> <name>" for a symbolic reference, which is
\* one field too many for processLine.
Malformed(t) == \E n \in Names : t[n] \in Symbolic

\* packedRef, on the file that is packed-refs now.  It reads lines up to the
\* one it is looking for, so a malformed line may or may not be met.
PackedTable == IF packed = NoPack THEN Nowhere ELSE table[packed]
PackedRef(n) ==
    (IF PackedTable[n] \in Symbolic THEN {} ELSE {PackedTable[n]})
    \cup (IF Malformed(PackedTable) THEN {Garbled} ELSE {})

\* Writing at offset 0 over content that is already there.
Overwrite(old, new) ==
    LET before == CASE old = Empty -> {} [] old = Garbled -> Values [] OTHER -> {old} IN
    IF \A x \in before : Length[x] <= Length[new] THEN new ELSE Garbled

\* Reference.hash is zero for every symbolic reference.
SameHash(x, y) == x = y \/ {x, y} \subseteq Symbolic

Goto(p, next) == proc' = [proc EXCEPT ![p].pc = next]
Leave(p) == proc' = [proc EXCEPT ![p] = Idle]

LooseUnchanged == UNCHANGED <<link, text>>
PackedUnchanged == UNCHANGED <<packed, table>>
FilesUnchanged == LooseUnchanged /\ PackedUnchanged

Init ==
    /\ \E l \in [Names -> LooseAtFirst], t \in [Names -> PackedAtFirst] :
          LET D == CHOOSE D \in Injection(Names, Files) : TRUE
              g == CHOOSE g \in Packs : TRUE IN
          /\ link = [n \in Names |-> IF l[n] = Absent THEN NoFile ELSE D[n]]
          /\ text = [f \in Files |-> IF \E n \in Names : link[n] = f
                                     THEN l[CHOOSE n \in Names : link[n] = f] ELSE Empty]
          /\ packed = IF t = Nowhere THEN NoPack ELSE g
          /\ table = [x \in Packs |-> IF x = g THEN t ELSE Nowhere]
          /\ refs = [n \in Names |-> IF l[n] = Absent THEN t[n] ELSE l[n]]
    /\ proc = [p \in Procs |-> Idle]
    /\ seen = [p \in Procs |-> [n \in Names |-> {}]]

-----------------------------------------------------------------------------
\* Calls.

Begin(p, kind, first) == proc' = [proc EXCEPT ![p] = [Idle EXCEPT !.kind = kind, !.pc = first]]

Invoke(p) ==
    /\ proc[p].pc = "idle"
    /\ \/ /\ p \in Setters
          /\ \E us \in Requests : \E u \in us :
                LET set == u.new # Absent IN
                proc' = [proc EXCEPT ![p] =
                            [Idle EXCEPT !.kind = IF set THEN "set" ELSE "remove",
                                         !.pc = IF set THEN "open" ELSE "stat",
                                         !.name = u.name, !.new = u.new, !.guard = u.guard]]
       \/ /\ p \in Readers
          /\ \/ Begin(p, "refs", "scan")
             \/ \E n \in Names :
                   proc' = [proc EXCEPT ![p] = [Idle EXCEPT !.kind = "ref", !.pc = "walk",
                                                            !.name = n, !.todo = {n}]]
       \/ p \in Packers /\ Begin(p, "pack", "packopen")
    /\ FilesUnchanged /\ UNCHANGED refs

\* An operation fails or the process dies: no call undoes what it did, and
\* its files are closed either way.
Stop(p) ==
    /\ Stops /\ proc[p].pc # "idle"
    /\ Leave(p)
    /\ FilesUnchanged /\ UNCHANGED refs

-----------------------------------------------------------------------------
\* setRef.

\* The file is opened, and created if need be.  Without an old value to check
\* it is truncated right here, before the lock.
SetOpen(p) ==
    LET n == proc[p].name IN
    /\ proc[p].pc = "open"
    /\ LET f == IF link[n] = NoFile THEN NewFile ELSE link[n] IN
          /\ link' = [link EXCEPT ![n] = f]
          /\ text' = [text EXCEPT ![f] =
                         IF link[n] = NoFile \/ proc[p].guard = Anything THEN Empty ELSE @]
          /\ proc' = [proc EXCEPT ![p].file = f, ![p].pc = "lock"]
    /\ PackedUnchanged /\ UNCHANGED refs

\* Faulty variant: f.lock() is not called.
LockIgnored(p) ==
    /\ proc[p].pc = "lock"
    /\ Goto(p, IF proc[p].guard = Anything THEN "write" ELSE "check")
    /\ FilesUnchanged /\ UNCHANGED refs

Lock(p) ==
    /\ proc[p].pc = "lock" /\ ~FileHeld(proc[p].file)
    /\ Goto(p, IF proc[p].guard = Anything THEN "write" ELSE "check")
    /\ FilesUnchanged /\ UNCHANGED refs

\* Faulty variant: the file is truncated before its value is compared.
CheckLate(p) ==
    LET current == text[proc[p].file] IN
    /\ proc[p].pc = "check"
    /\ text' = [text EXCEPT ![proc[p].file] = Empty]
    /\ \/ current = Empty /\ Goto(p, "consult")
       \/ current \in Values /\ SameHash(current, proc[p].guard) /\ Goto(p, "truncate")
       \/ current \in Values /\ ~SameHash(current, proc[p].guard) /\ Leave(p)
       \/ current = Garbled /\ Leave(p)
    /\ PackedUnchanged /\ UNCHANGED <<link, refs>>

\* checkReferenceAndTruncate: an empty file says nothing, ask packed-refs.
Check(p) ==
    LET current == text[proc[p].file] IN
    /\ proc[p].pc = "check"
    /\ \/ current = Empty /\ Goto(p, "consult")
       \/ current \in Values /\ SameHash(current, proc[p].guard) /\ Goto(p, "truncate")
       \/ current \in Values /\ ~SameHash(current, proc[p].guard) /\ Leave(p)
       \/ current = Garbled /\ Leave(p)
    /\ FilesUnchanged /\ UNCHANGED refs

\* A reference that packed-refs does not have either passes the check.
Consult(p) ==
    /\ proc[p].pc = "consult"
    /\ \E current \in PackedRef(proc[p].name) :
          IF current = Absent \/ (current # Garbled /\ SameHash(current, proc[p].guard))
          THEN Goto(p, "truncate") ELSE Leave(p)
    /\ FilesUnchanged /\ UNCHANGED refs

Truncate(p) ==
    /\ proc[p].pc = "truncate"
    /\ text' = [text EXCEPT ![proc[p].file] = Empty]
    /\ Goto(p, "write")
    /\ PackedUnchanged /\ UNCHANGED <<link, refs>>

\* Write, sync and close.  A file that has been unlinked since it was opened
\* takes the value with it: the call counts as done before the unlinking.
Write(p) ==
    LET n == proc[p].name  f == proc[p].file IN
    /\ proc[p].pc = "write"
    /\ text' = [text EXCEPT ![f] = Overwrite(@, proc[p].new)]
    /\ refs' = IF link[n] = f THEN [refs EXCEPT ![n] = proc[p].new] ELSE refs
    /\ Leave(p)
    /\ PackedUnchanged /\ UNCHANGED link

-----------------------------------------------------------------------------
\* removeRef: the loose file, then packed-refs.

Stat(p) ==
    /\ proc[p].pc = "stat"
    /\ Goto(p, IF link[proc[p].name] = NoFile THEN "stripopen" ELSE "unlink")
    /\ FilesUnchanged /\ UNCHANGED refs

\* error.NotExist, when the file has gone since, ends the call.
Unlink(p) ==
    LET n == proc[p].name IN
    /\ proc[p].pc = "unlink"
    /\ IF link[n] = NoFile THEN Leave(p) /\ UNCHANGED <<link, refs>>
       ELSE /\ link' = [link EXCEPT ![n] = NoFile]
            /\ refs' = IF PackedTable[n] = Absent THEN [refs EXCEPT ![n] = Absent] ELSE refs
            /\ Goto(p, "stripopen")
    /\ PackedUnchanged /\ UNCHANGED text

StripOpen(p) ==
    /\ proc[p].pc = "stripopen"
    /\ IF packed = NoPack THEN Leave(p)
       ELSE proc' = [proc EXCEPT ![p].pack = packed, ![p].pc = "striplock"]
    /\ FilesUnchanged /\ UNCHANGED refs

LockPack(p) ==
    /\ proc[p].pc \in {"striplock", "packlock"} /\ ~PackHeld(proc[p].pack)
    /\ Goto(p, IF proc[p].pc = "striplock" THEN "strip" ELSE "scan")
    /\ FilesUnchanged /\ UNCHANGED refs

\* A new file that lists t takes the name packed-refs.  The old one lives on for
\* those who have it open.
Install(t) ==
    /\ packed' = NewPack
    /\ table' = [g \in Packs |-> IF g = NewPack THEN t
                                 ELSE IF g \in OpenPacks THEN table[g] ELSE Nowhere]

\* rewritePackedRefsWithoutRef copies the file it opened.
Strip(p) ==
    LET n == proc[p].name  t == table[proc[p].pack] IN
    /\ proc[p].pc = "strip"
    /\ IF Malformed(t) \/ t[n] = Absent
       THEN PackedUnchanged /\ UNCHANGED refs
       ELSE /\ Install([t EXCEPT ![n] = Absent])
            /\ refs' = IF link[n] = NoFile THEN [refs EXCEPT ![n] = Absent] ELSE refs
    /\ Leave(p)
    /\ LooseUnchanged

-----------------------------------------------------------------------------
\* ref, refs and the walk over loose references that packRefs shares with refs.

Scan(p) ==
    /\ proc[p].pc = "scan"
    /\ proc' = [proc EXCEPT ![p].todo = {n \in Names : link[n] # NoFile}, ![p].pc = "walk"]
    /\ FilesUnchanged /\ UNCHANGED refs

Open(p) ==
    /\ proc[p].pc = "walk"
    /\ \E n \in proc[p].todo :
          proc' = IF link[n] = NoFile
                  THEN [proc EXCEPT ![p].todo = @ \ {n}]
                  ELSE [proc EXCEPT ![p].todo = @ \ {n}, ![p].file = link[n],
                                    ![p].at = n, ![p].pc = "read"]
    /\ FilesUnchanged /\ UNCHANGED refs

\* Faulty variant: whatever the file holds is taken for a value.
ReadUnchecked(p) ==
    /\ proc[p].pc = "read"
    /\ proc' = [proc EXCEPT ![p].found[proc[p].at] = text[proc[p].file],
                            ![p].file = NoFile, ![p].at = NoName, ![p].pc = "walk"]
    /\ FilesUnchanged /\ UNCHANGED refs

\* Faulty variant: an empty file is taken for a missing one.
ReadEmptyAsMissing(p) ==
    LET value == text[proc[p].file] IN
    /\ proc[p].pc = "read"
    /\ IF value = Garbled THEN Leave(p)
       ELSE proc' = [proc EXCEPT
                ![p].found[proc[p].at] = IF value = Empty THEN Absent ELSE value,
                ![p].file = NoFile, ![p].at = NoName, ![p].pc = "walk"]
    /\ FilesUnchanged /\ UNCHANGED refs

\* error.EmptyRefFile and error.MalformedRefFile end the whole call.
Read(p) ==
    LET value == text[proc[p].file] IN
    /\ proc[p].pc = "read"
    /\ IF value \notin Values THEN Leave(p)
       ELSE proc' = [proc EXCEPT ![p].found[proc[p].at] = value, ![p].file = NoFile,
                                 ![p].at = NoName, ![p].pc = "walk"]
    /\ FilesUnchanged /\ UNCHANGED refs

\* Faulty variant: refs is done, too, once it found loose references.
WalkDoneEarly(p) ==
    LET none == proc[p].found = Nowhere IN
    /\ proc[p].pc = "walk" /\ proc[p].todo = {}
    /\ IF proc[p].kind = "pack" THEN IF none THEN Leave(p) ELSE Goto(p, "rename")
                                ELSE Goto(p, IF none THEN "lookup" ELSE "done")
    /\ FilesUnchanged /\ UNCHANGED refs

\* ref is done with a loose reference, packRefs without one.
WalkDone(p) ==
    LET none == proc[p].found = Nowhere IN
    /\ proc[p].pc = "walk" /\ proc[p].todo = {}
    /\ \/ proc[p].kind = "ref" /\ Goto(p, IF none THEN "lookup" ELSE "done")
       \/ proc[p].kind = "refs" /\ Goto(p, "lookup")
       \/ proc[p].kind = "pack" /\ IF none THEN Leave(p) ELSE Goto(p, "rename")
    /\ FilesUnchanged /\ UNCHANGED refs

Merged(found, t) == [n \in Names |-> IF found[n] # Absent THEN found[n] ELSE t[n]]

Lookup(p) ==
    LET n == proc[p].name IN
    /\ proc[p].pc = "lookup"
    /\ IF proc[p].kind = "ref"
       THEN \E value \in PackedRef(n) :
               IF value = Garbled THEN Leave(p)
               ELSE proc' = [proc EXCEPT ![p].found[n] = value, ![p].pc = "done"]
       ELSE IF Malformed(PackedTable) THEN Leave(p)
            ELSE proc' = [proc EXCEPT ![p].found = Merged(@, PackedTable), ![p].pc = "done"]
    /\ FilesUnchanged /\ UNCHANGED refs

Return(p) ==
    /\ proc[p].pc = "done"
    /\ Leave(p)
    /\ FilesUnchanged /\ UNCHANGED refs

-----------------------------------------------------------------------------
\* packRefs.

PackOpen(p) ==
    /\ proc[p].pc = "packopen"
    /\ IF packed # NoPack
       THEN /\ proc' = [proc EXCEPT ![p].pack = packed, ![p].pc = "packlock"]
            /\ PackedUnchanged
       ELSE /\ Install(Nowhere)
            /\ proc' = [proc EXCEPT ![p].pack = NewPack, ![p].pc = "packlock"]
    /\ LooseUnchanged /\ UNCHANGED refs

\* Faulty variant: only the loose references are written.
RenameLooseOnly(p) ==
    LET found == proc[p].found IN
    /\ proc[p].pc = "rename"
    /\ Install(found)
    /\ proc' = [proc EXCEPT ![p].todo = {n \in Names : found[n] # Absent},
                            ![p].found = Nowhere, ![p].pc = "drop"]
    /\ LooseUnchanged /\ UNCHANGED refs

\* The loose references found, and those of the file that was opened.
Rename(p) ==
    LET t == table[proc[p].pack]  found == proc[p].found IN
    /\ proc[p].pc = "rename"
    /\ IF Malformed(t) THEN Leave(p) /\ PackedUnchanged
       ELSE /\ Install(Merged(found, t))
            /\ proc' = [proc EXCEPT ![p].todo = {n \in Names : found[n] # Absent},
                                    ![p].found = Nowhere, ![p].pc = "drop"]
    /\ LooseUnchanged /\ UNCHANGED refs

\* Faulty variant: a file that has gone already is tried again.
DropAgain(p) ==
    /\ proc[p].pc = "drop"
    /\ \E n \in proc[p].todo :
          /\ link' = [link EXCEPT ![n] = NoFile]
          /\ proc' = [proc EXCEPT ![p].todo = IF link[n] = NoFile THEN @ ELSE @ \ {n}]
    /\ PackedUnchanged /\ UNCHANGED <<text, refs>>

\* The loose files of the names that were packed are removed, whatever they
\* hold by now.
Drop(p) ==
    /\ proc[p].pc = "drop"
    /\ \E n \in proc[p].todo :
          /\ link' = [link EXCEPT ![n] = NoFile]
          /\ proc' = [proc EXCEPT ![p].todo = @ \ {n}]
    /\ PackedUnchanged /\ UNCHANGED <<text, refs>>

DropDone(p) ==
    /\ proc[p].pc = "drop" /\ proc[p].todo = {}
    /\ Leave(p)
    /\ FilesUnchanged /\ UNCHANGED refs

-----------------------------------------------------------------------------
Set(p) == SetOpen(p) \/ Lock(p) \/ Check(p) \/ Consult(p) \/ Truncate(p) \/ Write(p)
Remove(p) == Stat(p) \/ Unlink(p) \/ StripOpen(p) \/ Strip(p)
Get(p) == Scan(p) \/ Open(p) \/ Read(p) \/ WalkDone(p) \/ Lookup(p) \/ Return(p)
Pack(p) == PackOpen(p) \/ LockPack(p) \/ Rename(p) \/ Drop(p) \/ DropDone(p)
Step(p) == Set(p) \/ Remove(p) \/ Get(p) \/ Pack(p)

\* The values of n that matter to the call of p.
Watched(p, n) ==
    CASE proc[p].kind = "refs"                      -> Ref
      [] proc[p].kind = "ref" /\ proc[p].name = n   -> Ref
      [] proc[p].kind = "set" /\ proc[p].name = n   -> Values \cap {proc[p].guard}
      [] OTHER                                      -> {}

Observe ==
    seen' = [p \in Procs |-> [n \in Names |->
                Watched(p, n)' \cap (seen[p][n] \cup {refs'[n]})]]

Advance(p) == Step(p) /\ Observe

Next == \E p \in Procs : Advance(p) \/ ((Invoke(p) \/ Stop(p)) /\ Observe)

Spec == Init /\ [][Next]_vars

\* Every process goes on with its call, and a lock that keeps being released
\* is obtained.
FairSpec == Spec /\ \A p \in Procs : SF_vars(Advance(p))

-----------------------------------------------------------------------------
\* Properties.

\* A set with an old value is applied when the reference is missing, too.
Weakened == {{[u EXCEPT !.guard = Absent]} : u \in {u \in UNION Requests : u.guard \in Values}}
Atomic == INSTANCE AtomicReferences WITH Requests <- Requests \cup Weakened

\* setRef with an old value is a check-and-set, whatever else runs: references
\* change by admissible updates only.
AtomicSpec == Atomic!Spec

Changing(n) == \E p \in Procs : proc[p].kind \in {"set", "remove"} /\ proc[p].name = n

\* What `ref` finds when nothing interferes.
Found(n) ==
    IF link[n] # NoFile THEN text[link[n]]
    ELSE IF PackedTable[n] \in Symbolic THEN Garbled ELSE PackedTable[n]

\* No update is lost and nothing removed comes back: unless a call is changing
\* it, every reference is found as the last update left it.
LookupFinds == \A n \in Names : Changing(n) \/ Found(n) = refs[n]

\* ref and refs return, for every name, a value (or the absence) the reference
\* had while the call ran; refs misses no reference that was there throughout.
\* (Removals aside: a set that writes into an unlinked file is in no state.)
ReadsFresh ==
    \A p \in Procs : proc[p].pc = "done" =>
        \A n \in Names : Watched(p, n) # {} => proc[p].found[n] \in seen[p][n]

\* Every call ends.
CallsEnd == \A p \in Procs : proc[p].pc # "idle" ~> proc[p].pc = "idle"
=============================================================================

-------------------------- MODULE DotGitRefs_proofs --------------------------
(***************************************************************************)
(* Proofs about DotGitRefs, for any names, values and processes.           *)
(***************************************************************************)
EXTENDS DotGitRefs, FiniteSetTheorems, TLAPS

Writing == {"lock", "check", "consult", "truncate", "write"}
Locked == {"check", "consult", "truncate", "write"}
PackWaiting == {"striplock", "packlock"}

\* The calls whose locals are c, and what a step of them finds in its locals.
ControlOf(c) ==
    /\ c.pc = "idle" => c = Idle
    /\ c.kind = "none" => c.pc = "idle"
    /\ c.pc = "open" \/ c.pc \in Writing <=> c.kind = "set"
    /\ c.pc \in {"stat", "unlink", "stripopen", "striplock", "strip"} <=> c.kind = "remove"
    /\ c.pc \in {"packopen", "packlock", "rename", "drop"} => c.kind = "pack"
    /\ c.pc \in {"lookup", "done"} => c.kind \in {"ref", "refs"}
    /\ c.pc = "scan" => c.kind # "ref"
    /\ c.kind \in {"set", "remove", "ref"} => c.name \in Names
    /\ c.kind = "set" => c.new \in Values
    /\ c.kind = "remove" => c.new = Absent
    /\ c.pc \in {"check", "consult", "truncate"} => c.guard \in Values
    /\ c.pc \in Writing \/ c.pc = "read" <=> c.file \in Files
    /\ c.pc = "read" <=> c.at \in Names
    /\ \/ c.pc \in {"striplock", "strip"}
       \/ c.kind = "pack" /\ c.pc # "packopen"
       <=> c.pack \in Packs

ControlOK == \A p \in Procs : ControlOf(proc[p])

\* Two names have no file in common, and a file that a call has open and that a
\* name is linked to is the file of the call's own name.
FilesApart ==
    /\ \A n, m \in Names : link[n] = link[m] /\ link[n] # NoFile => n = m
    /\ \A p \in Procs, n \in Names : link[n] = proc[p].file =>
          /\ proc[p].pc \in Writing => n = proc[p].name
          /\ proc[p].pc = "read" => n = proc[p].at

\* The advisory locks: one process at a time writes a loose file, or works on a
\* packed-refs file.
LocksExclude ==
    \A p, q \in Procs :
        /\ /\ proc[p].pc \in Locked /\ proc[q].pc \in Locked
           /\ proc[p].file = proc[q].file
           => p = q
        /\ /\ proc[p].pack \in Packs /\ proc[p].pack = proc[q].pack
           /\ proc[p].pc \notin PackWaiting /\ proc[q].pc \notin PackWaiting
           => p = q

Shape == TypeOK /\ ControlOK /\ FilesApart /\ LocksExclude

-----------------------------------------------------------------------------
\* Counting files.

\* A finite set has at least as many elements as a function maps it to.
LEMMA ImageSize ==
    ASSUME NEW S, NEW T, NEW f \in [S -> T], IsFiniteSet(S)
    PROVE  /\ IsFiniteSet({f[x] : x \in S})
           /\ Cardinality({f[x] : x \in S}) <= Cardinality(S)
  <1>1. f \in Surjection(S, {f[x] : x \in S})
    BY DEF Surjection
  <1> QED BY <1>1, FS_Surjection, Zenon

\* Where there is room, an element is left over from two smaller sets.
LEMMA Remaining ==
    ASSUME NEW U, NEW S, NEW T, IsFiniteSet(U), IsFiniteSet(S), IsFiniteSet(T),
           Cardinality(S) + Cardinality(T) < Cardinality(U)
    PROVE  \E x \in U : x \notin S /\ x \notin T
  <1>1. IsFiniteSet(S \cup T) /\ Cardinality(S \cup T) <= Cardinality(S) + Cardinality(T)
    <2>1. /\ IsFiniteSet(S \cup T) /\ IsFiniteSet(S \cap T)
          /\ Cardinality(S \cup T) = Cardinality(S) + Cardinality(T) - Cardinality(S \cap T)
      BY FS_Union, FS_Intersection
    <2>2. /\ Cardinality(S) \in Nat /\ Cardinality(T) \in Nat
          /\ Cardinality(S \cap T) \in Nat
      BY <2>1, FS_CardinalityType
    <2> QED BY <2>1, <2>2
  <1>2. SUFFICES ASSUME U \subseteq S \cup T PROVE FALSE
    OBVIOUS
  <1>3. Cardinality(U) <= Cardinality(S \cup T)
    BY <1>1, <1>2, FS_Subset
  <1>4. /\ Cardinality(U) \in Nat /\ Cardinality(S) \in Nat /\ Cardinality(T) \in Nat
        /\ Cardinality(S \cup T) \in Nat
    BY <1>1, FS_CardinalityType
  <1> QED BY <1>1, <1>3, <1>4

\* A name that is not linked leaves a file that nothing links and no call has open.
LEMMA NewFileIsNew ==
    ASSUME TypeOK, NEW m \in Names, link[m] = NoFile
    PROVE  /\ NewFile \in Files
           /\ \A q \in Procs : proc[q].file # NewFile
           /\ \A n \in Names : link[n] # NewFile
  <1> DEFINE open == [q \in Procs |-> proc[q].file]
             rest == Names \ {m}
             linked == [n \in rest |-> link[n]]
             S == {open[q] : q \in Procs}
             T == {linked[n] : n \in rest}
  <1>1. IsFiniteSet(S) /\ Cardinality(S) <= Cardinality(Procs)
    <2>1. open \in [Procs -> Files \cup {NoFile}]
      BY DEF TypeOK, Local
    <2>2. IsFiniteSet(Procs)
      BY FilesSuffice
    <2> HIDE DEF open
    <2> QED BY <2>1, <2>2, ImageSize
  <1>2. IsFiniteSet(rest) /\ Cardinality(rest) = Cardinality(Names) - 1
    BY FS_RemoveElement, FilesSuffice
  <1>3. IsFiniteSet(T) /\ Cardinality(T) <= Cardinality(rest)
    <2>1. linked \in [rest -> Files \cup {NoFile}]
      BY DEF TypeOK
    <2> HIDE DEF linked, rest
    <2> QED BY <2>1, <1>2, ImageSize
  <1>4. \E x \in Files : x \notin S /\ x \notin T
    <2>1. /\ Cardinality(S) \in Nat /\ Cardinality(T) \in Nat /\ Cardinality(rest) \in Nat
          /\ Cardinality(Procs) \in Nat /\ Cardinality(Names) \in Nat
          /\ Cardinality(Files) \in Nat
      BY <1>1, <1>2, <1>3, FilesSuffice, FS_CardinalityType
    <2> HIDE DEF S, T, rest
    <2>2. Cardinality(S) + Cardinality(T) < Cardinality(Files)
      BY <2>1, <1>1, <1>2, <1>3, FilesSuffice
    <2> QED BY <2>2, <1>1, <1>3, FilesSuffice, Remaining
  <1>5. PICK x \in Files : x \notin S /\ x \notin T
    BY <1>4
  <1>6. x \notin Opened /\ \A n \in Names : link[n] # x
    BY <1>5, FileSentinelsDiffer DEF Opened
  <1>7. NewFile \in Files \ Opened /\ \A n \in Names : link[n] # NewFile
    BY <1>6 DEF NewFile
  <1> QED BY <1>7 DEF Opened

\* There is always a file to replace packed-refs.
LEMMA NewPackIsNew ==
    ASSUME TypeOK
    PROVE  NewPack \in Packs /\ NewPack \notin OpenPacks /\ NewPack # packed
  <1> DEFINE open == [q \in Procs |-> proc[q].pack]
             S == {open[q] : q \in Procs}
  <1>1. IsFiniteSet(S) /\ Cardinality(S) <= Cardinality(Procs)
    <2>1. open \in [Procs -> Packs \cup {NoPack}]
      BY DEF TypeOK, Local
    <2>2. IsFiniteSet(Procs)
      BY FilesSuffice
    <2> HIDE DEF open
    <2> QED BY <2>1, <2>2, ImageSize
  <1>2. IsFiniteSet({packed}) /\ Cardinality({packed}) = 1
    BY FS_Singleton
  <1>3. \E x \in Packs : x \notin S /\ x \notin {packed}
    <2>1. /\ Cardinality(S) \in Nat /\ Cardinality(Procs) \in Nat
          /\ Cardinality(Packs) \in Nat
      BY <1>1, FilesSuffice, FS_CardinalityType
    <2> HIDE DEF S
    <2>2. Cardinality(S) + Cardinality({packed}) < Cardinality(Packs)
      BY <2>1, <1>1, <1>2, FilesSuffice
    <2> QED BY <2>2, <1>1, <1>2, FilesSuffice, Remaining
  <1>4. \E x \in Packs \ OpenPacks : x # packed
    BY <1>3 DEF OpenPacks
  <1> QED BY <1>4 DEF NewPack

\* There is a file for every name, and one to be packed-refs.
LEMMA FilesForNames == Injection(Names, Files) # {} /\ Packs # {}
  <1> DEFINE c == Cardinality(Names)
             d == Cardinality(Files)
  <1>1. c \in Nat /\ d \in Nat /\ Cardinality(Procs) \in Nat
    BY FilesSuffice, FS_CardinalityType
  <1>2. PICK left \in Bijection(1..c, Names) : TRUE
    BY FilesSuffice, FS_CardinalityType DEF ExistsBijection
  <1>3. PICK right \in Bijection(1..d, Files) : TRUE
    BY FilesSuffice, FS_CardinalityType DEF ExistsBijection
  <1> DEFINE index(n) == CHOOSE i \in 1..c : left[i] = n
             D == [n \in Names |-> right[index(n)]]
  <1>4. \A n \in Names : index(n) \in 1..c /\ left[index(n)] = n
    <2>1. \A n \in Names : \E i \in 1..c : left[i] = n
      BY <1>2 DEF Bijection, Surjection
    <2> QED BY <2>1
  <1> HIDE DEF index
  <1>5. c <= d
    BY <1>1, FilesSuffice
  <1> HIDE DEF c, d
  <1>6. \A n \in Names : index(n) \in 1..d
    BY <1>1, <1>4, <1>5
  <1>7. D \in Injection(Names, Files)
    BY <1>3, <1>4, <1>6 DEF Bijection, Injection, IsInjective
  <1>8. Packs # {}
    BY <1>1, FS_EmptySet, FilesSuffice
  <1> QED BY <1>7, <1>8

-----------------------------------------------------------------------------
\* The shape of the state.

\* What calls observe is references.
LEMMA ObserveType ==
    ASSUME TypeOK, refs' \in Table, Observe
    PROVE  seen' \in [Procs -> [Names -> SUBSET Ref]]
  BY DEF TypeOK, Table, Observe

\* Files may be unlinked, but not linked.
Unlinked == /\ link' \in [Names -> Files \cup {NoFile}]
            /\ \A n \in Names : link'[n] # NoFile => link'[n] = link[n]

\* What a step of p may do to its locals: it opens no file to write, and locks
\* none that is locked.
OwnStep(p) ==
    LET c == proc'[p] IN
    /\ c \in Local /\ ControlOf(c)
    /\ c.pc \in Writing => /\ proc[p].pc \in Writing
                           /\ c.file = proc[p].file /\ c.name = proc[p].name
    /\ c.pc = "read" => c.file = link[c.at]
    /\ c.pc \in Locked => proc[p].pc \in Locked \/ ~FileHeld(c.file)
    /\ c.pack \in Packs =>
          \/ c.pc \in PackWaiting
          \/ ~PackHeld(c.pack)
          \/ c.pack = proc[p].pack /\ proc[p].pc \notin PackWaiting

\* Every such step keeps the shape.
LEMMA OwnStepKeepsShape ==
    ASSUME Shape, NEW p \in Procs, OwnStep(p), Unlinked,
           DOMAIN proc' = Procs, proc' = [proc EXCEPT ![p] = proc'[p]],
           text' \in [Files -> Content],
           packed' \in Packs \cup {NoPack}, table' \in [Packs -> Table],
           refs' \in Table, Observe
    PROVE  Shape'
  <1>1. \A q \in Procs : q # p => proc'[q] = proc[q]
    BY DEF Shape, TypeOK
  <1>2. proc' \in [Procs -> Local]
    BY DEF Shape, TypeOK, OwnStep
  <1>3. TypeOK'
    BY <1>2, ObserveType DEF Shape, TypeOK, Unlinked
  <1>4. ControlOK'
    BY <1>1 DEF Shape, ControlOK, OwnStep
  <1>5. FilesApart'
    <2>1. \A n, m \in Names : link'[n] = link'[m] /\ link'[n] # NoFile => n = m
      BY DEF Shape, FilesApart, Unlinked
    <2>2. ASSUME NEW q \in Procs, NEW n \in Names, link'[n] = proc'[q].file,
                 proc'[q].pc \in Writing \/ proc'[q].pc = "read"
          PROVE  /\ proc'[q].pc \in Writing => n = proc'[q].name
                 /\ proc'[q].pc = "read" => n = proc'[q].at
      <3>1. proc'[q].file \in Files
        BY <1>4, <2>2 DEF ControlOK, ControlOf
      <3>2. link'[n] # NoFile /\ link[n] # NoFile /\ link[n] = proc'[q].file
        BY <2>2, <3>1, FileSentinelsDiffer DEF Unlinked
      <3>3. CASE q = p
        <4>1. CASE proc'[p].pc \in Writing
          BY <3>2, <3>3, <4>1 DEF Shape, FilesApart, OwnStep, Writing
        <4>2. CASE proc'[p].pc = "read"
          BY <1>4, <3>2, <3>3, <4>2 DEF Shape, FilesApart, OwnStep, Writing,
             ControlOK, ControlOf
        <4> QED BY <2>2, <3>3, <4>1, <4>2
      <3>4. CASE q # p
        BY <1>1, <3>2, <3>4 DEF Shape, FilesApart
      <3> QED BY <3>3, <3>4
    <2>3. \A q \in Procs, n \in Names : link'[n] = proc'[q].file =>
            /\ proc'[q].pc \in Writing => n = proc'[q].name
            /\ proc'[q].pc = "read" => n = proc'[q].at
      BY <2>2, Zenon
    <2> QED BY <2>1, <2>3 DEF FilesApart
  <1>6. LocksExclude'
    <2>1. ASSUME NEW q \in Procs, q # p,
                 proc'[p].pc \in Locked, proc'[q].pc \in Locked,
                 proc'[p].file = proc'[q].file
          PROVE  FALSE
      <3>1. proc[p].pc \in Locked
        BY <1>1, <2>1 DEF OwnStep, FileHeld, Locked
      <3> QED BY <1>1, <2>1, <3>1 DEF Shape, LocksExclude, OwnStep, Locked, Writing
    <2>2. ASSUME NEW q \in Procs, q # p,
                 proc'[p].pack \in Packs, proc'[p].pack = proc'[q].pack,
                 proc'[p].pc \notin PackWaiting, proc'[q].pc \notin PackWaiting
          PROVE  FALSE
      <3>1. PackHeld(proc'[p].pack)
        BY <1>1, <2>2 DEF PackHeld, PackWaiting
      <3>2. proc'[p].pack = proc[p].pack /\ proc[p].pc \notin PackWaiting
        BY <2>2, <3>1 DEF OwnStep
      <3> QED BY <1>1, <2>2, <3>2 DEF Shape, LocksExclude
    <2>3. ASSUME NEW q \in Procs, NEW r \in Procs, q # p, r # p
          PROVE  /\ /\ proc'[r].pc \in Locked /\ proc'[q].pc \in Locked
                    /\ proc'[r].file = proc'[q].file
                    => r = q
                 /\ /\ proc'[r].pack \in Packs /\ proc'[r].pack = proc'[q].pack
                    /\ proc'[r].pc \notin PackWaiting /\ proc'[q].pc \notin PackWaiting
                    => r = q
      BY <1>1, <2>3 DEF Shape, LocksExclude
    <2>4. \A r, q \in Procs :
            /\ /\ proc'[r].pc \in Locked /\ proc'[q].pc \in Locked
               /\ proc'[r].file = proc'[q].file
               => r = q
            /\ /\ proc'[r].pack \in Packs /\ proc'[r].pack = proc'[q].pack
               /\ proc'[r].pc \notin PackWaiting /\ proc'[q].pc \notin PackWaiting
               => r = q
      BY <2>1, <2>2, <2>3
    <2> QED BY <2>4 DEF LocksExclude
  <1> QED BY <1>3, <1>4, <1>5, <1>6 DEF Shape

\* Before any call nothing is open, and no two names share a file.
LEMMA ShapeInit == Init => Shape
  <1> SUFFICES ASSUME Init PROVE Shape
    OBVIOUS
  <1> DEFINE D == CHOOSE D \in Injection(Names, Files) : TRUE
             g == CHOOSE g \in Packs : TRUE
  <1>1. PICK l \in [Names -> LooseAtFirst], t \in [Names -> PackedAtFirst] :
          /\ link = [n \in Names |-> IF l[n] = Absent THEN NoFile ELSE D[n]]
          /\ text = [f \in Files |-> IF \E n \in Names : link[n] = f
                                     THEN l[CHOOSE n \in Names : link[n] = f] ELSE Empty]
          /\ packed = IF t = Nowhere THEN NoPack ELSE g
          /\ table = [x \in Packs |-> IF x = g THEN t ELSE Nowhere]
          /\ refs = [n \in Names |-> IF l[n] = Absent THEN t[n] ELSE l[n]]
    BY DEF Init
  <1>2. D \in Injection(Names, Files) /\ g \in Packs
    BY FilesForNames
  <1> HIDE DEF D, g
  <1>3. /\ D \in [Names -> Files] /\ \A n, m \in Names : D[n] = D[m] => n = m
    BY <1>2 DEF Injection, IsInjective
  <1>4. l \in [Names -> Ref] /\ t \in [Names -> Ref] /\ Nowhere \in [Names -> Ref]
    BY FirstAreRefs DEF Ref, Nowhere
  <1>5. link \in [Names -> Files \cup {NoFile}]
    BY <1>1, <1>3
  <1>6. ASSUME NEW f \in Files PROVE text[f] \in Content
    <2>1. CASE \E n \in Names : link[n] = f
      <3> DEFINE n == CHOOSE n \in Names : link[n] = f
      <3>1. n \in Names /\ link[n] = f
        BY <2>1
      <3>2. text[f] = l[n]
        BY <1>1, <2>1
      <3> HIDE DEF n
      <3>3. l[n] # Absent
        BY <1>1, <3>1, FileSentinelsDiffer
      <3> QED BY <1>4, <3>1, <3>2, <3>3 DEF Content, Ref
    <2>2. CASE ~ \E n \in Names : link[n] = f
      BY <1>1, <2>2 DEF Content
    <2> QED BY <2>1, <2>2
  <1>7. text \in [Files -> Content]
    BY <1>1, <1>6
  <1>8. Idle \in Local
    BY DEF Idle, Local, Steps, Kinds, Nowhere, Table, Ref
  <1>9. proc = [p \in Procs |-> Idle] /\ seen = [p \in Procs |-> [n \in Names |-> {}]]
    BY DEF Init
  <1>10. TypeOK
    BY <1>1, <1>2, <1>4, <1>5, <1>7, <1>8, <1>9 DEF TypeOK, Table
  <1>11. ControlOf(Idle)
    BY FileSentinelsDiffer DEF ControlOf, Idle, Writing
  <1>12. ControlOK
    BY <1>9, <1>11 DEF ControlOK
  <1>13. FilesApart
    BY <1>1, <1>3, <1>9, FileSentinelsDiffer DEF FilesApart, Idle, Writing
  <1>14. LocksExclude
    BY <1>9, FileSentinelsDiffer DEF LocksExclude, Idle, Locked
  <1> QED BY <1>10, <1>12, <1>13, <1>14 DEF Shape

\* Steps that leave the loose files and packed-refs alone.
LEMMA QuietStepKeepsShape ==
    ASSUME Shape, NEW p \in Procs, OwnStep(p),
           proc' = [proc EXCEPT ![p] = proc'[p]], FilesUnchanged, UNCHANGED refs, Observe
    PROVE  Shape'
  <1>1. Unlinked
    BY DEF Shape, TypeOK, Unlinked, FilesUnchanged, LooseUnchanged
  <1>2. DOMAIN proc' = Procs
    BY DEF Shape, TypeOK
  <1> QED
    BY <1>1, <1>2, OwnStepKeepsShape
       DEF Shape, TypeOK, FilesUnchanged, LooseUnchanged, PackedUnchanged

\* A call that begins, and one that is over.
LEMMA CallShape ==
    ASSUME Shape, NEW p \in Procs, Invoke(p) \/ Stop(p) \/ Leave(p)
    PROVE  OwnStep(p) /\ proc' = [proc EXCEPT ![p] = proc'[p]]
  <1>1. Idle \in Local /\ ControlOf(Idle) /\ Idle.pack \notin Packs
        /\ Idle.pc \notin Writing \cup {"read"}
    BY FileSentinelsDiffer
       DEF Idle, Local, Steps, Kinds, Nowhere, Table, Ref, ControlOf, Writing
  <1>2. CASE Leave(p)
    <2>1. proc'[p] = Idle /\ proc' = [proc EXCEPT ![p] = proc'[p]]
      BY <1>2 DEF Leave, Shape, TypeOK
    <2> QED BY <1>1, <2>1 DEF OwnStep, Writing, Locked
  <1>3. CASE Stop(p)
    BY <1>2, <1>3 DEF Stop
  <1>4. CASE Invoke(p)
    <2>1. CASE p \in Setters /\ \E us \in Requests : \E u \in us :
                LET set == u.new # Absent IN
                proc' = [proc EXCEPT ![p] =
                            [Idle EXCEPT !.kind = IF set THEN "set" ELSE "remove",
                                         !.pc = IF set THEN "open" ELSE "stat",
                                         !.name = u.name, !.new = u.new, !.guard = u.guard]]
      <3>1. PICK us \in Requests : \E u \in us :
                LET set == u.new # Absent IN
                proc' = [proc EXCEPT ![p] =
                            [Idle EXCEPT !.kind = IF set THEN "set" ELSE "remove",
                                         !.pc = IF set THEN "open" ELSE "stat",
                                         !.name = u.name, !.new = u.new, !.guard = u.guard]]
        BY <2>1
      <3>2. PICK u \in us :
                LET set == u.new # Absent IN
                proc' = [proc EXCEPT ![p] =
                            [Idle EXCEPT !.kind = IF set THEN "set" ELSE "remove",
                                         !.pc = IF set THEN "open" ELSE "stat",
                                         !.name = u.name, !.new = u.new, !.guard = u.guard]]
        BY <3>1
      <3>3. u.name \in Names /\ u.new \in Ref /\ u.guard \in Values \cup {Anything}
        BY RequestsAreUpdates, RequestsAreSingle DEF Update, Ref
      <3>4. /\ proc'[p].kind = IF u.new # Absent THEN "set" ELSE "remove"
            /\ proc'[p].pc = IF u.new # Absent THEN "open" ELSE "stat"
            /\ proc'[p].name = u.name /\ proc'[p].new = u.new /\ proc'[p].guard = u.guard
            /\ proc'[p].file = NoFile /\ proc'[p].pack = NoPack /\ proc'[p].at = NoName
            /\ proc' = [proc EXCEPT ![p] = proc'[p]]
        BY <3>2 DEF Idle, Shape, TypeOK
      <3>5. proc'[p] \in Local
        <4> DEFINE kind == IF u.new # Absent THEN "set" ELSE "remove"
                   pc == IF u.new # Absent THEN "open" ELSE "stat"
        <4>1. proc'[p] = [pc |-> pc, kind |-> kind, name |-> u.name, new |-> u.new,
                          guard |-> u.guard, file |-> NoFile, pack |-> NoPack,
                          at |-> NoName, todo |-> {}, found |-> Nowhere]
          BY <3>2 DEF Idle, Shape, TypeOK
        <4>2. kind \in Kinds /\ pc \in Steps
          BY DEF Kinds, Steps
        <4> HIDE DEF kind, pc
        <4>3. Nowhere \in Table
          BY DEF Nowhere, Table, Ref
        <4> QED BY <3>3, <4>1, <4>2, <4>3 DEF Local
      <3>6. ControlOf(proc'[p])
        BY <3>3, <3>4, FileSentinelsDiffer DEF ControlOf, Writing, Ref
      <3> QED BY <3>4, <3>5, <3>6, FileSentinelsDiffer DEF OwnStep, Writing, Locked
    <2>2. CASE Begin(p, "refs", "scan") \/ Begin(p, "pack", "packopen")
      <3>0. PICK kind \in {"refs", "pack"}, pc \in {"scan", "packopen"} :
               Begin(p, kind, pc) /\ (kind = "refs" <=> pc = "scan")
        BY <2>2
      <3>1. /\ proc'[p].kind = kind /\ proc'[p].pc = pc
            /\ proc'[p].file = NoFile /\ proc'[p].pack = NoPack /\ proc'[p].at = NoName
            /\ proc' = [proc EXCEPT ![p] = proc'[p]]
        BY <3>0 DEF Begin, Idle, Shape, TypeOK
      <3>2. proc'[p] \in Local
        <4>1. proc'[p] = [Idle EXCEPT !.kind = kind, !.pc = pc]
          BY <3>0 DEF Begin, Shape, TypeOK
        <4>2. kind \in Kinds /\ pc \in Steps
          BY <3>0 DEF Kinds, Steps
        <4> QED BY <1>1, <4>1, <4>2 DEF Local
      <3>3. ControlOf(proc'[p])
        BY <3>0, <3>1, FileSentinelsDiffer DEF ControlOf, Writing
      <3> QED
        BY <3>0, <3>1, <3>2, <3>3, FileSentinelsDiffer DEF OwnStep, Writing, Locked
    <2>3. CASE \E n \in Names :
                   proc' = [proc EXCEPT ![p] = [Idle EXCEPT !.kind = "ref", !.pc = "walk",
                                                            !.name = n, !.todo = {n}]]
      <3>1. PICK n \in Names :
                   proc' = [proc EXCEPT ![p] = [Idle EXCEPT !.kind = "ref", !.pc = "walk",
                                                            !.name = n, !.todo = {n}]]
        BY <2>3
      <3>2. /\ proc'[p].kind = "ref" /\ proc'[p].pc = "walk" /\ proc'[p].name = n
            /\ proc'[p].file = NoFile /\ proc'[p].pack = NoPack /\ proc'[p].at = NoName
            /\ proc' = [proc EXCEPT ![p] = proc'[p]]
        BY <3>1 DEF Idle, Shape, TypeOK
      <3>3. proc'[p] \in Local
        BY <3>1, <1>1 DEF Local, Idle, Steps, Kinds, Shape, TypeOK
      <3>4. ControlOf(proc'[p])
        BY <3>2, FileSentinelsDiffer DEF ControlOf, Writing
      <3> QED BY <3>2, <3>3, <3>4, FileSentinelsDiffer DEF OwnStep, Writing, Locked
    <2> QED BY <1>4, <2>1, <2>2, <2>3, ZenonT(30) DEF Invoke
  <1> QED BY <1>2, <1>3, <1>4

\* A step that only changes where the call stands.
LEMMA GotoShape ==
    ASSUME Shape, NEW p \in Procs, NEW next \in Steps, Goto(p, next),
           ControlOf([proc[p] EXCEPT !.pc = next]), next # "read",
           next \in Writing => proc[p].pc \in Writing,
           next \in Locked => proc[p].pc \in Locked \/ ~FileHeld(proc[p].file),
           \/ proc[p].pack \notin Packs \/ next \in PackWaiting
           \/ ~PackHeld(proc[p].pack) \/ proc[p].pc \notin PackWaiting
    PROVE  OwnStep(p) /\ proc' = [proc EXCEPT ![p] = proc'[p]]
  <1>1. /\ proc'[p] = [proc[p] EXCEPT !.pc = next]
        /\ proc' = [proc EXCEPT ![p] = proc'[p]]
    BY DEF Goto, Shape, TypeOK
  <1>2. proc'[p] \in Local
    BY <1>1 DEF Shape, TypeOK, Local
  <1>3. /\ proc'[p].file = proc[p].file /\ proc'[p].name = proc[p].name
        /\ proc'[p].pack = proc[p].pack /\ proc'[p].pc = next
    BY <1>1 DEF Shape, TypeOK, Local
  <1> QED BY <1>1, <1>2, <1>3 DEF OwnStep

\* Where a call that gets so far may go.
LEMMA GotoControl ==
    ASSUME NEW c \in Local, NEW next \in Steps, ControlOf(c),
           \/ c.pc = "lock" /\ next = IF c.guard = Anything THEN "write" ELSE "check"
           \/ c.pc \in {"check", "consult"} /\ next \in {"consult", "truncate"}
           \/ c.pc = "truncate" /\ next = "write"
           \/ c.pc = "stat" /\ next \in {"stripopen", "unlink"}
           \/ c.pc = "unlink" /\ next = "stripopen"
           \/ c.pc = "striplock" /\ next = "strip"
           \/ c.pc = "packlock" /\ next = "scan"
           \/ c.pc = "walk" /\ c.kind = "pack" /\ next = "rename"
           \/ c.pc = "walk" /\ c.kind \in {"ref", "refs"} /\ next \in {"lookup", "done"}
    PROVE  ControlOf([c EXCEPT !.pc = next])
  <1> DEFINE d == [c EXCEPT !.pc = next]
  <1>1. /\ d.pc = next /\ d.kind = c.kind /\ d.name = c.name /\ d.new = c.new
        /\ d.guard = c.guard /\ d.file = c.file /\ d.pack = c.pack /\ d.at = c.at
    BY DEF Local
  <1>2. c.guard \in Values \cup {Anything} /\ c.kind \in Kinds
    BY DEF Local
  <1>3. c.pc # "idle" /\ c.kind # "none" /\ next # "idle"
    BY DEF ControlOf, Idle
  <1> HIDE DEF d
  <1> SUFFICES ControlOf(d)
    BY DEF d
  <1> QED BY <1>1, <1>2, <1>3 DEF ControlOf, Writing, Kinds

\* The calls of setRef and removeRef.
LEMMA SetShape ==
    ASSUME Shape, NEW p \in Procs,
           Lock(p) \/ Check(p) \/ Consult(p) \/ Truncate(p) \/ Write(p)
    PROVE  OwnStep(p) /\ proc' = [proc EXCEPT ![p] = proc'[p]]
  <1> USE DEF Writing, Locked, Steps
  <1>1. ControlOf(proc[p]) /\ proc[p] \in Local
    BY DEF Shape, ControlOK, TypeOK
  <1>2. proc[p].pc \in Writing => proc[p].pack \notin Packs
    BY <1>1 DEF ControlOf
  <1> DEFINE After(next) == Goto(p, next)
  <1>3. CASE Lock(p)
    <2> DEFINE next == IF proc[p].guard = Anything THEN "write" ELSE "check"
    <2>1. ControlOf([proc[p] EXCEPT !.pc = next])
      BY <1>1, <1>3, GotoControl DEF Lock
    <2>2. Goto(p, next) /\ ~FileHeld(proc[p].file) /\ proc[p].pc \in Writing
      BY <1>3 DEF Lock
    <2>3. next \in Steps /\ next # "read"
      OBVIOUS
    <2> HIDE DEF next
    <2> QED BY <1>2, <2>1, <2>2, <2>3, GotoShape
  <1>4. ASSUME NEW next \in {"consult", "truncate", "write"}, Goto(p, next),
               \/ proc[p].pc \in {"check", "consult"} /\ next # "write"
               \/ proc[p].pc = "truncate" /\ next = "write"
        PROVE  OwnStep(p) /\ proc' = [proc EXCEPT ![p] = proc'[p]]
    <2>1. ControlOf([proc[p] EXCEPT !.pc = next])
      BY <1>1, <1>4, GotoControl
    <2> QED BY <1>2, <1>4, <2>1, GotoShape
  <1>5. CASE Check(p)
    BY <1>4, <1>5, CallShape DEF Check
  <1>6. CASE Consult(p)
    BY <1>4, <1>6, CallShape DEF Consult
  <1>7. CASE Truncate(p)
    BY <1>4, <1>7 DEF Truncate
  <1>8. CASE Write(p)
    BY <1>8, CallShape DEF Write
  <1> QED BY <1>3, <1>5, <1>6, <1>7, <1>8

\* The same of the steps of removeRef.
LEMMA RemoveShape ==
    ASSUME Shape, NEW p \in Procs,
           Stat(p) \/ Unlink(p) \/ StripOpen(p) \/ Strip(p)
    PROVE  OwnStep(p) /\ proc' = [proc EXCEPT ![p] = proc'[p]]
  <1>1. ControlOf(proc[p]) /\ proc[p] \in Local
    BY DEF Shape, ControlOK, TypeOK
  <1>2. proc[p].pc \in {"stat", "unlink", "stripopen"} => proc[p].pack \notin Packs
    BY <1>1 DEF ControlOf
  <1>3. ASSUME NEW next \in {"stripopen", "unlink"}, Goto(p, next),
               \/ proc[p].pc = "stat"
               \/ proc[p].pc = "unlink" /\ next = "stripopen"
        PROVE  OwnStep(p) /\ proc' = [proc EXCEPT ![p] = proc'[p]]
    <2>1. ControlOf([proc[p] EXCEPT !.pc = next])
      BY <1>1, <1>3, GotoControl DEF Steps
    <2> QED BY <1>2, <1>3, <2>1, GotoShape DEF Steps, Writing, Locked
  <1>4. CASE Stat(p)
    BY <1>3, <1>4 DEF Stat
  <1>5. CASE Unlink(p)
    BY <1>3, <1>5, CallShape DEF Unlink
  <1>6. CASE StripOpen(p)
    <2>1. CASE Leave(p)
      BY <2>1, CallShape
    <2>2. CASE ~Leave(p)
      <3>1. packed \in Packs /\ proc[p].pc = "stripopen"
        BY <1>6, <2>2 DEF StripOpen, Shape, TypeOK
      <3>2. /\ proc'[p] = [proc[p] EXCEPT !.pack = packed, !.pc = "striplock"]
            /\ proc' = [proc EXCEPT ![p] = proc'[p]]
        BY <1>6, <2>2 DEF StripOpen, Shape, TypeOK
      <3>3. proc'[p] \in Local
        BY <1>1, <3>1, <3>2 DEF Local, Steps
      <3>4. /\ proc'[p].pc = "striplock" /\ proc'[p].pack = packed
            /\ proc'[p].kind = proc[p].kind /\ proc'[p].name = proc[p].name
            /\ proc'[p].new = proc[p].new /\ proc'[p].file = proc[p].file
            /\ proc'[p].at = proc[p].at
        BY <1>1, <3>2 DEF Local
      <3>5. ControlOf(proc'[p])
        BY <1>1, <3>1, <3>4 DEF ControlOf, Writing
      <3> QED BY <3>2, <3>3, <3>4, <3>5 DEF OwnStep, Writing, Locked, PackWaiting
    <2> QED BY <2>1, <2>2
  <1>7. CASE Strip(p)
    BY <1>7, CallShape DEF Strip
  <1> QED BY <1>4, <1>5, <1>6, <1>7

\* The same of the steps of a walk.
LEMMA GetShape ==
    ASSUME Shape, NEW p \in Procs,
           Scan(p) \/ Open(p) \/ Read(p) \/ WalkDone(p) \/ Lookup(p) \/ Return(p)
    PROVE  OwnStep(p) /\ proc' = [proc EXCEPT ![p] = proc'[p]]
  <1> USE DEF Writing, Locked, PackWaiting
  <1>1. ControlOf(proc[p]) /\ proc[p] \in Local
    BY DEF Shape, ControlOK, TypeOK
  <1>2. CASE Scan(p)
    <2>1. /\ proc'[p] = [proc[p] EXCEPT !.todo = {n \in Names : link[n] # NoFile},
                                        !.pc = "walk"]
          /\ proc' = [proc EXCEPT ![p] = proc'[p]] /\ proc[p].pc = "scan"
      BY <1>2 DEF Scan, Shape, TypeOK
    <2>2. {n \in Names : link[n] # NoFile} \in SUBSET Names
      OBVIOUS
    <2>3. proc'[p] \in Local
      BY <1>1, <2>1, <2>2 DEF Local, Steps
    <2>4. /\ proc'[p].pc = "walk" /\ proc'[p].pack = proc[p].pack
          /\ proc'[p].kind = proc[p].kind /\ proc'[p].name = proc[p].name
          /\ proc'[p].new = proc[p].new /\ proc'[p].file = proc[p].file
          /\ proc'[p].at = proc[p].at
      BY <1>1, <2>1 DEF Local
    <2>5. ControlOf(proc'[p])
      BY <1>1, <2>1, <2>4 DEF ControlOf, Idle
    <2> QED BY <2>1, <2>3, <2>4, <2>5 DEF OwnStep
  <1>3. CASE Open(p)
    <2>1. PICK n \in proc[p].todo :
             proc' = IF link[n] = NoFile
                     THEN [proc EXCEPT ![p].todo = @ \ {n}]
                     ELSE [proc EXCEPT ![p].todo = @ \ {n}, ![p].file = link[n],
                                       ![p].at = n, ![p].pc = "read"]
      BY <1>3 DEF Open
    <2>2. n \in Names /\ proc[p].pc = "walk" /\ link[n] \in Files \cup {NoFile}
          /\ proc[p].todo \ {n} \in SUBSET Names
      BY <1>1, <1>3 DEF Open, Local, Shape, TypeOK
    <2>3. CASE link[n] = NoFile
      <3>1. /\ proc'[p] = [proc[p] EXCEPT !.todo = @ \ {n}]
            /\ proc' = [proc EXCEPT ![p] = proc'[p]]
        BY <2>1, <2>3 DEF Shape, TypeOK
      <3>2. proc'[p] \in Local
        BY <1>1, <2>2, <3>1 DEF Local
      <3>3. /\ proc'[p].pc = "walk" /\ proc'[p].pack = proc[p].pack
            /\ proc'[p].kind = proc[p].kind /\ proc'[p].name = proc[p].name
            /\ proc'[p].new = proc[p].new /\ proc'[p].file = proc[p].file
            /\ proc'[p].at = proc[p].at
        BY <1>1, <2>2, <3>1 DEF Local
      <3>4. ControlOf(proc'[p])
        BY <1>1, <2>2, <3>3 DEF ControlOf, Idle
      <3> QED BY <2>2, <3>1, <3>2, <3>3, <3>4 DEF OwnStep
    <2>4. CASE link[n] # NoFile
      <3>1. /\ proc'[p] = [proc[p] EXCEPT !.todo = @ \ {n}, !.file = link[n], !.at = n,
                                          !.pc = "read"]
            /\ proc' = [proc EXCEPT ![p] = proc'[p]]
        BY <2>1, <2>4 DEF Shape, TypeOK
      <3>2. proc'[p] \in Local
        BY <1>1, <2>2, <3>1 DEF Local, Steps
      <3>3. /\ proc'[p].pc = "read" /\ proc'[p].pack = proc[p].pack
            /\ proc'[p].kind = proc[p].kind /\ proc'[p].name = proc[p].name
            /\ proc'[p].new = proc[p].new /\ proc'[p].file = link[n]
            /\ proc'[p].at = n
        BY <1>1, <3>1 DEF Local
      <3>4. ControlOf(proc'[p])
        BY <1>1, <2>2, <2>4, <3>3 DEF ControlOf, Idle
      <3> QED BY <2>2, <3>1, <3>2, <3>3, <3>4 DEF OwnStep
    <2> QED BY <2>3, <2>4
  <1>4. CASE Read(p)
    <2>1. CASE Leave(p)
      BY <2>1, CallShape
    <2>2. CASE ~Leave(p)
      <3> DEFINE value == text[proc[p].file]
      <3>1. value \in Values /\ proc[p].pc = "read"
        BY <1>4, <2>2 DEF Read
      <3>2. proc'[p] = [proc[p] EXCEPT !.found[proc[p].at] = value, !.file = NoFile,
                                       !.at = NoName, !.pc = "walk"]
            /\ proc' = [proc EXCEPT ![p] = proc'[p]]
        BY <1>4, <2>2 DEF Read, Shape, TypeOK
      <3> HIDE DEF value
      <3>3. [proc[p].found EXCEPT ![proc[p].at] = value] \in Table
        BY <1>1, <3>1 DEF Local, Table, Ref
      <3>4. proc'[p] \in Local
        BY <1>1, <3>2, <3>3 DEF Local, Steps
      <3>5. /\ proc'[p].pc = "walk" /\ proc'[p].pack = proc[p].pack
            /\ proc'[p].kind = proc[p].kind /\ proc'[p].name = proc[p].name
            /\ proc'[p].new = proc[p].new /\ proc'[p].file = NoFile
            /\ proc'[p].at = NoName
        BY <1>1, <3>2 DEF Local
      <3>6. ControlOf(proc'[p])
        BY <1>1, <3>1, <3>5, FileSentinelsDiffer DEF ControlOf, Idle
      <3> QED BY <3>1, <3>2, <3>4, <3>5, <3>6 DEF OwnStep
    <2> QED BY <2>1, <2>2
  <1>5. ASSUME NEW next \in {"lookup", "done", "rename"}, Goto(p, next),
               proc[p].pc = "walk",
               IF next = "rename" THEN proc[p].kind = "pack" ELSE proc[p].kind \in {"ref", "refs"}
        PROVE  OwnStep(p) /\ proc' = [proc EXCEPT ![p] = proc'[p]]
    <2>1. ControlOf([proc[p] EXCEPT !.pc = next])
      BY <1>1, <1>5, GotoControl DEF Steps
    <2> QED BY <1>5, <2>1, GotoShape DEF Steps
  <1>6. CASE WalkDone(p)
    BY <1>5, <1>6, CallShape DEF WalkDone
  <1>7. CASE Lookup(p)
    <2>1. ASSUME NEW found \in Table, proc[p].pc = "lookup",
                 proc' = [proc EXCEPT ![p].found = found, ![p].pc = "done"]
          PROVE  OwnStep(p) /\ proc' = [proc EXCEPT ![p] = proc'[p]]
      <3>1. /\ proc'[p] = [proc[p] EXCEPT !.found = found, !.pc = "done"]
            /\ proc' = [proc EXCEPT ![p] = proc'[p]]
        BY <2>1 DEF Shape, TypeOK
      <3>2. proc'[p] \in Local
        BY <1>1, <3>1 DEF Local, Steps
      <3>3. /\ proc'[p].pc = "done" /\ proc'[p].pack = proc[p].pack
            /\ proc'[p].kind = proc[p].kind /\ proc'[p].name = proc[p].name
            /\ proc'[p].new = proc[p].new /\ proc'[p].file = proc[p].file
            /\ proc'[p].at = proc[p].at
        BY <1>1, <3>1 DEF Local
      <3>4. ControlOf(proc'[p])
        BY <1>1, <2>1, <3>3 DEF ControlOf, Idle
      <3> QED BY <2>1, <3>1, <3>2, <3>3, <3>4 DEF OwnStep
    <2>2. PackedTable \in Table
      BY DEF PackedTable, Nowhere, Shape, TypeOK, Table, Ref
    <2>3. CASE Leave(p)
      BY <2>3, CallShape
    <2>4. CASE proc[p].kind = "ref" /\ ~Leave(p)
      <3>1. PICK value \in PackedRef(proc[p].name) :
               proc' = [proc EXCEPT ![p].found[proc[p].name] = value, ![p].pc = "done"]
               /\ value # Garbled
        BY <1>7, <2>4 DEF Lookup
      <3>2. proc[p].name \in Names /\ proc[p].pc = "lookup"
        BY <1>1, <1>7, <2>4 DEF Lookup, ControlOf
      <3>3. value \in Ref
        BY <2>2, <3>1, <3>2 DEF PackedRef, Table
      <3> DEFINE found == [proc[p].found EXCEPT ![proc[p].name] = value]
      <3>4. found \in Table
        BY <1>1, <3>2, <3>3 DEF Local, Table
      <3>5. proc' = [proc EXCEPT ![p].found = found, ![p].pc = "done"]
        BY <3>1
      <3> HIDE DEF found
      <3> QED BY <2>1, <3>2, <3>4, <3>5
    <2>5. CASE proc[p].kind # "ref" /\ ~Leave(p)
      <3>1. Merged(proc[p].found, PackedTable) \in Table
        BY <1>1, <2>2 DEF Merged, Local, Table
      <3>2. /\ proc' = [proc EXCEPT ![p].found = Merged(proc[p].found, PackedTable),
                                    ![p].pc = "done"]
            /\ proc[p].pc = "lookup"
        BY <1>7, <2>5 DEF Lookup
      <3> QED BY <2>1, <3>1, <3>2
    <2> QED BY <2>3, <2>4, <2>5
  <1>8. CASE Return(p)
    BY <1>8, CallShape DEF Return
  <1> QED BY <1>2, <1>3, <1>4, <1>6, <1>7, <1>8

\* The same of the steps of packRefs.
LEMMA PackShape ==
    ASSUME Shape, NEW p \in Procs,
           PackOpen(p) \/ LockPack(p) \/ Rename(p) \/ Drop(p) \/ DropDone(p)
    PROVE  OwnStep(p) /\ proc' = [proc EXCEPT ![p] = proc'[p]]
  <1> USE DEF Writing, Locked, PackWaiting
  <1>1. ControlOf(proc[p]) /\ proc[p] \in Local
    BY DEF Shape, ControlOK, TypeOK
  <1>2. CASE PackOpen(p)
    <2>1. PICK g \in Packs : proc' = [proc EXCEPT ![p].pack = g, ![p].pc = "packlock"]
      BY <1>2, NewPackIsNew DEF PackOpen, Shape, TypeOK
    <2>2. /\ proc'[p] = [proc[p] EXCEPT !.pack = g, !.pc = "packlock"]
          /\ proc' = [proc EXCEPT ![p] = proc'[p]] /\ proc[p].pc = "packopen"
      BY <1>2, <2>1 DEF PackOpen, Shape, TypeOK
    <2>3. proc'[p] \in Local
      BY <1>1, <2>2 DEF Local, Steps
    <2>4. /\ proc'[p].pc = "packlock" /\ proc'[p].pack = g
          /\ proc'[p].kind = proc[p].kind /\ proc'[p].name = proc[p].name
          /\ proc'[p].new = proc[p].new /\ proc'[p].file = proc[p].file
          /\ proc'[p].at = proc[p].at
      BY <1>1, <2>2 DEF Local
    <2>5. ControlOf(proc'[p])
      BY <1>1, <2>2, <2>4 DEF ControlOf, Idle
    <2> QED BY <2>2, <2>3, <2>4, <2>5 DEF OwnStep
  <1>3. CASE LockPack(p)
    <2> DEFINE next == IF proc[p].pc = "striplock" THEN "strip" ELSE "scan"
    <2>1. ControlOf([proc[p] EXCEPT !.pc = next])
      BY <1>1, <1>3, GotoControl DEF LockPack, Steps
    <2>2. Goto(p, next) /\ ~PackHeld(proc[p].pack)
      BY <1>3 DEF LockPack
    <2>3. next \in Steps /\ next # "read" /\ next \notin Writing
      BY DEF Steps
    <2> HIDE DEF next
    <2> QED BY <2>1, <2>2, <2>3, GotoShape
  <1>4. CASE Rename(p)
    <2>1. CASE Leave(p)
      BY <2>1, CallShape
    <2>2. CASE ~Leave(p)
      <3> DEFINE names == {n \in Names : proc[p].found[n] # Absent}
      <3>1. /\ proc'[p] = [proc[p] EXCEPT !.todo = names, !.found = Nowhere, !.pc = "drop"]
            /\ proc' = [proc EXCEPT ![p] = proc'[p]] /\ proc[p].pc = "rename"
        BY <1>4, <2>2 DEF Rename, Shape, TypeOK
      <3>2. names \in SUBSET Names /\ Nowhere \in Table
        BY DEF Nowhere, Table, Ref
      <3> HIDE DEF names
      <3>3. proc'[p] \in Local
        BY <1>1, <3>1, <3>2 DEF Local, Steps
      <3>4. /\ proc'[p].pc = "drop" /\ proc'[p].pack = proc[p].pack
            /\ proc'[p].kind = proc[p].kind /\ proc'[p].name = proc[p].name
            /\ proc'[p].new = proc[p].new /\ proc'[p].file = proc[p].file
            /\ proc'[p].at = proc[p].at
        BY <1>1, <3>1 DEF Local
      <3>5. ControlOf(proc'[p])
        BY <1>1, <3>1, <3>4 DEF ControlOf, Idle
      <3> QED BY <3>1, <3>3, <3>4, <3>5 DEF OwnStep
    <2> QED BY <2>1, <2>2
  <1>5. CASE Drop(p)
    <2>1. PICK n \in proc[p].todo : proc' = [proc EXCEPT ![p].todo = @ \ {n}]
      BY <1>5 DEF Drop
    <2>2. /\ proc'[p] = [proc[p] EXCEPT !.todo = @ \ {n}]
          /\ proc' = [proc EXCEPT ![p] = proc'[p]] /\ proc[p].pc = "drop"
      BY <1>5, <2>1 DEF Drop, Shape, TypeOK
    <2>3. proc[p].todo \ {n} \in SUBSET Names
      BY <1>1 DEF Local
    <2>4. proc'[p] \in Local
      BY <1>1, <2>2, <2>3 DEF Local
    <2>5. /\ proc'[p].pc = "drop" /\ proc'[p].pack = proc[p].pack
          /\ proc'[p].kind = proc[p].kind /\ proc'[p].name = proc[p].name
          /\ proc'[p].new = proc[p].new /\ proc'[p].file = proc[p].file
          /\ proc'[p].at = proc[p].at
      BY <1>1, <2>2 DEF Local
    <2>6. ControlOf(proc'[p])
      BY <1>1, <2>2, <2>5 DEF ControlOf, Idle
    <2> QED BY <2>2, <2>4, <2>5, <2>6 DEF OwnStep
  <1>6. CASE DropDone(p)
    BY <1>6, CallShape DEF DropDone
  <1> QED BY <1>2, <1>3, <1>4, <1>5, <1>6

\* The only step that links a file, to a name that had none.
LEMMA SetOpenFacts ==
    ASSUME Shape, NEW p \in Procs, SetOpen(p)
    PROVE  LET n == proc[p].name  c == proc'[p] IN
           /\ n \in Names /\ c \in Local /\ ControlOf(c)
           /\ c = [proc[p] EXCEPT !.file = c.file, !.pc = "lock"]
           /\ proc' = [proc EXCEPT ![p] = c]
           /\ c.file \in Files /\ c.pc = "lock" /\ c.name = n
           /\ c.pack \notin Packs /\ c.kind = "set" /\ proc[p].kind = "set"
           /\ c.guard = proc[p].guard /\ c.new = proc[p].new
           /\ link' = [link EXCEPT ![n] = c.file]
           /\ \/ link[n] = c.file
              \/ /\ link[n] = NoFile
                 /\ \A m \in Names : link[m] # c.file
                 /\ \A q \in Procs : proc[q].file # c.file
           /\ text' = [text EXCEPT ![c.file] =
                          IF link[n] = NoFile \/ proc[p].guard = Anything THEN Empty ELSE @]
  <1> DEFINE n == proc[p].name
             f == IF link[n] = NoFile THEN NewFile ELSE link[n]
  <1>1. ControlOf(proc[p]) /\ proc[p] \in Local /\ proc[p].pc = "open"
    BY DEF Shape, ControlOK, TypeOK, SetOpen
  <1>2. n \in Names /\ proc[p].kind = "set" /\ proc[p].pack \notin Packs
    BY <1>1 DEF ControlOf
  <1>3. /\ f \in Files
        /\ \/ link[n] = f
           \/ /\ link[n] = NoFile
              /\ \A m \in Names : link[m] # f
              /\ \A q \in Procs : proc[q].file # f
    <2>1. CASE link[n] = NoFile
      <3>1. f = NewFile
        BY <2>1
      <3> QED BY <1>2, <2>1, <3>1, NewFileIsNew DEF Shape
    <2>2. CASE link[n] # NoFile
      BY <1>2, <2>2 DEF Shape, TypeOK
    <2> QED BY <2>1, <2>2
  <1>4. /\ link' = [link EXCEPT ![n] = f]
        /\ text' = [text EXCEPT ![f] =
                       IF link[n] = NoFile \/ proc[p].guard = Anything THEN Empty ELSE @]
        /\ proc' = [proc EXCEPT ![p].file = f, ![p].pc = "lock"]
    BY DEF SetOpen
  <1> HIDE DEF f
  <1>5. /\ proc'[p] = [proc[p] EXCEPT !.file = f, !.pc = "lock"]
        /\ proc' = [proc EXCEPT ![p] = proc'[p]]
    BY <1>4 DEF Shape, TypeOK
  <1>6. proc'[p] \in Local
    BY <1>1, <1>3, <1>5 DEF Local, Steps
  <1>7. /\ proc'[p].pc = "lock" /\ proc'[p].pack = proc[p].pack
        /\ proc'[p].kind = proc[p].kind /\ proc'[p].name = proc[p].name
        /\ proc'[p].new = proc[p].new /\ proc'[p].file = f
        /\ proc'[p].at = proc[p].at /\ proc'[p].guard = proc[p].guard
    BY <1>1, <1>5 DEF Local
  <1>8. ControlOf(proc'[p])
    BY <1>1, <1>2, <1>3, <1>7 DEF ControlOf, Idle, Writing
  <1> QED BY <1>2, <1>3, <1>4, <1>5, <1>6, <1>7, <1>8

\* The one step that links a file: the new file is no other name's, nor open.
LEMMA SetOpenKeepsShape ==
    ASSUME Shape, NEW p \in Procs, SetOpen(p), Observe
    PROVE  Shape'
  <1> DEFINE n == proc[p].name
             c == proc'[p]
  <1>1. /\ n \in Names /\ c \in Local /\ ControlOf(c)
        /\ proc' = [proc EXCEPT ![p] = c]
        /\ c.file \in Files /\ c.pc = "lock" /\ c.name = n
        /\ c.pack \notin Packs
        /\ link' = [link EXCEPT ![n] = c.file]
        /\ \/ link[n] = c.file
           \/ /\ link[n] = NoFile
              /\ \A m \in Names : link[m] # c.file
              /\ \A q \in Procs : proc[q].file # c.file
        /\ text' = [text EXCEPT ![c.file] =
                       IF link[n] = NoFile \/ proc[p].guard = Anything THEN Empty ELSE @]
    BY SetOpenFacts
  <1>2. \A q \in Procs : q # p => proc'[q] = proc[q]
    BY <1>1 DEF Shape, TypeOK
  <1>3. UNCHANGED <<packed, table, refs>>
    BY DEF SetOpen, PackedUnchanged
  <1> HIDE DEF c, n
  <1>4. proc' \in [Procs -> Local]
    BY <1>1 DEF Shape, TypeOK
  <1>5. TypeOK'
    <2>1. text' \in [Files -> Content]
      BY <1>1 DEF Shape, TypeOK, Content
    <2>2. link' \in [Names -> Files \cup {NoFile}]
      BY <1>1 DEF Shape, TypeOK
    <2> QED BY <1>3, <1>4, <2>1, <2>2, ObserveType DEF Shape, TypeOK
  <1>6. ControlOK'
    BY <1>1, <1>2 DEF Shape, ControlOK, c
  <1>7. FilesApart'
    <2>1. \A m, k \in Names : link'[m] = link'[k] /\ link'[m] # NoFile => m = k
      BY <1>1 DEF Shape, TypeOK, FilesApart
    <2>2. ASSUME NEW q \in Procs, NEW m \in Names, link'[m] = proc'[q].file
          PROVE  /\ proc'[q].pc \in Writing => m = proc'[q].name
                 /\ proc'[q].pc = "read" => m = proc'[q].at
      <3>1. CASE q = p
        <4>1. link'[n] = c.file /\ link'[m] = c.file /\ c.file # NoFile
          BY <1>1, <2>2, <3>1, FileSentinelsDiffer DEF Shape, TypeOK, c
        <4>2. m = n
          BY <1>1, <2>1, <4>1
        <4> QED BY <1>1, <3>1, <4>2 DEF c
      <3>2. CASE q # p
        <4>1. proc[q].file = link'[m] /\ proc'[q] = proc[q]
          BY <1>2, <2>2, <3>2
        <4>2. CASE link'[m] = link[m]
          BY <4>1, <4>2 DEF Shape, FilesApart
        <4>3. CASE link'[m] # link[m]
          <5>1. m = n /\ link'[m] = c.file /\ link[n] # c.file
            BY <1>1, <4>3 DEF Shape, TypeOK
          <5> QED BY <1>1, <4>1, <5>1
        <4> QED BY <4>2, <4>3
      <3> QED BY <3>1, <3>2
    <2>3. \A q \in Procs, m \in Names : link'[m] = proc'[q].file =>
            /\ proc'[q].pc \in Writing => m = proc'[q].name
            /\ proc'[q].pc = "read" => m = proc'[q].at
      BY <2>2, Zenon
    <2> QED BY <2>1, <2>3 DEF FilesApart
  <1>8. LocksExclude'
    BY <1>1, <1>2 DEF Shape, LocksExclude, Locked, c
  <1> QED BY <1>5, <1>6, <1>7, <1>8 DEF Shape

\* Every step keeps the shape.
LEMMA ShapeStep == Shape /\ [Next]_vars => Shape'
  <1> SUFFICES ASSUME Shape, [Next]_vars PROVE Shape'
    OBVIOUS
  <1>1. CASE UNCHANGED vars
    BY <1>1 DEF vars, Shape, TypeOK, ControlOK, FilesApart, LocksExclude
  <1>2. ASSUME NEW p \in Procs, Step(p) \/ Invoke(p) \/ Stop(p), Observe
        PROVE  Shape'
    <2>1. CASE SetOpen(p)
      BY <1>2, <2>1, SetOpenKeepsShape
    <2>2. ASSUME OwnStep(p), proc' = [proc EXCEPT ![p] = proc'[p]],
                 FilesUnchanged, UNCHANGED refs
          PROVE  Shape'
      BY <1>2, <2>2, QuietStepKeepsShape
    <2>3. CASE Invoke(p) \/ Stop(p)
      BY <2>2, <2>3, CallShape DEF Invoke, Stop
    <2>4. CASE Lock(p) \/ Check(p) \/ Consult(p)
      BY <2>2, <2>4, SetShape DEF Lock, Check, Consult
    <2>5. CASE Stat(p) \/ StripOpen(p)
      BY <2>2, <2>5, RemoveShape DEF Stat, StripOpen
    <2>6. CASE Scan(p) \/ Open(p) \/ Read(p) \/ WalkDone(p) \/ Lookup(p) \/ Return(p)
      BY <2>2, <2>6, GetShape DEF Scan, Open, Read, WalkDone, Lookup, Return
    <2>7. CASE LockPack(p) \/ DropDone(p)
      BY <2>2, <2>7, PackShape DEF LockPack, DropDone
    <2>8. ASSUME OwnStep(p), proc' = [proc EXCEPT ![p] = proc'[p]], Unlinked,
                 text' \in [Files -> Content], packed' \in Packs \cup {NoPack},
                 table' \in [Packs -> Table], refs' \in Table
          PROVE  Shape'
      <3>1. DOMAIN proc' = Procs
        BY <2>8 DEF Shape, TypeOK
      <3> QED BY <1>2, <2>8, <3>1, OwnStepKeepsShape
    <2>9. ControlOf(proc[p]) /\ proc[p] \in Local
      BY <1>2 DEF Shape, ControlOK, TypeOK
    <2>10. UNCHANGED link => Unlinked
      BY DEF Unlinked, Shape, TypeOK
    <2>11. Absent \in Ref /\ Values \subseteq Ref
      BY DEF Ref
    <2>12. CASE Truncate(p) \/ Write(p)
      <3>1. OwnStep(p) /\ proc' = [proc EXCEPT ![p] = proc'[p]]
        BY <1>2, <2>12, SetShape
      <3>2. proc[p].new \in Values /\ proc[p].name \in Names /\ proc[p].kind = "set"
        BY <2>9, <2>12 DEF ControlOf, Writing, Truncate, Write
      <3>3. Overwrite(text[proc[p].file], proc[p].new) \in Content
        BY <3>2 DEF Overwrite, Content
      <3>4. text' \in [Files -> Content]
        BY <2>12, <3>3 DEF Truncate, Write, Shape, TypeOK, Content
      <3>5. refs' \in Table
        BY <2>11, <2>12, <3>2 DEF Truncate, Write, Shape, TypeOK, Table
      <3>6. UNCHANGED <<link, packed, table>>
        BY <2>12 DEF Truncate, Write, PackedUnchanged
      <3> QED BY <2>8, <2>10, <3>1, <3>4, <3>5, <3>6 DEF Shape, TypeOK
    <2>13. CASE Unlink(p)
      <3>1. OwnStep(p) /\ proc' = [proc EXCEPT ![p] = proc'[p]]
        BY <1>2, <2>13, RemoveShape
      <3>2. Unlinked
        BY <2>13 DEF Unlink, Unlinked, Shape, TypeOK
      <3>3. refs' \in Table
        BY <2>11, <2>13 DEF Unlink, Shape, TypeOK, Table
      <3> QED BY <2>8, <2>13, <3>1, <3>2, <3>3 DEF Unlink, PackedUnchanged, Shape, TypeOK
    <2>14. ASSUME NEW t \in Table, Install(t)
           PROVE  packed' \in Packs \cup {NoPack} /\ table' \in [Packs -> Table]
      <3>1. NewPack \in Packs /\ Nowhere \in Table
        BY NewPackIsNew DEF Shape, Nowhere, Table, Ref
      <3> QED BY <2>14, <3>1 DEF Install, Shape, TypeOK
    <2>15. CASE Strip(p)
      <3> DEFINE t == [table[proc[p].pack] EXCEPT ![proc[p].name] = Absent]
      <3>1. OwnStep(p) /\ proc' = [proc EXCEPT ![p] = proc'[p]]
        BY <1>2, <2>15, RemoveShape
      <3>2. table[proc[p].pack] \in Table
        BY <2>9, <2>15 DEF ControlOf, Strip, Shape, TypeOK
      <3>3. t \in Table
        BY <2>11, <3>2 DEF Table
      <3>4. packed' \in Packs \cup {NoPack} /\ table' \in [Packs -> Table]
        BY <2>14, <2>15, <3>3 DEF Strip, PackedUnchanged, Shape, TypeOK
      <3>5. refs' \in Table
        BY <2>11, <2>15 DEF Strip, Shape, TypeOK, Table
      <3>6. UNCHANGED <<link, text>>
        BY <2>15 DEF Strip, LooseUnchanged
      <3> QED BY <2>8, <2>10, <3>1, <3>4, <3>5, <3>6 DEF Shape, TypeOK
    <2>16. CASE PackOpen(p)
      <3>1. OwnStep(p) /\ proc' = [proc EXCEPT ![p] = proc'[p]]
        BY <1>2, <2>16, PackShape
      <3>2. Nowhere \in Table
        BY DEF Nowhere, Table, Ref
      <3>3. packed' \in Packs \cup {NoPack} /\ table' \in [Packs -> Table]
        BY <2>14, <2>16, <3>2 DEF PackOpen, PackedUnchanged, Shape, TypeOK
      <3>4. UNCHANGED <<link, text, refs>>
        BY <2>16 DEF PackOpen, LooseUnchanged
      <3> QED BY <2>8, <2>10, <3>1, <3>3, <3>4 DEF Shape, TypeOK
    <2>17. CASE Rename(p)
      <3>1. OwnStep(p) /\ proc' = [proc EXCEPT ![p] = proc'[p]]
        BY <1>2, <2>17, PackShape
      <3>2. table[proc[p].pack] \in Table /\ proc[p].found \in Table
        BY <2>9, <2>17 DEF ControlOf, Rename, Shape, TypeOK, Local
      <3>3. Merged(proc[p].found, table[proc[p].pack]) \in Table
        BY <3>2 DEF Merged, Table
      <3>4. packed' \in Packs \cup {NoPack} /\ table' \in [Packs -> Table]
        BY <2>14, <2>17, <3>3 DEF Rename, PackedUnchanged, Shape, TypeOK
      <3>5. UNCHANGED <<link, text, refs>>
        BY <2>17 DEF Rename, LooseUnchanged
      <3> QED BY <2>8, <2>10, <3>1, <3>4, <3>5 DEF Shape, TypeOK
    <2>18. CASE Drop(p)
      <3>1. OwnStep(p) /\ proc' = [proc EXCEPT ![p] = proc'[p]]
        BY <1>2, <2>18, PackShape
      <3>2. Unlinked
        BY <2>18 DEF Drop, Unlinked, Shape, TypeOK
      <3> QED BY <2>8, <2>18, <3>1, <3>2 DEF Drop, PackedUnchanged, Shape, TypeOK
    <2> QED
      BY <1>2, <2>1, <2>3, <2>4, <2>5, <2>6, <2>7, <2>12, <2>13, <2>15, <2>16, <2>17, <2>18
         DEF Step, Set, Remove, Get, Pack
  <1> QED BY <1>1, <1>2 DEF Next, Advance

\* What the calls rely on without checking it: a call's locals fit the step it is
\* at, no two names share a loose file, and a lock has one holder.
THEOREM ShapeHolds == Spec => []Shape
  BY ShapeInit, ShapeStep, PTL DEF Spec

\* Every variable keeps its type: no call runs out of files, and what is written,
\* found and observed are references.
THEOREM TypeCorrect == Spec => []TypeOK
  <1>1. Shape => TypeOK
    BY DEF Shape
  <1> QED BY <1>1, ShapeHolds, PTL

-----------------------------------------------------------------------------
\* Check-and-sets and removals of loose references: what the theorems below
\* assume of the calls.  Without it they are false: a set that truncates before
\* it has the lock, a stop between truncating and writing, packRefs, and a value
\* that only packed-refs has, each break one of them.
CompareAndSets ==
    /\ ~Stops /\ Packers = {} /\ PackedAtFirst \subseteq {Absent}
    /\ \A us \in Requests : \A u \in us :
          IF u.new = Absent THEN u.guard = Anything ELSE u.guard \in Values \ Symbolic

\* What the call with locals c was asked to do.
Request(c) == [name |-> c.name, new |-> c.new, guard |-> c.guard]

CallsAsked == \A p \in Procs : proc[p].kind \in {"set", "remove"} => {Request(proc[p])} \in Requests

NeverPacked ==
    /\ packed = NoPack
    /\ \A p \in Procs : proc[p].pack \notin Packs /\ proc[p].kind # "pack"

\* A loose file holds the reference; an empty one is being written, and has lost
\* nothing but what the writer was to compare it with.
LooseHolds ==
    \A n \in Names :
        IF link[n] = NoFile THEN refs[n] = Absent
        ELSE \/ text[link[n]] \in Values /\ text[link[n]] = refs[n]
             \/ /\ text[link[n]] = Empty
                /\ \E p \in Procs : /\ proc[p].file = link[n] /\ proc[p].pc \in Writing
                                    /\ \/ refs[n] = Absent
                                       \/ proc[p].pc = "write" /\ proc[p].guard = refs[n]

\* What a set has seen in the file it holds the lock of.
CheckedHolds ==
    \A p \in Procs :
        LET c == proc[p] IN
        /\ c.pc \in {"consult", "write"} => text[c.file] = Empty
        /\ c.pc = "truncate" /\ link[c.name] = c.file => text[c.file] \in {Empty, c.guard}
        /\ c.pc = "write" /\ link[c.name] = c.file => refs[c.name] \in {Absent, c.guard}

CompareInv == CallsAsked /\ NeverPacked /\ LooseHolds /\ CheckedHolds

\* At first every reference is where it is looked for.
LEMMA InitAgrees ==
    ASSUME Init
    PROVE  \A n \in Names :
              IF link[n] # NoFile THEN text[link[n]] = refs[n] ELSE PackedTable[n] = refs[n]
  <1> DEFINE D == CHOOSE D \in Injection(Names, Files) : TRUE
             g == CHOOSE g \in Packs : TRUE
  <1>1. PICK l \in [Names -> LooseAtFirst], t \in [Names -> PackedAtFirst] :
          /\ link = [n \in Names |-> IF l[n] = Absent THEN NoFile ELSE D[n]]
          /\ text = [f \in Files |-> IF \E n \in Names : link[n] = f
                                     THEN l[CHOOSE n \in Names : link[n] = f] ELSE Empty]
          /\ packed = IF t = Nowhere THEN NoPack ELSE g
          /\ table = [x \in Packs |-> IF x = g THEN t ELSE Nowhere]
          /\ refs = [n \in Names |-> IF l[n] = Absent THEN t[n] ELSE l[n]]
    BY DEF Init
  <1>2. /\ \A n \in Names : D[n] # NoFile
        /\ g \in Packs /\ g # NoPack
    BY FilesForNames, FileSentinelsDiffer DEF Injection
  <1> HIDE DEF D, g
  <1>3. Shape
    BY ShapeInit
  <1>4. ASSUME NEW n \in Names, link[n] # NoFile PROVE text[link[n]] = refs[n]
    <2>1. link[n] \in Files
      BY <1>3, <1>4 DEF Shape, TypeOK
    <2> DEFINE m == CHOOSE m \in Names : link[m] = link[n]
    <2>2. m \in Names /\ link[m] = link[n]
      OBVIOUS
    <2>3. m = n
      BY <1>3, <1>4, <2>2 DEF Shape, FilesApart
    <2>4. text[link[n]] = l[m]
      BY <1>1, <2>1
    <2> QED BY <1>1, <1>4, <2>3, <2>4
  <1>5. PackedTable = t
    BY <1>1, <1>2 DEF PackedTable
  <1>6. ASSUME NEW n \in Names, link[n] = NoFile PROVE PackedTable[n] = refs[n]
    BY <1>1, <1>2, <1>5, <1>6
  <1> QED BY <1>4, <1>6

-----------------------------------------------------------------------------
\* What a step leaves alone, for the proofs of every regime.

\* Only the process that takes the step changes its locals.
LEMMA OthersStay ==
    ASSUME Shape, NEW p \in Procs, Step(p) \/ Invoke(p) \/ Stop(p)
    PROVE  \A q \in Procs : q # p => proc'[q] = proc[q]
  <1>1. proc' = [proc EXCEPT ![p] = proc'[p]]
    <2>1. CASE SetOpen(p)
      BY <2>1, SetOpenFacts
    <2>2. CASE ~SetOpen(p)
      BY <2>2, CallShape, SetShape, RemoveShape, GetShape, PackShape
         DEF Step, Set, Remove, Get, Pack
    <2> QED BY <2>1, <2>2
  <1> QED BY <1>1 DEF Shape, TypeOK

\* A step of a call goes on with it as it was asked for, or ends it.
SameCall(p) ==
    /\ proc'[p].kind = proc[p].kind /\ proc'[p].name = proc[p].name
    /\ proc'[p].new = proc[p].new /\ proc'[p].guard = proc[p].guard

\* A step leaves the arguments of the call alone, or ends the call.
LEMMA CallStays ==
    ASSUME Shape, NEW p \in Procs, Step(p)
    PROVE  SameCall(p) \/ Leave(p)
  <1> USE DEF Shape, TypeOK, SameCall, Goto
  <1>1. proc[p] \in Local
    OBVIOUS
  <1>2. CASE Lock(p) \/ Check(p) \/ Consult(p) \/ Truncate(p) \/ Write(p)
    BY <1>1, <1>2 DEF Lock, Check, Consult, Truncate, Write, Local
  <1>3. CASE SetOpen(p)
    BY <1>1, <1>3, SetOpenFacts DEF Local
  <1>4. CASE Stat(p) \/ Unlink(p) \/ Strip(p)
    BY <1>1, <1>4 DEF Stat, Unlink, Strip, Local
  <1>5. CASE StripOpen(p)
    BY <1>1, <1>5 DEF StripOpen, Local
  <1>6. CASE PackOpen(p)
    BY <1>1, <1>6 DEF PackOpen, Local
  <1>7. CASE Rename(p)
    <2>1. \/ Leave(p)
          \/ proc' = [proc EXCEPT ![p].todo = {n \in Names : proc[p].found[n] # Absent},
                                  ![p].found = Nowhere, ![p].pc = "drop"]
      BY <1>7 DEF Rename
    <2>2. CASE proc' = [proc EXCEPT ![p].todo = {n \in Names : proc[p].found[n] # Absent},
                                    ![p].found = Nowhere, ![p].pc = "drop"]
      BY <1>1, <2>2 DEF Local
    <2> QED BY <2>1, <2>2
  <1>8. CASE LockPack(p) \/ Drop(p) \/ DropDone(p)
    BY <1>1, <1>8 DEF LockPack, Drop, DropDone, Local
  <1>9. CASE Scan(p) \/ WalkDone(p) \/ Return(p)
    BY <1>1, <1>9 DEF Scan, WalkDone, Return, Local
  <1>10. CASE Open(p)
    BY <1>1, <1>10 DEF Open, Local
  <1>11. CASE Read(p)
    BY <1>1, <1>11 DEF Read, Local
  <1>12. CASE Lookup(p)
    <2>1. \/ Leave(p)
          \/ \E found : proc' = [proc EXCEPT ![p].found = found, ![p].pc = "done"]
          \/ \E value : proc' = [proc EXCEPT ![p].found[proc[p].name] = value, ![p].pc = "done"]
      BY <1>12 DEF Lookup
    <2>2. ASSUME NEW found, proc' = [proc EXCEPT ![p].found = found, ![p].pc = "done"]
          PROVE  SameCall(p)
      BY <1>1, <2>2 DEF Local
    <2>3. ASSUME NEW value,
                 proc' = [proc EXCEPT ![p].found[proc[p].name] = value, ![p].pc = "done"]
          PROVE  SameCall(p)
      BY <1>1, <2>3 DEF Local
    <2> QED BY <2>1, <2>2, <2>3
  <1> QED
    BY <1>2, <1>3, <1>4, <1>5, <1>6, <1>7, <1>8, <1>9, <1>10, <1>11, <1>12
       DEF Step, Set, Remove, Get, Pack

\* From where to where a step of a call goes, short of its end.
Moves ==
    {<<"open", "lock">>, <<"lock", "check">>, <<"lock", "write">>, <<"check", "consult">>,
     <<"check", "truncate">>, <<"consult", "truncate">>, <<"truncate", "write">>,
     <<"stat", "stripopen">>, <<"stat", "unlink">>, <<"unlink", "stripopen">>,
     <<"stripopen", "striplock">>, <<"striplock", "strip">>, <<"packlock", "scan">>,
     <<"scan", "walk">>, <<"walk", "walk">>, <<"walk", "read">>, <<"read", "walk">>,
     <<"walk", "lookup">>, <<"walk", "done">>, <<"walk", "rename">>, <<"lookup", "done">>,
     <<"packopen", "packlock">>, <<"rename", "drop">>, <<"drop", "drop">>}

\* After Goto(p, next), the call is as it was, but at next.
LEMMA GotoFacts ==
    ASSUME Shape, NEW p \in Procs, NEW next, Goto(p, next)
    PROVE  /\ proc'[p] = [proc[p] EXCEPT !.pc = next]
           /\ SameCall(p) /\ proc'[p].pc = next
           /\ proc'[p].file = proc[p].file /\ proc'[p].pack = proc[p].pack
           /\ proc'[p].at = proc[p].at /\ proc'[p].todo = proc[p].todo
           /\ proc'[p].found = proc[p].found
  BY DEF Goto, Shape, TypeOK, Local, SameCall

\* A process without a call is idle.
LEMMA LeaveFacts ==
    ASSUME Shape, NEW p \in Procs, Leave(p)
    PROVE  /\ proc'[p] = Idle /\ proc'[p].pc = "idle" /\ proc'[p].kind = "none"
           /\ proc'[p].file = NoFile /\ proc'[p].pack = NoPack /\ proc'[p].at = NoName
           /\ proc'[p].todo = {} /\ proc'[p].found = Nowhere
  BY DEF Leave, Shape, TypeOK, Idle

\* Where a step of a call can lead.
LEMMA StepMoves ==
    ASSUME Shape, NEW p \in Procs, Step(p)
    PROVE  Leave(p) \/ <<proc[p].pc, proc'[p].pc>> \in Moves
  <1> SUFFICES ASSUME ~Leave(p) PROVE <<proc[p].pc, proc'[p].pc>> \in Moves
    OBVIOUS
  <1>1. proc[p] \in Local
    BY DEF Shape, TypeOK
  <1>2. CASE SetOpen(p)
    <2>1. proc[p].pc = "open" /\ proc'[p].pc = "lock"
      BY <1>2, SetOpenFacts DEF SetOpen
    <2> QED BY <2>1 DEF Moves
  <1>3. ASSUME NEW from, NEW to, from = proc[p].pc, Goto(p, to), <<from, to>> \in Moves
        PROVE  <<proc[p].pc, proc'[p].pc>> \in Moves
    BY <1>3, GotoFacts
  <1>4. CASE Lock(p)
    <2> DEFINE to == IF proc[p].guard = Anything THEN "write" ELSE "check"
    <2>1. <<"lock", to>> \in Moves
      BY DEF Moves
    <2>2. Goto(p, to) /\ proc[p].pc = "lock"
      BY <1>4 DEF Lock
    <2> HIDE DEF to
    <2> QED BY <1>3, <2>1, <2>2
  <1>5. CASE Check(p)
    <2>1. proc[p].pc = "check" /\ \E to \in {"consult", "truncate"} : Goto(p, to)
      BY <1>5 DEF Check
    <2>2. PICK to \in {"consult", "truncate"} : Goto(p, to)
      BY <2>1
    <2> QED BY <1>3, <2>1, <2>2 DEF Moves
  <1>6. CASE Consult(p)
    <2>1. proc[p].pc = "consult" /\ Goto(p, "truncate")
      BY <1>6 DEF Consult
    <2> QED BY <1>3, <2>1 DEF Moves
  <1>7. CASE Truncate(p)
    <2>1. proc[p].pc = "truncate" /\ Goto(p, "write")
      BY <1>7 DEF Truncate
    <2> QED BY <1>3, <2>1 DEF Moves
  <1>8. CASE Stat(p)
    <2>1. proc[p].pc = "stat" /\ \E to \in {"stripopen", "unlink"} : Goto(p, to)
      BY <1>8 DEF Stat
    <2>2. PICK to \in {"stripopen", "unlink"} : Goto(p, to)
      BY <2>1
    <2> QED BY <1>3, <2>1, <2>2 DEF Moves
  <1>9. CASE Unlink(p)
    <2>1. proc[p].pc = "unlink" /\ Goto(p, "stripopen")
      BY <1>9 DEF Unlink
    <2> QED BY <1>3, <2>1 DEF Moves
  <1>10. CASE StripOpen(p)
    <2>1. proc[p].pc = "stripopen" /\ proc'[p].pc = "striplock"
      BY <1>1, <1>10 DEF StripOpen, Shape, TypeOK, Local
    <2> QED BY <2>1 DEF Moves
  <1>11. CASE LockPack(p)
    <2> DEFINE to == IF proc[p].pc = "striplock" THEN "strip" ELSE "scan"
    <2>1. proc[p].pc \in {"striplock", "packlock"} /\ Goto(p, to)
      BY <1>11 DEF LockPack
    <2>2. <<proc[p].pc, to>> \in Moves
      BY <2>1 DEF Moves
    <2> HIDE DEF to
    <2> QED BY <1>3, <2>1, <2>2
  <1>12. CASE Scan(p)
    <2>1. proc[p].pc = "scan" /\ proc'[p].pc = "walk"
      BY <1>1, <1>12 DEF Scan, Shape, TypeOK, Local
    <2> QED BY <2>1 DEF Moves
  <1>13. CASE Open(p)
    <2>1. proc[p].pc = "walk" /\ proc'[p].pc \in {"walk", "read"}
      BY <1>1, <1>13 DEF Open, Shape, TypeOK, Local
    <2> QED BY <2>1 DEF Moves
  <1>14. CASE Read(p)
    <2>1. proc[p].pc = "read" /\ proc'[p].pc = "walk"
      BY <1>1, <1>14 DEF Read, Shape, TypeOK, Local
    <2> QED BY <2>1 DEF Moves
  <1>15. CASE WalkDone(p)
    <2>1. proc[p].pc = "walk" /\ \E to \in {"lookup", "done", "rename"} : Goto(p, to)
      BY <1>15 DEF WalkDone
    <2>2. PICK to \in {"lookup", "done", "rename"} : Goto(p, to)
      BY <2>1
    <2> QED BY <1>3, <2>1, <2>2 DEF Moves
  <1>16. CASE Lookup(p)
    <2>1. /\ proc[p].pc = "lookup"
          /\ \/ \E found : proc' = [proc EXCEPT ![p].found = found, ![p].pc = "done"]
             \/ \E value : proc' = [proc EXCEPT ![p].found[proc[p].name] = value,
                                                ![p].pc = "done"]
      BY <1>16 DEF Lookup
    <2>2. ASSUME NEW found, proc' = [proc EXCEPT ![p].found = found, ![p].pc = "done"]
          PROVE  proc'[p].pc = "done"
      BY <1>1, <2>2 DEF Shape, TypeOK, Local
    <2>3. ASSUME NEW value,
                 proc' = [proc EXCEPT ![p].found[proc[p].name] = value, ![p].pc = "done"]
          PROVE  proc'[p].pc = "done"
      BY <1>1, <2>3 DEF Shape, TypeOK, Local
    <2> QED BY <2>1, <2>2, <2>3 DEF Moves
  <1>17. CASE PackOpen(p)
    <2>1. proc[p].pc = "packopen" /\ proc'[p].pc = "packlock"
      BY <1>1, <1>17 DEF PackOpen, Shape, TypeOK, Local
    <2> QED BY <2>1 DEF Moves
  <1>18. CASE Rename(p)
    <2>1. /\ proc[p].pc = "rename"
          /\ proc' = [proc EXCEPT ![p].todo = {n \in Names : proc[p].found[n] # Absent},
                                  ![p].found = Nowhere, ![p].pc = "drop"]
      BY <1>18 DEF Rename
    <2>2. proc'[p].pc = "drop"
      BY <1>1, <2>1 DEF Shape, TypeOK, Local
    <2> QED BY <2>1, <2>2 DEF Moves
  <1>19. CASE Drop(p)
    <2>1. proc[p].pc = "drop" /\ proc'[p].pc = "drop"
      BY <1>1, <1>19 DEF Drop, Shape, TypeOK, Local
    <2> QED BY <2>1 DEF Moves
  <1> QED
    BY <1>2, <1>4, <1>5, <1>6, <1>7, <1>8, <1>9, <1>10, <1>11, <1>12, <1>13, <1>14, <1>15,
       <1>16, <1>17, <1>18, <1>19
       DEF Step, Set, Remove, Get, Pack, Write, Strip, DropDone, Return

\* What a process that begins a call has in its locals.
LEMMA InvokeFacts ==
    ASSUME Shape, NEW p \in Procs, Invoke(p)
    PROVE  LET c == proc'[p] IN
           /\ c.file = NoFile /\ c.pack = NoPack /\ c.at = NoName /\ c.found = Nowhere
           /\ \/ /\ p \in Setters /\ {Request(c)} \in Requests /\ c.todo = {}
                 /\ IF c.new # Absent THEN c.kind = "set" /\ c.pc = "open"
                                      ELSE c.kind = "remove" /\ c.pc = "stat"
              \/ p \in Readers /\ c.kind = "refs" /\ c.pc = "scan" /\ c.todo = {}
              \/ /\ p \in Readers /\ c.kind = "ref" /\ c.pc = "walk"
                 /\ c.name \in Names /\ c.todo = {c.name}
              \/ p \in Packers /\ c.kind = "pack" /\ c.pc = "packopen" /\ c.todo = {}
  <1> USE DEF Shape, TypeOK, Idle
  <1>1. CASE p \in Readers /\ Begin(p, "refs", "scan")
    BY <1>1 DEF Begin
  <1>2. CASE p \in Packers /\ Begin(p, "pack", "packopen")
    BY <1>2 DEF Begin
  <1>3. CASE p \in Readers /\ \E n \in Names :
                   proc' = [proc EXCEPT ![p] = [Idle EXCEPT !.kind = "ref", !.pc = "walk",
                                                            !.name = n, !.todo = {n}]]
    BY <1>3
  <1>4. CASE p \in Setters /\ \E us \in Requests : \E u \in us :
                LET set == u.new # Absent IN
                proc' = [proc EXCEPT ![p] =
                            [Idle EXCEPT !.kind = IF set THEN "set" ELSE "remove",
                                         !.pc = IF set THEN "open" ELSE "stat",
                                         !.name = u.name, !.new = u.new, !.guard = u.guard]]
    <2>1. PICK us \in Requests : \E u \in us :
                LET set == u.new # Absent IN
                proc' = [proc EXCEPT ![p] =
                            [Idle EXCEPT !.kind = IF set THEN "set" ELSE "remove",
                                         !.pc = IF set THEN "open" ELSE "stat",
                                         !.name = u.name, !.new = u.new, !.guard = u.guard]]
      BY <1>4
    <2>2. PICK u \in us :
                LET set == u.new # Absent IN
                proc' = [proc EXCEPT ![p] =
                            [Idle EXCEPT !.kind = IF set THEN "set" ELSE "remove",
                                         !.pc = IF set THEN "open" ELSE "stat",
                                         !.name = u.name, !.new = u.new, !.guard = u.guard]]
      BY <2>1
    <2>3. us = {u} /\ u \in Update
      BY RequestsAreSingle, RequestsAreUpdates
    <2>4. /\ proc'[p].name = u.name /\ proc'[p].new = u.new /\ proc'[p].guard = u.guard
          /\ proc'[p].kind = IF u.new # Absent THEN "set" ELSE "remove"
          /\ proc'[p].pc = IF u.new # Absent THEN "open" ELSE "stat"
          /\ proc'[p].file = NoFile /\ proc'[p].pack = NoPack /\ proc'[p].at = NoName
          /\ proc'[p].found = Nowhere /\ proc'[p].todo = {}
      BY <2>2
    <2>5. Request(proc'[p]) = u
      BY <2>3, <2>4 DEF Request, Update
    <2> QED BY <1>4, <2>3, <2>4, <2>5
  <1> QED BY <1>1, <1>2, <1>3, <1>4, ZenonT(30) DEF Invoke

-----------------------------------------------------------------------------
\* Regime CompareAndSets.

\* At first every reference is where the history says, and nothing is packed.
LEMMA CompareInit == CompareAndSets /\ Init => CompareInv
  <1> SUFFICES ASSUME CompareAndSets, Init PROVE CompareInv
    OBVIOUS
  <1> DEFINE D == CHOOSE D \in Injection(Names, Files) : TRUE
             g == CHOOSE g \in Packs : TRUE
  <1>1. PICK l \in [Names -> LooseAtFirst], t \in [Names -> PackedAtFirst] :
          /\ link = [n \in Names |-> IF l[n] = Absent THEN NoFile ELSE D[n]]
          /\ text = [f \in Files |-> IF \E n \in Names : link[n] = f
                                     THEN l[CHOOSE n \in Names : link[n] = f] ELSE Empty]
          /\ packed = IF t = Nowhere THEN NoPack ELSE g
          /\ refs = [n \in Names |-> IF l[n] = Absent THEN t[n] ELSE l[n]]
    BY DEF Init
  <1>0. \A n \in Names : D[n] # NoFile
    BY FilesForNames, FileSentinelsDiffer DEF Injection
  <1> HIDE DEF D, g
  <1>2. t = Nowhere
    BY DEF CompareAndSets, Nowhere
  <1>3. Shape
    BY ShapeInit
  <1>4. ASSUME NEW n \in Names, link[n] # NoFile PROVE text[link[n]] = l[n] /\ l[n] \in Values
    <2>1. link[n] \in Files
      BY <1>3, <1>4 DEF Shape, TypeOK
    <2> DEFINE m == CHOOSE m \in Names : link[m] = link[n]
    <2>2. m \in Names /\ link[m] = link[n]
      OBVIOUS
    <2>3. m = n
      BY <1>3, <1>4, <2>2 DEF Shape, FilesApart
    <2>4. text[link[n]] = l[m]
      BY <1>1, <2>1
    <2>5. l[n] # Absent /\ l[n] \in Ref
      BY <1>1, <1>4, FirstAreRefs
    <2> QED BY <2>3, <2>4, <2>5 DEF Ref
  <1>5. LooseHolds
    <2>1. ASSUME NEW n \in Names, link[n] = NoFile PROVE refs[n] = Absent
      BY <1>0, <1>1, <1>2, <2>1 DEF Nowhere
    <2>2. ASSUME NEW n \in Names, link[n] # NoFile
          PROVE  text[link[n]] \in Values /\ text[link[n]] = refs[n]
      BY <1>1, <1>4, <2>2, SentinelsDiffer
    <2> QED BY <2>1, <2>2 DEF LooseHolds
  <1>6. \A p \in Procs : proc[p] = Idle
    BY DEF Init
  <1>7. Idle.kind = "none" /\ Idle.pc = "idle" /\ Idle.pack = NoPack
    BY DEF Idle
  <1>8. NeverPacked
    BY <1>1, <1>2, <1>6, <1>7, FileSentinelsDiffer DEF NeverPacked
  <1>9. CallsAsked /\ CheckedHolds
    BY <1>6, <1>7 DEF CallsAsked, CheckedHolds
  <1> QED BY <1>5, <1>8, <1>9 DEF CompareInv

\* A call asks for one of the requests, from beginning to end.
LEMMA CallsAskedStep ==
    ASSUME Shape, Shape', CallsAsked, NEW p \in Procs, Step(p) \/ Invoke(p) \/ Stop(p)
    PROVE  CallsAsked'
  <1>1. \A q \in Procs : q # p => proc'[q] = proc[q]
    BY OthersStay
  <1>2. SUFFICES ASSUME proc'[p].kind \in {"set", "remove"}
                 PROVE  {Request(proc'[p])} \in Requests
    BY <1>1 DEF CallsAsked
  <1>3. CASE Step(p)
    <2>1. ~Leave(p)
      BY <1>2 DEF Leave, Idle, Shape, TypeOK
    <2> QED BY <1>2, <1>3, <2>1, CallStays DEF CallsAsked, Request, SameCall
  <1>4. CASE Stop(p)
    BY <1>2, <1>4 DEF Stop, Leave, Idle, Shape, TypeOK
  <1>5. CASE Invoke(p)
    BY <1>2, <1>5, InvokeFacts
  <1> QED BY <1>3, <1>4, <1>5

\* The steps that change neither files nor references, and whose call writes nothing.
LEMMA CompareIdleSteps ==
    ASSUME CompareInv, NEW p \in Procs, CallsAsked', NeverPacked',
           FilesUnchanged, UNCHANGED refs,
           \A q \in Procs : q # p => proc'[q] = proc[q],
           proc[p].pc \notin Writing, proc'[p].pc \notin Writing
    PROVE  CompareInv'
  <1>1. UNCHANGED <<link, text, refs>>
    BY DEF FilesUnchanged, LooseUnchanged
  <1>2. LooseHolds'
    <2> SUFFICES ASSUME NEW n \in Names, link[n] # NoFile, text[link[n]] = Empty
                 PROVE  \E q \in Procs : /\ proc'[q].file = link[n] /\ proc'[q].pc \in Writing
                                         /\ \/ refs[n] = Absent
                                            \/ proc'[q].pc = "write" /\ proc'[q].guard = refs[n]
      BY <1>1 DEF CompareInv, LooseHolds
    <2>1. PICK q \in Procs : /\ proc[q].file = link[n] /\ proc[q].pc \in Writing
                             /\ \/ refs[n] = Absent
                                \/ proc[q].pc = "write" /\ proc[q].guard = refs[n]
      BY FileSentinelsDiffer DEF CompareInv, LooseHolds, Ref
    <2>2. q # p
      BY <2>1
    <2> QED BY <2>1, <2>2
  <1>3. CheckedHolds'
    BY <1>1 DEF CompareInv, CheckedHolds, Writing
  <1> QED BY <1>2, <1>3 DEF CompareInv

\* In this regime packed-refs never comes to be.
LEMMA NeverPackedStep ==
    ASSUME CompareAndSets, Shape, Shape', CompareInv, NEW p \in Procs, Step(p) \/ Invoke(p)
    PROVE  /\ NeverPacked'
           /\ ~LockPack(p) /\ ~Strip(p) /\ ~PackOpen(p) /\ ~Rename(p) /\ ~Drop(p)
           /\ ~DropDone(p)
  <1>1. /\ \A q \in Procs : q # p => proc'[q] = proc[q]
        /\ ControlOf(proc[p]) /\ proc[p] \in Local /\ ControlOf(proc'[p]) /\ proc'[p] \in Local
        /\ proc[p].kind # "pack" /\ proc[p].pack \notin Packs /\ packed = NoPack
    BY OthersStay DEF Shape, ControlOK, TypeOK, CompareInv, NeverPacked
  <1>2. proc[p].pc \notin {"striplock", "strip", "packopen", "packlock", "rename", "drop"}
    <2>1. proc[p].pc \in {"striplock", "strip"} => proc[p].pack \in Packs
      BY <1>1 DEF ControlOf
    <2>2. proc[p].pc \in {"packopen", "packlock", "rename", "drop"} => proc[p].kind = "pack"
      BY <1>1 DEF ControlOf
    <2> QED BY <1>1, <2>1, <2>2
  <1>3. /\ ~LockPack(p) /\ ~Strip(p) /\ ~PackOpen(p) /\ ~Rename(p) /\ ~Drop(p)
        /\ ~DropDone(p)
    BY <1>2 DEF LockPack, Strip, PackOpen, Rename, Drop, DropDone
  <1>4. packed' = NoPack
    BY <1>1, <1>3
       DEF Step, Set, Remove, Get, Pack, SetOpen, Lock, Check, Consult, Truncate, Write, Stat,
           Unlink, StripOpen, Scan, Open, Read, WalkDone, Lookup, Return, Invoke,
           FilesUnchanged, PackedUnchanged
  <1>5. proc'[p].kind # "pack" /\ proc'[p].pc \notin {"striplock", "strip"}
    <2>1. CASE Leave(p)
      BY <2>1, LeaveFacts
    <2>2. CASE Step(p) /\ ~Leave(p)
      <3>1. SameCall(p) /\ <<proc[p].pc, proc'[p].pc>> \in Moves
        BY <2>2, CallStays, StepMoves
      <3>2. proc[p].pc # "stripopen"
        BY <1>1, <2>2
           DEF Step, Set, Remove, Get, Pack, SetOpen, Lock, Check, Consult, Truncate, Write, Stat,
               Unlink, StripOpen, Strip, Scan, Open, Read, WalkDone, Lookup, Return, PackOpen,
               LockPack, Rename, Drop, DropDone
      <3> QED BY <1>1, <1>2, <3>1, <3>2 DEF SameCall, Moves
    <2>3. CASE Invoke(p)
      BY <2>3, InvokeFacts DEF CompareAndSets
    <2> QED BY <2>1, <2>2, <2>3
  <1>6. proc'[p].pack \notin Packs
    BY <1>1, <1>5 DEF ControlOf
  <1> QED BY <1>1, <1>3, <1>4, <1>5, <1>6 DEF CompareInv, NeverPacked

\* A step of any call keeps the invariant of the regime.
LEMMA CompareStep ==
    ASSUME CompareAndSets, Shape, Shape', CompareInv, NEW p \in Procs, Step(p) \/ Invoke(p)
    PROVE  CompareInv'
  <1>1. /\ \A q \in Procs : q # p => proc'[q] = proc[q]
        /\ ControlOf(proc[p]) /\ proc[p] \in Local /\ ControlOf(proc'[p]) /\ proc'[p] \in Local
    BY OthersStay DEF Shape, ControlOK, TypeOK
  <1>2. /\ NeverPacked' /\ packed = NoPack
        /\ ~LockPack(p) /\ ~Strip(p) /\ ~PackOpen(p) /\ ~Rename(p) /\ ~Drop(p)
        /\ ~DropDone(p)
    BY NeverPackedStep DEF CompareInv, NeverPacked
  <1>3. CallsAsked'
    BY CallsAskedStep DEF CompareInv
  <1>4. ASSUME NEW q \in Procs, proc[q].kind = "set"
        PROVE  proc[q].guard \in Values \ Symbolic /\ proc[q].new \in Values
    <2>1. {Request(proc[q])} \in Requests /\ proc[q].new # Absent
      BY <1>4, SentinelsDiffer DEF CompareInv, CallsAsked, Shape, ControlOK, ControlOf
    <2>2. proc[q].new \in Values
      BY <1>4 DEF Shape, ControlOK, ControlOf
    <2> QED BY <2>1, <2>2 DEF CompareAndSets, Request
  <1>5. PackedTable = Nowhere /\ \A n \in Names : PackedTable[n] = Absent
    BY <1>2 DEF PackedTable, Nowhere
  \* The calls that do not write.
  <1>6. CASE Invoke(p) \/ Stat(p) \/ StripOpen(p) \/ Get(p)
    <2>1. FilesUnchanged /\ UNCHANGED refs
      BY <1>6 DEF Invoke, Stat, StripOpen, Get, Scan, Open, Read, WalkDone, Lookup, Return
    <2>2. proc[p].pc \notin Writing
      BY <1>6 DEF Invoke, Stat, StripOpen, Get, Scan, Open, Read, WalkDone, Lookup, Return,
                  Writing
    <2>3. proc'[p].pc \notin Writing
      <3>1. CASE Invoke(p)
        BY <3>1, InvokeFacts DEF Writing
      <3>2. CASE Leave(p)
        BY <3>2, LeaveFacts DEF Writing
      <3>3. CASE ~Leave(p) /\ ~Invoke(p)
        <4>1. <<proc[p].pc, proc'[p].pc>> \in Moves /\ Step(p)
          BY <1>6, <3>3, StepMoves DEF Step, Remove
        <4>2. proc[p].pc # "open"
          BY <1>6, <3>3 DEF Stat, StripOpen, Get, Scan, Open, Read, WalkDone, Lookup, Return
        <4> QED BY <2>2, <4>1, <4>2 DEF Moves, Writing
      <3> QED BY <3>1, <3>2, <3>3
    <2> QED BY <1>1, <1>2, <1>3, <2>1, <2>2, <2>3, CompareIdleSteps
  \* The steps of a set within its file.
  <1>7. CASE Lock(p) \/ Check(p) \/ Consult(p)
    <2>1. UNCHANGED <<link, text, refs>>
      BY <1>7 DEF Lock, Check, Consult, FilesUnchanged, LooseUnchanged
    <2>2. /\ proc[p].pc \in {"lock", "check", "consult"} /\ proc[p].kind = "set"
          /\ proc[p].guard \in Values \ Symbolic
      BY <1>1, <1>4, <1>7 DEF Lock, Check, Consult, ControlOf, Writing
    <2>3. \/ /\ SameCall(p) /\ proc'[p].file = proc[p].file
             /\ \/ proc'[p].pc = "check"
                \/ proc'[p].pc = "consult" /\ text[proc[p].file] = Empty
                \/ /\ proc'[p].pc = "truncate"
                   /\ text[proc[p].file] \in {Empty, proc[p].guard}
          \/ Leave(p) /\ text[proc[p].file] # Empty
      <3>1. CASE Lock(p)
        <4>1. Goto(p, "check")
          BY <2>2, <3>1, SentinelsDiffer DEF Lock
        <4> QED BY <4>1, GotoFacts
      <3>2. CASE Check(p)
        <4>1. CASE text[proc[p].file] = Empty
          <5>1. Goto(p, "consult")
            BY <3>2, <4>1, FileSentinelsDiffer DEF Check, Ref
          <5> QED BY <4>1, <5>1, GotoFacts
        <4>2. CASE Goto(p, "truncate") /\ SameHash(text[proc[p].file], proc[p].guard)
          <5>1. text[proc[p].file] = proc[p].guard
            BY <2>2, <4>2 DEF SameHash
          <5> QED BY <4>2, <5>1, GotoFacts
        <4>3. CASE Leave(p) /\ text[proc[p].file] # Empty
          BY <4>3
        <4> QED BY <3>2, <4>1, <4>2, <4>3 DEF Check
      <3>3. CASE Consult(p)
        <4>1. proc[p].name \in Names /\ text[proc[p].file] = Empty
          BY <1>1, <2>2, <3>3 DEF Consult, ControlOf, CompareInv, CheckedHolds
        <4>2. PackedRef(proc[p].name) = {Absent}
          BY <1>5, <4>1, SymbolicAreValues, SentinelsDiffer DEF PackedRef, Malformed
        <4>3. Goto(p, "truncate")
          BY <3>3, <4>2 DEF Consult
        <4> QED BY <4>1, <4>3, GotoFacts
      <3> QED BY <1>7, <3>1, <3>2, <3>3
    <2>4. LooseHolds'
      <3> SUFFICES ASSUME NEW n \in Names, link[n] # NoFile, text[link[n]] = Empty
                   PROVE  \E q \in Procs :
                             /\ proc'[q].file = link[n] /\ proc'[q].pc \in Writing
                             /\ \/ refs[n] = Absent
                                \/ proc'[q].pc = "write" /\ proc'[q].guard = refs[n]
        BY <2>1 DEF CompareInv, LooseHolds
      <3>1. PICK q \in Procs : /\ proc[q].file = link[n] /\ proc[q].pc \in Writing
                               /\ \/ refs[n] = Absent
                                  \/ proc[q].pc = "write" /\ proc[q].guard = refs[n]
        BY FileSentinelsDiffer DEF CompareInv, LooseHolds, Ref
      <3>2. CASE q # p
        BY <1>1, <3>1, <3>2
      <3>3. CASE q = p
        BY <2>2, <2>3, <3>1, <3>3 DEF Writing
      <3> QED BY <3>2, <3>3
    <2>5. CheckedHolds'
      <3> SUFFICES ASSUME NEW q \in Procs
                   PROVE  LET c == proc'[q] IN
                          /\ c.pc \in {"consult", "write"} => text[c.file] = Empty
                          /\ c.pc = "truncate" /\ link[c.name] = c.file =>
                                text[c.file] \in {Empty, c.guard}
                          /\ c.pc = "write" /\ link[c.name] = c.file =>
                                refs[c.name] \in {Absent, c.guard}
        BY <2>1 DEF CheckedHolds
      <3>1. CASE q # p
        BY <1>1, <3>1 DEF CompareInv, CheckedHolds
      <3>2. CASE q = p
        BY <2>3, <3>2, LeaveFacts DEF SameCall
      <3> QED BY <3>1, <3>2
    <2> QED BY <1>2, <1>3, <2>4, <2>5 DEF CompareInv
  <1>8. CASE SetOpen(p)
    <2> DEFINE n == proc[p].name
               c == proc'[p]
    <2>1. /\ n \in Names /\ c.file \in Files /\ c.pc = "lock" /\ c.name = n
          /\ link' = [link EXCEPT ![n] = c.file]
          /\ \/ link[n] = c.file
             \/ /\ link[n] = NoFile
                /\ \A m \in Names : link[m] # c.file
                /\ \A q \in Procs : proc[q].file # c.file
          /\ text' = [text EXCEPT ![c.file] =
                         IF link[n] = NoFile \/ proc[p].guard = Anything THEN Empty ELSE @]
          /\ proc[p].kind = "set" /\ proc[p].pc = "open" /\ UNCHANGED refs
      BY <1>8, SetOpenFacts DEF SetOpen
    <2>2. proc[p].guard # Anything
      BY <1>4, <2>1, SentinelsDiffer
    <2> HIDE DEF n
    <2>3. ASSUME NEW m \in Names, link'[m] # NoFile
          PROVE  \/ text'[link'[m]] \in Values /\ text'[link'[m]] = refs[m]
                 \/ /\ text'[link'[m]] = Empty
                    /\ \E q \in Procs :
                          /\ proc'[q].file = link'[m] /\ proc'[q].pc \in Writing
                          /\ \/ refs[m] = Absent
                             \/ proc'[q].pc = "write" /\ proc'[q].guard = refs[m]
      <3>1. CASE m = n /\ link[n] = NoFile
        <4>1. link'[m] = c.file /\ text'[c.file] = Empty /\ refs[m] = Absent
          BY <2>1, <3>1 DEF Shape, TypeOK, CompareInv, LooseHolds
        <4> QED BY <2>1, <4>1 DEF Writing
      <3>2. CASE ~(m = n /\ link[n] = NoFile)
        <4>1. link'[m] = link[m] /\ link[m] # NoFile /\ link[m] \in Files
          BY <2>1, <2>3, <3>2 DEF Shape, TypeOK
        <4>2. text'[link[m]] = text[link[m]]
          BY <2>1, <2>2, <4>1 DEF Shape, TypeOK
        <4>3. ASSUME text[link[m]] = Empty
              PROVE \E q \in Procs :
                          /\ proc'[q].file = link'[m] /\ proc'[q].pc \in Writing
                          /\ \/ refs[m] = Absent
                             \/ proc'[q].pc = "write" /\ proc'[q].guard = refs[m]
          <5>1. PICK q \in Procs : /\ proc[q].file = link[m] /\ proc[q].pc \in Writing
                                   /\ \/ refs[m] = Absent
                                      \/ proc[q].pc = "write" /\ proc[q].guard = refs[m]
            BY <4>1, <4>3, FileSentinelsDiffer DEF CompareInv, LooseHolds, Ref
          <5>2. q # p
            BY <2>1, <5>1 DEF Writing
          <5> QED BY <1>1, <4>1, <5>1, <5>2
        <4> QED BY <4>1, <4>2, <4>3 DEF CompareInv, LooseHolds
      <3> QED BY <3>1, <3>2
    <2>4. ASSUME NEW m \in Names, link'[m] = NoFile PROVE refs[m] = Absent
      <3>1. link[m] = NoFile
        BY <2>1, <2>4, FileSentinelsDiffer DEF Shape, TypeOK
      <3> QED BY <3>1 DEF CompareInv, LooseHolds
    <2>5. LooseHolds'
      BY <2>1, <2>3, <2>4 DEF LooseHolds
    <2>6. CheckedHolds'
      <3> SUFFICES ASSUME NEW q \in Procs, q # p, proc[q].pc \in {"consult", "truncate", "write"}
                   PROVE  LET d == proc[q] IN
                          /\ d.pc \in {"consult", "write"} => text'[d.file] = Empty
                          /\ d.pc = "truncate" /\ link'[d.name] = d.file =>
                                text'[d.file] \in {Empty, d.guard}
                          /\ d.pc = "write" /\ link'[d.name] = d.file =>
                                refs[d.name] \in {Absent, d.guard}
        BY <1>1, <2>1 DEF CheckedHolds
      <3>1. proc[q].name \in Names /\ proc[q].file \in Files
        BY DEF Shape, ControlOK, ControlOf, Writing
      <3>2. text'[proc[q].file] = text[proc[q].file]
        BY <2>1, <2>2, <3>1, FileSentinelsDiffer DEF Shape, TypeOK
      <3>3. link'[proc[q].name] = proc[q].file => link[proc[q].name] = proc[q].file
        BY <2>1, <3>1 DEF Shape, TypeOK
      <3> QED BY <3>2, <3>3 DEF CompareInv, CheckedHolds
    <2> QED BY <1>2, <1>3, <2>5, <2>6 DEF CompareInv
  <1>9. CASE Truncate(p) \/ Write(p)
    <2> DEFINE c == proc[p]
               f == c.file
               n == c.name
    <2>1. c.pc \in {"truncate", "write"} /\ c.kind = "set" /\ f \in Files /\ n \in Names
      BY <1>1, <1>9 DEF Truncate, Write, ControlOf, Writing
    <2>2. c.guard \in Values \ Symbolic /\ c.new \in Values
      BY <1>4, <2>1
    <2>3. ASSUME NEW q \in Procs, q # p, proc[q].file = f PROVE proc[q].pc \notin Locked
      BY <2>1, <2>3 DEF Shape, LocksExclude, Locked
    <2>4. \A m \in Names : link[m] = f => m = n
      BY <2>1 DEF Shape, FilesApart, Writing
    <2>5. UNCHANGED link /\ \A g \in Files : g # f => text'[g] = text[g]
      BY <1>9 DEF Truncate, Write, Shape, TypeOK
    \* What is so of the other files and calls stays so.
    <2>6. ASSUME NEW m \in Names, link[m] # f, refs'[m] = refs[m]
          PROVE  IF link[m] = NoFile THEN refs'[m] = Absent
                 ELSE \/ text'[link[m]] \in Values /\ text'[link[m]] = refs'[m]
                      \/ /\ text'[link[m]] = Empty
                         /\ \E q \in Procs :
                               /\ proc'[q].file = link[m] /\ proc'[q].pc \in Writing
                               /\ \/ refs'[m] = Absent
                                  \/ proc'[q].pc = "write" /\ proc'[q].guard = refs'[m]
      <3>1. CASE link[m] = NoFile
        BY <2>6, <3>1 DEF CompareInv, LooseHolds
      <3>2. CASE link[m] # NoFile
        <4>1. text'[link[m]] = text[link[m]]
          BY <2>5, <2>6, <3>2 DEF Shape, TypeOK
        <4>2. ASSUME text[link[m]] = Empty
              PROVE \E q \in Procs :
                       /\ proc'[q].file = link[m] /\ proc'[q].pc \in Writing
                       /\ \/ refs[m] = Absent
                          \/ proc'[q].pc = "write" /\ proc'[q].guard = refs[m]
          <5>1. PICK q \in Procs : /\ proc[q].file = link[m] /\ proc[q].pc \in Writing
                                   /\ \/ refs[m] = Absent
                                      \/ proc[q].pc = "write" /\ proc[q].guard = refs[m]
            BY <3>2, <4>2, FileSentinelsDiffer DEF CompareInv, LooseHolds, Ref
          <5>2. q # p
            BY <2>6, <5>1
          <5> QED BY <1>1, <5>1, <5>2
        <4> QED BY <2>6, <3>2, <4>1, <4>2 DEF CompareInv, LooseHolds
      <3> QED BY <3>1, <3>2
    <2>7. ASSUME NEW q \in Procs, q # p,
                 \A m \in Names : link[m] # f => refs'[m] = refs[m]
          PROVE  LET d == proc'[q] IN
                 /\ d.pc \in {"consult", "write"} => text'[d.file] = Empty
                 /\ d.pc = "truncate" /\ link[d.name] = d.file =>
                       text'[d.file] \in {Empty, d.guard}
                 /\ d.pc = "write" /\ link[d.name] = d.file =>
                       refs'[d.name] \in {Absent, d.guard}
      <3> SUFFICES ASSUME proc[q].pc \in {"consult", "truncate", "write"}
                   PROVE  LET d == proc[q] IN
                          /\ d.pc \in {"consult", "write"} => text'[d.file] = Empty
                          /\ d.pc = "truncate" /\ link[d.name] = d.file =>
                                text'[d.file] \in {Empty, d.guard}
                          /\ d.pc = "write" /\ link[d.name] = d.file =>
                                refs'[d.name] \in {Absent, d.guard}
        BY <1>1, <2>7
      <3>1. proc[q].name \in Names /\ proc[q].file \in Files /\ proc[q].file # f
        BY <2>3, <2>7 DEF Shape, ControlOK, ControlOf, Writing, Locked
      <3>2. text'[proc[q].file] = text[proc[q].file]
        BY <2>5, <3>1
      <3>3. link[proc[q].name] = proc[q].file => refs'[proc[q].name] = refs[proc[q].name]
        BY <2>7, <3>1
      <3> QED BY <3>2, <3>3 DEF CompareInv, CheckedHolds
    <2>8. CASE Truncate(p)
      <3>1. /\ UNCHANGED refs /\ c.pc = "truncate" /\ text'[f] = Empty
            /\ proc'[p].pc = "write" /\ proc'[p].file = f /\ proc'[p].name = n
            /\ proc'[p].guard = c.guard
        BY <2>1, <2>8, GotoFacts DEF Truncate, Shape, TypeOK, SameCall
      <3>2. link[n] = f => refs[n] \in {Absent, c.guard}
        <4> SUFFICES ASSUME link[n] = f, refs[n] # Absent PROVE refs[n] = c.guard
          OBVIOUS
        <4>1. text[f] \in {Empty, c.guard}
          BY <2>1, <3>1 DEF CompareInv, CheckedHolds
        <4>2. link[n] # NoFile
          BY <2>1, FileSentinelsDiffer
        <4>3. text[f] # Empty
          <5> SUFFICES ASSUME text[f] = Empty PROVE FALSE
            OBVIOUS
          <5>1. PICK q \in Procs : proc[q].file = f /\ proc[q].pc = "write"
            BY <2>1, <4>2, FileSentinelsDiffer DEF CompareInv, LooseHolds, Ref
          <5> QED BY <2>3, <3>1, <5>1 DEF Locked
        <4> QED BY <2>1, <4>1, <4>2, <4>3 DEF CompareInv, LooseHolds
      <3>3. ASSUME NEW m \in Names, link[m] = f
            PROVE  /\ text'[link[m]] = Empty
                   /\ \E q \in Procs :
                         /\ proc'[q].file = link[m] /\ proc'[q].pc \in Writing
                         /\ \/ refs'[m] = Absent
                            \/ proc'[q].pc = "write" /\ proc'[q].guard = refs'[m]
        BY <2>4, <3>1, <3>2, <3>3 DEF Writing
      <3>4. LooseHolds'
        BY <2>1, <2>5, <2>6, <3>1, <3>3, FileSentinelsDiffer DEF LooseHolds
      <3>5. CheckedHolds'
        <4>1. LET d == proc'[p] IN
                 /\ d.pc \in {"consult", "write"} => text'[d.file] = Empty
                 /\ d.pc = "truncate" /\ link[d.name] = d.file =>
                       text'[d.file] \in {Empty, d.guard}
                 /\ d.pc = "write" /\ link[d.name] = d.file =>
                       refs'[d.name] \in {Absent, d.guard}
          BY <3>1, <3>2
        <4> QED BY <2>5, <2>7, <3>1, <4>1 DEF CheckedHolds
      <3> QED BY <1>2, <1>3, <3>4, <3>5 DEF CompareInv
    <2>9. CASE Write(p)
      <3>1. /\ c.pc = "write" /\ Leave(p) /\ text'[f] = Overwrite(text[f], c.new)
            /\ refs' = IF link[n] = f THEN [refs EXCEPT ![n] = c.new] ELSE refs
        BY <2>1, <2>9 DEF Write, Shape, TypeOK
      <3>2. text[f] = Empty
        BY <3>1 DEF CompareInv, CheckedHolds
      <3>3. text'[f] = c.new
        BY <3>1, <3>2, FileSentinelsDiffer DEF Overwrite
      <3>4. \A m \in Names : link[m] # f => refs'[m] = refs[m]
        BY <2>1, <3>1 DEF Shape, TypeOK, Table
      <3>5. ASSUME NEW m \in Names, link[m] = f
            PROVE  text'[link[m]] \in Values /\ text'[link[m]] = refs'[m]
        BY <2>1, <2>2, <2>4, <3>1, <3>3, <3>5 DEF Shape, TypeOK, Table
      <3>6. LooseHolds'
        BY <2>1, <2>5, <2>6, <3>4, <3>5, FileSentinelsDiffer DEF LooseHolds
      <3>7. proc'[p].pc = "idle"
        BY <3>1, LeaveFacts
      <3>8. CheckedHolds'
        BY <2>5, <2>7, <3>4, <3>7 DEF CheckedHolds
      <3> QED BY <1>2, <1>3, <3>6, <3>8 DEF CompareInv
    <2> QED BY <1>9, <2>8, <2>9
  <1>10. CASE Unlink(p)
    <2> DEFINE n == proc[p].name
    <2>1. n \in Names /\ proc[p].pc = "unlink"
      BY <1>1, <1>10 DEF Unlink, ControlOf
    <2>2. proc'[p].pc \notin Writing /\ proc[p].pc \notin Writing
      <3>1. Leave(p) \/ Goto(p, "stripopen")
        BY <1>10 DEF Unlink
      <3>2. proc'[p].pc \in {"idle", "stripopen"}
        BY <3>1, LeaveFacts, GotoFacts
      <3> QED BY <2>1, <3>2 DEF Writing
    <2>3. CASE link[n] = NoFile
      <3>1. FilesUnchanged /\ UNCHANGED refs
        BY <1>10, <2>3 DEF Unlink, FilesUnchanged, LooseUnchanged
      <3> QED BY <1>1, <1>2, <1>3, <2>2, <3>1, CompareIdleSteps
    <2>4. CASE link[n] # NoFile
      <3>1. /\ link' = [link EXCEPT ![n] = NoFile] /\ refs' = [refs EXCEPT ![n] = Absent]
            /\ UNCHANGED text
        BY <1>5, <1>10, <2>1, <2>4 DEF Unlink
      <3> HIDE DEF n
      <3>2. LooseHolds'
        <4>1. link'[n] = NoFile /\ refs'[n] = Absent
          BY <2>1, <3>1 DEF Shape, TypeOK, Table
        <4>2. ASSUME NEW m \in Names, m # n
              PROVE  IF link[m] = NoFile THEN refs[m] = Absent
                     ELSE \/ text[link[m]] \in Values /\ text[link[m]] = refs[m]
                          \/ /\ text[link[m]] = Empty
                             /\ \E q \in Procs :
                                   /\ proc'[q].file = link[m] /\ proc'[q].pc \in Writing
                                   /\ \/ refs[m] = Absent
                                      \/ proc'[q].pc = "write" /\ proc'[q].guard = refs[m]
          <5>1. \A q \in Procs : proc[q].pc \in Writing => proc'[q] = proc[q]
            BY <1>1, <2>2
          <5> QED BY <5>1 DEF CompareInv, LooseHolds
        <4>3. \A m \in Names : m # n => link'[m] = link[m] /\ refs'[m] = refs[m]
          BY <3>1 DEF Shape, TypeOK, Table
        <4> QED BY <3>1, <4>1, <4>2, <4>3 DEF LooseHolds
      <3>3. CheckedHolds'
        <4> SUFFICES ASSUME NEW q \in Procs, proc[q].pc \in {"consult", "truncate", "write"}
                     PROVE  LET d == proc[q] IN
                            /\ d.pc \in {"consult", "write"} => text[d.file] = Empty
                            /\ d.pc = "truncate" /\ link'[d.name] = d.file =>
                                  text[d.file] \in {Empty, d.guard}
                            /\ d.pc = "write" /\ link'[d.name] = d.file =>
                                  refs'[d.name] \in {Absent, d.guard}
          BY <1>1, <2>2, <3>1 DEF CheckedHolds, Writing
        <4>1. proc[q].name \in Names /\ proc[q].file \in Files
          BY DEF Shape, ControlOK, ControlOf, Writing
        <4>2. link'[proc[q].name] = proc[q].file =>
                 link[proc[q].name] = proc[q].file /\ refs'[proc[q].name] = refs[proc[q].name]
          BY <2>1, <3>1, <4>1, FileSentinelsDiffer DEF Shape, TypeOK, Table
        <4> QED BY <4>2 DEF CompareInv, CheckedHolds
      <3> QED BY <1>2, <1>3, <3>2, <3>3 DEF CompareInv
    <2> QED BY <2>3, <2>4
  <1> QED
    BY <1>2, <1>6, <1>7, <1>8, <1>9, <1>10 DEF Step, Set, Remove, Pack

\* So does every step of the system.
LEMMA CompareKept ==
    ASSUME CompareAndSets, Shape, Shape', CompareInv, [Next]_vars
    PROVE  CompareInv'
  <1>1. CASE UNCHANGED vars
    BY <1>1
       DEF vars, CompareInv, CallsAsked, NeverPacked, LooseHolds, CheckedHolds
  <1>2. ASSUME NEW p \in Procs, Step(p) \/ Invoke(p) \/ Stop(p)
        PROVE  CompareInv'
    BY <1>2, CompareStep DEF Stop, CompareAndSets
  <1> QED BY <1>1, <1>2 DEF Next, Advance

\* The invariant of the regime holds throughout.
LEMMA CompareHolds == ASSUME CompareAndSets PROVE Spec => []CompareInv
  <1>1. Init => CompareInv
    BY CompareInit
  <1>2. Shape /\ Shape' /\ CompareInv /\ [Next]_vars => CompareInv'
    BY CompareKept
  <1> QED BY <1>1, <1>2, ShapeHolds, PTL DEF Spec

\* With check-and-sets and removals only, a reference that no call is changing is
\* found as the last update left it: none is lost, and none comes back.
THEOREM ComparedLookupFinds == ASSUME CompareAndSets PROVE Spec => []LookupFinds
  <1>1. Shape /\ CompareInv => LookupFinds
    <2> SUFFICES ASSUME Shape, CompareInv, NEW n \in Names, ~Changing(n)
                 PROVE  Found(n) = refs[n]
      BY DEF LookupFinds
    <2>1. CASE link[n] = NoFile
      <3>1. PackedTable[n] = Absent /\ Absent \notin Symbolic
        BY SymbolicAreValues, SentinelsDiffer
           DEF PackedTable, Nowhere, CompareInv, NeverPacked
      <3> QED BY <2>1, <3>1 DEF Found, CompareInv, LooseHolds
    <2>2. CASE link[n] # NoFile
      <3>1. text[link[n]] # Empty
        <4> SUFFICES ASSUME text[link[n]] = Empty PROVE FALSE
          OBVIOUS
        <4>1. PICK q \in Procs : proc[q].file = link[n] /\ proc[q].pc \in Writing
          BY <2>2, FileSentinelsDiffer DEF CompareInv, LooseHolds, Ref
        <4>2. proc[q].name = n /\ proc[q].kind = "set"
          BY <4>1 DEF Shape, FilesApart, ControlOK, ControlOf
        <4> QED BY <4>2 DEF Changing
      <3> QED BY <2>2, <3>1 DEF Found, CompareInv, LooseHolds
    <2> QED BY <2>1, <2>2
  <1> QED BY <1>1, ShapeHolds, CompareHolds, PTL

\* An update of one reference, when its guard holds, is a step of the abstract
\* specification.
LEMMA OneUpdate ==
    ASSUME Shape, NEW u \in Update, {u} \in Requests \cup Weakened,
           u.guard \in {Anything, refs[u.name]}, refs' = [refs EXCEPT ![u.name] = u.new]
    PROVE  Atomic!Next
  <1>1. Atomic!Distinct({u}) /\ Atomic!Touched({u}) = {u.name}
    BY DEF Atomic!Distinct, Atomic!Touched
  <1>2. Atomic!Admissible({u}, refs)
    BY <1>1 DEF Atomic!Admissible
  <1>3. Atomic!Target({u}, u.name) = u.new
    BY DEF Atomic!Target
  <1>4. refs' = Atomic!Applied({u}, refs)
    BY <1>1, <1>3 DEF Atomic!Applied, Shape, TypeOK, Table
  <1> QED BY <1>2, <1>4 DEF Atomic!Next, Atomic!Commit

\* A step of a call changes no reference, or applies one admissible update.
LEMMA CompareCommits ==
    ASSUME CompareAndSets, Shape, Shape', CompareInv, NEW p \in Procs, Step(p)
    PROVE  UNCHANGED refs \/ Atomic!Next
  <1> DEFINE c == proc[p]
             u == Request(c)
  <1>1. /\ ~LockPack(p) /\ ~Strip(p) /\ ~PackOpen(p) /\ ~Rename(p) /\ ~Drop(p)
        /\ ~DropDone(p)
    BY NeverPackedStep
  <1>2. ControlOf(c) /\ c \in Local
    BY DEF Shape, ControlOK, TypeOK
  <1>3. ASSUME c.kind \in {"set", "remove"}
        PROVE  u \in Update /\ {u} \in Requests /\ u.name = c.name /\ u.new = c.new
               /\ u.guard = c.guard
    BY <1>3, RequestsAreUpdates DEF CompareInv, CallsAsked, Request
  <1>4. CASE Write(p) /\ ~UNCHANGED refs
    <2>1. /\ c.pc = "write" /\ link[c.name] = c.file
          /\ refs' = [refs EXCEPT ![c.name] = c.new]
      BY <1>4 DEF Write
    <2>2. c.kind = "set" /\ c.name \in Names
      BY <1>2, <2>1 DEF ControlOf, Writing
    <2>3. refs[c.name] \in {Absent, c.guard}
      BY <2>1 DEF CompareInv, CheckedHolds
    <2>4. u \in Update /\ {u} \in Requests /\ u.name = c.name /\ u.new = c.new
          /\ u.guard = c.guard
      BY <1>3, <2>2
    <2> HIDE DEF u, c
    <2>5. CASE refs[c.name] = c.guard
      BY <2>1, <2>4, <2>5, OneUpdate
    <2>6. CASE refs[c.name] = Absent
      <3> DEFINE w == [u EXCEPT !.guard = Absent]
      <3>1. u.guard \in Values
        <4>1. u.new # Absent
          BY <1>2, <2>2, <2>4, SentinelsDiffer DEF ControlOf, c
        <4> QED BY <2>4, <4>1 DEF CompareAndSets
      <3>2. u \in {x \in UNION Requests : x.guard \in Values}
        BY <2>4, <3>1
      <3>3. {w} \in Weakened
        BY <3>2 DEF Weakened
      <3>4. w \in Update /\ w.name = c.name /\ w.new = c.new /\ w.guard = Absent
        BY <2>4 DEF Update, Ref
      <3> HIDE DEF w
      <3> QED BY <2>1, <2>6, <3>3, <3>4, OneUpdate
    <2> QED BY <2>3, <2>5, <2>6
  <1>5. CASE Unlink(p) /\ ~UNCHANGED refs
    <2>1. c.pc = "unlink" /\ refs' = [refs EXCEPT ![c.name] = Absent]
      BY <1>5 DEF Unlink
    <2>2. c.kind = "remove" /\ c.new = Absent
      BY <1>2, <2>1 DEF ControlOf
    <2>3. u \in Update /\ {u} \in Requests /\ u.name = c.name /\ u.new = c.new
          /\ u.guard = c.guard
      BY <1>3, <2>2
    <2> HIDE DEF u, c
    <2>4. u.guard = Anything
      BY <2>2, <2>3 DEF CompareAndSets
    <2> QED BY <2>1, <2>2, <2>3, <2>4, OneUpdate
  <1>6. CASE ~Write(p) /\ ~Unlink(p)
    BY <1>1, <1>6
       DEF Step, Set, Remove, Get, Pack, SetOpen, Lock, Check, Consult, Truncate, Stat,
           StripOpen, Scan, Open, Read, WalkDone, Lookup, Return
  <1> QED BY <1>4, <1>5, <1>6

\* Check-and-sets, racing each other and removals, are each applied whole and to the
\* value they name, or to a missing reference: setRef implements the abstract update.
THEOREM ComparedRefinement == ASSUME CompareAndSets PROVE Spec => AtomicSpec
  <1>1. Init => Atomic!Init
    BY ShapeInit DEF Shape, TypeOK, Table, Ref, Atomic!Init, Atomic!Ref
  <1>2. Shape /\ Shape' /\ CompareInv /\ [Next]_vars => [Atomic!Next]_refs
    <2> SUFFICES ASSUME Shape, Shape', CompareInv, [Next]_vars
                 PROVE  UNCHANGED refs \/ Atomic!Next
      OBVIOUS
    <2>1. CASE UNCHANGED vars
      BY <2>1 DEF vars
    <2>2. ASSUME NEW p \in Procs, Invoke(p) \/ Stop(p) PROVE UNCHANGED refs
      BY <2>2 DEF Invoke, Stop
    <2>3. ASSUME NEW p \in Procs, Step(p) PROVE UNCHANGED refs \/ Atomic!Next
      BY <2>3, CompareCommits
    <2> QED BY <2>1, <2>2, <2>3 DEF Next, Advance
  <1> QED
    BY <1>1, <1>2, ShapeHolds, CompareHolds, PTL DEF Spec, AtomicSpec, Atomic!Spec

-----------------------------------------------------------------------------
\* Reading.

\* The references that the call of p lists.
Sought(p, n) == proc[p].kind \in {"refs", "pack"} \/ (proc[p].kind = "ref" /\ proc[p].name = n)

\* The walk has nothing more to do about n.
Visited(p, n) == n \notin proc[p].todo /\ proc[p].at # n

\* What a call of ref or refs has found, or will find in packed-refs, is among
\* the values the reference had since it began.
ReadOK(p) ==
    LET c == proc[p] IN
    /\ c.pc = "scan" => c.found = Nowhere
    /\ c.pc = "lookup" => c.todo = {} /\ (c.kind = "ref" => c.found = Nowhere)
    /\ c.kind = "ref" =>
          /\ c.todo \subseteq {c.name} /\ c.at \in {c.name, NoName}
          /\ \A m \in Names : m # c.name => c.found[m] = Absent
    /\ \A n \in Names : Sought(p, n) =>
          /\ refs[n] \in seen[p][n]
          /\ c.found[n] # Absent => c.found[n] \in seen[p][n]
          /\ /\ c.pc \in {"walk", "read", "lookup"} /\ Visited(p, n)
             /\ c.found[n] = Absent
             => PackedTable[n] \in seen[p][n]
          /\ c.pc = "done" => c.found[n] \in seen[p][n]

ReadsOK == \A p \in Procs : proc[p].kind \in {"ref", "refs"} => ReadOK(p)

\* What makes that so: an unlinked reference is in packed-refs, which changes only
\* towards the references, and a loose file that is read holds one or nothing.
PackedCurrent == \A n \in Names : link[n] = NoFile => PackedTable[n] = refs[n]
PackedStays == \A n \in Names : PackedTable'[n] \in {PackedTable[n], refs'[n]}
LooseCurrent ==
    \A p \in Procs : proc[p].pc = "read" /\ text[proc[p].file] \in Values =>
        text[proc[p].file] = refs[proc[p].at]

\* A call sees the references as they are, and forgets nothing it has seen.
LEMMA ObserveFacts ==
    ASSUME Shape, Shape', Observe, NEW q \in Procs, NEW n \in Names,
           proc'[q].kind = "refs" \/ (proc'[q].kind = "ref" /\ proc'[q].name = n)
    PROVE  refs'[n] \in seen'[q][n] /\ seen[q][n] \subseteq seen'[q][n]
  <1>1. Watched(q, n)' = Ref
    BY DEF Watched
  <1>2. seen'[q][n] = Ref \cap (seen[q][n] \cup {refs'[n]})
    BY <1>1 DEF Observe
  <1>3. seen[q][n] \subseteq Ref /\ refs'[n] \in Ref
    BY DEF Shape, TypeOK, Table
  <1> QED BY <1>2, <1>3

\* Nobody reads at first.
LEMMA ReadsInit == Init => ReadsOK
  BY DEF Init, ReadsOK, Idle

\* The calls that go on while another one takes a step.
LEMMA ReadsOfOthers ==
    ASSUME Shape, Shape', Observe, PackedStays, NEW q \in Procs, proc'[q] = proc[q],
           proc[q].kind \in {"ref", "refs"}, ReadOK(q)
    PROVE  ReadOK(q)'
  <1>1. ASSUME NEW n \in Names, Sought(q, n)
        PROVE  /\ refs'[n] \in seen'[q][n] /\ seen[q][n] \subseteq seen'[q][n]
               /\ PackedTable'[n] \in {PackedTable[n], refs'[n]}
    BY <1>1, ObserveFacts DEF Sought, PackedStays
  <1> QED BY <1>1 DEF ReadOK, Sought, Visited

\* A call of ref or refs that begins.
LEMMA ReadsInvoke ==
    ASSUME Shape, Shape', Observe, NEW p \in Procs, Invoke(p), proc'[p].kind \in {"ref", "refs"}
    PROVE  ReadOK(p)'
  <1> DEFINE c == proc'[p]
  <1>1. /\ c.at = NoName /\ c.found = Nowhere
        /\ \/ c.kind = "refs" /\ c.pc = "scan"
           \/ c.kind = "ref" /\ c.pc = "walk" /\ c.name \in Names /\ c.todo = {c.name}
    BY InvokeFacts
  <1>2. \A n \in Names : c.found[n] = Absent
    BY <1>1 DEF Nowhere
  <1>3. ASSUME NEW n \in Names, c.kind = "refs" \/ (c.kind = "ref" /\ c.name = n)
        PROVE  refs'[n] \in seen'[p][n]
    BY <1>3, ObserveFacts
  <1> QED BY <1>1, <1>2, <1>3 DEF ReadOK, Sought, Visited

\* A step of a call of ref or refs that does not end it.
LEMMA ReadsOwn ==
    ASSUME Shape, Shape', Observe, PackedCurrent, PackedStays, LooseCurrent,
           NEW p \in Procs, Get(p), ~Leave(p), proc[p].kind \in {"ref", "refs"}, ReadOK(p)
    PROVE  ReadOK(p)'
  <1> DEFINE c == proc[p]
             d == proc'[p]
  <1>1. ControlOf(c) /\ c \in Local /\ ControlOf(d) /\ d \in Local
    BY DEF Shape, ControlOK, TypeOK
  <1>2. SameCall(p)
    BY CallStays DEF Step
  <1>3. UNCHANGED <<link, refs, text, packed, table>>
    BY DEF Get, Scan, Open, Read, WalkDone, Lookup, Return, FilesUnchanged, LooseUnchanged,
           PackedUnchanged
  <1>4. UNCHANGED PackedTable
    BY <1>3 DEF PackedTable
  <1>5. ASSUME NEW n \in Names, Sought(p, n)
        PROVE  /\ refs[n] \in seen'[p][n] /\ seen[p][n] \subseteq seen'[p][n]
    BY <1>2, <1>3, <1>5, ObserveFacts DEF Sought, SameCall
  <1>6. CASE Scan(p)
    <2>1. /\ d.todo = {n \in Names : link[n] # NoFile} /\ d.pc = "walk"
          /\ d.found = c.found /\ c.pc = "scan" /\ d.at = c.at
      BY <1>1, <1>6 DEF Scan, Shape, TypeOK, Local
    <2>2. c.kind = "refs" /\ c.found = Nowhere /\ d.kind = "refs"
      BY <1>1, <1>2, <2>1 DEF ControlOf, ReadOK, SameCall
    <2>3. ASSUME NEW n \in Names, Visited(p, n)' PROVE PackedTable[n] \in seen'[p][n]
      <3>1. link[n] = NoFile
        BY <2>1, <2>3 DEF Visited
      <3> QED BY <1>5, <2>2, <3>1 DEF PackedCurrent, Sought
    <2>4. \A n \in Names : d.found[n] = Absent
      BY <2>1, <2>2 DEF Nowhere
    <2> QED BY <1>3, <1>4, <1>5, <2>1, <2>2, <2>3, <2>4 DEF ReadOK, Sought
  <1>7. CASE Open(p)
    <2>1. PICK n \in c.todo :
             proc' = IF link[n] = NoFile
                     THEN [proc EXCEPT ![p].todo = @ \ {n}]
                     ELSE [proc EXCEPT ![p].todo = @ \ {n}, ![p].file = link[n],
                                       ![p].at = n, ![p].pc = "read"]
      BY <1>7 DEF Open
    <2>2. n \in Names /\ c.pc = "walk" /\ c.at = NoName
      BY <1>1, <1>7 DEF Open, Local, ControlOf
    <2>3. /\ d.todo = c.todo \ {n} /\ d.found = c.found
          /\ d.pc \in {"walk", "read"} /\ d.at \in {n, NoName}
          /\ link[n] # NoFile => d.at = n
      BY <1>1, <2>1, <2>2 DEF Shape, TypeOK, Local
    <2>4. ASSUME NEW m \in Names, Sought(p, m), Visited(p, m)', c.found[m] = Absent
          PROVE  PackedTable[m] \in seen'[p][m]
      <3>1. CASE m = n
        <4>1. link[n] = NoFile
          BY <2>3, <2>4, <3>1 DEF Visited
        <4> QED BY <1>5, <2>4, <3>1, <4>1 DEF PackedCurrent
      <3>2. CASE m # n
        <4>1. Visited(p, m)
          BY <2>2, <2>3, <2>4, <3>2, FileSentinelsDiffer DEF Visited
        <4> QED BY <1>5, <2>2, <2>4, <4>1 DEF ReadOK
      <3> QED BY <3>1, <3>2
    <2>5. c.kind = "ref" => n = c.name /\ d.todo \subseteq {c.name}
      BY <2>1, <2>3 DEF ReadOK
    <2> QED BY <1>2, <1>3, <1>4, <1>5, <2>3, <2>4, <2>5 DEF ReadOK, Sought, SameCall
  <1>8. CASE Read(p)
    <2> DEFINE value == text[c.file]
    <2>1. /\ value \in Values /\ c.pc = "read"
          /\ proc' = [proc EXCEPT ![p].found[proc[p].at] = value, ![p].file = NoFile,
                                  ![p].at = NoName, ![p].pc = "walk"]
      BY <1>8 DEF Read
    <2>2. c.at \in Names /\ value = refs[c.at]
      BY <1>1, <2>1 DEF ControlOf, LooseCurrent
    <2> HIDE DEF value
    <2>3. /\ d.found = [c.found EXCEPT ![c.at] = value] /\ d.at = NoName /\ d.pc = "walk"
          /\ d.todo = c.todo
      BY <1>1, <2>1 DEF Shape, TypeOK, Local
    <2>4. /\ d.found[c.at] = value /\ value # Absent
          /\ \A m \in Names : m # c.at => d.found[m] = c.found[m]
      <3>1. c.found \in [Names -> Ref]
        BY <1>1 DEF Local, Table
      <3>2. value # Absent
        BY <2>1, SentinelsDiffer
      <3> HIDE DEF c, d
      <3> QED BY <2>2, <2>3, <3>1, <3>2
    <2>5. ASSUME NEW m \in Names, Sought(p, m)
          PROVE  /\ d.found[m] # Absent => d.found[m] \in seen'[p][m]
                 /\ Visited(p, m)' /\ d.found[m] = Absent => PackedTable[m] \in seen'[p][m]
      <3>1. CASE m = c.at
        BY <1>5, <2>2, <2>4, <2>5, <3>1
      <3>2. CASE m # c.at
        <4>1. Visited(p, m)' => Visited(p, m)
          BY <2>3, <3>2 DEF Visited
        <4> QED BY <1>5, <2>1, <2>4, <2>5, <3>2, <4>1 DEF ReadOK
      <3> QED BY <3>1, <3>2
    <2>6. c.kind = "ref" => /\ d.todo \subseteq {c.name}
                            /\ \A m \in Names : m # c.name => d.found[m] = Absent
      <3> SUFFICES ASSUME c.kind = "ref" PROVE /\ d.todo \subseteq {c.name}
                            /\ \A m \in Names : m # c.name => d.found[m] = Absent
        OBVIOUS
      <3>1. c.at = c.name
        BY <2>2, FileSentinelsDiffer DEF ReadOK
      <3> QED BY <2>3, <2>4, <3>1 DEF ReadOK
    <2> QED BY <1>2, <1>3, <1>4, <1>5, <2>3, <2>5, <2>6 DEF ReadOK, Sought, SameCall
  <1>9. CASE WalkDone(p)
    <2>1. /\ c.pc = "walk" /\ c.todo = {} /\ c.at = NoName
          /\ \/ Goto(p, "lookup") /\ (c.kind = "ref" => c.found = Nowhere)
             \/ c.kind = "ref" /\ c.found # Nowhere /\ Goto(p, "done")
      BY <1>1, <1>9 DEF WalkDone, ControlOf, Local
    <2>2. d.todo = c.todo /\ d.at = c.at /\ d.found = c.found
      BY <2>1, GotoFacts
    <2>3. ASSUME NEW n \in Names, Sought(p, n)
          PROVE  /\ c.found[n] # Absent => c.found[n] \in seen'[p][n]
                 /\ Visited(p, n)' /\ c.found[n] = Absent => PackedTable[n] \in seen'[p][n]
      BY <1>5, <2>1, <2>2, <2>3 DEF ReadOK, Visited
    <2>4. CASE Goto(p, "lookup") /\ (c.kind = "ref" => c.found = Nowhere)
      <3>1. d.pc = "lookup"
        BY <2>4, GotoFacts
      <3> QED BY <1>2, <1>3, <1>4, <1>5, <2>1, <2>2, <2>4, <2>3, <3>1 DEF ReadOK, Sought, SameCall
    <2>5. CASE c.kind = "ref" /\ c.found # Nowhere /\ Goto(p, "done")
      <3>1. d.pc = "done"
        BY <2>5, GotoFacts
      <3>2. c.found \in [Names -> Ref] /\ Nowhere \in [Names -> Ref]
        BY <1>1 DEF Local, Table, Nowhere, Ref
      <3>3. PICK n \in Names : c.found[n] # Absent
        BY <2>5, <3>2 DEF Nowhere
      <3>4. c.found[c.name] # Absent
        BY <2>5, <3>3 DEF ReadOK
      <3> QED
        BY <1>2, <1>3, <1>4, <1>5, <2>2, <2>3, <2>5, <3>1, <3>4 DEF ReadOK, Sought, SameCall
    <2> QED BY <2>1, <2>4, <2>5
  <1>10. CASE Lookup(p)
    <2>1. /\ c.pc = "lookup" /\ \A n \in Names : Visited(p, n)
          /\ \A n \in Names : Sought(p, n) /\ c.found[n] = Absent =>
                PackedTable[n] \in seen'[p][n]
      <3>1. c.pc = "lookup" /\ c.todo = {} /\ \A n \in Names : c.at # n
        BY <1>1, <1>10 DEF Lookup, ControlOf, ReadOK
      <3>2. \A n \in Names : Visited(p, n)
        BY <3>1 DEF Visited
      <3> QED BY <1>5, <3>1, <3>2 DEF ReadOK
    <2>2. CASE c.kind = "ref"
      <3>1. PICK value \in PackedRef(c.name) :
               /\ value # Garbled
               /\ proc' = [proc EXCEPT ![p].found[proc[p].name] = value, ![p].pc = "done"]
        BY <1>10, <2>2 DEF Lookup
      <3>2. c.name \in Names /\ Sought(p, c.name)
        BY <1>1, <2>2 DEF ControlOf, Sought
      <3>3. value = PackedTable[c.name]
        BY <3>1 DEF PackedRef
      <3>4. d.found = [c.found EXCEPT ![c.name] = value] /\ d.pc = "done" /\ d.todo = c.todo
            /\ d.at = c.at
        BY <1>1, <3>1 DEF Shape, TypeOK, Local
      <3>5. d.found[c.name] = value /\ \A m \in Names : m # c.name => d.found[m] = c.found[m]
        BY <1>1, <3>2, <3>4 DEF Local, Table
      <3>6. value \in seen'[p][c.name]
        <4>1. c.found[c.name] = Absent
          BY <2>1, <2>2, <3>2 DEF ReadOK, Nowhere
        <4> QED BY <2>1, <3>2, <3>3, <4>1
      <3> QED
        BY <1>2, <1>3, <1>4, <1>5, <2>2, <3>4, <3>5, <3>6 DEF ReadOK, Sought, SameCall
    <2>3. CASE c.kind = "refs"
      <3>1. proc' = [proc EXCEPT ![p].found = Merged(@, PackedTable), ![p].pc = "done"]
        BY <1>10, <2>3 DEF Lookup
      <3>2. d.found = Merged(c.found, PackedTable) /\ d.pc = "done"
        BY <1>1, <3>1 DEF Shape, TypeOK, Local
      <3>3. ASSUME NEW n \in Names PROVE d.found[n] \in seen'[p][n]
        <4>1. Sought(p, n)
          BY <2>3 DEF Sought
        <4>2. d.found[n] = IF c.found[n] # Absent THEN c.found[n] ELSE PackedTable[n]
          BY <3>2 DEF Merged
        <4> QED BY <1>5, <2>1, <4>1, <4>2 DEF ReadOK
      <3> QED BY <1>2, <1>3, <1>5, <2>3, <3>2, <3>3 DEF ReadOK, Sought, SameCall
    <2> QED BY <2>2, <2>3
  <1>11. CASE Return(p)
    BY <1>11 DEF Return
  <1> QED BY <1>6, <1>7, <1>8, <1>9, <1>10, <1>11 DEF Get

\* Every step keeps what reads have found fresh, given the three facts above.
LEMMA ReadsStep ==
    ASSUME Shape, Shape', Observe, ReadsOK, PackedCurrent, PackedStays, LooseCurrent,
           NEW p \in Procs, Step(p) \/ Invoke(p) \/ Stop(p)
    PROVE  ReadsOK'
  <1> SUFFICES ASSUME NEW q \in Procs, proc'[q].kind \in {"ref", "refs"}
               PROVE  ReadOK(q)'
    BY DEF ReadsOK
  <1>1. CASE q # p
    <2>1. proc'[q] = proc[q]
      BY <1>1, OthersStay
    <2> QED BY <2>1, ReadsOfOthers DEF ReadsOK
  <1>2. CASE q = p /\ Invoke(p)
    BY <1>2, ReadsInvoke
  <1>3. CASE q = p /\ ~Invoke(p)
    <2>1. ~Leave(p) /\ Step(p)
      BY <1>3, LeaveFacts DEF Stop
    <2>2. proc[p].kind \in {"ref", "refs"}
      BY <1>3, <2>1, CallStays DEF SameCall
    <2>3. ControlOf(proc[p])
      BY DEF Shape, ControlOK
    <2>4. Get(p)
      <3>1. proc[p].pc \notin Writing \cup {"open", "stat", "unlink", "stripopen", "striplock",
                                            "strip", "packopen", "packlock", "rename", "drop"}
        BY <2>2, <2>3 DEF ControlOf
      <3> QED
        BY <2>1, <3>1
           DEF Step, Set, Remove, Pack, SetOpen, Lock, Check, Consult, Truncate, Write, Stat,
               Unlink, StripOpen, Strip, PackOpen, LockPack, Rename, Drop, DropDone, Writing
    <2> QED BY <1>3, <2>1, <2>2, <2>4, ReadsOwn DEF ReadsOK
  <1> QED BY <1>1, <1>2, <1>3

\* When a call is done, what it has found is what it saw.
LEMMA ReadsAreFresh == Shape /\ ReadsOK => ReadsFresh
  <1> SUFFICES ASSUME Shape, ReadsOK, NEW p \in Procs, proc[p].pc = "done",
                      NEW n \in Names, Watched(p, n) # {}
               PROVE  proc[p].found[n] \in seen[p][n]
    BY DEF ReadsFresh
  <1>1. proc[p].kind \in {"ref", "refs"}
    BY DEF Shape, ControlOK, ControlOf
  <1>2. Sought(p, n)
    BY <1>1 DEF Watched, Sought
  <1> QED BY <1>1, <1>2 DEF ReadsOK, ReadOK

-----------------------------------------------------------------------------
\* Setting: any sets, however they are interrupted, and reads.
Setting ==
    /\ Packers = {}
    /\ \A us \in Requests : \A u \in us : u.new # Absent

\* A loose file is empty, garbled or holds the reference; names stay linked.
SetsHold ==
    /\ \A p \in Procs : proc[p].kind \notin {"remove", "pack"}
    /\ \A n \in Names : IF link[n] # NoFile
                        THEN text[link[n]] \in Values => text[link[n]] = refs[n]
                        ELSE PackedTable[n] = refs[n]
    /\ \A p \in Procs : proc[p].pc \in Writing => proc[p].file = link[proc[p].name]
    /\ \A p \in Procs : proc[p].pc = "read" => proc[p].file = link[proc[p].at]

SetInv == CallsAsked /\ SetsHold

\* At first every file holds its reference.
LEMMA SetInit == Setting /\ Init => SetInv
  <1> SUFFICES ASSUME Setting, Init PROVE SetInv
    OBVIOUS
  <1>1. Shape /\ \A n \in Names :
            IF link[n] # NoFile THEN text[link[n]] = refs[n] ELSE PackedTable[n] = refs[n]
    BY ShapeInit, InitAgrees
  <1>2. \A p \in Procs : proc[p].kind = "none" /\ proc[p].pc = "idle"
    BY DEF Init, Idle
  <1> QED BY <1>1, <1>2 DEF SetInv, CallsAsked, SetsHold, Writing

\* A step of a set or of a read, or the end of one half-way, keeps the invariant.
LEMMA SetStep ==
    ASSUME Setting, Shape, Shape', SetInv, NEW p \in Procs, Step(p) \/ Invoke(p) \/ Stop(p)
    PROVE  SetInv' /\ PackedCurrent /\ PackedStays /\ LooseCurrent
  <1> DEFINE c == proc[p]
  <1>1. /\ \A q \in Procs : q # p => proc'[q] = proc[q]
        /\ ControlOf(c) /\ c \in Local /\ ControlOf(proc'[p]) /\ proc'[p] \in Local
        /\ c.kind \notin {"remove", "pack"}
    BY OthersStay DEF Shape, ControlOK, TypeOK, SetInv, SetsHold
  <1>2. CallsAsked'
    BY CallsAskedStep DEF SetInv
  <1>3. proc'[p].kind \notin {"remove", "pack"}
    <2>1. CASE Leave(p)
      BY <2>1, LeaveFacts
    <2>2. CASE Step(p) /\ ~Leave(p)
      BY <1>1, <2>2, CallStays DEF SameCall
    <2>3. CASE Invoke(p)
      <3>1. proc'[p].kind # "remove"
        <4> SUFFICES ASSUME proc'[p].kind = "remove" PROVE FALSE
          OBVIOUS
        <4>1. {Request(proc'[p])} \in Requests /\ proc'[p].new = Absent
          BY <2>3, InvokeFacts
        <4> QED BY <4>1 DEF Setting, Request
      <3>2. proc'[p].kind # "pack"
        BY <2>3, InvokeFacts DEF Setting
      <3> QED BY <3>1, <3>2
    <2>4. CASE Stop(p)
      BY <2>1, <2>4 DEF Stop
    <2> QED BY <2>1, <2>2, <2>3, <2>4
  <1>4. Set(p) \/ Get(p) \/ Invoke(p) \/ Stop(p)
    <2>1. c.pc \notin {"stat", "unlink", "stripopen", "striplock", "strip", "packopen",
                       "packlock", "rename", "drop"}
      BY <1>1 DEF ControlOf
    <2> QED
      BY <2>1
         DEF Step, Remove, Pack, Stat, Unlink, StripOpen, Strip, PackOpen, LockPack, Rename,
             Drop, DropDone
  <1>5. PackedStays
    <2>1. UNCHANGED <<packed, table>>
      BY <1>4
         DEF Set, SetOpen, Lock, Check, Consult, Truncate, Write, Get, Scan, Open, Read, WalkDone,
             Lookup, Return, Invoke, Stop, FilesUnchanged, PackedUnchanged
    <2> QED BY <2>1 DEF PackedStays, PackedTable
  <1>6. PackedTable' = PackedTable
    <2>1. UNCHANGED <<packed, table>>
      BY <1>4
         DEF Set, SetOpen, Lock, Check, Consult, Truncate, Write, Get, Scan, Open, Read, WalkDone,
             Lookup, Return, Invoke, Stop, FilesUnchanged, PackedUnchanged
    <2> QED BY <2>1 DEF PackedTable
  <1>7. PackedCurrent
    BY DEF PackedCurrent, SetInv, SetsHold
  <1>8. LooseCurrent
    <2> SUFFICES ASSUME NEW q \in Procs, proc[q].pc = "read", text[proc[q].file] \in Values
                 PROVE  text[proc[q].file] = refs[proc[q].at]
      BY DEF LooseCurrent
    <2>1. proc[q].at \in Names /\ proc[q].file \in Files /\ proc[q].file = link[proc[q].at]
      BY DEF Shape, ControlOK, ControlOf, SetInv, SetsHold
    <2> QED BY <2>1, FileSentinelsDiffer DEF SetInv, SetsHold
  \* What is linked stays linked.
  <1>9. \A n \in Names : link[n] # NoFile => link'[n] = link[n]
    <2>1. CASE SetOpen(p)
      BY <2>1, SetOpenFacts DEF Shape, TypeOK
    <2>2. CASE ~SetOpen(p)
      BY <1>4, <2>2
         DEF Set, Lock, Check, Consult, Truncate, Write, Get, Scan, Open, Read, WalkDone,
             Lookup, Return, Invoke, Stop, FilesUnchanged, LooseUnchanged
    <2> QED BY <2>1, <2>2
  <1>10. ASSUME NEW q \in Procs
         PROVE  /\ proc'[q].pc \in Writing => proc'[q].file = link'[proc'[q].name]
                /\ proc'[q].pc = "read" => proc'[q].file = link'[proc'[q].at]
    <2>1. /\ proc[q].pc \in Writing => proc[q].file = link'[proc[q].name]
          /\ proc[q].pc = "read" => proc[q].file = link'[proc[q].at]
      <3>1. /\ proc[q].pc \in Writing => proc[q].name \in Names /\ proc[q].file \in Files
            /\ proc[q].pc = "read" => proc[q].at \in Names /\ proc[q].file \in Files
        BY DEF Shape, ControlOK, ControlOf
      <3> QED BY <1>9, <3>1, FileSentinelsDiffer DEF SetInv, SetsHold
    <2>2. CASE q # p
      BY <1>1, <2>1, <2>2
    <2>3. CASE q = p /\ SetOpen(p)
      <3>1. /\ proc'[p].name = c.name /\ c.name \in Names /\ proc'[p].pc = "lock"
            /\ link' = [link EXCEPT ![c.name] = proc'[p].file]
        BY <2>3, SetOpenFacts
      <3>2. link'[c.name] = proc'[p].file
        BY <3>1 DEF Shape, TypeOK
      <3> QED BY <2>3, <3>1, <3>2
    <2>4. CASE q = p /\ ~SetOpen(p)
      <3>1. OwnStep(p)
        BY <1>4, <2>4, CallShape, SetShape, GetShape DEF Set, Get
      <3>2. proc'[p].pc = "read" => proc'[p].at \in Names /\ proc'[p].file \in Files
        BY <1>1 DEF ControlOf
      <3> QED BY <1>9, <2>1, <2>4, <3>1, <3>2, FileSentinelsDiffer DEF OwnStep
    <2> QED BY <2>2, <2>3, <2>4
  <1>11. ASSUME NEW n \in Names
         PROVE  IF link'[n] # NoFile
                THEN text'[link'[n]] \in Values => text'[link'[n]] = refs'[n]
                ELSE PackedTable'[n] = refs'[n]
    <2>1. CASE SetOpen(p)
      <3>1. /\ c.name \in Names /\ proc'[p].file \in Files
            /\ link' = [link EXCEPT ![c.name] = proc'[p].file]
            /\ \/ link[c.name] = proc'[p].file
               \/ /\ link[c.name] = NoFile
                  /\ \A m \in Names : link[m] # proc'[p].file
            /\ text' = [text EXCEPT ![proc'[p].file] =
                           IF link[c.name] = NoFile \/ c.guard = Anything THEN Empty ELSE @]
            /\ UNCHANGED refs
        BY <2>1, SetOpenFacts DEF SetOpen
      <3>2. CASE link'[n] = NoFile
        <4>1. link[n] = NoFile
          BY <1>9, <3>2
        <4> QED BY <1>6, <3>1, <3>2, <4>1 DEF SetInv, SetsHold
      <3>3. CASE link'[n] # NoFile /\ link[n] = NoFile
        <4>1. n = c.name /\ text'[link'[n]] = Empty
          BY <3>1, <3>3 DEF Shape, TypeOK
        <4> QED BY <3>3, <4>1, FileSentinelsDiffer DEF Ref
      <3>4. CASE link[n] # NoFile
        <4>1. link'[n] = link[n] /\ link[n] \in Files
          BY <1>9, <3>4 DEF Shape, TypeOK
        <4>2. text'[link[n]] \in {text[link[n]], Empty}
          BY <3>1, <4>1 DEF Shape, TypeOK
        <4> QED BY <3>1, <3>4, <4>1, <4>2, FileSentinelsDiffer DEF SetInv, SetsHold, Ref
      <3> QED BY <3>2, <3>3, <3>4
    <2>2. CASE Truncate(p) \/ Write(p)
      <3>1. /\ c.name \in Names /\ c.file \in Files /\ c.file = link[c.name]
            /\ c.new \in Values /\ UNCHANGED link
        BY <1>1, <2>2 DEF Truncate, Write, ControlOf, Writing, SetInv, SetsHold
      <3>2. CASE n # c.name
        <4>1. link[n] # NoFile => link[n] # c.file /\ link[n] \in Files
          BY <3>1, <3>2 DEF Shape, TypeOK, FilesApart
        <4>2. link[n] # NoFile => text'[link[n]] = text[link[n]]
          BY <2>2, <3>1, <4>1 DEF Truncate, Write, Shape, TypeOK
        <4>3. refs'[n] = refs[n]
          BY <2>2, <3>1, <3>2 DEF Truncate, Write, Shape, TypeOK, Table
        <4> QED BY <1>6, <3>1, <4>2, <4>3 DEF SetInv, SetsHold
      <3>3. CASE n = c.name /\ Truncate(p)
        <4>1. text'[link'[n]] = Empty /\ link'[n] # NoFile
          BY <3>1, <3>3, FileSentinelsDiffer DEF Truncate, Shape, TypeOK
        <4> QED BY <4>1, FileSentinelsDiffer DEF Ref
      <3>4. CASE n = c.name /\ Write(p)
        <4>1. /\ text'[link'[n]] = Overwrite(text[c.file], c.new) /\ link'[n] # NoFile
              /\ refs'[n] = c.new
          BY <3>1, <3>4, FileSentinelsDiffer DEF Write, Shape, TypeOK, Table
        <4>2. Overwrite(text[c.file], c.new) \in {c.new, Garbled}
          BY DEF Overwrite
        <4> QED BY <4>1, <4>2, FileSentinelsDiffer DEF Ref
      <3> QED BY <2>2, <3>2, <3>3, <3>4
    <2>3. CASE ~SetOpen(p) /\ ~Truncate(p) /\ ~Write(p)
      <3>1. UNCHANGED <<link, text, refs>>
        BY <1>4, <2>3
           DEF Set, Lock, Check, Consult, Get, Scan, Open, Read, WalkDone,
               Lookup, Return, Invoke, Stop, FilesUnchanged, LooseUnchanged
      <3> QED BY <1>6, <3>1 DEF SetInv, SetsHold
    <2> QED BY <2>1, <2>2, <2>3
  <1>12. \A q \in Procs : proc'[q].kind \notin {"remove", "pack"}
    BY <1>1, <1>3 DEF SetInv, SetsHold
  <1>13. SetsHold'
    BY <1>10, <1>11, <1>12 DEF SetsHold
  <1> QED BY <1>2, <1>5, <1>7, <1>8, <1>13 DEF SetInv

\* So does every step of the system.
LEMMA SetKept ==
    ASSUME Setting, Shape, Shape', SetInv, ReadsOK, [Next]_vars
    PROVE  SetInv' /\ ReadsOK'
  <1>1. CASE UNCHANGED vars
    BY <1>1
       DEF vars, SetInv, CallsAsked, SetsHold, ReadsOK, ReadOK, PackedTable, Sought, Visited
  <1>2. ASSUME NEW p \in Procs, Step(p) \/ Invoke(p) \/ Stop(p), Observe
        PROVE  SetInv' /\ ReadsOK'
    BY <1>2, SetStep, ReadsStep
  <1> QED BY <1>1, <1>2 DEF Next, Advance

\* Whatever sets run, and however they are cut short, ref and refs return values the
\* references had while the call ran: half a write is refused, never returned.
THEOREM SetReadsFresh == ASSUME Setting PROVE Spec => []ReadsFresh
  <1>1. Init => SetInv /\ ReadsOK
    BY SetInit, ReadsInit
  <1>2. Shape /\ Shape' /\ SetInv /\ ReadsOK /\ [Next]_vars => SetInv' /\ ReadsOK'
    BY SetKept
  <1> QED BY <1>1, <1>2, ShapeHolds, ReadsAreFresh, PTL DEF Spec

-----------------------------------------------------------------------------
\* Packing: any number of packRefs and reads, of hash references.  Without it the
\* theorems below are false: a set or a removal between the walk and the drop is
\* undone, and packed-refs cannot be read once it has a symbolic reference.
Packing == Setters = {} /\ ~Stops /\ (LooseAtFirst \cup PackedAtFirst) \cap Symbolic = {}

NoLinks == \A n \in Names : link[n] = NoFile

\* Another process, which wrote its successor, holds the lock on the file that p
\* has open, and will unlink all that is linked; or there is nothing to unlink.
Handed(p) ==
    \/ NoLinks
    \/ \E q \in Procs : /\ proc[q].pc = "drop" /\ proc[q].pack = proc[p].pack
                        /\ \A n \in Names : link[n] # NoFile => n \in proc[q].todo

\* References are never changed, and each is in its loose file or in packed-refs.
PlacesHold ==
    /\ \A p \in Procs : proc[p].kind \notin {"set", "remove"}
    /\ \A n \in Names : IF link[n] # NoFile THEN text[link[n]] = refs[n]
                                            ELSE PackedTable[n] = refs[n]
    /\ \A n \in Names : refs[n] \notin Symbolic
    /\ \A g \in Packs, n \in Names : table[g][n] \notin Symbolic
    /\ packed = NoPack => \A p \in Procs : proc[p].pack \notin Packs

\* A walk has visited, or will, every name that is still linked.
WalkOK(p) ==
    LET c == proc[p] IN
    /\ c.pc = "read" => text[c.file] = refs[c.at]
    /\ c.pc # "done" => \A n \in Names : c.found[n] \in {Absent, refs[n]}
    /\ c.pc \in {"packopen", "packlock", "scan"} => c.found = Nowhere
    /\ c.pc \in {"walk", "read", "lookup", "rename"} =>
          \A n \in Names : Sought(p, n) /\ Visited(p, n) /\ c.found[n] = Absent =>
              link[n] = NoFile
    /\ c.pc = "rename" => c.todo = {} /\ c.found # Nowhere
    /\ c.pc = "drop" => c.pack # packed /\ \A n \in Names : PackedTable[n] = refs[n]

\* Who has a file open that is no longer packed-refs has nothing to do.
StaleOK(p) ==
    LET c == proc[p] IN
    c.pack \in Packs /\ c.pack # packed =>
        /\ Handed(p)
        /\ c.pc \in {"packlock", "scan", "walk", "drop"}
        /\ c.pc \in {"scan", "walk"} => NoLinks
        /\ c.pc = "walk" => c.todo = {} /\ c.found = Nowhere

WalksHold == \A p \in Procs : WalkOK(p)
StaleHold == \A p \in Procs : StaleOK(p)

PackInv == PlacesHold /\ WalksHold /\ StaleHold

\* At first every reference is where the history says, and nobody packs.
LEMMA PackInit == Packing /\ Init => PackInv
  <1> SUFFICES ASSUME Packing, Init PROVE PackInv
    OBVIOUS
  <1>1. Shape /\ \A n \in Names :
            IF link[n] # NoFile THEN text[link[n]] = refs[n] ELSE PackedTable[n] = refs[n]
    BY ShapeInit, InitAgrees
  <1> DEFINE D == CHOOSE D \in Injection(Names, Files) : TRUE
             g == CHOOSE g \in Packs : TRUE
  <1>2. PICK l \in [Names -> LooseAtFirst], t \in [Names -> PackedAtFirst] :
          /\ table = [x \in Packs |-> IF x = g THEN t ELSE Nowhere]
          /\ refs = [n \in Names |-> IF l[n] = Absent THEN t[n] ELSE l[n]]
    BY DEF Init
  <1> HIDE DEF D, g
  <1>3. \A n \in Names : l[n] \notin Symbolic /\ t[n] \notin Symbolic
    BY DEF Packing
  <1>4. Absent \notin Symbolic
    BY SymbolicAreValues, SentinelsDiffer
  <1>5. /\ \A n \in Names : refs[n] \notin Symbolic
        /\ \A x \in Packs, n \in Names : table[x][n] \notin Symbolic
    BY <1>2, <1>3, <1>4 DEF Nowhere
  <1>6. \A p \in Procs : proc[p] = Idle
    BY DEF Init
  <1>7. PlacesHold
    BY <1>1, <1>5, <1>6, FileSentinelsDiffer DEF PlacesHold, Idle
  <1>8. WalksHold /\ StaleHold
    BY <1>6, FileSentinelsDiffer DEF WalksHold, WalkOK, StaleHold, StaleOK, Idle, Nowhere
  <1> QED BY <1>7, <1>8 DEF PackInv

\* In this regime a process invokes, reads or packs.
LEMMA PackSteps ==
    ASSUME Packing, Shape, Shape', PackInv, NEW p \in Procs, Step(p) \/ Invoke(p)
    PROVE  /\ Invoke(p) \/ Get(p) \/ Pack(p)
           /\ \A q \in Procs : proc'[q].kind \notin {"set", "remove"}
           /\ UNCHANGED <<text, refs>>
  <1>1. ControlOf(proc[p]) /\ proc[p].kind \notin {"set", "remove"}
    BY DEF Shape, ControlOK, PackInv, PlacesHold
  <1>2. Invoke(p) \/ Get(p) \/ Pack(p)
    <2>1. proc[p].pc \notin Writing \cup {"open", "stat", "unlink", "stripopen", "striplock",
                                          "strip"}
      BY <1>1 DEF ControlOf
    <2> QED
      BY <2>1
         DEF Step, Set, Remove, SetOpen, Lock, Check, Consult, Truncate, Write, Stat,
             Unlink, StripOpen, Strip, Writing
  <1>3. proc'[p].kind \notin {"set", "remove"}
    <2>1. CASE Leave(p)
      BY <2>1, LeaveFacts
    <2>2. CASE Step(p) /\ ~Leave(p)
      BY <1>1, <2>2, CallStays DEF SameCall
    <2>3. CASE Invoke(p)
      BY <2>3, InvokeFacts DEF Packing
    <2> QED BY <2>1, <2>2, <2>3
  <1>4. \A q \in Procs : proc'[q].kind \notin {"set", "remove"}
    BY <1>3, OthersStay DEF PackInv, PlacesHold
  <1>5. UNCHANGED <<text, refs>>
    BY <1>2
       DEF Get, Scan, Open, Read, WalkDone, Lookup, Return, Invoke, Pack, PackOpen, LockPack,
           Rename, Drop, DropDone, FilesUnchanged, LooseUnchanged
  <1> QED BY <1>2, <1>4, <1>5

\* A call that reads, or waits for its lock, keeps its packed-refs file.
LEMMA PackFileStays ==
    ASSUME Shape, NEW p \in Procs, Get(p) \/ LockPack(p), ~Leave(p)
    PROVE  proc'[p].pack = proc[p].pack
  <1>1. proc[p] \in Local
    BY DEF Shape, TypeOK
  <1>2. CASE LockPack(p)
    BY <1>2, GotoFacts DEF LockPack
  <1>3. CASE Scan(p)
    BY <1>1, <1>3 DEF Scan, Shape, TypeOK, Local
  <1>4. CASE Open(p)
    BY <1>1, <1>4 DEF Open, Shape, TypeOK, Local
  <1>5. CASE Read(p)
    BY <1>1, <1>5 DEF Read, Shape, TypeOK, Local
  <1>6. CASE WalkDone(p)
    BY <1>6, GotoFacts DEF WalkDone
  <1>7. CASE Lookup(p)
    <2>1. \/ \E found : proc' = [proc EXCEPT ![p].found = found, ![p].pc = "done"]
          \/ \E value : proc' = [proc EXCEPT ![p].found[proc[p].name] = value, ![p].pc = "done"]
      BY <1>7 DEF Lookup
    <2>2. ASSUME NEW found, proc' = [proc EXCEPT ![p].found = found, ![p].pc = "done"]
          PROVE  proc'[p].pack = proc[p].pack
      BY <1>1, <2>2 DEF Shape, TypeOK, Local
    <2>3. ASSUME NEW value,
                 proc' = [proc EXCEPT ![p].found[proc[p].name] = value, ![p].pc = "done"]
          PROVE  proc'[p].pack = proc[p].pack
      BY <1>1, <2>3 DEF Shape, TypeOK, Local
    <2> QED BY <2>1, <2>2, <2>3
  <1>8. CASE Return(p)
    BY <1>8 DEF Return
  <1> QED BY <1>2, <1>3, <1>4, <1>5, <1>6, <1>7, <1>8 DEF Get

\* The steps that leave the files alone: only the locals of p need a look.
LEMMA PackQuiet ==
    ASSUME Shape, Shape', PackInv, NEW p \in Procs, FilesUnchanged, UNCHANGED refs,
           \A q \in Procs : q # p => proc'[q] = proc[q],
           \A q \in Procs : proc'[q].kind \notin {"set", "remove"},
           proc[p].pc = "drop" => NoLinks,
           proc'[p].pack \in Packs => proc'[p].pack = proc[p].pack,
           WalkOK(p)', StaleOK(p)'
    PROVE  PackInv'
  <1>1. UNCHANGED <<link, text, packed, table>>
    BY DEF FilesUnchanged, LooseUnchanged, PackedUnchanged
  <1>2. UNCHANGED PackedTable
    BY <1>1 DEF PackedTable
  <1>3. PlacesHold'
    BY <1>1, <1>2 DEF PackInv, PlacesHold
  <1>4. ASSUME NEW q \in Procs, q # p PROVE WalkOK(q)'
    BY <1>1, <1>2, <1>4 DEF PackInv, WalksHold, WalkOK, Sought, Visited
  <1>5. ASSUME NEW q \in Procs, q # p PROVE StaleOK(q)'
    <2> SUFFICES ASSUME proc[q].pack \in Packs, proc[q].pack # packed
                 PROVE  /\ Handed(q)'
                        /\ proc[q].pc \in {"packlock", "scan", "walk", "drop"}
                        /\ proc[q].pc \in {"scan", "walk"} => NoLinks'
                        /\ proc[q].pc = "walk" => proc[q].todo = {} /\ proc[q].found = Nowhere
      BY <1>1, <1>5 DEF StaleOK
    <2>1. StaleOK(q)
      BY DEF PackInv, StaleHold
    <2>2. NoLinks' = NoLinks
      BY <1>1 DEF NoLinks
    <2>3. Handed(q)'
      <3>1. CASE NoLinks
        BY <2>2, <3>1 DEF Handed
      <3>2. CASE ~NoLinks
        <4>1. PICK r \in Procs : /\ proc[r].pc = "drop" /\ proc[r].pack = proc[q].pack
                                 /\ \A n \in Names : link[n] # NoFile => n \in proc[r].todo
          BY <2>1, <3>2 DEF StaleOK, Handed
        <4>2. proc'[r] = proc[r] /\ proc'[q] = proc[q]
          BY <1>5, <3>2, <4>1
        <4> QED BY <1>1, <4>1, <4>2 DEF Handed
      <3> QED BY <3>1, <3>2
    <2> QED BY <2>1, <2>2, <2>3 DEF StaleOK
  <1>6. WalksHold' /\ StaleHold'
    BY <1>4, <1>5 DEF WalksHold, StaleHold
  <1> QED BY <1>3, <1>6 DEF PackInv

\* The locals of a process that begins a call, or has none, are in order.
LEMMA PackCall ==
    ASSUME Shape, Shape', PackInv, NEW p \in Procs, Invoke(p) \/ Leave(p)
    PROVE  WalkOK(p)' /\ StaleOK(p)' /\ proc'[p].pack \notin Packs
  <1>1. proc'[p].found = Nowhere /\ proc'[p].pack = NoPack /\ proc'[p].at = NoName
    BY InvokeFacts, LeaveFacts
  <1>2. \/ proc'[p].pc \in {"idle", "open", "stat", "scan", "packopen"}
        \/ proc'[p].kind = "ref" /\ proc'[p].pc = "walk" /\ proc'[p].todo = {proc'[p].name}
    BY InvokeFacts, LeaveFacts
  <1> QED
    BY <1>1, <1>2, FileSentinelsDiffer DEF WalkOK, StaleOK, Sought, Visited, Nowhere

\* The locals of a call that walks are in order after its step.
LEMMA PackGet ==
    ASSUME Shape, Shape', PackInv, NEW p \in Procs, Get(p), ~Leave(p)
    PROVE  WalkOK(p)' /\ StaleOK(p)'
  <1> DEFINE c == proc[p]
             d == proc'[p]
  <1>1. ControlOf(c) /\ c \in Local /\ ControlOf(d) /\ d \in Local /\ WalkOK(p) /\ StaleOK(p)
    BY DEF Shape, ControlOK, TypeOK, PackInv, WalksHold, StaleHold
  <1>2. SameCall(p) /\ d.pack = c.pack
    BY CallStays, PackFileStays DEF Step
  <1>3. UNCHANGED <<link, refs, text, packed, table>>
    BY DEF Get, Scan, Open, Read, WalkDone, Lookup, Return, FilesUnchanged, LooseUnchanged,
           PackedUnchanged
  <1>4. \A n \in Names : Sought(p, n)' <=> Sought(p, n)
    BY <1>2 DEF Sought, SameCall
  <1>5. c.pc # "drop"
    BY DEF Get, Scan, Open, Read, WalkDone, Lookup, Return
  \* What is handed over stays so: the other process is not this one.
  <1>6. Handed(p) => Handed(p)'
    <2> SUFFICES ASSUME Handed(p) PROVE Handed(p)'
      OBVIOUS
    <2>1. CASE NoLinks
      BY <1>3, <2>1 DEF Handed, NoLinks
    <2>2. CASE ~NoLinks
      <3>1. PICK r \in Procs : /\ proc[r].pc = "drop" /\ proc[r].pack = c.pack
                               /\ \A n \in Names : link[n] # NoFile => n \in proc[r].todo
        BY <2>2 DEF Handed
      <3>2. proc'[r] = proc[r]
        BY <1>5, <3>1, OthersStay DEF Step
      <3> QED BY <1>2, <1>3, <3>1, <3>2 DEF Handed
    <2> QED BY <2>1, <2>2
  <1>7. NoLinks' = NoLinks
    BY <1>3 DEF NoLinks
  <1>8. CASE Scan(p)
    <2>1. /\ d.todo = {n \in Names : link[n] # NoFile} /\ d.pc = "walk"
          /\ d.found = c.found /\ c.pc = "scan" /\ c.found = Nowhere
      BY <1>1, <1>8 DEF Scan, Shape, TypeOK, Local, WalkOK
    <2>2. WalkOK(p)'
      BY <1>3, <2>1 DEF WalkOK, Visited, Nowhere
    <2>3. NoLinks => d.todo = {}
      BY <2>1 DEF NoLinks
    <2>4. StaleOK(p)'
      BY <1>1, <1>2, <1>3, <1>6, <1>7, <2>1, <2>3 DEF StaleOK
    <2> QED BY <2>2, <2>4
  <1>9. CASE Open(p)
    <2>1. PICK n \in c.todo :
             proc' = IF link[n] = NoFile
                     THEN [proc EXCEPT ![p].todo = @ \ {n}]
                     ELSE [proc EXCEPT ![p].todo = @ \ {n}, ![p].file = link[n],
                                       ![p].at = n, ![p].pc = "read"]
      BY <1>9 DEF Open
    <2>2. n \in Names /\ c.pc = "walk" /\ c.at = NoName
      BY <1>1, <1>9 DEF Open, Local, ControlOf
    <2>3. /\ d.todo = c.todo \ {n} /\ d.found = c.found
          /\ link[n] = NoFile => d.pc = "walk" /\ d.at = NoName
          /\ link[n] # NoFile => d.pc = "read" /\ d.at = n /\ d.file = link[n]
      BY <1>1, <2>1, <2>2 DEF Shape, TypeOK, Local
    <2>4. d.pc = "read" => text[d.file] = refs[d.at]
      BY <2>2, <2>3 DEF PackInv, PlacesHold
    <2>5. ASSUME NEW m \in Names, Sought(p, m), Visited(p, m)', c.found[m] = Absent
          PROVE  link[m] = NoFile
      <3>1. CASE m = n
        BY <2>3, <2>5, <3>1 DEF Visited
      <3>2. CASE m # n
        <4>1. Visited(p, m)
          BY <2>2, <2>3, <2>5, <3>2, FileSentinelsDiffer DEF Visited
        <4> QED BY <1>1, <2>2, <2>5, <4>1 DEF WalkOK
      <3> QED BY <3>1, <3>2
    <2>6. WalkOK(p)'
      BY <1>1, <1>3, <1>4, <2>2, <2>3, <2>4, <2>5 DEF WalkOK
    <2>7. ~(c.pack \in Packs /\ c.pack # packed)
      BY <1>1, <2>1, <2>2 DEF StaleOK
    <2> QED BY <1>2, <1>3, <2>6, <2>7 DEF StaleOK
  <1>10. CASE Read(p)
    <2> DEFINE value == text[c.file]
    <2>1. /\ value \in Values /\ c.pc = "read"
          /\ proc' = [proc EXCEPT ![p].found[proc[p].at] = value, ![p].file = NoFile,
                                  ![p].at = NoName, ![p].pc = "walk"]
      BY <1>10 DEF Read
    <2>2. c.at \in Names /\ value = refs[c.at] /\ value # Absent
      BY <1>1, <2>1, SentinelsDiffer DEF ControlOf, WalkOK
    <2> HIDE DEF value
    <2>3. /\ d.found = [c.found EXCEPT ![c.at] = value] /\ d.at = NoName /\ d.pc = "walk"
          /\ d.todo = c.todo
      BY <1>1, <2>1 DEF Shape, TypeOK, Local
    <2>4. d.found[c.at] = value /\ \A m \in Names : m # c.at => d.found[m] = c.found[m]
      <3>1. c.found \in [Names -> Ref]
        BY <1>1 DEF Local, Table
      <3> HIDE DEF c, d
      <3> QED BY <2>2, <2>3, <3>1
    <2>5. \A m \in Names : d.found[m] \in {Absent, refs[m]}
      BY <1>1, <2>1, <2>2, <2>4 DEF WalkOK
    <2>6. ASSUME NEW m \in Names, Sought(p, m), Visited(p, m)', d.found[m] = Absent
          PROVE  link[m] = NoFile
      <3>1. m # c.at
        BY <2>2, <2>4, <2>6
      <3>2. Visited(p, m)
        BY <2>3, <2>6, <3>1 DEF Visited
      <3> QED BY <1>1, <2>1, <2>4, <2>6, <3>1, <3>2 DEF WalkOK
    <2>7. WalkOK(p)'
      BY <1>3, <1>4, <2>3, <2>5, <2>6 DEF WalkOK
    <2>8. ~(c.pack \in Packs /\ c.pack # packed)
      BY <1>1, <2>1 DEF StaleOK
    <2> QED BY <1>2, <1>3, <2>7, <2>8 DEF StaleOK
  <1>11. CASE WalkDone(p)
    <2>1. PICK next \in {"lookup", "done", "rename"} :
             /\ c.pc = "walk" /\ c.todo = {} /\ Goto(p, next)
             /\ next = "rename" => c.kind = "pack" /\ c.found # Nowhere
             /\ next # "rename" => c.kind \in {"ref", "refs"}
      BY <1>11 DEF WalkDone
    <2>2. d.todo = {} /\ d.at = c.at /\ d.found = c.found /\ d.pc = next
      BY <2>1, GotoFacts
    <2>3. WalkOK(p)'
      BY <1>1, <1>3, <1>4, <2>1, <2>2 DEF WalkOK, Visited
    <2>4. ~(c.pack \in Packs /\ c.pack # packed)
      BY <1>1, <2>1 DEF StaleOK, ControlOf
    <2> QED BY <1>2, <1>3, <2>3, <2>4 DEF StaleOK
  <1>12. CASE Lookup(p)
    <2>1. c.pc = "lookup" /\ d.pc = "done"
      <3>1. /\ c.pc = "lookup"
            /\ \/ \E found : proc' = [proc EXCEPT ![p].found = found, ![p].pc = "done"]
               \/ \E value : proc' = [proc EXCEPT ![p].found[proc[p].name] = value,
                                                  ![p].pc = "done"]
        BY <1>12 DEF Lookup
      <3>2. ASSUME NEW found, proc' = [proc EXCEPT ![p].found = found, ![p].pc = "done"]
            PROVE  d.pc = "done"
        BY <1>1, <3>2 DEF Shape, TypeOK, Local
      <3>3. ASSUME NEW value,
                   proc' = [proc EXCEPT ![p].found[proc[p].name] = value, ![p].pc = "done"]
            PROVE  d.pc = "done"
        BY <1>1, <3>3 DEF Shape, TypeOK, Local
      <3> QED BY <3>1, <3>2, <3>3
    <2>2. WalkOK(p)'
      BY <2>1 DEF WalkOK
    <2>3. ~(c.pack \in Packs /\ c.pack # packed)
      BY <1>1, <2>1 DEF StaleOK
    <2> QED BY <1>2, <1>3, <2>2, <2>3 DEF StaleOK
  <1>13. CASE Return(p)
    BY <1>13 DEF Return
  <1> QED BY <1>8, <1>9, <1>10, <1>11, <1>12, <1>13 DEF Get

\* Taking the lock of a file that is no longer packed-refs: its holder is through.
LEMMA PackLocked ==
    ASSUME Shape, Shape', PackInv, NEW p \in Procs, LockPack(p)
    PROVE  WalkOK(p)' /\ StaleOK(p)' /\ proc'[p].pack = proc[p].pack
  <1> DEFINE c == proc[p]
             d == proc'[p]
  <1>1. ControlOf(c) /\ WalkOK(p) /\ StaleOK(p) /\ c.kind # "remove"
    BY DEF Shape, ControlOK, PackInv, WalksHold, StaleHold, PlacesHold
  <1>2. c.pc = "packlock" /\ Goto(p, "scan") /\ ~PackHeld(c.pack) /\ c.pack \in Packs
    BY <1>1 DEF LockPack, ControlOf
  <1>3. /\ d.pc = "scan" /\ d.found = c.found /\ d.pack = c.pack /\ d.todo = c.todo
    BY <1>2, GotoFacts
  <1>4. UNCHANGED <<link, refs, packed>>
    BY DEF LockPack, FilesUnchanged, LooseUnchanged, PackedUnchanged
  <1>5. WalkOK(p)'
    BY <1>1, <1>2, <1>3, <1>4 DEF WalkOK
  <1>6. ASSUME c.pack # packed PROVE NoLinks /\ NoLinks'
    <2>1. \A r \in Procs : ~(proc[r].pc = "drop" /\ proc[r].pack = c.pack)
      BY <1>2 DEF PackHeld
    <2>2. NoLinks
      BY <1>1, <1>2, <1>6, <2>1 DEF StaleOK, Handed
    <2> QED BY <1>4, <2>2 DEF NoLinks
  <1>7. StaleOK(p)'
    BY <1>3, <1>4, <1>6 DEF StaleOK, Handed
  <1> QED BY <1>3, <1>5, <1>7

\* A file takes the name packed-refs; the files that are open stay as they are.
LEMMA InstallFacts ==
    ASSUME Shape, NEW t \in Table, Install(t)
    PROVE  /\ packed' \in Packs /\ packed' # NoPack /\ packed' # packed
           /\ \A q \in Procs : proc[q].pack # packed'
           /\ \A n \in Names : PackedTable'[n] = t[n]
           /\ \A g \in Packs, n \in Names : table'[g][n] \in {t[n], table[g][n], Absent}
  <1>1. packed' = NewPack /\ NewPack \in Packs /\ NewPack \notin OpenPacks /\ NewPack # packed
    BY NewPackIsNew DEF Install, Shape
  <1>2. packed' # NoPack /\ table'[packed'] = t
    BY <1>1, FileSentinelsDiffer DEF Install
  <1>3. PackedTable' = t
    BY <1>2 DEF PackedTable
  <1>4. \A g \in Packs, n \in Names : table'[g][n] \in {t[n], table[g][n], Absent}
    BY DEF Install, Nowhere
  <1> QED BY <1>1, <1>2, <1>3, <1>4 DEF OpenPacks

\* packRefs opens packed-refs, or creates it, which changes no reference.
LEMMA PackOpened ==
    ASSUME Shape, Shape', PackInv, NEW p \in Procs, PackOpen(p),
           \A q \in Procs : q # p => proc'[q] = proc[q],
           \A q \in Procs : proc'[q].kind \notin {"set", "remove"}
    PROVE  PackInv' /\ PackedStays
  <1> DEFINE c == proc[p]
             d == proc'[p]
  <1>1. ControlOf(c) /\ WalkOK(p) /\ c.pc = "packopen" /\ c \in Local
    BY DEF Shape, ControlOK, TypeOK, PackInv, WalksHold, PackOpen
  <1>2. UNCHANGED <<link, text, refs>>
    BY DEF PackOpen, LooseUnchanged
  <1>3. PICK g : /\ proc' = [proc EXCEPT ![p].pack = g, ![p].pc = "packlock"]
                 /\ g = IF packed # NoPack THEN packed ELSE NewPack
    BY DEF PackOpen
  <1>4. d.pc = "packlock" /\ d.pack = g /\ d.found = c.found
    BY <1>1, <1>3 DEF Shape, TypeOK, Local
  <1>5. WalkOK(p)'
    BY <1>1, <1>2, <1>4 DEF WalkOK
  <1>6. CASE packed # NoPack
    <2>1. FilesUnchanged
      BY <1>2, <1>6 DEF PackOpen, FilesUnchanged, LooseUnchanged
    <2>2. UNCHANGED <<packed, table, PackedTable>>
      BY <2>1 DEF FilesUnchanged, PackedUnchanged, PackedTable
    <2>3. PlacesHold'
      BY <1>2, <1>6, <2>2 DEF PackInv, PlacesHold
    <2>4. ASSUME NEW q \in Procs, q # p PROVE WalkOK(q)' /\ StaleOK(q)'
      <3>1. WalkOK(q)'
        BY <1>2, <2>2, <2>4 DEF PackInv, WalksHold, WalkOK, Sought, Visited
      <3>2. StaleOK(q) /\ NoLinks' = NoLinks
        BY <1>2 DEF PackInv, StaleHold, NoLinks
      <3>3. Handed(q) => Handed(q)'
        <4> SUFFICES ASSUME Handed(q), ~NoLinks PROVE Handed(q)'
          BY <3>2 DEF Handed
        <4>1. PICK r \in Procs : /\ proc[r].pc = "drop" /\ proc[r].pack = proc[q].pack
                                 /\ \A n \in Names : link[n] # NoFile => n \in proc[r].todo
          BY DEF Handed
        <4>2. proc'[r] = proc[r]
          BY <1>1, <4>1
        <4> QED BY <1>2, <2>4, <4>1, <4>2 DEF Handed
      <3> QED BY <2>2, <2>4, <3>1, <3>2, <3>3 DEF StaleOK
    <2>5. StaleOK(p)'
      BY <1>3, <1>4, <1>6, <2>2 DEF StaleOK
    <2>6. WalksHold' /\ StaleHold'
      BY <1>5, <2>4, <2>5 DEF WalksHold, StaleHold
    <2>7. PackedStays
      BY <2>2 DEF PackedStays
    <2> QED BY <2>3, <2>6, <2>7 DEF PackInv
  \* Nobody else has a packed-refs file yet.
  <1>7. CASE packed = NoPack
    <2>1. Install(Nowhere) /\ Nowhere \in Table
      BY <1>7 DEF PackOpen, Nowhere, Table, Ref
    <2>2. /\ packed' \in Packs /\ packed' # NoPack
          /\ \A n \in Names : PackedTable'[n] = Absent /\ PackedTable[n] = Absent
          /\ \A x \in Packs, n \in Names : table'[x][n] \in {table[x][n], Absent}
      BY <1>7, <2>1, InstallFacts DEF Nowhere, PackedTable
    <2>3. packed' = g
      BY <1>3, <1>7, <2>1 DEF Install
    <2>4. Absent \notin Symbolic
      BY SymbolicAreValues, SentinelsDiffer
    <2>5. PlacesHold'
      BY <1>2, <2>2, <2>4 DEF PackInv, PlacesHold
    <2>6. \A q \in Procs : proc[q].pack \notin Packs
      BY <1>7 DEF PackInv, PlacesHold
    <2>7. ASSUME NEW q \in Procs PROVE WalkOK(q)' /\ StaleOK(q)'
      <3>1. CASE q = p
        BY <1>4, <1>5, <2>3, <3>1 DEF StaleOK
      <3>2. CASE q # p
        <4>1. proc'[q] = proc[q] /\ WalkOK(q)
          BY <3>2 DEF PackInv, WalksHold
        <4>2. WalkOK(q)'
          BY <1>2, <2>2, <2>6, <4>1 DEF WalkOK, Sought, Visited
        <4> QED BY <2>6, <4>1, <4>2 DEF StaleOK
      <3> QED BY <3>1, <3>2
    <2>8. WalksHold' /\ StaleHold'
      BY <2>7 DEF WalksHold, StaleHold
    <2>9. PackedStays
      BY <2>2 DEF PackedStays
    <2> QED BY <2>5, <2>8, <2>9 DEF PackInv
  <1> QED BY <1>6, <1>7

\* The new packed-refs has every reference, and its writer will unlink the rest.
LEMMA PackRenamed ==
    ASSUME Shape, Shape', PackInv, NEW p \in Procs, Rename(p), ~Leave(p),
           \A q \in Procs : q # p => proc'[q] = proc[q],
           \A q \in Procs : proc'[q].kind \notin {"set", "remove"}
    PROVE  PackInv' /\ PackedStays
  <1> DEFINE c == proc[p]
             d == proc'[p]
             t == table[c.pack]
  <1>1. /\ ControlOf(c) /\ WalkOK(p) /\ StaleOK(p) /\ c.pc = "rename" /\ c \in Local
        /\ c.kind = "pack" /\ c.pack \in Packs
    BY DEF Shape, ControlOK, TypeOK, ControlOf, PackInv, WalksHold, StaleHold, Rename
  <1>2. UNCHANGED <<link, text, refs>>
    BY DEF Rename, LooseUnchanged
  <1>3. c.pack = packed /\ packed # NoPack /\ t = PackedTable
    BY <1>1, FileSentinelsDiffer DEF StaleOK, PackedTable
  <1>4. \A n \in Names : c.found[n] = Absent => link[n] = NoFile
    <2>1. \A n \in Names : Sought(p, n) /\ Visited(p, n)
      BY <1>1 DEF Sought, Visited, WalkOK, ControlOf
    <2> QED BY <1>1, <2>1 DEF WalkOK
  <1>5. ASSUME NEW n \in Names PROVE Merged(c.found, t)[n] = refs[n]
    BY <1>1, <1>3, <1>4 DEF Merged, WalkOK, PackInv, PlacesHold
  <1>6. Install(Merged(c.found, t)) /\ Merged(c.found, t) \in Table
    <2>1. Install(Merged(c.found, t))
      BY DEF Rename
    <2>2. refs \in [Names -> Ref] /\ Merged(c.found, t) = [n \in Names |-> Merged(c.found, t)[n]]
      BY DEF Shape, TypeOK, Table, Merged
    <2> HIDE DEF c, t
    <2>3. Merged(c.found, t) \in [Names -> Ref]
      BY <1>5, <2>2
    <2> QED BY <2>1, <2>3 DEF Table
  <1>7. /\ packed' \in Packs /\ packed' # NoPack /\ packed' # packed
        /\ \A q \in Procs : proc[q].pack # packed'
        /\ \A n \in Names : PackedTable'[n] = refs[n]
        /\ \A g \in Packs, n \in Names : table'[g][n] \in {refs[n], table[g][n], Absent}
    BY <1>5, <1>6, InstallFacts
  <1>8. Absent \notin Symbolic
    BY SymbolicAreValues, SentinelsDiffer
  <1>9. PlacesHold'
    BY <1>2, <1>7, <1>8 DEF PackInv, PlacesHold
  <1>10. /\ d.todo = {n \in Names : c.found[n] # Absent} /\ d.found = Nowhere
         /\ d.pc = "drop" /\ d.pack = c.pack
    <2>1. proc' = [proc EXCEPT ![p].todo = {n \in Names : proc[p].found[n] # Absent},
                               ![p].found = Nowhere, ![p].pc = "drop"]
      BY DEF Rename
    <2> QED BY <1>1, <2>1 DEF Shape, TypeOK, Local
  \* Whoever waits for the lock of the file that was packed-refs is handed over.
  <1>11. ASSUME NEW q \in Procs, proc'[q].pack = c.pack PROVE Handed(q)'
    <2>1. \A n \in Names : link'[n] # NoFile => n \in d.todo
      BY <1>2, <1>4, <1>10
    <2> QED BY <1>10, <1>11, <2>1 DEF Handed
  <1>12. ASSUME NEW q \in Procs PROVE WalkOK(q)'
    <2>1. CASE q = p
      BY <1>2, <1>7, <1>10, <2>1 DEF WalkOK, Nowhere
    <2>2. CASE q # p
      BY <1>2, <1>7, <2>2 DEF PackInv, WalksHold, WalkOK, Sought, Visited
    <2> QED BY <2>1, <2>2
  <1>13. ASSUME NEW q \in Procs PROVE StaleOK(q)'
    <2>1. CASE q = p
      BY <1>10, <1>11, <2>1 DEF StaleOK
    <2>2. CASE q # p /\ proc[q].pack # c.pack
      <3>1. proc'[q] = proc[q] /\ StaleOK(q) /\ NoLinks' = NoLinks
        BY <1>2, <2>2 DEF PackInv, StaleHold, NoLinks
      <3>2. Handed(q) => Handed(q)'
        <4> SUFFICES ASSUME Handed(q), ~NoLinks PROVE Handed(q)'
          BY <3>1 DEF Handed
        <4>1. PICK r \in Procs : /\ proc[r].pc = "drop" /\ proc[r].pack = proc[q].pack
                                 /\ \A n \in Names : link[n] # NoFile => n \in proc[r].todo
          BY DEF Handed
        <4>2. proc'[r] = proc[r]
          BY <1>1, <4>1
        <4> QED BY <1>2, <3>1, <4>1, <4>2 DEF Handed
      <3> QED BY <1>3, <2>2, <3>1, <3>2 DEF StaleOK
    <2>3. CASE q # p /\ proc[q].pack = c.pack
      <3>1. proc'[q] = proc[q] /\ ControlOf(proc[q])
        BY <2>3 DEF Shape, ControlOK
      <3>2. proc[q].pc \in PackWaiting
        BY <1>1, <2>3 DEF Shape, LocksExclude, PackWaiting
      <3>3. proc[q].pc = "packlock"
        BY <3>1, <3>2 DEF PackWaiting, ControlOf, PackInv, PlacesHold
      <3> QED BY <1>11, <2>3, <3>1, <3>3 DEF StaleOK
    <2> QED BY <2>1, <2>2, <2>3
  <1>14. WalksHold' /\ StaleHold'
    BY <1>12, <1>13 DEF WalksHold, StaleHold
  <1>15. PackedStays
    BY <1>2, <1>7 DEF PackedStays
  <1> QED BY <1>9, <1>14, <1>15 DEF PackInv

\* What is unlinked is in packed-refs by then.
LEMMA PackDropped ==
    ASSUME Shape, Shape', PackInv, NEW p \in Procs, Drop(p),
           \A q \in Procs : q # p => proc'[q] = proc[q],
           \A q \in Procs : proc'[q].kind \notin {"set", "remove"}
    PROVE  PackInv' /\ PackedStays
  <1> DEFINE c == proc[p]
             d == proc'[p]
  <1>1. c.pc = "drop" /\ c \in Local /\ WalkOK(p)
    BY DEF Drop, Shape, TypeOK, PackInv, WalksHold
  <1>2. PICK n \in c.todo : /\ link' = [link EXCEPT ![n] = NoFile]
                            /\ proc' = [proc EXCEPT ![p].todo = @ \ {n}]
    BY DEF Drop
  <1>3. UNCHANGED <<text, refs, packed, table, PackedTable>>
    BY DEF Drop, PackedUnchanged, PackedTable
  <1>4. n \in Names /\ \A m \in Names : link'[m] = IF m = n THEN NoFile ELSE link[m]
    BY <1>1, <1>2 DEF Shape, TypeOK, Local
  <1>5. d.todo = c.todo \ {n} /\ d.pc = "drop" /\ d.pack = c.pack /\ d.found = c.found
    BY <1>1, <1>2 DEF Shape, TypeOK, Local
  <1>6. \A m \in Names : PackedTable[m] = refs[m]
    BY <1>1 DEF WalkOK
  <1>7. \A q \in Procs : proc'[q].pack = proc[q].pack
    BY <1>5
  <1>8. PlacesHold'
    BY <1>3, <1>4, <1>6, <1>7 DEF PackInv, PlacesHold
  <1>9. ASSUME NEW q \in Procs PROVE WalkOK(q)'
    <2>1. CASE q = p
      BY <1>1, <1>3, <1>5, <2>1 DEF WalkOK
    <2>2. CASE q # p
      BY <1>3, <1>4, <2>2 DEF PackInv, WalksHold, WalkOK, Sought, Visited
    <2> QED BY <2>1, <2>2
  <1>10. NoLinks => NoLinks'
    BY <1>4 DEF NoLinks
  <1>11. ASSUME NEW q \in Procs, Handed(q) PROVE Handed(q)'
    <2>1. CASE NoLinks
      BY <1>10, <2>1 DEF Handed
    <2>2. CASE ~NoLinks
      <3>1. PICK r \in Procs : /\ proc[r].pc = "drop" /\ proc[r].pack = proc[q].pack
                               /\ \A m \in Names : link[m] # NoFile => m \in proc[r].todo
        BY <1>11, <2>2 DEF Handed
      <3>2. proc'[r].pc = "drop" /\ proc'[r].pack = proc'[q].pack
        BY <1>5, <1>7, <3>1
      <3>3. \A m \in Names : link'[m] # NoFile => m \in proc'[r].todo
        BY <1>4, <1>5, <3>1
      <3> QED BY <3>2, <3>3 DEF Handed
    <2> QED BY <2>1, <2>2
  <1>12. ASSUME NEW q \in Procs PROVE StaleOK(q)'
    <2>1. StaleOK(q)
      BY DEF PackInv, StaleHold
    <2>2. CASE q = p
      BY <1>3, <1>5, <1>11, <2>1, <2>2 DEF StaleOK
    <2>3. CASE q # p
      BY <1>3, <1>10, <1>11, <2>1, <2>3 DEF StaleOK
    <2> QED BY <2>2, <2>3
  <1>13. WalksHold' /\ StaleHold'
    BY <1>9, <1>12 DEF WalksHold, StaleHold
  <1>14. PackedStays
    BY <1>3 DEF PackedStays
  <1> QED BY <1>8, <1>13, <1>14 DEF PackInv

\* A step of any call keeps the invariant, and what reads rely on.
LEMMA PackStep ==
    ASSUME Packing, Shape, Shape', PackInv, NEW p \in Procs, Step(p) \/ Invoke(p)
    PROVE  PackInv' /\ PackedCurrent /\ PackedStays /\ LooseCurrent
  <1>1. /\ Invoke(p) \/ Get(p) \/ Pack(p)
        /\ \A q \in Procs : proc'[q].kind \notin {"set", "remove"}
        /\ UNCHANGED <<text, refs>>
        /\ \A q \in Procs : q # p => proc'[q] = proc[q]
    BY PackSteps, OthersStay
  <1>2. PackedCurrent /\ LooseCurrent
    BY DEF PackInv, PlacesHold, WalksHold, WalkOK, PackedCurrent, LooseCurrent
  <1>3. FilesUnchanged => PackedStays
    BY DEF FilesUnchanged, PackedUnchanged, PackedStays, PackedTable
  <1>4. CASE Invoke(p)
    <2>1. FilesUnchanged /\ UNCHANGED refs /\ proc[p].pc # "drop"
      BY <1>4 DEF Invoke
    <2>2. WalkOK(p)' /\ StaleOK(p)' /\ proc'[p].pack \notin Packs
      BY <1>4, PackCall
    <2> QED BY <1>1, <1>2, <1>3, <2>1, <2>2, PackQuiet
  <1>5. CASE Get(p)
    <2>1. FilesUnchanged /\ UNCHANGED refs /\ proc[p].pc # "drop"
      BY <1>5 DEF Get, Scan, Open, Read, WalkDone, Lookup, Return
    <2>2. CASE Leave(p)
      <3>1. WalkOK(p)' /\ StaleOK(p)' /\ proc'[p].pack \notin Packs
        BY <2>2, PackCall
      <3> QED BY <1>1, <1>2, <1>3, <2>1, <3>1, PackQuiet
    <2>3. CASE ~Leave(p)
      <3>1. WalkOK(p)' /\ StaleOK(p)' /\ proc'[p].pack = proc[p].pack
        BY <1>5, <2>3, PackGet, PackFileStays
      <3> QED BY <1>1, <1>2, <1>3, <2>1, <3>1, PackQuiet
    <2> QED BY <2>2, <2>3
  <1>6. CASE LockPack(p)
    <2>1. FilesUnchanged /\ UNCHANGED refs /\ proc[p].pc # "drop"
      BY <1>6 DEF LockPack
    <2>2. WalkOK(p)' /\ StaleOK(p)' /\ proc'[p].pack = proc[p].pack
      BY <1>6, PackLocked
    <2> QED BY <1>1, <1>2, <1>3, <2>1, <2>2, PackQuiet
  <1>7. CASE PackOpen(p)
    BY <1>1, <1>2, <1>7, PackOpened
  <1>8. CASE Rename(p) /\ ~Leave(p)
    BY <1>1, <1>2, <1>8, PackRenamed
  <1>9. CASE Rename(p) /\ Leave(p)
    <2>1. FilesUnchanged /\ UNCHANGED refs /\ proc[p].pc # "drop"
      <3>1. ~(proc'[p].pc = "drop")
        BY <1>9, LeaveFacts
      <3>2. PackedUnchanged
        <4>1. CASE Malformed(table[proc[p].pack])
          BY <1>9, <4>1 DEF Rename
        <4>2. CASE ~Malformed(table[proc[p].pack])
          <5>1. proc' = [proc EXCEPT ![p].todo = {n \in Names : proc[p].found[n] # Absent},
                                     ![p].found = Nowhere, ![p].pc = "drop"]
            BY <1>9, <4>2 DEF Rename
          <5>2. proc'[p].pc = "drop"
            BY <5>1 DEF Shape, TypeOK, Local
          <5> QED BY <3>1, <5>2
        <4> QED BY <4>1, <4>2
      <3> QED BY <1>9, <3>2 DEF Rename, FilesUnchanged
    <2>2. WalkOK(p)' /\ StaleOK(p)' /\ proc'[p].pack \notin Packs
      BY <1>9, PackCall
    <2> QED BY <1>1, <1>2, <1>3, <2>1, <2>2, PackQuiet
  <1>10. CASE Drop(p)
    BY <1>1, <1>2, <1>10, PackDropped
  <1>11. CASE DropDone(p)
    <2>1. FilesUnchanged /\ UNCHANGED refs /\ Leave(p) /\ proc[p].pc = "drop"
          /\ proc[p].todo = {}
      BY <1>11 DEF DropDone
    <2>2. WalkOK(p)' /\ StaleOK(p)' /\ proc'[p].pack \notin Packs
      BY <2>1, PackCall
    \* Nobody else has the lock of the file p opened: p unlinked all there was.
    <2>3. StaleOK(p) /\ WalkOK(p) /\ ControlOf(proc[p])
      BY DEF PackInv, StaleHold, WalksHold, Shape, ControlOK
    <2>4. proc[p].pack \in Packs /\ Handed(p)
      BY <2>1, <2>3 DEF StaleOK, WalkOK, ControlOf
    <2>5. ASSUME NEW q \in Procs, proc[q].pc = "drop", proc[q].pack = proc[p].pack
          PROVE  q = p
      BY <2>1, <2>4, <2>5 DEF Shape, LocksExclude, PackWaiting
    <2>6. NoLinks
      BY <2>1, <2>4, <2>5 DEF Handed, NoLinks
    <2> QED BY <1>1, <1>2, <1>3, <2>1, <2>2, <2>6, PackQuiet
  <1> QED BY <1>1, <1>4, <1>5, <1>6, <1>7, <1>8, <1>9, <1>10, <1>11 DEF Pack

\* Every step keeps the invariant and what the reads rely on.
LEMMA PackKept ==
    ASSUME Packing, Shape, Shape', PackInv, ReadsOK, [Next]_vars
    PROVE  PackInv' /\ ReadsOK'
  <1>1. CASE UNCHANGED vars
    BY <1>1
       DEF vars, PackInv, PlacesHold, WalksHold, WalkOK, StaleHold, StaleOK, Handed, NoLinks,
           ReadsOK, ReadOK, PackedTable, Sought, Visited
  <1>2. ASSUME NEW p \in Procs, Step(p) \/ Invoke(p), Observe
        PROVE  PackInv' /\ ReadsOK'
    BY <1>2, PackStep, ReadsStep
  <1>3. ASSUME NEW p \in Procs PROVE ~Stop(p)
    BY DEF Stop, Packing
  <1> QED BY <1>1, <1>2, <1>3 DEF Next, Advance

\* The invariant of the regime holds throughout, and reads stay fresh.
LEMMA PackHolds == ASSUME Packing PROVE Spec => [](PackInv /\ ReadsOK)
  <1>1. Init => PackInv /\ ReadsOK
    BY PackInit, ReadsInit
  <1>2. Shape /\ Shape' /\ PackInv /\ ReadsOK /\ [Next]_vars => PackInv' /\ ReadsOK'
    BY PackKept
  <1> QED BY <1>1, <1>2, ShapeHolds, PTL DEF Spec

\* However many packRefs run at once, every reference is found, with its value, at
\* every moment: in its loose file until that is unlinked, then in packed-refs.
THEOREM PackLookupFinds == ASSUME Packing PROVE Spec => []LookupFinds
  <1>1. PackInv => LookupFinds
    BY DEF PackInv, PlacesHold, LookupFinds, Found
  <1> QED BY <1>1, PackHolds, PTL

\* ref and refs miss no reference while it moves from its loose file to packed-refs.
THEOREM PackReadsFresh == ASSUME Packing PROVE Spec => []ReadsFresh
  BY PackHolds, ShapeHolds, ReadsAreFresh, PTL
=============================================================================

---------------------------- MODULE Remote_proofs ----------------------------
(***************************************************************************)
(* Proofs about a clone and its remote, for any histories, any number of   *)
(* sessions and any number of calls.                                       *)
(***************************************************************************)
EXTENDS Remote, ReceivePack_proofs, WellFoundedInduction

Known == have \cup {Absent}

\* The types of the clone.
CloneShape ==
    /\ own \in [Names -> Ref] /\ tracking \in [Names -> Ref]
    /\ have \subseteq Objects
    /\ doing \in {"idle", "fetch", "prune", "update", "push"}
    /\ doing = "idle" => call = None
    /\ doing = "push" => call \in PushCall
    /\ doing \in {"fetch", "prune", "update"} => call \in FetchCall
    /\ theirs \in [Names -> Ref] /\ todo \subseteq Names
    /\ asked \in Seq([name : Names, new : Ref]) /\ calls \in 0..MaxCalls
    /\ during \in [Names -> SUBSET Ref]

\* The objects of the clone need no others, and it refers to nothing else; nor
\* does what it asks its remote for.
Complete ==
    /\ Closure(have) \subseteq have
    /\ \A n \in Names : own[n] \in Known /\ tracking[n] \in Known
    /\ \A i \in 1..Len(asked) : asked[i].new \in Known
    /\ \A i \in Indices(Client) : commands[Client][i].new \in Known

\* The fetch has imported what the branches point to.
Imported == doing \in {"prune", "update"} => \A n \in Heads : theirs[n] \in Known

\* What the call goes by was so while it ran.
Noted ==
    /\ doing \in {"fetch", "prune", "update"} => \A n \in Names : theirs[n] \in during[n]
    /\ doing = "push" =>
         /\ step[Client] # "advertise"
         /\ \A i \in applied[Client] :
              commands[Client][i].new \in during[commands[Client][i].name]

RemoteInv == Inv /\ CloneShape /\ Complete /\ Imported /\ Noted

USE AbsentAssumption, ClientIsASession

-----------------------------------------------------------------------------
LEMMA ClosureMonotone == \A S, T : S \subseteq T => Closure(S) \subseteq Closure(T)
  BY DEF Closure

\* What some objects need needs nothing more.
LEMMA ClosureIsClosed ==
  ASSUME NEW S, S \subseteq Ref
  PROVE  /\ S \ {Absent} \subseteq Closure(S) /\ Closure(S) \subseteq Objects
         /\ Closure(Closure(S)) \subseteq Closure(S)
<1>1. Closure(S) \subseteq Objects
  BY ReachAssumption DEF Closure, Ref
<1>2. S \ {Absent} \subseteq Closure(S)
  BY HistoryAssumption DEF Closure, Ref
<1>3. ASSUME NEW p \in Closure(S) PROVE Reach[p] \subseteq Closure(S)
  <2>1. PICK o \in S \ {Absent} : p \in Reach[o]
    BY DEF Closure
  <2>2. Reach[p] \subseteq Reach[o]
    BY <2>1, HistoryAssumption DEF Ref
  <2> QED
    BY <2>2 DEF Closure
<1>4. Closure(Closure(S)) \subseteq Closure(S)
  BY <1>3 DEF Closure
<1> QED
  BY <1>1, <1>2, <1>4

\* Some numbers up to k have a largest one.
LEMMA LargestExists ==
  ASSUME NEW k \in Nat, NEW I, I \subseteq 1..k, I # {}
  PROVE  \E i \in I : \A j \in I : j <= i
<1> DEFINE T == {k - i : i \in I}
           R == {ss \in Nat \X Nat : ss[1] < ss[2]}
<1>0. IsWellFoundedOn(R, Nat)
  BY NatLessThanWellFounded DEF OpToRel
<1>1. T \subseteq Nat /\ T # {}
  <2>1. \A i \in I : i \in Int /\ k - i \in Nat
    OBVIOUS
  <2>2. PICK i \in I : TRUE
    OBVIOUS
  <2> QED
    BY <2>1, <2>2
<1> HIDE DEF T
<1>2. PICK m \in T : \A n \in T : m <= n
  <2>1. PICK m \in T : \A n \in T : <<n, m>> \notin R
    <3> HIDE DEF R
    <3> QED
      BY <1>0, <1>1, WFMin
  <2>2. \A n \in T : ~ (n < m)
    BY <1>1, <2>1
  <2> QED
    BY <1>1, <2>2
<1>3. PICK i \in I : m = k - i
  BY DEF T
<1>4. ASSUME NEW j \in I, j > i PROVE FALSE
  <2>1. k - j \in T /\ k - j < m /\ k - j \in Nat /\ m \in Nat
    BY <1>1, <1>3, <1>4 DEF T
  <2> QED
    BY <1>2, <2>1
<1>5. \A j \in I : j <= i
  BY <1>4
<1> QED
  BY <1>5

LEMMA LatestIsOne ==
  ASSUME NEW k \in Nat, NEW I, I \subseteq 1..k, I # {} PROVE Latest(I) \in I
  BY LargestExists DEF Latest

-----------------------------------------------------------------------------
LEMMA FetchOpenStep == ASSUME RemoteInv, FetchOpen PROVE RemoteInv'
<1> USE DEF FetchOpen, vars, repoVars, requestVars, answerVars, cloneVars
<1>1. Inv' /\ refs \in [Names -> Ref]
  BY Stutter DEF RemoteInv, Inv, Shape
<1>2. call' \in FetchCall
  BY CallsAssumption
<1>3. calls' \in 0..MaxCalls
  BY CallsAssumption DEF RemoteInv, CloneShape
<1>4. CloneShape'
  BY <1>1, <1>2, <1>3 DEF RemoteInv, CloneShape
<1>5. Complete'
  BY DEF RemoteInv, Complete, Known, Indices
<1>6. Imported' /\ Noted'
  BY DEF Imported, Noted
<1> QED
  BY <1>1, <1>4, <1>5, <1>6 DEF RemoteInv

\* The call ends; the clone refers to what it knows.
LEMMA LeaveStep ==
  ASSUME RemoteInv, UNCHANGED <<vars, own, have>>, Leave,
         tracking' \in [Names -> Ref], \A n \in Names : tracking'[n] \in Known
  PROVE  RemoteInv'
<1> USE DEF Leave, vars, repoVars, requestVars, answerVars
<1>1. Inv'
  BY Stutter DEF RemoteInv
<1>2. asked' = << >> /\ asked' \in Seq([name : Names, new : Ref]) /\ Len(asked') = 0
  OBVIOUS
<1>3. CloneShape'
  BY <1>2 DEF RemoteInv, CloneShape, Nowhere, Ref
<1>4. Complete'
  BY <1>2 DEF RemoteInv, Complete, Known, Indices
<1>5. Imported' /\ Noted'
  BY DEF Imported, Noted
<1> QED
  BY <1>1, <1>3, <1>4, <1>5 DEF RemoteInv

\* A pack is imported with the history of each tip that was missing.
LEMMA ImportStep == ASSUME RemoteInv, Import PROVE RemoteInv'
<1> USE DEF vars, repoVars, requestVars, answerVars
<1>1. Inv'
  BY Stutter DEF RemoteInv, Import
<1>2. /\ theirs \in [Names -> Ref] /\ have \subseteq Objects
      /\ Closure(have) \subseteq have /\ doing = "fetch"
  BY DEF RemoteInv, CloneShape, Complete, Import
<1>3. Wants \subseteq Ref /\ Wants \subseteq Objects
  BY <1>2, TagsAreNames DEF Wants, Matched, Heads, Ref
<1>4. /\ Wants \subseteq Closure(Wants) /\ Closure(Wants) \subseteq Objects
      /\ Closure(Closure(Wants)) \subseteq Closure(Wants)
  BY <1>3, ClosureIsClosed
<1>5. Closure(Haves) \subseteq have
  <2>1. Haves \subseteq Known
    BY DEF RemoteInv, CloneShape, Complete, Haves, Range
  <2>2. Closure(Haves) \subseteq Closure(have)
    BY <2>1 DEF Closure, Known
  <2> QED
    BY <1>2, <2>2
<1>6. have' = have \cup Closure(Wants)
  BY <1>5 DEF Import, Upload
<1>7. Closure(have') \subseteq have' /\ have' \subseteq Objects
  BY <1>2, <1>4, <1>6 DEF Closure
<1>8. ASSUME NEW n \in Heads PROVE theirs[n] \in have' \cup {Absent}
  <2>1. theirs[n] = Absent \/ theirs[n] \in have \/ theirs[n] \in Wants
    BY <1>2 DEF Wants, Matched, Heads, Ref
  <2> QED
    BY <1>4, <1>6, <2>1
<1>9. CloneShape'
  BY <1>2, <1>7 DEF RemoteInv, CloneShape, Import
<1>10. Complete'
  BY <1>6, <1>7 DEF RemoteInv, Complete, Import, Known, Indices
<1>11. Imported' /\ Noted'
  BY <1>2, <1>8 DEF RemoteInv, Imported, Noted, Import, Known, Heads
<1> QED
  BY <1>1, <1>9, <1>10, <1>11 DEF RemoteInv

LEMMA PruneStep == ASSUME RemoteInv, Prune PROVE RemoteInv'
<1> USE DEF vars, repoVars, requestVars, answerVars
<1>1. PICK S \in SUBSET (IF call.prune THEN Stale ELSE {}) :
        /\ tracking' = [n \in Names |-> IF n \in S THEN Absent ELSE tracking[n]]
        /\ IF call.prune /\ S # Stale THEN Leave
           ELSE /\ doing' = "update"
                /\ todo' = {n \in Heads \cup (IF call.tags = "none" THEN {} ELSE Tags) :
                              theirs[n] # Absent}
                /\ UNCHANGED <<call, theirs, asked, calls, during>>
  BY DEF Prune
<1>2. doing = "prune" /\ UNCHANGED <<vars, own, have>>
  BY DEF Prune
<1>3. tracking' \in [Names -> Ref] /\ \A n \in Names : tracking'[n] \in Known
  BY <1>1 DEF RemoteInv, CloneShape, Complete, Known, Ref
<1>4. CASE Leave
  BY <1>2, <1>3, <1>4, LeaveStep
<1>5. ASSUME doing' = "update", todo' \subseteq Names,
             UNCHANGED <<call, theirs, asked, calls, during>>
      PROVE  RemoteInv'
  <2>1. Inv'
    BY <1>2, Stutter DEF RemoteInv
  <2>2. CloneShape'
    BY <1>2, <1>3, <1>5 DEF RemoteInv, CloneShape
  <2>3. Complete'
    BY <1>2, <1>3, <1>5 DEF RemoteInv, Complete, Known, Indices
  <2>4. Imported' /\ Noted'
    BY <1>2, <1>5 DEF RemoteInv, Imported, Noted, Known, Heads
  <2> QED
    BY <2>1, <2>2, <2>3, <2>4 DEF RemoteInv
<1> QED
  BY <1>1, <1>4, <1>5, TagsAreNames DEF Heads

LEMMA UpdateHeadStep ==
  ASSUME RemoteInv, NEW n \in Names, UpdateHead(n) PROVE RemoteInv'
<1> USE DEF UpdateHead, vars, repoVars, requestVars, answerVars
<1>1. Inv'
  BY Stutter DEF RemoteInv
<1>2. theirs[n] \in Ref /\ theirs[n] \in Known
  BY DEF RemoteInv, CloneShape, Imported
<1>3. CloneShape'
  BY <1>2 DEF RemoteInv, CloneShape
<1>4. Complete'
  BY <1>2 DEF RemoteInv, CloneShape, Complete, Known, Indices
<1>5. Imported' /\ Noted'
  BY DEF RemoteInv, Imported, Noted, Known, Heads
<1> QED
  BY <1>1, <1>3, <1>4, <1>5 DEF RemoteInv

LEMMA UpdateTagStep ==
  ASSUME RemoteInv, NEW n \in Names, UpdateTag(n) PROVE RemoteInv'
<1> USE DEF UpdateTag, vars, repoVars, requestVars, answerVars
<1>1. Inv'
  BY Stutter DEF RemoteInv
<1>2. theirs[n] \in Ref
  BY DEF RemoteInv, CloneShape
<1>3. CloneShape'
  BY <1>2 DEF RemoteInv, CloneShape
<1>4. Complete'
  BY <1>2 DEF RemoteInv, CloneShape, Complete, Known, Indices
<1>5. Imported' /\ Noted'
  BY DEF RemoteInv, Imported, Noted, Known, Heads
<1> QED
  BY <1>1, <1>3, <1>4, <1>5 DEF RemoteInv

\* FetchEnds and PushEnds.
LEMMA EndsStep ==
  ASSUME RemoteInv, Leave, UNCHANGED <<vars, cloneVars>> PROVE RemoteInv'
<1>1. tracking' = tracking /\ UNCHANGED <<vars, own, have>>
  BY DEF cloneVars
<1>2. tracking' \in [Names -> Ref] /\ \A n \in Names : tracking'[n] \in Known
  BY <1>1 DEF RemoteInv, CloneShape, Complete
<1> QED
  BY <1>1, <1>2, LeaveStep

-----------------------------------------------------------------------------
LEMMA PushOpenStep == ASSUME RemoteInv, PushOpen PROVE RemoteInv'
<1> USE DEF PushOpen, cloneVars
<1>1. Inv'
  BY AdvertiseStep DEF RemoteInv
<1>2. /\ step[Client] = "advertise" /\ step'[Client] = "request"
      /\ commands' = commands /\ applied' = applied /\ refs \in [Names -> Ref]
  BY DEF RemoteInv, Inv, Shape, Advertise, Goto, answerVars
<1>3. applied[Client] = {}
  BY <1>2 DEF RemoteInv, Inv, SessionInv, Fresh, Begun
<1>4. call' \in PushCall /\ calls' \in 0..MaxCalls
  BY CallsAssumption DEF RemoteInv, CloneShape
<1>5. CloneShape'
  BY <1>2, <1>4 DEF RemoteInv, CloneShape
<1>6. Complete'
  BY <1>2 DEF RemoteInv, Complete, Known, Indices
<1>7. Imported' /\ Noted'
  BY <1>2, <1>3 DEF Imported, Noted
<1> QED
  BY <1>1, <1>5, <1>6, <1>7 DEF RemoteInv

Change == [name : Names, new : Ref]
KnownChanges == {cs \in Seq(Change) : \A i \in 1..Len(cs) : cs[i].new \in Known}

LEMMA ConcatKnown ==
  ASSUME NEW s \in KnownChanges, NEW t \in KnownChanges PROVE s \o t \in KnownChanges
<1>1. s \in Seq(Change) /\ t \in Seq(Change)
  BY DEF KnownChanges
<1>2. /\ s \o t \in Seq(Change) /\ Len(s \o t) = Len(s) + Len(t)
      /\ \A i \in 1..(Len(s) + Len(t)) :
           (s \o t)[i] = IF i <= Len(s) THEN s[i] ELSE t[i - Len(s)]
  BY <1>1, ConcatProperties
<1>3. Len(s) \in Nat /\ Len(t) \in Nat
  BY <1>1, LenProperties
<1>4. ASSUME NEW i \in 1..Len(s \o t) PROVE (s \o t)[i].new \in Known
  <2>1. CASE i <= Len(s)
    <3>1. i \in 1..Len(s) /\ (s \o t)[i] = s[i]
      BY <1>2, <1>3, <2>1
    <3> QED
      BY <3>1 DEF KnownChanges
  <2>2. CASE i > Len(s)
    <3>1. i - Len(s) \in 1..Len(t) /\ (s \o t)[i] = t[i - Len(s)]
      BY <1>2, <1>3, <2>2
    <3> QED
      BY <3>1 DEF KnownChanges
  <2> QED
    BY <1>2, <1>3, <2>1, <2>2
<1> QED
  BY <1>2, <1>4 DEF KnownChanges

\* What is collected gives a reference the clone's value, or none.
LEMMA ChangesAreKnown ==
  ASSUME RemoteInv, NEW sp \in RefSpec PROVE Changes(sp) \in KnownChanges
<1> DEFINE u == [name |-> sp.name, new |-> own[sp.name]]
           d == Deletion(sp.name)
<1>1. /\ sp.name \in Names /\ own[sp.name] \in Ref /\ own[sp.name] \in Known
  BY DEF RefSpec, RemoteInv, CloneShape, Complete
<1>2. /\ u \in Change /\ u.new \in Known /\ d \in Change /\ d.new \in Known
  BY <1>1 DEF Change, Deletion, Known, Ref
<1>3. ASSUME NEW x \in Change, x.new \in Known PROVE <<x>> \in KnownChanges
  BY <1>3 DEF KnownChanges
<1>4. << >> \in KnownChanges
  BY DEF KnownChanges
<1> DEFINE us == IF Updates(sp) THEN <<u>> ELSE << >>
           ds == IF Deletes(sp) THEN <<d>> ELSE << >>
<1>5. us \in KnownChanges /\ ds \in KnownChanges
  <2> HIDE DEF u, d
  <2> QED
    BY <1>2, <1>3, <1>4
<1>6. Changes(sp) = us \o ds
  BY DEF Changes
<1> HIDE DEF us, ds
<1> QED
  BY <1>5, <1>6, ConcatKnown

LEMMA CollectStep == ASSUME RemoteInv, Collect PROVE RemoteInv'
<1> USE DEF cloneVars, vars, repoVars, requestVars, answerVars
<1>1. Inv'
  BY Stutter DEF RemoteInv, Collect
<1>2. call \in PushCall /\ call.specs \in Seq(RefSpec) /\ call.specs # << >>
  BY DEF RemoteInv, CloneShape, PushCall, Collect
<1>3. Head(call.specs) \in RefSpec /\ Tail(call.specs) \in Seq(RefSpec)
  BY <1>2, HeadTailProperties
<1>4. call' \in PushCall
  BY <1>2, <1>3 DEF PushCall, Collect
<1>5. asked \in KnownChanges
  BY DEF RemoteInv, CloneShape, Complete, KnownChanges, Change
<1>6. asked' \in KnownChanges
  BY <1>3, <1>5, ChangesAreKnown, ConcatKnown DEF Collect
<1>7. asked' \in Seq([name : Names, new : Ref]) /\ \A i \in 1..Len(asked') : asked'[i].new \in Known
  BY <1>6 DEF KnownChanges, Change
<1>8. CloneShape'
  BY <1>4, <1>7 DEF RemoteInv, CloneShape, Collect
<1>9. Complete'
  BY <1>7 DEF RemoteInv, Complete, Known, Indices, Collect
<1>10. Imported' /\ Noted'
  BY DEF RemoteInv, Imported, Noted, Collect
<1> QED
  BY <1>1, <1>8, <1>9, <1>10 DEF RemoteInv

\* The pack of a push has what the advertised references lack.
LEMMA SendStep == ASSUME RemoteInv, Send PROVE RemoteInv'
<1> DEFINE cs == Asked(Client, asked)
           ps == NewOf(cs) \ Closure(Range(seen[Client]) \cap have)
<1>1. doing = "push" /\ Receive(Client, call.atomic, cs, ps)
      /\ UNCHANGED <<cloneVars, callVars, during>>
  BY DEF Send
<1>2. call \in PushCall /\ call.atomic \in BOOLEAN
  BY <1>1 DEF RemoteInv, CloneShape, PushCall
<1>3. /\ cs \in Seq(Command) /\ Len(cs) = Len(asked)
      /\ \A i \in 1..Len(asked) : cs[i].new = asked[i].new
  BY AskedCommands DEF RemoteInv, CloneShape, Inv
<1>4. ps \in SUBSET Objects
  BY <1>3, NewOfObjects
<1>5. Lacking(Client, cs) \subseteq ps
  BY ClosureMonotone DEF Lacking
<1> HIDE DEF cs, ps
<1>6. Inv'
  BY <1>1, <1>2, <1>3, <1>4, <1>5, ReceiveStep DEF RemoteInv
<1>7. /\ commands'[Client] = cs /\ applied' = applied /\ step'[Client] = "unpack"
      /\ applied[Client] = {}
  BY <1>1 DEF Receive, Goto, answerVars, RemoteInv, Inv, Shape, SessionInv, Fresh, Begun
<1>8. CloneShape'
  BY <1>1 DEF RemoteInv, CloneShape, cloneVars, callVars
<1>9. Complete'
  BY <1>1, <1>3, <1>7 DEF RemoteInv, Complete, cloneVars, callVars, Known, Indices
<1>10. Imported' /\ Noted'
  BY <1>1, <1>7 DEF Imported, Noted, callVars
<1> QED
  BY <1>6, <1>8, <1>9, <1>10 DEF RemoteInv

\* What the client makes of an answer without an error: for each branch nothing,
\* or the value a command gave it that was applied.
LEMMA AnsweredTracking ==
  ASSUME RemoteInv, Answered, NEW n \in Names
  PROVE  \/ tracking'[n] = tracking[n]
         \/ \E i \in Indices(Client) :
              /\ i \in applied[Client] /\ commands[Client][i].name = n
              /\ tracking'[n] = commands[Client][i].new
<1>1. PICK k \in 0..Len(commands[Client]) :
        tracking' = [m \in Names |->
            IF m \in Heads /\ Told(k, m) # {} THEN commands[Client][Latest(Told(k, m))].new
            ELSE tracking[m]]
  BY DEF Answered
<1>2. Len(commands[Client]) \in Nat
  BY HereIsCommand DEF RemoteInv, Inv
<1>3. applied[Client] = Indices(Client)
  BY DEF Answered, Finished, RemoteInv, Inv, SessionInv, Reached
<1>4. CASE Told(k, n) # {}
  <2>1. Told(k, n) \subseteq 1..k /\ k \in Nat
    BY <1>2 DEF Told
  <2>2. Latest(Told(k, n)) \in Told(k, n)
    BY <1>4, <2>1, LatestIsOne
  <2>3. /\ Latest(Told(k, n)) \in Indices(Client)
        /\ commands[Client][Latest(Told(k, n))].name = n
    BY <1>2, <2>2 DEF Told, Indices
  <2> QED
    BY <1>1, <1>3, <2>3
<1> QED
  BY <1>1, <1>4

LEMMA AnsweredStep == ASSUME RemoteInv, Answered PROVE RemoteInv'
<1>1. Leave /\ UNCHANGED <<vars, own, have>>
  BY DEF Answered
<1>2. ASSUME NEW n \in Names PROVE tracking'[n] \in Known
  BY AnsweredTracking DEF RemoteInv, Complete
<1>3. Known \subseteq Ref
  BY DEF RemoteInv, CloneShape, Known, Ref
<1>4. tracking' = [n \in Names |-> tracking'[n]]
  BY DEF Answered
<1>5. tracking' \in [Names -> Ref]
  BY <1>2, <1>3, <1>4
<1> QED
  BY <1>1, <1>2, <1>5, LeaveStep

-----------------------------------------------------------------------------
\* What a step of the server leaves alone, and what it adds to applied.
LEMMA ServeEffect ==
  ASSUME Inv, NEW s \in Sessions, Serve(s)
  PROVE  /\ commands' = commands /\ refs' \in [Names -> Ref]
         /\ step[s] # "advertise" => step'[s] # "advertise"
         /\ \A r \in Sessions \ {s} : step'[r] = step[r]
         /\ \A r \in Sessions : \A i \in applied'[r] :
              \/ i \in applied[r]
              \/ i \in Indices(r) /\ refs'[commands[r][i].name] = commands[r][i].new
<1> USE DEF Inv, Shape, Goto, repoVars, requestVars, answerVars
<1>1. CASE Write(s)
  <2>1. Here(s) \in Command /\ at[s] \in Indices(s)
    BY <1>1, HereIsCommand DEF Write, SessionInv, Counted
  <2>2. refs'[Here(s).name] = Here(s).new /\ refs' \in [Names -> Ref]
    BY <1>1, <2>1 DEF Write, Command
  <2>3. \A r \in Sessions : applied'[r] = IF r = s THEN applied[s] \cup {at[s]} ELSE applied[r]
    BY <1>1 DEF Write
  <2> QED
    BY <1>1, <2>1, <2>2, <2>3 DEF Write, Here
<1>2. CASE ~Write(s)
  <2>1. commands' = commands /\ refs' = refs /\ applied' = applied
    BY <1>2 DEF Serve, Advertise, Unpack, UnpackFails, Unpacked, Validate, Validated,
                Check, StorerFails, Report, Raise
  <2>2. step[s] # "advertise" => step'[s] # "advertise"
    BY <1>2 DEF Serve, Advertise, Unpack, UnpackFails, Unpacked, Validate, Validated,
                Check, StorerFails, Report, Raise
  <2>3. \A r \in Sessions \ {s} : step'[r] = step[r]
    BY <1>2 DEF Serve, Advertise, Unpack, UnpackFails, Unpacked, Validate, Validated,
                Check, StorerFails, Report, Raise
  <2> QED
    BY <2>1, <2>2, <2>3
<1> QED
  BY <1>1, <1>2

\* A step of the server or of somebody else, which the history of the call notes.
LEMMA WatchStep ==
  ASSUME RemoteInv, Inv', Watch, refs' \in [Names -> Ref],
         commands'[Client] = commands[Client],
         step[Client] # "advertise" => step'[Client] # "advertise",
         \A i \in applied'[Client] :
            \/ i \in applied[Client]
            \/ /\ i \in Indices(Client)
               /\ refs'[commands[Client][i].name] = commands[Client][i].new
  PROVE  RemoteInv'
<1> USE DEF Watch, cloneVars, callVars
<1>1. \A n \in Names : during[n] \subseteq during'[n]
                       /\ (doing # "idle" => refs'[n] \in during'[n])
  BY DEF RemoteInv, CloneShape
<1>2. CloneShape'
  BY DEF RemoteInv, CloneShape
<1>3. Complete'
  BY DEF RemoteInv, Complete, Known, Indices
<1>4. Imported'
  BY DEF RemoteInv, Imported, Known, Heads
<1>5. \A i \in Indices(Client) : commands[Client][i].name \in Names
  BY HereIsCommand DEF RemoteInv, Inv, Command
<1>6. applied[Client] \subseteq Indices(Client)
  BY DEF RemoteInv, Inv, SessionInv, Counted
<1>7. Noted'
  BY <1>1, <1>5, <1>6 DEF RemoteInv, Noted
<1> QED
  BY <1>2, <1>3, <1>4, <1>7 DEF RemoteInv

LEMMA ServerStep ==
  ASSUME RemoteInv, NEW s \in Sessions, Serve(s), Watch,
         s = Client => step[Client] # "advertise"
  PROVE  RemoteInv'
<1>1. Inv'
  BY ServeInv DEF RemoteInv
<1>2. step[Client] # "advertise" => step'[Client] # "advertise"
  BY ServeEffect DEF RemoteInv
<1> QED
  BY <1>1, <1>2, ServeEffect, WatchStep DEF RemoteInv

LEMMA OthersRequest ==
  ASSUME RemoteInv, NEW s \in Sessions \ {Client}, Request(s), Watch PROVE RemoteInv'
<1>1. Inv'
  BY RequestStep DEF RemoteInv
<1>2. /\ refs' = refs /\ commands'[Client] = commands[Client]
      /\ step'[Client] = step[Client] /\ applied' = applied
  BY DEF Request, Receive, Goto, repoVars, answerVars, RemoteInv, Inv, Shape
<1>3. refs \in [Names -> Ref]
  BY DEF RemoteInv, Inv, Shape
<1> QED
  BY <1>1, <1>2, <1>3, WatchStep

-----------------------------------------------------------------------------
LEMMA RemoteInitInv == RemoteInit => RemoteInv
<1> SUFFICES ASSUME RemoteInit PROVE RemoteInv
  OBVIOUS
<1>1. Inv
  BY InitInv DEF RemoteInit
<1>2. PICK c \in Starts : own = c.own /\ tracking = c.tracking /\ have = c.have
  BY DEF RemoteInit
<1>3. /\ own \in [Names -> Ref] /\ tracking \in [Names -> Ref] /\ have \subseteq Objects
      /\ Closure(have) \subseteq have
      /\ Range(own) \cup Range(tracking) \subseteq have \cup {Absent}
  BY <1>2, StartsAssumption
<1>4. asked = << >> /\ asked \in Seq([name : Names, new : Ref]) /\ Len(asked) = 0
  BY DEF RemoteInit
<1>5. commands[Client] = << >> /\ Len(commands[Client]) = 0
  BY DEF RemoteInit, Init
<1>6. CloneShape
  BY <1>3, <1>4, CallsAssumption DEF RemoteInit, CloneShape, Nowhere, Ref
<1>7. Complete
  BY <1>3, <1>4, <1>5 DEF Complete, Known, Range, Indices
<1>8. Imported /\ Noted
  BY DEF RemoteInit, Imported, Noted
<1> QED
  BY <1>1, <1>6, <1>7, <1>8 DEF RemoteInv

LEMMA RemoteNextInv == RemoteInv /\ [RemoteNext]_remoteVars => RemoteInv'
<1> SUFFICES ASSUME RemoteInv, [RemoteNext]_remoteVars PROVE RemoteInv'
  OBVIOUS
<1>1. CASE FetchOpen \/ Import \/ Prune
  BY <1>1, FetchOpenStep, ImportStep, PruneStep
<1>2. CASE FetchEnds \/ PushEnds
  BY <1>2, EndsStep DEF FetchEnds, PushEnds
<1>3. ASSUME NEW n \in Names, UpdateHead(n) \/ UpdateTag(n) PROVE RemoteInv'
  BY <1>3, UpdateHeadStep, UpdateTagStep
<1>4. CASE PushOpen \/ Collect \/ Send \/ Answered
  BY <1>4, PushOpenStep, CollectStep, SendStep, AnsweredStep
<1>5. CASE step[Client] # "advertise" /\ Serve(Client) /\ Watch
  BY <1>5, ServerStep
<1>6. ASSUME NEW s \in Sessions \ {Client}, Request(s) \/ Serve(s), Watch PROVE RemoteInv'
  BY <1>6, ServerStep, OthersRequest
<1>7. CASE UNCHANGED remoteVars
  <2>1. Inv'
    BY <1>7, Stutter DEF RemoteInv, remoteVars
  <2> QED
    BY <1>7, <2>1 DEF RemoteInv, CloneShape, Complete, Imported, Noted, Known, Indices, Heads,
                      remoteVars, cloneVars, callVars, vars, repoVars, requestVars, answerVars
<1> QED
  BY <1>1, <1>2, <1>3, <1>4, <1>5, <1>6, <1>7 DEF RemoteNext

LEMMA RemoteInvariance == RemoteSpec => []RemoteInv
  BY RemoteInitInv, RemoteNextInv, PTL DEF RemoteSpec

\* The state of the server and of the clone stays well-formed, however many calls
\* the clone makes.
THEOREM RemoteTyped == RemoteSpec => []CloneTypeOK
<1>1. RemoteInv => CloneTypeOK
  BY ShapeCounted DEF RemoteInv, CloneShape, Inv, SessionInv, CloneTypeOK
<1> QED
  BY <1>1, RemoteInvariance, PTL

\* The clone has the whole history of each of its references, for any history and
\* wherever its fetches stop.
THEOREM CloneNeverLacks == RemoteSpec => []CloneComplete
<1>1. RemoteInv => CloneComplete
  <2> SUFFICES ASSUME RemoteInv PROVE CloneComplete
    OBVIOUS
  <2>1. Range(own) \cup Range(tracking) \subseteq Known
    BY DEF RemoteInv, CloneShape, Complete, Range
  <2>2. Closure(Range(own) \cup Range(tracking)) \subseteq Closure(have)
    BY <2>1 DEF Closure, Known
  <2> QED
    BY <2>2 DEF RemoteInv, Complete, CloneComplete
<1> QED
  BY <1>1, RemoteInvariance, PTL

\* A tracking reference only becomes what the remote's reference was while the call
\* ran, however many sessions push meanwhile.
THEOREM TrackingIsTrue == RemoteSpec => TrackingFollows
<1>1. ASSUME RemoteInv, [RemoteNext]_remoteVars, NEW n \in Names, tracking'[n] # tracking[n]
      PROVE  tracking'[n] \in during[n] \/ (doing = "prune" /\ call.plus /\ tracking'[n] = Absent)
  <2>1. CASE Prune
    BY <1>1, <2>1 DEF Prune, Stale, RemoteInv, Noted
  <2>2. ASSUME NEW m \in Names, UpdateHead(m) PROVE tracking'[n] \in during[n]
    <3>1. tracking'[n] = theirs[n] /\ doing = "update"
      BY <1>1, <2>2 DEF UpdateHead, RemoteInv, CloneShape
    <3> QED
      BY <1>1, <3>1 DEF RemoteInv, Noted
  <2>3. CASE Answered
    <3>1. PICK i \in Indices(Client) :
            /\ i \in applied[Client] /\ commands[Client][i].name = n
            /\ tracking'[n] = commands[Client][i].new
      BY <1>1, <2>3, AnsweredTracking
    <3> QED
      BY <1>1, <2>3, <3>1 DEF Answered, RemoteInv, Noted
  <2>4. CASE tracking' = tracking
    BY <1>1, <2>4
  <2> QED
    BY <1>1, <2>1, <2>2, <2>3, <2>4
       DEF RemoteNext, FetchOpen, Import, FetchEnds, UpdateTag, PushOpen, Collect, Send,
           PushEnds, Watch, cloneVars, remoteVars
<1>2. RemoteInv /\ [RemoteNext]_remoteVars =>
        [\A n \in Names : tracking'[n] # tracking[n] =>
            \/ tracking'[n] \in during[n]
            \/ doing = "prune" /\ call.plus /\ tracking'[n] = Absent]_remoteVars
  BY <1>1
<1> QED
  BY <1>2, RemoteInvariance, PTL DEF RemoteSpec, TrackingFollows

\* The repository keeps whole histories when clones push as the remote code does:
\* a pack leaves out only what a reference the server advertised needs.
THEOREM PushesAreWhole == RemoteSpec => []RefsHaveObjects
<1>1. RemoteInv => RefsHaveObjects
  BY DEF RemoteInv, Inv
<1> QED
  BY <1>1, RemoteInvariance, PTL

\* What the report tells a clone that pushes is so: a command is in force if it
\* was answered ok and nobody wrote the reference since, no error means that every
\* command was applied, and an atomic push is whole unless somebody interferes.
THEOREM ReportsAreTrue ==
  RemoteSpec => [](OkMeansInForce /\ CleanAnswer /\ AtomicUnlessDisturbed)
<1>1. RemoteInv => OkMeansInForce /\ CleanAnswer /\ AtomicUnlessDisturbed
  BY OkInForce, NoErrorAllApplied, AtomicWhole DEF RemoteInv
<1> QED
  BY <1>1, RemoteInvariance, PTL
=============================================================================

-------------------------- MODULE ReceivePack_proofs --------------------------
(***************************************************************************)
(* Proofs about the receive-pack server, for any number of sessions, any   *)
(* names, objects and pushes.                                              *)
(***************************************************************************)
EXTENDS ReceivePack, SequenceTheorems, FiniteSetTheorems, TLAPS

Begun == {"advertise", "request", "unpack"}
Applying == {"check", "write"}

\* The two halves of TypeOK: types, and what it says of each session.
Shape ==
    /\ objects \subseteq Objects
    /\ refs \in [Names -> Ref]
    /\ writer \in [Names -> Sessions \cup {Absent}]
    /\ step \in [Sessions -> Steps]
    /\ seen \in [Sessions -> [Names -> Ref]]
    /\ atomic \in [Sessions -> BOOLEAN]
    /\ commands \in [Sessions -> Seq(Command)]
    /\ pack \in [Sessions -> SUBSET Objects]
    /\ at \in [Sessions -> Nat \ {0}]
    /\ illegal \in [Sessions -> BOOLEAN]
    /\ status \in [Sessions -> [Names -> {"none", "ok", "error"}]]
    /\ err \in [Sessions -> BOOLEAN]
    /\ applied \in [Sessions -> SUBSET Nat]
    /\ disturbed \in [Sessions -> BOOLEAN]
Counted(s) ==
    /\ applied[s] \subseteq Indices(s)
    /\ step[s] = "write" => ~AtEnd(s)
    /\ step[s] = "done" /\ pack[s] = {} => \A n \in Named(s) : status[s][n] # "none"
    /\ \A n \in Names \ Named(s) : status[s][n] = "none"

\* Before the commands are applied nothing is answered.
Fresh(s) ==
    /\ step[s] \in Begun \cup {"validate"} =>
         applied[s] = {} /\ ~err[s] /\ \A n \in Names : status[s][n] = "none"
    /\ step[s] \in Begun => at[s] = 1

\* How far the commands have been applied, and what has been answered.
Reached(s) ==
    /\ step[s] \in Applying =>
         /\ at[s] <= Len(commands[s]) + 1
         /\ \A i \in Indices(s) : i < at[s] => status[s][commands[s][i].name] # "none"
         /\ applied[s] \subseteq 1..(at[s] - 1)
         /\ ~err[s] => applied[s] = 1..(at[s] - 1)
    /\ step[s] = "done" /\ ~err[s] => applied[s] = Indices(s)

\* What a command needs is in the repository or in what is left of the pack.
Supplied(s) ==
    /\ Closure(Range(seen[s])) \subseteq objects
    /\ step[s] = "unpack" => NewOf(commands[s]) \subseteq objects \cup pack[s]
    /\ step[s] \in Applying \cup {"validate"} => NewOf(commands[s]) \subseteq objects

\* Command i is the last one for n before command k.
LastBefore(s, n, k, i) ==
    /\ i < k /\ commands[s][i].name = n
    /\ \A j \in Indices(s) : j < k /\ commands[s][j].name = n => j <= i
InForce(s, k) ==
    \A n \in Names : status[s][n] = "ok" =>
        \E i \in Indices(s) :
            /\ LastBefore(s, n, k, i) /\ i \in applied[s]
            /\ writer[n] = s => refs[n] = commands[s][i].new
Kept(s) ==
    /\ step[s] \in Applying => InForce(s, at[s])
    /\ step[s] = "done" => InForce(s, Len(commands[s]) + 1)

\* What the validation found legal is so until its turn, if nobody interferes.
Whole(s) ==
    atomic[s] /\ ~disturbed[s] /\ ~Repeats(s) =>
        /\ step[s] = "validate" /\ ~illegal[s] =>
             \A i \in Indices(s) : i < at[s] => Legal(commands[s][i])
        /\ step[s] \in Applying =>
             /\ applied[s] = 1..(at[s] - 1)
             /\ \A i \in Indices(s) : i >= at[s] => Legal(commands[s][i])
        /\ step[s] = "done" => applied[s] \in {{}, Indices(s)}

SessionInv(s) ==
    Counted(s) /\ Fresh(s) /\ Reached(s) /\ Supplied(s) /\ Kept(s) /\ Whole(s)
Inv == Shape /\ RefsHaveObjects /\ \A s \in Sessions : SessionInv(s)

USE AbsentAssumption

-----------------------------------------------------------------------------
LEMMA ShapeCounted == Shape /\ (\A s \in Sessions : Counted(s)) => TypeOK
  BY DEF Shape, Counted, TypeOK

\* The next command is one.
LEMMA HereIsCommand ==
  ASSUME Shape, NEW s \in Sessions
  PROVE  /\ Len(commands[s]) \in Nat
         /\ \A i \in Indices(s) : commands[s][i] \in Command
         /\ ~AtEnd(s) => at[s] \in Indices(s) /\ Here(s) \in Command
         /\ Named(s) \subseteq Names
<1>1. commands[s] \in Seq(Command) /\ at[s] \in Nat \ {0}
  BY DEF Shape
<1>2. Len(commands[s]) \in Nat /\ commands[s] \in [1..Len(commands[s]) -> Command]
  BY <1>1, LenProperties
<1>3. \A i \in Indices(s) : commands[s][i] \in Command
  BY <1>2 DEF Indices
<1>4. ~AtEnd(s) => at[s] \in Indices(s)
  BY <1>1, <1>2 DEF AtEnd, Indices
<1> QED
  BY <1>2, <1>3, <1>4 DEF Here, Named, Command

\* A request that repeats no name names a different reference in each command.
LEMMA DistinctNames ==
  ASSUME Shape, NEW s \in Sessions, ~Repeats(s),
         NEW i \in Indices(s), NEW j \in Indices(s), commands[s][i].name = commands[s][j].name
  PROVE  i = j
<1> DEFINE f == [k \in Indices(s) |-> commands[s][k].name]
<1>1. Len(commands[s]) \in Nat
  BY HereIsCommand
<1>2. IsFiniteSet(Indices(s)) /\ Cardinality(Indices(s)) = Len(commands[s])
  <2>1. 1 \in Int /\ Len(commands[s]) \in Int
    BY <1>1
  <2>2. IsFiniteSet(1..Len(commands[s]))
    BY <2>1, FS_Interval
  <2>3. Cardinality(1..Len(commands[s]))
          = IF 1 > Len(commands[s]) THEN 0 ELSE Len(commands[s]) - 1 + 1
    BY <2>1, FS_Interval
  <2> QED
    BY <1>1, <2>2, <2>3 DEF Indices
<1>3. f \in Surjection(Indices(s), Named(s))
  BY DEF Surjection, Named
<1>4. Cardinality(Named(s)) = Cardinality(Indices(s))
  BY <1>2 DEF Repeats
<1>5. f \in Injection(Indices(s), Named(s))
  BY <1>2, <1>3, <1>4, FS_Surjection
<1>6. f[i] = f[j] => i = j
  BY <1>5 DEF Injection, IsInjective
<1> QED
  BY <1>6

-----------------------------------------------------------------------------
\* A step of another session leaves session r what it is.
Same(r) ==
    /\ step'[r] = step[r] /\ seen'[r] = seen[r] /\ atomic'[r] = atomic[r]
    /\ commands'[r] = commands[r] /\ pack'[r] = pack[r] /\ at'[r] = at[r]
    /\ illegal'[r] = illegal[r] /\ status'[r] = status[r] /\ err'[r] = err[r]
    /\ applied'[r] = applied[r]

\* It writes no reference that r names without r being disturbed.
Respects(r) ==
    /\ objects \subseteq objects'
    /\ disturbed[r] => disturbed'[r]
    /\ \A n \in Names :
         \/ refs'[n] = refs[n] /\ writer'[n] = writer[n]
         \/ writer'[n] # r /\ (n \in Named(r) => disturbed'[r])

LEMMA OtherSession ==
  ASSUME Shape, NEW r \in Sessions, SessionInv(r), Same(r), Respects(r)
  PROVE  SessionInv(r)'
<1>1. Indices(r)' = Indices(r) /\ Named(r)' = Named(r) /\ AtEnd(r)' = AtEnd(r)
      /\ Repeats(r)' = Repeats(r)
  BY DEF Same, Indices, Named, AtEnd, Repeats
<1>2. Counted(r)'
  BY <1>1 DEF SessionInv, Counted, Same
<1>3. Fresh(r)'
  BY DEF SessionInv, Fresh, Same
<1>4. Reached(r)'
  BY <1>1 DEF SessionInv, Reached, Same
<1>5. Supplied(r)'
  BY <1>1 DEF SessionInv, Supplied, Same, Respects
<1>6. \A k : InForce(r, k) => InForce(r, k)'
  BY <1>1 DEF InForce, LastBefore, Same, Respects
<1>7. Kept(r)'
  BY <1>6 DEF SessionInv, Kept, Same
<1>8. ASSUME atomic[r], ~disturbed'[r], NEW i \in Indices(r), Legal(commands[r][i])
      PROVE  Legal(commands[r][i])'
  <2>1. commands[r][i].name \in Named(r) /\ commands[r][i].name \in Names
    BY HereIsCommand DEF Named, Command
  <2> QED
    BY <1>8, <2>1 DEF Legal, Action, Same, Respects
<1>9. Whole(r)'
  BY <1>1, <1>8 DEF SessionInv, Whole, Same, Respects
<1> QED
  BY <1>2, <1>3, <1>4, <1>5, <1>7, <1>9 DEF SessionInv

\* What a step of session s must show.
LEMMA StepOf ==
  ASSUME Inv, NEW s \in Sessions, Shape', RefsHaveObjects', SessionInv(s)',
         \A r \in Sessions \ {s} : Same(r) /\ Respects(r)
  PROVE  Inv'
<1>1. \A r \in Sessions : SessionInv(r)'
  BY OtherSession DEF Inv
<1> QED
  BY <1>1 DEF Inv

-----------------------------------------------------------------------------
LEMMA AdvertiseStep ==
  ASSUME Inv, NEW s \in Sessions, Advertise(s) PROVE Inv'
<1> USE DEF Advertise, Goto, repoVars, answerVars
<1>1. Shape'
  BY DEF Inv, Shape, Steps
<1>2. RefsHaveObjects'
  BY DEF Inv, RefsHaveObjects
<1>3. \A r \in Sessions \ {s} : Same(r) /\ Respects(r)
  BY DEF Inv, Shape, Same, Respects
<1>4. step[s] = "advertise" /\ step'[s] = "request" /\ seen'[s] = refs
  BY DEF Inv, Shape
<1>5. Indices(s)' = Indices(s) /\ Named(s)' = Named(s)
  BY DEF Indices, Named
<1>6. Counted(s)'
  BY <1>4, <1>5 DEF Inv, SessionInv, Counted
<1>7. Fresh(s)'
  BY <1>4 DEF Inv, SessionInv, Fresh, Begun
<1>8. Supplied(s)'
  BY <1>2, <1>4, <1>5 DEF Supplied, RefsHaveObjects, Applying
<1>9. Reached(s)' /\ Kept(s)' /\ Whole(s)'
  BY <1>4 DEF Reached, Kept, Whole, Applying
<1>10. SessionInv(s)'
  BY <1>6, <1>7, <1>8, <1>9 DEF SessionInv
<1> QED
  BY <1>1, <1>2, <1>3, <1>10, StepOf

\* What a request needs and a client must send is made of objects.
LEMMA NewOfObjects ==
  ASSUME NEW cs \in Seq(Command) PROVE NewOf(cs) \subseteq Objects
<1>1. cs \in [1..Len(cs) -> Command]
  BY LenProperties
<1>2. \A i \in 1..Len(cs) : cs[i].new \in Ref
  BY <1>1 DEF Command
<1> QED
  BY <1>2, ReachAssumption DEF NewOf, Closure, Ref

\* The server takes any request whose pack has what the advertised references lack.
LEMMA ReceiveStep ==
  ASSUME Inv, NEW s \in Sessions, NEW all \in BOOLEAN, NEW cs \in Seq(Command),
         NEW ps \in SUBSET Objects, Lacking(s, cs) \subseteq ps, Receive(s, all, cs, ps)
  PROVE  Inv'
<1> USE DEF Receive, Goto, repoVars, answerVars
<1>1. /\ step[s] = "request" /\ step'[s] = "unpack"
      /\ commands'[s] = cs /\ atomic'[s] = all /\ pack'[s] = ps
  BY DEF Inv, Shape
<1>2. Shape'
  BY DEF Inv, Shape, Steps
<1>3. RefsHaveObjects'
  BY DEF Inv, RefsHaveObjects
<1>4. \A r \in Sessions \ {s} : Same(r) /\ Respects(r)
  BY DEF Inv, Shape, Same, Respects
<1>5. Fresh(s)'
  BY <1>1 DEF Inv, SessionInv, Fresh, Begun
<1>6. Counted(s)'
  BY <1>1, <1>5 DEF Inv, SessionInv, Counted, Fresh, Begun, Named, Indices
<1>7. Supplied(s)'
  <2>1. Closure(Range(seen[s])) \subseteq objects
    BY DEF Inv, SessionInv, Supplied
  <2>2. NewOf(cs) \subseteq objects \cup ps
    BY <2>1 DEF Lacking
  <2> QED
    BY <1>1, <2>1, <2>2 DEF Supplied, Applying
<1>8. Reached(s)' /\ Kept(s)' /\ Whole(s)'
  BY <1>1 DEF Reached, Kept, Whole, Applying
<1>9. SessionInv(s)'
  BY <1>5, <1>6, <1>7, <1>8 DEF SessionInv
<1> QED
  BY <1>2, <1>3, <1>4, <1>9, StepOf

\* The changes a client wants, with the old values it was told, are commands.
LEMMA AskedCommands ==
  ASSUME Shape, NEW s \in Sessions, NEW changes \in Seq([name : Names, new : Ref])
  PROVE  /\ Asked(s, changes) \in Seq(Command) /\ Len(Asked(s, changes)) = Len(changes)
         /\ \A i \in 1..Len(changes) :
              Asked(s, changes)[i].name = changes[i].name
              /\ Asked(s, changes)[i].new = changes[i].new
<1> DEFINE cs == Asked(s, changes)
<1>1. /\ Len(changes) \in Nat
      /\ \A i \in 1..Len(changes) : changes[i].name \in Names /\ changes[i].new \in Ref
  <2>1. /\ Len(changes) \in Nat
        /\ changes \in [1..Len(changes) -> [name : Names, new : Ref]]
    BY LenProperties
  <2> QED
    BY <2>1
<1>2. seen[s] \in [Names -> Ref]
  BY DEF Shape
<1>3. cs \in [1..Len(changes) -> Command]
  BY <1>1, <1>2 DEF Command, Asked
<1>4. \A i \in 1..Len(changes) : cs[i].name = changes[i].name /\ cs[i].new = changes[i].new
  BY DEF Asked
<1> HIDE DEF cs
<1>5. cs \in Seq(Command)
  BY <1>1, <1>3, SeqDef
<1>6. Len(cs) \in Nat /\ 1..Len(cs) = 1..Len(changes)
  BY <1>3, <1>5, LenProperties
<1>7. Len(cs) = Len(changes)
  BY <1>1, <1>6
<1> QED
  BY <1>4, <1>5, <1>7 DEF cs

LEMMA RequestStep ==
  ASSUME Inv, NEW s \in Sessions, Request(s) PROVE Inv'
<1>0. PICK p \in Pushes :
        \E ps \in SUBSET NewOf(Asked(s, p.changes)) :
            /\ Lacking(s, Asked(s, p.changes)) \subseteq ps
            /\ Receive(s, p.atomic, Asked(s, p.changes), ps)
  BY DEF Request
<1>1. PICK ps \in SUBSET NewOf(Asked(s, p.changes)) :
        /\ Lacking(s, Asked(s, p.changes)) \subseteq ps
        /\ Receive(s, p.atomic, Asked(s, p.changes), ps)
  BY <1>0
<1>2. p.atomic \in BOOLEAN /\ p.changes \in Seq([name : Names, new : Ref])
  BY PushesAssumption DEF Ref
<1>3. Asked(s, p.changes) \in Seq(Command)
  BY <1>2, AskedCommands DEF Inv
<1>4. ps \in SUBSET Objects
  BY <1>3, NewOfObjects
<1> QED
  BY <1>1, <1>2, <1>3, <1>4, ReceiveStep

LEMMA UnpackStep ==
  ASSUME Inv, NEW s \in Sessions, NEW o \in Objects, Unpack(s, o) PROVE Inv'
<1> USE DEF Unpack, requestVars, answerVars
<1>1. Shape'
  BY DEF Inv, Shape
<1>2. RefsHaveObjects'
  BY DEF Inv, RefsHaveObjects
<1>3. \A r \in Sessions \ {s} : Same(r) /\ Respects(r)
  BY DEF Inv, Shape, Same, Respects
<1>4. step[s] = "unpack" /\ pack'[s] = pack[s] \ {o}
  BY DEF Inv, Shape
<1>5. Indices(s)' = Indices(s) /\ Named(s)' = Named(s)
  BY DEF Indices, Named
<1>6. Counted(s)'
  BY <1>4, <1>5 DEF Inv, SessionInv, Counted
<1>7. Fresh(s)'
  BY DEF Inv, SessionInv, Fresh
<1>8. Supplied(s)'
  BY <1>4, <1>5 DEF Inv, SessionInv, Supplied, Applying
<1>9. Reached(s)' /\ Kept(s)' /\ Whole(s)'
  BY <1>4 DEF Reached, Kept, Whole, Applying
<1>10. SessionInv(s)'
  BY <1>6, <1>7, <1>8, <1>9 DEF SessionInv
<1> QED
  BY <1>1, <1>2, <1>3, <1>10, StepOf

\* The import of the pack fails: no command was applied.
LEMMA UnpackFailsStep ==
  ASSUME Inv, NEW s \in Sessions, UnpackFails(s) PROVE Inv'
<1> USE DEF Goto, repoVars, requestVars
<1>1. /\ step[s] = "unpack" /\ step'[s] = "done" /\ pack[s] # {} /\ err'[s]
      /\ disturbed'[s] /\ pack' = pack /\ applied' = applied
      /\ commands' = commands /\ seen' = seen /\ objects' = objects /\ at' = at
  BY DEF Inv, Shape, UnpackFails, FailAll
<1>2. Shape'
  <2>1. status' \in [Sessions -> [Names -> {"none", "ok", "error"}]]
    <3>1. CASE atomic[s]
      <4> DEFINE failed == [n \in Names |-> IF n \in Named(s) THEN "error" ELSE status[s][n]]
      <4>1. failed \in [Names -> {"none", "ok", "error"}]
        BY DEF Inv, Shape
      <4>2. status' = [status EXCEPT ![s] = failed]
        BY <3>1 DEF UnpackFails, FailAll
      <4> HIDE DEF failed
      <4> QED
        BY <4>1, <4>2 DEF Inv, Shape
    <3>2. CASE ~atomic[s]
      BY <3>2 DEF Inv, Shape, UnpackFails
    <3> QED
      BY <3>1, <3>2
  <2>2. err' \in [Sessions -> BOOLEAN] /\ disturbed' \in [Sessions -> BOOLEAN]
    BY DEF Inv, Shape, UnpackFails, FailAll
  <2> QED
    BY <1>1, <2>1, <2>2 DEF Inv, Shape, Steps, UnpackFails
<1>3. RefsHaveObjects'
  BY DEF Inv, RefsHaveObjects, UnpackFails
<1>4. \A r \in Sessions \ {s} : Same(r) /\ Respects(r)
  BY DEF Inv, Shape, Same, Respects, UnpackFails, FailAll
<1>5. Indices(s)' = Indices(s) /\ Named(s)' = Named(s)
  BY <1>1 DEF Indices, Named
<1>6. applied[s] = {} /\ \A n \in Names : status[s][n] = "none"
  BY <1>1 DEF Inv, SessionInv, Fresh, Begun
<1>7. \A n \in Names : /\ status'[s][n] \in {"none", "error"}
                       /\ n \notin Named(s) => status'[s][n] = "none"
  BY <1>6 DEF Inv, Shape, UnpackFails, FailAll
<1>8. Counted(s)'
  BY <1>1, <1>5, <1>7 DEF Inv, SessionInv, Counted
<1>9. Fresh(s)' /\ Reached(s)' /\ Whole(s)'
  BY <1>1 DEF Fresh, Reached, Whole, Begun, Applying
<1>10. Kept(s)'
  BY <1>1, <1>7 DEF Kept, InForce, Applying
<1>11. Supplied(s)'
  BY <1>1 DEF Inv, SessionInv, Supplied, Applying
<1>12. SessionInv(s)'
  BY <1>8, <1>9, <1>10, <1>11 DEF SessionInv
<1> QED
  BY <1>2, <1>3, <1>4, <1>12, StepOf

LEMMA UnpackedStep ==
  ASSUME Inv, NEW s \in Sessions, Unpacked(s) PROVE Inv'
<1> USE DEF Unpacked, Goto, repoVars, requestVars, answerVars
<1>1. Shape'
  BY DEF Inv, Shape, Steps
<1>2. RefsHaveObjects'
  BY DEF Inv, RefsHaveObjects
<1>3. \A r \in Sessions \ {s} : Same(r) /\ Respects(r)
  BY DEF Inv, Shape, Same, Respects
<1>4. /\ step[s] = "unpack" /\ step'[s] \in {"validate", "check"}
      /\ step'[s] = "check" => ~atomic[s]
  BY DEF Inv, Shape
<1>5. Indices(s)' = Indices(s) /\ Named(s)' = Named(s)
  BY DEF Indices, Named
<1>6. at[s] = 1 /\ applied[s] = {} /\ ~err[s] /\ \A n \in Names : status[s][n] = "none"
  BY <1>4 DEF Inv, SessionInv, Fresh, Begun
<1>7. Len(commands[s]) \in Nat
  BY HereIsCommand DEF Inv
<1>8. Counted(s)'
  BY <1>4, <1>5 DEF Inv, SessionInv, Counted
<1>9. Fresh(s)'
  BY <1>4, <1>6 DEF Fresh, Begun
<1>10. Reached(s)'
  BY <1>4, <1>5, <1>6, <1>7 DEF Reached, Applying, Indices
<1>11. Supplied(s)'
  BY <1>4, <1>5 DEF Inv, SessionInv, Supplied
<1>12. Kept(s)'
  BY <1>4, <1>6 DEF Kept, InForce
<1>13. Whole(s)'
  BY <1>4, <1>6 DEF Whole, Applying, Indices
<1>14. SessionInv(s)'
  BY <1>8, <1>9, <1>10, <1>11, <1>12, <1>13 DEF SessionInv
<1> QED
  BY <1>1, <1>2, <1>3, <1>14, StepOf
-----------------------------------------------------------------------------
LEMMA ValidateStep ==
  ASSUME Inv, NEW s \in Sessions, Validate(s) PROVE Inv'
<1> USE DEF Validate, Advance, repoVars, requestVars, answerVars
<1>1. Legal(Here(s)) \in BOOLEAN
  BY DEF Legal
<1>2. Shape'
  BY <1>1 DEF Inv, Shape
<1>3. RefsHaveObjects'
  BY DEF Inv, RefsHaveObjects
<1>4. \A r \in Sessions \ {s} : Same(r) /\ Respects(r)
  BY DEF Inv, Shape, Same, Respects
<1>5. /\ step[s] = "validate" /\ at[s] \in Nat /\ at'[s] = at[s] + 1
      /\ illegal'[s] = (illegal[s] \/ ~Legal(Here(s)))
  BY DEF Inv, Shape
<1>6. Indices(s)' = Indices(s) /\ Named(s)' = Named(s) /\ Repeats(s)' = Repeats(s)
  BY DEF Indices, Named, Repeats
<1>7. \A c : Legal(c)' = Legal(c)
  BY DEF Legal, Action
<1>8. Len(commands[s]) \in Nat
  BY HereIsCommand DEF Inv
<1>9. Counted(s)'
  BY <1>5, <1>6 DEF Inv, SessionInv, Counted
<1>10. Fresh(s)'
  BY <1>5 DEF Inv, SessionInv, Fresh, Begun
<1>11. Supplied(s)'
  BY <1>5, <1>6 DEF Inv, SessionInv, Supplied
<1>12. Reached(s)' /\ Kept(s)'
  BY <1>5 DEF Reached, Kept, Applying
<1>13. Whole(s)'
  <2> SUFFICES ASSUME atomic[s], ~disturbed[s], ~Repeats(s), ~illegal'[s],
                      NEW i \in Indices(s), i < at[s] + 1
               PROVE  Legal(commands[s][i])
    BY <1>5, <1>6, <1>7 DEF Whole, Applying
  <2>1. CASE i < at[s]
    BY <1>5, <2>1 DEF Inv, SessionInv, Whole
  <2>2. CASE i = at[s]
    BY <1>5, <2>2 DEF Here
  <2> QED
    BY <1>5, <1>8, <2>1, <2>2 DEF Indices
<1>14. SessionInv(s)'
  BY <1>9, <1>10, <1>11, <1>12, <1>13 DEF SessionInv
<1> QED
  BY <1>2, <1>3, <1>4, <1>14, StepOf

LEMMA ValidatedStep ==
  ASSUME Inv, NEW s \in Sessions, Validated(s) PROVE Inv'
<1> USE DEF Goto, repoVars, requestVars
<1>1. /\ step[s] = "validate" /\ pack' = pack /\ applied' = applied /\ disturbed' = disturbed
      /\ commands' = commands /\ seen' = seen /\ objects' = objects /\ refs' = refs
      /\ atomic' = atomic /\ writer' = writer /\ illegal' = illegal
  BY DEF Validated
<1>2. applied[s] = {} /\ ~err[s] /\ \A n \in Names : status[s][n] = "none"
  BY <1>1 DEF Inv, SessionInv, Fresh, Begun
<1>3. RefsHaveObjects'
  BY <1>1 DEF Inv, RefsHaveObjects
<1>4. \A r \in Sessions \ {s} : Same(r) /\ Respects(r)
  BY DEF Inv, Shape, Same, Respects, Validated, FailAll
<1>5. Indices(s)' = Indices(s) /\ Named(s)' = Named(s) /\ Repeats(s)' = Repeats(s)
  BY <1>1 DEF Indices, Named, Repeats
<1>6. \A c : Legal(c)' = Legal(c)
  BY <1>1 DEF Legal, Action
<1>7. Len(commands[s]) \in Nat /\ Named(s) \subseteq Names
  BY HereIsCommand DEF Inv
<1>8. CASE illegal[s]
  <2> DEFINE failed == [n \in Names |-> IF n \in Named(s) THEN "error" ELSE status[s][n]]
  <2>1. /\ status' = [status EXCEPT ![s] = failed] /\ err' = [err EXCEPT ![s] = TRUE]
        /\ step' = [step EXCEPT ![s] = "done"] /\ at' = at
    BY <1>8 DEF Validated, FailAll
  <2>2. failed \in [Names -> {"none", "ok", "error"}]
    BY DEF Inv, Shape
  <2>3. \A n \in Names : failed[n] = IF n \in Named(s) THEN "error" ELSE "none"
    BY <1>2
  <2> HIDE DEF failed
  <2>4. step'[s] = "done" /\ status'[s] = failed /\ err'[s]
    BY <2>1 DEF Inv, Shape
  <2>5. Shape'
    BY <1>1, <2>1, <2>2 DEF Inv, Shape, Steps
  <2>6. Counted(s)'
    BY <1>1, <1>5, <1>7, <2>3, <2>4 DEF Inv, SessionInv, Counted
  <2>7. Fresh(s)' /\ Reached(s)' /\ Whole(s)'
    BY <1>1, <1>2, <2>4 DEF Fresh, Reached, Whole, Begun, Applying
  <2>8. Kept(s)'
    BY <2>3, <2>4 DEF Kept, InForce, Applying
  <2>9. Supplied(s)'
    BY <1>1, <2>4 DEF Inv, SessionInv, Supplied, Applying
  <2>10. SessionInv(s)'
    BY <2>6, <2>7, <2>8, <2>9 DEF SessionInv
  <2> QED
    BY <1>3, <1>4, <2>5, <2>10, StepOf
<1>9. CASE ~illegal[s]
  <2>1. /\ status' = status /\ err' = err
        /\ step' = [step EXCEPT ![s] = "check"] /\ at' = [at EXCEPT ![s] = 1]
        /\ at[s] > Len(commands[s])
    BY <1>9 DEF Validated, AtEnd
  <2>2. step'[s] = "check" /\ at'[s] = 1
    BY <2>1 DEF Inv, Shape
  <2>3. Shape'
    BY <1>1, <2>1 DEF Inv, Shape, Steps
  <2>4. Counted(s)'
    BY <1>1, <1>5, <2>1, <2>2 DEF Inv, SessionInv, Counted
  <2>5. Fresh(s)'
    BY <2>2 DEF Fresh, Begun
  <2>6. Reached(s)'
    BY <1>1, <1>2, <1>5, <1>7, <2>1, <2>2 DEF Reached, Applying, Indices
  <2>7. Supplied(s)'
    BY <1>1, <1>5, <2>2 DEF Inv, SessionInv, Supplied
  <2>8. Kept(s)'
    BY <1>2, <2>1, <2>2 DEF Kept, InForce
  <2>9. Whole(s)'
    <3> SUFFICES ASSUME atomic[s], ~disturbed[s], ~Repeats(s)
                 PROVE  /\ applied[s] = {} /\ 1..(at'[s] - 1) = {}
                        /\ \A i \in Indices(s) : Legal(commands[s][i])
      BY <1>1, <1>5, <1>6, <2>2 DEF Whole, Applying
    <3>1. \A i \in Indices(s) : i < at[s]
      BY <1>7, <2>1 DEF Indices, Inv, Shape
    <3> QED
      BY <1>1, <1>2, <1>9, <2>2, <3>1 DEF Inv, SessionInv, Whole
  <2>10. SessionInv(s)'
    BY <2>4, <2>5, <2>6, <2>7, <2>8, <2>9 DEF SessionInv
  <2> QED
    BY <1>3, <1>4, <2>3, <2>10, StepOf
<1> QED
  BY <1>8, <1>9
-----------------------------------------------------------------------------
\* The session answers its next command and goes on to the one behind it.
Answers(s, x) ==
    /\ step[s] \in Applying /\ ~AtEnd(s)
    /\ SetStatus(s, x) /\ Advance(s) /\ Goto(s, "check")
    /\ disturbed' \in [Sessions -> BOOLEAN]
    /\ UNCHANGED <<objects, requestVars, pack, illegal>>

LEMMA AnswersHere ==
  ASSUME Inv, NEW s \in Sessions, NEW x \in {"ok", "error"}, Answers(s, x)
  PROVE  /\ Here(s) \in Command /\ at[s] \in Indices(s)
         /\ step'[s] = "check" /\ at'[s] = at[s] + 1
         /\ \A n \in Names : status'[s][n] = IF n = Here(s).name THEN x ELSE status[s][n]
         /\ err'[s] = (err[s] \/ x = "error")
         /\ Indices(s)' = Indices(s) /\ Named(s)' = Named(s) /\ Repeats(s)' = Repeats(s)
         /\ \A r \in Sessions \ {s} :
              /\ step'[r] = step[r] /\ at'[r] = at[r] /\ status'[r] = status[r]
              /\ err'[r] = err[r]
         /\ step' \in [Sessions -> Steps] /\ at' \in [Sessions -> Nat \ {0}]
         /\ status' \in [Sessions -> [Names -> {"none", "ok", "error"}]]
         /\ err' \in [Sessions -> BOOLEAN]
<1> USE DEF Answers, requestVars
<1>1. Here(s) \in Command /\ at[s] \in Indices(s)
  BY HereIsCommand DEF Inv
<1>2. Here(s).name \in Names
  BY <1>1 DEF Command
<1>3. step'[s] = "check" /\ at'[s] = at[s] + 1
  BY DEF Inv, Shape, Goto, Advance
<1>4. \A n \in Names : status'[s][n] = IF n = Here(s).name THEN x ELSE status[s][n]
  BY <1>2 DEF Inv, Shape, SetStatus
<1>5. err'[s] = (err[s] \/ x = "error")
  BY DEF Inv, Shape, SetStatus
<1>6. Indices(s)' = Indices(s) /\ Named(s)' = Named(s) /\ Repeats(s)' = Repeats(s)
  BY DEF Indices, Named, Repeats
<1>7. \A r \in Sessions \ {s} :
        step'[r] = step[r] /\ at'[r] = at[r] /\ status'[r] = status[r] /\ err'[r] = err[r]
  BY DEF Inv, Shape, Goto, Advance, SetStatus
<1>8. step' \in [Sessions -> Steps] /\ at' \in [Sessions -> Nat \ {0}]
  BY DEF Inv, Shape, Goto, Advance, Steps
<1>9. status' \in [Sessions -> [Names -> {"none", "ok", "error"}]]
  BY <1>2 DEF Inv, Shape, SetStatus
<1>10. err' \in [Sessions -> BOOLEAN]
  BY DEF Inv, Shape, SetStatus
<1> QED
  BY <1>1, <1>3, <1>4, <1>5, <1>6, <1>7, <1>8, <1>9, <1>10

\* A command is refused, because it is illegal or a call of the storer failed.
LEMMA CommandFails ==
  ASSUME Inv, NEW s \in Sessions, Answers(s, "error"),
         UNCHANGED <<repoVars, applied>>,
         \A r \in Sessions \ {s} : disturbed'[r] = disturbed[r],
         \/ disturbed'[s]
         \/ step[s] = "check" /\ disturbed'[s] = disturbed[s] /\ ~Legal(Here(s))
  PROVE  Inv'
<1> USE DEF repoVars
<1>1. /\ requestVars' = requestVars /\ pack' = pack /\ illegal' = illegal
      /\ commands' = commands /\ seen' = seen /\ atomic' = atomic
      /\ step[s] \in Applying /\ disturbed' \in [Sessions -> BOOLEAN]
  BY DEF Answers, requestVars
<1>2. /\ Here(s) \in Command /\ at[s] \in Indices(s)
      /\ step'[s] = "check" /\ at'[s] = at[s] + 1 /\ err'[s]
      /\ \A n \in Names : status'[s][n] = IF n = Here(s).name THEN "error" ELSE status[s][n]
      /\ Indices(s)' = Indices(s) /\ Named(s)' = Named(s) /\ Repeats(s)' = Repeats(s)
  BY AnswersHere
<1>3. Shape'
  BY <1>1, AnswersHere DEF Inv, Shape
<1>4. RefsHaveObjects'
  BY DEF Inv, RefsHaveObjects
<1>5. \A r \in Sessions \ {s} : Same(r) /\ Respects(r)
  BY <1>1, AnswersHere DEF Same, Respects
<1>6. Here(s).name \in Named(s) /\ Named(s) \subseteq Names
  BY <1>2, HereIsCommand DEF Here, Named, Inv
<1>7. Len(commands[s]) \in Nat /\ at[s] \in Nat \ {0} /\ at[s] <= Len(commands[s])
  BY <1>2, HereIsCommand DEF Inv, Indices, Shape
<1>8. Counted(s)'
  BY <1>1, <1>2, <1>6 DEF Inv, SessionInv, Counted
<1>9. Fresh(s)'
  BY <1>2 DEF Fresh, Begun
<1>10. Reached(s)'
  <2>1. applied[s] \subseteq 1..(at[s] - 1)
    BY <1>1 DEF Inv, SessionInv, Reached
  <2>2. applied'[s] \subseteq 1..(at'[s] - 1)
    BY <1>2, <1>7, <2>1
  <2>3. ASSUME NEW i \in Indices(s), i < at[s] + 1
        PROVE  status'[s][commands[s][i].name] # "none"
    <3>1. commands[s][i].name \in Names
      BY HereIsCommand DEF Inv, Command
    <3>2. CASE i = at[s]
      BY <1>2, <1>6, <3>2 DEF Here
    <3>3. CASE i < at[s]
      BY <1>1, <1>2, <3>1, <3>3 DEF Inv, SessionInv, Reached
    <3> QED
      BY <1>7, <2>3, <3>2, <3>3 DEF Indices
  <2> QED
    BY <1>1, <1>2, <1>7, <2>2, <2>3 DEF Reached, Applying
<1>11. Supplied(s)'
  BY <1>1, <1>2 DEF Inv, SessionInv, Supplied, Applying
<1>12. Kept(s)'
  <2> SUFFICES ASSUME NEW n \in Names, status'[s][n] = "ok"
               PROVE  \E i \in Indices(s) :
                         /\ LastBefore(s, n, at[s] + 1, i) /\ i \in applied[s]
                         /\ writer[n] = s => refs[n] = commands[s][i].new
    BY <1>1, <1>2 DEF Kept, InForce, LastBefore
  <2>1. n # Here(s).name /\ status[s][n] = "ok"
    BY <1>2
  <2>2. PICK i \in Indices(s) :
          /\ LastBefore(s, n, at[s], i) /\ i \in applied[s]
          /\ writer[n] = s => refs[n] = commands[s][i].new
    BY <1>1, <2>1 DEF Inv, SessionInv, Kept, InForce
  <2>3. LastBefore(s, n, at[s] + 1, i)
    BY <1>7, <2>1, <2>2 DEF LastBefore, Here, Indices
  <2> QED
    BY <2>2, <2>3
<1>13. Whole(s)'
  <2>1. CASE disturbed'[s]
    BY <2>1 DEF Whole
  <2>2. CASE step[s] = "check" /\ disturbed'[s] = disturbed[s] /\ ~Legal(Here(s))
    <3>1. ~(atomic[s] /\ ~disturbed[s] /\ ~Repeats(s))
      BY <1>1, <1>2, <1>7, <2>2 DEF Inv, SessionInv, Whole, Here
    <3> QED
      BY <1>1, <1>2, <2>2, <3>1 DEF Whole
  <2> QED
    BY <2>1, <2>2
<1>14. SessionInv(s)'
  BY <1>8, <1>9, <1>10, <1>11, <1>12, <1>13 DEF SessionInv
<1> QED
  BY <1>3, <1>4, <1>5, <1>14, StepOf

LEMMA CheckStep ==
  ASSUME Inv, NEW s \in Sessions, Check(s) PROVE Inv'
<1>1. CASE ~Legal(Here(s))
  <2>1. step[s] = "check" /\ step' = step
    BY <1>1 DEF Check
  <2>2. Goto(s, "check")
    BY <2>1 DEF Goto, Inv, Shape
  <2>3. Answers(s, "error")
    BY <1>1, <2>1, <2>2 DEF Answers, Check, Applying, Inv, Shape, repoVars
  <2> QED
    BY <1>1, <2>1, <2>3, CommandFails DEF Check
<1>2. CASE Legal(Here(s))
  <2> USE <1>2 DEF Check, Goto, repoVars, requestVars
  <2>1. step[s] = "check" /\ step'[s] = "write" /\ ~AtEnd(s)
    BY DEF Inv, Shape
  <2>2. Shape'
    BY DEF Inv, Shape, Steps
  <2>3. RefsHaveObjects'
    BY DEF Inv, RefsHaveObjects
  <2>4. \A r \in Sessions \ {s} : Same(r) /\ Respects(r)
    BY DEF Inv, Shape, Same, Respects
  <2>5. /\ Indices(s)' = Indices(s) /\ Named(s)' = Named(s)
        /\ AtEnd(s)' = AtEnd(s) /\ Repeats(s)' = Repeats(s)
    BY DEF Indices, Named, AtEnd, Repeats
  <2>6. Counted(s)'
    BY <2>1, <2>5 DEF Inv, SessionInv, Counted
  <2>7. Fresh(s)'
    BY <2>1 DEF Fresh, Begun
  <2>8. Reached(s)'
    BY <2>1, <2>5 DEF Inv, SessionInv, Reached, Applying
  <2>9. Supplied(s)'
    BY <2>1, <2>5 DEF Inv, SessionInv, Supplied, Applying
  <2>10. \A k : InForce(s, k) => InForce(s, k)'
    BY <2>5 DEF InForce, LastBefore
  <2>11. Kept(s)'
    BY <2>1, <2>10 DEF Inv, SessionInv, Kept, Applying
  <2>12. \A c : Legal(c)' = Legal(c)
    BY DEF Legal, Action
  <2>13. Whole(s)'
    BY <2>1, <2>5, <2>12 DEF Inv, SessionInv, Whole, Applying
  <2>14. SessionInv(s)'
    BY <2>6, <2>7, <2>8, <2>9, <2>11, <2>13 DEF SessionInv
  <2> QED
    BY <2>2, <2>3, <2>4, <2>14, StepOf
<1> QED
  BY <1>1, <1>2

LEMMA StorerFailsStep ==
  ASSUME Inv, NEW s \in Sessions, StorerFails(s) PROVE Inv'
<1>1. /\ disturbed' \in [Sessions -> BOOLEAN] /\ disturbed'[s]
      /\ \A r \in Sessions \ {s} : disturbed'[r] = disturbed[r]
  BY DEF StorerFails, Inv, Shape
<1>2. Answers(s, "error")
  BY <1>1 DEF StorerFails, Answers, Applying, repoVars
<1> QED
  BY <1>1, <1>2, CommandFails DEF StorerFails
-----------------------------------------------------------------------------
\* The command takes effect; every other session that names the reference is
\* disturbed.
LEMMA WriteStep ==
  ASSUME Inv, NEW s \in Sessions, Write(s) PROVE Inv'
<1> DEFINE c == Here(s)
<1>1. /\ step[s] = "write" /\ ~AtEnd(s) /\ objects' = objects
      /\ commands' = commands /\ seen' = seen /\ atomic' = atomic
      /\ pack' = pack /\ illegal' = illegal
      /\ refs' = [refs EXCEPT ![c.name] = c.new]
      /\ writer' = [writer EXCEPT ![c.name] = s]
      /\ applied' = [applied EXCEPT ![s] = @ \cup {at[s]}]
      /\ disturbed' = [r \in Sessions |->
           disturbed[r] \/ (r # s /\ c.name \in Named(r))]
  BY DEF Write, requestVars, Inv, SessionInv, Counted
<1>2. disturbed' \in [Sessions -> BOOLEAN]
  BY <1>1 DEF Inv, Shape
<1>3. Answers(s, "ok")
  BY <1>1, <1>2 DEF Write, Answers, Applying, requestVars
<1>4. /\ c \in Command /\ at[s] \in Indices(s)
      /\ step'[s] = "check" /\ at'[s] = at[s] + 1 /\ err'[s] = err[s]
      /\ \A n \in Names : status'[s][n] = IF n = c.name THEN "ok" ELSE status[s][n]
      /\ Indices(s)' = Indices(s) /\ Named(s)' = Named(s) /\ Repeats(s)' = Repeats(s)
  BY <1>3, AnswersHere DEF Inv, Shape
<1>5. c.name \in Names /\ c.new \in Ref /\ c = commands[s][at[s]] /\ c.name \in Named(s)
  BY <1>4 DEF Command, Here, Named
<1>6. Len(commands[s]) \in Nat /\ at[s] \in Nat \ {0} /\ at[s] <= Len(commands[s])
  BY <1>4, HereIsCommand DEF Inv, Indices, Shape
<1> HIDE DEF c
<1>7. Shape'
  <2>1. refs' \in [Names -> Ref] /\ writer' \in [Names -> Sessions \cup {Absent}]
    BY <1>1, <1>5 DEF Inv, Shape
  <2>2. applied' \in [Sessions -> SUBSET Nat]
    BY <1>1, <1>6 DEF Inv, Shape
  <2> QED
    BY <1>1, <1>2, <1>3, <2>1, <2>2, AnswersHere DEF Inv, Shape
<1>8. c.new # Absent => Reach[c.new] \subseteq objects
  <2>1. NewOf(commands[s]) \subseteq objects
    BY <1>1 DEF Inv, SessionInv, Supplied, Applying
  <2>2. c.new \in {commands[s][i].new : i \in 1..Len(commands[s])}
    BY <1>4, <1>5 DEF Indices
  <2> QED
    BY <2>1, <2>2 DEF NewOf, Closure
<1>9. RefsHaveObjects'
  <2>1. Range(refs') \subseteq Range(refs) \cup {c.new}
    BY <1>1, <1>5 DEF Inv, Shape, Range
  <2>2. Closure(Range(refs')) \subseteq objects
    BY <1>8, <2>1 DEF Inv, RefsHaveObjects, Closure
  <2> QED
    BY <1>1, <2>2 DEF RefsHaveObjects
<1>10. applied'[s] = applied[s] \cup {at[s]} /\ disturbed'[s] = disturbed[s]
  BY <1>1 DEF Inv, Shape
<1>11. ASSUME NEW r \in Sessions \ {s} PROVE Same(r) /\ Respects(r)
  <2>1. Same(r)
    BY <1>1, <1>3, AnswersHere DEF Same, Inv, Shape
  <2>2. disturbed'[r] = (disturbed[r] \/ c.name \in Named(r))
    BY <1>1
  <2>3. \A n \in Names : \/ refs'[n] = refs[n] /\ writer'[n] = writer[n] /\ n # c.name
                         \/ writer'[n] = s /\ n = c.name
    BY <1>1 DEF Inv, Shape
  <2> QED
    BY <1>1, <2>1, <2>2, <2>3 DEF Respects
<1>12. Counted(s)'
  BY <1>4, <1>5, <1>10 DEF Inv, SessionInv, Counted
<1>13. Fresh(s)'
  BY <1>4 DEF Fresh, Begun
<1>14. 1..(at[s] - 1) \cup {at[s]} = 1..at[s]
  BY <1>6
<1>15. Reached(s)'
  <2>1. applied[s] \subseteq 1..(at[s] - 1) /\ (~err[s] => applied[s] = 1..(at[s] - 1))
    BY <1>1 DEF Inv, SessionInv, Reached, Applying
  <2>2. at'[s] - 1 = at[s]
    BY <1>4, <1>6
  <2>3. /\ applied'[s] \subseteq 1..(at'[s] - 1)
        /\ ~err'[s] => applied'[s] = 1..(at'[s] - 1)
    BY <1>4, <1>10, <1>14, <2>1, <2>2
  <2>4. ASSUME NEW i \in Indices(s), i < at[s] + 1
        PROVE  status'[s][commands[s][i].name] # "none"
    <3>1. commands[s][i].name \in Names
      BY HereIsCommand DEF Inv, Command
    <3>2. CASE i = at[s]
      BY <1>4, <1>5, <3>2
    <3>3. CASE i < at[s]
      BY <1>1, <1>4, <3>1, <3>3 DEF Inv, SessionInv, Reached, Applying
    <3> QED
      BY <1>6, <2>4, <3>2, <3>3 DEF Indices
  <2> QED
    BY <1>1, <1>4, <1>6, <2>3, <2>4 DEF Reached, Applying
<1>16. Supplied(s)'
  BY <1>1, <1>4 DEF Inv, SessionInv, Supplied, Applying
<1>17. Kept(s)'
  <2> SUFFICES ASSUME NEW n \in Names, status'[s][n] = "ok"
               PROVE  \E i \in Indices(s) :
                         /\ LastBefore(s, n, at[s] + 1, i) /\ i \in applied'[s]
                         /\ writer'[n] = s => refs'[n] = commands[s][i].new
    BY <1>1, <1>4 DEF Kept, InForce, LastBefore
  <2>1. CASE n = c.name
    <3>1. LastBefore(s, n, at[s] + 1, at[s])
      BY <1>5, <1>6, <2>1 DEF LastBefore, Indices
    <3>2. refs'[n] = commands[s][at[s]].new
      BY <1>1, <1>5, <2>1 DEF Inv, Shape
    <3> QED
      BY <1>4, <1>10, <3>1, <3>2
  <2>2. CASE n # c.name
    <3>1. status[s][n] = "ok" /\ refs'[n] = refs[n] /\ writer'[n] = writer[n]
      BY <1>1, <1>4, <2>2 DEF Inv, Shape
    <3>2. PICK i \in Indices(s) :
            /\ LastBefore(s, n, at[s], i) /\ i \in applied[s]
            /\ writer[n] = s => refs[n] = commands[s][i].new
      BY <1>1, <3>1 DEF Inv, SessionInv, Kept, InForce, Applying
    <3>3. LastBefore(s, n, at[s] + 1, i)
      BY <1>5, <1>6, <2>2, <3>2 DEF LastBefore, Indices
    <3> QED
      BY <1>10, <3>1, <3>2, <3>3
  <2> QED
    BY <2>1, <2>2
<1>18. Whole(s)'
  <2> SUFFICES ASSUME atomic[s], ~disturbed[s], ~Repeats(s)
               PROVE  /\ applied'[s] = 1..(at'[s] - 1)
                      /\ \A i \in Indices(s) : i >= at'[s] => Legal(commands[s][i])'
    BY <1>1, <1>4, <1>10 DEF Whole, Applying
  <2>1. applied[s] = 1..(at[s] - 1)
    BY <1>1 DEF Inv, SessionInv, Whole, Applying
  <2>2. at'[s] - 1 = at[s]
    BY <1>4, <1>6
  <2>3. ASSUME NEW i \in Indices(s), i >= at'[s] PROVE Legal(commands[s][i])'
    <3>1. i # at[s] /\ i >= at[s]
      BY <1>4, <1>6, <2>3 DEF Indices
    <3>2. commands[s][i].name # c.name /\ commands[s][i].name \in Names
      BY <1>4, <1>5, <3>1, DistinctNames, HereIsCommand DEF Inv, Command
    <3>3. refs'[commands[s][i].name] = refs[commands[s][i].name]
      BY <1>1, <3>2 DEF Inv, Shape
    <3>4. Legal(commands[s][i])
      BY <1>1, <3>1 DEF Inv, SessionInv, Whole, Applying
    <3> QED
      BY <1>1, <3>3, <3>4 DEF Legal, Action
  <2> QED
    BY <1>10, <1>14, <2>1, <2>2, <2>3
<1>19. SessionInv(s)'
  BY <1>12, <1>13, <1>15, <1>16, <1>17, <1>18 DEF SessionInv
<1> QED
  BY <1>7, <1>9, <1>11, <1>19, StepOf
-----------------------------------------------------------------------------
LEMMA ReportStep ==
  ASSUME Inv, NEW s \in Sessions, Report(s) PROVE Inv'
<1> USE DEF Report, Goto, repoVars, requestVars, answerVars
<1>1. step[s] = "check" /\ step'[s] = "done"
  BY DEF Inv, Shape
<1>2. Shape'
  BY DEF Inv, Shape, Steps
<1>3. RefsHaveObjects'
  BY DEF Inv, RefsHaveObjects
<1>4. \A r \in Sessions \ {s} : Same(r) /\ Respects(r)
  BY DEF Inv, Shape, Same, Respects
<1>5. Indices(s)' = Indices(s) /\ Named(s)' = Named(s) /\ Repeats(s)' = Repeats(s)
  BY DEF Indices, Named, Repeats
<1>6. at[s] = Len(commands[s]) + 1 /\ Len(commands[s]) \in Nat
  <2>1. Len(commands[s]) \in Nat /\ at[s] \in Nat /\ at[s] > Len(commands[s])
    BY HereIsCommand DEF Inv, Shape, AtEnd
  <2>2. at[s] <= Len(commands[s]) + 1
    BY <1>1 DEF Inv, SessionInv, Reached, Applying
  <2> QED
    BY <2>1, <2>2
<1>7. 1..(at[s] - 1) = Indices(s) /\ \A i \in Indices(s) : i < at[s]
  BY <1>6 DEF Indices
<1>8. Counted(s)'
  <2>1. \A i \in Indices(s) : status[s][commands[s][i].name] # "none"
    BY <1>1, <1>7 DEF Inv, SessionInv, Reached, Applying
  <2>2. \A n \in Named(s) : status[s][n] # "none"
    BY <2>1 DEF Named
  <2> QED
    BY <1>1, <1>5, <2>2 DEF Inv, SessionInv, Counted
<1>9. Fresh(s)'
  BY <1>1 DEF Fresh, Begun
<1>10. Reached(s)'
  BY <1>1, <1>5, <1>7 DEF Inv, SessionInv, Reached, Applying
<1>11. Supplied(s)'
  BY <1>1 DEF Inv, SessionInv, Supplied, Applying
<1>12. Kept(s)'
  <2>1. InForce(s, Len(commands[s]) + 1)
    BY <1>1, <1>6 DEF Inv, SessionInv, Kept, Applying
  <2>2. InForce(s, Len(commands[s]) + 1)'
    BY <1>5, <2>1 DEF InForce, LastBefore
  <2> QED
    BY <1>1, <2>2 DEF Kept, Applying
<1>13. Whole(s)'
  BY <1>1, <1>5, <1>7 DEF Inv, SessionInv, Whole, Applying
<1>14. SessionInv(s)'
  BY <1>8, <1>9, <1>10, <1>11, <1>12, <1>13 DEF SessionInv
<1> QED
  BY <1>2, <1>3, <1>4, <1>14, StepOf

LEMMA RaiseStep ==
  ASSUME Inv, NEW s \in Sessions, Raise(s) PROVE Inv'
<1> USE DEF Raise, Goto, repoVars, requestVars, answerVars
<1>1. step'[s] = "raised"
  BY DEF Inv, Shape
<1>2. Shape'
  BY DEF Inv, Shape, Steps
<1>3. RefsHaveObjects'
  BY DEF Inv, RefsHaveObjects
<1>4. \A r \in Sessions \ {s} : Same(r) /\ Respects(r)
  BY DEF Inv, Shape, Same, Respects
<1>5. Indices(s)' = Indices(s) /\ Named(s)' = Named(s)
  BY DEF Indices, Named
<1>6. Counted(s)'
  BY <1>1, <1>5 DEF Inv, SessionInv, Counted
<1>7. Fresh(s)' /\ Reached(s)' /\ Kept(s)' /\ Whole(s)'
  BY <1>1 DEF Fresh, Reached, Kept, Whole, Begun, Applying
<1>8. Supplied(s)'
  BY <1>1 DEF Inv, SessionInv, Supplied, Applying
<1>9. SessionInv(s)'
  BY <1>6, <1>7, <1>8 DEF SessionInv
<1> QED
  BY <1>2, <1>3, <1>4, <1>9, StepOf

LEMMA Stutter == Inv /\ UNCHANGED vars => Inv'
<1> SUFFICES ASSUME Inv, UNCHANGED vars PROVE Inv'
  OBVIOUS
<1> USE DEF vars, repoVars, requestVars, answerVars
<1>1. Shape' /\ RefsHaveObjects'
  BY DEF Inv, Shape, RefsHaveObjects
<1>2. \A r \in Sessions : Same(r) /\ Respects(r)
  BY DEF Same, Respects
<1> QED
  BY <1>1, <1>2, OtherSession DEF Inv

-----------------------------------------------------------------------------
LEMMA InitInv == Init => Inv
<1> SUFFICES ASSUME Init PROVE Inv
  OBVIOUS
<1>0. /\ refs \in [Names -> Ref] /\ objects \subseteq Objects
      /\ Closure(Range(refs)) \subseteq objects
  BY AtFirstAssumption DEF Init
<1>1. Shape
  <2>1. commands \in [Sessions -> Seq(Command)]
    BY DEF Init
  <2>2. refs \in [Names -> Ref] /\ objects \subseteq Objects
    BY <1>0
  <2> QED
    BY <2>1, <2>2 DEF Init, Shape, Steps
<1>2. RefsHaveObjects
  BY <1>0 DEF RefsHaveObjects
<1>3. ASSUME NEW s \in Sessions PROVE SessionInv(s)
  <2>1. /\ step[s] = "advertise" /\ seen[s] = refs /\ at[s] = 1 /\ ~err[s]
        /\ applied[s] = {} /\ \A n \in Names : status[s][n] = "none"
    BY DEF Init
  <2>2. Counted(s) /\ Fresh(s)
    BY <2>1 DEF Counted, Fresh
  <2>3. Reached(s) /\ Kept(s) /\ Whole(s)
    BY <2>1 DEF Reached, Kept, Whole, Applying
  <2>4. Supplied(s)
    BY <1>2, <2>1 DEF Supplied, RefsHaveObjects, Applying
  <2> QED
    BY <2>2, <2>3, <2>4 DEF SessionInv
<1> QED
  BY <1>1, <1>2, <1>3 DEF Inv

LEMMA ServeInv ==
  ASSUME Inv, NEW s \in Sessions, Serve(s) PROVE Inv'
<1>1. CASE Advertise(s)
  BY <1>1, AdvertiseStep
<1>2. ASSUME NEW o \in Objects, Unpack(s, o) PROVE Inv'
  BY <1>2, UnpackStep
<1>3. CASE UnpackFails(s)
  BY <1>3, UnpackFailsStep
<1>4. CASE Unpacked(s)
  BY <1>4, UnpackedStep
<1>5. CASE Validate(s)
  BY <1>5, ValidateStep
<1>6. CASE Validated(s)
  BY <1>6, ValidatedStep
<1>7. CASE Check(s)
  BY <1>7, CheckStep
<1>8. CASE Write(s)
  BY <1>8, WriteStep
<1>9. CASE StorerFails(s)
  BY <1>9, StorerFailsStep
<1>10. CASE Report(s)
  BY <1>10, ReportStep
<1>11. CASE Raise(s)
  BY <1>11, RaiseStep
<1> QED
  BY <1>1, <1>2, <1>3, <1>4, <1>5, <1>6, <1>7, <1>8, <1>9, <1>10, <1>11 DEF Serve

LEMMA NextInv == Inv /\ [Next]_vars => Inv'
  BY RequestStep, ServeInv, Stutter DEF Next

LEMMA Invariance == Spec => []Inv
  BY InitInv, NextInv, PTL DEF Spec

\* Every reachable state is well-formed, and a finished report that is not
\* about the pack has a status for every name of the request.
THEOREM Typed == Spec => []TypeOK
<1>1. Inv => TypeOK
  BY ShapeCounted DEF Inv, SessionInv
<1> QED
  BY <1>1, Invariance, PTL

\* However many sessions push, and wherever they stop, the whole history of each
\* reference is in the repository.
THEOREM NoDanglingReference == Spec => []RefsHaveObjects
<1>1. Inv => RefsHaveObjects
  BY DEF Inv
<1> QED
  BY <1>1, Invariance, PTL

\* What the invariant says of a finished session.
LEMMA OkInForce == Inv => OkMeansInForce
<1> SUFFICES ASSUME Inv, NEW s \in Sessions, NEW n \in Named(s),
                    Finished(s), status[s][n] = "ok"
             PROVE  /\ Last(s, n) \in applied[s]
                    /\ writer[n] = s => refs[n] = commands[s][Last(s, n)].new
  BY DEF OkMeansInForce
<1>1. n \in Names /\ Len(commands[s]) \in Nat
  BY HereIsCommand DEF Inv
<1>2. PICK i \in Indices(s) :
        /\ LastBefore(s, n, Len(commands[s]) + 1, i) /\ i \in applied[s]
        /\ writer[n] = s => refs[n] = commands[s][i].new
  BY <1>1 DEF Inv, SessionInv, Kept, InForce, Finished
<1>3. /\ commands[s][i].name = n
      /\ \A j \in Indices(s) : commands[s][j].name = n => j <= i
  BY <1>1, <1>2 DEF LastBefore, Indices
<1>4. \A k \in Indices(s) :
        /\ commands[s][k].name = n
        /\ \A j \in Indices(s) : commands[s][j].name = n => j <= k
        => k = i
  BY <1>1, <1>3 DEF Indices
<1>5. Last(s, n) = i
  BY <1>3, <1>4 DEF Last
<1> QED
  BY <1>2, <1>5

LEMMA NoErrorAllApplied == Inv => CleanAnswer
  BY DEF Inv, SessionInv, Reached, CleanAnswer, Finished

LEMMA AtomicWhole == Inv => AtomicUnlessDisturbed
  BY DEF Inv, SessionInv, Whole, AtomicUnlessDisturbed, Finished, Applying

\* A name reported as ok got what its last command asked for, and has it still
\* if no other session wrote it since.
THEOREM OkIsTrue == Spec => []OkMeansInForce
  BY OkInForce, Invariance, PTL

\* A push that ends without an error applied every command it was sent.
THEOREM SilenceIsSuccess == Spec => []CleanAnswer
  BY NoErrorAllApplied, Invariance, PTL

\* An atomic push that names no reference twice applied all its commands or
\* none, if no call of the storer failed and nobody wrote its references while
\* it was at work.
THEOREM AllOrNothing == Spec => []AtomicUnlessDisturbed
  BY AtomicWhole, Invariance, PTL
=============================================================================

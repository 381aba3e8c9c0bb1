----------------------------- MODULE ReceivePack -----------------------------
(***************************************************************************)
(* The receive-pack server: sessions that push to one repository at the    *)
(* same time.  A session advertises the references, imports the pack of a  *)
(* request object by object, validates all commands if the request is      *)
(* atomic, and applies them one after the other; whether a reference       *)
(* exists and what is done about it are two calls of the storer.  Calls of *)
(* the storer may fail; one that fails has changed nothing.                *)
(***************************************************************************)
EXTENDS Naturals, Sequences, FiniteSets, Functions

CONSTANTS
    Sessions,
    Names,
    Objects,     \* what references may point to
    Reach,       \* the objects an object needs, itself included: its whole history
    Absent,      \* no reference; the zero hash of a command
    AtFirst,     \* what the repository may be at first: [refs, objects]
    Pushes       \* what clients want: [atomic, changes : sequence of [name, new]]

ASSUME AbsentAssumption == Absent \notin Objects \cup Sessions
ASSUME ReachAssumption == Reach \in [Objects -> SUBSET Objects]
Ref == Objects \cup {Absent}

\* What the references to the objects in S need.
Closure(S) == UNION {Reach[o] : o \in S \ {Absent}}

ASSUME AtFirstAssumption ==
    /\ AtFirst \subseteq [refs : [Names -> Ref], objects : SUBSET Objects]
    /\ \A r \in AtFirst : Closure(Range(r.refs)) \subseteq r.objects
ASSUME PushesAssumption ==
    Pushes \subseteq [atomic : BOOLEAN,
                      changes : Seq([name : Names, new : Objects \cup {Absent}])]

Command == [name : Names, old : Ref, new : Ref]

VARIABLES
    refs, objects,    \* the repository
    step,             \* what each session does next
    seen,             \* the references it advertised
    atomic, commands, \* its request
    pack,             \* objects of the pack that are not imported
    at,               \* the next command
    illegal,          \* a command did not pass the validation
    status,           \* cmd_status
    err,              \* first_err is set
    applied,          \* history: the commands that took effect
    writer,           \* history: who wrote a reference last
    disturbed         \* history: a storer call failed, or somebody else wrote

repoVars == <<refs, objects, writer>>
requestVars == <<seen, atomic, commands>>
answerVars == <<status, err, applied>>
vars == <<repoVars, requestVars, step, pack, at, illegal, answerVars, disturbed>>

Steps == {"advertise", "request", "unpack", "validate", "check", "write",
          "done", "raised"}

Init ==
    /\ \E r \in AtFirst : refs = r.refs /\ objects = r.objects
    /\ writer = [n \in Names |-> Absent]
    /\ step = [s \in Sessions |-> "advertise"]
    /\ seen = [s \in Sessions |-> refs]
    /\ atomic = [s \in Sessions |-> FALSE]
    /\ commands = [s \in Sessions |-> << >>]
    /\ pack = [s \in Sessions |-> {}]
    /\ at = [s \in Sessions |-> 1]
    /\ illegal = [s \in Sessions |-> FALSE]
    /\ status = [s \in Sessions |-> [n \in Names |-> "none"]]
    /\ err = [s \in Sessions |-> FALSE]
    /\ applied = [s \in Sessions |-> {}]
    /\ disturbed = [s \in Sessions |-> FALSE]

-----------------------------------------------------------------------------
Action(c) ==
    CASE c.old = Absent /\ c.new = Absent -> "invalid"
      [] c.old = Absent /\ c.new # Absent -> "create"
      [] c.old # Absent /\ c.new = Absent -> "delete"
      [] OTHER -> "update"

\* What both validateCommand and applyOneCommand accept: a name that exists or
\* not, as the action wants; the old value of the command is not compared.
Legal(c) ==
    CASE Action(c) = "invalid" -> FALSE
      [] Action(c) = "create"  -> refs[c.name] = Absent
      [] OTHER                 -> refs[c.name] # Absent

Here(s) == commands[s][at[s]]
AtEnd(s) == at[s] > Len(commands[s])
Indices(s) == 1..Len(commands[s])
Named(s) == {commands[s][i].name : i \in Indices(s)}

Goto(s, x) == step' = [step EXCEPT ![s] = x]
Advance(s) == at' = [at EXCEPT ![s] = @ + 1]

\* Faulty variant: a later success covers up an earlier failure.
SetStatusLast(s, x) ==
    /\ status' = [status EXCEPT ![s][Here(s).name] = x]
    /\ err' = [err EXCEPT ![s] = (x = "error")]

\* One status for each name; the last command of a name determines it.
SetStatus(s, x) ==
    /\ status' = [status EXCEPT ![s][Here(s).name] = x]
    /\ err' = [err EXCEPT ![s] = @ \/ x = "error"]

\* failAllCommands
FailAll(s) ==
    /\ status' = [status EXCEPT ![s] =
         [n \in Names |-> IF n \in Named(s) THEN "error" ELSE @[n]]]
    /\ err' = [err EXCEPT ![s] = TRUE]

-----------------------------------------------------------------------------
Advertise(s) ==
    /\ step[s] = "advertise"
    /\ seen' = [seen EXCEPT ![s] = refs]
    /\ Goto(s, "request")
    /\ UNCHANGED <<repoVars, atomic, commands, pack, at, illegal, answerVars, disturbed>>

\* The request of a client: commands cs, and a pack of the objects ps.
Receive(s, all, cs, ps) ==
    /\ step[s] = "request"
    /\ atomic' = [atomic EXCEPT ![s] = all]
    /\ commands' = [commands EXCEPT ![s] = cs]
    /\ pack' = [pack EXCEPT ![s] = ps]
    /\ Goto(s, "unpack")
    /\ UNCHANGED <<repoVars, seen, at, illegal, answerVars, disturbed>>

\* A client takes the old values from the advertisement, and sends at least what
\* the new ones need and no advertised reference has.
Asked(s, changes) ==
    [i \in 1..Len(changes) |->
        [name |-> changes[i].name, old |-> seen[s][changes[i].name], new |-> changes[i].new]]
NewOf(cs) == Closure({cs[i].new : i \in 1..Len(cs)})
Lacking(s, cs) == NewOf(cs) \ Closure(Range(seen[s]))

Request(s) ==
    \E p \in Pushes :
        LET cs == Asked(s, p.changes) IN
        \E ps \in SUBSET NewOf(cs) :
            /\ Lacking(s, cs) \subseteq ps
            /\ Receive(s, p.atomic, cs, ps)

\* writePackfile
Unpack(s, o) ==
    /\ step[s] = "unpack" /\ o \in pack[s]
    /\ objects' = objects \cup {o}
    /\ pack' = [pack EXCEPT ![s] = @ \ {o}]
    /\ UNCHANGED <<refs, writer, requestVars, step, at, illegal, answerVars, disturbed>>

\* Faulty variant: the references are updated although the pack was not imported.
UnpackFailsOpen(s) ==
    /\ step[s] = "unpack" /\ pack[s] # {}
    /\ err' = [err EXCEPT ![s] = TRUE]
    /\ Goto(s, "check")
    /\ disturbed' = [disturbed EXCEPT ![s] = TRUE]
    /\ UNCHANGED <<repoVars, requestVars, pack, at, illegal, status, applied>>

\* Without atomic the report has no status for any command.
UnpackFails(s) ==
    /\ step[s] = "unpack" /\ pack[s] # {}
    /\ IF atomic[s] THEN FailAll(s)
       ELSE err' = [err EXCEPT ![s] = TRUE] /\ UNCHANGED status
    /\ Goto(s, "done")
    /\ disturbed' = [disturbed EXCEPT ![s] = TRUE]
    /\ UNCHANGED <<repoVars, requestVars, pack, at, illegal, applied>>

Unpacked(s) ==
    /\ step[s] = "unpack" /\ pack[s] = {}
    /\ Goto(s, IF atomic[s] THEN "validate" ELSE "check")
    /\ UNCHANGED <<repoVars, requestVars, pack, at, illegal, answerVars, disturbed>>

-----------------------------------------------------------------------------
\* updateReferencesAtomic, first loop

\* Faulty variant: the verdict is the last command's.
ValidateLast(s) ==
    /\ step[s] = "validate" /\ ~AtEnd(s)
    /\ illegal' = [illegal EXCEPT ![s] = ~Legal(Here(s))]
    /\ Advance(s)
    /\ UNCHANGED <<repoVars, requestVars, step, pack, answerVars, disturbed>>

Validate(s) ==
    /\ step[s] = "validate" /\ ~AtEnd(s)
    /\ illegal' = [illegal EXCEPT ![s] = @ \/ ~Legal(Here(s))]
    /\ Advance(s)
    /\ UNCHANGED <<repoVars, requestVars, step, pack, answerVars, disturbed>>

Validated(s) ==
    /\ step[s] = "validate" /\ AtEnd(s)
    /\ IF illegal[s]
       THEN FailAll(s) /\ Goto(s, "done") /\ UNCHANGED at
       ELSE Goto(s, "check") /\ at' = [at EXCEPT ![s] = 1] /\ UNCHANGED <<status, err>>
    /\ UNCHANGED <<repoVars, requestVars, pack, illegal, applied, disturbed>>

\* applyOneCommand; the next command follows whatever became of this one.
Check(s) ==
    /\ step[s] = "check" /\ ~AtEnd(s)
    /\ IF Legal(Here(s))
       THEN Goto(s, "write") /\ UNCHANGED <<at, status, err>>
       ELSE SetStatus(s, "error") /\ Advance(s) /\ UNCHANGED step
    /\ UNCHANGED <<repoVars, requestVars, pack, illegal, applied, disturbed>>

Write(s) ==
    /\ step[s] = "write"
    /\ refs' = [refs EXCEPT ![Here(s).name] = Here(s).new]
    /\ writer' = [writer EXCEPT ![Here(s).name] = s]
    /\ applied' = [applied EXCEPT ![s] = @ \cup {at[s]}]
    /\ disturbed' = [r \in Sessions |->
         disturbed[r] \/ (r # s /\ Here(s).name \in Named(r))]
    /\ SetStatus(s, "ok") /\ Advance(s) /\ Goto(s, "check")
    /\ UNCHANGED <<objects, requestVars, pack, illegal>>

\* Faulty variant: the error of the storer is not looked at.
StorerFailsQuietly(s) ==
    /\ step[s] \in {"check", "write"} /\ ~AtEnd(s)
    /\ SetStatus(s, IF step[s] = "write" THEN "ok" ELSE "error")
    /\ Advance(s) /\ Goto(s, "check")
    /\ disturbed' = [disturbed EXCEPT ![s] = TRUE]
    /\ UNCHANGED <<repoVars, requestVars, pack, illegal, applied>>

\* The lookup or the update of a reference fails.
StorerFails(s) ==
    /\ step[s] \in {"check", "write"} /\ ~AtEnd(s)
    /\ SetStatus(s, "error") /\ Advance(s) /\ Goto(s, "check")
    /\ disturbed' = [disturbed EXCEPT ![s] = TRUE]
    /\ UNCHANGED <<repoVars, requestVars, pack, illegal, applied>>

\* Faulty variant: the commands the loop did not come to are not reported.
ReportEarly(s) ==
    /\ step[s] = "check" /\ (AtEnd(s) \/ err[s])
    /\ Goto(s, "done")
    /\ UNCHANGED <<repoVars, requestVars, pack, at, illegal, answerVars, disturbed>>

Report(s) ==
    /\ step[s] = "check" /\ AtEnd(s)
    /\ Goto(s, "done")
    /\ UNCHANGED <<repoVars, requestVars, pack, at, illegal, answerVars, disturbed>>

\* An allocation or a lookup of the validation fails: there is no report,
\* whatever was imported and applied.
Raise(s) ==
    /\ step[s] \in {"unpack", "validate", "check"}
    /\ Goto(s, "raised")
    /\ UNCHANGED <<repoVars, requestVars, pack, at, illegal, answerVars, disturbed>>

\* What the server does in a session, but for the request it is sent.
Serve(s) ==
    \/ Advertise(s)
    \/ \E o \in Objects : Unpack(s, o)
    \/ UnpackFails(s) \/ Unpacked(s)
    \/ Validate(s) \/ Validated(s)
    \/ Check(s) \/ Write(s) \/ StorerFails(s)
    \/ Report(s) \/ Raise(s)

Next == \E s \in Sessions : Request(s) \/ Serve(s)

Spec == Init /\ [][Next]_vars

-----------------------------------------------------------------------------
(* Types; and a report that is not about a pack has a status for every     *)
(* command, while a command that was not reached has none.                 *)
TypeOK ==
    /\ objects \subseteq Objects
    /\ refs \in [Names -> Ref]
    /\ writer \in [Names -> Sessions \cup {Absent}]
    /\ step \in [Sessions -> Steps]
    /\ seen \in [Sessions -> [Names -> Ref]]
    /\ atomic \in [Sessions -> BOOLEAN]
    /\ commands \in [Sessions -> Seq(Command)]
    /\ pack \in [Sessions -> SUBSET Objects]
    /\ at \in [Sessions -> Nat \ {0}]
    /\ illegal \in [Sessions -> BOOLEAN]
    /\ status \in [Sessions -> [Names -> {"none", "ok", "error"}]]
    /\ err \in [Sessions -> BOOLEAN]
    /\ disturbed \in [Sessions -> BOOLEAN]
    /\ \A s \in Sessions :
        /\ applied[s] \subseteq Indices(s)
        /\ step[s] = "write" => ~AtEnd(s)
        /\ step[s] = "done" /\ pack[s] = {} =>
             \A n \in Named(s) : status[s][n] # "none"
        /\ \A n \in Names \ Named(s) : status[s][n] = "none"

Finished(s) == step[s] = "done"
Last(s, n) == CHOOSE i \in Indices(s) :
                 /\ commands[s][i].name = n
                 /\ \A j \in Indices(s) : commands[s][j].name = n => j <= i

Repeats(s) == Cardinality(Named(s)) # Len(commands[s])

(* The repository has the whole history of every reference, however        *)
(* sessions interleave and wherever an import of a pack stops, as long as  *)
(* clients send what the advertised references lack.                       *)
RefsHaveObjects == Closure(Range(refs)) \subseteq objects

(* A name reported as ok has the value its last command asked for, unless  *)
(* another session wrote it since.                                         *)
OkMeansInForce ==
    \A s \in Sessions : \A n \in Named(s) :
        Finished(s) /\ status[s][n] = "ok" =>
            /\ Last(s, n) \in applied[s]
            /\ writer[n] = s => refs[n] = commands[s][Last(s, n)].new

(* A push that ends without an error applied each of its commands.         *)
CleanAnswer ==
    \A s \in Sessions :
        Finished(s) /\ ~err[s] => applied[s] = Indices(s)

(* An atomic push applied all of its commands or none, unless a call of    *)
(* the storer failed, another session wrote one of its references while it *)
(* was at work, or it names a reference twice: validating first and        *)
(* applying later gives no more than that.                                 *)
AtomicUnlessDisturbed ==
    \A s \in Sessions :
        Finished(s) /\ atomic[s] /\ ~disturbed[s] /\ ~Repeats(s) =>
            applied[s] \in {{}, Indices(s)}
=============================================================================

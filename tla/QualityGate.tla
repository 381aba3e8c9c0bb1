----------------------------- MODULE QualityGate ----------------------------
(***************************************************************************)
(* The repository's quality gate: the programs under tools/inventory and   *)
(* tools/golden that read the inventories, the source tree and the golden  *)
(* cases, each on its own, and that must all succeed for a change to go    *)
(* in.  Contributors edit the repository one thing at a time; the gate     *)
(* runs its five checks on what they left.                                 *)
(*                                                                         *)
(* A YAML file is its document: SimpleYaml models how it is read.  Go      *)
(* names, paths and identifiers are strings, "" where the field is absent; *)
(* a source text is the set of its words.                                  *)
(***************************************************************************)
EXTENDS Integers, SequencesExt

CONSTANTS
  Paths,      \* the package paths that lie under the source root, without detours
  TopOf,      \* the first component of a path, "" of the root itself
  Mentions,   \* the top-level name a row's path mentions, wherever it leads
  Above,      \* the paths of the directories a path lies in
  Within,     \* Within[w]: the symbols the word w contains
  SymbolOf,   \* the symbol of an identifier, what follows its last dot
  ApiFiles, Cases,    \* the API inventories, the directories of golden cases
  Rows, Trees, Docs, Lists, Goldens, Pins,  \* what contributors write
  MaxRows, MaxEdits,  \* bounds: the rows of packages.yaml, the edits
  Limits,     \* the thresholds of metrics.yaml
  Initial     \* the repository they start from

VARIABLES
  repo,       \* the repository
  results,    \* the result of every check that has run on it
  edits       \* the number of edits so far

vars == <<repo, results, edits>>

Repository ==
  [loads : BOOLEAN, pin : Pins, pinMd : Pins, packages : Seq(Rows),
   tree : [Paths -> Trees], api : [ApiFiles -> Docs], allow : Seq(Lists),
   goldens : [Cases -> Goldens]]

ASSUME BoundsAreNumbers == MaxRows \in Nat /\ MaxEdits \in Nat
ASSUME InitialIsRepository == Initial \in Repository /\ Len(Initial.packages) <= MaxRows
\* What follows src/ is mentioned, and the first component of a path without src/;
\* so a path under the root mentions the directory it is in.
ASSUME PathsMentionTheirTop == \A p \in Paths : Mentions[p] = TopOf[p]
\* A repository has finitely many API files, and a document finitely many errors.
ASSUME InputsAreFinite == IsFiniteSet(ApiFiles) /\ \A d \in Docs : IsFiniteSet(d.bad)
\* An allowlist that loads is a list of entries.
ASSUME ListsHoldEntries ==
  \A l \in Lists : l.kind = "entries" => l.entries \in Seq(Range(l.entries))

Indices(s, Test(_)) == {i \in DOMAIN s : Test(s[i])}
-----------------------------------------------------------------------------
\* check_file_inventory.py

Valid == {"required", "excluded", "test_only", "deferred"}
Enforced == {"required", "deferred"}

\* A row without a status is required.
Status(row) == IF row.status = "" THEN "required" ELSE row.status

\* Faulty variant: the sources of nested packages are found as well.
HasZigBelow(r, zig) ==
  \E p \in Paths : TopOf[p] = TopOf[zig] /\ r.tree[p].zig # {}

\* A package has Zig files of its own; nested packages do not count.
HasZig(r, zig) == r.tree[zig].zig # {}

\* Directories and files right under the root, the root's own files aside.
TopLevel(r) == {TopOf[p] : p \in {q \in Paths : r.tree[q].dir}} \ {""}

\* The names that rows mention, whatever their status: the path of a row that is
\* not enforced is never looked at, and may lie anywhere.
InventoryTops(r) == {Mentions[r.packages[i].zig] : i \in DOMAIN r.packages}

\* Faulty variant: a check that cannot load its input succeeds.
StoppedQuietly == [ok |-> TRUE, counted |-> FALSE]

\* A check that raises or fails to load its input has no counts.
Stopped == [ok |-> FALSE, counted |-> FALSE]

\* A row that is not a mapping is reported and then makes the collection of
\* top-level names raise.
FileInventory(r) ==
  LET enforced == Indices(r.packages, LAMBDA row :
                    row.mapping /\ Status(row) \in Enforced)
      required == {i \in enforced : r.packages[i].zig \in Paths}
      missing == {i \in required : ~HasZig(r, r.packages[i].zig)}
      invalid == Indices(r.packages, LAMBDA row : Status(row) \notin Valid)
                 \cup (enforced \ required)
      unexpected == TopLevel(r) \ InventoryTops(r)
  IN  IF ~r.loads \/ \E i \in DOMAIN r.packages : ~r.packages[i].mapping
      THEN Stopped
      ELSE [ok |-> missing \cup invalid = {} /\ unexpected = {},
            counted |-> TRUE,
            required |-> Cardinality(required),
            present |-> Cardinality(required \ missing),
            missing |-> Cardinality(missing)]
-----------------------------------------------------------------------------
\* check_api_inventory.py

Words(r, zig) == IF zig \in Paths THEN UNION r.tree[zig].zig ELSE {}
Occurs(id, words) == \E w \in words : SymbolOf[id] \in Within[w]

\* The rows by Go name; of two rows with a name the last one counts.
Names(r) == {r.packages[i].go : i \in
               Indices(r.packages, LAMBDA row : row.mapping /\ row.go # "")}
RowOf(r, name) ==
  r.packages[Max(Indices(r.packages, LAMBDA row : row.mapping /\ row.go = name))]

Loaded(r) == {f \in ApiFiles : r.api[f].kind = "mapping"}
SchemaErrors(doc) == Cardinality(doc.bad) + (IF doc.package = "" THEN 1 ELSE 0)
Ids(doc) == doc.semantic \cup {doc.map[n] : n \in DOMAIN doc.map}

\* Faulty variant: the identifiers are looked up in the whole source tree.
MapsAnywhere(r, doc) ==
  /\ doc.package \in Names(r)
  /\ Words(r, RowOf(r, doc.package).zig) # {}
  /\ \A id \in Ids(doc) : \E p \in Paths : Occurs(id, Words(r, p))

\* The package of a valid document is in packages.yaml, has text, and the text
\* holds the symbol of every identifier.
Maps(r, doc) ==
  /\ doc.package \in Names(r)
  /\ Words(r, RowOf(r, doc.package).zig) # {}
  /\ \A id \in Ids(doc) : Occurs(id, Words(r, RowOf(r, doc.package).zig))

ApiInventory(r) ==
  LET files == {f \in ApiFiles : r.api[f].kind # "absent"}
      named == {f \in Loaded(r) : r.api[f].package # ""}
      failing == {f \in named : SchemaErrors(r.api[f]) = 0 /\ ~Maps(r, r.api[f])}
      missing == {n \in Names(r) : /\ Status(RowOf(r, n)) \in Enforced
                                   /\ n \notin {r.api[f].package : f \in named}}
      errors == (files \ Loaded(r)) \cup {f \in Loaded(r) : SchemaErrors(r.api[f]) > 0}
  IN  IF ~r.loads THEN Stopped
      ELSE [ok |-> errors = {} /\ failing = {} /\ missing = {},
            counted |-> TRUE,
            files |-> Cardinality(files),
            mapped |-> Cardinality({f \in named : SchemaErrors(r.api[f]) = 0} \ failing)]
-----------------------------------------------------------------------------
\* check_allowlists.py

\* The entries of a list that are mappings; the others are errors.
Mappings(entries) ==
  LET kept[n \in 0 .. Len(entries)] ==
        IF n = 0 THEN <<>>
        ELSE kept[n - 1] \o (IF entries[n].mapping THEN <<entries[n]>> ELSE <<>>)
  IN  kept[Len(entries)]

\* The entries of every list that loads.
Entries(r) ==
  [i \in DOMAIN r.allow |->
     IF r.allow[i].kind = "entries" THEN Mappings(r.allow[i].entries) ELSE <<>>]
\* Faulty variant: the entries of a list replace those of the lists before it.
ActiveOfLast(r) == IF r.allow = <<>> THEN <<>> ELSE Last(Entries(r))
Active(r) == FlattenSeq(Entries(r))
LoadErrors(r) ==
  MapThenSumSet(LAMBDA i : IF r.allow[i].kind = "entries"
                           THEN Len(r.allow[i].entries) - Len(Entries(r)[i]) ELSE 1,
                DOMAIN r.allow)

\* Numbers as ids are not compared with each other.
Allowlists(r) ==
  LET active == Active(r)
      incomplete == Indices(active, LAMBDA e : e.id = "" \/ e.reason = "")
      repeated == {i \in DOMAIN active : /\ active[i].text
                                         /\ \E j \in 1 .. i - 1 : active[j].text /\ active[j].id = active[i].id}
      invalid == LoadErrors(r) + Cardinality(incomplete) + Cardinality(repeated)
  IN  [ok |-> invalid = 0, counted |-> TRUE, active |-> Len(active)]
-----------------------------------------------------------------------------
\* run_goldens.py

StripNewlines(s) ==
  SubSeq(s, 1, Max({0} \cup Indices(s, LAMBDA c : c # "\n")))
HasPart(s, part) ==
  \E i \in 0 .. Len(s) - Len(part) : SubSeq(s, i + 1, i + Len(part)) = part

\* A file is its characters in a tuple of one, or <<>> when it is missing.
RunCase(g) ==
  /\ g.kind = "mapping"
  /\ g.actual # <<>> /\ g.expected # <<>>
  /\ LET actual == g.actual[1]
         expected == g.expected[1]
     IN  \/ g.type = "file_equals" /\ actual = expected
         \/ g.type = "text_equals" /\ StripNewlines(actual) = StripNewlines(expected)
         \/ g.type = "static_contains" /\ HasPart(actual, expected)

Metas(r) == {c \in Cases : r.goldens[c].kind # "absent"}

RunGoldens(r) ==
  LET failed == {c \in Metas(r) : ~RunCase(r.goldens[c])}
  IN  [ok |-> Metas(r) # {} /\ failed = {}, counted |-> TRUE,
       pass |-> Cardinality(Metas(r) \ failed)]
-----------------------------------------------------------------------------
\* check_metrics.py

\* Faulty variant: deferred rows are not counted.
MetricRowsRequired(r) ==
  Indices(r.packages, LAMBDA row : row.mapping /\ Status(row) = "required")

\* The rows that count as required for the metrics.
MetricRows(r) ==
  Indices(r.packages, LAMBDA row : row.mapping /\ Status(row) \in Enforced)

PresentRows(r) ==
  {i \in MetricRows(r) : /\ r.packages[i].zig \in Paths
                         /\ HasZig(r, r.packages[i].zig)}

\* The names the API inventories require, and those of them that are mapped.
Readable(r) == {f \in Loaded(r) : {"require", "zig_map"} \cap r.api[f].bad = {}}
RequiredNames(r) ==
  MapThenSumSet(LAMBDA f : Cardinality(r.api[f].names), Readable(r))
MappedNames(r) ==
  MapThenSumSet(LAMBDA f : Cardinality(r.api[f].names \cap DOMAIN r.api[f].map),
                Readable(r))

\* Every meta file counts, and every file that ends in ".expected".
GoldenCount(r) ==
  MapThenSumSet(LAMBDA c : r.goldens[c].dotExpected + (IF c \in Metas(r) THEN 1 ELSE 0),
                Cases)

PinsAgree(r) ==
  /\ Limits.pin # "" => r.pin = Limits.pin
  /\ r.pinMd # "" /\ r.pin # "" => r.pinMd = r.pin

Metrics(r) ==
  LET required == MetricRows(r)
      present == PresentRows(r)
  IN  IF ~r.loads THEN Stopped
      ELSE [ok |-> /\ PinsAgree(r)
                   /\ Len(r.packages) >= Limits.total
                   /\ Cardinality(required) >= Limits.required
                   /\ Cardinality(required \ present) <= Limits.missing
                   /\ Cardinality(Loaded(r)) >= Limits.files
                   /\ \/ RequiredNames(r) = 0
                      \/ 100 * MappedNames(r) >= Limits.percent * RequiredNames(r)
                   /\ GoldenCount(r) >= Limits.goldens
                   /\ LoadErrors(r) = 0 /\ Len(Active(r)) <= Limits.active,
            counted |-> TRUE,
            present |-> Cardinality(present),
            missing |-> Cardinality(required \ present),
            files |-> Cardinality(Loaded(r)),
            goldens |-> GoldenCount(r),
            active |-> Len(Active(r))]
-----------------------------------------------------------------------------
\* The gate: five programs, each a test of its own.
Checks == {"file", "api", "allowlists", "metrics", "goldens"}

Unrun == [ok |-> FALSE, counted |-> FALSE, ran |-> FALSE]
Ran(result) ==
  [field \in {"ran"} \cup DOMAIN result |-> IF field = "ran" THEN TRUE ELSE result[field]]
Passed == \A c \in Checks : results[c].ok

Init ==
  /\ repo = Initial
  /\ results = [c \in Checks |-> Unrun]
  /\ edits = 0

\* A check runs once the checks before it have, in the order of the scripts'
\* names; they share nothing but what they read.
Check(c, before, result) ==
  /\ \A d \in before : results[d].ran
  /\ ~results[c].ran
  /\ results' = [results EXCEPT ![c] = Ran(result)]
  /\ UNCHANGED <<repo, edits>>

CheckAllowlists == Check("allowlists", {}, Allowlists(repo))
CheckApi == Check("api", {"allowlists"}, ApiInventory(repo))
CheckFiles == Check("file", {"api"}, FileInventory(repo))
CheckGoldens == Check("goldens", {"file"}, RunGoldens(repo))
CheckMetrics == Check("metrics", {"goldens"}, Metrics(repo))

\* A change to the repository; the checks have to run again.
Edit(r) ==
  /\ edits < MaxEdits
  /\ r # repo
  /\ repo' = r
  /\ results' = [c \in Checks |-> Unrun]
  /\ edits' = edits + 1

EditPackages ==
  \/ \E i \in DOMAIN repo.packages, row \in Rows :
       Edit([repo EXCEPT !.packages[i] = row])
  \/ /\ Len(repo.packages) < MaxRows
     /\ \E row \in Rows : Edit([repo EXCEPT !.packages = Append(@, row)])
  \/ Edit([repo EXCEPT !.loads = FALSE])
EditSources ==
  \E p \in Paths, t \in Trees :
    /\ t.dir => \A q \in Above[p] : repo.tree[q].dir
    /\ ~t.dir => \A q \in Paths : p \in Above[q] => ~repo.tree[q].dir
    /\ Edit([repo EXCEPT !.tree[p] = t])
EditApi == \E f \in ApiFiles, d \in Docs : Edit([repo EXCEPT !.api[f] = d])
EditAllowlists ==
  \/ \E l \in Lists : Edit([repo EXCEPT !.allow = Append(@, l)])
  \/ repo.allow # <<>> /\ Edit([repo EXCEPT !.allow = Tail(@)])
EditGoldens == \E c \in Cases, g \in Goldens : Edit([repo EXCEPT !.goldens[c] = g])
EditPins ==
  \E pin \in Pins : Edit([repo EXCEPT !.pin = pin]) \/ Edit([repo EXCEPT !.pinMd = pin])

Next ==
  \/ CheckAllowlists \/ CheckApi \/ CheckFiles \/ CheckGoldens \/ CheckMetrics
  \/ EditPackages \/ EditSources \/ EditApi \/ EditAllowlists \/ EditGoldens
  \/ EditPins

Spec == Init /\ [][Next]_vars
-----------------------------------------------------------------------------
\* The repository stays within what contributors write, and a check that could
\* not read its input never succeeds.
TypeOK ==
  /\ edits \in 0 .. MaxEdits
  /\ repo \in Repository /\ Len(repo.packages) <= MaxRows
  /\ \A c \in Checks : results[c].ok => results[c].counted

\* What a green gate means for the source tree: the rows and the tree agree.
\* An enforced row has sources of its own, whoever else has sources below it.
\* Of what lies under the source root, each top-level directory or file has a row
\* with a path in it, or else a row that says it is out of scope mentions it: such
\* a path counts although it leads elsewhere, and no enforced row's ever does.
SourcesAreInventoried ==
  Passed =>
    /\ \A i \in DOMAIN repo.packages :
         LET row == repo.packages[i] IN
         Status(row) \in {"required", "deferred"} =>
           row.zig \in Paths /\ repo.tree[row.zig].zig # {}
    /\ \A p \in Paths : repo.tree[p].dir /\ TopOf[p] # "" =>
         \E i \in DOMAIN repo.packages :
           LET row == repo.packages[i] IN
           \/ row.zig \in Paths /\ TopOf[row.zig] = TopOf[p]
           \/ row.status \in {"excluded", "test_only"} /\ Mentions[row.zig] = TopOf[p]

\* What a green gate means for the API: every enforced package whose name no
\* later row repeats has an inventory, and each symbol it maps occurs in the
\* sources of that package, not merely somewhere in the tree.
SurfaceIsMapped ==
  Passed =>
    \A i \in DOMAIN repo.packages :
      LET row == repo.packages[i] IN
      /\ Status(row) \in {"required", "deferred"} /\ row.go # ""
      /\ \A j \in i + 1 .. Len(repo.packages) : repo.packages[j].go # row.go
      => \E f \in ApiFiles :
           /\ repo.api[f].kind = "mapping" /\ repo.api[f].package = row.go
           /\ \A id \in Ids(repo.api[f]) :
                \E text \in repo.tree[row.zig].zig : \E w \in text :
                  SymbolOf[id] \in Within[w]

\* Programs that count the same thing agree on it, though each counts for
\* itself: the file inventory and the metrics on the packages present, the API
\* inventory and the metrics on a green gate's API files, the allowlist check
\* and the metrics on the active entries.
CountsAgree ==
  LET Both(c, d) == results[c].counted /\ results[d].counted IN
  /\ Both("file", "metrics") =>
       /\ results["file"].present = results["metrics"].present
       /\ results["file"].missing <= results["metrics"].missing
       /\ results["file"].ok => results["metrics"].missing = 0
  /\ Both("api", "metrics") =>
       /\ results["metrics"].files <= results["api"].files
       /\ results["api"].ok => results["api"].files = results["metrics"].files
  /\ Both("allowlists", "metrics") =>
       results["allowlists"].active = results["metrics"].active

\* No gap hides: a green gate has no more accepted gaps than the threshold
\* allows, however they are spread over the lists, and no golden case fails.
NothingIsTolerated ==
  Passed =>
    /\ MapThenSumSet(LAMBDA i : Len(repo.allow[i].entries), DOMAIN repo.allow)
         <= Limits.active
    /\ results["goldens"].pass = Cardinality(Metas(repo))
=============================================================================

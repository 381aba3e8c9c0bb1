------------------------- MODULE QualityGate_proofs --------------------------
(***************************************************************************)
(* Proofs about QualityGate: what a green gate means for the sources, the  *)
(* API and the accepted gaps of the repository, whatever contributors      *)
(* write.                                                                  *)
(***************************************************************************)
EXTENDS QualityGate, FiniteSetTheorems, SequenceTheorems, WellFoundedInduction, TLAPS

\* The result of each check on the repository.
Result(c) ==
  CASE c = "file" -> FileInventory(repo)
    [] c = "api" -> ApiInventory(repo)
    [] c = "allowlists" -> Allowlists(repo)
    [] c = "metrics" -> Metrics(repo)
    [] c = "goldens" -> RunGoldens(repo)

\* What a check has is its result on the repository as it is, never on an earlier one.
Current == \A c \in Checks : results[c] \in {Unrun, Ran(Result(c))}

GateInv ==
  /\ edits \in 0 .. MaxEdits
  /\ repo \in Repository /\ Len(repo.packages) <= MaxRows
  /\ DOMAIN results = Checks
  /\ Current

-----------------------------------------------------------------------------
\* A check's result keeps its fields when it is noted that the check ran.
LEMMA RanFields ==
  ASSUME NEW result, NEW x \in DOMAIN result, x # "ran"
  PROVE  Ran(result)[x] = result[x]
  BY DEF Ran

\* Nothing is said by a check that has not run.
LEMMA UnrunFails == Unrun.ok = FALSE /\ Unrun.counted = FALSE
  BY DEF Unrun

\* What a check that is done says is what it finds in the repository.
LEMMA Says ==
  ASSUME Current, NEW c \in Checks, NEW x \in DOMAIN Result(c), x # "ran",
         results[c].ok = TRUE \/ results[c].counted = TRUE
  PROVE  results[c][x] = Result(c)[x]
  BY UnrunFails, RanFields DEF Current

-----------------------------------------------------------------------------
\* The invariant.

\* The repository is one at first, and nothing has run.
LEMMA GateInit == Init => GateInv
  BY BoundsAreNumbers, InitialIsRepository DEF Init, GateInv, Current

\* What a check says depends on the repository only.
LEMMA SameResults == UNCHANGED repo => \A c \in Checks : Result(c)' = Result(c)
  BY DEF Result

\* A check writes its own result, that on the repository.
LEMMA CheckKeeps ==
  ASSUME GateInv, NEW c \in Checks, NEW before, NEW result, Check(c, before, result),
         result = Result(c)
  PROVE  GateInv'
  <1>1. /\ UNCHANGED <<repo, edits>>
        /\ \A d \in Checks : results'[d] = IF d = c THEN Ran(result) ELSE results[d]
        /\ DOMAIN results' = Checks
    BY DEF Check, GateInv
  <1>2. \A d \in Checks : Result(d)' = Result(d)
    BY <1>1, SameResults
  <1>3. Current'
    <2> SUFFICES ASSUME NEW d \in Checks PROVE results'[d] \in {Unrun, Ran(Result(d)')}
      BY DEF Current
    <2>1. CASE d = c
      BY <1>1, <1>2, <2>1
    <2>2. CASE d # c
      BY <1>1, <1>2, <2>2 DEF Current, GateInv
    <2> QED BY <2>1, <2>2
  <1> QED BY <1>1, <1>3 DEF GateInv

\* An edit that leaves a repository takes every result away.
LEMMA EditKeeps ==
  ASSUME GateInv, NEW r, Edit(r), r \in Repository, Len(r.packages) <= MaxRows
  PROVE  GateInv'
  <1>1. edits' \in 0 .. MaxEdits
    BY BoundsAreNumbers DEF GateInv, Edit
  <1>2. DOMAIN results' = Checks /\ Current'
    BY DEF Edit, Current
  <1> QED BY <1>1, <1>2 DEF GateInv, Edit

\* What contributors write is a repository.
LEMMA EditsKeep ==
  ASSUME GateInv,
         EditPackages \/ EditSources \/ EditApi \/ EditAllowlists \/ EditGoldens \/ EditPins
  PROVE  GateInv'
  <1> USE DEF GateInv, Repository
  <1>1. repo \in Repository /\ Len(repo.packages) \in Nat /\ Len(repo.packages) <= MaxRows
    OBVIOUS
  <1>2. ASSUME NEW i \in DOMAIN repo.packages, NEW row \in Rows,
               Edit([repo EXCEPT !.packages[i] = row])
        PROVE  GateInv'
    <2>1. [repo.packages EXCEPT ![i] = row] \in Seq(Rows)
          /\ Len([repo.packages EXCEPT ![i] = row]) = Len(repo.packages)
      BY <1>1, <1>2
    <2> QED BY <1>1, <1>2, <2>1, EditKeeps
  <1>3. ASSUME NEW row \in Rows, Len(repo.packages) < MaxRows,
               Edit([repo EXCEPT !.packages = Append(@, row)])
        PROVE  GateInv'
    <2>1. Append(repo.packages, row) \in Seq(Rows)
          /\ Len(Append(repo.packages, row)) = Len(repo.packages) + 1
      BY <1>1, <1>3
    <2>2. /\ [repo EXCEPT !.packages = Append(@, row)] \in Repository
          /\ [repo EXCEPT !.packages = Append(@, row)].packages = Append(repo.packages, row)
      BY <1>1, <2>1
    <2>3. Len(Append(repo.packages, row)) <= MaxRows
      BY <1>1, <1>3, <2>1, BoundsAreNumbers
    <2> QED BY <1>3, <2>2, <2>3, EditKeeps
  <1>4. ASSUME Edit([repo EXCEPT !.loads = FALSE]) PROVE GateInv'
    BY <1>1, <1>4, EditKeeps
  <1>5. CASE EditPackages
    BY <1>2, <1>3, <1>4, <1>5 DEF EditPackages
  <1>6. ASSUME NEW p \in Paths, NEW t \in Trees, Edit([repo EXCEPT !.tree[p] = t])
        PROVE  GateInv'
    BY <1>1, <1>6, EditKeeps
  <1>7. ASSUME NEW f \in ApiFiles, NEW d \in Docs, Edit([repo EXCEPT !.api[f] = d])
        PROVE  GateInv'
    BY <1>1, <1>7, EditKeeps
  <1>8. ASSUME NEW l \in Lists, Edit([repo EXCEPT !.allow = Append(@, l)])
        PROVE  GateInv'
    <2>1. Append(repo.allow, l) \in Seq(Lists)
      BY <1>1, <1>8
    <2>2. [repo EXCEPT !.allow = Append(@, l)] \in Repository
      BY <1>1, <2>1
    <2> QED BY <1>1, <1>8, <2>2, EditKeeps
  <1>9. ASSUME repo.allow # <<>>, Edit([repo EXCEPT !.allow = Tail(@)])
        PROVE  GateInv'
    <2>1. Tail(repo.allow) \in Seq(Lists)
      BY <1>1, <1>9
    <2>2. [repo EXCEPT !.allow = Tail(@)] \in Repository
      BY <1>1, <2>1
    <2> QED BY <1>1, <1>9, <2>2, EditKeeps
  <1>10. ASSUME NEW c \in Cases, NEW g \in Goldens, Edit([repo EXCEPT !.goldens[c] = g])
         PROVE  GateInv'
    BY <1>1, <1>10, EditKeeps
  <1>11. ASSUME NEW pin \in Pins,
                Edit([repo EXCEPT !.pin = pin]) \/ Edit([repo EXCEPT !.pinMd = pin])
         PROVE  GateInv'
    BY <1>1, <1>11, EditKeeps
  <1> QED
    BY <1>5, <1>6, <1>7, <1>8, <1>9, <1>10, <1>11
       DEF EditSources, EditApi, EditAllowlists, EditGoldens, EditPins

\* No step leaves a result that is not the repository's.
LEMMA GateStep == GateInv /\ [Next]_vars => GateInv'
  <1> SUFFICES ASSUME GateInv, [Next]_vars PROVE GateInv'
    OBVIOUS
  <1>1. CASE CheckAllowlists
    BY <1>1, CheckKeeps DEF CheckAllowlists, Result, Checks
  <1>2. CASE CheckApi
    BY <1>2, CheckKeeps DEF CheckApi, Result, Checks
  <1>3. CASE CheckFiles
    BY <1>3, CheckKeeps DEF CheckFiles, Result, Checks
  <1>4. CASE CheckGoldens
    BY <1>4, CheckKeeps DEF CheckGoldens, Result, Checks
  <1>5. CASE CheckMetrics
    BY <1>5, CheckKeeps DEF CheckMetrics, Result, Checks
  <1>6. CASE UNCHANGED vars
    <2>1. UNCHANGED <<repo, results, edits>>
      BY <1>6 DEF vars
    <2>2. \A d \in Checks : Result(d)' = Result(d)
      BY <2>1, SameResults
    <2> QED BY <2>1, <2>2 DEF GateInv, Current
  <1> QED BY <1>1, <1>2, <1>3, <1>4, <1>5, <1>6, EditsKeep DEF Next

LEMMA GateHolds == Spec => []GateInv
  BY GateInit, GateStep, PTL DEF Spec

-----------------------------------------------------------------------------
\* What the results say.

\* A check that ran has said what it finds; one that has not says neither yes nor
\* anything that counts.
LEMMA SaysOk ==
  ASSUME Current, NEW c \in Checks, results[c].ok,
         {"ok", "counted"} \subseteq DOMAIN Result(c)
  PROVE  Result(c).ok
  BY UnrunFails, RanFields DEF Current

LEMMA SaysCounted ==
  ASSUME Current, NEW c \in Checks, results[c].counted,
         {"ok", "counted"} \subseteq DOMAIN Result(c)
  PROVE  /\ Result(c).counted
         /\ \A x \in DOMAIN Result(c) \ {"ran"} : results[c][x] = Result(c)[x]
  BY UnrunFails, RanFields DEF Current

\* Every check answers, and says yes only when it could count.
LEMMA AllAnswer ==
  \A c \in Checks : /\ {"ok", "counted"} \subseteq DOMAIN Result(c)
                    /\ Result(c).ok => Result(c).counted
  <1>1. {"ok", "counted"} \subseteq DOMAIN Stopped /\ Stopped.ok = FALSE
    BY DEF Stopped
  <1>2. /\ {"ok", "counted"} \subseteq DOMAIN FileInventory(repo)
        /\ FileInventory(repo).ok => FileInventory(repo).counted
    BY <1>1 DEF FileInventory
  <1>3. /\ {"ok", "counted"} \subseteq DOMAIN ApiInventory(repo)
        /\ ApiInventory(repo).ok => ApiInventory(repo).counted
    BY <1>1 DEF ApiInventory
  <1>4. /\ {"ok", "counted"} \subseteq DOMAIN Metrics(repo)
        /\ Metrics(repo).ok => Metrics(repo).counted
    BY <1>1 DEF Metrics
  <1>5. /\ {"ok", "counted"} \subseteq DOMAIN Allowlists(repo)
        /\ Allowlists(repo).ok => Allowlists(repo).counted
    BY DEF Allowlists
  <1>6. /\ {"ok", "counted"} \subseteq DOMAIN RunGoldens(repo)
        /\ RunGoldens(repo).ok => RunGoldens(repo).counted
    BY DEF RunGoldens
  <1>7. /\ Result("file") = FileInventory(repo) /\ Result("api") = ApiInventory(repo)
        /\ Result("metrics") = Metrics(repo) /\ Result("allowlists") = Allowlists(repo)
        /\ Result("goldens") = RunGoldens(repo)
    BY DEF Result
  <1> QED BY <1>2, <1>3, <1>4, <1>5, <1>6, <1>7 DEF Checks

\* The repository stays within what contributors write, and a check that could not
\* read its input never succeeds.
THEOREM TypeCorrect == Spec => []TypeOK
  <1>1. GateInv => TypeOK
    <2> SUFFICES ASSUME GateInv, NEW c \in Checks, results[c].ok PROVE results[c].counted
      BY DEF GateInv, TypeOK
    <2>1. results[c] = Ran(Result(c))
      BY UnrunFails DEF GateInv, Current
    <2> QED BY <2>1, AllAnswer, RanFields
  <1> QED BY <1>1, GateHolds, PTL

-----------------------------------------------------------------------------
\* The packages and their sources.

\* What it takes for the file inventory to succeed.
LEMMA FilesAgree ==
  ASSUME FileInventory(repo).ok
  PROVE  /\ \A i \in DOMAIN repo.packages :
              /\ repo.packages[i].mapping
              /\ Status(repo.packages[i]) \in Enforced =>
                   repo.packages[i].zig \in Paths /\ HasZig(repo, repo.packages[i].zig)
              /\ Status(repo.packages[i]) \in Valid
         /\ TopLevel(repo) \subseteq InventoryTops(repo)
  BY DEF FileInventory, Stopped, Indices

\* A green gate's rows and tree agree: an enforced row has sources of its own, and
\* what lies under the source root has a row with a path in it, or is mentioned by a
\* row that says it is out of scope.
THEOREM GreenSources == Spec => []SourcesAreInventoried
  <1>1. GateInv => SourcesAreInventoried
    <2> SUFFICES ASSUME GateInv, Passed PROVE SourcesAreInventoried
      BY DEF SourcesAreInventoried
    <2>1. FileInventory(repo).ok
      BY SaysOk, AllAnswer DEF GateInv, Passed, Checks, Result
    <2>2. ASSUME NEW i \in DOMAIN repo.packages,
                 Status(repo.packages[i]) \in {"required", "deferred"}
          PROVE  repo.packages[i].zig \in Paths /\ repo.tree[repo.packages[i].zig].zig # {}
      BY <2>1, <2>2, FilesAgree DEF Enforced, HasZig
    <2>3. ASSUME NEW p \in Paths, repo.tree[p].dir, TopOf[p] # ""
          PROVE  \E i \in DOMAIN repo.packages :
                   \/ /\ repo.packages[i].zig \in Paths
                      /\ TopOf[repo.packages[i].zig] = TopOf[p]
                   \/ /\ repo.packages[i].status \in {"excluded", "test_only"}
                      /\ Mentions[repo.packages[i].zig] = TopOf[p]
      <3>1. TopOf[p] \in InventoryTops(repo)
        BY <2>1, <2>3, FilesAgree DEF TopLevel
      <3>2. PICK i \in DOMAIN repo.packages : Mentions[repo.packages[i].zig] = TopOf[p]
        BY <3>1 DEF InventoryTops
      <3>3. CASE Status(repo.packages[i]) \in Enforced
        BY <2>1, <3>2, <3>3, FilesAgree, PathsMentionTheirTop
      <3>4. CASE Status(repo.packages[i]) \notin Enforced
        BY <2>1, <3>2, <3>4, FilesAgree DEF Status, Valid, Enforced
      <3> QED BY <3>3, <3>4
    <2> QED BY <2>2, <2>3 DEF SourcesAreInventoried
  <1> QED BY <1>1, GateHolds, PTL

-----------------------------------------------------------------------------
\* The API inventories.

LEMMA MaxIs ==
  ASSUME NEW S \in SUBSET Int, NEW x \in S, \A y \in S : y <= x
  PROVE  Max(S) = x
  <1>1. \A z \in S : (\A y \in S : z >= y) => z = x
    OBVIOUS
  <1>2. \A y \in S : x >= y
    OBVIOUS
  <1> QED BY <1>1, <1>2 DEF Max

\* Of the rows with a name, the one that no later row repeats is the one that counts.
LEMMA LastRowCounts ==
  ASSUME GateInv, NEW i \in DOMAIN repo.packages, repo.packages[i].mapping,
         \A j \in i + 1 .. Len(repo.packages) : repo.packages[j].go # repo.packages[i].go
  PROVE  RowOf(repo, repo.packages[i].go) = repo.packages[i]
  <1> DEFINE same == {j \in DOMAIN repo.packages :
                        repo.packages[j].mapping /\ repo.packages[j].go = repo.packages[i].go}
  <1>1. Len(repo.packages) \in Nat /\ DOMAIN repo.packages = 1 .. Len(repo.packages)
    BY DEF GateInv, Repository
  <1>2. i \in same /\ same \in SUBSET Int
    BY <1>1
  <1>3. ASSUME NEW j \in same PROVE j <= i
    BY <1>1, <1>3
  <1>4. Max(same) = i
    BY <1>2, <1>3, MaxIs
  <1> QED BY <1>4 DEF RowOf, Indices

\* The errors of a document are so many, or none.
LEMMA NoErrorsIsZero ==
  ASSUME NEW doc \in Docs, ~(SchemaErrors(doc) > 0)
  PROVE  SchemaErrors(doc) = 0
  <1>1. Cardinality(doc.bad) \in Nat
    BY InputsAreFinite, FS_CardinalityType
  <1>2. SchemaErrors(doc) \in {Cardinality(doc.bad) + 1, Cardinality(doc.bad) + 0}
    BY DEF SchemaErrors
  <1> QED BY <1>1, <1>2

\* What it takes for the API check to succeed.
LEMMA SurfaceAgrees ==
  ASSUME GateInv, ApiInventory(repo).ok,
         NEW name \in Names(repo), Status(RowOf(repo, name)) \in Enforced
  PROVE  \E f \in ApiFiles : /\ repo.api[f].kind = "mapping" /\ repo.api[f].package = name
                             /\ Maps(repo, repo.api[f])
  <1> DEFINE named == {f \in Loaded(repo) : repo.api[f].package # ""}
  <1>1. /\ name \in {repo.api[f].package : f \in named}
        /\ \A f \in Loaded(repo) : ~(SchemaErrors(repo.api[f]) > 0)
        /\ \A f \in named : SchemaErrors(repo.api[f]) = 0 => Maps(repo, repo.api[f])
    BY DEF ApiInventory, Stopped
  <1>2. PICK f \in named : repo.api[f].package = name
    BY <1>1
  <1>3. f \in ApiFiles /\ repo.api[f].kind = "mapping" /\ repo.api[f] \in Docs
    <2>1. repo.api \in [ApiFiles -> Docs]
      BY DEF GateInv, Repository
    <2>2. f \in ApiFiles /\ repo.api[f].kind = "mapping"
      BY <1>2 DEF Loaded
    <2> QED BY <2>1, <2>2
  <1>4. Maps(repo, repo.api[f])
    <2>1. ~(SchemaErrors(repo.api[f]) > 0)
      BY <1>1
    <2>2. SchemaErrors(repo.api[f]) = 0
      BY <1>3, <2>1, NoErrorsIsZero
    <2> QED BY <1>1, <2>2
  <1> QED BY <1>2, <1>3, <1>4

\* A green gate's API is mapped: every enforced package has an inventory, and each
\* symbol it maps occurs in the sources of that package, not merely in the tree.
THEOREM GreenSurface == Spec => []SurfaceIsMapped
  <1>1. GateInv => SurfaceIsMapped
    <2> SUFFICES ASSUME GateInv, Passed, NEW i \in DOMAIN repo.packages,
                        Status(repo.packages[i]) \in {"required", "deferred"},
                        repo.packages[i].go # "",
                        \A j \in i + 1 .. Len(repo.packages) :
                          repo.packages[j].go # repo.packages[i].go
                 PROVE  \E f \in ApiFiles :
                          /\ repo.api[f].kind = "mapping"
                          /\ repo.api[f].package = repo.packages[i].go
                          /\ \A id \in Ids(repo.api[f]) :
                               \E text \in repo.tree[repo.packages[i].zig].zig :
                                 \E w \in text : SymbolOf[id] \in Within[w]
      BY DEF SurfaceIsMapped
    <2> DEFINE row == repo.packages[i]
    <2>1. FileInventory(repo).ok /\ ApiInventory(repo).ok
      BY SaysOk, AllAnswer DEF GateInv, Passed, Checks, Result
    <2>2. row.mapping
      BY <2>1, FilesAgree
    <2>3. row.go \in Names(repo) /\ RowOf(repo, row.go) = row
      BY <2>2, LastRowCounts DEF Names, Indices
    <2>4. PICK f \in ApiFiles : /\ repo.api[f].kind = "mapping" /\ repo.api[f].package = row.go
                                /\ Maps(repo, repo.api[f])
      BY <2>1, <2>3, SurfaceAgrees DEF Enforced
    <2>5. ASSUME NEW id \in Ids(repo.api[f])
          PROVE  \E text \in repo.tree[row.zig].zig : \E w \in text : SymbolOf[id] \in Within[w]
      <3>1. Occurs(id, Words(repo, row.zig))
        BY <2>3, <2>4 DEF Maps
      <3> QED BY <3>1 DEF Occurs, Words
    <2> QED BY <2>4, <2>5
  <1> QED BY <1>1, GateHolds, PTL

-----------------------------------------------------------------------------
\* The counts.

\* A part of a finite set counts no more than the whole.
LEMMA PartCounts ==
  ASSUME NEW S, NEW T, IsFiniteSet(T), S \subseteq T
  PROVE  Cardinality(S) <= Cardinality(T)
  BY FS_Subset

\* The rows the file inventory and the metrics look at are the same, but the file
\* inventory leaves out those whose path is not under the source root.
LEMMA FilesCount ==
  ASSUME GateInv, FileInventory(repo).counted, Metrics(repo).counted
  PROVE  /\ FileInventory(repo).present = Metrics(repo).present
         /\ FileInventory(repo).missing <= Metrics(repo).missing
         /\ FileInventory(repo).ok => Metrics(repo).missing = 0
  <1> DEFINE enforced == Indices(repo.packages,
                           LAMBDA row : row.mapping /\ Status(row) \in Enforced)
             required == {i \in enforced : repo.packages[i].zig \in Paths}
             missing == {i \in required : ~HasZig(repo, repo.packages[i].zig)}
  <1>1. /\ FileInventory(repo).present = Cardinality(required \ missing)
        /\ FileInventory(repo).missing = Cardinality(missing)
    BY DEF FileInventory, Stopped
  <1>2. /\ Metrics(repo).present = Cardinality(PresentRows(repo))
        /\ Metrics(repo).missing = Cardinality(MetricRows(repo) \ PresentRows(repo))
    BY DEF Metrics, Stopped
  <1>3. MetricRows(repo) = enforced
    BY DEF MetricRows
  <1>4. PresentRows(repo) = required \ missing
    BY <1>3 DEF PresentRows
  <1>5. missing \subseteq MetricRows(repo) \ PresentRows(repo)
    BY <1>3, <1>4
  <1>6. IsFiniteSet(MetricRows(repo) \ PresentRows(repo))
    <2>1. DOMAIN repo.packages = 1 .. Len(repo.packages) /\ Len(repo.packages) \in Nat
      BY DEF GateInv, Repository
    <2>2. IsFiniteSet(1 .. Len(repo.packages))
      BY <2>1, FS_Interval
    <2>3. MetricRows(repo) \ PresentRows(repo) \subseteq 1 .. Len(repo.packages)
      BY <2>1 DEF MetricRows, Indices
    <2> QED BY <2>2, <2>3, FS_Subset
  <1>7. Cardinality(missing) <= Cardinality(MetricRows(repo) \ PresentRows(repo))
    BY <1>5, <1>6, PartCounts
  <1>8. ASSUME FileInventory(repo).ok PROVE Metrics(repo).missing = 0
    <2>1. \A i \in MetricRows(repo) : i \in PresentRows(repo)
      BY <1>8, FilesAgree DEF MetricRows, PresentRows, Indices
    <2>2. MetricRows(repo) \ PresentRows(repo) = {}
      BY <2>1
    <2> QED BY <1>2, <2>2, FS_EmptySet
  <1> QED BY <1>1, <1>2, <1>4, <1>7, <1>8

\* The metrics count the API files that load, the API check all of them.
LEMMA ApiCount ==
  ASSUME ApiInventory(repo).counted, Metrics(repo).counted
  PROVE  /\ Metrics(repo).files <= ApiInventory(repo).files
         /\ ApiInventory(repo).ok => ApiInventory(repo).files = Metrics(repo).files
  <1> DEFINE files == {f \in ApiFiles : repo.api[f].kind # "absent"}
  <1>1. /\ ApiInventory(repo).files = Cardinality(files)
        /\ ApiInventory(repo).ok => files \subseteq Loaded(repo)
    BY DEF ApiInventory, Stopped
  <1>2. Metrics(repo).files = Cardinality(Loaded(repo))
    BY DEF Metrics, Stopped
  <1>3. Loaded(repo) \subseteq files
    BY DEF Loaded
  <1>4. IsFiniteSet(files)
    BY InputsAreFinite, FS_Subset
  <1>5. Cardinality(Loaded(repo)) <= Cardinality(files)
    BY <1>3, <1>4, PartCounts
  <1>6. ApiInventory(repo).ok => files = Loaded(repo)
    BY <1>1, <1>3
  <1> QED BY <1>1, <1>2, <1>5, <1>6

\* Programs that count the same thing for themselves agree on it.
THEOREM CountsMatch == Spec => []CountsAgree
  <1>1. GateInv => CountsAgree
    <2> SUFFICES ASSUME GateInv PROVE CountsAgree
      OBVIOUS
    <2>1. ASSUME NEW c \in Checks, results[c].counted
          PROVE  /\ Result(c).counted
                 /\ \A x \in DOMAIN Result(c) \ {"ran"} : results[c][x] = Result(c)[x]
      BY <2>1, SaysCounted, AllAnswer DEF GateInv
    <2>2. ASSUME results["file"].counted
          PROVE  /\ FileInventory(repo).counted
                 /\ results["file"].ok = FileInventory(repo).ok
                 /\ results["file"].present = FileInventory(repo).present
                 /\ results["file"].missing = FileInventory(repo).missing
      <3>1. /\ FileInventory(repo).counted
            /\ \A x \in DOMAIN FileInventory(repo) \ {"ran"} :
                 results["file"][x] = FileInventory(repo)[x]
        BY <2>1, <2>2 DEF Result, Checks
      <3>2. {"ok", "present", "missing"} \subseteq DOMAIN FileInventory(repo)
        BY <3>1 DEF FileInventory, Stopped
      <3> QED BY <3>1, <3>2
    <2>3. ASSUME results["metrics"].counted
          PROVE  /\ Metrics(repo).counted
                 /\ results["metrics"].present = Metrics(repo).present
                 /\ results["metrics"].missing = Metrics(repo).missing
                 /\ results["metrics"].files = Metrics(repo).files
                 /\ results["metrics"].active = Metrics(repo).active
      <3>1. /\ Metrics(repo).counted
            /\ \A x \in DOMAIN Metrics(repo) \ {"ran"} : results["metrics"][x] = Metrics(repo)[x]
        BY <2>1, <2>3 DEF Result, Checks
      <3>2. {"present", "missing", "files", "active"} \subseteq DOMAIN Metrics(repo)
        BY <3>1 DEF Metrics, Stopped
      <3> QED BY <3>1, <3>2
    <2>4. ASSUME results["api"].counted
          PROVE  /\ ApiInventory(repo).counted
                 /\ results["api"].ok = ApiInventory(repo).ok
                 /\ results["api"].files = ApiInventory(repo).files
      <3>1. /\ ApiInventory(repo).counted
            /\ \A x \in DOMAIN ApiInventory(repo) \ {"ran"} :
                 results["api"][x] = ApiInventory(repo)[x]
        BY <2>1, <2>4 DEF Result, Checks
      <3>2. {"ok", "files"} \subseteq DOMAIN ApiInventory(repo)
        BY <3>1 DEF ApiInventory, Stopped
      <3> QED BY <3>1, <3>2
    <2>5. ASSUME results["allowlists"].counted, results["metrics"].counted
          PROVE  results["allowlists"].active = results["metrics"].active
      <3>1. results["allowlists"].active = Allowlists(repo).active
        BY <2>1, <2>5 DEF Result, Checks, Allowlists
      <3>2. Metrics(repo).active = Len(Active(repo))
        BY <2>3, <2>5 DEF Metrics, Stopped
      <3>3. Allowlists(repo).active = Len(Active(repo))
        BY DEF Allowlists
      <3> QED BY <2>3, <2>5, <3>1, <3>2, <3>3
    <2>6. ASSUME results["file"].counted, results["metrics"].counted
          PROVE  /\ results["file"].present = results["metrics"].present
                 /\ results["file"].missing <= results["metrics"].missing
                 /\ results["file"].ok => results["metrics"].missing = 0
      BY <2>2, <2>3, <2>6, FilesCount
    <2>7. ASSUME results["api"].counted, results["metrics"].counted
          PROVE  /\ results["metrics"].files <= results["api"].files
                 /\ results["api"].ok => results["api"].files = results["metrics"].files
      BY <2>3, <2>4, <2>7, ApiCount
    <2> QED BY <2>5, <2>6, <2>7 DEF CountsAgree
  <1> QED BY <1>1, GateHolds, PTL

-----------------------------------------------------------------------------
\* Sums over finite sets.

\* Among some natural numbers there is a least one.
LEMMA LeastExists ==
  ASSUME NEW T \in SUBSET Nat, T # {}
  PROVE  \E m \in T : \A n \in T : m <= n
  <1> DEFINE R == {pair \in Nat \X Nat : pair[1] < pair[2]}
  <1>1. IsWellFoundedOn(R, Nat)
    BY NatLessThanWellFounded DEF OpToRel
  <1>2. PICK m \in T : \A n \in T : <<n, m>> \notin R
    <2> HIDE DEF R
    <2> QED BY <1>1, WFMin
  <1>3. ASSUME NEW n \in T PROVE m <= n
    <2>1. m \in Nat /\ n \in Nat /\ ~ (n < m)
      BY <1>2
    <2> QED BY <2>1
  <1> QED BY <1>3

\* As many pairs for an element as its number says: the sum of the numbers of some
\* elements is the number of their pairs.
PairsOf(g, x) == {x} \X (1 .. g[x])
Pairs(g, s) == UNION {PairsOf(g, x) : x \in s}

LEMMA PairsOfCount ==
  ASSUME NEW S, NEW g \in [S -> Nat], NEW x \in S
  PROVE  IsFiniteSet(PairsOf(g, x)) /\ Cardinality(PairsOf(g, x)) = g[x]
  <1>1. g[x] \in Nat
    OBVIOUS
  <1>2. IsFiniteSet(1 .. g[x]) /\ Cardinality(1 .. g[x]) = g[x]
    BY <1>1, FS_Interval
  <1>3. IsFiniteSet({x}) /\ Cardinality({x}) = 1
    BY FS_Singleton
  <1>4. /\ IsFiniteSet({x} \X (1 .. g[x]))
        /\ Cardinality({x} \X (1 .. g[x])) = 1 * g[x]
    BY <1>2, <1>3, FS_Product
  <1> QED BY <1>1, <1>4 DEF PairsOf

LEMMA PairsFinite ==
  ASSUME NEW S, IsFiniteSet(S), NEW g \in [S -> Nat], NEW s \in SUBSET S
  PROVE  IsFiniteSet(Pairs(g, s)) /\ Cardinality(Pairs(g, s)) \in Nat
  <1> DEFINE T == {PairsOf(g, x) : x \in s}
             f == [x \in s |-> PairsOf(g, x)]
  <1>1. IsFiniteSet(s)
    BY FS_Subset
  <1>2. f \in Surjection(s, T)
    BY DEF Surjection
  <1>3. IsFiniteSet(T)
    <2> HIDE DEF T, f
    <2> QED BY <1>1, <1>2, FS_Surjection
  <1>4. \A t \in T : IsFiniteSet(t)
    BY PairsOfCount
  <1>5. IsFiniteSet(UNION T)
    <2> HIDE DEF T
    <2> QED BY <1>3, <1>4, FS_UNION
  <1> QED BY <1>5, FS_CardinalityType DEF Pairs

LEMMA PairsStep ==
  ASSUME NEW S, IsFiniteSet(S), NEW g \in [S -> Nat], NEW s \in SUBSET S, NEW x \in s
  PROVE  Cardinality(Pairs(g, s)) = g[x] + Cardinality(Pairs(g, s \ {x}))
  <1>1. Pairs(g, s) = PairsOf(g, x) \cup Pairs(g, s \ {x})
    BY DEF Pairs
  <1>2. PairsOf(g, x) \cap Pairs(g, s \ {x}) = {}
    BY DEF Pairs, PairsOf
  <1>3. /\ IsFiniteSet(PairsOf(g, x)) /\ Cardinality(PairsOf(g, x)) = g[x]
        /\ g[x] \in Nat
    BY PairsOfCount
  <1>4. /\ IsFiniteSet(Pairs(g, s \ {x}))
        /\ Cardinality(Pairs(g, s \ {x})) \in Nat
    BY PairsFinite
  <1>5. Cardinality(PairsOf(g, x) \cup Pairs(g, s \ {x}))
          = g[x] + Cardinality(Pairs(g, s \ {x})) - Cardinality({})
    BY <1>2, <1>3, <1>4, FS_Union
  <1> QED BY <1>1, <1>3, <1>4, <1>5, FS_EmptySet

\* The function by which a sum is computed, an element at a time.
ElementwiseSum(f, g, S) ==
  f = [s \in SUBSET S |->
         IF s = {} THEN 0
         ELSE g[CHOOSE x \in s : TRUE] + f[s \ {CHOOSE x \in s : TRUE}]]

LEMMA ElementwiseSumExists ==
  ASSUME NEW S, IsFiniteSet(S), NEW g \in [S -> Nat]
  PROVE  \E f : ElementwiseSum(f, g, S)
  <1> DEFINE f == [s \in SUBSET S |-> Cardinality(Pairs(g, s))]
  <1>1. ASSUME NEW s \in SUBSET S
        PROVE  f[s] = IF s = {} THEN 0
                      ELSE g[CHOOSE x \in s : TRUE] + f[s \ {CHOOSE x \in s : TRUE}]
    <2>1. CASE s = {}
      <3>1. Pairs(g, s) = {}
        BY <2>1 DEF Pairs
      <3> QED BY <2>1, <3>1, FS_EmptySet
    <2>2. CASE s # {}
      <3> DEFINE x == CHOOSE x \in s : TRUE
      <3>1. x \in s
        BY <2>2
      <3> HIDE DEF x
      <3>2. f[s] = g[x] + f[s \ {x}]
        BY <3>1, PairsStep
      <3> QED BY <2>2, <3>2 DEF x
    <2> QED BY <2>1, <2>2
  <1>2. f = [s \in SUBSET S |-> f[s]]
    OBVIOUS
  <1> HIDE DEF f
  <1>3. ElementwiseSum(f, g, S)
    BY <1>1, <1>2 DEF ElementwiseSum
  <1> QED BY <1>3

\* However the elements are chosen, the sum is the number of pairs.
LEMMA SumIs ==
  ASSUME NEW S, IsFiniteSet(S), NEW g \in [S -> Nat], NEW f, ElementwiseSum(f, g, S)
  PROVE  f[S] = Cardinality(Pairs(g, S))
  <1> DEFINE Wrong == {s \in SUBSET S : f[s] # Cardinality(Pairs(g, s))}
             T == {n \in Nat : \E s \in Wrong : n = Cardinality(s)}
  <1>1. \A s \in SUBSET S : IsFiniteSet(s) /\ Cardinality(s) \in Nat
    BY FS_Subset, FS_CardinalityType
  <1> SUFFICES ASSUME Wrong # {} PROVE FALSE
    OBVIOUS
  <1>2. PICK m \in T : \A n \in T : m <= n
    <2>1. T \in SUBSET Nat /\ T # {}
      BY <1>1
    <2> HIDE DEF T
    <2> QED BY <2>1, LeastExists
  <1>3. PICK s \in Wrong : m = Cardinality(s)
    OBVIOUS
  <1>4. \A r \in SUBSET S : Cardinality(r) < Cardinality(s) => r \notin Wrong
    BY <1>1, <1>2, <1>3
  <1>5. s \in SUBSET S /\ f[s] # Cardinality(Pairs(g, s))
    BY <1>3
  <1>6. f[s] = IF s = {} THEN 0
               ELSE g[CHOOSE x \in s : TRUE] + f[s \ {CHOOSE x \in s : TRUE}]
    BY <1>5 DEF ElementwiseSum
  <1>7. s # {}
    <2> SUFFICES ASSUME s = {} PROVE FALSE
      OBVIOUS
    <2>1. Pairs(g, s) = {}
      BY DEF Pairs
    <2> QED BY <1>5, <1>6, <2>1, FS_EmptySet
  <1> DEFINE x == CHOOSE x \in s : TRUE
  <1>8. x \in s /\ f[s] = g[x] + f[s \ {x}]
    BY <1>6, <1>7
  <1> HIDE DEF x
  <1>9. Cardinality(s \ {x}) < Cardinality(s)
    <2>1. Cardinality(s \ {x}) = Cardinality(s) - 1
      BY <1>1, <1>5, <1>8, FS_RemoveElement
    <2> QED BY <1>1, <1>5, <2>1
  <1>10. f[s \ {x}] = Cardinality(Pairs(g, s \ {x}))
    BY <1>4, <1>5, <1>9
  <1>11. Cardinality(Pairs(g, s)) = g[x] + Cardinality(Pairs(g, s \ {x}))
    BY <1>5, <1>8, PairsStep
  <1> QED BY <1>5, <1>8, <1>10, <1>11

-----------------------------------------------------------------------------
\* The entries of the allowlists.

\* What the lists that load hold.
AnyEntry == UNION {Range(l.entries) : l \in {k \in Lists : k.kind = "entries"}}

LEMMA ListHolds ==
  ASSUME NEW l \in Lists, l.kind = "entries"
  PROVE  l.entries \in Seq(AnyEntry)
  <1>1. l.entries \in Seq(Range(l.entries))
    BY ListsHoldEntries
  <1>2. Range(l.entries) \subseteq AnyEntry
    BY DEF AnyEntry
  <1> QED BY <1>1, <1>2, SeqMonotonic

\* The function by which the entries of a list are kept, one after the other.
KeptFunction(f, entries, m) ==
  f = [n \in 0 .. m |->
         IF n = 0 THEN <<>>
         ELSE f[n - 1] \o (IF entries[n].mapping THEN <<entries[n]>> ELSE <<>>)]

LEMMA KeptFunctionExists ==
  ASSUME NEW entries, NEW n \in Nat
  PROVE  \E f : KeptFunction(f, entries, n)
  <1> DEFINE T == {m \in Nat : ~ \E f : KeptFunction(f, entries, m)}
             Then(kept, k) == kept \o (IF entries[k].mapping THEN <<entries[k]>> ELSE <<>>)
  <1> SUFFICES ASSUME T # {} PROVE FALSE
    OBVIOUS
  <1>1. PICK m \in T : \A k \in T : m <= k
    <2>1. T \in SUBSET Nat
      OBVIOUS
    <2> HIDE DEF T
    <2> QED BY <2>1, LeastExists
  <1>2. m \in Nat /\ ~ \E f : KeptFunction(f, entries, m)
    OBVIOUS
  <1>3. \A k \in Nat : k < m => \E f : KeptFunction(f, entries, k)
    BY <1>1, <1>2
  <1> HIDE DEF T, Then
  <1>4. m > 0
    <2> SUFFICES ASSUME m = 0 PROVE FALSE
      BY <1>2
    <2> DEFINE f == [k \in 0 .. 0 |-> <<>>]
    <2>1. f = [k \in 0 .. 0 |-> IF k = 0 THEN <<>> ELSE Then(f[k - 1], k)]
      OBVIOUS
    <2> HIDE DEF f
    <2>2. KeptFunction(f, entries, m)
      BY <2>1 DEF KeptFunction, Then
    <2> QED BY <1>2, <2>2
  <1>5. PICK g : KeptFunction(g, entries, m - 1)
    BY <1>2, <1>3, <1>4
  <1> DEFINE f == [k \in 0 .. m |-> IF k = m THEN Then(g[m - 1], m) ELSE g[k]]
  <1>6. ASSUME NEW k \in 0 .. m
        PROVE  f[k] = IF k = 0 THEN <<>> ELSE Then(f[k - 1], k)
    <2>1. k # 0 => f[k - 1] = g[k - 1]
      BY <1>2
    <2>2. f[k] = IF k = m THEN Then(g[m - 1], m) ELSE g[k]
      OBVIOUS
    <2> HIDE DEF f
    <2>3. CASE k = m
      BY <1>2, <1>4, <2>1, <2>2, <2>3
    <2>4. CASE k # m
      <3>1. k \in 0 .. m - 1
        BY <1>2, <2>4
      <3>2. g[k] = IF k = 0 THEN <<>> ELSE Then(g[k - 1], k)
        BY <1>5, <3>1 DEF KeptFunction, Then
      <3> QED BY <2>1, <2>2, <2>4, <3>2
    <2> QED BY <2>3, <2>4
  <1>7. KeptFunction(f, entries, m)
    <2>1. f = [k \in 0 .. m |-> f[k]]
      OBVIOUS
    <2> HIDE DEF f
    <2> QED BY <1>6, <2>1 DEF KeptFunction, Then
  <1> QED BY <1>2, <1>7

\* No more entries are kept than there are.
LEMMA KeptAre ==
  ASSUME NEW X, NEW entries \in Seq(X), NEW f, KeptFunction(f, entries, Len(entries)),
         NEW n \in 0 .. Len(entries)
  PROVE  f[n] \in Seq(X) /\ Len(f[n]) <= n
  <1> DEFINE Right(k) == f[k] \in Seq(X) /\ Len(f[k]) <= k
             T == {k \in 0 .. Len(entries) : ~Right(k)}
  <1> SUFFICES ASSUME T # {} PROVE FALSE
    OBVIOUS
  <1>1. PICK m \in T : \A k \in T : m <= k
    <2>1. T \in SUBSET Nat
      OBVIOUS
    <2> HIDE DEF T
    <2> QED BY <2>1, LeastExists
  <1>2. m \in 0 .. Len(entries) /\ ~Right(m)
    OBVIOUS
  <1>3. f[m] = IF m = 0 THEN <<>>
               ELSE f[m - 1] \o (IF entries[m].mapping THEN <<entries[m]>> ELSE <<>>)
    BY <1>2 DEF KeptFunction
  <1>4. m # 0
    <2> SUFFICES ASSUME m = 0 PROVE FALSE
      OBVIOUS
    <2>1. f[m] = <<>>
      BY <1>3
    <2>2. <<>> \in Seq(X) /\ Len(<<>>) <= 0
      BY EmptySeq
    <2> QED BY <1>2, <2>1, <2>2
  <1>5. Right(m - 1)
    <2>1. m - 1 \in 0 .. Len(entries) /\ ~ (m <= m - 1)
      BY <1>2, <1>4
    <2> QED BY <1>1, <2>1
  <1>6. m \in 1 .. Len(entries) /\ entries[m] \in X
    BY <1>2, <1>4
  <1>7. CASE entries[m].mapping
    BY <1>2, <1>3, <1>4, <1>5, <1>6, <1>7
  <1>8. CASE ~entries[m].mapping
    BY <1>2, <1>3, <1>4, <1>5, <1>6, <1>8
  <1> QED BY <1>7, <1>8

LEMMA MappingsAre ==
  ASSUME NEW X, NEW entries \in Seq(X)
  PROVE  /\ Mappings(entries) \in Seq(X)
         /\ Len(Mappings(entries)) <= Len(entries)
  <1> DEFINE f == CHOOSE f : KeptFunction(f, entries, Len(entries))
  <1>1. Mappings(entries) = f[Len(entries)]
    BY DEF Mappings, KeptFunction
  <1>2. Len(entries) \in Nat
    OBVIOUS
  <1>3. KeptFunction(f, entries, Len(entries))
    BY <1>2, KeptFunctionExists
  <1> HIDE DEF f
  <1> QED BY <1>1, <1>2, <1>3, KeptAre

\* The function by which sequences are put together.
FlattenFunction(f, seqs, m) ==
  f = [n \in 1 .. m |-> IF n = 1 THEN seqs[n] ELSE f[n - 1] \o seqs[n]]

LEMMA FlattenFunctionExists ==
  ASSUME NEW seqs, NEW n \in Nat
  PROVE  \E f : FlattenFunction(f, seqs, n)
  <1> DEFINE T == {m \in Nat : ~ \E f : FlattenFunction(f, seqs, m)}
             Then(flat, k) == flat \o seqs[k]
  <1> SUFFICES ASSUME T # {} PROVE FALSE
    OBVIOUS
  <1>1. PICK m \in T : \A k \in T : m <= k
    <2>1. T \in SUBSET Nat
      OBVIOUS
    <2> HIDE DEF T
    <2> QED BY <2>1, LeastExists
  <1>2. m \in Nat /\ ~ \E f : FlattenFunction(f, seqs, m)
    OBVIOUS
  <1>3. \A k \in Nat : k < m => \E f : FlattenFunction(f, seqs, k)
    BY <1>1, <1>2
  <1> HIDE DEF T, Then
  <1>4. m > 1
    <2> SUFFICES ASSUME m <= 1 PROVE FALSE
      BY <1>2
    <2> DEFINE f == [k \in 1 .. m |-> seqs[k]]
    <2>1. \A k \in 1 .. m : k = 1
      BY <1>2
    <2>2. f = [k \in 1 .. m |-> IF k = 1 THEN seqs[k] ELSE Then(f[k - 1], k)]
      BY <2>1
    <2> HIDE DEF f
    <2>3. FlattenFunction(f, seqs, m)
      BY <2>2 DEF FlattenFunction, Then
    <2> QED BY <1>2, <2>3
  <1>5. PICK g : FlattenFunction(g, seqs, m - 1)
    BY <1>2, <1>3, <1>4
  <1> DEFINE f == [k \in 1 .. m |-> IF k = m THEN Then(g[m - 1], m) ELSE g[k]]
  <1>6. ASSUME NEW k \in 1 .. m
        PROVE  f[k] = IF k = 1 THEN seqs[k] ELSE Then(f[k - 1], k)
    <2>1. k # 1 => f[k - 1] = g[k - 1]
      BY <1>2
    <2>2. f[k] = IF k = m THEN Then(g[m - 1], m) ELSE g[k]
      OBVIOUS
    <2> HIDE DEF f
    <2>3. CASE k = m
      BY <1>2, <1>4, <2>1, <2>2, <2>3
    <2>4. CASE k # m
      <3>1. k \in 1 .. m - 1
        BY <1>2, <2>4
      <3>2. g[k] = IF k = 1 THEN seqs[k] ELSE Then(g[k - 1], k)
        BY <1>5, <3>1 DEF FlattenFunction, Then
      <3> QED BY <2>1, <2>2, <2>4, <3>2
    <2> QED BY <2>3, <2>4
  <1>7. FlattenFunction(f, seqs, m)
    <2>1. f = [k \in 1 .. m |-> f[k]]
      OBVIOUS
    <2> HIDE DEF f
    <2> QED BY <1>6, <2>1 DEF FlattenFunction, Then
  <1> QED BY <1>2, <1>7

\* Sequences put together are as long as all of them.
LEMMA FlattenAre ==
  ASSUME NEW X, NEW seqs \in Seq(Seq(X)), NEW f, FlattenFunction(f, seqs, Len(seqs)),
         NEW g, g = [i \in 1 .. Len(seqs) |-> Len(seqs[i])],
         NEW n \in 1 .. Len(seqs)
  PROVE  f[n] \in Seq(X) /\ Len(f[n]) = Cardinality(Pairs(g, 1 .. n))
  <1> DEFINE Right(k) == f[k] \in Seq(X) /\ Len(f[k]) = Cardinality(Pairs(g, 1 .. k))
             T == {k \in 1 .. Len(seqs) : ~Right(k)}
  <1> SUFFICES ASSUME T # {} PROVE FALSE
    OBVIOUS
  <1>1. PICK m \in T : \A k \in T : m <= k
    <2>1. T \in SUBSET Nat
      OBVIOUS
    <2> HIDE DEF T
    <2> QED BY <2>1, LeastExists
  <1>2. m \in 1 .. Len(seqs) /\ ~Right(m)
    OBVIOUS
  <1>3. f[m] = IF m = 1 THEN seqs[m] ELSE f[m - 1] \o seqs[m]
    BY <1>2 DEF FlattenFunction
  <1>4. \A k \in 1 .. Len(seqs) : seqs[k] \in Seq(X) /\ g[k] = Len(seqs[k]) /\ g[k] \in Nat
    OBVIOUS
  <1>5. Cardinality(Pairs(g, 1 .. m)) = Len(seqs[m]) + Cardinality(Pairs(g, 1 .. m - 1))
    <2>1. IsFiniteSet(1 .. Len(seqs)) /\ g \in [1 .. Len(seqs) -> Nat]
      BY <1>4, FS_Interval
    <2>2. m \in 1 .. m /\ 1 .. m \in SUBSET (1 .. Len(seqs)) /\ (1 .. m) \ {m} = 1 .. m - 1
      BY <1>2
    <2>3. Cardinality(Pairs(g, 1 .. m)) = g[m] + Cardinality(Pairs(g, (1 .. m) \ {m}))
      <3> DEFINE S == 1 .. Len(seqs)
                 s == 1 .. m
      <3>1. IsFiniteSet(S) /\ g \in [S -> Nat] /\ s \in SUBSET S /\ m \in s
        BY <2>1, <2>2
      <3> HIDE DEF S, s
      <3>2. \A h \in [S -> Nat], t \in SUBSET S : \A x \in t :
              Cardinality(Pairs(h, t)) = h[x] + Cardinality(Pairs(h, t \ {x}))
        BY <3>1, PairsStep
      <3>3. Cardinality(Pairs(g, s)) = g[m] + Cardinality(Pairs(g, s \ {m}))
        BY <3>1, <3>2, ZenonT(30)
      <3> QED BY <3>3 DEF s
    <2> QED BY <1>2, <1>4, <2>2, <2>3
  <1>6. CASE m = 1
    <2>1. Pairs(g, 1 .. m - 1) = {}
      BY <1>6 DEF Pairs
    <2>2. Cardinality(Pairs(g, 1 .. m)) = Len(seqs[m]) + 0
      BY <1>5, <2>1, FS_EmptySet
    <2>3. f[m] = seqs[m] /\ seqs[m] \in Seq(X) /\ Len(seqs[m]) \in Nat
      BY <1>2, <1>3, <1>4, <1>6
    <2> QED BY <1>2, <2>2, <2>3
  <1>7. CASE m # 1
    <2>1. Right(m - 1)
      <3>1. m - 1 \in 1 .. Len(seqs) /\ ~ (m <= m - 1)
        BY <1>2, <1>7
      <3> QED BY <1>1, <3>1
    <2>2. f[m] = f[m - 1] \o seqs[m] /\ seqs[m] \in Seq(X)
      BY <1>2, <1>3, <1>4, <1>7
    <2>3. f[m] \in Seq(X) /\ Len(f[m]) = Len(f[m - 1]) + Len(seqs[m])
      <3>1. f[m - 1] \in Seq(X)
        BY <2>1
      <3> HIDE DEF Right
      <3> QED BY <2>2, <3>1, ConcatProperties
    <2>4. Len(f[m - 1]) \in Nat /\ Len(seqs[m]) \in Nat
      BY <2>1, <2>2
    <2> QED BY <1>2, <1>5, <2>1, <2>3, <2>4
  <1> QED BY <1>6, <1>7

LEMMA FlattenCounts ==
  ASSUME NEW X, NEW seqs \in Seq(Seq(X)),
         NEW g, g = [i \in 1 .. Len(seqs) |-> Len(seqs[i])]
  PROVE  Len(FlattenSeq(seqs)) = Cardinality(Pairs(g, 1 .. Len(seqs)))
  <1>1. Len(seqs) \in Nat
    OBVIOUS
  <1>2. CASE Len(seqs) = 0
    <2>1. Len(FlattenSeq(seqs)) = 0
      BY <1>2 DEF FlattenSeq
    <2>2. Pairs(g, 1 .. Len(seqs)) = {}
      BY <1>2 DEF Pairs
    <2> QED BY <2>1, <2>2, FS_EmptySet
  <1>3. CASE Len(seqs) # 0
    <2> DEFINE f == CHOOSE f : FlattenFunction(f, seqs, Len(seqs))
    <2>1. FlattenSeq(seqs) = f[Len(seqs)]
      BY <1>3 DEF FlattenSeq, FlattenFunction
    <2>2. FlattenFunction(f, seqs, Len(seqs))
      BY <1>1, FlattenFunctionExists
    <2> HIDE DEF f
    <2>3. Len(seqs) \in 1 .. Len(seqs)
      BY <1>1, <1>3
    <2> QED BY <2>1, <2>2, <2>3, FlattenAre
  <1> QED BY <1>2, <1>3

\* The lengths of the lists, and what their loading leaves out of them.
Lengths == [i \in DOMAIN repo.allow |-> Len(repo.allow[i].entries)]
Errors ==
  [i \in DOMAIN repo.allow |->
     IF repo.allow[i].kind = "entries"
     THEN Len(repo.allow[i].entries) - Len(Entries(repo)[i]) ELSE 1]

LEMMA ListsAre ==
  ASSUME GateInv
  PROVE  /\ DOMAIN repo.allow = 1 .. Len(repo.allow) /\ Len(repo.allow) \in Nat
         /\ \A i \in DOMAIN repo.allow : repo.allow[i] \in Lists
         /\ IsFiniteSet(DOMAIN repo.allow)
  <1>1. repo.allow \in Seq(Lists)
    BY DEF GateInv, Repository
  <1>2. DOMAIN repo.allow = 1 .. Len(repo.allow) /\ Len(repo.allow) \in Nat
    BY <1>1
  <1>3. \A i \in 1 .. Len(repo.allow) : repo.allow[i] \in Lists
    BY <1>1
  <1>4. IsFiniteSet(1 .. Len(repo.allow))
    BY <1>2, FS_Interval
  <1> QED BY <1>2, <1>3, <1>4

\* Of each list some entries are kept.
LEMMA EntriesAre ==
  ASSUME GateInv
  PROVE  /\ Entries(repo) \in Seq(Seq(AnyEntry)) /\ Len(Entries(repo)) = Len(repo.allow)
         /\ \A i \in DOMAIN repo.allow :
              repo.allow[i].kind = "entries" =>
                /\ repo.allow[i].entries \in Seq(AnyEntry)
                /\ Len(Entries(repo)[i]) \in 0 .. Len(repo.allow[i].entries)
  <1> DEFINE D == 1 .. Len(repo.allow)
  <1>1. DOMAIN repo.allow = D /\ Len(repo.allow) \in Nat
    BY ListsAre
  <1>2. ASSUME NEW i \in DOMAIN repo.allow, repo.allow[i].kind = "entries"
        PROVE  /\ repo.allow[i].entries \in Seq(AnyEntry)
               /\ Entries(repo)[i] \in Seq(AnyEntry)
               /\ Len(Entries(repo)[i]) \in 0 .. Len(repo.allow[i].entries)
    <2> DEFINE list == repo.allow[i].entries
    <2>1. list \in Seq(AnyEntry)
      BY <1>2, ListsAre, ListHolds
    <2>2. Entries(repo)[i] = Mappings(list)
      BY <1>2 DEF Entries
    <2> HIDE DEF list
    <2>3. Mappings(list) \in Seq(AnyEntry) /\ Len(Mappings(list)) <= Len(list)
      BY <2>1, MappingsAre
    <2>4. Len(Mappings(list)) \in 0 .. Len(list)
      BY <2>1, <2>3
    <2> QED BY <2>1, <2>2, <2>3, <2>4 DEF list
  <1>3. ASSUME NEW i \in DOMAIN repo.allow, repo.allow[i].kind # "entries"
        PROVE  Entries(repo)[i] \in Seq(AnyEntry)
    BY <1>3, EmptySeq DEF Entries
  <1>4. Entries(repo) \in [D -> Seq(AnyEntry)]
    <2>1. \A i \in D : Entries(repo)[i] \in Seq(AnyEntry)
      BY <1>1, <1>2, <1>3
    <2>2. Entries(repo) = [i \in D |-> Entries(repo)[i]]
      BY <1>1 DEF Entries
    <2> HIDE DEF D
    <2> QED BY <2>1, <2>2
  <1>5. Entries(repo) \in Seq(Seq(AnyEntry)) /\ Len(Entries(repo)) = Len(repo.allow)
    BY <1>1, <1>4
  <1> QED BY <1>2, <1>5

\* The sums of the model are the sums of the numbers.
LEMMA SumOfLengths ==
  ASSUME GateInv, Lengths \in [DOMAIN repo.allow -> Nat]
  PROVE  MapThenSumSet(LAMBDA i : Len(repo.allow[i].entries), DOMAIN repo.allow)
           = Cardinality(Pairs(Lengths, DOMAIN repo.allow))
  <1> DEFINE S == DOMAIN repo.allow
             Sums(f) == f = [s \in SUBSET S |->
                          IF s = {} THEN 0
                          ELSE Len(repo.allow[CHOOSE x \in s : TRUE].entries)
                                   + f[s \ {CHOOSE x \in s : TRUE}]]
             F == CHOOSE f : Sums(f)
  <1>1. MapThenSumSet(LAMBDA i : Len(repo.allow[i].entries), S) = F[S]
    BY DEF MapThenSumSet, MapThenFoldSet
  <1>2. ASSUME NEW s \in SUBSET S, s # {}
        PROVE  Len(repo.allow[CHOOSE x \in s : TRUE].entries) = Lengths[CHOOSE x \in s : TRUE]
    <2>1. (CHOOSE x \in s : TRUE) \in S
      BY <1>2
    <2> QED BY <2>1 DEF Lengths
  <1>3. \A f : Sums(f) <=> ElementwiseSum(f, Lengths, S)
    <2> HIDE DEF S
    <2> QED BY <1>2 DEF ElementwiseSum
  <1>4. \E f : ElementwiseSum(f, Lengths, S)
    BY ListsAre, ElementwiseSumExists
  <1>5. ElementwiseSum(F, Lengths, S)
    <2> HIDE DEF S, Sums
    <2> QED BY <1>3, <1>4
  <1> HIDE DEF F
  <1> QED BY <1>1, <1>5, ListsAre, SumIs

LEMMA SumOfErrors ==
  ASSUME GateInv, Errors \in [DOMAIN repo.allow -> Nat]
  PROVE  LoadErrors(repo) = Cardinality(Pairs(Errors, DOMAIN repo.allow))
  <1> DEFINE S == DOMAIN repo.allow
             Error(i) == IF repo.allow[i].kind = "entries"
                         THEN Len(repo.allow[i].entries) - Len(Entries(repo)[i]) ELSE 1
             Sums(f) == f = [s \in SUBSET S |->
                          IF s = {} THEN 0
                          ELSE Error(CHOOSE x \in s : TRUE) + f[s \ {CHOOSE x \in s : TRUE}]]
             F == CHOOSE f : Sums(f)
  <1>1. LoadErrors(repo) = F[S]
    BY DEF LoadErrors, MapThenSumSet, MapThenFoldSet
  <1>2. ASSUME NEW s \in SUBSET S, s # {}
        PROVE  Error(CHOOSE x \in s : TRUE) = Errors[CHOOSE x \in s : TRUE]
    <2>1. (CHOOSE x \in s : TRUE) \in S
      BY <1>2
    <2> QED BY <2>1 DEF Errors
  <1>3. \A f : Sums(f) <=> ElementwiseSum(f, Errors, S)
    <2> HIDE DEF S, Error
    <2> QED BY <1>2 DEF ElementwiseSum
  <1>4. \E f : ElementwiseSum(f, Errors, S)
    BY ListsAre, ElementwiseSumExists
  <1>5. ElementwiseSum(F, Errors, S)
    <2> HIDE DEF S, Error, Sums
    <2> QED BY <1>3, <1>4
  <1> HIDE DEF F
  <1> QED BY <1>1, <1>5, ListsAre, SumIs

\* Where no list is in error, every entry of every list is kept.
LEMMA NothingIsLeftOut ==
  ASSUME GateInv, LoadErrors(repo) = 0
  PROVE  \A i \in DOMAIN repo.allow : /\ repo.allow[i].kind = "entries"
                                      /\ Len(repo.allow[i].entries) = Len(Entries(repo)[i])
                                      /\ Len(repo.allow[i].entries) \in Nat
  <1> DEFINE S == DOMAIN repo.allow
  <1>1. ASSUME NEW i \in S, repo.allow[i].kind = "entries"
        PROVE  /\ Len(repo.allow[i].entries) \in Nat /\ Len(Entries(repo)[i]) \in Nat
               /\ Len(Entries(repo)[i]) <= Len(repo.allow[i].entries)
    <2>1. repo.allow[i].entries \in Seq(AnyEntry)
      BY <1>1, EntriesAre
    <2>2. Len(Entries(repo)[i]) \in 0 .. Len(repo.allow[i].entries)
      BY <1>1, EntriesAre
    <2> QED BY <2>1, <2>2, LenProperties
  <1>2. ASSUME NEW i \in S PROVE Errors[i] \in Nat
    <2>1. CASE repo.allow[i].kind = "entries"
      BY <1>1, <2>1 DEF Errors
    <2>2. CASE repo.allow[i].kind # "entries"
      BY <2>2 DEF Errors
    <2> QED BY <2>1, <2>2
  <1>3. Errors \in [S -> Nat]
    BY <1>2 DEF Errors
  <1>4. Pairs(Errors, S) = {}
    <2>1. IsFiniteSet(Pairs(Errors, S))
      BY <1>3, ListsAre, PairsFinite
    <2>2. Cardinality(Pairs(Errors, S)) = 0
      BY <1>3, SumOfErrors
    <2> QED BY <2>1, <2>2, FS_EmptySet
  <1>5. ASSUME NEW i \in S PROVE Errors[i] = 0
    <2> SUFFICES ASSUME Errors[i] # 0 PROVE FALSE
      OBVIOUS
    <2>1. 1 \in 1 .. Errors[i]
      BY <1>2
    <2>2. <<i, 1>> \in PairsOf(Errors, i)
      BY <2>1 DEF PairsOf
    <2>3. <<i, 1>> \in Pairs(Errors, S)
      BY <2>2 DEF Pairs
    <2> QED BY <1>4, <2>3
  <1>6. ASSUME NEW i \in S
        PROVE  /\ repo.allow[i].kind = "entries"
               /\ Len(repo.allow[i].entries) = Len(Entries(repo)[i])
    <2>1. repo.allow[i].kind = "entries"
      <3> SUFFICES ASSUME repo.allow[i].kind # "entries" PROVE FALSE
        OBVIOUS
      <3>1. Errors[i] = 1
        BY DEF Errors
      <3>2. Errors[i] = 0
        BY <1>5
      <3> QED BY <3>1, <3>2
    <2>2. Len(repo.allow[i].entries) - Len(Entries(repo)[i]) = 0
      BY <1>5, <2>1 DEF Errors
    <2> QED BY <1>1, <2>1, <2>2
  <1> QED BY <1>1, <1>6

\* The active entries are then all the entries there are.
LEMMA ActiveIsAll ==
  ASSUME GateInv, LoadErrors(repo) = 0
  PROVE  MapThenSumSet(LAMBDA i : Len(repo.allow[i].entries), DOMAIN repo.allow)
           = Len(Active(repo))
  <1> DEFINE seqs == Entries(repo)
             g == [i \in 1 .. Len(seqs) |-> Len(seqs[i])]
  <1>1. Len(seqs) = Len(repo.allow) /\ seqs \in Seq(Seq(AnyEntry))
    BY EntriesAre
  <1>2. DOMAIN repo.allow = 1 .. Len(seqs)
    BY <1>1, ListsAre
  <1>3. g = Lengths
    <2>1. \A i \in 1 .. Len(seqs) : Len(seqs[i]) = Len(repo.allow[i].entries)
      BY <1>2, NothingIsLeftOut
    <2> HIDE DEF seqs
    <2> QED BY <1>2, <2>1 DEF Lengths
  <1>4. Lengths \in [DOMAIN repo.allow -> Nat]
    BY NothingIsLeftOut DEF Lengths
  <1>5. Len(FlattenSeq(seqs)) = Cardinality(Pairs(g, 1 .. Len(seqs)))
    <2> HIDE DEF seqs
    <2> QED BY <1>1, FlattenCounts
  <1>6. Active(repo) = FlattenSeq(seqs)
    BY DEF Active
  <1> HIDE DEF seqs, g
  <1> QED BY <1>2, <1>3, <1>4, <1>5, <1>6, SumOfLengths

\* No gap hides behind a green gate: there are no more accepted gaps, in all lists
\* together, than the threshold allows, and no golden case fails.
THEOREM NothingHidden == Spec => []NothingIsTolerated
  <1>1. GateInv => NothingIsTolerated
    <2> SUFFICES ASSUME GateInv, Passed PROVE NothingIsTolerated
      BY DEF NothingIsTolerated
    <2>1. Metrics(repo).ok /\ RunGoldens(repo).ok
      BY SaysOk, AllAnswer DEF GateInv, Passed, Checks, Result
    <2>2. LoadErrors(repo) = 0 /\ Len(Active(repo)) <= Limits.active
      BY <2>1 DEF Metrics, Stopped
    <2>3. MapThenSumSet(LAMBDA i : Len(repo.allow[i].entries), DOMAIN repo.allow)
            <= Limits.active
      BY <2>2, ActiveIsAll
    <2>4. results["goldens"].pass = Cardinality(Metas(repo))
      <3>1. results["goldens"].counted
        BY AllAnswer, UnrunFails, RanFields DEF GateInv, Current, Passed, Checks
      <3>2. results["goldens"].pass = RunGoldens(repo).pass
        BY <3>1, SaysCounted, AllAnswer DEF GateInv, Checks, Result, RunGoldens
      <3>3. RunGoldens(repo).pass = Cardinality(Metas(repo))
        <4>1. {c \in Metas(repo) : ~RunCase(repo.goldens[c])} = {}
          BY <2>1 DEF RunGoldens
        <4>2. Metas(repo) \ {c \in Metas(repo) : ~RunCase(repo.goldens[c])} = Metas(repo)
          BY <4>1
        <4> QED BY <4>2 DEF RunGoldens
      <3> QED BY <3>2, <3>3
    <2> QED BY <2>3, <2>4 DEF NothingIsTolerated
  <1> QED BY <1>1, GateHolds, PTL
=============================================================================

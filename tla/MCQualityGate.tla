---------------------------- MODULE MCQualityGate ---------------------------
(***************************************************************************)
(* The quality gate on a repository of two packages, one nested in the     *)
(* other's directory, and every repository that three edits make of it.    *)
(***************************************************************************)
EXTENDS QualityGate

MCPaths == {"src", "src/a", "src/a/b", "src/c"}
MCTopOf == "src" :> "" @@ "src/a" :> "a" @@ "src/a/b" :> "a" @@ "src/c" :> "c"
\* Without src/ in front it is the first component that is mentioned.
MCMentions == MCTopOf @@ "" :> "" @@ "c" :> "c" @@ "src/../b" :> ".."
MCAbove == "src" :> {} @@ "src/a" :> {"src"} @@ "src/a/b" :> {"src", "src/a"}
           @@ "src/c" :> {"src"}
\* "newer" contains the symbol "new".
MCWithin == "new" :> {"new"} @@ "newer" :> {"new"} @@ "add" :> {"add"}
MCSymbolOf == "a.new" :> "new" @@ "b.new" :> "new" @@ "b.add" :> "add"

Row(go, status, zig) == [mapping |-> TRUE, go |-> go, status |-> status, zig |-> zig]
\* An excluded row mentions src/c by a path that does not lie there.
MCRows ==
  {[mapping |-> FALSE, go |-> "", status |-> "", zig |-> ""]}
  \cup {Row("a", "", "src/a"), Row("a", "excluded", ""), Row("a", "deferred", "src/c"),
        Row("b", "deferred", "src/a/b"), Row("b", "deferred", "c"),
        Row("b", "test_only", "src/c"), Row("b", "unknown", "src/a/b"),
        Row("", "required", "src/c"), Row("c", "required", "src"),
        Row("", "excluded", "c"), Row("", "test_only", "src/../b")}

Tree(dir, zig) == [dir |-> dir, zig |-> zig]
MCTrees ==
  {Tree(FALSE, {}), Tree(TRUE, {}), Tree(TRUE, {{}}), Tree(TRUE, {{"new"}}),
   Tree(TRUE, {{"newer"}, {"add"}})}

NoDoc(kind) == [kind |-> kind, package |-> "", names |-> {}, semantic |-> {},
                map |-> <<>>, bad |-> {}]
Doc(package, names, semantic, map, bad) ==
  [kind |-> "mapping", package |-> package, names |-> names,
   semantic |-> semantic, map |-> map, bad |-> bad]
MCDocs ==
  {NoDoc("absent"), NoDoc("unloadable"), NoDoc("scalar"),
   Doc("a", {"New"}, {}, "New" :> "a.new", {}),
   Doc("b", {"New", "Add"}, {"b.add"}, "New" :> "b.new", {}),
   Doc("b", {"Add"}, {}, <<>>, {"zig_map"}),
   Doc("", {"New"}, {"a.new"}, <<>>, {"names"})}

Entry(id, reason, text) == [mapping |-> TRUE, id |-> id, reason |-> reason, text |-> text]
MCLists ==
  {[kind |-> "entries", entries |-> es] :
     es \in {<<>>, <<Entry("gap", "why", TRUE)>>, <<Entry("7", "why", FALSE), Entry("7", "", FALSE)>>,
             <<[mapping |-> FALSE, id |-> "", reason |-> "", text |-> FALSE]>>}}
  \cup {[kind |-> "unloadable", entries |-> <<>>]}

Golden(kind, type, actual, expected, extra) ==
  [kind |-> kind, type |-> type, actual |-> actual, expected |-> expected,
   dotExpected |-> extra]
MCGoldens ==
  {Golden("absent", "", <<>>, <<>>, 0), Golden("absent", "", <<>>, <<>>, 1),
   Golden("scalar", "", <<<<>>>>, <<<<>>>>, 0),
   Golden("mapping", "file_equals", <<<<"x", "\n">>>>, <<<<"x", "\n">>>>, 0),
   Golden("mapping", "file_equals", <<<<"x", "\n">>>>, <<<<"x">>>>, 0),
   Golden("mapping", "text_equals", <<<<"x", "\n", "\n">>>>, <<<<"x">>>>, 0),
   Golden("mapping", "static_contains", <<<<"x", "y", "z">>>>, <<<<"y">>>>, 0),
   Golden("mapping", "static_contains", <<<<"x">>>>, <<<<"x", "y">>>>, 1),
   Golden("mapping", "file_equals", <<>>, <<<<"x">>>>, 0),
   Golden("mapping", "other", <<<<"x">>>>, <<<<"x">>>>, 0)}

MCPins == {"v1", "v2", ""}

\* Every threshold is at its limit, as far as metrics.yaml sets it.
MCLimits ==
  [pin |-> "v1", total |-> 2, required |-> 2, missing |-> 0, files |-> 2,
   percent |-> 0, goldens |-> 2, active |-> 1]

MCInitial ==
  [loads |-> TRUE, pin |-> "v1", pinMd |-> "v1",
   packages |-> <<Row("a", "", "src/a"), Row("b", "deferred", "src/a/b")>>,
   tree |-> "src" :> Tree(TRUE, {{}}) @@ "src/a" :> Tree(TRUE, {{"new"}})
            @@ "src/a/b" :> Tree(TRUE, {{"newer"}, {"add"}})
            @@ "src/c" :> Tree(FALSE, {}),
   api |-> "a.yaml" :> Doc("a", {"New"}, {}, "New" :> "a.new", {})
           @@ "b.yaml" :> Doc("b", {"New", "Add"}, {"b.add"}, "New" :> "b.new", {})
           @@ "c.yml" :> NoDoc("absent"),
   allow |-> <<[kind |-> "entries", entries |-> <<>>]>>,
   goldens |-> "g" :> Golden("mapping", "file_equals", <<<<"x", "\n">>>>, <<<<"x", "\n">>>>, 0)
               @@ "h" :> Golden("mapping", "text_equals", <<<<"x", "\n", "\n">>>>, <<<<"x">>>>, 0)]
=============================================================================

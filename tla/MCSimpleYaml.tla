---------------------------- MODULE MCSimpleYaml ----------------------------
(***************************************************************************)
(* The YAML loader on every text of a few lines.  Plain words are          *)
(* different in every line, so that a scalar that goes to another place    *)
(* cannot be mistaken for the one that belongs there; the last line may    *)
(* have the key of the first.                                              *)
(***************************************************************************)
EXTENDS SimpleYaml

MCMaxLines == 4
MCNumerals == {"7"}
MCDecimals == {"0.5"}

\* The keys and words of line i.
KeyOf == <<"k1", "k2", "k3", "k4">>
WordOf == <<"w1", "w2", "w3", "w4">>

Scalars ==
  {<<<<"7">>, Number("7")>>, <<<<"~">>, None>>,
   <<<<"'", "#", ",", "\"", "'">>, Str(<<"#", ",", "\"">>)>>,
   <<<<"[", "x", ",", "\"", "y", ",", "#", "\"", ",", "7", "]">>,
     List(<<Str(<<"x">>), Str(<<"y", ",", "#">>), Number("7")>>)>>,
   <<<<"don", "'", "t">>, Str(<<"don", "'", "t">>)>>}

\* Every shape with the plain word of line i; the other scalars in the
\* second line.
Shapes(i) ==
  LET plain == {<<<<WordOf[i]>>, Str(<<WordOf[i]>>)>>}
      special == IF i = 2 THEN Scalars ELSE {}
      key == <<KeyOf[i], ":">>
      repeated == IF i = 4 THEN {<<KeyOf[1], ":", WordOf[i]>>} ELSE {}
  IN  {[shape |-> "header", content |-> mark \o key, means |-> None] :
         mark \in {<<>>, <<"- ">>}}
      \cup {[shape |-> "field", content |-> r, means |-> Str(<<WordOf[i]>>)] : r \in repeated}
      \cup {[shape |-> "field", content |-> mark \o key \o s[1], means |-> s[2]] :
              mark \in {<<>>, <<"- ">>}, s \in plain \cup special}
      \cup {[shape |-> "scalar", content |-> mark \o s[1], means |-> s[2]] :
              mark \in {<<>>, <<"- ">>}, s \in plain}
      \cup {[shape |-> "scalar", content |-> <<"- ">> \o s[1], means |-> s[2]] :
              s \in special}

\* The first line may be indented when lines can be nested in it; the other
\* scalars of the second line are tried beside the first line and below it.
Indents(i, s) ==
  CASE i = 1 -> IF s.shape = "header" THEN {0, 1} ELSE {0}
    [] i = 2 /\ s.shape # "header" /\ s.means # Str(<<WordOf[i]>>) -> {0, 1}
    [] OTHER -> 0 .. 2

MCLines ==
  [i \in 1 .. MCMaxLines |->
     UNION {{[shape |-> s.shape, content |-> s.content, means |-> s.means,
              indent |-> n, commented |-> FALSE] : n \in Indents(i, s)} :
              s \in Shapes(i)}]
-----------------------------------------------------------------------------
\* The loader's own test: its two documents, less the rows that repeat a form.
At0(content) == [indent |-> 0, content |-> content]
At1(content) == [indent |-> 2, content |-> content]
At2(content) == [indent |-> 4, content |-> content]
Word(w) == Str(<<w>>)

SelfTest ==
  /\ Load(<<At0(<<"#", "comment">>), At0(<<"pin", ":", "v5">>),
            At0(<<"packages", ":">>),
            At1(<<"- ", "go", ":", "hash">>), At2(<<"status", ":", "required">>),
            At1(<<"- ", "go", ":", "ex">>), At2(<<"notes", ":", "\"", "ex", "\"">>),
            At0(<<"counts", ":", "[", "7", ",", "7", "]">>),
            At0(<<"flag", ":", "true">>), At0(<<"empty", ":">>)>>)
     = Dict(<<"pin">> :> Word("v5")
            @@ <<"packages">> :>
                 List(<<Dict(<<"go">> :> Word("hash") @@ <<"status">> :> Word("required")),
                        Dict(<<"go">> :> Word("ex") @@ <<"notes">> :> Word("ex"))>>)
            @@ <<"counts">> :> List(<<Number("7"), Number("7")>>)
            @@ <<"flag">> :> Truth(TRUE) @@ <<"empty">> :> None)
  /\ Load(<<At0(<<"require", ":">>), At1(<<"types", ":", "[", "]">>),
            At1(<<"functions", ":">>), At2(<<"- ", "New">>), At2(<<"- ", "Register">>),
            At0(<<"zig_map", ":">>), At1(<<"New", ":", "hash.new">>)>>)
     = Dict(<<"require">> :>
                 Dict(<<"types">> :> List(<<>>)
                      @@ <<"functions">> :> List(<<Word("New"), Word("Register")>>))
            @@ <<"zig_map">> :> Dict(<<"New">> :> Word("hash.new")))

ASSUME SelfTest
=============================================================================

-------------------------- MODULE SimpleYaml_proofs --------------------------
(***************************************************************************)
(* Proofs about SimpleYaml, for any lines and any length of the text.      *)
(* The parsers call each other through a function; the first part shows    *)
(* that it exists, by the rank of a call: each call leads to one of lower  *)
(* rank, further on in the text or of an inner parser.  The second part    *)
(* shows that a comment goes in whole, the third that values are tagged,   *)
(* the fourth that blocks of a tidy text end where indentation ends them,  *)
(* the fifth that each line of any text is found where it belongs.         *)
(***************************************************************************)
EXTENDS SimpleYaml, FiniteSetTheorems, SequenceTheorems, WellFoundedInduction, TLAPS

-----------------------------------------------------------------------------
\* The parsers are functions of the place: there is one that calls itself as
\* they call each other.

\* Contents are sequences of strings; tlapm does not know of a string in
\* quotes that it is one.
Tokens == STRING \cup {"#", "'", "note", ":"}
Words == Seq(Tokens)

IsText(lines) == lines \in Seq([indent : Nat, content : Words])
Places(lines) == 1 .. Len(lines) + 1

\* What a parser does at a place, with parse for the calls it makes.
Step(lines, parse, what, pos, indent) ==
  CASE what = "block"  -> ParseBlock(lines, parse, pos, indent)
    [] what = "map"    -> ParseMap(lines, parse, pos, indent)
    [] what = "fields" -> ParseFields(lines, parse, pos, indent)
    [] what = "list"   -> ParseList(lines, parse, pos, indent)

Calls(lines) == Parsers \X (1 .. Len(lines) + 1) \X Nat

IsParse(f, lines) == f = [call \in Calls(lines) |-> Step(lines, f, call[1], call[2], call[3])]

LEMMA ParsedBy ==
  ASSUME NEW lines
  PROVE  Parsed(lines) = (CHOOSE f : IsParse(f, lines))["block", 1, lines[1].indent]
  BY DEF Parsed, IsParse, Step, Calls

LEMMA Triple ==
  ASSUME NEW A, NEW B, NEW C, NEW c \in A \X B \X C
  PROVE  /\ c = <<c[1], c[2], c[3]>>
         /\ c[1] \in A /\ c[2] \in B /\ c[3] \in C
  OBVIOUS

LEMMA CallIs ==
  ASSUME NEW lines, NEW call \in Calls(lines)
  PROVE  /\ call = <<call[1], call[2], call[3]>>
         /\ call[1] \in Parsers /\ call[2] \in Places(lines) /\ call[3] \in Nat
  <1> DEFINE B == 1 .. Len(lines) + 1
  <1>1. call \in Parsers \X B \X Nat
    BY DEF Calls
  <1> HIDE DEF B
  <1>2. /\ call = <<call[1], call[2], call[3]>>
        /\ call[1] \in Parsers /\ call[2] \in B /\ call[3] \in Nat
    BY <1>1, Triple
  <1> QED BY <1>2 DEF B, Places

LEMMA CallOf ==
  ASSUME NEW lines, NEW what \in Parsers, NEW pos \in Places(lines), NEW indent \in Nat
  PROVE  <<what, pos, indent>> \in Calls(lines)
  BY DEF Calls, Places

\* A result is an error or at a place that is no earlier.
Ahead(read, lines, pos) == read.pos \in {0} \cup (pos .. Len(lines) + 1)

\* Behind pos, f gives results that are ahead.
AheadBehind(f, lines, pos) ==
  \A what \in Parsers, p \in pos + 1 .. Len(lines) + 1, indent \in Nat :
    Ahead(f[what, p, indent], lines, p)

\* Behind pos, f and g are the same.
Agree(f, g, lines, pos) ==
  \A what \in Parsers, p \in pos + 1 .. Len(lines) + 1, indent \in Nat :
    f[what, p, indent] = g[what, p, indent]

LEMMA ReadFields ==
  /\ \A val, pos : Read(val, pos).val = val /\ Read(val, pos).pos = pos
  /\ Error.pos = 0
  BY DEF Read, Error

LEMMA TextFacts ==
  ASSUME NEW lines, IsText(lines)
  PROVE  /\ Len(lines) \in Nat
         /\ \A pos \in 1 .. Len(lines) : lines[pos].indent \in Nat
  <1>1. Len(lines) \in Nat
    BY LenProperties DEF IsText
  <1>2. \A pos \in 1 .. Len(lines) : lines[pos] \in [indent : Nat, content : Words]
    BY ElementOfSeq DEF IsText
  <1> QED BY <1>1, <1>2

LEMMA NestedAhead ==
  ASSUME NEW lines, IsText(lines), NEW f, NEW pos \in 1 .. Len(lines), NEW indent \in Nat,
         AheadBehind(f, lines, pos), NEW otherwise
  PROVE  Ahead(Nested(lines, f, pos + 1, indent, otherwise), lines, pos + 1)
  <1>1. Len(lines) \in Nat /\ pos + 1 \in pos + 1 .. Len(lines) + 1
    BY TextFacts
  <1>2. CASE Deeper(lines, pos + 1, indent)
    <2>1. lines[pos + 1].indent \in Nat
      BY <1>1, <1>2, TextFacts DEF Deeper
    <2>2. Ahead(f["block", pos + 1, lines[pos + 1].indent], lines, pos + 1)
      BY <1>1, <2>1 DEF AheadBehind, Parsers
    <2> QED BY <1>2, <2>2 DEF Nested
  <1>3. CASE ~Deeper(lines, pos + 1, indent)
    BY <1>1, <1>3, ReadFields DEF Nested, Ahead
  <1> QED BY <1>2, <1>3

LEMMA NestedSame ==
  ASSUME NEW lines, IsText(lines), NEW f, NEW g, NEW pos \in 1 .. Len(lines),
         NEW indent \in Nat, Agree(f, g, lines, pos), NEW otherwise
  PROVE  Nested(lines, f, pos + 1, indent, otherwise)
           = Nested(lines, g, pos + 1, indent, otherwise)
  <1>1. Len(lines) \in Nat /\ pos + 1 \in pos + 1 .. Len(lines) + 1
    BY TextFacts
  <1>2. CASE Deeper(lines, pos + 1, indent)
    <2>1. lines[pos + 1].indent \in Nat
      BY <1>1, <1>2, TextFacts DEF Deeper
    <2>2. f["block", pos + 1, lines[pos + 1].indent] = g["block", pos + 1, lines[pos + 1].indent]
      BY <1>1, <2>1 DEF Agree, Parsers
    <2> QED BY <1>2, <2>2 DEF Nested
  <1>3. CASE ~Deeper(lines, pos + 1, indent)
    BY <1>3 DEF Nested
  <1> QED BY <1>2, <1>3

\* A mapping's line is one whose key is read at this indentation.
IsMapLine(lines, pos, indent) ==
  /\ ~Ended(lines, pos, indent) /\ ~Deeper(lines, pos, indent)
  /\ ~IsItem(lines[pos].content)

LEMMA JoinedPos ==
  ASSUME NEW entries, NEW read
  PROVE  Joined(entries, read).pos = IF Failed(read) THEN 0 ELSE read.pos
  BY ReadFields DEF Joined, Failed

LEMMA ListedPos ==
  ASSUME NEW read, NEW rest
  PROVE  Listed(read, rest).pos = IF Failed(read) \/ Failed(rest) THEN 0 ELSE rest.pos
  BY ReadFields DEF Listed, Failed

\* The value a mapping's line is read with, and where it ends.
MapRead(lines, f, pos, indent) ==
  LET rest == Rest(lines[pos].content)
  IN  IF rest = <<>> \/ rest \in Marks
      THEN Nested(lines, f, pos + 1, indent, IF rest = <<>> THEN None ELSE Str(rest))
      ELSE Read(Scalar(rest), pos + 1)

LEMMA ParseMapIs ==
  ASSUME NEW lines, NEW f, NEW pos, NEW indent
  PROVE  ParseMap(lines, f, pos, indent) =
           IF \/ Ended(lines, pos, indent)
              \/ ~Deeper(lines, pos, indent) /\ IsItem(lines[pos].content)
           THEN Read(Dict(<<>>), pos)
           ELSE IF Deeper(lines, pos, indent) \/ ~HasColon(lines[pos].content) THEN Error
           ELSE IF Failed(MapRead(lines, f, pos, indent)) THEN Error
           ELSE Joined(Pair(Key(lines[pos].content), MapRead(lines, f, pos, indent).val),
                       f["map", MapRead(lines, f, pos, indent).pos, indent])
  BY DEF ParseMap, MapRead

LEMMA MapReadAhead ==
  ASSUME NEW lines, IsText(lines), NEW f, NEW pos \in 1 .. Len(lines), NEW indent \in Nat,
         AheadBehind(f, lines, pos)
  PROVE  Ahead(MapRead(lines, f, pos, indent), lines, pos + 1)
  <1> DEFINE rest == Rest(lines[pos].content)
             otherwise == IF rest = <<>> THEN None ELSE Str(rest)
  <1>1. Len(lines) \in Nat
    BY TextFacts
  <1>2. MapRead(lines, f, pos, indent) \in
          {Nested(lines, f, pos + 1, indent, otherwise), Read(Scalar(rest), pos + 1)}
    BY DEF MapRead
  <1>3. Ahead(Nested(lines, f, pos + 1, indent, otherwise), lines, pos + 1)
    <2> HIDE DEF otherwise
    <2> QED BY NestedAhead
  <1>4. Ahead(Read(Scalar(rest), pos + 1), lines, pos + 1)
    BY <1>1, ReadFields DEF Ahead
  <1> QED BY <1>2, <1>3, <1>4

LEMMA MapReadSame ==
  ASSUME NEW lines, IsText(lines), NEW f, NEW g, NEW pos \in 1 .. Len(lines),
         NEW indent \in Nat, Agree(f, g, lines, pos)
  PROVE  MapRead(lines, f, pos, indent) = MapRead(lines, g, pos, indent)
  <1> DEFINE rest == Rest(lines[pos].content)
             otherwise == IF rest = <<>> THEN None ELSE Str(rest)
  <1>1. Nested(lines, f, pos + 1, indent, otherwise) = Nested(lines, g, pos + 1, indent, otherwise)
    <2> HIDE DEF otherwise
    <2> QED BY NestedSame
  <1> QED BY <1>1 DEF MapRead

\* A place where a parser does not stop is a line.
LEMMA NotEnded ==
  ASSUME NEW lines, IsText(lines), NEW pos \in Places(lines), NEW indent,
         ~Ended(lines, pos, indent)
  PROVE  pos \in 1 .. Len(lines)
  BY TextFacts DEF Places, Ended

\* A mapping is read from a line on, or not at all.
LEMMA MapAhead ==
  ASSUME NEW lines, IsText(lines), NEW f, NEW pos \in Places(lines), NEW indent \in Nat,
         AheadBehind(f, lines, pos)
  PROVE  /\ Ahead(ParseMap(lines, f, pos, indent), lines, pos)
         /\ IsMapLine(lines, pos, indent) =>
              Ahead(ParseMap(lines, f, pos, indent), lines, pos + 1)
  <1> DEFINE r == ParseMap(lines, f, pos, indent)
             m == MapRead(lines, f, pos, indent)
             stop == \/ Ended(lines, pos, indent)
                     \/ ~Deeper(lines, pos, indent) /\ IsItem(lines[pos].content)
             wrong == Deeper(lines, pos, indent) \/ ~HasColon(lines[pos].content) \/ Failed(m)
  <1>1. Len(lines) \in Nat /\ pos \in 1 .. Len(lines) + 1
    BY TextFacts DEF Places
  <1>2. r = IF stop THEN Read(Dict(<<>>), pos)
            ELSE IF wrong THEN Error
            ELSE Joined(Pair(Key(lines[pos].content), m.val), f["map", m.pos, indent])
    BY ParseMapIs
  <1>3. IsMapLine(lines, pos, indent) => ~stop
    BY DEF IsMapLine
  <1>4. ~stop => pos \in 1 .. Len(lines)
    BY NotEnded
  <1>5. ~stop /\ ~wrong => m.pos \in pos + 1 .. Len(lines) + 1
    BY <1>1, <1>4, MapReadAhead DEF Ahead, Failed
  <1> HIDE DEF m, stop, wrong, r
  <1>6. CASE stop
    BY <1>1, <1>2, <1>3, <1>6, ReadFields DEF Ahead, r
  <1>7. CASE ~stop /\ wrong
    BY <1>2, <1>7, ReadFields DEF Ahead, r
  <1>8. CASE ~stop /\ ~wrong
    <2> DEFINE q == f["map", m.pos, indent].pos
    <2>1. q \in {0} \cup (m.pos .. Len(lines) + 1)
      BY <1>5, <1>8 DEF AheadBehind, Parsers, Ahead
    <2>2. r.pos \in {0, q}
      BY <1>2, <1>8, JoinedPos
    <2> HIDE DEF q
    <2>3. r.pos \in {0} \cup (pos + 1 .. Len(lines) + 1)
      BY <1>1, <1>5, <1>8, <2>1, <2>2
    <2>4. r.pos \in {0} \cup (pos .. Len(lines) + 1)
      BY <1>1, <2>3
    <2> QED BY <2>3, <2>4 DEF Ahead, r
  <1> QED BY <1>6, <1>7, <1>8

LEMMA MapSame ==
  ASSUME NEW lines, IsText(lines), NEW f, NEW g, NEW pos \in Places(lines), NEW indent \in Nat,
         AheadBehind(f, lines, pos), Agree(f, g, lines, pos)
  PROVE  ParseMap(lines, f, pos, indent) = ParseMap(lines, g, pos, indent)
  <1> DEFINE m == MapRead(lines, f, pos, indent)
             stop == \/ Ended(lines, pos, indent)
                     \/ ~Deeper(lines, pos, indent) /\ IsItem(lines[pos].content)
             wrong == Deeper(lines, pos, indent) \/ ~HasColon(lines[pos].content) \/ Failed(m)
  <1>1. Len(lines) \in Nat /\ pos \in 1 .. Len(lines) + 1
    BY TextFacts DEF Places
  <1>2. ~stop => pos \in 1 .. Len(lines)
    BY NotEnded
  <1>3. ~stop => MapRead(lines, g, pos, indent) = m
    BY <1>2, MapReadSame
  <1>4. ~stop /\ ~wrong => m.pos \in pos + 1 .. Len(lines) + 1
    BY <1>1, <1>2, MapReadAhead DEF Ahead, Failed
  <1>5. ~stop /\ ~wrong => f["map", m.pos, indent] = g["map", m.pos, indent]
    BY <1>4 DEF Agree, Parsers
  <1>6. CASE stop
    BY <1>6, ParseMapIs
  <1>7. CASE ~stop /\ wrong
    BY <1>3, <1>7, ParseMapIs
  <1>8. CASE ~stop /\ ~wrong
    <2>1. ParseMap(lines, f, pos, indent)
            = Joined(Pair(Key(lines[pos].content), m.val), f["map", m.pos, indent])
      BY <1>8, ParseMapIs
    <2>2. ParseMap(lines, g, pos, indent)
            = Joined(Pair(Key(lines[pos].content), m.val), g["map", m.pos, indent])
      BY <1>3, <1>8, ParseMapIs
    <2> QED BY <1>5, <1>8, <2>1, <2>2
  <1> QED BY <1>6, <1>7, <1>8

\* An item of a list ends behind its line.
LEMMA ItemAhead ==
  ASSUME NEW lines, IsText(lines), NEW f, NEW pos \in 1 .. Len(lines), NEW indent \in Nat,
         AheadBehind(f, lines, pos)
  PROVE  Ahead(ParseItem(lines, f, pos, indent), lines, pos + 1)
  <1> DEFINE item == Tail(lines[pos].content)
             below == Nested(lines, f, pos + 1, indent, None)
             fields == f["fields", pos + 1, indent]
             r == ParseItem(lines, f, pos, indent)
  <1>1. Len(lines) \in Nat
    BY TextFacts
  <1>2. Ahead(below, lines, pos + 1)
    BY NestedAhead
  <1>3. Ahead(fields, lines, pos + 1)
    <2>1. pos + 1 \in pos + 1 .. Len(lines) + 1
      BY <1>1
    <2> QED BY <2>1 DEF AheadBehind, Parsers
  <1> DEFINE c1 == item \in Marks
             c2 == Last(item) = ":" /\ ~Starts(item, Quotes)
             c3 == /\ HasColon(item) /\ Last(item) # ":"
                   /\ ~Starts(item, Quotes \cup {"[", "{"})
             pair == Joined(Pair(Key(item), Scalar(Rest(item))), fields)
  <1>4. r.pos \in {below.pos, 0, fields.pos, pos + 1}
    <2>1. r = CASE c1 -> below
                [] c2 -> (IF Failed(below) THEN Error
                          ELSE Read(Dict(Pair(Front(item), below.val)), below.pos))
                [] c3 -> pair
                [] OTHER -> Read(Scalar(item), pos + 1)
      BY DEF ParseItem
    <2>2. pair.pos \in {0, fields.pos}
      BY JoinedPos
    <2>3. \A val, p : Read(val, p).pos = p
      BY ReadFields
    <2> HIDE DEF r, below, fields, c1, c2, c3, pair
    <2>4. CASE c1
      <3>1. r = below \/ r = Read(Dict(Pair(Front(item), below.val)), below.pos) \/ r = Error \/ r = pair
        BY <2>1, <2>4
      <3> QED BY <2>2, <2>3, <3>1, ReadFields
    <2>5. CASE ~c1 /\ c2
      <3>1. r = Read(Dict(Pair(Front(item), below.val)), below.pos) \/ r = Error \/ r = pair
        BY <2>1, <2>5
      <3> QED BY <2>2, <2>3, <3>1, ReadFields
    <2>6. CASE ~c1 /\ ~c2 /\ c3
      BY <2>1, <2>2, <2>6
    <2>7. CASE ~c1 /\ ~c2 /\ ~c3
      BY <2>1, <2>3, <2>7
    <2> QED BY <2>4, <2>5, <2>6, <2>7
  <1> HIDE DEF below, fields
  <1>5. r.pos \in {0} \cup (pos + 1 .. Len(lines) + 1)
    <2> DEFINE a == below.pos
               b == fields.pos
               c == r.pos
    <2>1. /\ a \in {0} \cup (pos + 1 .. Len(lines) + 1)
          /\ b \in {0} \cup (pos + 1 .. Len(lines) + 1)
          /\ c \in {a, 0, b, pos + 1}
      BY <1>2, <1>3, <1>4 DEF Ahead
    <2> HIDE DEF a, b, c
    <2>2. c \in {0} \cup (pos + 1 .. Len(lines) + 1)
      BY <1>1, <2>1
    <2> QED BY <2>2 DEF c
  <1> QED BY <1>5 DEF Ahead

LEMMA ItemSame ==
  ASSUME NEW lines, IsText(lines), NEW f, NEW g, NEW pos \in 1 .. Len(lines),
         NEW indent \in Nat, Agree(f, g, lines, pos)
  PROVE  ParseItem(lines, f, pos, indent) = ParseItem(lines, g, pos, indent)
  <1>1. Nested(lines, f, pos + 1, indent, None) = Nested(lines, g, pos + 1, indent, None)
    BY NestedSame
  <1>2. f["fields", pos + 1, indent] = g["fields", pos + 1, indent]
    <2>1. pos + 1 \in pos + 1 .. Len(lines) + 1
      BY TextFacts
    <2> QED BY <2>1 DEF Agree, Parsers
  <1> QED BY <1>1, <1>2 DEF ParseItem

\* A list's line is an item at this indentation.
IsListLine(lines, pos, indent) ==
  /\ ~Ended(lines, pos, indent) /\ ~Deeper(lines, pos, indent)
  /\ IsItem(lines[pos].content)

LEMMA ParseListIs ==
  ASSUME NEW lines, NEW f, NEW pos, NEW indent
  PROVE  ParseList(lines, f, pos, indent) =
           IF IsListLine(lines, pos, indent)
           THEN Listed(ParseItem(lines, f, pos, indent),
                       f["list", ParseItem(lines, f, pos, indent).pos, indent])
           ELSE IF ~Ended(lines, pos, indent) /\ Deeper(lines, pos, indent) THEN Error
           ELSE Read(List(<<>>), pos)
  BY DEF ParseList, IsListLine

LEMMA ListAhead ==
  ASSUME NEW lines, IsText(lines), NEW f, NEW pos \in Places(lines), NEW indent \in Nat,
         AheadBehind(f, lines, pos)
  PROVE  Ahead(ParseList(lines, f, pos, indent), lines, pos)
  <1> DEFINE r == ParseList(lines, f, pos, indent)
             item == ParseItem(lines, f, pos, indent)
             line == IsListLine(lines, pos, indent)
  <1>1. Len(lines) \in Nat /\ pos \in 1 .. Len(lines) + 1
    BY TextFacts DEF Places
  <1>2. line => pos \in 1 .. Len(lines)
    BY NotEnded DEF IsListLine
  <1>3. line /\ ~Failed(item) => item.pos \in pos + 1 .. Len(lines) + 1
    BY <1>1, <1>2, ItemAhead DEF Ahead, Failed
  <1>4. ~line => r \in {Error, Read(List(<<>>), pos)}
    BY ParseListIs
  <1>5. line => r = Listed(item, f["list", item.pos, indent])
    BY ParseListIs
  <1> HIDE DEF r, item, line
  <1>6. CASE ~line
    BY <1>1, <1>4, <1>6, ReadFields DEF Ahead, r
  <1>7. CASE line /\ Failed(item)
    BY <1>5, <1>7, ListedPos DEF Ahead, r
  <1>8. CASE line /\ ~Failed(item)
    <2> DEFINE q == f["list", item.pos, indent].pos
    <2>1. q \in {0} \cup (item.pos .. Len(lines) + 1)
      BY <1>1, <1>3, <1>8 DEF AheadBehind, Parsers, Ahead
    <2>2. r.pos \in {0, q}
      <3>1. r = Listed(item, f["list", item.pos, indent])
        BY <1>5, <1>8
      <3> QED BY <3>1, ListedPos
    <2> HIDE DEF q
    <2>3. r.pos \in {0} \cup (pos .. Len(lines) + 1)
      BY <1>1, <1>3, <1>8, <2>1, <2>2
    <2> QED BY <2>3 DEF Ahead, r
  <1> QED BY <1>6, <1>7, <1>8

LEMMA ListSame ==
  ASSUME NEW lines, IsText(lines), NEW f, NEW g, NEW pos \in Places(lines), NEW indent \in Nat,
         AheadBehind(f, lines, pos), Agree(f, g, lines, pos)
  PROVE  ParseList(lines, f, pos, indent) = ParseList(lines, g, pos, indent)
  <1> DEFINE item == ParseItem(lines, f, pos, indent)
             line == IsListLine(lines, pos, indent)
  <1>1. Len(lines) \in Nat /\ pos \in 1 .. Len(lines) + 1
    BY TextFacts DEF Places
  <1>2. line => pos \in 1 .. Len(lines)
    BY NotEnded DEF IsListLine
  <1>3. line => item = ParseItem(lines, g, pos, indent)
    BY <1>2, ItemSame
  <1>4. line /\ ~Failed(item) => f["list", item.pos, indent] = g["list", item.pos, indent]
    <2> SUFFICES ASSUME line, ~Failed(item)
                 PROVE  f["list", item.pos, indent] = g["list", item.pos, indent]
      OBVIOUS
    <2>1. item.pos \in pos + 1 .. Len(lines) + 1
      BY <1>1, <1>2, ItemAhead DEF Ahead, Failed
    <2> QED BY <2>1 DEF Agree, Parsers
  <1>5. CASE ~line
    BY <1>5, ParseListIs
  <1>6. CASE line
    <2>1. ParseList(lines, f, pos, indent) = Listed(item, f["list", item.pos, indent])
      BY <1>6, ParseListIs
    <2>2. ParseList(lines, g, pos, indent) = Listed(item, g["list", item.pos, indent])
      BY <1>3, <1>6, ParseListIs
    <2>3. CASE Failed(item)
      BY <2>1, <2>2, <2>3 DEF Listed
    <2>4. CASE ~Failed(item)
      BY <1>4, <1>6, <2>1, <2>2, <2>4
    <2> QED BY <2>3, <2>4
  <1> QED BY <1>5, <1>6

\* What a result has to be for the parsers that call it: ahead, and behind
\* the line when it is a mapping that begins with it.
Good(read, lines, what, pos, indent) ==
  /\ Ahead(read, lines, pos)
  /\ what = "map" /\ IsMapLine(lines, pos, indent) => Ahead(read, lines, pos + 1)

GoodHere(f, lines, pos) ==
  \A what \in {"map", "list"}, indent \in Nat : Good(f[what, pos, indent], lines, what, pos, indent)
SameHere(f, g, pos) ==
  \A what \in {"map", "list"}, indent \in Nat : f[what, pos, indent] = g[what, pos, indent]

\* The keys below an item's first line are read from a line on.
LEMMA FieldsAhead ==
  ASSUME NEW lines, IsText(lines), NEW f, NEW pos \in Places(lines), NEW indent \in Nat,
         AheadBehind(f, lines, pos), GoodHere(f, lines, pos)
  PROVE  /\ Ahead(ParseFields(lines, f, pos, indent), lines, pos)
         /\ Deeper(lines, pos, indent) /\ ~IsItem(lines[pos].content) =>
              Ahead(f["map", pos, lines[pos].indent], lines, pos + 1)
  <1> DEFINE r == ParseFields(lines, f, pos, indent)
             go == Deeper(lines, pos, indent) /\ ~IsItem(lines[pos].content)
             extra == f["map", pos, lines[pos].indent]
             more == f["fields", extra.pos, indent]
  <1>1. Len(lines) \in Nat /\ pos \in 1 .. Len(lines) + 1
    BY TextFacts DEF Places
  <1>2. go => Ahead(extra, lines, pos + 1)
    <2> SUFFICES ASSUME go
                 PROVE  Ahead(extra, lines, pos + 1)
      OBVIOUS
    <2>1. pos \in 1 .. Len(lines) /\ lines[pos].indent \in Nat
      BY <1>1, TextFacts DEF Deeper
    <2>2. IsMapLine(lines, pos, lines[pos].indent)
      BY <2>1, <1>1 DEF IsMapLine, Ended, Deeper
    <2> QED BY <2>1, <2>2 DEF GoodHere, Good
  <1>3. ASSUME ~go
        PROVE  Ahead(r, lines, pos)
    <2>1. r = Read(Dict(<<>>), pos)
      BY <1>3 DEF ParseFields
    <2> HIDE DEF r
    <2> QED BY <1>1, <2>1, ReadFields DEF Ahead
  <1>4. ASSUME go, Failed(extra)
        PROVE  Ahead(r, lines, pos)
    <2>1. r = Error
      BY <1>4 DEF ParseFields
    <2> HIDE DEF r
    <2> QED BY <2>1, ReadFields DEF Ahead
  <1>5. ASSUME go, ~Failed(extra)
        PROVE  Ahead(r, lines, pos)
    <2>1. r = Joined(extra.val[2], more)
      BY <1>5 DEF ParseFields
    <2>2. extra.pos \in pos + 1 .. Len(lines) + 1
      BY <1>1, <1>2, <1>5 DEF Ahead, Failed
    <2>3. Ahead(more, lines, extra.pos)
      BY <2>2 DEF AheadBehind, Parsers
    <2>4. r.pos \in {0, more.pos}
      <3> HIDE DEF r, more, extra
      <3> QED BY <2>1, JoinedPos
    <2> DEFINE q == more.pos
               p == extra.pos
    <2>5. /\ q \in {0} \cup (p .. Len(lines) + 1) /\ r.pos \in {0, q}
          /\ p \in pos + 1 .. Len(lines) + 1
      BY <2>2, <2>3, <2>4 DEF Ahead
    <2> HIDE DEF q, p, r
    <2>6. r.pos \in {0} \cup (pos .. Len(lines) + 1)
      BY <1>1, <2>5
    <2> QED BY <2>6 DEF Ahead
  <1>6. Ahead(r, lines, pos)
    BY <1>3, <1>4, <1>5
  <1> QED BY <1>2, <1>6

LEMMA FieldsSame ==
  ASSUME NEW lines, IsText(lines), NEW f, NEW g, NEW pos \in Places(lines), NEW indent \in Nat,
         AheadBehind(f, lines, pos), Agree(f, g, lines, pos),
         GoodHere(f, lines, pos), SameHere(f, g, pos)
  PROVE  ParseFields(lines, f, pos, indent) = ParseFields(lines, g, pos, indent)
  <1> DEFINE go == Deeper(lines, pos, indent) /\ ~IsItem(lines[pos].content)
             extra == f["map", pos, lines[pos].indent]
  <1>1. Len(lines) \in Nat /\ pos \in 1 .. Len(lines) + 1
    BY TextFacts DEF Places
  <1>2. CASE ~go
    BY <1>2 DEF ParseFields
  <1>3. CASE go
    <2>1. pos \in 1 .. Len(lines) /\ lines[pos].indent \in Nat
      BY <1>1, <1>3, TextFacts DEF Deeper
    <2>2. g["map", pos, lines[pos].indent] = extra
      BY <2>1 DEF SameHere
    <2>3. Ahead(extra, lines, pos + 1)
      BY <1>3, FieldsAhead
    <2>4. CASE Failed(extra)
      BY <1>3, <2>2, <2>4 DEF ParseFields
    <2>5. CASE ~Failed(extra)
      <3>1. extra.pos \in pos + 1 .. Len(lines) + 1
        BY <2>3, <2>5 DEF Ahead, Failed
      <3>2. f["fields", extra.pos, indent] = g["fields", extra.pos, indent]
        BY <3>1 DEF Agree, Parsers
      <3>3. ParseFields(lines, f, pos, indent)
              = Joined(extra.val[2], f["fields", extra.pos, indent])
        BY <1>3, <2>5 DEF ParseFields
      <3>4. ParseFields(lines, g, pos, indent)
              = Joined(extra.val[2], g["fields", extra.pos, indent])
        BY <1>3, <2>2, <2>5 DEF ParseFields
      <3> QED BY <3>2, <3>3, <3>4
    <2> QED BY <2>4, <2>5
  <1> QED BY <1>2, <1>3

LEMMA BlockAhead ==
  ASSUME NEW lines, IsText(lines), NEW f, NEW pos \in Places(lines), NEW indent \in Nat,
         GoodHere(f, lines, pos)
  PROVE  Ahead(ParseBlock(lines, f, pos, indent), lines, pos)
  <1> DEFINE r == ParseBlock(lines, f, pos, indent)
  <1>1. Len(lines) \in Nat /\ pos \in 1 .. Len(lines) + 1
    BY TextFacts DEF Places
  <1>2. Ahead(f["list", pos, indent], lines, pos) /\ Ahead(f["map", pos, indent], lines, pos)
    BY DEF GoodHere, Good
  <1>3. CASE Ended(lines, pos, indent)
    BY <1>1, <1>3, ReadFields DEF ParseBlock, Ahead
  <1>4. CASE ~Ended(lines, pos, indent)
    <2>1. pos \in 1 .. Len(lines)
      BY <1>4, NotEnded
    <2>2. Ahead(Read(Scalar(lines[pos].content), pos + 1), lines, pos)
      BY <1>1, <2>1, ReadFields DEF Ahead
    <2>3. \/ r = f["list", pos, indent] \/ r = f["map", pos, indent]
          \/ r = Read(Scalar(lines[pos].content), pos + 1)
      BY <1>4 DEF ParseBlock
    <2> QED BY <1>2, <2>2, <2>3
  <1> QED BY <1>3, <1>4

LEMMA BlockSame ==
  ASSUME NEW lines, NEW f, NEW g, NEW pos, NEW indent \in Nat, SameHere(f, g, pos)
  PROVE  ParseBlock(lines, f, pos, indent) = ParseBlock(lines, g, pos, indent)
  BY DEF ParseBlock, SameHere

LEMMA StepGood ==
  ASSUME NEW lines, IsText(lines), NEW f, NEW what \in Parsers, NEW pos \in Places(lines),
         NEW indent \in Nat, AheadBehind(f, lines, pos),
         what \in {"fields", "block"} => GoodHere(f, lines, pos)
  PROVE  Good(Step(lines, f, what, pos, indent), lines, what, pos, indent)
  <1>1. CASE what = "block"
    <2>1. Step(lines, f, what, pos, indent) = ParseBlock(lines, f, pos, indent)
      BY <1>1 DEF Step
    <2> QED BY <1>1, <2>1, BlockAhead DEF Good
  <1>2. CASE what = "fields"
    <2>1. Step(lines, f, what, pos, indent) = ParseFields(lines, f, pos, indent)
      BY <1>2 DEF Step
    <2> QED BY <1>2, <2>1, FieldsAhead DEF Good
  <1>3. CASE what = "map"
    <2>1. Step(lines, f, what, pos, indent) = ParseMap(lines, f, pos, indent)
      BY <1>3 DEF Step
    <2> QED BY <1>3, <2>1, MapAhead DEF Good
  <1>4. CASE what = "list"
    <2>1. Step(lines, f, what, pos, indent) = ParseList(lines, f, pos, indent)
      BY <1>4 DEF Step
    <2> QED BY <1>4, <2>1, ListAhead DEF Good
  <1> QED BY <1>1, <1>2, <1>3, <1>4 DEF Parsers

LEMMA StepSame ==
  ASSUME NEW lines, IsText(lines), NEW f, NEW g, NEW what \in Parsers,
         NEW pos \in Places(lines), NEW indent \in Nat,
         AheadBehind(f, lines, pos), Agree(f, g, lines, pos),
         what \in {"fields", "block"} => GoodHere(f, lines, pos) /\ SameHere(f, g, pos)
  PROVE  Step(lines, f, what, pos, indent) = Step(lines, g, what, pos, indent)
  <1>1. CASE what = "block"
    <2>1. ParseBlock(lines, f, pos, indent) = ParseBlock(lines, g, pos, indent)
      BY <1>1, BlockSame
    <2> QED BY <1>1, <2>1 DEF Step
  <1>2. CASE what = "fields"
    <2>1. ParseFields(lines, f, pos, indent) = ParseFields(lines, g, pos, indent)
      BY <1>2, FieldsSame
    <2> QED BY <1>2, <2>1 DEF Step
  <1>3. CASE what = "map"
    <2>1. ParseMap(lines, f, pos, indent) = ParseMap(lines, g, pos, indent)
      BY <1>3, MapSame
    <2> QED BY <1>3, <2>1 DEF Step
  <1>4. CASE what = "list"
    <2>1. ParseList(lines, f, pos, indent) = ParseList(lines, g, pos, indent)
      BY <1>4, ListSame
    <2> QED BY <1>4, <2>1 DEF Step
  <1> QED BY <1>1, <1>2, <1>3, <1>4 DEF Parsers

\* A call is ranked by the lines it has before it; _parse_block and the keys
\* of an item come above the mapping or list they call at their own line.
Rank(lines, what, pos) ==
  2 * (Len(lines) + 1 - pos) + (IF what \in {"fields", "block"} THEN 1 ELSE 0)

\* f is the parsers up to the rank n.
ParsesUpTo(f, lines, n) ==
  /\ f = [call \in Calls(lines) |-> f[call]]
  /\ \A what \in Parsers, pos \in Places(lines), indent \in Nat :
       Rank(lines, what, pos) < n =>
         /\ f[what, pos, indent] = Step(lines, f, what, pos, indent)
         /\ Good(f[what, pos, indent], lines, what, pos, indent)

\* What the calls below a rank give.
LEMMA BelowRank ==
  ASSUME NEW lines, IsText(lines), NEW f, NEW n \in Nat, ParsesUpTo(f, lines, n),
         NEW what \in Parsers, NEW pos \in Places(lines), Rank(lines, what, pos) <= n
  PROVE  /\ AheadBehind(f, lines, pos)
         /\ what \in {"fields", "block"} => GoodHere(f, lines, pos)
  <1>1. Len(lines) \in Nat /\ pos \in 1 .. Len(lines) + 1
    BY TextFacts DEF Places
  <1>2. ASSUME NEW w \in Parsers, NEW p \in pos + 1 .. Len(lines) + 1, NEW i \in Nat
        PROVE  Ahead(f[w, p, i], lines, p)
    <2>1. p \in Places(lines) /\ Rank(lines, w, p) < n
      BY <1>1 DEF Rank, Places
    <2> QED BY <2>1 DEF ParsesUpTo, Good
  <1>3. ASSUME what \in {"fields", "block"}, NEW w \in {"map", "list"}, NEW i \in Nat
        PROVE  Good(f[w, pos, i], lines, w, pos, i)
    <2>1. w \in Parsers /\ Rank(lines, w, pos) < n
      BY <1>1, <1>3 DEF Rank, Parsers
    <2> QED BY <2>1 DEF ParsesUpTo
  <1> QED BY <1>2, <1>3 DEF AheadBehind, GoodHere

LEMMA ParsesFurther ==
  ASSUME NEW lines, IsText(lines), NEW f, NEW n \in Nat, ParsesUpTo(f, lines, n)
  PROVE  \E g : ParsesUpTo(g, lines, n + 1)
  <1> DEFINE g == [call \in Calls(lines) |->
                     IF Rank(lines, call[1], call[2]) < n THEN f[call]
                     ELSE Step(lines, f, call[1], call[2], call[3])]
  <1>1. Len(lines) \in Nat
    BY TextFacts
  <1>2. ASSUME NEW what \in Parsers, NEW pos \in Places(lines), NEW indent \in Nat
        PROVE  g[what, pos, indent] = IF Rank(lines, what, pos) < n THEN f[what, pos, indent]
                                      ELSE Step(lines, f, what, pos, indent)
    BY CallOf
  <1>3. g = [call \in Calls(lines) |-> g[call]]
    OBVIOUS
  <1> HIDE DEF g
  <1>4. ASSUME NEW what \in Parsers, NEW pos \in Places(lines), NEW indent \in Nat,
               Rank(lines, what, pos) < n + 1
        PROVE  /\ g[what, pos, indent] = Step(lines, f, what, pos, indent)
               /\ Step(lines, f, what, pos, indent) = Step(lines, g, what, pos, indent)
               /\ Good(g[what, pos, indent], lines, what, pos, indent)
    <2>1. pos \in 1 .. Len(lines) + 1
      BY DEF Places
    <2>2. Rank(lines, what, pos) <= n
      BY <1>1, <1>4, <2>1 DEF Rank
    <2>3. AheadBehind(f, lines, pos)
      BY <2>2, BelowRank
    <2>4. what \in {"fields", "block"} => GoodHere(f, lines, pos)
      BY <2>2, BelowRank
    <2>5. Agree(f, g, lines, pos)
      <3>1. ASSUME NEW w \in Parsers, NEW p \in pos + 1 .. Len(lines) + 1, NEW i \in Nat
            PROVE  f[w, p, i] = g[w, p, i]
        <4>1. p \in Places(lines) /\ Rank(lines, w, p) < n
          BY <1>1, <2>1, <2>2 DEF Rank, Places
        <4> QED BY <1>2, <4>1
      <3> QED BY <3>1 DEF Agree
    <2>6. what \in {"fields", "block"} => SameHere(f, g, pos)
      <3>1. ASSUME what \in {"fields", "block"}, NEW w \in {"map", "list"}, NEW i \in Nat
            PROVE  f[w, pos, i] = g[w, pos, i]
        <4>1. w \in Parsers /\ Rank(lines, w, pos) < n
          BY <1>1, <2>1, <2>2, <3>1 DEF Rank, Parsers
        <4> QED BY <1>2, <4>1
      <3> QED BY <3>1 DEF SameHere
    <2>7. g[what, pos, indent] = Step(lines, f, what, pos, indent)
      <3>1. Rank(lines, what, pos) < n => f[what, pos, indent] = Step(lines, f, what, pos, indent)
        BY DEF ParsesUpTo
      <3> QED BY <1>2, <3>1
    <2>8. Step(lines, f, what, pos, indent) = Step(lines, g, what, pos, indent)
      BY <2>3, <2>4, <2>5, <2>6, StepSame
    <2>9. Good(Step(lines, f, what, pos, indent), lines, what, pos, indent)
      BY <2>3, <2>4, StepGood
    <2> QED BY <2>7, <2>8, <2>9
  <1>5. ParsesUpTo(g, lines, n + 1)
    BY <1>3, <1>4 DEF ParsesUpTo
  <1> QED BY <1>5

LEMMA LeastExists ==
  ASSUME NEW T \in SUBSET Nat, T # {}
  PROVE  \E m \in T : \A n \in T : m <= n
  <1> DEFINE R == {pair \in Nat \X Nat : pair[1] < pair[2]}
  <1>1. IsWellFoundedOn(R, Nat)
    BY NatLessThanWellFounded DEF OpToRel
  <1>2. PICK m \in T : \A n \in T : <<n, m>> \notin R
    <2> HIDE DEF R
    <2> QED BY <1>1, WFMin
  <1>3. ASSUME NEW n \in T PROVE m <= n
    <2>1. m \in Nat /\ n \in Nat /\ ~ (n < m)
      BY <1>2
    <2> QED BY <2>1
  <1> QED BY <1>3

LEMMA ParsesToRank ==
  ASSUME NEW lines, IsText(lines), NEW n \in Nat
  PROVE  \E f : ParsesUpTo(f, lines, n)
  <1> DEFINE T == {k \in Nat : ~ \E f : ParsesUpTo(f, lines, k)}
  <1>1. 0 \notin T
    <2> DEFINE f == [call \in Calls(lines) |-> Error]
    <2>1. f = [call \in Calls(lines) |-> f[call]]
      OBVIOUS
    <2> HIDE DEF f
    <2>2. \A what \in Parsers, pos \in Places(lines) : ~(Rank(lines, what, pos) < 0)
      BY TextFacts DEF Rank, Places
    <2>3. ParsesUpTo(f, lines, 0)
      BY <2>1, <2>2 DEF ParsesUpTo
    <2> QED BY <2>3
  <1>2. ASSUME NEW k \in Nat, k + 1 \in T
        PROVE  k \in T
    BY <1>2, ParsesFurther
  <1>3. CASE T # {}
    <2>1. PICK m \in T : \A k \in T : m <= k
      <3> HIDE DEF T
      <3>1. T \in SUBSET Nat
        BY DEF T
      <3> QED BY <1>3, <3>1, LeastExists
    <2>2. m \in Nat /\ m # 0
      BY <1>1
    <2>3. m - 1 \in Nat /\ (m - 1) + 1 \in T
      BY <2>2
    <2>4. m - 1 \in T
      <3> HIDE DEF T
      <3> QED BY <1>2, <2>3
    <2>5. m <= m - 1
      <3> HIDE DEF T
      <3> QED BY <2>1, <2>4
    <2> QED BY <2>2, <2>5
  <1>4. CASE T = {}
    BY <1>4
  <1> QED BY <1>3, <1>4

\* The parsers, as the function that Parsed chooses.
TheParse(lines) == CHOOSE f : IsParse(f, lines)

LEMMA ParseExists ==
  ASSUME NEW lines, IsText(lines)
  PROVE  /\ Parsed(lines) = TheParse(lines)["block", 1, lines[1].indent]
         /\ \A what \in Parsers, pos \in Places(lines), indent \in Nat :
              TheParse(lines)[what, pos, indent] = Step(lines, TheParse(lines), what, pos, indent)
  <1> DEFINE n == 2 * (Len(lines) + 1)
  <1>1. Len(lines) \in Nat /\ n \in Nat
    BY TextFacts
  <1>2. PICK f : ParsesUpTo(f, lines, n)
    <2> HIDE DEF n
    <2> QED BY <1>1, ParsesToRank
  <1>3. \A what \in Parsers, pos \in Places(lines) : Rank(lines, what, pos) < n
    BY <1>1 DEF Rank, Places
  <1>4. \A what \in Parsers, pos \in Places(lines), indent \in Nat :
          f[what, pos, indent] = Step(lines, f, what, pos, indent)
    <2> HIDE DEF n
    <2> QED BY <1>2, <1>3 DEF ParsesUpTo
  <1>5. IsParse(f, lines)
    <2>1. f = [call \in Calls(lines) |-> f[call]]
      BY <1>2 DEF ParsesUpTo
    <2>2. ASSUME NEW call \in Calls(lines)
          PROVE  f[call] = Step(lines, f, call[1], call[2], call[3])
      <3>1. call = <<call[1], call[2], call[3]>>
        BY CallIs
      <3>2. f[call[1], call[2], call[3]] = Step(lines, f, call[1], call[2], call[3])
        BY <1>4, CallIs
      <3> QED BY <3>1, <3>2
    <2> QED BY <2>1, <2>2 DEF IsParse
  <1>6. IsParse(TheParse(lines), lines)
    BY <1>5 DEF TheParse
  <1>7. ASSUME NEW what \in Parsers, NEW pos \in Places(lines), NEW indent \in Nat
        PROVE  TheParse(lines)[what, pos, indent]
                 = Step(lines, TheParse(lines), what, pos, indent)
    <2> DEFINE h == TheParse(lines)
    <2>1. h = [call \in Calls(lines) |-> Step(lines, h, call[1], call[2], call[3])]
      BY <1>6 DEF IsParse
    <2> HIDE DEF h
    <2>2. h[what, pos, indent] = Step(lines, h, what, pos, indent)
      BY <2>1, CallOf
    <2> QED BY <2>2 DEF h
  <1> QED BY <1>7, ParsedBy DEF TheParse

-----------------------------------------------------------------------------
\* Comments.

TheComment == <<"#", "'", "note", ":">>

LEMMA LeastIsMin ==
  ASSUME NEW T \in SUBSET Nat, T # {}
  PROVE  Min(T) \in T /\ \A n \in T : Min(T) <= n
  <1>1. \E m \in T : \A n \in T : m <= n
    BY LeastExists
  <1> QED BY <1>1 DEF Min

LEMMA IsMin ==
  ASSUME NEW T \in SUBSET Nat, NEW m \in T, \A n \in T : m <= n
  PROVE  Min(T) = m
  <1> DEFINE k == Min(T)
  <1>1. k \in T /\ k <= m
    BY LeastIsMin
  <1> HIDE DEF k
  <1>2. k \in Nat /\ m \in Nat /\ m <= k
    BY <1>1
  <1> QED BY <1>1, <1>2 DEF k

\* s leaves no quote open.
Closed(s) == OpenQuote(s) = ""

LEMMA UnquotedIs ==
  ASSUME NEW s, NEW i
  PROVE  Unquoted(s, i) <=> Closed(SubSeq(s, 1, i - 1))
  BY Zenon DEF Unquoted, Closed

\* The places where a comment may begin.
Hashes(s) == {i \in 1 .. Len(s) : s[i] = "#" /\ Unquoted(s, i)}

LEMMA StripIs ==
  ASSUME NEW s
  PROVE  StripComment(s) = IF Hashes(s) = {} THEN s ELSE SubSeq(s, 1, Min(Hashes(s)) - 1)
  BY DEF StripComment, Hashes

LEMMA Prefix ==
  ASSUME NEW s \in Words, NEW t \in Words, NEW n \in 0 .. Len(s)
  PROVE  SubSeq(s \o t, 1, n) = SubSeq(s, 1, n)
  <1>1. /\ Len(s) \in Nat /\ Len(t) \in Nat /\ s \o t \in Words
        /\ \A i \in 1 .. Len(s) : s[i] \in Tokens /\ (s \o t)[i] = s[i]
    <2>1. Len(s) \in Nat /\ Len(t) \in Nat
      BY LenProperties DEF Words
    <2>2. s \o t \in Words /\ \A i \in 1 .. Len(s) + Len(t) :
                                (s \o t)[i] = IF i <= Len(s) THEN s[i] ELSE t[i - Len(s)]
      BY ConcatProperties DEF Words
    <2>3. \A i \in 1 .. Len(s) : s[i] \in Tokens
      BY ElementOfSeq DEF Words
    <2> QED BY <2>1, <2>2, <2>3
  <1>2. /\ SubSeq(s, 1, n) \in Words
        /\ Len(SubSeq(s, 1, n)) = IF 1 <= n THEN n ELSE 0
        /\ \A i \in 1 .. n : SubSeq(s, 1, n)[i] = s[i]
    <2>1. \A i \in 1 .. n : s[i] \in Tokens
      BY <1>1
    <2>2. /\ SubSeq(s, 1, n) \in Seq(Tokens)
          /\ Len(SubSeq(s, 1, n)) = IF 1 <= n THEN n - 1 + 1 ELSE 0
          /\ \A i \in 1 .. n - 1 + 1 : SubSeq(s, 1, n)[i] = s[1 + i - 1]
      BY <2>1, SubSeqProperties
    <2> QED BY <1>1, <2>2 DEF Words
  <1>3. /\ SubSeq(s \o t, 1, n) \in Words
        /\ Len(SubSeq(s \o t, 1, n)) = IF 1 <= n THEN n ELSE 0
        /\ \A i \in 1 .. n : SubSeq(s \o t, 1, n)[i] = s[i]
    <2>1. \A i \in 1 .. n : (s \o t)[i] \in Tokens
      BY <1>1
    <2>2. /\ SubSeq(s \o t, 1, n) \in Seq(Tokens)
          /\ Len(SubSeq(s \o t, 1, n)) = IF 1 <= n THEN n - 1 + 1 ELSE 0
          /\ \A i \in 1 .. n - 1 + 1 : SubSeq(s \o t, 1, n)[i] = (s \o t)[1 + i - 1]
      BY <2>1, SubSeqProperties
    <2> QED BY <1>1, <2>2 DEF Words
  <1>4. \A i \in 1 .. Len(SubSeq(s, 1, n)) : SubSeq(s \o t, 1, n)[i] = SubSeq(s, 1, n)[i]
    BY <1>1, <1>2, <1>3
  <1> QED BY <1>2, <1>3, <1>4, SeqEqual DEF Words

LEMMA WholePrefix ==
  ASSUME NEW s \in Words
  PROVE  SubSeq(s, 1, Len(s)) = s
  <1>1. Len(s) \in Nat /\ \A i \in 1 .. Len(s) : s[i] \in Tokens
    BY LenProperties, ElementOfSeq DEF Words
  <1>2. /\ SubSeq(s, 1, Len(s)) \in Seq(Tokens)
        /\ Len(SubSeq(s, 1, Len(s))) = IF 1 <= Len(s) THEN Len(s) - 1 + 1 ELSE 0
        /\ \A i \in 1 .. Len(s) - 1 + 1 : SubSeq(s, 1, Len(s))[i] = s[1 + i - 1]
    BY <1>1, SubSeqProperties
  <1>3. /\ Len(SubSeq(s, 1, Len(s))) = Len(s)
        /\ \A i \in 1 .. Len(s) : SubSeq(s, 1, Len(s))[i] = s[i]
    BY <1>1, <1>2
  <1> QED BY <1>2, <1>3, SeqEqual DEF Words

\* A comment behind a line that leaves no quote open is taken away.
LEMMA CommentGoes ==
  ASSUME NEW s \in Words, Closed(s)
  PROVE  StripComment(s \o TheComment) = StripComment(s)
  <1> DEFINE t == s \o TheComment
             n == Len(s)
  <1>1. TheComment \in Words /\ Len(TheComment) = 4 /\ TheComment[1] = "#"
    <2>1. "#" \in Tokens /\ "'" \in Tokens /\ "note" \in Tokens /\ ":" \in Tokens
      BY DEF Tokens
    <2> DEFINE T == Tokens
    <2> HIDE DEF T
    <2>2. <<"#", "'", "note", ":">> \in Seq(T)
      BY <2>1 DEF T
    <2> QED BY <2>2 DEF Words, TheComment, T
  <1>2. n \in Nat
    BY LenProperties DEF Words
  <1>3. Len(t) = n + 4 /\ \A i \in 1 .. n + 4 : t[i] = IF i <= n THEN s[i] ELSE TheComment[i - n]
    <2> DEFINE c == TheComment
    <2>1. Len(t) = n + Len(c)
      BY <1>1, ConcatProperties DEF Words
    <2>2. \A i \in 1 .. n + Len(c) : t[i] = IF i <= n THEN s[i] ELSE c[i - n]
      BY <1>1, ConcatProperties DEF Words
    <2>3. Len(c) = 4
      BY <1>1
    <2> HIDE DEF c, n, t
    <2>4. Len(t) = n + 4 /\ \A i \in 1 .. n + 4 : t[i] = IF i <= n THEN s[i] ELSE c[i - n]
      BY <2>1, <2>2, <2>3
    <2> QED BY <2>4 DEF c
  <1>4. \A i \in 0 .. n : SubSeq(t, 1, i) = SubSeq(s, 1, i)
    BY <1>1, Prefix
  <1>p. SubSeq(t, 1, n) = s
    <2>1. n \in 0 .. n
      BY <1>2
    <2> QED BY <1>4, <2>1, WholePrefix
  <1>n. n = Len(s)
    OBVIOUS
  <1> HIDE DEF t, n
  <1>5. \A i \in 1 .. n : Unquoted(t, i) <=> Unquoted(s, i)
    <2>1. TAKE i \in 1 .. n
    <2>2. i - 1 \in 0 .. n
      BY <1>2
    <2>3. SubSeq(t, 1, i - 1) = SubSeq(s, 1, i - 1)
      BY <1>4, <2>2
    <2> QED BY <2>3, UnquotedIs
  <1>6. \A i \in 1 .. n : i \in Hashes(t) <=> i \in Hashes(s)
    BY <1>2, <1>3, <1>5, <1>n DEF Hashes
  <1>7. n + 1 \in Hashes(t)
    <2>2. Unquoted(t, n + 1)
      <3>1. (n + 1) - 1 = n
        BY <1>2
      <3> QED BY <1>p, <3>1, UnquotedIs
    <2>3. t[n + 1] = "#" /\ n + 1 \in 1 .. Len(t)
      BY <1>1, <1>2, <1>3
    <2> QED BY <2>2, <2>3 DEF Hashes
  <1>8. Hashes(s) \in SUBSET (1 .. n) /\ Hashes(t) \in SUBSET Nat /\ Hashes(s) \in SUBSET Nat
    BY <1>2, <1>3, <1>n DEF Hashes
  <1>9. CASE Hashes(s) = {}
    <2>1. \A i \in Hashes(t) : n + 1 <= i
      <3>1. \A i \in Hashes(t) : i \in 1 .. n \/ n + 1 <= i
        BY <1>2, <1>3 DEF Hashes
      <3> QED BY <1>6, <1>9, <3>1
    <2>2. Min(Hashes(t)) = n + 1
      BY <1>7, <1>8, <2>1, IsMin
    <2>3. StripComment(t) = SubSeq(t, 1, Min(Hashes(t)) - 1)
      BY <1>7, StripIs
    <2>4. Min(Hashes(t)) - 1 = n
      BY <1>2, <2>2
    <2>5. StripComment(t) = s
      BY <1>p, <2>3, <2>4
    <2> QED BY <1>9, <2>5, StripIs DEF t
  <1>10. CASE Hashes(s) # {}
    <2> DEFINE m == Min(Hashes(s))
    <2>1. m \in Hashes(s) /\ \A i \in Hashes(s) : m <= i
      BY <1>8, <1>10, LeastIsMin
    <2> HIDE DEF m
    <2>2. m \in 1 .. n /\ m \in Hashes(t)
      BY <1>6, <1>8, <2>1
    <2>3. \A i \in Hashes(t) : m <= i
      <3>1. \A i \in Hashes(t) : i \in 1 .. n \/ n + 1 <= i
        BY <1>2, <1>3 DEF Hashes
      <3>2. \A i \in Hashes(t) : i \in Nat
        BY <1>8
      <3> QED BY <1>2, <1>6, <2>1, <2>2, <3>1, <3>2
    <2>4. Min(Hashes(t)) = m
      BY <1>8, <2>2, <2>3, IsMin
    <2>5. StripComment(t) = SubSeq(t, 1, m - 1)
      BY <1>7, <2>4, StripIs
    <2>6. m - 1 \in 0 .. n
      BY <1>2, <2>2
    <2>7. StripComment(t) = SubSeq(s, 1, m - 1)
      BY <1>4, <2>5, <2>6
    <2> QED BY <1>10, <2>7, StripIs DEF t, m
  <1> QED BY <1>9, <1>10

LEMMA StrippedIsWords ==
  ASSUME NEW s \in Words
  PROVE  StripComment(s) \in Words
  <1>1. CASE Hashes(s) = {}
    BY <1>1, StripIs
  <1>2. CASE Hashes(s) # {}
    <2> DEFINE m == Min(Hashes(s))
    <2>1. Hashes(s) \in SUBSET Nat /\ Len(s) \in Nat
      BY LenProperties DEF Hashes, Words
    <2>2. m \in Hashes(s)
      BY <1>2, <2>1, LeastIsMin
    <2>3. m \in 1 .. Len(s)
      BY <2>2 DEF Hashes
    <2>4. \A i \in 1 .. m - 1 : s[i] \in Tokens
      BY <2>1, <2>3, ElementOfSeq DEF Words
    <2>5. SubSeq(s, 1, m - 1) \in Seq(Tokens)
      <3> HIDE DEF m
      <3> QED BY <2>1, <2>3, <2>4, SubSeqProperties
    <2>6. StripComment(s) = SubSeq(s, 1, m - 1)
      BY <1>2, StripIs
    <2> QED BY <2>5, <2>6 DEF Words
  <1> QED BY <1>1, <1>2

-----------------------------------------------------------------------------
\* The loop over the lines of the file.

IsSource(lines) ==
  /\ Len(lines) \in Nat
  /\ \A i \in 1 .. Len(lines) : lines[i].indent \in Nat /\ lines[i].content \in Words

CleanStep(lines, f, n) ==
  IF n = 0 THEN <<>>
  ELSE IF StripComment(lines[n].content) = <<>> THEN f[n - 1]
  ELSE Append(f[n - 1], Stripped(lines[n]))

IsCleaned(f, lines) == f = [n \in 0 .. Len(lines) |-> CleanStep(lines, f, n)]

TheCleaned(lines) == CHOOSE f : IsCleaned(f, lines)

LEMMA CleanedBy ==
  ASSUME NEW lines
  PROVE  Cleaned(lines) = TheCleaned(lines)[Len(lines)]
  BY DEF Cleaned, TheCleaned, IsCleaned, CleanStep

CleansUpTo(f, lines, n) ==
  /\ f = [k \in 0 .. Len(lines) |-> f[k]]
  /\ \A k \in 0 .. Len(lines) : k < n => f[k] = CleanStep(lines, f, k)

LEMMA CleansFurther ==
  ASSUME NEW lines, Len(lines) \in Nat, NEW f, NEW n \in Nat, CleansUpTo(f, lines, n)
  PROVE  \E g : CleansUpTo(g, lines, n + 1)
  <1> DEFINE g == [k \in 0 .. Len(lines) |-> IF k < n THEN f[k] ELSE CleanStep(lines, f, k)]
  <1>1. \A k \in 0 .. Len(lines) : g[k] = IF k < n THEN f[k] ELSE CleanStep(lines, f, k)
    OBVIOUS
  <1>2. g = [k \in 0 .. Len(lines) |-> g[k]]
    OBVIOUS
  <1> HIDE DEF g
  <1>3. ASSUME NEW k \in 0 .. Len(lines), k < n + 1
        PROVE  g[k] = CleanStep(lines, g, k)
    <2>1. g[k] = CleanStep(lines, f, k)
      BY <1>1 DEF CleansUpTo
    <2>2. CASE k = 0
      BY <2>1, <2>2 DEF CleanStep
    <2>3. CASE k # 0
      <3>1. k - 1 \in 0 .. Len(lines) /\ k - 1 < n
        BY <1>3, <2>3
      <3>2. g[k - 1] = f[k - 1]
        BY <1>1, <3>1
      <3> QED BY <2>1, <2>3, <3>2 DEF CleanStep
    <2> QED BY <2>2, <2>3
  <1>4. CleansUpTo(g, lines, n + 1)
    BY <1>2, <1>3 DEF CleansUpTo
  <1> QED BY <1>4

LEMMA CleansToEnd ==
  ASSUME NEW lines, Len(lines) \in Nat, NEW n \in Nat
  PROVE  \E f : CleansUpTo(f, lines, n)
  <1> DEFINE T == {k \in Nat : ~ \E f : CleansUpTo(f, lines, k)}
  <1>1. 0 \notin T
    <2> DEFINE f == [k \in 0 .. Len(lines) |-> <<>>]
    <2>1. f = [k \in 0 .. Len(lines) |-> f[k]]
      OBVIOUS
    <2> HIDE DEF f
    <2>2. CleansUpTo(f, lines, 0)
      BY <2>1 DEF CleansUpTo
    <2> QED BY <2>2
  <1>2. ASSUME NEW k \in Nat, k + 1 \in T
        PROVE  k \in T
    BY <1>2, CleansFurther
  <1>3. CASE T # {}
    <2>1. PICK m \in T : \A k \in T : m <= k
      <3> HIDE DEF T
      <3>1. T \in SUBSET Nat
        BY DEF T
      <3> QED BY <1>3, <3>1, LeastExists
    <2>2. m \in Nat /\ m # 0
      BY <1>1
    <2>3. m - 1 \in Nat /\ (m - 1) + 1 \in T
      BY <2>2
    <2>4. m - 1 \in T
      <3> HIDE DEF T
      <3> QED BY <1>2, <2>3
    <2>5. m <= m - 1
      <3> HIDE DEF T
      <3> QED BY <2>1, <2>4
    <2> QED BY <2>2, <2>5
  <1>4. CASE T = {}
    BY <1>4
  <1> QED BY <1>3, <1>4

LEMMA CleanedExists ==
  ASSUME NEW lines, Len(lines) \in Nat
  PROVE  IsCleaned(TheCleaned(lines), lines)
  <1>1. PICK f : CleansUpTo(f, lines, Len(lines) + 1)
    BY CleansToEnd
  <1>2. \A k \in 0 .. Len(lines) : f[k] = CleanStep(lines, f, k)
    BY <1>1 DEF CleansUpTo
  <1>3. f = [k \in 0 .. Len(lines) |-> f[k]]
    BY <1>1 DEF CleansUpTo
  <1>4. IsCleaned(f, lines)
    BY <1>2, <1>3 DEF IsCleaned
  <1> QED BY <1>4 DEF TheCleaned

\* The loop does the same to two texts whose lines strip to the same.
LEMMA CleanedSame ==
  ASSUME NEW lines, NEW other, Len(lines) \in Nat, Len(other) = Len(lines),
         \A i \in 1 .. Len(lines) : Stripped(lines[i]) = Stripped(other[i])
  PROVE  Cleaned(lines) = Cleaned(other)
  <1> DEFINE f == TheCleaned(lines)
             g == TheCleaned(other)
             n == Len(lines)
             T == {k \in 0 .. n : f[k] # g[k]}
  <1>1. f = [k \in 0 .. n |-> CleanStep(lines, f, k)]
    BY CleanedExists DEF IsCleaned
  <1>2. g = [k \in 0 .. n |-> CleanStep(other, g, k)]
    BY CleanedExists DEF IsCleaned
  <1>3. \A k \in 1 .. n : StripComment(lines[k].content) = StripComment(other[k].content)
    <2>1. TAKE k \in 1 .. n
    <2>2. Stripped(lines[k]).content = Stripped(other[k]).content
      OBVIOUS
    <2> QED BY <2>2 DEF Stripped
  <1>4. \A k \in 1 .. n : Stripped(lines[k]) = Stripped(other[k])
    OBVIOUS
  <1>5. n \in Nat /\ Len(other) = n
    OBVIOUS
  <1>6. Cleaned(lines) = f[n] /\ Cleaned(other) = g[n]
    BY CleanedBy
  <1> HIDE DEF f, g, n
  <1>7. \A k \in 0 .. n : f[k] = CleanStep(lines, f, k) /\ g[k] = CleanStep(other, g, k)
    BY <1>1, <1>2
  <1>8. CASE T # {}
    <2>1. PICK m \in T : \A k \in T : m <= k
      <3> HIDE DEF T
      <3>1. T \in SUBSET Nat
        BY <1>5 DEF T
      <3> QED BY <1>8, <3>1, LeastExists
    <2>2. m \in 0 .. n /\ f[m] # g[m]
      BY <2>1
    <2>3. m # 0
      BY <1>7, <2>2 DEF CleanStep
    <2>4. m \in 1 .. n /\ m - 1 \in 0 .. n /\ ~(m <= m - 1)
      BY <1>5, <2>2, <2>3
    <2>5. f[m - 1] = g[m - 1]
      BY <2>1, <2>4
    <2>6. f[m] = g[m]
      BY <1>3, <1>4, <1>7, <2>3, <2>4, <2>5 DEF CleanStep
    <2> QED BY <2>2, <2>6
  <1>9. CASE T = {}
    BY <1>5, <1>6, <1>9
  <1> QED BY <1>8, <1>9

\* What the loop keeps is a text, of no more lines; where it keeps all lines,
\* line i is line i.
LEMMA CleanedIsText ==
  ASSUME NEW lines, IsSource(lines)
  PROVE  /\ IsText(Cleaned(lines))
         /\ (\A i \in 1 .. Len(lines) : StripComment(lines[i].content) # <<>>) =>
              /\ Len(Cleaned(lines)) = Len(lines)
              /\ \A i \in 1 .. Len(lines) : Cleaned(lines)[i] = Stripped(lines[i])
  <1> DEFINE f == TheCleaned(lines)
             n == Len(lines)
             R == [indent : Nat, content : Words]
             all == \A i \in 1 .. n : StripComment(lines[i].content) # <<>>
             ok(k) == /\ f[k] \in Seq(R)
                      /\ all => /\ Len(f[k]) = k
                                /\ \A i \in 1 .. k : f[k][i] = Stripped(lines[i])
             T == {k \in 0 .. n : ~ok(k)}
  <1>1. f = [k \in 0 .. n |-> CleanStep(lines, f, k)]
    BY CleanedExists DEF IsCleaned, IsSource
  <1>2. n \in Nat
    BY DEF IsSource
  <1>3. Cleaned(lines) = f[n]
    BY CleanedBy
  <1>4. \A i \in 1 .. n : Stripped(lines[i]) \in R
    BY StrippedIsWords DEF Stripped, IsSource
  <1> HIDE DEF f, n
  <1>5. \A k \in 0 .. n : f[k] = CleanStep(lines, f, k)
    BY <1>1
  <1>6. ok(0)
    <2>1. f[0] = <<>>
      BY <1>2, <1>5 DEF CleanStep
    <2>2. <<>> \in Seq(R) /\ Len(<<>>) = 0
      BY EmptySeq
    <2> QED BY <2>1, <2>2
  <1>7. ASSUME NEW k \in 1 .. n, ok(k - 1)
        PROVE  ok(k)
    <2>1. k \in 0 .. n /\ k # 0 /\ k - 1 \in Nat
      BY <1>2
    <2> DEFINE s == f[k - 1]
               r == Stripped(lines[k])
    <2>2. s \in Seq(R) /\ r \in R
      BY <1>4, <1>7
    <2>3. CASE StripComment(lines[k].content) = <<>>
      <3>1. f[k] = s
        BY <1>5, <2>1, <2>3 DEF CleanStep
      <3>2. ~all
        BY <2>3
      <3> HIDE DEF R, s
      <3> QED BY <2>2, <3>1, <3>2
    <2>4. CASE StripComment(lines[k].content) # <<>>
      <3>1. f[k] = Append(s, r)
        BY <1>5, <2>1, <2>4 DEF CleanStep
      <3> HIDE DEF R
      <3>2. /\ Append(s, r) \in Seq(R) /\ Len(Append(s, r)) = Len(s) + 1
            /\ \A i \in 1 .. Len(s) : Append(s, r)[i] = s[i]
            /\ Append(s, r)[Len(s) + 1] = r
        BY <2>2, AppendProperties
      <3>3. ASSUME all
            PROVE  Len(f[k]) = k /\ \A i \in 1 .. k : f[k][i] = Stripped(lines[i])
        <4>1. Len(s) = k - 1 /\ \A i \in 1 .. k - 1 : s[i] = Stripped(lines[i])
          BY <1>7, <3>3
        <4> HIDE DEF s, r
        <4>2. Len(f[k]) = k /\ f[k][k] = r /\ \A i \in 1 .. k - 1 : f[k][i] = s[i]
          BY <2>1, <3>1, <3>2, <4>1
        <4>3. \A i \in 1 .. k : i = k \/ i \in 1 .. k - 1
          BY <2>1
        <4> QED BY <4>1, <4>2, <4>3 DEF r
      <3> QED BY <3>1, <3>2, <3>3
    <2> QED BY <2>3, <2>4
  <1> HIDE DEF ok
  <1>8. CASE T # {}
    <2>1. PICK m \in T : \A k \in T : m <= k
      <3> HIDE DEF T
      <3>1. T \in SUBSET Nat
        BY <1>2 DEF T
      <3> QED BY <1>8, <3>1, LeastExists
    <2>2. m \in 1 .. n /\ m - 1 \in 0 .. n /\ ~(m <= m - 1)
      BY <1>2, <1>6, <2>1
    <2>3. ok(m - 1)
      BY <2>1, <2>2
    <2> QED BY <1>7, <2>1, <2>2, <2>3
  <1>9. CASE T = {}
    <2>1. ok(n)
      BY <1>2, <1>9
    <2> QED BY <1>3, <2>1 DEF ok, IsText, n
  <1> QED BY <1>8, <1>9

-----------------------------------------------------------------------------
\* What the author has written.

Authored == UNION {Lines[n] : n \in 1 .. MaxLines}
Commented(line) == [line EXCEPT !.content = @ \o TheComment, !.commented = TRUE]
Entries == Authored \cup {Commented(line) : line \in Authored}

\* A line of the file is as it was written, or it has a comment behind it.
IsEntry(entry) ==
  \/ entry \in Authored
  \/ \E line \in Authored : Closed(line.content) /\ entry = Commented(line)

\* What a line of the file says, whether it is commented or not.
Says(entry, line) ==
  /\ entry.indent = line.indent /\ entry.shape = line.shape
  /\ entry.content \in Words
  /\ IsItem(entry.content) <=> IsItem(line.content)
  /\ StripComment(entry.content) = line.content

LEMMA AuthoredIsLine ==
  ASSUME NEW line \in Authored
  PROVE  IsLine(line)
  BY LinesAssumption DEF Authored

LEMMA StringsAreWords ==
  ASSUME NEW s \in Seq(STRING)
  PROVE  s \in Words
  <1>1. STRING \subseteq Tokens
    BY DEF Tokens
  <1>2. Len(s) \in Nat /\ s \in [1 .. Len(s) -> STRING]
    BY LenProperties
  <1>3. s \in [1 .. Len(s) -> Tokens]
    BY <1>1, <1>2
  <1> QED BY <1>2, <1>3 DEF Words

LEMMA LineFacts ==
  ASSUME NEW line \in Authored
  PROVE  /\ line.indent \in Nat /\ line.content \in Words /\ line.content # <<>>
         /\ line.commented = FALSE
         /\ StripComment(line.content) = line.content
         /\ {"shape", "content", "means", "indent", "commented"} \subseteq DOMAIN line
  <1>1. IsLine(line)
    BY AuthoredIsLine
  <1>2. BodyOf(line.content) # <<>>
    BY <1>1 DEF IsLine
  <1>3. line.content # <<>>
    BY <1>2 DEF BodyOf, IsItem, Starts
  <1> QED BY <1>1, <1>3, StringsAreWords DEF IsLine

LEMMA CommentedFacts ==
  ASSUME NEW line \in Authored
  PROVE  /\ Commented(line).indent = line.indent
         /\ Commented(line).shape = line.shape
         /\ Commented(line).content = line.content \o TheComment
         /\ Commented(line).commented = TRUE
  BY LineFacts DEF Commented

LEMMA TheCommentIsWords == TheComment \in Words
  <1>1. "#" \in Tokens /\ "'" \in Tokens /\ "note" \in Tokens /\ ":" \in Tokens
    BY DEF Tokens
  <1> DEFINE T == Tokens
  <1> HIDE DEF T
  <1>2. <<"#", "'", "note", ":">> \in Seq(T)
    BY <1>1 DEF T
  <1> QED BY <1>2 DEF Words, TheComment, T

LEMMA ItemStays ==
  ASSUME NEW s \in Words, s # <<>>
  PROVE  /\ s \o TheComment \in Words
         /\ IsItem(s \o TheComment) <=> IsItem(s)
  <1> DEFINE t == s \o TheComment
  <1>1. t \in Words
    BY TheCommentIsWords, ConcatProperties DEF Words
  <1>2. Len(s) \in Nat \ {0} /\ Len(TheComment) \in Nat
    <2>1. Len(s) \in Nat \ {0}
      BY EmptySeq DEF Words
    <2>2. Len(TheComment) \in Nat
      BY TheCommentIsWords, LenProperties DEF Words
    <2> QED BY <2>1, <2>2
  <1>3. Len(t) = Len(s) + Len(TheComment) /\ t[1] = s[1]
    <2>1. \A i \in 1 .. Len(s) + Len(TheComment) :
            t[i] = IF i <= Len(s) THEN s[i] ELSE TheComment[i - Len(s)]
      BY TheCommentIsWords, ConcatProperties DEF Words
    <2>2. Len(t) = Len(s) + Len(TheComment)
      BY TheCommentIsWords, ConcatProperties DEF Words
    <2>3. 1 \in 1 .. Len(s) + Len(TheComment) /\ 1 <= Len(s)
      BY <1>2
    <2> HIDE DEF t
    <2> QED BY <2>1, <2>2, <2>3
  <1>4. t # <<>>
    <2>1. Len(<<>>) = 0
      OBVIOUS
    <2>2. Len(t) # 0
      <3> HIDE DEF t
      <3> QED BY <1>2, <1>3
    <2> HIDE DEF t
    <2> QED BY <2>1, <2>2
  <1>5. Head(t) = t[1] /\ Head(s) = s[1]
    <2> HIDE DEF t
    <2> QED BY <1>1, <1>4 DEF Words
  <1> QED BY <1>1, <1>3, <1>4, <1>5 DEF IsItem, Starts

LEMMA EntrySays ==
  ASSUME NEW entry, IsEntry(entry)
  PROVE  \E line \in Authored : Says(entry, line)
  <1>1. CASE entry \in Authored
    BY <1>1, LineFacts DEF Says
  <1>2. ASSUME NEW line \in Authored, Closed(line.content), entry = Commented(line)
        PROVE  Says(entry, line)
    <2>1. entry.content = line.content \o TheComment
      BY <1>2, CommentedFacts
    <2>2. StripComment(entry.content) = line.content
      BY <1>2, <2>1, LineFacts, CommentGoes
    <2>3. entry.content \in Words /\ (IsItem(entry.content) <=> IsItem(line.content))
      <3> DEFINE c == line.content
      <3>1. c \in Words /\ c # <<>> /\ entry.content = c \o TheComment
        BY <2>1, LineFacts
      <3> HIDE DEF c
      <3>2. c \o TheComment \in Words /\ (IsItem(c \o TheComment) <=> IsItem(c))
        BY <3>1, ItemStays
      <3> QED BY <3>1, <3>2 DEF c
    <2> QED BY <1>2, <2>2, <2>3, CommentedFacts DEF Says
  <1> QED BY <1>1, <1>2 DEF IsEntry

\* The inductive invariant: every line of the file is one its author wrote,
\* commented or not, and value is what load makes of the file.
TextInv ==
  /\ text \in Seq(Entries)
  /\ Len(text) <= MaxLines
  /\ \A i \in 1 .. Len(text) : IsEntry(text[i])
  /\ value = Load(text)

LEMMA InitText == Init => TextInv
  <1> SUFFICES ASSUME Init PROVE TextInv
    OBVIOUS
  <1>1. <<>> \in Seq(Entries) /\ Len(<<>>) = 0
    BY EmptySeq
  <1>2. 0 <= MaxLines
    BY LinesAssumption
  <1> QED BY <1>1, <1>2 DEF Init, TextInv

LEMMA WriteText == TextInv /\ Write => TextInv'
  <1> SUFFICES ASSUME TextInv, Write
               PROVE  TextInv'
    OBVIOUS
  <1>1. Len(text) \in Nat /\ MaxLines \in Nat
    BY LenProperties, LinesAssumption DEF TextInv
  <1>2. PICK line \in Lines[Len(text) + 1] : text' = Append(text, line)
    BY DEF Write
  <1>3. line \in Authored
    <2>1. Len(text) + 1 \in 1 .. MaxLines
      BY <1>1 DEF Write
    <2> QED BY <2>1 DEF Authored
  <1>4. line \in Entries /\ text \in Seq(Entries)
    BY <1>3 DEF Entries, TextInv
  <1>5. /\ text' \in Seq(Entries) /\ Len(text') = Len(text) + 1
        /\ \A i \in 1 .. Len(text) : text'[i] = text[i]
        /\ text'[Len(text) + 1] = line
    BY <1>2, <1>4, AppendProperties
  <1>6. Len(text') <= MaxLines
    BY <1>1, <1>5 DEF Write
  <1>7. \A i \in 1 .. Len(text') : IsEntry(text'[i])
    <2>1. TAKE i \in 1 .. Len(text')
    <2>2. i \in 1 .. Len(text) \/ i = Len(text) + 1
      BY <1>1, <1>5
    <2>3. IsEntry(line)
      BY <1>3 DEF IsEntry
    <2> QED BY <1>5, <2>2, <2>3 DEF TextInv
  <1> QED BY <1>5, <1>6, <1>7 DEF TextInv, Write

\* What a comment does to the file.
LEMMA CommentText ==
  ASSUME TextInv, Comment
  PROVE  /\ TextInv'
         /\ Len(text') = Len(text)
         /\ \A j \in 1 .. Len(text) : Stripped(text'[j]) = Stripped(text[j])
  <1>1. Len(text) \in Nat /\ DOMAIN text = 1 .. Len(text)
    BY LenProperties DEF TextInv
  <1>2. PICK i \in DOMAIN text :
          /\ Closed(text[i].content)
          /\ text' = [text EXCEPT ![i].content = @ \o TheComment, ![i].commented = TRUE]
    BY Zenon DEF Comment, Closed, TheComment
  <1>3. text[i] \in Authored
    <2>1. ~text[i].commented
      BY Zenon DEF Comment
    <2>2. IsEntry(text[i])
      BY <1>1 DEF TextInv
    <2> QED BY <2>1, <2>2, CommentedFacts DEF IsEntry
  <1>4. Commented(text[i]) \in Entries
    BY <1>3 DEF Entries
  <1>5. text' = [text EXCEPT ![i] = Commented(text[i])]
    BY <1>1, <1>2 DEF Commented
  <1>6. /\ text' \in Seq(Entries) /\ Len(text') = Len(text)
        /\ \A j \in 1 .. Len(text) : text'[j] = IF j = i THEN Commented(text[i]) ELSE text[j]
    <2>1. text \in Seq(Entries) /\ i \in 1 .. Len(text)
      BY <1>1 DEF TextInv
    <2> QED BY <1>4, <1>5, <2>1, ExceptSeq
  <1>7. IsEntry(Commented(text[i]))
    BY <1>2, <1>3 DEF IsEntry
  <1>8. TextInv'
    BY <1>6, <1>7 DEF TextInv, Comment
  <1>9. Stripped(Commented(text[i])) = Stripped(text[i])
    <2>1. StripComment(Commented(text[i]).content) = StripComment(text[i].content)
      BY <1>2, <1>3, CommentedFacts, LineFacts, CommentGoes
    <2> QED BY <1>3, <2>1, CommentedFacts DEF Stripped
  <1> QED BY <1>6, <1>8, <1>9

LEMMA NextText == TextInv /\ [Next]_vars => TextInv'
  <1> SUFFICES ASSUME TextInv, [Next]_vars
               PROVE  TextInv'
    OBVIOUS
  <1>1. CASE Write
    BY <1>1, WriteText
  <1>2. CASE Comment
    BY <1>2, CommentText
  <1>3. CASE UNCHANGED vars
    BY <1>3 DEF vars, TextInv
  <1> QED BY <1>1, <1>2, <1>3 DEF Next

LEMMA TextInvariant == Spec => []TextInv
  BY InitText, NextText, PTL DEF Spec

\* A comment behind a line of the file never changes what load gives.
THEOREM CommentsAreNothing == Spec => CommentsChangeNothing
  <1>1. ASSUME TextInv, Comment
        PROVE  value' = value
    <2>1. Len(text) \in Nat
      BY LenProperties DEF TextInv
    <2>2. Cleaned(text) = Cleaned(text')
      BY <1>1, <2>1, CommentText, CleanedSame
    <2>3. Load(text) = Load(text')
      BY <2>2 DEF Load
    <2> QED BY <1>1, <2>3 DEF TextInv, Comment
  <1>2. TextInv /\ [Next]_vars => [Comment => value' = value]_vars
    BY <1>1
  <1> QED BY <1>2, TextInvariant, PTL DEF Spec, CommentsChangeNothing

-----------------------------------------------------------------------------
\* The values.

Tags == {"none", "bool", "number", "str", "list", "dict"}

LEMMA ScalarTag ==
  ASSUME NEW s
  PROVE  Scalar(s)[1] \in Tags
  <1>1. Plain(s)[1] \in Tags
    BY DEF Plain, None, Truth, Str, Number, Tags
  <1>2. List(Elements[s])[1] \in Tags
    BY DEF List, Tags
  <1> QED BY <1>1, <1>2 DEF Scalar

\* What the parsers return is tagged.
Tagged(read) == read.val[1] \in Tags

LEMMA ReadTag ==
  /\ Tagged(Error) /\ \A pos : Tagged(Read(None, pos))
  /\ \A s, pos : Tagged(Read(Scalar(s), pos))
  /\ \A d, pos : Tagged(Read(Dict(d), pos))
  /\ \A l, pos : Tagged(Read(List(l), pos))
  /\ \A entries, read : Tagged(Joined(entries, read))
  /\ \A read, rest : Tagged(Listed(read, rest))
  <1>1. \A val, pos : Tagged(Read(val, pos)) <=> val[1] \in Tags
    BY DEF Tagged, Read
  <1>2. None[1] \in Tags /\ (\A d : Dict(d)[1] \in Tags) /\ (\A l : List(l)[1] \in Tags)
    BY DEF None, Dict, List, Tags
  <1>3. Tagged(Error)
    BY <1>1, <1>2 DEF Error
  <1>4. (\A d, pos : Tagged(Read(Dict(d), pos))) /\ (\A l, pos : Tagged(Read(List(l), pos)))
    BY <1>1, <1>2
  <1>5. \A entries, read : Tagged(Joined(entries, read))
    BY <1>3, <1>4 DEF Joined
  <1>6. \A read, rest : Tagged(Listed(read, rest))
    BY <1>3, <1>4 DEF Listed
  <1> QED BY <1>1, <1>2, <1>3, <1>4, <1>5, <1>6, ScalarTag

LEMMA ParsedTag ==
  ASSUME NEW lines, IsText(lines), NEW pos \in Places(lines), NEW indent \in Nat
  PROVE  Tagged(TheParse(lines)["block", pos, indent])
  <1> DEFINE f == TheParse(lines)
  <1>1. "block" \in Parsers /\ "map" \in Parsers /\ "list" \in Parsers
    BY DEF Parsers
  <1>2. f["block", pos, indent] = ParseBlock(lines, f, pos, indent)
    BY <1>1, ParseExists DEF Step
  <1>3. f["map", pos, indent] = ParseMap(lines, f, pos, indent)
    BY <1>1, ParseExists DEF Step
  <1>4. f["list", pos, indent] = ParseList(lines, f, pos, indent)
    BY <1>1, ParseExists DEF Step
  <1> HIDE DEF f
  <1>5. Tagged(ParseMap(lines, f, pos, indent))
    <2> DEFINE r == ParseMap(lines, f, pos, indent)
    <2>1. \/ r = Read(Dict(<<>>), pos) \/ r = Error
          \/ r = Joined(Pair(Key(lines[pos].content), MapRead(lines, f, pos, indent).val),
                        f["map", MapRead(lines, f, pos, indent).pos, indent])
      BY ParseMapIs
    <2> HIDE DEF r
    <2>2. Tagged(r)
      BY <2>1, ReadTag
    <2> QED BY <2>2 DEF r
  <1>6. Tagged(ParseList(lines, f, pos, indent))
    <2> DEFINE r == ParseList(lines, f, pos, indent)
    <2>1. \/ r = Read(List(<<>>), pos) \/ r = Error
          \/ r = Listed(ParseItem(lines, f, pos, indent),
                        f["list", ParseItem(lines, f, pos, indent).pos, indent])
      BY ParseListIs
    <2> HIDE DEF r
    <2>2. Tagged(r)
      BY <2>1, ReadTag
    <2> QED BY <2>2 DEF r
  <1>7. Tagged(ParseBlock(lines, f, pos, indent))
    <2> DEFINE r == ParseBlock(lines, f, pos, indent)
    <2>1. \/ r = Read(None, pos) \/ r = Read(Scalar(lines[pos].content), pos + 1)
          \/ r = f["map", pos, indent] \/ r = f["list", pos, indent]
      BY DEF ParseBlock
    <2> HIDE DEF r
    <2>2. Tagged(r)
      BY <1>3, <1>4, <1>5, <1>6, <2>1, ReadTag
    <2> QED BY <2>2 DEF r
  <1> QED BY <1>2, <1>7 DEF f

LEMMA FirstLine ==
  ASSUME NEW lines, IsText(lines), lines # <<>>
  PROVE  1 \in 1 .. Len(lines) /\ lines[1].indent \in Nat /\ 1 \in Places(lines)
  <1>1. Len(lines) \in Nat \ {0}
    BY EmptySeq DEF IsText
  <1> QED BY <1>1, TextFacts DEF Places

LEMMA LoadTag ==
  ASSUME NEW lines, IsSource(lines)
  PROVE  Load(lines)[1] \in Tags \cup {"raised"}
  <1> DEFINE cleaned == Cleaned(lines)
             read == Parsed(cleaned)
  <1>1. IsText(cleaned)
    BY CleanedIsText
  <1>2. Load(lines) = IF cleaned = <<>> THEN None
                      ELSE IF read.pos = Len(cleaned) + 1 THEN read.val ELSE Raised
    BY DEF Load
  <1> HIDE DEF cleaned
  <1>3. CASE cleaned # <<>>
    <2>1. Tagged(read)
      <3>1. 1 \in Places(cleaned) /\ cleaned[1].indent \in Nat
        BY <1>1, <1>3, FirstLine
      <3>2. Parsed(cleaned) = TheParse(cleaned)["block", 1, cleaned[1].indent]
        BY <1>1, ParseExists
      <3>3. Tagged(TheParse(cleaned)["block", 1, cleaned[1].indent])
        BY <1>1, <3>1, ParsedTag
      <3> QED BY <3>2, <3>3
    <2> HIDE DEF read
    <2> QED BY <1>2, <2>1, <1>3 DEF Tagged, Raised, Tags
  <1>4. CASE cleaned = <<>>
    BY <1>2, <1>4 DEF None, Tags
  <1> QED BY <1>3, <1>4

LEMMA TextIsSource ==
  ASSUME TextInv
  PROVE  IsSource(text)
  <1>1. Len(text) \in Nat
    BY LenProperties DEF TextInv
  <1>2. ASSUME NEW i \in 1 .. Len(text)
        PROVE  text[i].indent \in Nat /\ text[i].content \in Words
    <2>1. PICK line \in Authored : Says(text[i], line)
      BY EntrySays DEF TextInv
    <2> QED BY <2>1, LineFacts DEF Says
  <1> QED BY <1>1, <1>2 DEF IsSource

\* load gives one of Python's values, tagged with its type, or the error.
THEOREM TypeCorrect == Spec => []TypeOK
  <1>1. TextInv => TypeOK
    <2> SUFFICES ASSUME TextInv
                 PROVE  TypeOK
      OBVIOUS
    <2>1. value[1] \in Tags \cup {"raised"}
      BY TextIsSource, LoadTag DEF TextInv
    <2> QED BY <2>1 DEF TypeOK, TextInv, Tags
  <1> QED BY <1>1, TextInvariant, PTL

-----------------------------------------------------------------------------
\* Where the blocks of a tidy text end.  p + 1 .. q - 1 are the lines below p
\* when q follows p, and the block that p begins goes up to q when p ends at q.

Follows(lines, p, q) ==
  /\ q \in p + 1 .. Len(lines) + 1
  /\ \A j \in p + 1 .. q - 1 : lines[j].indent > lines[p].indent
  /\ q <= Len(lines) => lines[q].indent <= lines[p].indent

EndsAt(lines, p, q) ==
  /\ q \in p + 1 .. Len(lines) + 1
  /\ \A j \in p + 1 .. q - 1 : lines[j].indent >= lines[p].indent
  /\ q <= Len(lines) => lines[q].indent < lines[p].indent

\* p is the first line of a block: of the text or of those below line p - 1.
Begins(lines, p) == p = 1 \/ lines[p - 1].indent < lines[p].indent

\* What WellFormed says of neighbours: a block has one indentation, ...
Aligned(lines) ==
  \A p \in 1 .. Len(lines), k \in 1 .. Len(lines) :
    /\ p < k /\ Begins(lines, p)
    /\ \A j \in p .. k - 1 : lines[j].indent >= lines[p].indent
    /\ p = 1 \/ lines[p - 1].indent < lines[k].indent
    => lines[k].indent >= lines[p].indent

\* ... its lines are of one kind, and a scalar that is no item is alone, ...
Alike(lines, shape) ==
  \A p \in 1 .. Len(lines), k \in 1 .. Len(lines) :
    /\ p < k /\ lines[k].indent = lines[p].indent
    /\ \A j \in p + 1 .. k - 1 : lines[j].indent >= lines[p].indent
    => /\ IsItem(lines[k].content) <=> IsItem(lines[p].content)
       /\ ~IsItem(lines[p].content) => shape[p] # "scalar" /\ shape[k] # "scalar"

\* ... and lines are nested below a header, or, keys, below a field of an item.
Nests(lines, shape) ==
  \A p \in 1 .. Len(lines) :
    p + 1 <= Len(lines) /\ lines[p + 1].indent > lines[p].indent =>
      \/ shape[p] = "header"
      \/ /\ shape[p] = "field" /\ IsItem(lines[p].content)
         /\ ~IsItem(lines[p + 1].content) /\ shape[p + 1] # "scalar"

LEMMA FollowsExists ==
  ASSUME NEW lines, IsText(lines), NEW p \in 1 .. Len(lines)
  PROVE  \E q : Follows(lines, p, q)
  <1> DEFINE n == Len(lines)
             T == {q \in p + 1 .. n + 1 : q <= n => lines[q].indent <= lines[p].indent}
  <1>1. n \in Nat /\ p \in 1 .. n /\ \A i \in 1 .. n : lines[i].indent \in Nat
    BY TextFacts
  <1> HIDE DEF n
  <1>2. n + 1 \in T
    BY <1>1
  <1>3. PICK q \in T : \A k \in T : q <= k
    <2>1. T \in SUBSET Nat
      BY <1>1
    <2> HIDE DEF T
    <2> QED BY <1>2, <2>1, LeastExists
  <1>4. ASSUME NEW j \in p + 1 .. q - 1
        PROVE  lines[j].indent > lines[p].indent
    <2>1. q \in p + 1 .. n + 1
      BY <1>3
    <2>2. j \in p + 1 .. n + 1 /\ j \in 1 .. n /\ ~(q <= j)
      BY <1>1, <2>1
    <2>3. j \notin T
      BY <1>3, <2>2
    <2>4. ~(lines[j].indent <= lines[p].indent)
      BY <2>2, <2>3
    <2> QED BY <1>1, <2>2, <2>4
  <1>5. Follows(lines, p, q)
    BY <1>3, <1>4 DEF Follows, n
  <1> QED BY <1>5

LEMMA FollowsNext ==
  ASSUME NEW lines, IsText(lines), NEW p \in 1 .. Len(lines), NEW q, Follows(lines, p, q),
         ~Deeper(lines, p + 1, lines[p].indent)
  PROVE  q = p + 1
  <1>1. Len(lines) \in Nat /\ \A i \in 1 .. Len(lines) : lines[i].indent \in Nat
    BY TextFacts
  <1>2. q \in p + 1 .. Len(lines) + 1
    BY DEF Follows
  <1>3. CASE p + 1 <= q - 1
    <2>1. p + 1 \in p + 1 .. q - 1 /\ p + 1 \in 1 .. Len(lines)
      BY <1>1, <1>2, <1>3
    <2>2. lines[p + 1].indent > lines[p].indent
      BY <2>1 DEF Follows
    <2> QED BY <1>1, <2>1, <2>2 DEF Deeper
  <1>4. CASE ~(p + 1 <= q - 1)
    BY <1>1, <1>2, <1>4
  <1> QED BY <1>3, <1>4

\* A line below another begins a block that ends where the other is followed.
LEMMA BelowEnds ==
  ASSUME NEW lines, IsText(lines), Aligned(lines), NEW p \in 1 .. Len(lines), NEW q,
         Follows(lines, p, q), Deeper(lines, p + 1, lines[p].indent)
  PROVE  p + 1 \in 1 .. Len(lines) /\ EndsAt(lines, p + 1, q)
  <1> DEFINE n == Len(lines)
             I(i) == lines[i].indent
             T == {k \in p + 2 .. q - 1 : I(k) < I(p + 1)}
  <1>1. n \in Nat /\ p \in 1 .. n /\ \A i \in 1 .. n : I(i) \in Nat
    BY TextFacts
  <1>2. p + 1 <= n /\ I(p + 1) > I(p)
    BY DEF Deeper
  <1>3. /\ q \in p + 1 .. n + 1
        /\ q <= n => I(q) <= I(p)
        /\ \A j \in p + 1 .. q - 1 : I(j) > I(p)
    BY DEF Follows
  <1>4. \A a \in 1 .. n, k \in 1 .. n :
          /\ a < k /\ Begins(lines, a)
          /\ \A j \in a .. k - 1 : I(j) >= I(a)
          /\ a = 1 \/ I(a - 1) < I(k)
          => I(k) >= I(a)
    BY DEF Aligned
  <1>5. Begins(lines, p + 1)
    <2>1. (p + 1) - 1 = p
      BY <1>1
    <2> QED BY <1>2, <2>1 DEF Begins
  <1>6. q # p + 1
    <2>1. p + 1 \in 1 .. n
      BY <1>1, <1>2
    <2>2. I(p + 1) \in Nat /\ I(p) \in Nat
      BY <1>1, <2>1
    <2> HIDE DEF n, I
    <2> QED BY <1>2, <1>3, <2>2
  <1> HIDE DEF n, I
  <1>7. q \in p + 2 .. n + 1
    BY <1>1, <1>3, <1>6
  <1>8. T = {}
    <2> SUFFICES ASSUME T # {}
                 PROVE  FALSE
      OBVIOUS
    <2>1. PICK k \in T : \A j \in T : k <= j
      <3>1. T \in SUBSET Nat
        BY <1>1, <1>7
      <3> HIDE DEF T
      <3> QED BY <3>1, LeastExists
    <2>2. k \in p + 2 .. q - 1 /\ I(k) < I(p + 1)
      BY <2>1
    <2>3. k \in 1 .. n /\ p + 1 \in 1 .. n /\ p + 1 < k
      BY <1>1, <1>2, <1>7, <2>2
    <2>4. ASSUME NEW j \in p + 1 .. k - 1
          PROVE  I(j) >= I(p + 1)
      <3>1. j \in 1 .. n /\ (j = p + 1 \/ j \in p + 2 .. q - 1) /\ ~(k <= j)
        BY <1>1, <1>7, <2>2
      <3>2. j \notin T
        BY <2>1, <3>1
      <3> QED BY <1>1, <2>3, <3>1, <3>2
    <2>5. I((p + 1) - 1) < I(k)
      <3>1. (p + 1) - 1 = p /\ k \in p + 1 .. q - 1
        BY <1>1, <1>7, <2>2
      <3> QED BY <1>1, <1>3, <2>3, <3>1
    <2>6. I(k) >= I(p + 1)
      BY <1>4, <1>5, <2>3, <2>4, <2>5
    <2> QED BY <1>1, <2>2, <2>3, <2>6
  <1>9. ASSUME NEW j \in (p + 1) + 1 .. q - 1
        PROVE  I(j) >= I(p + 1)
    <2>1. j \in p + 2 .. q - 1 /\ j \in 1 .. n /\ p + 1 \in 1 .. n
      BY <1>1, <1>7
    <2>2. ~(I(j) < I(p + 1))
      BY <1>8, <2>1
    <2> QED BY <1>1, <2>1, <2>2
  <1>10. q <= n => I(q) < I(p + 1)
    <2>1. p + 1 \in 1 .. n /\ (q <= n => q \in 1 .. n)
      BY <1>1, <1>2, <1>7
    <2> QED BY <1>1, <1>2, <1>3, <2>1
  <1>11. q \in (p + 1) + 1 .. n + 1 /\ p + 1 \in 1 .. n
    BY <1>1, <1>2, <1>7
  <1> QED BY <1>9, <1>10, <1>11 DEF EndsAt, n, I

\* The block of a line that another follows at its indentation ends with it.
LEMMA EndsFurther ==
  ASSUME NEW lines, IsText(lines), NEW p \in 1 .. Len(lines), NEW next, NEW q,
         Follows(lines, p, next), EndsAt(lines, p, q)
  PROVE  \/ /\ q = next /\ Ended(lines, next, lines[p].indent)
         \/ /\ next \in p + 1 .. Len(lines) /\ lines[next].indent = lines[p].indent
            /\ EndsAt(lines, next, q)
  <1> DEFINE n == Len(lines)
             I(i) == lines[i].indent
  <1>1. n \in Nat /\ p \in 1 .. n /\ \A i \in 1 .. n : I(i) \in Nat
    BY TextFacts
  <1>2. /\ next \in p + 1 .. n + 1
        /\ next <= n => I(next) <= I(p)
        /\ \A j \in p + 1 .. next - 1 : I(j) > I(p)
    BY DEF Follows
  <1>3. /\ q \in p + 1 .. n + 1
        /\ q <= n => I(q) < I(p)
        /\ \A j \in p + 1 .. q - 1 : I(j) >= I(p)
    BY DEF EndsAt
  <1> HIDE DEF n, I
  <1>4. CASE next > n \/ I(next) < I(p)
    <2>1. ~(next < q)
      <3> SUFFICES ASSUME next < q
                   PROVE  FALSE
        OBVIOUS
      <3>1. next \in p + 1 .. q - 1 /\ next \in 1 .. n
        BY <1>1, <1>2, <1>3
      <3> QED BY <1>1, <1>3, <1>4, <3>1
    <2>2. ~(q < next)
      <3> SUFFICES ASSUME q < next
                   PROVE  FALSE
        OBVIOUS
      <3>1. q \in p + 1 .. next - 1 /\ q \in 1 .. n
        BY <1>1, <1>2, <1>3
      <3> QED BY <1>1, <1>2, <1>3, <3>1
    <2>3. q = next
      BY <1>1, <1>2, <1>3, <2>1, <2>2
    <2> QED BY <1>4, <2>3 DEF Ended, n, I
  <1>5. CASE ~(next > n \/ I(next) < I(p))
    <2>1. next \in p + 1 .. n /\ next \in 1 .. n
      BY <1>1, <1>2, <1>5
    <2>2. I(next) = I(p)
      BY <1>1, <1>2, <1>5, <2>1
    <2>3. next < q
      <3> SUFFICES ASSUME ~(next < q)
                   PROVE  FALSE
        OBVIOUS
      <3>1. q = next \/ q \in p + 1 .. next - 1
        BY <1>1, <1>2, <1>3
      <3>2. q <= n /\ q \in 1 .. n
        BY <1>1, <1>3, <2>1, <3>1
      <3> QED BY <1>1, <1>2, <1>3, <2>2, <3>1, <3>2
    <2>4. q \in next + 1 .. n + 1
      BY <1>1, <1>3, <2>1, <2>3
    <2>5. ASSUME NEW j \in next + 1 .. q - 1
          PROVE  I(j) >= I(next)
      <3>1. j \in p + 1 .. q - 1
        BY <1>1, <1>3, <2>1
      <3> QED BY <1>3, <2>2, <3>1
    <2>6. q <= n => I(q) < I(next)
      BY <1>3, <2>2
    <2> QED BY <2>1, <2>2, <2>4, <2>5, <2>6 DEF EndsAt, n, I
  <1> QED BY <1>4, <1>5

LEMMA TextEnds ==
  ASSUME NEW lines, IsText(lines), Aligned(lines), lines # <<>>
  PROVE  EndsAt(lines, 1, Len(lines) + 1)
  <1> DEFINE n == Len(lines)
             I(i) == lines[i].indent
             T == {k \in 2 .. n : I(k) < I(1)}
  <1>1. n \in Nat /\ 1 \in 1 .. n /\ \A i \in 1 .. n : I(i) \in Nat
    BY TextFacts, FirstLine
  <1>2. \A a \in 1 .. n, k \in 1 .. n :
          /\ a < k /\ Begins(lines, a)
          /\ \A j \in a .. k - 1 : I(j) >= I(a)
          /\ a = 1 \/ I(a - 1) < I(k)
          => I(k) >= I(a)
    BY DEF Aligned
  <1>3. Begins(lines, 1)
    BY DEF Begins
  <1> HIDE DEF n, I
  <1>4. T = {}
    <2> SUFFICES ASSUME T # {}
                 PROVE  FALSE
      OBVIOUS
    <2>1. PICK k \in T : \A j \in T : k <= j
      <3>1. T \in SUBSET Nat
        BY <1>1
      <3> HIDE DEF T
      <3> QED BY <3>1, LeastExists
    <2>2. k \in 2 .. n /\ I(k) < I(1) /\ k \in 1 .. n /\ 1 < k
      BY <1>1, <2>1
    <2>3. ASSUME NEW j \in 1 .. k - 1
          PROVE  I(j) >= I(1)
      <3>1. j \in 1 .. n /\ (j = 1 \/ j \in 2 .. n) /\ ~(k <= j)
        BY <1>1, <2>2
      <3>2. j \notin T
        BY <2>1, <3>1
      <3> QED BY <1>1, <3>1, <3>2
    <2>4. I(k) >= I(1)
      BY <1>1, <1>2, <1>3, <2>2, <2>3
    <2> QED BY <1>1, <2>2, <2>4
  <1>5. ASSUME NEW j \in 1 + 1 .. n + 1 - 1
        PROVE  I(j) >= I(1)
    <2>1. j \in 2 .. n /\ j \in 1 .. n
      BY <1>1
    <2>2. ~(I(j) < I(1))
      BY <1>4, <2>1
    <2> QED BY <1>1, <2>1, <2>2
  <1>6. n + 1 \in 1 + 1 .. n + 1 /\ ~(n + 1 <= n)
    BY <1>1
  <1> QED BY <1>5, <1>6 DEF EndsAt, n, I

-----------------------------------------------------------------------------
\* A tidy text is read to its end.

FitsShape(content, shape) ==
  LET body == BodyOf(content)
  IN  /\ shape \in {"header", "field", "scalar"}
      /\ body # <<>> /\ body \notin Marks
      /\ shape = "header" =>
           HasColon(body) /\ Rest(body) = <<>> /\ Last(body) = ":" /\ ~Starts(body, Quotes)
      /\ shape = "field" =>
           /\ HasColon(body) /\ Rest(body) \notin Marks \cup {<<>>}
           /\ Last(body) # ":" /\ ~Starts(body, Quotes \cup {"[", "{"})
      /\ shape = "scalar" /\ HasColon(body) => IsItem(content) /\ Starts(body, Quotes)

Tidy(lines, shape) ==
  /\ IsText(lines)
  /\ Aligned(lines) /\ Alike(lines, shape) /\ Nests(lines, shape)
  /\ \A p \in 1 .. Len(lines) : FitsShape(lines[p].content, shape[p])

Kind(content) == IF IsItem(content) THEN "list" ELSE "map"

\* The mapping or the list that begins with line p is read to its end.
ReadsBlock(lines, shape, p) ==
  IsItem(lines[p].content) \/ shape[p] # "scalar" =>
    \A q : EndsAt(lines, p, q) =>
      TheParse(lines)[Kind(lines[p].content), p, lines[p].indent].pos = q

LEMMA LeafFollowed ==
  ASSUME NEW lines, NEW shape, Tidy(lines, shape), NEW p \in 1 .. Len(lines), NEW q,
         Follows(lines, p, q),
         shape[p] = "scalar" \/ (shape[p] = "field" /\ ~IsItem(lines[p].content))
  PROVE  q = p + 1
  <1>1. IsText(lines) /\ Nests(lines, shape)
    BY DEF Tidy
  <1>2. ~Deeper(lines, p + 1, lines[p].indent)
    BY <1>1 DEF Deeper, Nests
  <1> QED BY <1>1, <1>2, FollowsNext

LEMMA BlockEnds ==
  ASSUME NEW lines, NEW shape, Tidy(lines, shape), NEW p \in 1 .. Len(lines),
         ReadsBlock(lines, shape, p), NEW q, EndsAt(lines, p, q)
  PROVE  TheParse(lines)["block", p, lines[p].indent].pos = q
  <1> DEFINE f == TheParse(lines)
             content == lines[p].content
             indent == lines[p].indent
  <1>1. IsText(lines)
    BY DEF Tidy
  <1>2. Len(lines) \in Nat /\ p \in Places(lines) /\ indent \in Nat
    BY <1>1, TextFacts DEF Places
  <1>3. f["block", p, indent] = ParseBlock(lines, f, p, indent)
    BY <1>1, <1>2, ParseExists DEF Step, Parsers
  <1>4. ~Ended(lines, p, indent)
    BY <1>2 DEF Ended, Places
  <1>5. FitsShape(content, shape[p])
    BY DEF Tidy
  <1>6. CASE IsItem(content)
    <2>1. f["block", p, indent] = f["list", p, indent]
      BY <1>3, <1>4, <1>6 DEF ParseBlock
    <2>2. f["list", p, indent].pos = q
      BY <1>6 DEF ReadsBlock, Kind
    <2> QED BY <2>1, <2>2
  <1>7. CASE ~IsItem(content) /\ shape[p] # "scalar"
    <2>1. HasColon(content)
      BY <1>5, <1>7 DEF FitsShape, BodyOf
    <2>2. f["block", p, indent] = f["map", p, indent]
      BY <1>3, <1>4, <1>7, <2>1 DEF ParseBlock
    <2>3. f["map", p, indent].pos = q
      BY <1>7 DEF ReadsBlock, Kind
    <2> QED BY <2>2, <2>3
  <1>8. CASE ~IsItem(content) /\ shape[p] = "scalar"
    <2>1. ~HasColon(content)
      BY <1>5, <1>8 DEF FitsShape, BodyOf
    <2>2. f["block", p, indent] = Read(Scalar(content), p + 1)
      BY <1>3, <1>4, <1>8, <2>1 DEF ParseBlock
    <2>3. q \in p + 1 .. Len(lines) + 1
      BY DEF EndsAt
    <2>4. ~(p + 1 < q)
      <3> SUFFICES ASSUME p + 1 < q
                   PROVE  FALSE
        OBVIOUS
      <3>1. p + 1 \in 1 .. Len(lines) /\ p + 1 \in p + 1 .. q - 1
        BY <1>2, <2>3
      <3>2. lines[p + 1].indent >= indent /\ lines[p + 1].indent \in Nat
        BY <1>1, <3>1, TextFacts DEF EndsAt
      <3>3. ~(lines[p + 1].indent > indent)
        BY <1>8, <3>1 DEF Tidy, Nests
      <3>4. lines[p + 1].indent = indent
        BY <1>2, <3>2, <3>3
      <3>5. \A j \in p + 1 .. (p + 1) - 1 : lines[j].indent >= lines[p].indent
        BY <1>2
      <3>6. p < p + 1
        BY <1>2
      <3>7. \A k \in 1 .. Len(lines) :
              /\ p < k /\ lines[k].indent = indent
              /\ \A j \in p + 1 .. k - 1 : lines[j].indent >= lines[p].indent
              => shape[p] # "scalar"
        BY <1>8 DEF Tidy, Alike
      <3>8. shape[p] # "scalar"
        BY <3>1, <3>4, <3>5, <3>6, <3>7
      <3> QED BY <1>8, <3>8
    <2>5. q = p + 1
      BY <1>2, <2>3, <2>4
    <2>6. Read(Scalar(content), p + 1).pos = p + 1
      BY ReadFields
    <2> QED BY <2>2, <2>5, <2>6
  <1> QED BY <1>6, <1>7, <1>8

LEMMA NestedEnds ==
  ASSUME NEW lines, NEW shape, Tidy(lines, shape), NEW p \in 1 .. Len(lines),
         \A k \in p + 1 .. Len(lines) : ReadsBlock(lines, shape, k),
         NEW q, Follows(lines, p, q), NEW otherwise
  PROVE  Nested(lines, TheParse(lines), p + 1, lines[p].indent, otherwise).pos = q
  <1>1. IsText(lines) /\ Aligned(lines)
    BY DEF Tidy
  <1>2. CASE Deeper(lines, p + 1, lines[p].indent)
    <2>1. p + 1 \in 1 .. Len(lines) /\ EndsAt(lines, p + 1, q)
      BY <1>1, <1>2, BelowEnds
    <2>2. ReadsBlock(lines, shape, p + 1)
      <3>1. p + 1 \in p + 1 .. Len(lines)
        BY <1>1, <2>1, TextFacts
      <3> QED BY <3>1
    <2>3. TheParse(lines)["block", p + 1, lines[p + 1].indent].pos = q
      BY <2>1, <2>2, BlockEnds
    <2> QED BY <1>2, <2>3 DEF Nested
  <1>3. CASE ~Deeper(lines, p + 1, lines[p].indent)
    <2>1. q = p + 1
      BY <1>1, <1>3, FollowsNext
    <2> QED BY <1>3, <2>1, ReadFields DEF Nested
  <1> QED BY <1>2, <1>3

\* Behind a line the mapping or the list of its siblings goes on, or it ends.
LEMMA GoesOn ==
  ASSUME NEW lines, NEW shape, Tidy(lines, shape), NEW p \in 1 .. Len(lines),
         IsItem(lines[p].content) \/ shape[p] # "scalar",
         \A k \in p + 1 .. Len(lines) : ReadsBlock(lines, shape, k),
         NEW next, Follows(lines, p, next), NEW q, EndsAt(lines, p, q)
  PROVE  TheParse(lines)[Kind(lines[p].content), next, lines[p].indent].pos = q
  <1> DEFINE f == TheParse(lines)
             kind == Kind(lines[p].content)
             indent == lines[p].indent
  <1>1. IsText(lines)
    BY DEF Tidy
  <1>2. Len(lines) \in Nat /\ p \in Places(lines) /\ indent \in Nat
    BY <1>1, TextFacts DEF Places
  <1>3. next \in p + 1 .. Len(lines) + 1 /\ next \in Places(lines)
    BY <1>2 DEF Follows, Places
  <1>4. CASE q = next /\ Ended(lines, next, indent)
    <2>1. kind \in Parsers
      BY DEF Kind, Parsers
    <2>2. f[kind, next, indent] = Step(lines, f, kind, next, indent)
      BY <1>1, <1>2, <1>3, <2>1, ParseExists
    <2>3. CASE kind = "map"
      <3>1. f[kind, next, indent] = ParseMap(lines, f, next, indent)
        BY <2>2, <2>3 DEF Step
      <3> QED BY <1>4, <3>1, ReadFields, ParseMapIs
    <2>4. CASE kind = "list"
      <3>1. f[kind, next, indent] = ParseList(lines, f, next, indent)
        BY <2>2, <2>4 DEF Step
      <3>2. ParseList(lines, f, next, indent) = Read(List(<<>>), next)
        BY <1>4 DEF ParseList
      <3>3. Read(List(<<>>), next).pos = next
        BY ReadFields
      <3> QED BY <1>4, <3>1, <3>2, <3>3
    <2> QED BY <2>3, <2>4 DEF Kind
  <1>5. CASE /\ next \in p + 1 .. Len(lines) /\ lines[next].indent = indent
             /\ EndsAt(lines, next, q)
    <2>1. next \in 1 .. Len(lines) /\ p < next
      BY <1>2, <1>5
    <2>2. \A j \in p + 1 .. next - 1 : lines[j].indent >= lines[p].indent
      <3>1. TAKE j \in p + 1 .. next - 1
      <3>2. lines[j].indent > lines[p].indent
        BY DEF Follows
      <3>3. j \in 1 .. Len(lines)
        BY <1>2, <2>1
      <3>4. lines[j].indent \in Nat
        BY <1>1, <3>3, TextFacts
      <3> QED BY <1>2, <3>2, <3>4
    <2>3. /\ IsItem(lines[next].content) <=> IsItem(lines[p].content)
          /\ ~IsItem(lines[p].content) => shape[p] # "scalar" /\ shape[next] # "scalar"
      BY <1>5, <2>1, <2>2 DEF Tidy, Alike
    <2>4. Kind(lines[next].content) = kind
      BY <2>3 DEF Kind
    <2>5. ReadsBlock(lines, shape, next)
      BY <1>5
    <2>6. f[Kind(lines[next].content), next, lines[next].indent].pos = q
      BY <1>5, <2>3, <2>5 DEF ReadsBlock
    <2> QED BY <1>5, <2>4, <2>6
  <1> QED BY <1>1, <1>4, <1>5, EndsFurther

LEMMA MapEnds ==
  ASSUME NEW lines, NEW shape, Tidy(lines, shape), NEW p \in 1 .. Len(lines),
         ~IsItem(lines[p].content), shape[p] # "scalar",
         \A k \in p + 1 .. Len(lines) : ReadsBlock(lines, shape, k),
         NEW q, EndsAt(lines, p, q)
  PROVE  TheParse(lines)["map", p, lines[p].indent].pos = q
  <1> DEFINE f == TheParse(lines)
             content == lines[p].content
             indent == lines[p].indent
             read == MapRead(lines, f, p, indent)
  <1>1. IsText(lines)
    BY DEF Tidy
  <1>2. Len(lines) \in Nat /\ p \in Places(lines) /\ indent \in Nat
    BY <1>1, TextFacts DEF Places
  <1>3. f["map", p, indent] = ParseMap(lines, f, p, indent)
    BY <1>1, <1>2, ParseExists DEF Step, Parsers
  <1>4. ~Ended(lines, p, indent) /\ ~Deeper(lines, p, indent)
    BY <1>2 DEF Ended, Deeper, Places
  <1>5. FitsShape(content, shape[p])
    BY DEF Tidy
  <1>6. HasColon(content)
    BY <1>5 DEF FitsShape, BodyOf
  <1>7. PICK next : Follows(lines, p, next)
    BY <1>1, FollowsExists
  <1>8. read.pos = next
    <2>1. CASE shape[p] = "header"
      <3>1. Rest(content) = <<>>
        BY <1>5, <2>1 DEF FitsShape, BodyOf
      <3>2. read = Nested(lines, f, p + 1, indent, None)
        BY <3>1 DEF MapRead
      <3> QED BY <1>7, <3>2, NestedEnds
    <2>2. CASE shape[p] = "field"
      <3>1. Rest(content) # <<>> /\ Rest(content) \notin Marks
        BY <1>5, <2>2 DEF FitsShape, BodyOf
      <3>2. read = Read(Scalar(Rest(content)), p + 1)
        BY <3>1 DEF MapRead
      <3>3. next = p + 1
        BY <1>7, <2>2, LeafFollowed
      <3> QED BY <3>2, <3>3, ReadFields
    <2> QED BY <1>5, <2>1, <2>2 DEF FitsShape
  <1>9. ~Failed(read)
    BY <1>2, <1>7, <1>8 DEF Failed, Follows, Places
  <1>10. f["map", p, indent] = Joined(Pair(Key(content), read.val), f["map", read.pos, indent])
    BY <1>3, <1>4, <1>6, <1>9, ParseMapIs
  <1>11. f["map", next, indent].pos = q
    <2>1. Kind(content) = "map"
      BY DEF Kind
    <2> QED BY <1>7, <2>1, GoesOn
  <1>12. q # 0
    BY <1>2 DEF EndsAt, Places
  <1>13. f["map", read.pos, indent].pos = q
    BY <1>8, <1>11
  <1>14. ~Failed(f["map", read.pos, indent])
    BY <1>12, <1>13 DEF Failed
  <1>15. Joined(Pair(Key(content), read.val), f["map", read.pos, indent]).pos = q
    BY <1>13, <1>14, JoinedPos
  <1> QED BY <1>10, <1>15

\* The keys of an item that begins with "- key: value" are read to its end.
LEMMA FieldsEnd ==
  ASSUME NEW lines, NEW shape, Tidy(lines, shape), NEW p \in 1 .. Len(lines),
         shape[p] = "field",
         \A k \in p + 1 .. Len(lines) : ReadsBlock(lines, shape, k),
         NEW q, Follows(lines, p, q)
  PROVE  TheParse(lines)["fields", p + 1, lines[p].indent].pos = q
  <1> DEFINE f == TheParse(lines)
             indent == lines[p].indent
             extra == f["map", p + 1, lines[p + 1].indent]
  <1>1. IsText(lines) /\ Aligned(lines) /\ Nests(lines, shape)
    BY DEF Tidy
  <1>2. Len(lines) \in Nat /\ p + 1 \in Places(lines) /\ indent \in Nat
    BY <1>1, TextFacts DEF Places
  <1>3. q \in p + 1 .. Len(lines) + 1 /\ q \in Places(lines)
    BY <1>2 DEF Follows, Places
  <1>4. \A k \in Places(lines) : f["fields", k, indent] = ParseFields(lines, f, k, indent)
    BY <1>1, <1>2, ParseExists DEF Step, Parsers
  <1>5. ~Deeper(lines, q, indent)
    <2> SUFFICES ASSUME Deeper(lines, q, indent)
                 PROVE  FALSE
      OBVIOUS
    <2>1. q \in 1 .. Len(lines) /\ lines[q].indent <= indent /\ lines[q].indent > indent
      BY <1>2, <1>3 DEF Deeper, Follows, Places
    <2>2. lines[q].indent \in Nat
      BY <1>1, <2>1, TextFacts
    <2> QED BY <1>2, <2>1, <2>2
  <1>6. f["fields", q, indent] = Read(Dict(<<>>), q)
    BY <1>3, <1>4, <1>5 DEF ParseFields
  <1>7. CASE ~Deeper(lines, p + 1, indent)
    <2>1. q = p + 1
      BY <1>1, <1>7, FollowsNext
    <2>2. Read(Dict(<<>>), q).pos = q
      BY ReadFields
    <2> QED BY <1>6, <2>1, <2>2
  <1>8. CASE Deeper(lines, p + 1, indent)
    <2>1. p + 1 \in 1 .. Len(lines) /\ EndsAt(lines, p + 1, q)
      BY <1>1, <1>8, BelowEnds
    <2>2. p + 1 \in p + 1 .. Len(lines)
      BY <1>2, <2>1
    <2>3. ~IsItem(lines[p + 1].content) /\ shape[p + 1] # "scalar"
      BY <1>1, <1>8 DEF Nests, Deeper
    <2>4. Kind(lines[p + 1].content) = "map" /\ ReadsBlock(lines, shape, p + 1)
      BY <2>2, <2>3 DEF Kind
    <2>5. extra.pos = q
      BY <2>1, <2>3, <2>4 DEF ReadsBlock
    <2>6. q # 0
      BY <1>2, <1>3
    <2>7. ~Failed(extra)
      BY <2>5, <2>6 DEF Failed
    <2>8. f["fields", p + 1, indent] = Joined(extra.val[2], f["fields", extra.pos, indent])
      BY <1>2, <1>4, <1>8, <2>3, <2>7 DEF ParseFields
    <2>9. f["fields", extra.pos, indent].pos = q
      <3>1. Read(Dict(<<>>), q).pos = q
        BY ReadFields
      <3> QED BY <1>6, <2>5, <3>1
    <2>10. ~Failed(f["fields", extra.pos, indent])
      BY <2>6, <2>9 DEF Failed
    <2>11. Joined(extra.val[2], f["fields", extra.pos, indent]).pos = q
      BY <2>9, <2>10, JoinedPos
    <2> QED BY <2>8, <2>11
  <1> QED BY <1>7, <1>8

LEMMA LastIsThere ==
  ASSUME NEW s \in Words, s # <<>>, Last(s) = ":"
  PROVE  HasColon(s)
  <1>1. Len(s) \in 1 .. Len(s)
    <2>1. Len(s) \in Nat \ {0}
      BY EmptySeq DEF Words
    <2> QED BY <2>1
  <1> QED BY <1>1 DEF HasColon, Contains, Last

LEMMA BodyIsWords ==
  ASSUME NEW s \in Words
  PROVE  BodyOf(s) \in Words
  BY HeadTailProperties DEF BodyOf, IsItem, Starts, Words

LEMMA ItemEnds ==
  ASSUME NEW lines, NEW shape, Tidy(lines, shape), NEW p \in 1 .. Len(lines),
         IsItem(lines[p].content),
         \A k \in p + 1 .. Len(lines) : ReadsBlock(lines, shape, k),
         NEW q, Follows(lines, p, q)
  PROVE  ParseItem(lines, TheParse(lines), p, lines[p].indent).pos = q
  <1> DEFINE f == TheParse(lines)
             indent == lines[p].indent
             item == Tail(lines[p].content)
             below == Nested(lines, f, p + 1, indent, None)
             fields == f["fields", p + 1, indent]
             r == ParseItem(lines, f, p, indent)
  <1>1. FitsShape(lines[p].content, shape[p])
    BY DEF Tidy
  <1>2. item = BodyOf(lines[p].content) /\ item \notin Marks
    BY <1>1 DEF FitsShape, BodyOf
  <1>3. q # 0
    <2>1. Len(lines) \in Nat /\ q \in p + 1 .. Len(lines) + 1
      BY TextFacts DEF Tidy, Follows
    <2> QED BY <2>1
  <1>4. CASE shape[p] = "header"
    <2>1. below.pos = q
      BY NestedEnds
    <2>2. Last(item) = ":" /\ ~Starts(item, Quotes)
      BY <1>1, <1>2, <1>4 DEF FitsShape
    <2>3. ~Failed(below)
      BY <1>3, <2>1 DEF Failed
    <2>4. r = Read(Dict(Pair(Front(item), below.val)), below.pos)
      BY <1>2, <2>2, <2>3 DEF ParseItem
    <2> HIDE DEF r, below
    <2> QED BY <2>1, <2>4, ReadFields DEF r
  <1>5. CASE shape[p] = "field"
    <2>1. fields.pos = q
      BY <1>5, FieldsEnd
    <2>2. HasColon(item) /\ Last(item) # ":" /\ ~Starts(item, Quotes \cup {"[", "{"})
      BY <1>1, <1>2, <1>5 DEF FitsShape
    <2>3. r = Joined(Pair(Key(item), Scalar(Rest(item))), fields)
      BY <1>2, <2>2 DEF ParseItem
    <2> HIDE DEF r, fields
    <2> QED BY <1>3, <2>1, <2>3, JoinedPos DEF Failed, r
  <1>6. CASE shape[p] = "scalar"
    <2>1. q = p + 1
      BY <1>6, LeafFollowed
    <2>2. HasColon(item) => Starts(item, Quotes)
      BY <1>1, <1>2, <1>6 DEF FitsShape
    <2>3. Starts(item, Quotes) => Starts(item, Quotes \cup {"[", "{"})
      BY DEF Starts
    <2>4. item \in Words /\ item # <<>>
      <3>1. lines[p] \in [indent : Nat, content : Words]
        BY ElementOfSeq DEF Tidy, IsText
      <3> QED BY <1>1, <1>2, <3>1, BodyIsWords DEF FitsShape
    <2>5. Last(item) = ":" => Starts(item, Quotes)
      BY <2>2, <2>4, LastIsThere
    <2>6. r = Read(Scalar(item), p + 1)
      BY <1>2, <2>2, <2>3, <2>5 DEF ParseItem
    <2> HIDE DEF r
    <2>7. Read(Scalar(item), p + 1).pos = p + 1
      BY ReadFields
    <2> QED BY <2>1, <2>6, <2>7 DEF r
  <1> QED BY <1>1, <1>4, <1>5, <1>6 DEF FitsShape

LEMMA ListEnds ==
  ASSUME NEW lines, NEW shape, Tidy(lines, shape), NEW p \in 1 .. Len(lines),
         IsItem(lines[p].content),
         \A k \in p + 1 .. Len(lines) : ReadsBlock(lines, shape, k),
         NEW q, EndsAt(lines, p, q)
  PROVE  TheParse(lines)["list", p, lines[p].indent].pos = q
  <1> DEFINE f == TheParse(lines)
             indent == lines[p].indent
             item == ParseItem(lines, f, p, indent)
  <1>1. IsText(lines)
    BY DEF Tidy
  <1>2. Len(lines) \in Nat /\ p \in Places(lines) /\ indent \in Nat
    BY <1>1, TextFacts DEF Places
  <1>3. f["list", p, indent] = ParseList(lines, f, p, indent)
    BY <1>1, <1>2, ParseExists DEF Step, Parsers
  <1>4. IsListLine(lines, p, indent)
    BY <1>2 DEF IsListLine, Ended, Deeper, Places
  <1>5. PICK next : Follows(lines, p, next)
    BY <1>1, FollowsExists
  <1>6. item.pos = next
    BY <1>5, ItemEnds
  <1>7. f["list", next, indent].pos = q
    <2>1. Kind(lines[p].content) = "list"
      BY DEF Kind
    <2> QED BY <1>5, <2>1, GoesOn
  <1>8. f["list", p, indent] = Listed(item, f["list", item.pos, indent])
    BY <1>3, <1>4, ParseListIs
  <1>9. next # 0 /\ q # 0
    BY <1>2, <1>5 DEF EndsAt, Follows, Places
  <1>10. f["list", item.pos, indent].pos = q
    BY <1>6, <1>7
  <1>11. ~Failed(item) /\ ~Failed(f["list", item.pos, indent])
    BY <1>6, <1>9, <1>10 DEF Failed
  <1>12. Listed(item, f["list", item.pos, indent]).pos = q
    BY <1>10, <1>11, ListedPos
  <1> QED BY <1>8, <1>12

LEMMA AllBlocksRead ==
  ASSUME NEW lines, NEW shape, Tidy(lines, shape), NEW p \in 1 .. Len(lines)
  PROVE  ReadsBlock(lines, shape, p)
  <1> DEFINE n == Len(lines)
             T == {m \in 0 .. n - 1 : ~ReadsBlock(lines, shape, n - m)}
  <1>1. n \in Nat /\ p \in 1 .. n
    BY TextFacts DEF Tidy
  <1>2. ASSUME NEW k \in 1 .. n, \A j \in k + 1 .. n : ReadsBlock(lines, shape, j)
        PROVE  ReadsBlock(lines, shape, k)
    <2>1. CASE IsItem(lines[k].content)
      <3>1. ASSUME NEW q, EndsAt(lines, k, q)
            PROVE  TheParse(lines)["list", k, lines[k].indent].pos = q
        BY <1>2, <2>1, <3>1, ListEnds
      <3> QED BY <2>1, <3>1 DEF ReadsBlock, Kind
    <2>2. CASE ~IsItem(lines[k].content) /\ shape[k] # "scalar"
      <3>1. ASSUME NEW q, EndsAt(lines, k, q)
            PROVE  TheParse(lines)["map", k, lines[k].indent].pos = q
        BY <1>2, <2>2, <3>1, MapEnds
      <3> QED BY <2>2, <3>1 DEF ReadsBlock, Kind
    <2> QED BY <2>1, <2>2 DEF ReadsBlock
  <1> HIDE DEF n
  <1>3. T = {}
    <2> SUFFICES ASSUME T # {}
                 PROVE  FALSE
      OBVIOUS
    <2>1. PICK m \in T : \A j \in T : m <= j
      <3>1. T \in SUBSET Nat
        BY <1>1
      <3> HIDE DEF T
      <3> QED BY <3>1, LeastExists
    <2>2. m \in 0 .. n - 1 /\ n - m \in 1 .. n
      BY <1>1, <2>1
    <2>3. ASSUME NEW j \in (n - m) + 1 .. n
          PROVE  ReadsBlock(lines, shape, j)
      <3>1. n - j \in 0 .. n - 1 /\ ~(m <= n - j) /\ n - (n - j) = j
        BY <1>1, <2>2
      <3>2. n - j \notin T
        BY <2>1, <3>1
      <3> QED BY <3>1, <3>2
    <2>4. ReadsBlock(lines, shape, n - m)
      BY <1>2, <2>2, <2>3
    <2> QED BY <2>1, <2>4
  <1>4. n - p \in 0 .. n - 1 /\ n - (n - p) = p
    BY <1>1
  <1> QED BY <1>3, <1>4

LEMMA TidyIsRead ==
  ASSUME NEW lines, NEW shape, Tidy(lines, shape), lines # <<>>
  PROVE  Parsed(lines).pos = Len(lines) + 1
  <1>1. IsText(lines) /\ Aligned(lines)
    BY DEF Tidy
  <1>2. 1 \in 1 .. Len(lines)
    BY <1>1, FirstLine
  <1>3. EndsAt(lines, 1, Len(lines) + 1)
    BY <1>1, TextEnds
  <1>4. ReadsBlock(lines, shape, 1)
    BY <1>2, AllBlocksRead
  <1>5. TheParse(lines)["block", 1, lines[1].indent].pos = Len(lines) + 1
    BY <1>2, <1>3, <1>4, BlockEnds
  <1> QED BY <1>1, <1>5, ParseExists

-----------------------------------------------------------------------------
\* A well-formed text is tidy.

LEMMA IsMax ==
  ASSUME NEW T \in SUBSET Nat, NEW m \in T, \A k \in T : k <= m
  PROVE  Max(T) = m
  <1> DEFINE top == CHOOSE x \in T : \A y \in T : x >= y
  <1>1. \A y \in T : m >= y
    OBVIOUS
  <1>2. top \in T /\ top >= m
    BY <1>1
  <1> HIDE DEF top
  <1>3. top \in Nat /\ m \in Nat /\ top <= m
    BY <1>2
  <1>4. top = m
    BY <1>2, <1>3
  <1> QED BY <1>4 DEF Max, top

\* The lines that may be the parent of line i.
Above(i) == {0} \cup {j \in 1 .. i - 1 : text[j].indent < text[i].indent}

LEMMA ParentIs ==
  ASSUME NEW i
  PROVE  Parent(i) = Max(Above(i))
  BY DEF Parent, Above

LEMMA SameParent ==
  ASSUME IsSource(text), NEW p \in 1 .. Len(text), NEW k \in 1 .. Len(text), p < k,
         text[k].indent = text[p].indent,
         \A j \in p + 1 .. k - 1 : text[j].indent >= text[p].indent
  PROVE  Parent(k) = Parent(p)
  <1> DEFINE n == Len(text)
             I(i) == text[i].indent
  <1>1. n \in Nat /\ \A i \in 1 .. n : I(i) \in Nat
    BY DEF IsSource
  <1>2. /\ p \in 1 .. n /\ k \in 1 .. n /\ p < k /\ I(k) = I(p)
        /\ \A j \in p + 1 .. k - 1 : I(j) >= I(p)
    OBVIOUS
  <1> HIDE DEF n, I
  <1>3. \A j \in 1 .. k - 1 : I(j) < I(k) => j \in 1 .. p - 1 /\ I(j) < I(p)
    <2> SUFFICES ASSUME NEW j \in 1 .. k - 1, I(j) < I(k)
                 PROVE  j \in 1 .. p - 1 /\ I(j) < I(p)
      OBVIOUS
    <2>1. j \in 1 .. n /\ (j \in 1 .. p - 1 \/ j = p \/ j \in p + 1 .. k - 1)
      BY <1>1, <1>2
    <2>2. I(j) \in Nat /\ I(p) \in Nat
      BY <1>1, <1>2, <2>1
    <2> QED BY <1>2, <2>1, <2>2
  <1>4. \A j \in 1 .. p - 1 : I(j) < I(p) => j \in 1 .. k - 1 /\ I(j) < I(k)
    BY <1>1, <1>2
  <1>5. Above(k) = Above(p)
    BY <1>3, <1>4 DEF Above, I
  <1> QED BY <1>5, ParentIs

LEMMA ParentOfFirst ==
  ASSUME IsSource(text), NEW p \in 1 .. Len(text), NEW k \in 1 .. Len(text), p <= k,
         \A j \in p .. k - 1 : text[j].indent >= text[k].indent,
         p = 1 \/ text[p - 1].indent < text[k].indent
  PROVE  Parent(k) = p - 1
  <1> DEFINE n == Len(text)
             I(i) == text[i].indent
  <1>1. n \in Nat /\ \A i \in 1 .. n : I(i) \in Nat
    BY DEF IsSource
  <1>2. /\ p \in 1 .. n /\ k \in 1 .. n /\ p <= k
        /\ \A j \in p .. k - 1 : I(j) >= I(k)
        /\ p = 1 \/ I(p - 1) < I(k)
    OBVIOUS
  <1> HIDE DEF n, I
  <1>3. Above(k) \in SUBSET Nat
    BY <1>1, <1>2 DEF Above
  <1>4. p - 1 \in Above(k)
    <2>1. p = 1 \/ p - 1 \in 1 .. k - 1
      BY <1>1, <1>2
    <2> QED BY <1>2, <2>1 DEF Above, I
  <1>5. \A j \in Above(k) : j <= p - 1
    <2>1. 0 <= p - 1
      BY <1>2
    <2>2. ASSUME NEW j \in 1 .. k - 1, I(j) < I(k)
          PROVE  j <= p - 1
      <3>1. j \in 1 .. n /\ (j <= p - 1 \/ j \in p .. k - 1)
        BY <1>1, <1>2
      <3>2. I(j) \in Nat /\ I(k) \in Nat
        BY <1>1, <1>2, <3>1
      <3> QED BY <1>2, <2>2, <3>1, <3>2
    <2> QED BY <2>1, <2>2 DEF Above, I
  <1> QED BY <1>3, <1>4, <1>5, IsMax, ParentIs

\* What is kept of a text none of whose lines is a comment, line by line.
Shapes == [i \in 1 .. Len(text) |-> text[i].shape]

LEMMA CleanedLines ==
  ASSUME TextInv
  PROVE  /\ IsText(Cleaned(text)) /\ Len(Cleaned(text)) = Len(text)
         /\ \A i \in 1 .. Len(text) :
              /\ Cleaned(text)[i].indent = text[i].indent
              /\ IsItem(Cleaned(text)[i].content) <=> IsItem(text[i].content)
              /\ FitsShape(Cleaned(text)[i].content, Shapes[i])
              /\ Cleaned(text)[i].content = StripComment(text[i].content)
  <1>1. IsSource(text)
    BY TextIsSource
  <1>2. \A i \in 1 .. Len(text) : \E line \in Authored : Says(text[i], line)
    BY EntrySays DEF TextInv
  <1>3. \A i \in 1 .. Len(text) : StripComment(text[i].content) # <<>>
    BY <1>2, LineFacts DEF Says
  <1>4. /\ IsText(Cleaned(text)) /\ Len(Cleaned(text)) = Len(text)
        /\ \A i \in 1 .. Len(text) : Cleaned(text)[i] = Stripped(text[i])
    BY <1>1, <1>3, CleanedIsText
  <1>5. ASSUME NEW i \in 1 .. Len(text)
        PROVE  /\ Cleaned(text)[i].indent = text[i].indent
               /\ IsItem(Cleaned(text)[i].content) <=> IsItem(text[i].content)
               /\ FitsShape(Cleaned(text)[i].content, Shapes[i])
               /\ Cleaned(text)[i].content = StripComment(text[i].content)
    <2>1. PICK line \in Authored : Says(text[i], line)
      BY <1>2
    <2>2. Cleaned(text)[i].indent = text[i].indent /\ Cleaned(text)[i].content = line.content
      <3>1. Cleaned(text)[i] = Stripped(text[i])
        BY <1>4
      <3>2. /\ Stripped(text[i]).indent = text[i].indent
            /\ Stripped(text[i]).content = StripComment(text[i].content)
        BY DEF Stripped
      <3> QED BY <2>1, <3>1, <3>2 DEF Says
    <2>3. Shapes[i] = line.shape
      BY <2>1 DEF Shapes, Says
    <2>4. FitsShape(line.content, line.shape)
      BY AuthoredIsLine DEF IsLine, FitsShape
    <2> QED BY <2>1, <2>2, <2>3, <2>4 DEF Says
  <1> QED BY <1>4, <1>5

LEMMA WellFormedIsTidy ==
  ASSUME TextInv, WellFormed
  PROVE  Tidy(Cleaned(text), Shapes)
  <1> DEFINE lines == Cleaned(text)
             n == Len(text)
  <1>1. IsSource(text) /\ DOMAIN text = 1 .. n
    BY TextIsSource, LenProperties DEF TextInv
  <1>2. n \in Nat /\ \A i \in 1 .. n : text[i].indent \in Nat
    BY <1>1 DEF IsSource
  <1>3. /\ IsText(lines) /\ Len(lines) = n
        /\ \A i \in 1 .. n :
             /\ lines[i].indent = text[i].indent
             /\ IsItem(lines[i].content) <=> IsItem(text[i].content)
             /\ FitsShape(lines[i].content, Shapes[i])
    BY CleanedLines
  <1>4. \A i \in 1 .. n : Shapes[i] = text[i].shape
    BY DEF Shapes
  <1>5. ASSUME NEW i \in 1 .. n, NEW j \in 1 .. n, Parent(j) = Parent(i)
        PROVE  /\ text[j].indent = text[i].indent
               /\ IsItem(text[j].content) <=> IsItem(text[i].content)
               /\ i # j /\ ~IsItem(text[i].content) => text[i].shape # "scalar"
    <2>1. j \in Siblings(i)
      BY <1>1, <1>5 DEF Siblings
    <2> QED BY <1>1, <2>1 DEF WellFormed
  <1>6. \A i \in 1 .. n :
          LET p == Parent(i) IN
            p = 0 \/ IsHeader(p)
            \/ (IsField(p) /\ IsItem(text[p].content)
                /\ ~IsItem(text[i].content) /\ text[i].shape # "scalar")
    BY <1>1 DEF WellFormed
  <1> HIDE DEF lines, n
  <1>7. Aligned(lines)
    <2> SUFFICES ASSUME NEW p \in 1 .. n, NEW k \in 1 .. n, p < k,
                        Begins(lines, p),
                        \A j \in p .. k - 1 : lines[j].indent >= lines[p].indent,
                        p = 1 \/ lines[p - 1].indent < lines[k].indent,
                        ~(lines[k].indent >= lines[p].indent)
                 PROVE  FALSE
      BY <1>3 DEF Aligned
    <2>1. p = 1 \/ p - 1 \in 1 .. n
      BY <1>2
    <2>2. text[k].indent < text[p].indent
      BY <1>2, <1>3
    <2>3. p = 1 \/ (text[p - 1].indent < text[p].indent /\ text[p - 1].indent < text[k].indent)
      BY <1>3, <2>1 DEF Begins
    <2>4. \A j \in p .. k - 1 : text[j].indent >= text[k].indent
      <3>1. TAKE j \in p .. k - 1
      <3>2. j \in 1 .. n /\ lines[j].indent >= lines[p].indent
        BY <1>2
      <3> QED BY <1>2, <1>3, <2>2, <3>2
    <2>5. Parent(k) = p - 1
      BY <1>1, <2>3, <2>4, ParentOfFirst DEF n
    <2>6. Parent(p) = p - 1
      <3>1. \A j \in p .. p - 1 : text[j].indent >= text[p].indent
        BY <1>2
      <3>2. p <= p
        BY <1>2
      <3> QED BY <1>1, <2>3, <3>1, <3>2, ParentOfFirst DEF n
    <2>7. text[k].indent = text[p].indent
      BY <1>5, <2>5, <2>6
    <2> QED BY <1>2, <2>2, <2>7
  <1>8. Alike(lines, Shapes)
    <2> SUFFICES ASSUME NEW p \in 1 .. n, NEW k \in 1 .. n, p < k,
                        lines[k].indent = lines[p].indent,
                        \A j \in p + 1 .. k - 1 : lines[j].indent >= lines[p].indent
                 PROVE  /\ IsItem(lines[k].content) <=> IsItem(lines[p].content)
                        /\ ~IsItem(lines[p].content) =>
                             Shapes[p] # "scalar" /\ Shapes[k] # "scalar"
      BY <1>3 DEF Alike
    <2>1. \A j \in p + 1 .. k - 1 : text[j].indent >= text[p].indent
      <3>1. TAKE j \in p + 1 .. k - 1
      <3>2. j \in 1 .. n /\ lines[j].indent >= lines[p].indent
        BY <1>2
      <3> QED BY <1>3, <3>2
    <2>2. Parent(k) = Parent(p)
      <3>1. text[k].indent = text[p].indent
        BY <1>3
      <3> QED BY <1>1, <2>1, <3>1, SameParent DEF n
    <2>3. p # k
      BY <1>2
    <2> QED BY <1>3, <1>4, <1>5, <2>2, <2>3
  <1>9. Nests(lines, Shapes)
    <2> SUFFICES ASSUME NEW p \in 1 .. n, p + 1 <= n, lines[p + 1].indent > lines[p].indent
                 PROVE  \/ Shapes[p] = "header"
                        \/ /\ Shapes[p] = "field" /\ IsItem(lines[p].content)
                           /\ ~IsItem(lines[p + 1].content) /\ Shapes[p + 1] # "scalar"
      BY <1>3 DEF Nests
    <2>1. p + 1 \in 1 .. n /\ p # 0
      BY <1>2
    <2>2. Parent(p + 1) = p
      <3> DEFINE k == p + 1
      <3>1. k \in 1 .. n /\ k - 1 = p
        BY <1>2, <2>1
      <3>2. text[k - 1].indent < text[k].indent
        BY <1>2, <1>3, <2>1, <3>1
      <3> HIDE DEF k
      <3>3. k <= k /\ \A j \in k .. k - 1 : text[j].indent >= text[k].indent
        BY <1>2, <3>1
      <3>4. Parent(k) = k - 1
        BY <1>1, <3>1, <3>2, <3>3, ParentOfFirst DEF n
      <3> QED BY <3>1, <3>4 DEF k
    <2>3. IsHeader(p) \/ (IsField(p) /\ IsItem(text[p].content)
            /\ ~IsItem(text[p + 1].content) /\ text[p + 1].shape # "scalar")
      BY <1>6, <2>1, <2>2
    <2> QED BY <1>3, <1>4, <2>1, <2>3 DEF IsHeader, IsField
  <1> QED BY <1>3, <1>7, <1>8, <1>9 DEF Tidy, lines

\* load accepts every text that is written the way the inventories are.
THEOREM WellFormedAccepted == Spec => []AcceptsWellFormed
  <1>1. TextInv => AcceptsWellFormed
    <2> SUFFICES ASSUME TextInv, WellFormed, value = Raised
                 PROVE  FALSE
      BY DEF AcceptsWellFormed
    <2> DEFINE cleaned == Cleaned(text)
               read == Parsed(cleaned)
    <2>1. value = IF cleaned = <<>> THEN None
                  ELSE IF read.pos = Len(cleaned) + 1 THEN read.val ELSE Raised
      BY DEF TextInv, Load
    <2>2. Tidy(cleaned, Shapes) /\ IsText(cleaned)
      BY WellFormedIsTidy DEF Tidy
    <2>3. Raised[1] \notin Tags /\ None[1] \in Tags
      BY DEF Raised, None, Tags
    <2>4. CASE cleaned = <<>>
      BY <2>1, <2>3, <2>4
    <2>5. CASE cleaned # <<>>
      <3> HIDE DEF cleaned
      <3>1. read.pos = Len(cleaned) + 1
        BY <2>2, <2>5, TidyIsRead
      <3>2. Tagged(read)
        <4>1. 1 \in Places(cleaned) /\ cleaned[1].indent \in Nat
          BY <2>2, <2>5, FirstLine
        <4>2. Parsed(cleaned) = TheParse(cleaned)["block", 1, cleaned[1].indent]
          BY <2>2, ParseExists
        <4>3. Tagged(TheParse(cleaned)["block", 1, cleaned[1].indent])
          BY <2>2, <4>1, ParsedTag
        <4> QED BY <4>2, <4>3
      <3> HIDE DEF read
      <3> QED BY <2>1, <2>3, <2>5, <3>1, <3>2 DEF Tagged
    <2> QED BY <2>4, <2>5
  <1> QED BY <1>1, TextInvariant, PTL

-----------------------------------------------------------------------------
\* Where a line is found: the definition goes from a line to its parent.

Around(found, p) == IF p # 0 /\ IsField(p) THEN found[p].holder ELSE found[p].entry
HolderOf(found, i) ==
  IF IsItem(text[i].content) THEN Item(Around(found, Parent(i)), Index(i))
  ELSE Around(found, Parent(i))
FoundStep(found, i) ==
  IF i = 0 THEN [holder |-> value, entry |-> value]
  ELSE [holder |-> HolderOf(found, i),
        entry |-> IF IsKeyed(i) THEN Entry(HolderOf(found, i), Key(Body(i)))
                  ELSE HolderOf(found, i)]

IsFound(f) == f = [i \in 0 .. Len(text) |-> FoundStep(f, i)]

LEMMA FoundBy == Found = CHOOSE f : IsFound(f)
  BY DEF Found, IsFound, FoundStep, HolderOf, Around

\* A parent is 0 or an earlier line, which is indented less; none behind it is.
LEMMA ParentFacts ==
  ASSUME IsSource(text), NEW i \in 1 .. Len(text)
  PROVE  /\ Parent(i) \in 0 .. i - 1
         /\ Parent(i) # 0 => text[Parent(i)].indent < text[i].indent
         /\ \A k \in 1 .. i - 1 : text[k].indent < text[i].indent => k <= Parent(i)
  <1> DEFINE n == Len(text)
             I(j) == text[j].indent
             T == Above(i)
  <1>1. n \in Nat /\ i \in 1 .. n
    BY DEF IsSource
  <1>2. T = {0} \cup {j \in 1 .. i - 1 : I(j) < I(i)}
    BY DEF Above
  <1> HIDE DEF n, I, T
  <1>3. T \subseteq 0 .. i - 1 /\ 0 \in T
    BY <1>1, <1>2
  <1>4. \E m \in T : \A k \in T : k <= m
    <2> DEFINE U == {k \in Nat : \E j \in T : k = i - 1 - j}
    <2>1. U \in SUBSET Nat /\ i - 1 \in U
      BY <1>1, <1>3
    <2> HIDE DEF U
    <2>2. PICK u \in U : \A k \in U : u <= k
      BY <2>1, LeastExists
    <2>3. PICK m \in T : u = i - 1 - m
      BY <2>2 DEF U
    <2>4. ASSUME NEW k \in T
          PROVE  k <= m
      <3>1. k \in 0 .. i - 1 /\ m \in 0 .. i - 1
        BY <1>3
      <3>2. i - 1 - k \in U
        BY <1>1, <3>1 DEF U
      <3>3. u <= i - 1 - k
        BY <2>2, <3>2
      <3> QED BY <1>1, <2>3, <3>1, <3>3
    <2> QED BY <2>4
  <1>5. PICK m \in T : \A k \in T : k <= m
    BY <1>4
  <1>6. Max(T) = m
    BY <1>3, <1>5, IsMax
  <1>7. Parent(i) = m
    BY <1>6, ParentIs DEF T
  <1>8. m \in 0 .. i - 1
    BY <1>3
  <1>9. m # 0 => I(m) < I(i)
    BY <1>2
  <1>10. \A k \in 1 .. i - 1 : I(k) < I(i) => k <= m
    BY <1>2, <1>5
  <1> QED BY <1>7, <1>8, <1>9, <1>10 DEF I

LEMMA FoundStepSame ==
  ASSUME IsSource(text), NEW f, NEW g, NEW i \in 0 .. Len(text),
         \A j \in 0 .. i - 1 : f[j] = g[j]
  PROVE  FoundStep(f, i) = FoundStep(g, i)
  <1>1. CASE i = 0
    BY <1>1 DEF FoundStep
  <1>2. CASE i # 0
    <2>1. i \in 1 .. Len(text)
      BY <1>2 DEF IsSource
    <2>2. f[Parent(i)] = g[Parent(i)]
      BY <2>1, ParentFacts
    <2>3. Around(f, Parent(i)) = Around(g, Parent(i))
      BY <2>2 DEF Around
    <2>4. HolderOf(f, i) = HolderOf(g, i)
      BY <2>3 DEF HolderOf
    <2> QED BY <2>4 DEF FoundStep
  <1> QED BY <1>1, <1>2

FoundUpTo(f, n) ==
  /\ f = [k \in 0 .. Len(text) |-> f[k]]
  /\ \A k \in 0 .. Len(text) : k < n => f[k] = FoundStep(f, k)

LEMMA FoundFurther ==
  ASSUME IsSource(text), NEW f, NEW n \in Nat, FoundUpTo(f, n)
  PROVE  \E g : FoundUpTo(g, n + 1)
  <1> DEFINE N == Len(text)
             g == [k \in 0 .. N |-> IF k < n THEN f[k] ELSE FoundStep(f, k)]
  <1>1. \A k \in 0 .. N : g[k] = IF k < n THEN f[k] ELSE FoundStep(f, k)
    OBVIOUS
  <1>2. g = [k \in 0 .. N |-> g[k]]
    OBVIOUS
  <1>3. N \in Nat
    BY DEF IsSource
  <1> HIDE DEF g, N
  <1>4. ASSUME NEW k \in 0 .. N, k < n + 1
        PROVE  g[k] = FoundStep(g, k)
    <2>1. g[k] = FoundStep(f, k)
      BY <1>1 DEF FoundUpTo, N
    <2>2. \A j \in 0 .. k - 1 : f[j] = g[j]
      <3>1. TAKE j \in 0 .. k - 1
      <3>2. j \in 0 .. N /\ j < n
        BY <1>3, <1>4
      <3> QED BY <1>1, <3>2
    <2>3. FoundStep(f, k) = FoundStep(g, k)
      BY <2>2, FoundStepSame DEF N
    <2> QED BY <2>1, <2>3
  <1>5. FoundUpTo(g, n + 1)
    BY <1>2, <1>4 DEF FoundUpTo, N
  <1> QED BY <1>5

LEMMA FoundToEnd ==
  ASSUME IsSource(text), NEW n \in Nat
  PROVE  \E f : FoundUpTo(f, n)
  <1> DEFINE T == {k \in Nat : ~ \E f : FoundUpTo(f, k)}
  <1>1. 0 \notin T
    <2> DEFINE f == [k \in 0 .. Len(text) |-> 0]
    <2>1. f = [k \in 0 .. Len(text) |-> f[k]]
      OBVIOUS
    <2> HIDE DEF f
    <2>2. FoundUpTo(f, 0)
      BY <2>1 DEF FoundUpTo
    <2> QED BY <2>2
  <1>2. ASSUME NEW k \in Nat, k + 1 \in T
        PROVE  k \in T
    BY <1>2, FoundFurther
  <1>3. CASE T # {}
    <2>1. PICK m \in T : \A k \in T : m <= k
      <3> HIDE DEF T
      <3>1. T \in SUBSET Nat
        BY DEF T
      <3> QED BY <1>3, <3>1, LeastExists
    <2>2. m \in Nat /\ m # 0
      BY <1>1
    <2>3. m - 1 \in Nat /\ (m - 1) + 1 \in T
      BY <2>2
    <2>4. m - 1 \in T
      <3> HIDE DEF T
      <3> QED BY <1>2, <2>3
    <2>5. m <= m - 1
      <3> HIDE DEF T
      <3> QED BY <2>1, <2>4
    <2> QED BY <2>2, <2>5
  <1>4. CASE T = {}
    BY <1>4
  <1> QED BY <1>3, <1>4

Holder(i) == Found[i].holder
Place(i) == Found[i].entry
Outer(p) == IF p # 0 /\ IsField(p) THEN Holder(p) ELSE Place(p)

LEMMA FoundIs ==
  ASSUME IsSource(text)
  PROVE  /\ Outer(0) = value
         /\ \A i \in 1 .. Len(text) :
              /\ Holder(i) = IF IsItem(text[i].content) THEN Item(Outer(Parent(i)), Index(i))
                             ELSE Outer(Parent(i))
              /\ Place(i) = IF IsKeyed(i) THEN Entry(Holder(i), Key(Body(i))) ELSE Holder(i)
  <1> DEFINE N == Len(text)
  <1>1. N \in Nat
    BY DEF IsSource
  <1>2. PICK f : FoundUpTo(f, N + 1)
    BY <1>1, FoundToEnd
  <1>3. IsFound(f)
    <2>1. \A k \in 0 .. N : f[k] = FoundStep(f, k)
      BY <1>1, <1>2 DEF FoundUpTo
    <2>2. f = [k \in 0 .. N |-> f[k]]
      BY <1>2 DEF FoundUpTo
    <2> QED BY <2>1, <2>2 DEF IsFound
  <1>4. IsFound(Found)
    <2>1. IsFound(CHOOSE g : IsFound(g))
      BY <1>3
    <2> QED BY <2>1, FoundBy
  <1>5. \A i \in 0 .. N : Found[i] = FoundStep(Found, i)
    BY <1>4 DEF IsFound
  <1>6. \A p : Around(Found, p) = Outer(p)
    BY DEF Around, Outer, Holder, Place
  <1>7. Outer(0) = value
    <2>1. Found[0] = FoundStep(Found, 0)
      BY <1>1, <1>5
    <2> QED BY <2>1 DEF FoundStep, Outer, Place
  <1>8. ASSUME NEW i \in 1 .. N
        PROVE  /\ Holder(i) = HolderOf(Found, i)
               /\ Place(i) = IF IsKeyed(i) THEN Entry(HolderOf(Found, i), Key(Body(i)))
                             ELSE HolderOf(Found, i)
    <2>1. i \in 0 .. N /\ i # 0
      BY <1>1
    <2>2. Found[i] = FoundStep(Found, i)
      BY <1>5, <2>1
    <2> QED BY <2>1, <2>2 DEF FoundStep, Holder, Place
  <1>9. ASSUME NEW i \in 1 .. N
        PROVE  HolderOf(Found, i) =
                 IF IsItem(text[i].content) THEN Item(Outer(Parent(i)), Index(i))
                 ELSE Outer(Parent(i))
    BY <1>6 DEF HolderOf
  <1> QED BY <1>7, <1>8, <1>9

-----------------------------------------------------------------------------
\* Keys.

IsFirstColon(s, k) ==
  k \in 1 .. Len(s) /\ s[k] = ":" /\ \A j \in 1 .. k - 1 : s[j] # ":"

LEMMA FirstColonExists ==
  ASSUME NEW s \in Words, HasColon(s)
  PROVE  \E k : IsFirstColon(s, k)
  <1> DEFINE T == {k \in 1 .. Len(s) : s[k] = ":"}
  <1>1. Len(s) \in Nat
    BY LenProperties DEF Words
  <1>2. T \in SUBSET Nat
    BY <1>1
  <1>3. T # {}
    BY DEF HasColon, Contains
  <1>4. PICK k \in T : \A j \in T : k <= j
    <2> HIDE DEF T
    <2> QED BY <1>2, <1>3, LeastExists
  <1>5. ASSUME NEW j \in 1 .. k - 1
        PROVE  s[j] # ":"
    <2>1. k \in 1 .. Len(s)
      OBVIOUS
    <2>2. j \in 1 .. Len(s) /\ ~(k <= j)
      BY <1>1, <2>1
    <2> QED BY <1>4, <2>2
  <1> QED BY <1>5 DEF IsFirstColon

LEMMA KeyAndRest ==
  ASSUME NEW s \in Words, NEW k, IsFirstColon(s, k)
  PROVE  Key(s) = SubSeq(s, 1, k - 1) /\ Rest(s) = SubSeq(s, k + 1, Len(s))
  <1> DEFINE T == {i \in 1 .. Len(s) : s[i] = ":"}
  <1>1. Len(s) \in Nat
    BY LenProperties DEF Words
  <1>2. T \in SUBSET Nat /\ k \in T
    BY <1>1 DEF IsFirstColon
  <1>3. ASSUME NEW j \in T
        PROVE  k <= j
    <2>1. j \in 1 .. Len(s) /\ s[j] = ":" /\ k \in 1 .. Len(s)
      BY <1>2
    <2>2. j \notin 1 .. k - 1
      BY <2>1 DEF IsFirstColon
    <2> QED BY <1>1, <2>1, <2>2
  <1>4. Min(T) = k
    <2> HIDE DEF T
    <2> QED BY <1>2, <1>3, IsMin
  <1>5. SelectInSeq(s, LAMBDA t : t = ":") = IF T # {} THEN Min(T) ELSE 0
    BY DEF SelectInSeq
  <1>6. SelectInSeq(s, LAMBDA t : t = ":") = k
    <2> HIDE DEF T
    <2> QED BY <1>2, <1>4, <1>5
  <1> QED BY <1>6 DEF Key, Rest

\* A header's key is all that is before its last token.
LEMMA HeaderKey ==
  ASSUME NEW s \in Words, HasColon(s), Rest(s) = <<>>
  PROVE  Key(s) = Front(s)
  <1>1. PICK k : IsFirstColon(s, k)
    BY FirstColonExists
  <1>2. Len(s) \in Nat /\ k \in 1 .. Len(s) /\ \A i \in 1 .. Len(s) : s[i] \in Tokens
    BY <1>1, LenProperties, ElementOfSeq DEF IsFirstColon, Words
  <1>3. Len(SubSeq(s, k + 1, Len(s))) = IF k + 1 <= Len(s) THEN Len(s) - (k + 1) + 1 ELSE 0
    <2>1. k + 1 \in Int /\ Len(s) \in Int /\ \A i \in k + 1 .. Len(s) : s[i] \in Tokens
      BY <1>2
    <2> QED BY <2>1, SubSeqProperties
  <1>4. SubSeq(s, k + 1, Len(s)) = <<>>
    BY <1>1, KeyAndRest
  <1>5. Len(<<>>) = 0
    OBVIOUS
  <1> DEFINE n == Len(s)
             m == Len(SubSeq(s, k + 1, n))
  <1>6. m = 0 /\ m = IF k + 1 <= n THEN n - (k + 1) + 1 ELSE 0
    BY <1>3, <1>4, <1>5
  <1> HIDE DEF m
  <1>7. k = n
    <2> HIDE DEF n
    <2>1. n \in Nat /\ k \in 1 .. n
      BY <1>2 DEF n
    <2> QED BY <1>6, <2>1
  <1> QED BY <1>1, <1>7, KeyAndRest DEF Front

\* A comment behind a line leaves its key alone.
LEMMA BodyWithComment ==
  ASSUME NEW s \in Words, s # <<>>
  PROVE  BodyOf(s \o TheComment) = BodyOf(s) \o TheComment
  <1> DEFINE t == s \o TheComment
  <1>1. t \in Words /\ (IsItem(t) <=> IsItem(s))
    BY ItemStays
  <1>2. CASE ~IsItem(s)
    BY <1>1, <1>2 DEF BodyOf
  <1>3. CASE IsItem(s)
    <2> DEFINE u == Tail(s) \o TheComment
    <2>1. /\ Len(s) \in Nat \ {0} /\ Len(TheComment) \in Nat
      <3>1. Len(s) \in Nat \ {0}
        BY EmptySeq DEF Words
      <3>2. Len(TheComment) \in Nat
        BY TheCommentIsWords, LenProperties DEF Words
      <3> QED BY <3>1, <3>2
    <2>2. /\ Len(t) = Len(s) + Len(TheComment)
          /\ \A i \in 1 .. Len(s) + Len(TheComment) :
               t[i] = IF i <= Len(s) THEN s[i] ELSE TheComment[i - Len(s)]
      BY TheCommentIsWords, ConcatProperties DEF Words
    <2>3. /\ Tail(s) \in Words /\ Len(Tail(s)) = Len(s) - 1
          /\ \A i \in 1 .. Len(Tail(s)) : Tail(s)[i] = s[i + 1]
      BY HeadTailProperties DEF Words
    <2>4. /\ u \in Words /\ Len(u) = Len(Tail(s)) + Len(TheComment)
          /\ \A i \in 1 .. Len(Tail(s)) + Len(TheComment) :
               u[i] = IF i <= Len(Tail(s)) THEN Tail(s)[i] ELSE TheComment[i - Len(Tail(s))]
      BY <2>3, TheCommentIsWords, ConcatProperties DEF Words
    <2>5. t # <<>>
      <3>1. Len(<<>>) = 0
        OBVIOUS
      <3>2. Len(t) # 0
        <4> HIDE DEF t
        <4> QED BY <2>1, <2>2
      <3> HIDE DEF t
      <3> QED BY <3>1, <3>2
    <2> HIDE DEF t, u
    <2>6. /\ Tail(t) \in Words /\ Len(Tail(t)) = Len(t) - 1
          /\ \A i \in 1 .. Len(Tail(t)) : Tail(t)[i] = t[i + 1]
      BY <1>1, <2>5, HeadTailProperties DEF Words
    <2>7. Len(Tail(t)) = Len(u)
      BY <2>1, <2>2, <2>3, <2>4, <2>6
    <2>8. ASSUME NEW i \in 1 .. Len(u)
          PROVE  Tail(t)[i] = u[i]
      <3> DEFINE a == Len(s)
                 b == Len(TheComment)
      <3>1. a \in Nat \ {0} /\ b \in Nat /\ i \in 1 .. (a - 1) + b
        BY <2>1, <2>3, <2>4
      <3>2. Tail(t)[i] = t[i + 1]
        BY <2>6, <2>7
      <3>3. u[i] = IF i <= a - 1 THEN Tail(s)[i] ELSE TheComment[i - (a - 1)]
        BY <2>3, <2>4, <3>1
      <3>4. i + 1 \in 1 .. a + b
        <4> HIDE DEF a, b
        <4> QED BY <3>1
      <3>5. t[i + 1] = IF i + 1 <= a THEN s[i + 1] ELSE TheComment[(i + 1) - a]
        BY <2>2, <3>4
      <3>6. i <= a - 1 => Tail(s)[i] = s[i + 1]
        BY <2>3, <3>1
      <3> HIDE DEF a, b
      <3>7. (i + 1) - a = i - (a - 1) /\ (i + 1 <= a <=> i <= a - 1)
        BY <3>1
      <3> QED BY <3>2, <3>3, <3>5, <3>6, <3>7
    <2>9. Tail(t) = u
      BY <2>4, <2>6, <2>7, <2>8, SeqEqual DEF Words
    <2> QED BY <1>1, <1>3, <2>9 DEF BodyOf, t, u
  <1> QED BY <1>2, <1>3

LEMMA KeyStays ==
  ASSUME NEW s \in Words, s # <<>>, HasColon(BodyOf(s))
  PROVE  Key(BodyOf(s \o TheComment)) = Key(BodyOf(s))
  <1> DEFINE b == BodyOf(s)
             u == b \o TheComment
  <1>1. b \in Words /\ TheComment \in Words
    BY BodyIsWords, TheCommentIsWords
  <1>2. PICK k : IsFirstColon(b, k)
    BY <1>1, FirstColonExists
  <1>3. /\ u \in Words /\ Len(u) = Len(b) + Len(TheComment)
        /\ \A i \in 1 .. Len(b) + Len(TheComment) :
             u[i] = IF i <= Len(b) THEN b[i] ELSE TheComment[i - Len(b)]
    BY <1>1, ConcatProperties DEF Words
  <1>4. Len(b) \in Nat /\ Len(TheComment) \in Nat
    BY <1>1, LenProperties DEF Words
  <1>5. SubSeq(u, 1, k - 1) = SubSeq(b, 1, k - 1)
    <2>1. k - 1 \in 0 .. Len(b)
      BY <1>2, <1>4 DEF IsFirstColon
    <2> HIDE DEF b
    <2> QED BY <1>1, <2>1, Prefix
  <1> HIDE DEF b, u
  <1>6. IsFirstColon(u, k)
    <2>1. k \in 1 .. Len(b) /\ b[k] = ":" /\ \A j \in 1 .. k - 1 : b[j] # ":"
      BY <1>2 DEF IsFirstColon
    <2>2. \A j \in 1 .. k : j \in 1 .. Len(b) + Len(TheComment) /\ j <= Len(b)
      BY <1>4, <2>1
    <2>3. \A j \in 1 .. k : u[j] = b[j]
      BY <1>3, <2>2
    <2>4. k \in 1 .. k /\ \A j \in 1 .. k - 1 : j \in 1 .. k
      BY <2>1
    <2>5. k \in 1 .. Len(u)
      BY <1>3, <2>2, <2>4
    <2> QED BY <2>1, <2>3, <2>4, <2>5 DEF IsFirstColon
  <1>7. Key(u) = Key(b)
    BY <1>1, <1>2, <1>3, <1>5, <1>6, KeyAndRest
  <1> QED BY <1>7, BodyWithComment DEF b, u

-----------------------------------------------------------------------------
\* What a parser's answer is made of, whatever the text: where it ends, how
\* the lines it has read are indented, and where the keys of a mapping come
\* from.

LEMMA JoinedIs ==
  ASSUME NEW entries, NEW read, ~Failed(Joined(entries, read))
  PROVE  LET r == Joined(entries, read)
         IN  /\ ~Failed(read) /\ r.pos = read.pos /\ r.val[1] = "dict"
             /\ DOMAIN r.val[2] = DOMAIN read.val[2] \cup DOMAIN entries
             /\ \A key \in DOMAIN r.val[2] :
                  r.val[2][key] = IF key \in DOMAIN read.val[2] THEN read.val[2][key]
                                  ELSE entries[key]
  <1> DEFINE r == Joined(entries, read)
             d == Update(entries, read.val[2])
  <1>1. ~Failed(read)
    BY JoinedPos DEF Failed
  <1>2. r = Read(Dict(d), read.pos)
    BY <1>1 DEF Joined
  <1>3. r.pos = read.pos /\ r.val = Dict(d)
    BY <1>2, ReadFields
  <1>4. r.val[1] = "dict" /\ r.val[2] = d
    BY <1>3 DEF Dict
  <1>5. /\ DOMAIN d = DOMAIN read.val[2] \cup DOMAIN entries
        /\ \A key \in DOMAIN d :
             d[key] = IF key \in DOMAIN read.val[2] THEN read.val[2][key] ELSE entries[key]
    BY DEF Update
  <1> QED BY <1>1, <1>3, <1>4, <1>5

LEMMA ListedIs ==
  ASSUME NEW read, NEW rest, ~Failed(Listed(read, rest)),
         \E S : rest.val[2] \in Seq(S)
  PROVE  LET r == Listed(read, rest)
         IN  /\ ~Failed(read) /\ ~Failed(rest) /\ r.pos = rest.pos /\ r.val[1] = "list"
             /\ \E S : r.val[2] \in Seq(S)
             /\ Len(rest.val[2]) \in Nat /\ Len(r.val[2]) = Len(rest.val[2]) + 1
             /\ r.val[2][1] = read.val
             /\ \A x \in 1 .. Len(rest.val[2]) : r.val[2][x + 1] = rest.val[2][x]
  <1> DEFINE r == Listed(read, rest)
             one == <<read.val>>
             s == rest.val[2]
             l == one \o s
  <1>1. ~Failed(read) /\ ~Failed(rest)
    BY ListedPos DEF Failed
  <1>2. r = Read(List(l), rest.pos)
    BY <1>1 DEF Listed
  <1>3. r.pos = rest.pos /\ r.val = List(l)
    BY <1>2, ReadFields
  <1>4. r.val[1] = "list" /\ r.val[2] = l
    BY <1>3 DEF List
  <1>5. PICK S : s \in Seq(S)
    OBVIOUS
  <1> DEFINE T == S \cup {read.val}
  <1>6. one \in Seq(T) /\ Len(one) = 1 /\ one[1] = read.val
    OBVIOUS
  <1>7. s \in Seq(T) /\ Len(s) \in Nat
    <2>1. S \subseteq T
      OBVIOUS
    <2> HIDE DEF T, s
    <2> QED BY <1>5, <2>1, SeqMonotonic, LenProperties
  <1> HIDE DEF T, one, s
  <1>8. /\ l \in Seq(T) /\ Len(l) = Len(one) + Len(s)
        /\ \A i \in 1 .. Len(one) + Len(s) :
             l[i] = IF i <= Len(one) THEN one[i] ELSE s[i - Len(one)]
    BY <1>6, <1>7, ConcatProperties
  <1> HIDE DEF l
  <1>9. Len(l) = Len(s) + 1 /\ l[1] = read.val
    BY <1>6, <1>7, <1>8
  <1>10. ASSUME NEW x \in 1 .. Len(s)
         PROVE  l[x + 1] = s[x]
    <2>1. x + 1 \in 1 .. Len(one) + Len(s) /\ ~(x + 1 <= Len(one)) /\ (x + 1) - Len(one) = x
      BY <1>6, <1>7
    <2> QED BY <1>8, <2>1
  <1> HIDE DEF r
  <1>11. \E U : r.val[2] \in Seq(U)
    BY <1>4, <1>8
  <1> QED BY <1>1, <1>3, <1>4, <1>7, <1>9, <1>10, <1>11 DEF r, s

\* Each key is that of a line, and no line before it is indented less.
KeysIn(lines, d, p, q) ==
  \A key \in DOMAIN d :
    \E j \in p .. q - 1 :
      /\ ~IsItem(lines[j].content) /\ HasColon(lines[j].content)
      /\ Key(lines[j].content) = key
      /\ \A i \in p .. j - 1 : lines[i].indent >= lines[j].indent

Covers(lines, r, p, ind) ==
  /\ r.pos \in p .. Len(lines) + 1
  /\ \A j \in p .. r.pos - 1 : lines[j].indent >= ind

SoundMap(lines, r, p, ind) ==
  ~Failed(r) =>
    /\ Covers(lines, r, p, ind)
    /\ r.pos # p => /\ p <= Len(lines) /\ lines[p].indent = ind
                    /\ ~IsItem(lines[p].content)
    /\ r.pos <= Len(lines) /\ lines[r.pos].indent >= ind => IsItem(lines[r.pos].content)
    /\ r.val[1] = "dict" /\ KeysIn(lines, r.val[2], p, r.pos)

SoundList(lines, r, p, ind) ==
  ~Failed(r) =>
    /\ Covers(lines, r, p, ind)
    /\ r.pos # p => /\ p <= Len(lines) /\ lines[p].indent = ind
                    /\ IsItem(lines[p].content)
    /\ r.val[1] = "list" /\ \E S : r.val[2] \in Seq(S)

SoundFields(lines, r, p, ind) ==
  ~Failed(r) =>
    /\ r.pos \in p .. Len(lines) + 1
    /\ \A j \in p .. r.pos - 1 : lines[j].indent > ind
    /\ r.pos # p => Deeper(lines, p, ind) /\ ~IsItem(lines[p].content)
    /\ r.val[1] = "dict" /\ KeysIn(lines, r.val[2], p, r.pos)

SoundBlock(lines, r, p, ind) == ~Failed(r) => Covers(lines, r, p, ind)

SoundAt(lines, p) ==
  \A ind \in Nat :
    /\ SoundMap(lines, TheParse(lines)["map", p, ind], p, ind)
    /\ SoundList(lines, TheParse(lines)["list", p, ind], p, ind)
    /\ SoundFields(lines, TheParse(lines)["fields", p, ind], p, ind)
    /\ SoundBlock(lines, TheParse(lines)["block", p, ind], p, ind)

LEMMA TheSteps ==
  ASSUME NEW lines, IsText(lines), NEW p \in Places(lines), NEW ind \in Nat
  PROVE  LET f == TheParse(lines)
         IN  /\ f["block", p, ind] = ParseBlock(lines, f, p, ind)
             /\ f["map", p, ind] = ParseMap(lines, f, p, ind)
             /\ f["list", p, ind] = ParseList(lines, f, p, ind)
             /\ f["fields", p, ind] = ParseFields(lines, f, p, ind)
  BY ParseExists DEF Step, Parsers

\* What is below a header is indented deeper.
LEMMA NestedSound ==
  ASSUME NEW lines, IsText(lines), NEW p \in 1 .. Len(lines), NEW ind \in Nat, NEW otherwise,
         \A k \in p + 1 .. Len(lines) + 1 : SoundAt(lines, k)
  PROVE  LET r == Nested(lines, TheParse(lines), p + 1, ind, otherwise)
         IN  ~Failed(r) =>
               /\ r.pos \in p + 1 .. Len(lines) + 1
               /\ \A j \in p + 1 .. r.pos - 1 : lines[j].indent > ind
               /\ \/ /\ Deeper(lines, p + 1, ind)
                     /\ r = TheParse(lines)["block", p + 1, lines[p + 1].indent]
                  \/ r = Read(otherwise, p + 1)
  <1> DEFINE r == Nested(lines, TheParse(lines), p + 1, ind, otherwise)
  <1>1. Len(lines) \in Nat
    BY TextFacts
  <1>2. CASE Deeper(lines, p + 1, ind)
    <2> DEFINE c == lines[p + 1].indent
               b == TheParse(lines)["block", p + 1, c]
    <2>1. p + 1 \in 1 .. Len(lines) /\ p + 1 \in p + 1 .. Len(lines) + 1 /\ c > ind
      BY <1>1, <1>2 DEF Deeper
    <2>2. c \in Nat
      BY <2>1, TextFacts
    <2>3. r = b
      BY <1>2 DEF Nested
    <2>4. SoundBlock(lines, b, p + 1, c)
      BY <2>1, <2>2 DEF SoundAt
    <2> HIDE DEF r, b
    <2>5. ASSUME ~Failed(b)
          PROVE  /\ b.pos \in p + 1 .. Len(lines) + 1
                 /\ \A j \in p + 1 .. b.pos - 1 : lines[j].indent > ind
      <3>1. /\ b.pos \in p + 1 .. Len(lines) + 1
            /\ \A j \in p + 1 .. b.pos - 1 : lines[j].indent >= c
        BY <2>4, <2>5 DEF SoundBlock, Covers
      <3> HIDE DEF c
      <3>2. ASSUME NEW j \in p + 1 .. b.pos - 1
            PROVE  lines[j].indent > ind
        <4>1. j \in 1 .. Len(lines) /\ lines[j].indent >= c
          BY <1>1, <3>1
        <4>2. lines[j].indent \in Nat
          BY <4>1, TextFacts
        <4> QED BY <2>1, <2>2, <4>1, <4>2
      <3> QED BY <3>1, <3>2
    <2> QED BY <1>2, <2>3, <2>5 DEF r, b
  <1>3. CASE ~Deeper(lines, p + 1, ind)
    <2>1. r = Read(otherwise, p + 1)
      BY <1>3 DEF Nested
    <2>2. r.pos = p + 1
      BY <2>1, ReadFields
    <2>3. p + 1 \in p + 1 .. Len(lines) + 1 /\ \A j : j \notin p + 1 .. (p + 1) - 1
      BY <1>1
    <2> HIDE DEF r
    <2> QED BY <2>1, <2>2, <2>3 DEF r
  <1> QED BY <1>2, <1>3

LEMMA MapReadSound ==
  ASSUME NEW lines, IsText(lines), NEW p \in 1 .. Len(lines), NEW ind \in Nat,
         \A k \in p + 1 .. Len(lines) + 1 : SoundAt(lines, k)
  PROVE  LET r == MapRead(lines, TheParse(lines), p, ind)
         IN  ~Failed(r) =>
               /\ r.pos \in p + 1 .. Len(lines) + 1
               /\ \A j \in p + 1 .. r.pos - 1 : lines[j].indent > ind
  <1> DEFINE r == MapRead(lines, TheParse(lines), p, ind)
             rest == Rest(lines[p].content)
             otherwise == IF rest = <<>> THEN None ELSE Str(rest)
             nested == Nested(lines, TheParse(lines), p + 1, ind, otherwise)
  <1>1. ~Failed(nested) => /\ nested.pos \in p + 1 .. Len(lines) + 1
                           /\ \A j \in p + 1 .. nested.pos - 1 : lines[j].indent > ind
    <2> HIDE DEF otherwise
    <2> QED BY NestedSound
  <1>2. r = nested \/ r = Read(Scalar(rest), p + 1)
    BY DEF MapRead
  <1>3. Len(lines) \in Nat
    BY TextFacts
  <1>4. p + 1 \in p + 1 .. Len(lines) + 1 /\ \A j : j \notin p + 1 .. (p + 1) - 1
    BY <1>3
  <1>5. CASE r = nested
    BY <1>1, <1>5
  <1>6. CASE r = Read(Scalar(rest), p + 1)
    <2>1. r.pos = p + 1
      BY <1>6, ReadFields
    <2> HIDE DEF r
    <2> QED BY <1>4, <2>1 DEF r
  <1> QED BY <1>2, <1>5, <1>6

\* A parser that stops at once has read nothing.
LEMMA NothingRead ==
  ASSUME NEW lines, NEW p, NEW r, r = Read(Dict(<<>>), p)
  PROVE  r.pos = p /\ r.val[1] = "dict" /\ KeysIn(lines, r.val[2], p, p)
  <1> DEFINE d == Dict(<<>>)
  <1>1. r.pos = p /\ r.val = d
    <2>1. r = Read(d, p)
      OBVIOUS
    <2> HIDE DEF d
    <2> QED BY <2>1, ReadFields
  <1>2. d[1] = "dict" /\ DOMAIN d[2] = {}
    BY DEF Dict
  <1> HIDE DEF d
  <1> QED BY <1>1, <1>2 DEF KeysIn

MapsAt(lines, p) ==
  \A ind \in Nat : SoundMap(lines, TheParse(lines)["map", p, ind], p, ind)

LEMMA MapSound ==
  ASSUME NEW lines, IsText(lines), NEW p \in Places(lines), NEW ind \in Nat,
         \A k \in p + 1 .. Len(lines) + 1 : SoundAt(lines, k)
  PROVE  SoundMap(lines, TheParse(lines)["map", p, ind], p, ind)
  <1> DEFINE f == TheParse(lines)
             r == f["map", p, ind]
             m == MapRead(lines, f, p, ind)
             t == f["map", m.pos, ind]
             key == Key(lines[p].content)
             stop == \/ Ended(lines, p, ind)
                     \/ ~Deeper(lines, p, ind) /\ IsItem(lines[p].content)
             wrong == Deeper(lines, p, ind) \/ ~HasColon(lines[p].content) \/ Failed(m)
             n == Len(lines)
  <1>1. n \in Nat /\ p \in 1 .. n + 1 /\ \A k \in 1 .. n : lines[k].indent \in Nat
    BY TextFacts DEF Places
  <1>2. r = IF stop THEN Read(Dict(<<>>), p)
            ELSE IF wrong THEN Error
            ELSE Joined(Pair(key, m.val), t)
    BY TheSteps, ParseMapIs
  <1>3. ~stop => p \in 1 .. n
    BY NotEnded
  <1>4. CASE stop
    <2>1. r = Read(Dict(<<>>), p)
      BY <1>2, <1>4
    <2>2. r.pos = p /\ r.val[1] = "dict" /\ KeysIn(lines, r.val[2], p, p)
      BY <2>1, NothingRead
    <2>5. p <= n /\ lines[p].indent >= ind => IsItem(lines[p].content)
      BY <1>1, <1>4 DEF Ended
    <2>6. p \in p .. n + 1 /\ \A j : j \notin p .. p - 1
      BY <1>1
    <2> HIDE DEF r, n
    <2> QED BY <2>2, <2>5, <2>6 DEF SoundMap, Covers, r, n
  <1>5. CASE ~stop /\ wrong
    <2>1. r = Error
      BY <1>2, <1>5
    <2>2. Failed(r)
      BY <2>1, ReadFields DEF Failed
    <2> QED BY <2>2 DEF SoundMap
  <1>6. CASE ~stop /\ ~wrong
    <2>1. p \in 1 .. n /\ ~Failed(m) /\ HasColon(lines[p].content)
      BY <1>3, <1>6
    <2>2. lines[p].indent = ind /\ ~IsItem(lines[p].content)
      BY <1>1, <1>6, <2>1 DEF Ended, Deeper
    <2>3. /\ m.pos \in p + 1 .. n + 1
          /\ \A j \in p + 1 .. m.pos - 1 : lines[j].indent > ind
      BY <2>1, MapReadSound
    <2>4. SoundMap(lines, t, m.pos, ind)
      BY <2>3 DEF SoundAt
    <2>5. r = Joined(Pair(key, m.val), t)
      BY <1>2, <1>6
    <2> HIDE DEF r, t, m, key, n
    <2> SUFFICES ASSUME ~Failed(r)
                 PROVE  SoundMap(lines, r, p, ind)
      BY DEF SoundMap, r
    <2>6. /\ ~Failed(t) /\ r.pos = t.pos /\ r.val[1] = "dict"
          /\ DOMAIN r.val[2] = DOMAIN t.val[2] \cup DOMAIN Pair(key, m.val)
      BY <2>5, JoinedIs
    <2>7. /\ t.pos \in m.pos .. n + 1
          /\ \A j \in m.pos .. t.pos - 1 : lines[j].indent >= ind
          /\ t.pos # m.pos => lines[m.pos].indent = ind
          /\ t.pos <= n /\ lines[t.pos].indent >= ind => IsItem(lines[t.pos].content)
          /\ KeysIn(lines, t.val[2], m.pos, t.pos)
      BY <2>4, <2>6 DEF SoundMap, Covers, n
    <2>8. r.pos \in p .. n + 1 /\ r.pos # p
      BY <1>1, <2>1, <2>3, <2>6, <2>7
    <2>9. ASSUME NEW j \in p .. r.pos - 1
          PROVE  lines[j].indent >= ind
      <3>1. j = p \/ j \in p + 1 .. m.pos - 1 \/ j \in m.pos .. t.pos - 1
        BY <1>1, <2>1, <2>3, <2>6, <2>7
      <3>2. j \in 1 .. n
        BY <1>1, <2>1, <2>8
      <3>3. lines[j].indent \in Nat
        BY <1>1, <3>2
      <3> QED BY <2>2, <2>3, <2>7, <3>1, <3>3
    <2>10. ASSUME NEW k \in DOMAIN r.val[2]
           PROVE  \E j \in p .. r.pos - 1 :
                    /\ ~IsItem(lines[j].content) /\ HasColon(lines[j].content)
                    /\ Key(lines[j].content) = k
                    /\ \A i \in p .. j - 1 : lines[i].indent >= lines[j].indent
      <3>1. CASE k \in DOMAIN t.val[2]
        <4>1. PICK j \in m.pos .. t.pos - 1 :
                /\ ~IsItem(lines[j].content) /\ HasColon(lines[j].content)
                /\ Key(lines[j].content) = k
                /\ \A i \in m.pos .. j - 1 : lines[i].indent >= lines[j].indent
          BY <2>7, <3>1 DEF KeysIn
        <4>2. j \in p .. r.pos - 1 /\ j \in 1 .. n /\ t.pos # m.pos
          BY <1>1, <2>1, <2>3, <2>6, <2>7
        <4>3. lines[j].indent = ind
          <5>1. lines[j].indent >= ind /\ lines[j].indent \in Nat
            BY <1>1, <2>7, <4>2
          <5>2. j = m.pos \/ m.pos \in m.pos .. j - 1
            BY <1>1, <2>1, <2>3, <4>2
          <5>3. CASE m.pos \in m.pos .. j - 1
            <6>1. lines[m.pos].indent >= lines[j].indent /\ lines[m.pos].indent = ind
              BY <2>7, <4>1, <4>2, <5>3
            <6> QED BY <5>1, <6>1
          <5> QED BY <2>7, <4>2, <5>2, <5>3
        <4>4. \A i \in p .. j - 1 : i \in p .. r.pos - 1
          BY <1>1, <2>1, <2>8, <4>2
        <4> QED BY <2>9, <4>1, <4>2, <4>3, <4>4
      <3>2. CASE k = key
        <4>1. p \in p .. r.pos - 1 /\ \A i : i \notin p .. p - 1
          BY <1>1, <2>1, <2>8
        <4> QED BY <2>1, <2>2, <3>2, <4>1 DEF key
      <3>3. DOMAIN Pair(key, m.val) = {key}
        BY DEF Pair
      <3> QED BY <2>6, <3>1, <3>2, <3>3
    <2>11. KeysIn(lines, r.val[2], p, r.pos)
      BY <2>10 DEF KeysIn
    <2>12. /\ r.pos <= n /\ lines[r.pos].indent >= ind => IsItem(lines[r.pos].content)
           /\ p <= n
      BY <2>1, <2>6, <2>7
    <2> QED BY <2>2, <2>6, <2>8, <2>9, <2>11, <2>12 DEF SoundMap, Covers, n
  <1> QED BY <1>4, <1>5, <1>6

LEMMA FieldsSound ==
  ASSUME NEW lines, IsText(lines), NEW p \in Places(lines), NEW ind \in Nat,
         \A k \in p + 1 .. Len(lines) + 1 : SoundAt(lines, k),
         MapsAt(lines, p)
  PROVE  SoundFields(lines, TheParse(lines)["fields", p, ind], p, ind)
  <1> DEFINE f == TheParse(lines)
             r == f["fields", p, ind]
             c == lines[p].indent
             x == f["map", p, c]
             t == f["fields", x.pos, ind]
             stop == ~Deeper(lines, p, ind) \/ IsItem(lines[p].content)
             n == Len(lines)
  <1>1. n \in Nat /\ p \in 1 .. n + 1 /\ \A k \in 1 .. n : lines[k].indent \in Nat
    BY TextFacts DEF Places
  <1>2. r = IF stop THEN Read(Dict(<<>>), p)
            ELSE IF Failed(x) THEN Error
            ELSE Joined(x.val[2], t)
    BY TheSteps DEF ParseFields
  <1>3. CASE stop
    <2>1. r = Read(Dict(<<>>), p)
      BY <1>2, <1>3
    <2>2. r.pos = p /\ r.val[1] = "dict" /\ KeysIn(lines, r.val[2], p, p)
      BY <2>1, NothingRead
    <2>5. p \in p .. n + 1 /\ \A j : j \notin p .. p - 1
      BY <1>1
    <2> HIDE DEF r, n
    <2> QED BY <2>2, <2>5 DEF SoundFields, r, n
  <1>4. CASE ~stop /\ Failed(x)
    <2>1. r = Error
      BY <1>2, <1>4
    <2>2. Failed(r)
      BY <2>1, ReadFields DEF Failed
    <2> QED BY <2>2 DEF SoundFields
  <1>5. CASE ~stop /\ ~Failed(x)
    <2>1. p \in 1 .. n /\ c > ind /\ c \in Nat /\ ~IsItem(lines[p].content)
      <3>1. p <= n /\ c > ind /\ ~IsItem(lines[p].content)
        BY <1>5 DEF Deeper
      <3> HIDE DEF n, c
      <3>2. p \in 1 .. n
        BY <1>1, <3>1
      <3> QED BY <1>1, <3>1, <3>2 DEF c
    <2>2. SoundMap(lines, x, p, c)
      BY <2>1 DEF MapsAt
    <2>3. r = Joined(x.val[2], t)
      BY <1>2, <1>5
    <2> HIDE DEF n
    <2>4. /\ x.pos \in p .. n + 1 /\ \A j \in p .. x.pos - 1 : lines[j].indent >= c
          /\ x.pos <= n /\ lines[x.pos].indent >= c => IsItem(lines[x.pos].content)
          /\ KeysIn(lines, x.val[2], p, x.pos)
      <3> HIDE DEF x, c
      <3> QED BY <1>5, <2>2 DEF SoundMap, Covers, n, x, c
    <2>5. x.pos # p
      <3> SUFFICES ASSUME x.pos = p
                   PROVE  FALSE
        OBVIOUS
      <3>1. p <= n /\ c >= c
        <4>1. c \in Nat /\ p \in 1 .. n /\ n \in Nat
          BY <1>1, <2>1
        <4> HIDE DEF c, x
        <4> QED BY <4>1
      <3> QED BY <2>1, <2>4, <3>1
    <2>6. x.pos \in p + 1 .. n + 1
      <3> HIDE DEF x
      <3> QED BY <1>1, <2>4, <2>5
    <2>7. SoundFields(lines, t, x.pos, ind)
      BY <2>6 DEF SoundAt, n
    <2> HIDE DEF r, t, x, c
    <2> SUFFICES ASSUME ~Failed(r)
                 PROVE  SoundFields(lines, r, p, ind)
      BY DEF SoundFields, r
    <2>8. /\ ~Failed(t) /\ r.pos = t.pos /\ r.val[1] = "dict"
          /\ DOMAIN r.val[2] = DOMAIN t.val[2] \cup DOMAIN x.val[2]
      BY <2>3, JoinedIs
    <2>9. /\ t.pos \in x.pos .. n + 1
          /\ \A j \in x.pos .. t.pos - 1 : lines[j].indent > ind
          /\ t.pos # x.pos => Deeper(lines, x.pos, ind) /\ ~IsItem(lines[x.pos].content)
          /\ KeysIn(lines, t.val[2], x.pos, t.pos)
      BY <2>7, <2>8 DEF SoundFields, n
    <2>10. r.pos \in p .. n + 1 /\ r.pos # p
      BY <1>1, <2>1, <2>6, <2>8, <2>9
    <2>11. ASSUME NEW j \in p .. r.pos - 1
           PROVE  lines[j].indent > ind
      <3>1. j \in p .. x.pos - 1 \/ j \in x.pos .. t.pos - 1
        BY <1>1, <2>1, <2>6, <2>8, <2>9
      <3>2. j \in 1 .. n
        BY <1>1, <2>1, <2>10
      <3>3. lines[j].indent \in Nat
        BY <1>1, <3>2
      <3> QED BY <2>1, <2>4, <2>9, <3>1, <3>3
    <2>12. ASSUME NEW k \in DOMAIN r.val[2]
           PROVE  \E j \in p .. r.pos - 1 :
                    /\ ~IsItem(lines[j].content) /\ HasColon(lines[j].content)
                    /\ Key(lines[j].content) = k
                    /\ \A i \in p .. j - 1 : lines[i].indent >= lines[j].indent
      <3>1. CASE k \in DOMAIN t.val[2]
        <4>1. PICK j \in x.pos .. t.pos - 1 :
                /\ ~IsItem(lines[j].content) /\ HasColon(lines[j].content)
                /\ Key(lines[j].content) = k
                /\ \A i \in x.pos .. j - 1 : lines[i].indent >= lines[j].indent
          BY <2>9, <3>1 DEF KeysIn
        <4>2. j \in p .. r.pos - 1 /\ j \in 1 .. n /\ t.pos # x.pos
          BY <1>1, <2>1, <2>6, <2>8, <2>9
        <4>3. x.pos \in 1 .. n /\ lines[x.pos].indent < c
          <5>1. x.pos \in 1 .. n
            BY <1>1, <2>1, <2>6, <4>2
          <5>2. ~(lines[x.pos].indent >= c)
            BY <2>4, <2>9, <4>2, <5>1
          <5> QED BY <1>1, <2>1, <5>1, <5>2
        <4>4. lines[j].indent < c
          <5>1. j = x.pos \/ x.pos \in x.pos .. j - 1
            BY <1>1, <4>2, <4>3
          <5>2. CASE x.pos \in x.pos .. j - 1
            <6>1. lines[x.pos].indent >= lines[j].indent
              BY <4>1, <5>2
            <6> QED BY <1>1, <2>1, <4>2, <4>3, <6>1
          <5> QED BY <4>3, <5>1, <5>2
        <4>5. ASSUME NEW i \in p .. j - 1
              PROVE  lines[i].indent >= lines[j].indent
          <5>1. (i \in p .. x.pos - 1 \/ i \in x.pos .. j - 1) /\ i \in 1 .. n
            BY <1>1, <2>1, <2>6, <4>2
          <5>2. CASE i \in p .. x.pos - 1
            <6>1. lines[i].indent >= c
              BY <2>4, <5>2
            <6> QED BY <1>1, <2>1, <4>2, <4>4, <5>1, <6>1
          <5> QED BY <4>1, <5>1, <5>2
        <4> QED BY <4>1, <4>2, <4>5
      <3>2. CASE k \in DOMAIN x.val[2]
        <4>1. PICK j \in p .. x.pos - 1 :
                /\ ~IsItem(lines[j].content) /\ HasColon(lines[j].content)
                /\ Key(lines[j].content) = k
                /\ \A i \in p .. j - 1 : lines[i].indent >= lines[j].indent
          BY <2>4, <3>2 DEF KeysIn
        <4>2. j \in p .. r.pos - 1
          BY <1>1, <2>1, <2>6, <2>8, <2>9
        <4> QED BY <4>1, <4>2
      <3> QED BY <2>8, <3>1, <3>2
    <2>13. KeysIn(lines, r.val[2], p, r.pos)
      BY <2>12 DEF KeysIn
    <2>14. Deeper(lines, p, ind)
      BY <1>5
    <2> QED BY <2>1, <2>8, <2>10, <2>11, <2>13, <2>14 DEF SoundFields, n
  <1> QED BY <1>3, <1>4, <1>5

LEMMA ItemSound ==
  ASSUME NEW lines, IsText(lines), NEW p \in 1 .. Len(lines), NEW ind \in Nat,
         \A k \in p + 1 .. Len(lines) + 1 : SoundAt(lines, k)
  PROVE  LET r == ParseItem(lines, TheParse(lines), p, ind)
         IN  ~Failed(r) =>
               /\ r.pos \in p + 1 .. Len(lines) + 1
               /\ \A j \in p + 1 .. r.pos - 1 : lines[j].indent > ind
  <1> DEFINE f == TheParse(lines)
             item == Tail(lines[p].content)
             below == Nested(lines, f, p + 1, ind, None)
             fields == f["fields", p + 1, ind]
             r == ParseItem(lines, f, p, ind)
             ok(x) == ~Failed(x) => /\ x.pos \in p + 1 .. Len(lines) + 1
                                    /\ \A j \in p + 1 .. x.pos - 1 : lines[j].indent > ind
             pair == Joined(Pair(Key(item), Scalar(Rest(item))), fields)
             header == IF Failed(below) THEN Error
                       ELSE Read(Dict(Pair(Front(item), below.val)), below.pos)
  <1>1. Len(lines) \in Nat
    BY TextFacts
  <1>2. ok(below)
    BY NestedSound
  <1>3. ok(fields)
    <2>1. p + 1 \in p + 1 .. Len(lines) + 1
      BY <1>1
    <2>2. SoundFields(lines, fields, p + 1, ind)
      BY <2>1 DEF SoundAt
    <2> HIDE DEF fields
    <2> QED BY <2>2 DEF SoundFields
  <1>4. ok(Error)
    BY ReadFields DEF Failed
  <1>5. ok(pair)
    <2>1. pair.pos = IF Failed(fields) THEN 0 ELSE fields.pos
      BY JoinedPos
    <2> HIDE DEF pair, fields
    <2>2. CASE Failed(fields)
      BY <2>1, <2>2 DEF Failed
    <2>3. CASE ~Failed(fields)
      BY <1>3, <2>1, <2>3
    <2> QED BY <2>2, <2>3
  <1>6. ok(header)
    <2>1. CASE Failed(below)
      BY <1>4, <2>1
    <2>2. CASE ~Failed(below)
      <3>1. header = Read(Dict(Pair(Front(item), below.val)), below.pos)
        BY <2>2
      <3>2. header.pos = below.pos
        BY <3>1, ReadFields
      <3> HIDE DEF header, below
      <3> QED BY <1>2, <2>2, <3>2
    <2> QED BY <2>1, <2>2
  <1>7. \A val : ok(Read(val, p + 1))
    <2>1. TAKE val
    <2> DEFINE x == Read(val, p + 1)
    <2>2. x.pos = p + 1
      BY ReadFields
    <2>3. p + 1 \in p + 1 .. Len(lines) + 1 /\ \A j : j \notin p + 1 .. (p + 1) - 1
      BY <1>1
    <2> HIDE DEF x
    <2>4. ok(x)
      BY <2>2, <2>3
    <2> QED BY <2>4 DEF x
  <1> DEFINE c1 == item \in Marks
             c2 == Last(item) = ":" /\ ~Starts(item, Quotes)
             c3 == /\ HasColon(item) /\ Last(item) # ":"
                   /\ ~Starts(item, Quotes \cup {"[", "{"})
  <1>8. r = CASE c1 -> below
              [] c2 -> header
              [] c3 -> pair
              [] OTHER -> Read(Scalar(item), p + 1)
    BY DEF ParseItem
  <1> HIDE DEF r, below, fields, pair, header, c1, c2, c3, ok
  <1>9. r \in {below, header, pair, Read(Scalar(item), p + 1)}
    BY <1>8
  <1>10. ok(r)
    BY <1>2, <1>5, <1>6, <1>7, <1>9
  <1> QED BY <1>10 DEF ok, r

LEMMA ListSound ==
  ASSUME NEW lines, IsText(lines), NEW p \in Places(lines), NEW ind \in Nat,
         \A k \in p + 1 .. Len(lines) + 1 : SoundAt(lines, k)
  PROVE  SoundList(lines, TheParse(lines)["list", p, ind], p, ind)
  <1> DEFINE f == TheParse(lines)
             r == f["list", p, ind]
             m == ParseItem(lines, f, p, ind)
             t == f["list", m.pos, ind]
             n == Len(lines)
  <1>1. n \in Nat /\ p \in 1 .. n + 1 /\ \A k \in 1 .. n : lines[k].indent \in Nat
    BY TextFacts DEF Places
  <1>2. r = ParseList(lines, f, p, ind)
    BY TheSteps
  <1>3. CASE IsListLine(lines, p, ind)
    <2>1. p \in 1 .. n /\ lines[p].indent = ind /\ IsItem(lines[p].content)
      <3>1. p \in 1 .. n
        BY <1>3, NotEnded DEF IsListLine
      <3> QED BY <1>1, <1>3, <3>1 DEF IsListLine, Ended, Deeper
    <2>2. r = Listed(m, t)
      BY <1>2, <1>3, ParseListIs
    <2>3. ~Failed(m) => /\ m.pos \in p + 1 .. n + 1
                        /\ \A j \in p + 1 .. m.pos - 1 : lines[j].indent > ind
      BY <2>1, ItemSound
    <2> SUFFICES ASSUME ~Failed(r)
                 PROVE  SoundList(lines, r, p, ind)
      BY DEF SoundList
    <2>4. ~Failed(m) /\ ~Failed(t) /\ r.pos = t.pos
      <3>1. r.pos = IF Failed(m) \/ Failed(t) THEN 0 ELSE t.pos
        <4> HIDE DEF r, m, t
        <4> QED BY <2>2, ListedPos
      <3>2. r.pos # 0
        BY DEF Failed
      <3> HIDE DEF r, m, t
      <3> QED BY <3>1, <3>2
    <2>5. SoundList(lines, t, m.pos, ind)
      BY <2>3, <2>4 DEF SoundAt
    <2> HIDE DEF r, t, m, n
    <2>6. /\ t.pos \in m.pos .. n + 1
          /\ \A j \in m.pos .. t.pos - 1 : lines[j].indent >= ind
          /\ \E S : t.val[2] \in Seq(S)
      BY <2>4, <2>5 DEF SoundList, Covers, n
    <2>7. r.val[1] = "list" /\ \E S : r.val[2] \in Seq(S)
      BY <2>2, <2>6, ListedIs
    <2>8. r.pos \in p .. n + 1 /\ p <= n
      BY <1>1, <2>1, <2>3, <2>4, <2>6
    <2>9. ASSUME NEW j \in p .. r.pos - 1
          PROVE  lines[j].indent >= ind
      <3>1. j = p \/ j \in p + 1 .. m.pos - 1 \/ j \in m.pos .. t.pos - 1
        BY <1>1, <2>1, <2>3, <2>4, <2>6
      <3>2. j \in 1 .. n
        BY <1>1, <2>1, <2>8
      <3>3. lines[j].indent \in Nat
        BY <1>1, <3>2
      <3> QED BY <2>1, <2>3, <2>4, <2>6, <3>1, <3>3
    <2> QED BY <2>1, <2>7, <2>8, <2>9 DEF SoundList, Covers, n
  <1>4. CASE ~IsListLine(lines, p, ind)
    <2> SUFFICES ASSUME ~Failed(r)
                 PROVE  SoundList(lines, r, p, ind)
      BY DEF SoundList
    <2> DEFINE e == List(<<>>)
    <2>1. r = Read(e, p)
      <3>1. Failed(Error)
        BY ReadFields DEF Failed
      <3>2. r = IF ~Ended(lines, p, ind) /\ Deeper(lines, p, ind) THEN Error ELSE Read(e, p)
        BY <1>2, <1>4, ParseListIs
      <3> HIDE DEF r, e
      <3> QED BY <3>1, <3>2
    <2>2. r.pos = p /\ r.val = e
      <3> HIDE DEF e, r
      <3> QED BY <2>1, ReadFields
    <2>3. e[1] = "list" /\ e[2] \in Seq({})
      BY EmptySeq DEF List
    <2>4. p \in p .. n + 1 /\ \A j : j \notin p .. p - 1
      <3> HIDE DEF n, r, e
      <3> QED BY <1>1
    <2>5. \E S : e[2] \in Seq(S)
      BY <2>3
    <2> HIDE DEF r, e, n
    <2> QED BY <2>2, <2>3, <2>4, <2>5 DEF SoundList, Covers, n
  <1> QED BY <1>3, <1>4

ListsAt(lines, p) ==
  \A ind \in Nat : SoundList(lines, TheParse(lines)["list", p, ind], p, ind)

LEMMA BlockSound ==
  ASSUME NEW lines, IsText(lines), NEW p \in Places(lines), NEW ind \in Nat,
         MapsAt(lines, p), ListsAt(lines, p)
  PROVE  SoundBlock(lines, TheParse(lines)["block", p, ind], p, ind)
  <1> DEFINE f == TheParse(lines)
             r == f["block", p, ind]
             n == Len(lines)
             content == lines[p].content
  <1>1. n \in Nat /\ p \in 1 .. n + 1 /\ \A k \in 1 .. n : lines[k].indent \in Nat
    BY TextFacts DEF Places
  <1>2. r = ParseBlock(lines, f, p, ind)
    BY TheSteps
  <1>3. CASE Ended(lines, p, ind)
    <2>1. r = Read(None, p)
      BY <1>2, <1>3 DEF ParseBlock
    <2> HIDE DEF r, n
    <2>2. r.pos = p
      BY <2>1, ReadFields
    <2>3. p \in p .. n + 1 /\ \A j : j \notin p .. p - 1
      <3> HIDE DEF content, f
      <3> QED BY <1>1
    <2> QED BY <2>2, <2>3 DEF SoundBlock, Covers, r, n
  <1>4. CASE ~Ended(lines, p, ind) /\ IsItem(content)
    <2>1. r = f["list", p, ind]
      BY <1>2, <1>4 DEF ParseBlock
    <2>2. SoundList(lines, r, p, ind)
      BY <2>1 DEF ListsAt
    <2> QED BY <2>2 DEF SoundBlock, SoundList
  <1>5. CASE ~Ended(lines, p, ind) /\ ~IsItem(content) /\ HasColon(content)
    <2>1. r = f["map", p, ind]
      BY <1>2, <1>5 DEF ParseBlock
    <2>2. SoundMap(lines, r, p, ind)
      BY <2>1 DEF MapsAt
    <2> QED BY <2>2 DEF SoundBlock, SoundMap
  <1>6. CASE ~Ended(lines, p, ind) /\ ~IsItem(content) /\ ~HasColon(content)
    <2>1. r = Read(Scalar(content), p + 1)
      BY <1>2, <1>6 DEF ParseBlock
    <2>3. p \in 1 .. n /\ lines[p].indent >= ind
      <3>1. p \in 1 .. n
        BY <1>6, NotEnded
      <3>2. ~Ended(lines, p, ind) /\ lines[p].indent \in Nat /\ Len(lines) \in Nat
        BY <1>1, <1>6, <3>1
      <3> HIDE DEF r, content, f
      <3> QED BY <3>1, <3>2 DEF Ended
    <2> HIDE DEF r, n
    <2>2. r.pos = p + 1
      BY <2>1, ReadFields
    <2>4. p + 1 \in p .. n + 1 /\ \A j \in p .. (p + 1) - 1 : j = p
      <3> HIDE DEF content, f
      <3> QED BY <1>1, <2>3
    <2> QED BY <2>2, <2>3, <2>4 DEF SoundBlock, Covers, r, n
  <1> QED BY <1>3, <1>4, <1>5, <1>6

LEMMA AllSound ==
  ASSUME NEW lines, IsText(lines), NEW p \in Places(lines)
  PROVE  SoundAt(lines, p)
  <1> DEFINE n == Len(lines) + 1
             T == {m \in 0 .. n - 1 : ~SoundAt(lines, n - m)}
  <1>1. n \in Nat /\ p \in 1 .. n
    BY TextFacts DEF Places
  <1>2. ASSUME NEW k \in 1 .. n, \A j \in k + 1 .. n : SoundAt(lines, j)
        PROVE  SoundAt(lines, k)
    <2>1. k \in Places(lines)
      BY DEF Places
    <2>2. MapsAt(lines, k)
      BY <1>2, <2>1, MapSound DEF MapsAt
    <2>4. ListsAt(lines, k)
      BY <1>2, <2>1, ListSound DEF ListsAt
    <2>3. ASSUME NEW ind \in Nat
          PROVE  /\ SoundMap(lines, TheParse(lines)["map", k, ind], k, ind)
                 /\ SoundList(lines, TheParse(lines)["list", k, ind], k, ind)
                 /\ SoundFields(lines, TheParse(lines)["fields", k, ind], k, ind)
      BY <1>2, <2>1, <2>2, MapSound, ListSound, FieldsSound
    <2> QED BY <2>1, <2>2, <2>3, <2>4, BlockSound DEF SoundAt
  <1> HIDE DEF n
  <1>3. T = {}
    <2> SUFFICES ASSUME T # {}
                 PROVE  FALSE
      OBVIOUS
    <2>1. PICK m \in T : \A j \in T : m <= j
      <3>1. T \in SUBSET Nat
        BY <1>1
      <3> HIDE DEF T
      <3> QED BY <3>1, LeastExists
    <2>2. m \in 0 .. n - 1 /\ n - m \in 1 .. n
      BY <1>1, <2>1
    <2>3. ASSUME NEW j \in (n - m) + 1 .. n
          PROVE  SoundAt(lines, j)
      <3>1. n - j \in 0 .. n - 1 /\ ~(m <= n - j) /\ n - (n - j) = j
        BY <1>1, <2>2
      <3>2. n - j \notin T
        BY <2>1, <3>1
      <3> QED BY <3>1, <3>2
    <2>4. SoundAt(lines, n - m)
      BY <1>2, <2>2, <2>3
    <2> QED BY <2>1, <2>4
  <1>4. n - p \in 0 .. n - 1 /\ n - (n - p) = p
    BY <1>1
  <1> QED BY <1>3, <1>4

-----------------------------------------------------------------------------
\* Every line is found right.

\* What is left of a text when its comments are gone says what its lines mean.
SaysLine(line, i) ==
  LET body == BodyOf(line.content)
  IN  /\ line.indent = text[i].indent
      /\ line.content \in Words
      /\ IsItem(line.content) <=> IsItem(text[i].content)
      /\ FitsShape(line.content, text[i].shape)
      /\ IsKeyed(i) => Key(Body(i)) = Key(body)
      /\ IsField(i) => Scalar(Rest(body)) = text[i].means
      /\ text[i].shape = "scalar" => Scalar(body) = text[i].means

Faithful(lines) ==
  /\ IsText(lines) /\ IsSource(text)
  /\ DOMAIN text = 1 .. Len(text) /\ Len(lines) = Len(text)
  /\ \A i \in 1 .. Len(text) : SaysLine(lines[i], i)

LEMMA ShapeOfLine ==
  ASSUME NEW lines, Faithful(lines), NEW p \in 1 .. Len(lines), ~IsItem(lines[p].content)
  PROVE  /\ HasColon(lines[p].content) <=> IsKeyed(p)
         /\ ~IsKeyed(p) => ~IsHeader(p) /\ Scalar(lines[p].content) = text[p].means
         /\ IsHeader(p) => ~IsField(p) /\ Rest(lines[p].content) = <<>>
         /\ IsField(p) => /\ ~IsHeader(p) /\ Rest(lines[p].content) \notin Marks \cup {<<>>}
                          /\ Scalar(Rest(lines[p].content)) = text[p].means
         /\ ~IsItem(text[p].content)
         /\ IsKeyed(p) => Key(Body(p)) = Key(lines[p].content)
  <1>1. SaysLine(lines[p], p)
    BY DEF Faithful
  <1>2. BodyOf(lines[p].content) = lines[p].content
    BY DEF BodyOf
  <1>3. FitsShape(lines[p].content, text[p].shape)
    BY <1>1 DEF SaysLine
  <1> QED BY <1>1, <1>2, <1>3 DEF SaysLine, FitsShape, IsKeyed, IsHeader, IsField

\* Two keys of a mapping differ.
LEMMA KeysApart ==
  ASSUME NEW lines, Faithful(lines), KeysDiffer,
         NEW i \in 1 .. Len(lines), NEW j \in 1 .. Len(lines), i # j,
         ~IsItem(lines[i].content), ~IsItem(lines[j].content),
         HasColon(lines[i].content), HasColon(lines[j].content), Parent(i) = Parent(j)
  PROVE  Key(lines[i].content) # Key(lines[j].content)
  <1>1. IsKeyed(i) /\ IsKeyed(j) /\ ~IsItem(text[i].content) /\ ~IsItem(text[j].content)
    BY ShapeOfLine
  <1>2. Mapping(i) = Mapping(j)
    BY <1>1 DEF Mapping
  <1>3. i \in DOMAIN text /\ j \in DOMAIN text
    BY DEF Faithful
  <1>4. Key(Body(i)) # Key(Body(j))
    BY <1>1, <1>2, <1>3 DEF KeysDiffer
  <1> QED BY <1>1, <1>4, ShapeOfLine

\* And so do the key behind an item's mark and those below it.
LEMMA FieldApart ==
  ASSUME NEW lines, Faithful(lines), KeysDiffer,
         NEW i \in 1 .. Len(lines), NEW j \in 1 .. Len(lines), i # j,
         IsItem(lines[i].content), ~IsItem(lines[j].content),
         IsField(i), HasColon(lines[j].content), Parent(j) = i
  PROVE  Key(Tail(lines[i].content)) # Key(lines[j].content)
  <1>1. IsKeyed(j) /\ ~IsItem(text[j].content) /\ Key(Body(j)) = Key(lines[j].content)
    BY ShapeOfLine
  <1>2. SaysLine(lines[i], i)
    BY DEF Faithful
  <1>3. IsKeyed(i) /\ IsItem(text[i].content) /\ Key(Body(i)) = Key(Tail(lines[i].content))
    BY <1>2 DEF SaysLine, IsKeyed, BodyOf
  <1>4. Mapping(j) = <<"item", i>>
    <2>1. i # 0
      BY LenProperties DEF Faithful
    <2> QED BY <1>1, <2>1 DEF Mapping
  <1>5. Mapping(i) = <<"item", i>>
    BY <1>3 DEF Mapping
  <1>6. i \in DOMAIN text /\ j \in DOMAIN text
    BY DEF Faithful
  <1>7. Key(Body(i)) # Key(Body(j))
    BY <1>1, <1>3, <1>4, <1>5, <1>6 DEF KeysDiffer
  <1> QED BY <1>1, <1>3, <1>7

\* Line i is found where it belongs.
Right(i) == IF IsHeader(i) THEN Place(i) # Raised ELSE Place(i) = text[i].means
RightIn(p, q) == \A j \in p .. q - 1 : Right(j)

\* v is a mapping that has what d has.
Extends(v, d) ==
  v[1] = "dict" /\ \A key \in DOMAIN d : key \in DOMAIN v[2] /\ v[2][key] = d[key]

\* v is a list that has what l has, from its place x on.
Carries(v, l, x) ==
  /\ v[1] = "list"
  /\ \A k \in 1 .. Len(l) : x + k - 1 \in DOMAIN v[2] /\ v[2][x + k - 1] = l[k]

\* What a parser reads from p on is found right if its answer is where these
\* lines belong.
MapRight(lines, p) ==
  LET r == TheParse(lines)["map", p, lines[p].indent]
  IN  ~IsItem(lines[p].content) /\ ~Failed(r) /\ Extends(Outer(Parent(p)), r.val[2]) =>
        RightIn(p, r.pos)

ListRight(lines, p) ==
  LET r == TheParse(lines)["list", p, lines[p].indent]
  IN  /\ IsItem(lines[p].content) /\ ~Failed(r)
      /\ Carries(Outer(Parent(p)), r.val[2], Index(p))
      => RightIn(p, r.pos)

BlockRight(lines, p) ==
  LET r == TheParse(lines)["block", p, lines[p].indent]
  IN  ~Failed(r) /\ Parent(p) = p - 1 /\ Outer(p - 1) = r.val => RightIn(p, r.pos)

\* The fields of item b that go on at p.
GoesOnAt(lines, b, p) ==
  p <= Len(lines) /\ ~IsItem(lines[p].content) =>
    \A j \in b + 1 .. p - 1 : lines[j].indent >= lines[p].indent

FieldsRight(lines, p) ==
  \A b \in 1 .. p - 1 :
    LET r == TheParse(lines)["fields", p, lines[b].indent]
    IN  /\ IsItem(lines[b].content) /\ IsField(b) /\ GoesOnAt(lines, b, p)
        /\ ~Failed(r) /\ Extends(Holder(b), r.val[2])
        => RightIn(p, r.pos)

RightAt(lines, p) ==
  /\ FieldsRight(lines, p)
  /\ p <= Len(lines) => MapRight(lines, p) /\ ListRight(lines, p) /\ BlockRight(lines, p)

\* The line below is the first that belongs to it.
LEMMA ParentAbove ==
  ASSUME IsSource(text), NEW p \in 1 .. Len(text), p + 1 \in 1 .. Len(text),
         text[p].indent < text[p + 1].indent
  PROVE  Parent(p + 1) = p
  <1> DEFINE k == p + 1
  <1>1. k \in 1 .. Len(text) /\ k - 1 = p
    BY DEF IsSource
  <1>2. text[k - 1].indent < text[k].indent
    BY <1>1
  <1> HIDE DEF k
  <1>3. k <= k /\ \A j \in k .. k - 1 : text[j].indent >= text[k].indent
    BY <1>1 DEF IsSource
  <1>4. Parent(k) = k - 1
    BY <1>1, <1>2, <1>3, ParentOfFirst
  <1> QED BY <1>1, <1>4 DEF k

LEMMA FaithfulFacts ==
  ASSUME NEW lines, Faithful(lines)
  PROVE  /\ IsText(lines) /\ IsSource(text) /\ Len(lines) = Len(text) /\ Len(lines) \in Nat
         /\ \A i \in 1 .. Len(lines) :
              /\ lines[i].indent = text[i].indent /\ lines[i].indent \in Nat
              /\ IsItem(lines[i].content) <=> IsItem(text[i].content)
  BY TextFacts DEF Faithful, SaysLine

\* One line more is right.
LEMMA OneMore ==
  ASSUME NEW p \in Nat, NEW q \in Nat, Right(p), RightIn(p + 1, q)
  PROVE  RightIn(p, q)
  <1>1. ASSUME NEW j \in p .. q - 1
        PROVE  Right(j)
    <2>1. j = p \/ j \in p + 1 .. q - 1
      OBVIOUS
    <2> QED BY <2>1 DEF RightIn
  <1> QED BY <1>1 DEF RightIn

LEMMA OneLine ==
  ASSUME NEW p \in Nat, Right(p)
  PROVE  RightIn(p, p + 1)
  <1>1. \A j \in p .. (p + 1) - 1 : j = p
    OBVIOUS
  <1> QED BY <1>1 DEF RightIn

LEMMA BothRight ==
  ASSUME NEW p \in Nat, NEW q \in Nat, NEW r \in Nat, RightIn(p, q), RightIn(q, r)
  PROVE  RightIn(p, r)
  <1>1. ASSUME NEW j \in p .. r - 1
        PROVE  Right(j)
    <2>1. j \in p .. q - 1 \/ j \in q .. r - 1
      OBVIOUS
    <2> QED BY <2>1 DEF RightIn
  <1> QED BY <1>1 DEF RightIn

\* A header and what is below it.
LEMMA HeaderRight ==
  ASSUME NEW lines, Faithful(lines), NEW p \in 1 .. Len(lines),
         \A k \in p + 1 .. Len(lines) + 1 : RightAt(lines, k),
         NEW r, r = Nested(lines, TheParse(lines), p + 1, lines[p].indent, None),
         ~Failed(r), IsHeader(p), Place(p) = r.val
  PROVE  RightIn(p, r.pos)
  <1>1. /\ IsText(lines) /\ IsSource(text) /\ Len(lines) = Len(text) /\ Len(lines) \in Nat
        /\ \A i \in 1 .. Len(lines) : lines[i].indent = text[i].indent /\ lines[i].indent \in Nat
    BY FaithfulFacts
  <1>2. ~IsField(p) /\ p \in Nat /\ p # 0
    BY DEF IsField, IsHeader
  <1>3. Raised[1] \notin Tags /\ None[1] \in Tags
    BY DEF Raised, None, Tags
  <1>4. CASE Deeper(lines, p + 1, lines[p].indent)
    <2> DEFINE c == lines[p + 1].indent
               b == TheParse(lines)["block", p + 1, c]
    <2>1. r = b
      BY <1>4 DEF Nested
    <2>2. p + 1 \in 1 .. Len(lines) /\ p + 1 \in p + 1 .. Len(lines) + 1 /\ c > lines[p].indent
      BY <1>1, <1>4 DEF Deeper
    <2>3. p + 1 \in Places(lines) /\ c \in Nat
      BY <1>1, <2>2 DEF Places
    <2>4. Tagged(b)
      BY <1>1, <2>3, ParsedTag
    <2>5. BlockRight(lines, p + 1)
      <3>1. RightAt(lines, p + 1)
        BY <2>2
      <3>2. p + 1 <= Len(lines)
        BY <1>1, <2>2
      <3> QED BY <3>1, <3>2 DEF RightAt
    <2>6. ~Failed(b) /\ Parent(p + 1) = p /\ p = (p + 1) - 1 =>
            (Outer(p) = b.val => RightIn(p + 1, b.pos))
      BY <2>5 DEF BlockRight
    <2>7. SoundAt(lines, p + 1)
      BY <1>1, <2>3, AllSound
    <2>8. SoundBlock(lines, b, p + 1, c)
      BY <2>3, <2>7 DEF SoundAt
    <2> HIDE DEF b
    <2>9. b.pos \in Nat
      BY <1>1, <2>1, <2>2, <2>8 DEF SoundBlock, Covers
    <2>10. Parent(p + 1) = p
      <3>1. text[p].indent < text[p + 1].indent
        BY <1>1, <2>2, <2>3
      <3> QED BY <1>1, <2>2, <3>1, ParentAbove
    <2>11. Right(p)
      BY <1>3, <2>1, <2>4 DEF Right, Tagged
    <2>12. RightIn(p + 1, b.pos)
      BY <1>2, <2>1, <2>6, <2>10 DEF Outer
    <2> QED BY <1>2, <2>1, <2>9, <2>11, <2>12, OneMore
  <1>5. CASE ~Deeper(lines, p + 1, lines[p].indent)
    <2>1. r = Read(None, p + 1)
      BY <1>5 DEF Nested
    <2>2. r.val = None /\ r.pos = p + 1
      BY <2>1, ReadFields
    <2>3. Right(p)
      BY <1>3, <2>2 DEF Right
    <2> QED BY <1>2, <2>2, <2>3, OneLine
  <1> QED BY <1>4, <1>5

\* A line of a mapping and those behind it.
LEMMA MapIsRight ==
  ASSUME NEW lines, Faithful(lines), KeysDiffer, NEW p \in 1 .. Len(lines),
         \A k \in p + 1 .. Len(lines) + 1 : RightAt(lines, k)
  PROVE  MapRight(lines, p)
  <1> DEFINE f == TheParse(lines)
             n == Len(lines)
             c == lines[p].indent
             content == lines[p].content
             r == f["map", p, c]
             m == MapRead(lines, f, p, c)
             t == f["map", m.pos, c]
             key == Key(content)
             around == Outer(Parent(p))
  <1>1. /\ IsText(lines) /\ IsSource(text) /\ n = Len(text) /\ n \in Nat
        /\ \A i \in 1 .. n : lines[i].indent = text[i].indent /\ lines[i].indent \in Nat
    BY FaithfulFacts
  <1>2. p \in Places(lines) /\ c \in Nat /\ p \in Nat /\ c = text[p].indent
    BY <1>1 DEF Places
  <1>3. ~IsItem(content) /\ ~Failed(r) =>
          HasColon(content) /\ ~Failed(m) /\ r = Joined(Pair(key, m.val), t)
    <2>1. r = IF Ended(lines, p, c) \/ (~Deeper(lines, p, c) /\ IsItem(content))
              THEN Read(Dict(<<>>), p)
              ELSE IF Deeper(lines, p, c) \/ ~HasColon(content) \/ Failed(m) THEN Error
              ELSE Joined(Pair(key, m.val), t)
      BY <1>1, <1>2, TheSteps, ParseMapIs
    <2>2. ~Ended(lines, p, c) /\ ~Deeper(lines, p, c)
      BY <1>1, <1>2 DEF Ended, Deeper
    <2>3. Failed(Error)
      BY ReadFields DEF Failed
    <2> HIDE DEF r, m, t
    <2> QED BY <2>1, <2>2, <2>3
  <1>4. ~Failed(m) => /\ m.pos \in p + 1 .. n + 1
                      /\ \A j \in p + 1 .. m.pos - 1 : lines[j].indent > c
    <2>1. \A k \in p + 1 .. n + 1 : SoundAt(lines, k)
      BY <1>1, AllSound DEF Places
    <2> QED BY <1>1, <1>2, <2>1, MapReadSound
  <1>5. m.pos \in p + 1 .. n + 1 => SoundMap(lines, t, m.pos, c)
    <2>1. SUFFICES ASSUME m.pos \in p + 1 .. n + 1
                   PROVE  SoundMap(lines, t, m.pos, c)
      OBVIOUS
    <2>2. m.pos \in Places(lines)
      BY <1>1, <2>1 DEF Places
    <2> QED BY <1>1, <1>2, <2>2, AllSound DEF SoundAt
  <1>6. m.pos \in p + 1 .. n /\ lines[m.pos].indent = c =>
          (~IsItem(lines[m.pos].content) /\ ~Failed(t)
             /\ Extends(Outer(Parent(m.pos)), t.val[2]) => RightIn(m.pos, t.pos))
    <2> SUFFICES ASSUME m.pos \in p + 1 .. n, lines[m.pos].indent = c
                 PROVE  ~IsItem(lines[m.pos].content) /\ ~Failed(t)
                          /\ Extends(Outer(Parent(m.pos)), t.val[2]) => RightIn(m.pos, t.pos)
      OBVIOUS
    <2>1. m.pos \in p + 1 .. n + 1 /\ m.pos <= n
      <3> HIDE DEF m
      <3> QED BY <1>1
    <2>2. MapRight(lines, m.pos)
      BY <2>1 DEF RightAt
    <2> QED BY <2>2 DEF MapRight
  <1>7. /\ IsHeader(p) /\ Rest(content) = <<>> =>
             m = Nested(lines, f, p + 1, c, None)
        /\ Rest(content) \notin Marks \cup {<<>>} => m = Read(Scalar(Rest(content)), p + 1)
    BY DEF MapRead
  <1>8. IsHeader(p) /\ m = Nested(lines, f, p + 1, c, None) /\ ~Failed(m) /\ Place(p) = m.val =>
          RightIn(p, m.pos)
    BY HeaderRight
  <1> HIDE DEF f, r, m, t, n, c
  <1> SUFFICES ASSUME ~IsItem(content), ~Failed(r), Extends(around, r.val[2])
               PROVE  RightIn(p, r.pos)
    BY DEF MapRight, r, f, c
  <1>9. /\ ~Failed(t) /\ r.pos = t.pos
        /\ DOMAIN r.val[2] = DOMAIN t.val[2] \cup {key}
        /\ \A k \in DOMAIN r.val[2] :
             r.val[2][k] = IF k \in DOMAIN t.val[2] THEN t.val[2][k] ELSE m.val
    <2> DEFINE e == Pair(key, m.val)
    <2>1. r = Joined(e, t)
      BY <1>3
    <2>2. DOMAIN e = {key} /\ e[key] = m.val
      BY DEF Pair
    <2> HIDE DEF e
    <2> QED BY <2>1, <2>2, JoinedIs
  <1>10. /\ m.pos \in p + 1 .. n + 1
         /\ \A j \in p + 1 .. m.pos - 1 : lines[j].indent > c
    BY <1>3, <1>4
  <1>11. /\ t.pos \in m.pos .. n + 1
         /\ \A j \in m.pos .. t.pos - 1 : lines[j].indent >= c
         /\ t.pos # m.pos => /\ m.pos <= n /\ lines[m.pos].indent = c
                             /\ ~IsItem(lines[m.pos].content)
         /\ KeysIn(lines, t.val[2], m.pos, t.pos)
    BY <1>5, <1>9, <1>10 DEF SoundMap, Covers, n
  <1>12. ASSUME NEW j \in m.pos .. t.pos - 1, lines[j].indent = c
         PROVE  j \in 1 .. n /\ j # p /\ Parent(j) = Parent(p)
    <2>1. j \in 1 .. n /\ p < j
      BY <1>1, <1>2, <1>10, <1>11
    <2>2. text[j].indent = text[p].indent
      BY <1>1, <1>2, <1>12, <2>1 DEF c, n
    <2>3. \A i \in p + 1 .. j - 1 : text[i].indent >= text[p].indent
      <3>1. TAKE i \in p + 1 .. j - 1
      <3>2. i \in 1 .. n /\ (i \in p + 1 .. m.pos - 1 \/ i \in m.pos .. t.pos - 1)
        BY <1>1, <1>2, <1>10, <1>11, <2>1
      <3>3. lines[i].indent > c \/ lines[i].indent >= c
        BY <1>10, <1>11, <3>2
      <3>4. lines[i].indent \in Nat /\ lines[i].indent = text[i].indent
        BY <1>1, <3>2
      <3>5. c = text[p].indent /\ c \in Nat
        BY <1>2
      <3>6. lines[i].indent >= c
        BY <3>3, <3>4, <3>5
      <3> QED BY <3>4, <3>5, <3>6
    <2>4. p \in 1 .. Len(text) /\ j \in 1 .. Len(text) /\ IsSource(text) /\ p < j
      BY <1>1, <2>1 DEF n
    <2>5. Parent(j) = Parent(p)
      BY <2>2, <2>3, <2>4, SameParent
    <2>6. j # p
      BY <1>2, <2>1
    <2> QED BY <2>1, <2>5, <2>6
  <1>13. key \notin DOMAIN t.val[2]
    <2> SUFFICES ASSUME key \in DOMAIN t.val[2]
                 PROVE  FALSE
      OBVIOUS
    <2>1. PICK j \in m.pos .. t.pos - 1 :
            /\ ~IsItem(lines[j].content) /\ HasColon(lines[j].content)
            /\ Key(lines[j].content) = key
            /\ \A i \in m.pos .. j - 1 : lines[i].indent >= lines[j].indent
      BY <1>11 DEF KeysIn
    <2>2. lines[j].indent = c
      <3>1. j \in 1 .. n /\ t.pos # m.pos /\ (j = m.pos \/ m.pos \in m.pos .. j - 1)
        BY <1>1, <1>2, <1>10, <1>11
      <3>2. lines[m.pos].indent = c /\ lines[j].indent >= c /\ lines[j].indent \in Nat
        BY <1>1, <1>11, <3>1
      <3> QED BY <1>2, <2>1, <3>1, <3>2
    <2>3. Key(lines[p].content) # Key(lines[j].content)
      BY <1>3, <1>12, <2>1, <2>2, KeysApart DEF n
    <2> QED BY <2>1, <2>3
  <1>14. around[1] = "dict" /\ key \in DOMAIN around[2] /\ around[2][key] = m.val
    BY <1>9, <1>13 DEF Extends
  <1>15. Place(p) = m.val
    <2>1. Holder(p) = around /\ Place(p) = Entry(Holder(p), Key(Body(p)))
      BY <1>1, <1>3, ShapeOfLine, FoundIs DEF n
    <2>2. Key(Body(p)) = key
      BY <1>3, ShapeOfLine
    <2> QED BY <1>14, <2>1, <2>2 DEF Entry
  <1>16. RightIn(p, m.pos)
    <2>1. IsKeyed(p)
      BY <1>3, ShapeOfLine
    <2>2. CASE IsHeader(p)
      BY <1>3, <1>7, <1>8, <1>15, <2>2, ShapeOfLine
    <2>3. CASE IsField(p)
      <3>1. m = Read(Scalar(Rest(content)), p + 1) /\ Scalar(Rest(content)) = text[p].means
        BY <1>7, <2>3, ShapeOfLine
      <3>2. m.val = text[p].means /\ m.pos = p + 1
        BY <3>1, ReadFields
      <3>3. ~IsHeader(p)
        BY <2>3, ShapeOfLine
      <3>4. Right(p)
        BY <1>15, <3>2, <3>3 DEF Right
      <3> QED BY <1>2, <3>2, <3>4, OneLine
    <2> QED BY <2>1, <2>2, <2>3 DEF IsKeyed
  <1>17. RightIn(m.pos, t.pos)
    <2>1. CASE t.pos = m.pos
      <3>1. \A j : j \notin m.pos .. t.pos - 1
        BY <1>2, <1>10, <2>1
      <3> QED BY <3>1 DEF RightIn
    <2>2. CASE t.pos # m.pos
      <3>1. m.pos \in p + 1 .. n /\ m.pos \in m.pos .. t.pos - 1
        BY <1>1, <1>2, <1>10, <1>11, <2>2
      <3>2. lines[m.pos].indent = c /\ ~IsItem(lines[m.pos].content)
        BY <1>11, <2>2
      <3>3. Parent(m.pos) = Parent(p)
        BY <1>12, <3>1, <3>2
      <3>4. Extends(around, t.val[2])
        BY <1>9 DEF Extends
      <3> QED BY <1>6, <1>9, <3>1, <3>2, <3>3, <3>4
    <2> QED BY <2>1, <2>2
  <1>18. m.pos \in Nat /\ t.pos \in Nat
    BY <1>1, <1>2, <1>10, <1>11
  <1> QED BY <1>2, <1>9, <1>16, <1>17, <1>18, BothRight

LEMMA ParentIn ==
  ASSUME NEW lines, Faithful(lines), NEW b \in 1 .. Len(lines), NEW j \in 1 .. Len(lines), b < j,
         lines[b].indent < lines[j].indent,
         \A i \in b + 1 .. j - 1 : lines[i].indent >= lines[j].indent
  PROVE  Parent(j) = b
  <1> DEFINE n == Len(text)
             k == b + 1
  <1>1. /\ IsSource(text) /\ n = Len(lines) /\ n \in Nat
        /\ \A i \in 1 .. n : lines[i].indent = text[i].indent
    BY FaithfulFacts
  <1>2. k \in 1 .. n /\ j \in 1 .. n /\ k <= j /\ k - 1 = b /\ b \in 1 .. n
    BY <1>1
  <1>3. \A i \in k .. j - 1 : i \in 1 .. n
    BY <1>1
  <1>4. text[b].indent < text[j].indent
    BY <1>1, <1>2
  <1>5. \A i \in k .. j - 1 : text[i].indent >= text[j].indent
    BY <1>1, <1>2, <1>3
  <1> HIDE DEF k
  <1>6. k = 1 \/ text[k - 1].indent < text[j].indent
    BY <1>2, <1>4
  <1> QED BY <1>1, <1>2, <1>5, <1>6, ParentOfFirst DEF n

\* The keys below an item, and those of one more mapping there.
LEMMA FieldsAreRight ==
  ASSUME NEW lines, Faithful(lines), KeysDiffer, NEW p \in Places(lines),
         p <= Len(lines) => MapRight(lines, p),
         \A k \in p + 1 .. Len(lines) + 1 : RightAt(lines, k)
  PROVE  FieldsRight(lines, p)
  <1> SUFFICES ASSUME NEW b \in 1 .. p - 1
               PROVE  LET r == TheParse(lines)["fields", p, lines[b].indent]
                      IN  /\ IsItem(lines[b].content) /\ IsField(b) /\ GoesOnAt(lines, b, p)
                          /\ ~Failed(r) /\ Extends(Holder(b), r.val[2])
                          => RightIn(p, r.pos)
    BY DEF FieldsRight
  <1> DEFINE f == TheParse(lines)
             n == Len(lines)
             ind == lines[b].indent
             c == lines[p].indent
             r == f["fields", p, ind]
             x == f["map", p, c]
             t == f["fields", x.pos, ind]
  <1>1. /\ IsText(lines) /\ IsSource(text) /\ n = Len(text) /\ n \in Nat
        /\ \A i \in 1 .. n : lines[i].indent = text[i].indent /\ lines[i].indent \in Nat
    BY FaithfulFacts
  <1>2. p \in 2 .. n + 1 /\ b \in 1 .. n /\ b < p
    BY <1>1 DEF Places
  <1>3. ind \in Nat
    BY <1>1, <1>2
  <1>4. r = IF ~Deeper(lines, p, ind) \/ IsItem(lines[p].content) THEN Read(Dict(<<>>), p)
            ELSE IF Failed(x) THEN Error ELSE Joined(x.val[2], t)
    <2>1. r = ParseFields(lines, f, p, ind)
      BY <1>1, <1>3, TheSteps
    <2> QED BY <2>1 DEF ParseFields
  <1>5. Failed(Error)
    BY ReadFields DEF Failed
  <1>6. CASE ~Deeper(lines, p, ind) \/ IsItem(lines[p].content)
    <2> DEFINE d == Dict(<<>>)
    <2>1. r = Read(d, p)
      BY <1>4, <1>6
    <2>2. \A j : j \notin p .. p - 1
      BY <1>2
    <2> HIDE DEF r, d
    <2>3. r.pos = p
      BY <2>1, ReadFields
    <2>4. RightIn(p, r.pos)
      BY <2>2, <2>3 DEF RightIn
    <2> QED BY <2>4 DEF r
  <1>7. CASE Deeper(lines, p, ind) /\ ~IsItem(lines[p].content)
    <2>1. p \in 1 .. n /\ c \in Nat /\ c > ind
      BY <1>1, <1>2, <1>7 DEF Deeper
    <2>2. r = IF Failed(x) THEN Error ELSE Joined(x.val[2], t)
      BY <1>4, <1>7
    <2>3. SoundMap(lines, x, p, c)
      BY <1>1, <2>1, AllSound DEF SoundAt
    <2>4. x.pos \in p + 1 .. n + 1 => SoundFields(lines, t, x.pos, ind)
      <3>1. SUFFICES ASSUME x.pos \in p + 1 .. n + 1
                     PROVE  SoundFields(lines, t, x.pos, ind)
        OBVIOUS
      <3>2. x.pos \in Places(lines)
        <4> HIDE DEF x
        <4> QED BY <1>1, <2>1, <3>1 DEF Places
      <3> QED BY <1>1, <1>3, <3>2, AllSound DEF SoundAt
    <2>5. ~Failed(x) /\ Extends(Outer(Parent(p)), x.val[2]) => RightIn(p, x.pos)
      <3>1. p <= n
        BY <1>1, <2>1
      <3>2. MapRight(lines, p)
        BY <3>1
      <3> QED BY <1>7, <3>2 DEF MapRight
    <2>6. x.pos \in p + 1 .. n + 1 =>
            (/\ IsItem(lines[b].content) /\ IsField(b) /\ GoesOnAt(lines, b, x.pos)
             /\ ~Failed(t) /\ Extends(Holder(b), t.val[2])
             => RightIn(x.pos, t.pos))
      <3> SUFFICES ASSUME x.pos \in p + 1 .. n + 1
                   PROVE  /\ IsItem(lines[b].content) /\ IsField(b) /\ GoesOnAt(lines, b, x.pos)
                          /\ ~Failed(t) /\ Extends(Holder(b), t.val[2])
                          => RightIn(x.pos, t.pos)
        OBVIOUS
      <3>1. FieldsRight(lines, x.pos)
        BY DEF RightAt
      <3>2. b \in 1 .. x.pos - 1
        <4> HIDE DEF x
        <4> QED BY <1>1, <1>2
      <3> QED BY <3>1, <3>2 DEF FieldsRight
    <2>7. ind = lines[b].indent /\ c = lines[p].indent
      OBVIOUS
    <2> HIDE DEF f, r, x, t, n, ind, c
    <2> SUFFICES ASSUME IsItem(lines[b].content), IsField(b), GoesOnAt(lines, b, p),
                        ~Failed(r), Extends(Holder(b), r.val[2])
                 PROVE  RightIn(p, r.pos)
      BY DEF r, ind, f
    <2>8. ~Failed(x) /\ r = Joined(x.val[2], t)
      BY <1>5, <2>2
    <2>9. /\ ~Failed(t) /\ r.pos = t.pos
          /\ DOMAIN r.val[2] = DOMAIN t.val[2] \cup DOMAIN x.val[2]
          /\ \A k \in DOMAIN r.val[2] :
               r.val[2][k] = IF k \in DOMAIN t.val[2] THEN t.val[2][k] ELSE x.val[2][k]
      BY <2>8, JoinedIs
    <2>10. /\ x.pos \in p .. n + 1
           /\ \A j \in p .. x.pos - 1 : lines[j].indent >= c
           /\ x.pos <= n /\ lines[x.pos].indent >= c => IsItem(lines[x.pos].content)
           /\ KeysIn(lines, x.val[2], p, x.pos)
      BY <2>3, <2>8 DEF SoundMap, Covers, n
    <2>11. x.pos \in p + 1 .. n + 1
      <3>1. x.pos # p
        BY <1>1, <1>7, <2>1, <2>7, <2>10
      <3> QED BY <1>1, <2>1, <2>10, <3>1
    <2>12. /\ t.pos \in x.pos .. n + 1
           /\ \A j \in x.pos .. t.pos - 1 : lines[j].indent > ind
           /\ t.pos # x.pos => Deeper(lines, x.pos, ind) /\ ~IsItem(lines[x.pos].content)
           /\ KeysIn(lines, t.val[2], x.pos, t.pos)
      BY <2>4, <2>9, <2>11 DEF SoundFields, n
    <2>13. \A j \in b + 1 .. x.pos - 1 : lines[j].indent >= c
      <3>1. TAKE j \in b + 1 .. x.pos - 1
      <3>2. j \in b + 1 .. p - 1 \/ j \in p .. x.pos - 1
        BY <1>1, <1>2, <2>11
      <3>3. p <= Len(lines)
        BY <1>1, <2>1 DEF n
      <3> QED BY <1>7, <2>7, <2>10, <3>2, <3>3 DEF GoesOnAt
    <2>14. GoesOnAt(lines, b, x.pos)
      <3> SUFFICES ASSUME x.pos <= n, ~IsItem(lines[x.pos].content),
                          NEW j \in b + 1 .. x.pos - 1
                   PROVE  lines[j].indent >= lines[x.pos].indent
        BY DEF GoesOnAt, n
      <3>1. x.pos \in 1 .. n /\ j \in 1 .. n
        BY <1>1, <1>2, <2>11
      <3>2. ~(lines[x.pos].indent >= c) /\ lines[x.pos].indent \in Nat
        BY <1>1, <2>10, <3>1
      <3>3. lines[j].indent \in Nat /\ lines[j].indent >= c
        BY <1>1, <2>13, <3>1
      <3> QED BY <2>1, <3>2, <3>3
    <2>15. ASSUME NEW j \in p .. x.pos - 1,
                  \A i \in p .. j - 1 : lines[i].indent >= lines[j].indent
           PROVE  j \in 1 .. n /\ Parent(j) = b
      <3>1. j \in 1 .. n /\ b < j /\ (j = p \/ p \in p .. j - 1)
        BY <1>1, <1>2, <2>1, <2>11
      <3>2. lines[j].indent \in Nat /\ lines[j].indent >= c /\ lines[j].indent <= c
        <4>1. lines[j].indent \in Nat /\ lines[j].indent >= c
          BY <1>1, <2>10, <3>1
        <4>2. CASE j = p
          BY <2>1, <2>7, <4>1, <4>2
        <4>3. CASE p \in p .. j - 1
          <5>1. lines[p].indent >= lines[j].indent
            BY <2>15, <4>3
          <5> QED BY <2>1, <2>7, <4>1, <5>1
        <4> QED BY <3>1, <4>1, <4>2, <4>3
      <3>3. lines[b].indent < lines[j].indent
        BY <1>3, <2>1, <2>7, <3>2
      <3>4. ASSUME NEW i \in b + 1 .. j - 1
            PROVE  lines[i].indent >= lines[j].indent
        <4>1. i \in b + 1 .. x.pos - 1 /\ i \in 1 .. n
          BY <1>1, <1>2, <2>11, <3>1
        <4>2. lines[i].indent \in Nat /\ lines[i].indent >= c
          BY <1>1, <2>13, <4>1
        <4> QED BY <2>1, <3>2, <4>2
      <3> QED BY <1>2, <3>1, <3>3, <3>4, ParentIn DEF n
    <2>16. ASSUME NEW j \in x.pos .. t.pos - 1,
                  \A i \in x.pos .. j - 1 : lines[i].indent >= lines[j].indent
           PROVE  j \in 1 .. n /\ Parent(j) = b
      <3>1. /\ j \in 1 .. n /\ b < j /\ (j = x.pos \/ x.pos \in x.pos .. j - 1)
            /\ x.pos \in 1 .. n /\ t.pos # x.pos
        <4>1. n \in Nat /\ p \in 1 .. n /\ b \in 1 .. n /\ b < p
          BY <1>1, <1>2, <2>1
        <4>2. /\ x.pos \in p + 1 .. n + 1 /\ t.pos \in x.pos .. n + 1
              /\ j \in x.pos .. t.pos - 1
          BY <2>11, <2>12
        <4>3. x.pos \in Nat /\ t.pos \in Nat /\ x.pos <= j /\ j < t.pos /\ j \in Nat
          BY <4>1, <4>2
        <4> QED BY <4>1, <4>2, <4>3
      <3>2. lines[x.pos].indent \in Nat /\ lines[x.pos].indent < c
        <4>1. ~(lines[x.pos].indent >= c)
          BY <1>1, <2>10, <2>12, <3>1
        <4>2. lines[x.pos].indent \in Nat
          BY <1>1, <3>1
        <4> QED BY <2>1, <4>1, <4>2
      <3>3. lines[j].indent \in Nat /\ lines[j].indent > ind
        BY <1>1, <2>12, <3>1
      <3>4. lines[j].indent <= lines[x.pos].indent
        <4>1. CASE j = x.pos
          BY <3>2, <4>1
        <4>2. CASE x.pos \in x.pos .. j - 1
          <5>1. lines[x.pos].indent >= lines[j].indent
            BY <2>16, <4>2
          <5> QED BY <3>2, <3>3, <5>1
        <4> QED BY <3>1, <4>1, <4>2
      <3>5. lines[b].indent < lines[j].indent
        BY <1>3, <2>7, <3>3
      <3>6. ASSUME NEW i \in b + 1 .. j - 1
            PROVE  lines[i].indent >= lines[j].indent
        <4>1. (i \in b + 1 .. x.pos - 1 \/ i \in x.pos .. j - 1) /\ i \in 1 .. n
          BY <1>1, <1>2, <2>11, <3>1
        <4>2. CASE i \in b + 1 .. x.pos - 1
          <5>1. lines[i].indent \in Nat /\ lines[i].indent >= c
            BY <1>1, <2>13, <4>1, <4>2
          <5> QED BY <2>1, <3>2, <3>3, <3>4, <5>1
        <4> QED BY <2>16, <4>1, <4>2
      <3> QED BY <1>2, <3>1, <3>5, <3>6, ParentIn DEF n
    <2>17. ASSUME NEW k \in DOMAIN x.val[2]
           PROVE  k \notin DOMAIN t.val[2]
      <3> SUFFICES ASSUME k \in DOMAIN t.val[2]
                   PROVE  FALSE
        OBVIOUS
      <3>1. PICK i \in p .. x.pos - 1 :
              /\ ~IsItem(lines[i].content) /\ HasColon(lines[i].content)
              /\ Key(lines[i].content) = k
              /\ \A l \in p .. i - 1 : lines[l].indent >= lines[i].indent
        BY <2>10 DEF KeysIn
      <3>2. PICK j \in x.pos .. t.pos - 1 :
              /\ ~IsItem(lines[j].content) /\ HasColon(lines[j].content)
              /\ Key(lines[j].content) = k
              /\ \A l \in x.pos .. j - 1 : lines[l].indent >= lines[j].indent
        BY <2>12 DEF KeysIn
      <3>3. i \in 1 .. n /\ Parent(i) = b
        BY <2>15, <3>1
      <3>4. j \in 1 .. n /\ Parent(j) = b
        BY <2>16, <3>2
      <3>5. i # j
        BY <1>1, <1>2, <2>11, <2>12
      <3> QED BY <3>1, <3>2, <3>3, <3>4, <3>5, KeysApart DEF n
    <2>18. Outer(Parent(p)) = Holder(b)
      <3>1. p \in p .. x.pos - 1 /\ \A i \in p .. p - 1 : lines[i].indent >= lines[p].indent
        BY <1>1, <2>1, <2>11
      <3>2. Parent(p) = b
        BY <2>15, <3>1
      <3>3. b # 0
        BY <1>2
      <3> QED BY <3>2, <3>3 DEF Outer
    <2>19. RightIn(p, x.pos)
      <3>1. Extends(Holder(b), x.val[2])
        BY <2>9, <2>17 DEF Extends
      <3> QED BY <2>5, <2>8, <2>18, <3>1
    <2>20. RightIn(x.pos, t.pos)
      <3>1. Extends(Holder(b), t.val[2])
        BY <2>9 DEF Extends
      <3> QED BY <2>6, <2>9, <2>11, <2>14, <3>1
    <2>21. p \in Nat /\ x.pos \in Nat /\ t.pos \in Nat
      BY <1>1, <2>1, <2>11, <2>12
    <2> QED BY <2>9, <2>19, <2>20, <2>21, BothRight
  <1> QED BY <1>6, <1>7

\* How an item is read, and what it means.
LEMMA ItemIs ==
  ASSUME NEW lines, Faithful(lines), NEW p \in 1 .. Len(lines), IsItem(lines[p].content),
         NEW f, NEW ind
  PROVE  LET item == Tail(lines[p].content)
             below == Nested(lines, f, p + 1, ind, None)
             r == ParseItem(lines, f, p, ind)
         IN  /\ IsHeader(p) =>
                  /\ ~IsField(p) /\ Key(Body(p)) = Front(item)
                  /\ ~Failed(r) =>
                       /\ ~Failed(below)
                       /\ r = Read(Dict(Pair(Front(item), below.val)), below.pos)
             /\ IsField(p) =>
                  /\ ~IsHeader(p) /\ Key(Body(p)) = Key(item)
                  /\ r = Joined(Pair(Key(item), Scalar(Rest(item))), f["fields", p + 1, ind])
                  /\ Scalar(Rest(item)) = text[p].means
             /\ ~IsKeyed(p) =>
                  /\ ~IsHeader(p) /\ r = Read(Scalar(item), p + 1)
                  /\ Scalar(item) = text[p].means
  <1> DEFINE content == lines[p].content
             item == Tail(content)
             below == Nested(lines, f, p + 1, ind, None)
             r == ParseItem(lines, f, p, ind)
             header == Last(item) = ":" /\ ~Starts(item, Quotes)
             field == /\ HasColon(item) /\ Last(item) # ":"
                      /\ ~Starts(item, Quotes \cup {"[", "{"})
             read == IF Failed(below) THEN Error
                     ELSE Read(Dict(Pair(Front(item), below.val)), below.pos)
             joined == Joined(Pair(Key(item), Scalar(Rest(item))), f["fields", p + 1, ind])
             leaf == Read(Scalar(item), p + 1)
  <1>1. SaysLine(lines[p], p)
    BY DEF Faithful
  <1>2. item = BodyOf(content)
    BY DEF BodyOf
  <1>3. /\ content \in Words /\ FitsShape(content, text[p].shape)
        /\ IsKeyed(p) => Key(Body(p)) = Key(item)
        /\ IsField(p) => Scalar(Rest(item)) = text[p].means
        /\ text[p].shape = "scalar" => Scalar(item) = text[p].means
    BY <1>1, <1>2 DEF SaysLine
  <1>4. item \in Words
    BY <1>2, <1>3, BodyIsWords
  <1>5. r = CASE item \in Marks -> below
              [] header -> read
              [] field -> joined
              [] OTHER -> leaf
    BY DEF ParseItem
  <1> HIDE DEF r, below, read, joined, leaf
  <1>6. CASE IsHeader(p)
    <2>1. /\ item \notin Marks /\ HasColon(item) /\ Rest(item) = <<>> /\ header /\ ~IsField(p)
      BY <1>2, <1>3, <1>6 DEF FitsShape, IsHeader, IsField
    <2>2. r = read
      BY <1>5, <2>1
    <2>3. Key(item) = Front(item)
      BY <1>4, <2>1, HeaderKey
    <2>4. Failed(Error)
      BY ReadFields DEF Failed
    <2>5. ~Failed(r) => /\ ~Failed(below)
                        /\ r = Read(Dict(Pair(Front(item), below.val)), below.pos)
      BY <2>2, <2>4 DEF read
    <2>6. Key(Body(p)) = Front(item) /\ IsKeyed(p)
      BY <1>3, <1>6, <2>3 DEF IsKeyed
    <2> QED BY <1>6, <2>1, <2>5, <2>6 DEF r, below
  <1>7. CASE IsField(p)
    <2>1. item \notin Marks /\ field /\ ~IsHeader(p) /\ IsKeyed(p)
      BY <1>2, <1>3, <1>7 DEF FitsShape, IsHeader, IsField, IsKeyed
    <2>2. ~header
      BY <2>1
    <2>3. r = joined
      BY <1>5, <2>1, <2>2
    <2> QED BY <1>3, <1>7, <2>1, <2>3 DEF r, joined
  <1>8. CASE ~IsKeyed(p)
    <2>1. ~IsHeader(p) /\ ~IsField(p)
      BY <1>8 DEF IsKeyed
    <2>2. /\ item # <<>> /\ item \notin Marks /\ text[p].shape = "scalar"
          /\ HasColon(item) => Starts(item, Quotes)
      BY <1>2, <1>3, <2>1 DEF FitsShape, IsHeader, IsField
    <2>3. ~header
      BY <1>4, <2>2, LastIsThere
    <2>4. Starts(item, Quotes) => Starts(item, Quotes \cup {"[", "{"})
      BY DEF Starts
    <2>5. ~field
      BY <2>2, <2>4
    <2>6. r = leaf
      BY <1>5, <2>2, <2>3, <2>5
    <2> QED BY <1>3, <1>8, <2>1, <2>2, <2>6 DEF r, leaf
  <1> QED BY <1>6, <1>7, <1>8 DEF IsKeyed

\* An item, when its value is what line p holds.
LEMMA ItemRight ==
  ASSUME NEW lines, Faithful(lines), KeysDiffer, NEW p \in 1 .. Len(lines),
         IsItem(lines[p].content),
         \A k \in p + 1 .. Len(lines) + 1 : RightAt(lines, k),
         NEW r, r = ParseItem(lines, TheParse(lines), p, lines[p].indent),
         ~Failed(r), Holder(p) = r.val
  PROVE  RightIn(p, r.pos)
  <1> DEFINE f == TheParse(lines)
             n == Len(lines)
             ind == lines[p].indent
             item == Tail(lines[p].content)
             below == Nested(lines, f, p + 1, ind, None)
             x == f["fields", p + 1, ind]
             means == Scalar(Rest(item))
  <1>1. /\ IsText(lines) /\ IsSource(text) /\ n = Len(text) /\ n \in Nat
        /\ \A i \in 1 .. n : lines[i].indent \in Nat
    BY FaithfulFacts
  <1>2. p \in 1 .. n /\ p \in Nat /\ p + 1 \in Places(lines) /\ ind \in Nat
    BY <1>1 DEF Places
  <1>3. Place(p) = IF IsKeyed(p) THEN Entry(r.val, Key(Body(p))) ELSE r.val
    BY <1>1, FoundIs
  <1>4. CASE IsHeader(p)
    <2>1. /\ ~Failed(below) /\ r = Read(Dict(Pair(Front(item), below.val)), below.pos)
          /\ Key(Body(p)) = Front(item)
      BY <1>4, ItemIs
    <2>2. Place(p) = below.val /\ r.pos = below.pos
      <3> DEFINE d == Pair(Front(item), below.val)
                 k == Front(item)
                 v == below.val
      <3>1. k \in DOMAIN d /\ d[k] = v
        BY DEF Pair
      <3>2. r = Read(Dict(d), below.pos)
        BY <2>1
      <3>3. Key(Body(p)) = k /\ IsKeyed(p)
        BY <1>4, <2>1 DEF IsKeyed
      <3> HIDE DEF d, k, v, below
      <3>4. r.val = Dict(d) /\ r.pos = below.pos
        BY <3>2, ReadFields
      <3>5. r.val[1] = "dict" /\ r.val[2] = d
        BY <3>4 DEF Dict
      <3>6. Entry(r.val, k) = v
        BY <3>1, <3>5 DEF Entry
      <3> QED BY <1>3, <3>3, <3>4, <3>6 DEF v
    <2>3. RightIn(p, below.pos)
      BY <1>4, <2>1, <2>2, HeaderRight
    <2> QED BY <2>2, <2>3
  <1>5. CASE IsField(p)
    <2>1. /\ r = Joined(Pair(Key(item), means), x) /\ ~IsHeader(p)
          /\ Key(Body(p)) = Key(item) /\ means = text[p].means
      BY <1>5, ItemIs
    <2>2. SoundFields(lines, x, p + 1, ind)
      BY <1>1, <1>2, AllSound DEF SoundAt
    <2>3. FieldsRight(lines, p + 1)
      <3>1. p + 1 \in p + 1 .. Len(lines) + 1
        BY <1>1
      <3>2. RightAt(lines, p + 1)
        BY <3>1
      <3> QED BY <3>2 DEF RightAt
    <2>4. GoesOnAt(lines, p, p + 1)
      <3>1. \A j : j \notin p + 1 .. (p + 1) - 1
        BY <1>2
      <3> QED BY <3>1 DEF GoesOnAt
    <2>5. ~Failed(x) /\ Extends(Holder(p), x.val[2]) => RightIn(p + 1, x.pos)
      <3>1. p \in 1 .. (p + 1) - 1
        BY <1>2
      <3> QED BY <1>5, <2>3, <2>4, <3>1 DEF FieldsRight
    <2> DEFINE key == Key(item)
    <2> HIDE DEF f, x, means, ind, n
    <2>6. /\ ~Failed(x) /\ r.pos = x.pos /\ r.val[1] = "dict"
          /\ DOMAIN r.val[2] = DOMAIN x.val[2] \cup {key}
          /\ \A k \in DOMAIN r.val[2] :
               r.val[2][k] = IF k \in DOMAIN x.val[2] THEN x.val[2][k] ELSE means
      <3> DEFINE e == Pair(key, means)
      <3>1. r = Joined(e, x)
        BY <2>1
      <3>2. DOMAIN e = {key} /\ e[key] = means
        BY DEF Pair
      <3> HIDE DEF e
      <3> QED BY <3>1, <3>2, JoinedIs
    <2>7. /\ x.pos \in p + 1 .. n + 1
          /\ \A j \in p + 1 .. x.pos - 1 : lines[j].indent > ind
          /\ KeysIn(lines, x.val[2], p + 1, x.pos)
      BY <2>2, <2>6 DEF SoundFields, n
    <2>8. key \notin DOMAIN x.val[2]
      <3> SUFFICES ASSUME key \in DOMAIN x.val[2]
                   PROVE  FALSE
        OBVIOUS
      <3>1. PICK j \in p + 1 .. x.pos - 1 :
              /\ ~IsItem(lines[j].content) /\ HasColon(lines[j].content)
              /\ Key(lines[j].content) = key
              /\ \A l \in p + 1 .. j - 1 : lines[l].indent >= lines[j].indent
        BY <2>7 DEF KeysIn
      <3>2. j \in 1 .. n /\ p < j /\ p # j
        BY <1>1, <1>2, <2>7
      <3>3. lines[j].indent \in Nat /\ lines[j].indent > ind
        BY <1>1, <2>7, <3>2
      <3>4. lines[p].indent < lines[j].indent
        BY <1>2, <3>3 DEF ind
      <3>5. Parent(j) = p
        BY <3>1, <3>2, <3>4, ParentIn DEF n
      <3>6. Key(Tail(lines[p].content)) # Key(lines[j].content)
        BY <1>5, <3>1, <3>2, <3>5, FieldApart DEF n
      <3> QED BY <3>1, <3>6
    <2>9. Place(p) = means
      <3>1. Entry(r.val, key) = means
        BY <2>6, <2>8 DEF Entry
      <3> QED BY <1>3, <1>5, <2>1, <3>1 DEF IsKeyed
    <2>10. Right(p)
      BY <2>1, <2>9 DEF Right
    <2>11. Extends(Holder(p), x.val[2])
      BY <2>6 DEF Extends
    <2>12. RightIn(p + 1, x.pos) /\ x.pos \in Nat
      BY <1>1, <1>2, <2>5, <2>6, <2>7, <2>11
    <2> QED BY <1>2, <2>6, <2>10, <2>12, OneMore
  <1>6. CASE ~IsKeyed(p)
    <2>1. r = Read(Scalar(item), p + 1) /\ Scalar(item) = text[p].means /\ ~IsHeader(p)
      BY <1>6, ItemIs
    <2>2. r.val = text[p].means /\ r.pos = p + 1
      BY <2>1, ReadFields
    <2>3. Right(p)
      BY <1>3, <1>6, <2>1, <2>2 DEF Right
    <2> QED BY <1>2, <2>2, <2>3, OneLine
  <1> QED BY <1>4, <1>5, <1>6 DEF IsKeyed

\* The items of a list are counted from 1 on.
ItemsUpTo(i) == {j \in Siblings(i) : j <= i /\ IsItem(text[j].content)}

LEMMA IndexIs ==
  ASSUME NEW i
  PROVE  Index(i) = Cardinality(ItemsUpTo(i))
  BY DEF Index, ItemsUpTo

LEMMA ItemsFinite ==
  ASSUME NEW lines, Faithful(lines), NEW p \in 1 .. Len(lines), IsItem(lines[p].content)
  PROVE  /\ IsFiniteSet(ItemsUpTo(p)) /\ Index(p) \in Nat \ {0}
         /\ ItemsUpTo(p) = {j \in 1 .. p : Parent(j) = Parent(p) /\ IsItem(lines[j].content)}
  <1> DEFINE n == Len(lines)
             T == {j \in 1 .. p : Parent(j) = Parent(p) /\ IsItem(lines[j].content)}
  <1>1. /\ n \in Nat /\ n = Len(text) /\ DOMAIN text = 1 .. n
        /\ \A i \in 1 .. n : IsItem(lines[i].content) <=> IsItem(text[i].content)
    BY FaithfulFacts DEF Faithful
  <1>2. ItemsUpTo(p) = T
    BY <1>1 DEF ItemsUpTo, Siblings
  <1>3. IsFiniteSet(1 .. p) /\ T \in SUBSET (1 .. p)
    BY <1>1, FS_Interval
  <1>4. IsFiniteSet(T)
    BY <1>3, FS_Subset
  <1>5. p \in T
    BY <1>1
  <1> HIDE DEF T
  <1>6. Cardinality(T) \in Nat /\ Cardinality(T) # 0
    BY <1>4, <1>5, FS_CardinalityType, FS_EmptySet
  <1> QED BY <1>2, <1>4, <1>6, IndexIs DEF T

LEMMA IndexFirst ==
  ASSUME NEW lines, Faithful(lines), NEW p \in 1 .. Len(lines), IsItem(lines[p].content),
         Parent(p) = p - 1
  PROVE  Index(p) = 1
  <1>1. IsSource(text) /\ Len(text) = Len(lines) /\ Len(lines) \in Nat
    BY FaithfulFacts
  <1>2. ASSUME NEW j \in 1 .. p, Parent(j) = Parent(p)
        PROVE  j = p
    <2>1. j \in 1 .. Len(text)
      BY <1>1
    <2>2. Parent(j) \in 0 .. j - 1
      BY <1>1, <2>1, ParentFacts
    <2> QED BY <1>2, <2>2
  <1>3. p \in 1 .. p
    BY <1>1
  <1>4. ItemsUpTo(p) = {p}
    BY <1>2, <1>3, ItemsFinite
  <1> QED BY <1>4, IndexIs, FS_Singleton

LEMMA IndexNext ==
  ASSUME NEW lines, Faithful(lines), NEW p \in 1 .. Len(lines), NEW q \in 1 .. Len(lines),
         p < q, IsItem(lines[p].content), IsItem(lines[q].content),
         lines[q].indent = lines[p].indent,
         \A j \in p + 1 .. q - 1 : lines[j].indent > lines[p].indent
  PROVE  Parent(q) = Parent(p) /\ Index(q) = Index(p) + 1
  <1> DEFINE n == Len(lines)
  <1>1. /\ IsSource(text) /\ n \in Nat /\ n = Len(text)
        /\ \A i \in 1 .. n : lines[i].indent = text[i].indent /\ lines[i].indent \in Nat
    BY FaithfulFacts
  <1>2. p \in 1 .. n /\ q \in 1 .. n
    OBVIOUS
  <1> HIDE DEF n
  <1>3. \A j \in p + 1 .. q - 1 : j \in 1 .. n /\ text[j].indent > text[p].indent
    <2>1. TAKE j \in p + 1 .. q - 1
    <2>2. j \in 1 .. n
      BY <1>1, <1>2
    <2> QED BY <1>1, <1>2, <2>2
  <1>4. Parent(q) = Parent(p)
    <2>1. text[q].indent = text[p].indent
      BY <1>1, <1>2
    <2>2. \A j \in p + 1 .. q - 1 : text[j].indent >= text[p].indent
      <3>1. TAKE j \in p + 1 .. q - 1
      <3>2. text[j].indent \in Nat /\ text[p].indent \in Nat
        BY <1>1, <1>2, <1>3
      <3> QED BY <1>3, <3>2
    <2> QED BY <1>1, <1>2, <2>1, <2>2, SameParent
  <1>5. ASSUME NEW j \in p + 1 .. q - 1
        PROVE  Parent(j) # Parent(p)
    <2>1. j \in 1 .. n /\ text[p].indent \in Nat /\ text[j].indent \in Nat
      BY <1>1, <1>2, <1>3
    <2>2. p \in 1 .. j - 1 /\ text[p].indent < text[j].indent
      BY <1>2, <1>3, <2>1
    <2>3. p <= Parent(j) /\ Parent(j) \in 0 .. j - 1
      BY <1>1, <2>1, <2>2, ParentFacts
    <2>4. Parent(p) \in 0 .. p - 1
      BY <1>1, <1>2, ParentFacts
    <2> QED BY <1>2, <2>3, <2>4
  <1>6. /\ IsFiniteSet(ItemsUpTo(p)) /\ Index(p) \in Nat
        /\ ItemsUpTo(p) = {j \in 1 .. p : Parent(j) = Parent(p) /\ IsItem(lines[j].content)}
        /\ ItemsUpTo(q) = {j \in 1 .. q : Parent(j) = Parent(q) /\ IsItem(lines[j].content)}
    BY ItemsFinite
  <1>7. ItemsUpTo(q) = ItemsUpTo(p) \cup {q}
    <2>1. \A j : j \in 1 .. q <=> (j \in 1 .. p \/ j \in p + 1 .. q - 1 \/ j = q)
      BY <1>1, <1>2
    <2> QED BY <1>4, <1>5, <1>6, <2>1
  <1>8. q \notin ItemsUpTo(p)
    BY <1>1, <1>2, <1>6
  <1>9. Cardinality(ItemsUpTo(q)) = Cardinality(ItemsUpTo(p)) + 1
    BY <1>6, <1>7, <1>8, FS_AddElement
  <1> QED BY <1>4, <1>9, IndexIs

\* An item of a list and those behind it.
LEMMA ListIsRight ==
  ASSUME NEW lines, Faithful(lines), KeysDiffer, NEW p \in 1 .. Len(lines),
         \A k \in p + 1 .. Len(lines) + 1 : RightAt(lines, k)
  PROVE  ListRight(lines, p)
  <1> DEFINE f == TheParse(lines)
             n == Len(lines)
             c == lines[p].indent
             r == f["list", p, c]
             m == ParseItem(lines, f, p, c)
             t == f["list", m.pos, c]
             around == Outer(Parent(p))
             x == Index(p)
  <1>1. /\ IsText(lines) /\ IsSource(text) /\ n = Len(text) /\ n \in Nat
        /\ \A i \in 1 .. n :
             /\ lines[i].indent \in Nat
             /\ IsItem(lines[i].content) <=> IsItem(text[i].content)
    BY FaithfulFacts
  <1>2. p \in Places(lines) /\ c \in Nat /\ p \in Nat /\ c = lines[p].indent /\ p \in 1 .. n
    BY <1>1 DEF Places
  <1>3. IsItem(lines[p].content) => r = Listed(m, t)
    <2>1. ~Ended(lines, p, c) /\ ~Deeper(lines, p, c)
      BY <1>1, <1>2 DEF Ended, Deeper
    <2>2. r = ParseList(lines, f, p, c)
      BY <1>1, <1>2, TheSteps
    <2> QED BY <2>1, <2>2, ParseListIs DEF IsListLine
  <1>4. ~Failed(m) => /\ m.pos \in p + 1 .. n + 1
                      /\ \A j \in p + 1 .. m.pos - 1 : lines[j].indent > c
    <2>1. \A k \in p + 1 .. n + 1 : SoundAt(lines, k)
      BY <1>1, AllSound DEF Places
    <2> QED BY <1>1, <1>2, <2>1, ItemSound
  <1>5. m.pos \in p + 1 .. n + 1 => SoundList(lines, t, m.pos, c)
    <2>1. SUFFICES ASSUME m.pos \in p + 1 .. n + 1
                   PROVE  SoundList(lines, t, m.pos, c)
      OBVIOUS
    <2>2. m.pos \in Places(lines)
      <3> HIDE DEF m
      <3> QED BY <1>1, <2>1 DEF Places
    <2> QED BY <1>1, <1>2, <2>2, AllSound DEF SoundAt
  <1>6. m.pos \in p + 1 .. n /\ lines[m.pos].indent = c =>
          (IsItem(lines[m.pos].content) /\ ~Failed(t)
             /\ Carries(Outer(Parent(m.pos)), t.val[2], Index(m.pos)) => RightIn(m.pos, t.pos))
    <2> SUFFICES ASSUME m.pos \in p + 1 .. n, lines[m.pos].indent = c
                 PROVE  IsItem(lines[m.pos].content) /\ ~Failed(t)
                          /\ Carries(Outer(Parent(m.pos)), t.val[2], Index(m.pos))
                          => RightIn(m.pos, t.pos)
      OBVIOUS
    <2>1. m.pos \in p + 1 .. n + 1 /\ m.pos <= n
      <3> HIDE DEF m
      <3> QED BY <1>1
    <2>2. ListRight(lines, m.pos)
      BY <2>1 DEF RightAt
    <2> QED BY <2>2 DEF ListRight
  <1>7. IsItem(lines[p].content) /\ ~Failed(m) /\ Holder(p) = m.val => RightIn(p, m.pos)
    BY ItemRight
  <1> HIDE DEF f, r, m, t, n, c
  <1> SUFFICES ASSUME IsItem(lines[p].content), ~Failed(r), Carries(around, r.val[2], x)
               PROVE  RightIn(p, r.pos)
    BY DEF ListRight, r, f, c
  <1>8. ~Failed(m) /\ ~Failed(t) /\ r.pos = t.pos
    BY <1>3, ListedPos DEF Failed
  <1>9. /\ m.pos \in p + 1 .. n + 1
        /\ \A j \in p + 1 .. m.pos - 1 : lines[j].indent > c
    BY <1>4, <1>8
  <1>10. /\ t.pos \in m.pos .. n + 1
         /\ t.pos # m.pos => /\ m.pos <= n /\ lines[m.pos].indent = c
                             /\ IsItem(lines[m.pos].content)
         /\ \E S : t.val[2] \in Seq(S)
    BY <1>5, <1>8, <1>9 DEF SoundList, Covers, n
  <1> DEFINE l == r.val[2]
             s == t.val[2]
  <1>11. /\ Len(s) \in Nat /\ Len(l) = Len(s) + 1 /\ l[1] = m.val
         /\ \A k \in 1 .. Len(s) : l[k + 1] = s[k]
    BY <1>3, <1>10, ListedIs
  <1>12. x \in Nat \ {0}
    BY ItemsFinite
  <1> HIDE DEF l, s, x, around
  <1>13. around[1] = "list" /\ \A k \in 1 .. Len(l) : x + k - 1 \in DOMAIN around[2]
                                                      /\ around[2][x + k - 1] = l[k]
    BY DEF Carries, l
  <1>14. x \in DOMAIN around[2] /\ around[2][x] = m.val
    <2>1. 1 \in 1 .. Len(l) /\ x + 1 - 1 = x
      BY <1>11, <1>12
    <2> QED BY <1>11, <1>13, <2>1
  <1>15. Holder(p) = m.val
    <2>1. Holder(p) = Item(around, x)
      BY <1>1, <1>2, FoundIs DEF around, x, n
    <2> QED BY <1>13, <1>14, <2>1 DEF Item
  <1>16. RightIn(p, m.pos)
    BY <1>7, <1>8, <1>15
  <1>17. RightIn(m.pos, t.pos)
    <2>1. CASE t.pos = m.pos
      <3>1. \A j : j \notin m.pos .. t.pos - 1
        BY <1>2, <1>9, <2>1
      <3> QED BY <3>1 DEF RightIn
    <2>2. CASE t.pos # m.pos
      <3>1. m.pos \in p + 1 .. n /\ m.pos \in 1 .. n /\ p < m.pos
        BY <1>1, <1>2, <1>9, <1>10, <2>2
      <3>2. lines[m.pos].indent = c /\ IsItem(lines[m.pos].content)
        BY <1>10, <2>2
      <3>3. Parent(m.pos) = Parent(p) /\ Index(m.pos) = x + 1
        BY <1>2, <1>9, <3>1, <3>2, IndexNext DEF n, x
      <3>4. Carries(around, s, x + 1)
        <4>1. ASSUME NEW k \in 1 .. Len(s)
              PROVE  (x + 1) + k - 1 \in DOMAIN around[2] /\ around[2][(x + 1) + k - 1] = s[k]
          <5>1. k + 1 \in 1 .. Len(l) /\ x + (k + 1) - 1 = (x + 1) + k - 1
            BY <1>11, <1>12
          <5> QED BY <1>11, <1>13, <5>1
        <4> QED BY <1>13, <4>1 DEF Carries
      <3> QED BY <1>6, <1>8, <3>1, <3>2, <3>3, <3>4 DEF around, s
    <2> QED BY <2>1, <2>2
  <1>18. m.pos \in Nat /\ t.pos \in Nat
    BY <1>1, <1>2, <1>9, <1>10
  <1> QED BY <1>2, <1>8, <1>16, <1>17, <1>18, BothRight

\* What a line of the file says of its keys and its meaning.
SaysAll(entry, line) ==
  /\ Says(entry, line) /\ entry.means = line.means
  /\ HasColon(BodyOf(line.content)) => Key(BodyOf(entry.content)) = Key(BodyOf(line.content))

LEMMA EntrySaysAll ==
  ASSUME NEW entry, IsEntry(entry)
  PROVE  \E line \in Authored : SaysAll(entry, line)
  <1>1. CASE entry \in Authored
    BY <1>1, LineFacts DEF SaysAll, Says
  <1>2. ASSUME NEW line \in Authored, Closed(line.content), entry = Commented(line)
        PROVE  SaysAll(entry, line)
    <2>1. entry.content = line.content \o TheComment
      BY <1>2, CommentedFacts
    <2>2. entry.means = line.means
      BY <1>2, LineFacts DEF Commented
    <2> DEFINE c == line.content
    <2>3. c \in Words /\ c # <<>> /\ entry.content = c \o TheComment
      BY <2>1, LineFacts
    <2>4. Says(entry, line)
      <3>1. StripComment(entry.content) = line.content
        BY <1>2, <2>1, LineFacts, CommentGoes
      <3>2. entry.content \in Words /\ (IsItem(entry.content) <=> IsItem(line.content))
        <4> HIDE DEF c
        <4>1. c \o TheComment \in Words /\ (IsItem(c \o TheComment) <=> IsItem(c))
          BY <2>3, ItemStays
        <4> QED BY <2>3, <4>1 DEF c
      <3> QED BY <1>2, <3>1, <3>2, CommentedFacts DEF Says
    <2>5. HasColon(BodyOf(c)) => Key(BodyOf(entry.content)) = Key(BodyOf(c))
      <3> HIDE DEF c
      <3> QED BY <2>3, KeyStays
    <2> QED BY <2>2, <2>4, <2>5 DEF SaysAll
  <1> QED BY <1>1, <1>2 DEF IsEntry

\* A block, when its value is what the line above it holds.
LEMMA BlockIsRight ==
  ASSUME NEW lines, Faithful(lines), NEW p \in 1 .. Len(lines),
         MapRight(lines, p), ListRight(lines, p)
  PROVE  BlockRight(lines, p)
  <1> DEFINE f == TheParse(lines)
             n == Len(lines)
             c == lines[p].indent
             content == lines[p].content
             r == f["block", p, c]
             m == f["map", p, c]
             l == f["list", p, c]
  <1>1. /\ IsText(lines) /\ IsSource(text) /\ n = Len(text) /\ n \in Nat
        /\ \A i \in 1 .. n :
             /\ lines[i].indent \in Nat
             /\ IsItem(lines[i].content) <=> IsItem(text[i].content)
    BY FaithfulFacts
  <1>2. p \in Places(lines) /\ c \in Nat /\ p \in Nat /\ p \in 1 .. n
    BY <1>1 DEF Places
  <1>3. SoundMap(lines, m, p, c) /\ SoundList(lines, l, p, c)
    BY <1>1, <1>2, AllSound DEF SoundAt
  <1>4. ~IsItem(content) /\ ~Failed(m) /\ Extends(Outer(Parent(p)), m.val[2]) => RightIn(p, m.pos)
    BY DEF MapRight
  <1>5. /\ IsItem(content) /\ ~Failed(l) /\ Carries(Outer(Parent(p)), l.val[2], Index(p))
        => RightIn(p, l.pos)
    BY DEF ListRight
  <1>6. r = CASE IsItem(content) -> l
              [] ~IsItem(content) /\ HasColon(content) -> m
              [] OTHER -> Read(Scalar(content), p + 1)
    <2>1. ~Ended(lines, p, c)
      BY <1>1, <1>2 DEF Ended
    <2>2. r = ParseBlock(lines, f, p, c)
      BY <1>1, <1>2, TheSteps
    <2> QED BY <2>1, <2>2 DEF ParseBlock
  <1> HIDE DEF f, r, m, l, n, c
  <1> SUFFICES ASSUME ~Failed(r), Parent(p) = p - 1, Outer(p - 1) = r.val
               PROVE  RightIn(p, r.pos)
    BY DEF BlockRight, r, f, c
  <1>7. CASE IsItem(content)
    <2>1. r = l
      BY <1>6, <1>7
    <2>2. l.val[1] = "list" /\ \E S : l.val[2] \in Seq(S)
      BY <1>3, <2>1 DEF SoundList
    <2>3. Index(p) = 1
      BY <1>7, IndexFirst
    <2>4. Carries(l.val, l.val[2], 1)
      <3> DEFINE s == l.val[2]
      <3>1. Len(s) \in Nat /\ DOMAIN s = 1 .. Len(s)
        BY <2>2, LenProperties
      <3> HIDE DEF s
      <3>2. \A k \in 1 .. Len(s) : 1 + k - 1 = k /\ 1 + k - 1 \in DOMAIN s
        BY <3>1
      <3> QED BY <2>2, <3>2 DEF Carries, s
    <2> QED BY <1>5, <1>7, <2>1, <2>3, <2>4
  <1>8. CASE ~IsItem(content) /\ HasColon(content)
    <2>1. r = m
      BY <1>6, <1>8
    <2>2. m.val[1] = "dict"
      BY <1>3, <2>1 DEF SoundMap
    <2>3. Extends(m.val, m.val[2])
      BY <2>2 DEF Extends
    <2> QED BY <1>4, <1>8, <2>1, <2>3
  <1>9. CASE ~IsItem(content) /\ ~HasColon(content)
    <2>1. r = Read(Scalar(content), p + 1)
      BY <1>6, <1>9
    <2>2. r.val = Scalar(content) /\ r.pos = p + 1
      BY <2>1, ReadFields
    <2>3. ~IsKeyed(p) /\ ~IsHeader(p) /\ Scalar(content) = text[p].means
      BY <1>9, ShapeOfLine
    <2>4. Place(p) = r.val
      BY <1>1, <1>2, <1>9, <2>3, FoundIs
    <2>5. Right(p)
      BY <2>2, <2>3, <2>4 DEF Right
    <2> QED BY <1>2, <2>2, <2>5, OneLine
  <1> QED BY <1>7, <1>8, <1>9

LEMMA AllRight ==
  ASSUME NEW lines, Faithful(lines), KeysDiffer, NEW p \in Places(lines)
  PROVE  RightAt(lines, p)
  <1> DEFINE n == Len(lines) + 1
             T == {m \in 0 .. n - 1 : ~RightAt(lines, n - m)}
  <1>1. n \in Nat /\ p \in 1 .. n
    BY FaithfulFacts DEF Places
  <1>2. ASSUME NEW k \in 1 .. n, \A j \in k + 1 .. n : RightAt(lines, j)
        PROVE  RightAt(lines, k)
    <2>1. k \in Places(lines)
      BY DEF Places
    <2>2. ASSUME k <= Len(lines)
          PROVE  MapRight(lines, k) /\ ListRight(lines, k) /\ BlockRight(lines, k)
      <3>1. k \in 1 .. Len(lines)
        BY <2>2, FaithfulFacts
      <3>2. MapRight(lines, k) /\ ListRight(lines, k)
        BY <1>2, <3>1, MapIsRight, ListIsRight
      <3> QED BY <3>1, <3>2, BlockIsRight
    <2>3. FieldsRight(lines, k)
      BY <1>2, <2>1, <2>2, FieldsAreRight
    <2> QED BY <2>2, <2>3 DEF RightAt
  <1> HIDE DEF n
  <1>3. T = {}
    <2> SUFFICES ASSUME T # {}
                 PROVE  FALSE
      OBVIOUS
    <2>1. PICK m \in T : \A j \in T : m <= j
      <3>1. T \in SUBSET Nat
        BY <1>1
      <3> HIDE DEF T
      <3> QED BY <3>1, LeastExists
    <2>2. m \in 0 .. n - 1 /\ n - m \in 1 .. n
      BY <1>1, <2>1
    <2>3. ASSUME NEW j \in (n - m) + 1 .. n
          PROVE  RightAt(lines, j)
      <3>1. n - j \in 0 .. n - 1 /\ ~(m <= n - j) /\ n - (n - j) = j
        BY <1>1, <2>2
      <3>2. n - j \notin T
        BY <2>1, <3>1
      <3> QED BY <3>1, <3>2
    <2>4. RightAt(lines, n - m)
      BY <1>2, <2>2, <2>3
    <2> QED BY <2>1, <2>4
  <1>4. n - p \in 0 .. n - 1 /\ n - (n - p) = p
    BY <1>1
  <1> QED BY <1>3, <1>4

LEMMA CleanedIsFaithful ==
  ASSUME TextInv
  PROVE  Faithful(Cleaned(text))
  <1> DEFINE lines == Cleaned(text)
  <1>1. IsSource(text) /\ DOMAIN text = 1 .. Len(text)
    BY TextIsSource, LenProperties DEF TextInv
  <1>2. /\ IsText(lines) /\ Len(lines) = Len(text)
        /\ \A i \in 1 .. Len(text) :
             /\ lines[i].indent = text[i].indent
             /\ IsItem(lines[i].content) <=> IsItem(text[i].content)
             /\ FitsShape(lines[i].content, Shapes[i])
             /\ lines[i].content = StripComment(text[i].content)
    BY CleanedLines
  <1> HIDE DEF lines
  <1>3. ASSUME NEW i \in 1 .. Len(text)
        PROVE  SaysLine(lines[i], i)
    <2>1. IsEntry(text[i])
      BY DEF TextInv
    <2>2. PICK line \in Authored : SaysAll(text[i], line)
      BY <2>1, EntrySaysAll
    <2>3. lines[i].content = line.content /\ text[i].shape = line.shape
      BY <1>2, <2>2 DEF SaysAll, Says
    <2>4. lines[i].content \in Words
      BY <2>3, LineFacts
    <2>5. FitsShape(lines[i].content, text[i].shape)
      BY <1>2 DEF Shapes
    <2>6. /\ IsField(i) => Scalar(Rest(BodyOf(lines[i].content))) = text[i].means
          /\ text[i].shape = "scalar" => Scalar(BodyOf(lines[i].content)) = text[i].means
      BY <2>2, <2>3, ScalarsAssumption DEF Authored, SaysAll, IsField
    <2>7. IsKeyed(i) => Key(Body(i)) = Key(BodyOf(lines[i].content))
      <3>1. IsKeyed(i) => HasColon(BodyOf(line.content))
        BY <2>3, <2>5 DEF IsKeyed, IsHeader, IsField, FitsShape
      <3> QED BY <2>2, <2>3, <3>1 DEF SaysAll, Body
    <2> QED BY <1>2, <2>4, <2>5, <2>6, <2>7 DEF SaysLine
  <1> QED BY <1>1, <1>2, <1>3 DEF Faithful, lines

\* Whatever load accepts, each line of it is found where its indentation says.
THEOREM WrittenIsRead == Spec => []ReadsWhatIsWritten
  <1>1. TextInv => ReadsWhatIsWritten
    <2> SUFFICES ASSUME TextInv, value # Raised, KeysDiffer, NEW i \in DOMAIN text
                 PROVE  IF IsHeader(i) THEN Found[i].entry # Raised
                        ELSE Found[i].entry = text[i].means
      BY DEF ReadsWhatIsWritten
    <2> DEFINE cleaned == Cleaned(text)
               read == Parsed(cleaned)
    <2>1. Faithful(cleaned)
      BY CleanedIsFaithful
    <2>2. /\ IsText(cleaned) /\ IsSource(text) /\ Len(cleaned) = Len(text) /\ Len(cleaned) \in Nat
          /\ DOMAIN text = 1 .. Len(text)
      BY <2>1, FaithfulFacts DEF Faithful
    <2>3. value = IF cleaned = <<>> THEN None
                  ELSE IF read.pos = Len(cleaned) + 1 THEN read.val ELSE Raised
      BY DEF TextInv, Load
    <2> HIDE DEF cleaned
    <2>4. cleaned # <<>> /\ i \in 1 .. Len(cleaned)
      <3>1. i \in 1 .. Len(cleaned)
        BY <2>2
      <3>2. Len(<<>>) = 0
        OBVIOUS
      <3> QED BY <2>2, <3>1, <3>2
    <2>5. 1 \in 1 .. Len(cleaned) /\ 1 \in Places(cleaned)
      BY <2>2, <2>4, FirstLine
    <2>6. read = TheParse(cleaned)["block", 1, cleaned[1].indent]
      BY <2>2, <2>4, ParseExists
    <2>7. BlockRight(cleaned, 1)
      <3>1. RightAt(cleaned, 1)
        BY <2>1, <2>5, AllRight
      <3>2. 1 <= Len(cleaned)
        BY <2>2, <2>5
      <3> QED BY <3>1, <3>2 DEF RightAt
    <2>8. ~Failed(read) /\ Parent(1) = 1 - 1 /\ Outer(1 - 1) = read.val => RightIn(1, read.pos)
      BY <2>6, <2>7 DEF BlockRight
    <2> HIDE DEF read
    <2>9. read.pos = Len(cleaned) + 1 /\ value = read.val
      BY <2>3, <2>4
    <2>10. Parent(1) = 0
      <3>1. Parent(1) \in 0 .. 1 - 1
        BY <2>2, <2>5, ParentFacts
      <3> QED BY <3>1
    <2>11. Outer(0) = value
      BY <2>2, FoundIs
    <2>12. ~Failed(read)
      BY <2>2, <2>9 DEF Failed
    <2>13. RightIn(1, Len(cleaned) + 1)
      BY <2>8, <2>9, <2>10, <2>11, <2>12
    <2>14. i \in 1 .. (Len(cleaned) + 1) - 1
      BY <2>2, <2>4
    <2>15. Right(i)
      BY <2>13, <2>14 DEF RightIn
    <2> QED BY <2>15 DEF Right, Place
  <1> QED BY <1>1, TextInvariant, PTL
=============================================================================

----------------------------- MODULE SimpleYaml -----------------------------
(***************************************************************************)
(* The YAML subset that every inventory and golden file of the quality     *)
(* gate is read with (tools/inventory/simple_yaml.py).  A text is a        *)
(* sequence of lines; a line has the spaces it is indented by and its      *)
(* content, a sequence of tokens: words, quotes, brackets, ":", ",", "#"   *)
(* and the item mark "- ".  White space between tokens is left out.        *)
(* The module has an author who adds lines and comments to a text and      *)
(* loads it after every edit.                                              *)
(***************************************************************************)
EXTENDS Naturals, SequencesExt

CONSTANTS
  Lines,     \* the lines an author may write after a text
  MaxLines,  \* bound: the lines of a text
  Numerals,  \* the words int() reads, without those with a leading zero
  Decimals   \* the words with a point that float() reads

VARIABLES
  text,      \* the lines of the file
  value      \* what load makes of it

vars == <<text, value>>
-----------------------------------------------------------------------------
\* Python's values, tagged; a mapping is a function on its keys.
None == <<"none">>
Truth(b) == <<"bool", b>>
Number(w) == <<"number", w>>
\* Faulty variant: the tag is forgotten.
StrUntagged(s) == s
Str(s) == <<"str", s>>
List(s) == <<"list", s>>
Dict(f) == <<"dict", f>>

\* load raised YamlError.
Raised == <<"raised">>

Quotes == {"'", "\""}
Starts(s, marks) == s # <<>> /\ Head(s) \in marks
IsItem(content) == Starts(content, {"- "})
HasColon(content) == Contains(content, ":")
IsQuote(s) == Starts(s, Quotes) /\ Last(s) = Head(s)

\* str.partition(":")
Key(content) == SubSeq(content, 1, SelectInSeq(content, LAMBDA t : t = ":") - 1)
Rest(content) ==
  SubSeq(content, SelectInSeq(content, LAMBDA t : t = ":") + 1, Len(content))

\* The quote that is open behind s, "" outside quotes.
OpenQuote(s) ==
  FoldLeft(LAMBDA quote, t :
             CASE quote = "" /\ t \in Quotes -> t
               [] quote = t -> ""
               [] OTHER -> quote, "", s)
Unquoted(s, i) == OpenQuote(SubSeq(s, 1, i - 1)) = ""

\* Faulty variant: only a line that is a comment is recognised.
StripCommentLine(content) == IF Starts(content, {"#"}) THEN <<>> ELSE content

\* The first "#" outside quotes ends the line.
StripComment(content) ==
  LET marks == {i \in 1 .. Len(content) :
                  content[i] = "#" /\ Unquoted(content, i)}
  IN  IF marks = {} THEN content ELSE SubSeq(content, 1, Min(marks) - 1)

\* The parts of a flow list; what follows the last comma counts if not empty.
SplitFlow(inner) ==
  LET step(acc, i) ==
        IF inner[i] = "," /\ Unquoted(inner, i)
        THEN [parts |-> Append(acc.parts, acc.buf), buf |-> <<>>]
        ELSE [acc EXCEPT !.buf = Append(@, inner[i])]
      end == FoldLeft(step, [parts |-> <<>>, buf |-> <<>>],
                      [i \in 1 .. Len(inner) |-> i])
  IN  IF end.buf = <<>> THEN end.parts ELSE Append(end.parts, end.buf)

IsFlow(s) == Starts(s, {"["}) /\ Last(s) = "]"
Plain(s) ==
  CASE s = <<>> \/ s \in {<<w>> : w \in {"~", "null"}} -> None
    [] s \in {<<"true">>, <<"yes">>} -> Truth(TRUE)
    [] s \in {<<"false">>, <<"no">>} -> Truth(FALSE)
    [] IsQuote(s) -> Str(SubSeq(s, 2, Len(s) - 1))
    [] s \in {<<w>> : w \in Numerals \cup Decimals} -> Number(Head(s))
    [] OTHER -> Str(s)

\* What is in a flow list; its parts may be flow lists themselves.
Elements[s \in Seq(STRING)] ==
  LET Element(part) == IF IsFlow(part) THEN List(Elements[part]) ELSE Plain(part)
  IN  FoldLeft(LAMBDA elements, part : Append(elements, Element(part)), <<>>,
               SplitFlow(SubSeq(s, 2, Len(s) - 1)))

Scalar(s) == IF IsFlow(s) THEN List(Elements[s]) ELSE Plain(s)
-----------------------------------------------------------------------------
\* What a parser returns: a value and the next line, or a YamlError.
Read(val, pos) == [val |-> val, pos |-> pos]
Error == Read(None, 0)
Failed(read) == read.pos = 0

Pair(key, val) == [k \in {key} |-> val]
Update(f, g) ==
  [key \in DOMAIN f \cup DOMAIN g |-> IF key \in DOMAIN g THEN g[key] ELSE f[key]]

\* The entries of a mapping, and those that are read behind them.
Joined(entries, read) ==
  IF Failed(read) THEN Error ELSE Read(Dict(Update(entries, read.val[2])), read.pos)

Deeper(lines, pos, indent) == pos <= Len(lines) /\ lines[pos].indent > indent
Ended(lines, pos, indent) == pos > Len(lines) \/ lines[pos].indent < indent

\* The parsers call each other through parse[what, pos, indent].
ParseBlock(lines, parse, pos, indent) ==
  IF Ended(lines, pos, indent) THEN Read(None, pos)
  ELSE LET content == lines[pos].content IN
       CASE IsItem(content) -> parse["list", pos, indent]
         [] ~IsItem(content) /\ HasColon(content) -> parse["map", pos, indent]
         [] OTHER -> Read(Scalar(content), pos + 1)

\* The block below a header; it starts at the first line's own indentation.
Nested(lines, parse, pos, indent, otherwise) ==
  IF Deeper(lines, pos, indent)
  THEN parse["block", pos, lines[pos].indent]
  ELSE Read(otherwise, pos)

Marks == {<<"|">>, <<">">>}

ParseMap(lines, parse, pos, indent) ==
  IF \/ Ended(lines, pos, indent)
     \/ ~Deeper(lines, pos, indent) /\ IsItem(lines[pos].content)
  THEN Read(Dict(<<>>), pos)
  ELSE IF Deeper(lines, pos, indent) \/ ~HasColon(lines[pos].content) THEN Error
  ELSE LET rest == Rest(lines[pos].content)
           read == IF rest = <<>> \/ rest \in Marks
                   THEN Nested(lines, parse, pos + 1, indent,
                               IF rest = <<>> THEN None ELSE Str(rest))
                   ELSE Read(Scalar(rest), pos + 1)
       IN  IF Failed(read) THEN Error
           ELSE Joined(Pair(Key(lines[pos].content), read.val),
                       parse["map", read.pos, indent])

\* Faulty variant: the keys below an item must be aligned with its first key.
ParseFieldsAligned(lines, parse, pos, indent) ==
  IF ~Deeper(lines, pos, indent) \/ lines[pos].indent # indent + 2
  THEN Read(Dict(<<>>), pos)
  ELSE LET extra == parse["map", pos, lines[pos].indent]
       IN  IF Failed(extra) THEN Error
           ELSE Joined(extra.val[2], parse["fields", extra.pos, indent])

\* The keys below an item that began with "- key: value", at any depth below
\* the mark.
ParseFields(lines, parse, pos, indent) ==
  IF ~Deeper(lines, pos, indent) \/ IsItem(lines[pos].content)
  THEN Read(Dict(<<>>), pos)
  ELSE LET extra == parse["map", pos, lines[pos].indent]
       IN  IF Failed(extra) THEN Error
           ELSE Joined(extra.val[2], parse["fields", extra.pos, indent])

ParseItem(lines, parse, pos, indent) ==
  LET item == Tail(lines[pos].content)
  IN  CASE item \in Marks -> Nested(lines, parse, pos + 1, indent, None)
        [] Last(item) = ":" /\ ~Starts(item, Quotes) ->
             LET below == Nested(lines, parse, pos + 1, indent, None)
             IN  IF Failed(below) THEN Error
                 ELSE Read(Dict(Pair(Front(item), below.val)), below.pos)
        [] HasColon(item) /\ Last(item) # ":" /\ ~Starts(item, Quotes \cup {"[", "{"}) ->
             Joined(Pair(Key(item), Scalar(Rest(item))), parse["fields", pos + 1, indent])
        [] OTHER -> Read(Scalar(item), pos + 1)

\* An item, and those that are read behind it.
Listed(read, rest) ==
  IF Failed(read) \/ Failed(rest) THEN Error
  ELSE Read(List(<<read.val>> \o rest.val[2]), rest.pos)

\* Faulty variant: an item that is indented deeper than the list is taken for one of its own.
ParseListLoose(lines, parse, pos, indent) ==
  IF Ended(lines, pos, indent) THEN Read(List(<<>>), pos)
  ELSE IF ~IsItem(lines[pos].content) THEN Read(List(<<>>), pos)
  ELSE LET read == ParseItem(lines, parse, pos, indent)
       IN  Listed(read, parse["list", read.pos, indent])

ParseList(lines, parse, pos, indent) ==
  IF Ended(lines, pos, indent) THEN Read(List(<<>>), pos)
  ELSE IF Deeper(lines, pos, indent) THEN Error
  ELSE IF ~IsItem(lines[pos].content) THEN Read(List(<<>>), pos)
  ELSE LET read == ParseItem(lines, parse, pos, indent)
       IN  Listed(read, parse["list", read.pos, indent])

Parsers == {"block", "map", "fields", "list"}

Parsed(lines) ==
  LET parse[call \in Parsers \X (1 .. Len(lines) + 1) \X Nat] ==
        LET pos == call[2]
            indent == call[3]
        IN  CASE call[1] = "block"  -> ParseBlock(lines, parse, pos, indent)
              [] call[1] = "map"    -> ParseMap(lines, parse, pos, indent)
              [] call[1] = "fields" -> ParseFields(lines, parse, pos, indent)
              [] call[1] = "list"   -> ParseList(lines, parse, pos, indent)
  IN  parse[<<"block", 1, lines[1].indent>>]

\* Comments go, and the lines that are empty then.
Stripped(line) == [indent |-> line.indent, content |-> StripComment(line.content)]
Cleaned(lines) ==
  LET cleaned[n \in 0 .. Len(lines)] ==
        IF n = 0 THEN <<>>
        ELSE IF StripComment(lines[n].content) = <<>> THEN cleaned[n - 1]
        ELSE Append(cleaned[n - 1], Stripped(lines[n]))
  IN  cleaned[Len(lines)]

Load(lines) ==
  LET cleaned == Cleaned(lines)
      read == Parsed(cleaned)
  IN  IF cleaned = <<>> THEN None
      ELSE IF read.pos = Len(cleaned) + 1 THEN read.val ELSE Raised
-----------------------------------------------------------------------------
BodyOf(content) == IF IsItem(content) THEN Tail(content) ELSE content

\* A line as its author writes it: without a comment, "#" only in quotes, and
\* of the shape of its content.  A header ends with the ":" behind its key, a
\* field has a scalar there, and a scalar has a ":" only between quotes.
IsLine(line) ==
  LET body == BodyOf(line.content)
  IN  /\ {"shape", "content", "means", "indent", "commented"} \subseteq DOMAIN line
      /\ line.shape \in {"header", "field", "scalar"}
      /\ line.indent \in Nat
      /\ line.content \in Seq(STRING)
      /\ line.commented = FALSE
      /\ StripComment(line.content) = line.content
      /\ body # <<>> /\ body \notin Marks
      /\ line.shape = "header" =>
           HasColon(body) /\ Rest(body) = <<>> /\ Last(body) = ":" /\ ~Starts(body, Quotes)
      /\ line.shape = "field" =>
           /\ HasColon(body) /\ Rest(body) \notin Marks \cup {<<>>}
           /\ Last(body) # ":" /\ ~Starts(body, Quotes \cup {"[", "{"})
      /\ line.shape = "scalar" /\ HasColon(body) =>
           IsItem(line.content) /\ Starts(body, Quotes)

ASSUME LinesAssumption ==
  MaxLines \in Nat /\ \A n \in 1 .. MaxLines : \A line \in Lines[n] : IsLine(line)

\* A scalar by itself is read as its author means it.
ASSUME ScalarsAssumption ==
  \A n \in 1 .. MaxLines : \A line \in Lines[n] :
    LET body == BodyOf(line.content)
    IN  /\ line.shape = "field" => Scalar(Rest(body)) = line.means
        /\ line.shape = "scalar" => Scalar(body) = line.means
-----------------------------------------------------------------------------
Init == text = <<>> /\ value = Load(<<>>)

\* The author adds a line and loads the file.
Write ==
  /\ Len(text) < MaxLines
  /\ \E line \in Lines[Len(text) + 1] : text' = Append(text, line)
  /\ value' = Load(text')

\* The author comments a line that leaves no quote open; one comment a text.
Comment ==
  /\ \A i \in DOMAIN text : ~text[i].commented
  /\ \E i \in DOMAIN text :
       /\ OpenQuote(text[i].content) = ""
       /\ text' = [text EXCEPT ![i].content = @ \o <<"#", "'", "note", ":">>,
                               ![i].commented = TRUE]
  /\ value' = Load(text')

Next == Write \/ Comment

Spec == Init /\ [][Next]_vars
-----------------------------------------------------------------------------
\* Where indentation alone says each line belongs.  A line's parent is the
\* nearest line before it that is indented less.
Parent(i) == Max({0} \cup {j \in 1 .. i - 1 : text[j].indent < text[i].indent})
Siblings(i) == {j \in DOMAIN text : Parent(j) = Parent(i)}

Body(i) == BodyOf(text[i].content)
IsHeader(i) == text[i].shape = "header"
IsField(i) == text[i].shape = "field"

\* A line is a key of the mapping of its item, or of the one below its header.
IsKeyed(i) == IsHeader(i) \/ IsField(i)
Mapping(i) ==
  LET p == Parent(i)
  IN  CASE IsItem(text[i].content) -> <<"item", i>>
        [] ~IsItem(text[i].content) /\ p # 0 /\ IsField(p) -> <<"item", p>>
        [] OTHER -> <<"below", p>>

\* No mapping has a key twice.
KeysDiffer ==
  \A i, j \in DOMAIN text :
    i # j /\ IsKeyed(i) /\ IsKeyed(j) /\ Mapping(i) = Mapping(j) =>
      Key(Body(i)) # Key(Body(j))

\* What a mapping has for a key, and a list at a place; Raised if nothing.
Entry(v, key) == IF v[1] = "dict" /\ key \in DOMAIN v[2] THEN v[2][key] ELSE Raised
Item(v, n) == IF v[1] = "list" /\ n \in DOMAIN v[2] THEN v[2][n] ELSE Raised
Index(i) == Cardinality({j \in Siblings(i) : j <= i /\ IsItem(text[j].content)})

\* What is found in the value where line i belongs: the item or mapping that
\* holds it, and its entry there.  The lines below a header belong to its
\* entry, those below "- key: value" to the item.
Found ==
  LET found[i \in 0 .. Len(text)] ==
        IF i = 0 THEN [holder |-> value, entry |-> value]
        ELSE LET p == Parent(i)
                 above == IF p # 0 /\ IsField(p) THEN found[p].holder ELSE found[p].entry
                 holder == IF IsItem(text[i].content) THEN Item(above, Index(i)) ELSE above
             IN  [holder |-> holder,
                  entry |-> IF IsKeyed(i) THEN Entry(holder, Key(Body(i))) ELSE holder]
  IN  found

\* The texts the inventories are written as: siblings are indented alike and
\* of one kind, a scalar has none, and lines are nested only below a header
\* or, when they are keys, below "- key: value".
WellFormed ==
  \A i \in DOMAIN text :
    /\ \A j \in Siblings(i) :
         /\ text[j].indent = text[i].indent
         /\ IsItem(text[j].content) <=> IsItem(text[i].content)
         /\ i # j /\ ~IsItem(text[i].content) => text[i].shape # "scalar"
    /\ LET p == Parent(i) IN
       p = 0 \/ IsHeader(p)
       \/ (IsField(p) /\ IsItem(text[p].content)
           /\ ~IsItem(text[i].content) /\ text[i].shape # "scalar")

\* What load gives is one of Python's values, tagged with its type, or an error.
TypeOK ==
  /\ Len(text) <= MaxLines
  /\ value[1] \in {"none", "bool", "number", "str", "list", "dict", "raised"}

\* load accepts every text that is written the way the inventories are: no
\* nesting, dedent or mixture of lists and mappings makes _parse_map or
\* _parse_list stop early and leave trailing content.
AcceptsWellFormed == value = Raised => ~WellFormed

\* Nothing is lost or attached elsewhere: whatever text load accepts, well
\* formed or not, the scalar of each of its lines is found where the
\* indentation of the lines says, with the value its author meant, unless a
\* mapping has a key twice.
ReadsWhatIsWritten ==
  value # Raised /\ KeysDiffer =>
    LET found == Found
    IN  \A i \in DOMAIN text :
          IF IsHeader(i) THEN found[i].entry # Raised ELSE found[i].entry = text[i].means

\* A comment behind a line never changes what is loaded, even when it holds
\* an apostrophe or a colon and the line holds "#" in quotes.
CommentsChangeNothing == [][Comment => value' = value]_vars
=============================================================================

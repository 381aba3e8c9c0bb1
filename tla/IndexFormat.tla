----------------------------- MODULE IndexFormat ----------------------------
(***************************************************************************)
(* The index file: its encoder and decoder (plumbing/format/index), the    *)
(* generator of its fixtures (tools/gen_index_fixtures.py), which writes   *)
(* the layout a second time in Python, and a file that is cut short, as    *)
(* setIndex leaves it when its process dies: it truncates the file and     *)
(* writes it in place.                                                     *)
(*                                                                         *)
(* An image is a sequence of fields: the header, the 60 bytes of times,    *)
(* numbers and hash that start an entry (opaque here), its flags of 2      *)
(* bytes, its extended flags of 2, single bytes, and the checksum.  The    *)
(* mask of a name's length and the base of the variable-width numbers are  *)
(* scaled down.                                                            *)
(***************************************************************************)
EXTENDS Integers, SequencesExt

CONSTANTS
  Names,       \* the paths: sequences of bytes, none of them NUL
  Stages,      \* the stages entries may have
  Marks,       \* the pairs of intent-to-add and skip-worktree they may have
  NameMask,    \* the longest length the flags hold; 4095 in the code
  Base,        \* of the variable-width numbers; 128 in the code
  MaxEntries,  \* bound: the entries of an index
  MaxTorn      \* bound: the entries of an index that is cut short

ASSUME NumbersAssumption == NameMask \in Nat \ {0} /\ Base \in Nat \ {0, 1}
ASSUME NamesAreBytes == Names \subseteq Seq(Nat \ {0})
ASSUME BoundAssumption == MaxEntries \in Nat

VARIABLES
  version, writer,   \* the format; "encoder" or "generator"
  entries,           \* the entries written so far, in order
  body,              \* their fields
  image,             \* the file
  torn,              \* whether it was cut short
  decoded, pos,      \* the decoder's entries and the fields it has read
  outcome            \* "reading", "decoded" or "failed"

vars == <<version, writer, entries, body, image, torn, decoded, pos, outcome>>
-----------------------------------------------------------------------------
NUL == 0
Byte(b) == <<"byte", b>>
Bytes(s) == [i \in DOMAIN s |-> Byte(s[i])]
Fixed == <<"fixed", NUL>>
EntryHeader == 62

CommonPrefix(a, b) ==
  LET n == IF Len(a) < Len(b) THEN Len(a) ELSE Len(b)
  IN  Max({i \in 0 .. n : SubSeq(a, 1, i) = SubSeq(b, 1, i)})

\* std.mem.order on names, then the stage.
Less(a, b) ==
  LET n == CommonPrefix(a.name, b.name)
  IN  IF a.name = b.name THEN a.stage < b.stage
      ELSE Len(b.name) > n /\ (Len(a.name) > n => a.name[n + 1] < b.name[n + 1])

\* Faulty variant: the padding stops at the multiple of 8.
PadExact(wrote) == [i \in 1 .. (8 - (wrote % 8)) % 8 |-> Byte(NUL)]

\* Always 1 to 8 bytes.
Pad(wrote) == [i \in 1 .. 8 - (wrote % 8) |-> Byte(NUL)]

\* Numbers with the most significant digit first, each digit but the last one
\* with the continuation mark (+ Base) and less one.
Vlq(n) ==
  LET digits[v \in 0 .. n] ==
        IF v = 0 THEN <<>>
        ELSE Append(digits[(v - 1) \div Base], Base + ((v - 1) % Base))
  IN  Append(digits[n \div Base], n % Base)

Extended(e) == e.intent \/ e.skip
FlagLength(e) == IF Len(e.name) < NameMask THEN Len(e.name) ELSE NameMask
Flags(e) == <<"flags", [stage |-> e.stage, extended |-> Extended(e),
                        length |-> FlagLength(e)]>>
ExtendedFlags(e) == <<"extended", [intent |-> e.intent, skip |-> e.skip]>>

\* What comes before the name, and its bytes.
Start(e) == <<Fixed, Flags(e)>> \o (IF Extended(e) THEN <<ExtendedFlags(e)>> ELSE <<>>)
EntryLength(e) == EntryHeader + (IF Extended(e) THEN 2 ELSE 0)

Suffix(e, prefix) == Bytes(SubSeq(e.name, prefix + 1, Len(e.name)))

\* The encoder: encodeEntry and padEntry.  previous holds at most the entry
\* before.
EncodeEntry(e, previous) ==
  LET prefix == IF previous = <<>> THEN 0 ELSE CommonPrefix(previous[1].name, e.name)
      strip == IF previous = <<>> THEN 0 ELSE Len(previous[1].name) - prefix
  IN  Start(e)
      \o IF version = 4
         THEN Bytes(Vlq(strip)) \o Suffix(e, prefix) \o <<Byte(NUL)>>
         ELSE Bytes(e.name) \o Pad(EntryLength(e) + Len(e.name))

\* The generator, an entry without and with extended flags, and of version 4.
V2Entry(e) ==
  <<Fixed, <<"flags", [stage |-> 0, extended |-> FALSE, length |-> FlagLength(e)]>>>>
  \o Bytes(e.name) \o Pad(EntryHeader + Len(e.name))
V3Ext(e) ==
  <<Fixed, <<"flags", [stage |-> 0, extended |-> TRUE, length |-> FlagLength(e)]>>,
    ExtendedFlags(e)>>
  \o Bytes(e.name) \o Pad(EntryHeader + 2 + Len(e.name))

\* Faulty variant: the prefix is taken from the first entry on.
V4EntryOfFirst(e, previous) ==
  LET first == IF entries = <<>> THEN <<>> ELSE entries[1].name
      prefix == CommonPrefix(first, e.name)
  IN  <<Fixed, Flags(e)>> \o Bytes(Vlq(Len(first) - prefix))
      \o Suffix(e, prefix) \o <<Byte(NUL)>>

V4Entry(e, previous) ==
  LET prev == IF previous = <<>> THEN <<>> ELSE previous[1].name
      prefix == CommonPrefix(prev, e.name)
  IN  <<Fixed, <<"flags", [stage |-> 0, extended |-> FALSE, length |-> FlagLength(e)]>>>>
      \o Bytes(Vlq(Len(prev) - prefix)) \o Suffix(e, prefix) \o <<Byte(NUL)>>

GenerateEntry(e, previous) ==
  CASE version = 4 -> V4Entry(e, previous)
    [] version # 4 /\ Extended(e) -> V3Ext(e)
    [] OTHER -> V2Entry(e)

\* What the generator is given: the fixtures have no stages, and extended
\* flags in version 3 alone.
Generable(e) == e.stage = 0 /\ (Extended(e) => version = 3)
-----------------------------------------------------------------------------
Entry == {e \in [name : Names, stage : Stages, intent : BOOLEAN, skip : BOOLEAN] :
            <<e.intent, e.skip>> \in Marks}

Init ==
  /\ version \in {2, 3, 4}
  /\ writer \in {"encoder", "generator"}
  /\ entries = <<>> /\ body = <<>> /\ image = <<>> /\ torn = FALSE
  /\ decoded = <<>> /\ pos = 0 /\ outcome = "reading"

Previous == IF entries = <<>> THEN <<>> ELSE <<Last(entries)>>

\* The writer's loops over the sorted entries.
Write(e) ==
  /\ image = <<>> /\ ~torn
  /\ Len(entries) < MaxEntries
  /\ entries # <<>> => Less(Last(entries), e)
  /\ \/ writer = "encoder" /\ body' = body \o EncodeEntry(e, Previous)
     \/ /\ writer = "generator" /\ Generable(e)
        /\ body' = body \o GenerateEntry(e, Previous)
  /\ entries' = Append(entries, e)
  /\ UNCHANGED <<version, writer, image, torn, decoded, pos, outcome>>

\* The header holds the version and the count; the checksum ends the file.
Header == <<"header", <<version, Len(entries)>>>>
Finish ==
  /\ image = <<>> /\ ~torn
  /\ image' = <<Header>> \o body \o <<<<"sum", <<Header>> \o body>>>>
  /\ UNCHANGED <<version, writer, entries, body, torn, decoded, pos, outcome>>

\* The writing process dies: only the beginning of the file is there.
Tear ==
  /\ image # <<>> /\ ~torn /\ pos = 0 /\ outcome = "reading"
  /\ Len(entries) <= MaxTorn
  /\ \E n \in 0 .. Len(image) - 1 : image' = SubSeq(image, 1, n)
  /\ torn' = TRUE
  /\ UNCHANGED <<version, writer, entries, body, decoded, pos, outcome>>
-----------------------------------------------------------------------------
Fail == outcome' = "failed" /\ UNCHANGED <<decoded, pos>>

Has(i, kind) == i <= Len(image) /\ image[i][1] = kind

ReadHeader ==
  /\ image # <<>> \/ torn
  /\ outcome = "reading" /\ pos = 0
  /\ IF Has(1, "header") THEN pos' = 1 /\ UNCHANGED <<decoded, outcome>> ELSE Fail
  /\ UNCHANGED <<version, writer, entries, body, image, torn>>

\* The run of bytes from field i to the next NUL, and whether there is one.
NulAfter(i) == {j \in i .. Len(image) : image[j] = Byte(NUL)}
Until(i, j) == [k \in 1 .. j - i |-> image[i + k - 1][2]]

\* Result of reading a name: the name and the fields read, or nothing.
NoName == [ok |-> FALSE]
NameRead(name, next) == [ok |-> TRUE, name |-> name, next |-> next]
AreBytes(i, j) == j <= Len(image) /\ \A k \in i .. j : image[k][1] = "byte"

\* Faulty variant: the NUL that ends a long name is taken for a part of it.
ReadNameWithNul(length, i) ==
  LET end == IF length = NameMask THEN Min(NulAfter(i) \cup {Len(image) + 1}) + 1
             ELSE i + length
  IN  IF AreBytes(i, end - 1) THEN NameRead(Until(i, end), end) ELSE NoName

\* doReadEntryName; a name as long as the mask ends at a NUL.
ReadName(length, i) ==
  IF length = NameMask
  THEN IF NulAfter(i) # {} /\ AreBytes(i, Min(NulAfter(i)))
       THEN NameRead(Until(i, Min(NulAfter(i))), Min(NulAfter(i)) + 1) ELSE NoName
  ELSE IF AreBytes(i, i + length - 1)
       THEN NameRead(Until(i, i + length), i + length) ELSE NoName

\* readVariableWidthIntHashed over the fields from i to j.
Number(i, j) ==
  LET value[k \in i .. j] ==
        IF k = i THEN image[k][2] % Base
        ELSE (value[k - 1] + 1) * Base + (image[k][2] % Base)
  IN  value[j]

\* doReadEntryNameV4: the name of the entry before less what is stripped, and
\* what follows up to a NUL.
LastName == IF decoded = <<>> THEN <<>> ELSE Last(decoded).name
ReadNameV4(i) ==
  LET lasts == {j \in i .. Len(image) : AreBytes(i, j) /\ image[j][2] < Base}
      last == Min(lasts)
      end == Min(NulAfter(last + 1))
      keep == Len(LastName) - Number(i, last)
  IN  IF lasts = {} \/ NulAfter(last + 1) = {} \/ ~AreBytes(last + 1, end) \/ keep < 0
      THEN NoName
      ELSE NameRead(SubSeq(LastName, 1, keep) \o Until(last + 1, end), end + 1)

\* The padding left after a name of which consumed bytes were read.
PaddingLeft(size, name, consumed) ==
  IF version = 4 THEN 0 ELSE 8 - (size % 8) - (consumed - Len(name))

\* readEntry
ReadEntry ==
  /\ outcome = "reading" /\ pos > 0
  /\ Len(decoded) < image[1][2][2]
  /\ LET flags == image[pos + 2][2]
         fixed == IF Has(pos + 2, "flags") /\ flags.extended THEN 3 ELSE 2
         start == pos + fixed + 1
         read == IF version = 4 THEN ReadNameV4(start) ELSE ReadName(flags.length, start)
         size == EntryHeader + (IF fixed = 3 THEN 2 ELSE 0) + Len(read.name)
         left == PaddingLeft(size, read.name, read.next - start)
     IN  IF ~Has(pos + 1, "fixed") \/ ~Has(pos + 2, "flags")
         THEN Fail
         ELSE IF (fixed = 3 /\ ~Has(pos + 3, "extended")) \/ ~read.ok
         THEN Fail
         ELSE IF left > 0 /\ ~AreBytes(read.next, read.next + left - 1)
         THEN Fail
         ELSE /\ decoded' = Append(decoded,
                    [name |-> read.name, stage |-> flags.stage,
                     intent |-> fixed = 3 /\ image[pos + 3][2].intent,
                     skip |-> fixed = 3 /\ image[pos + 3][2].skip])
              /\ pos' = read.next - 1 + (IF left > 0 THEN left ELSE 0)
              /\ UNCHANGED outcome
  /\ UNCHANGED <<version, writer, entries, body, image, torn>>

\* Faulty variant: a file that ends with its entries is taken as it is.
ReadChecksumIfAny ==
  /\ outcome = "reading" /\ pos > 0
  /\ Len(decoded) = image[1][2][2]
  /\ IF pos = Len(image) \/ image[pos + 1] = <<"sum", SubSeq(image, 1, pos)>>
     THEN outcome' = "decoded" /\ UNCHANGED <<decoded, pos>>
     ELSE Fail
  /\ UNCHANGED <<version, writer, entries, body, image, torn>>

\* readExtensions on a file without extensions: the checksum is all that may
\* be left, and is that of what was read.
ReadChecksum ==
  /\ outcome = "reading" /\ pos > 0
  /\ Len(decoded) = image[1][2][2]
  /\ IF Has(pos + 1, "sum") /\ image[pos + 1][2] = SubSeq(image, 1, pos)
     THEN outcome' = "decoded" /\ UNCHANGED <<decoded, pos>>
     ELSE Fail
  /\ UNCHANGED <<version, writer, entries, body, image, torn>>

Next ==
  \/ \E e \in Entry : Write(e)
  \/ Finish \/ Tear \/ ReadHeader \/ ReadEntry \/ ReadChecksum

Spec == Init /\ [][Next]_vars
-----------------------------------------------------------------------------
\* Types; the decoder never returns a name or a mark no writer was given, and
\* never reads past the end of the image.
TypeOK ==
  /\ Len(entries) <= MaxEntries /\ Len(decoded) <= Len(entries)
  /\ \A i \in DOMAIN entries : entries[i] \in Entry
  /\ \A i \in DOMAIN decoded : decoded[i] \in Entry
  /\ pos \in 0 .. Len(image)
  /\ outcome \in {"reading", "decoded", "failed"}

\* Whoever wrote an index, in whatever version, the decoder reads its entries
\* back one by one, in order: a name at or beyond the mask of the flags, the
\* padding behind a name that fills its 8 bytes, a prefix shared with the
\* entry before and the stages of one name all survive.
DecodesWhatWasWritten ==
  ~torn => /\ outcome # "failed"
           /\ decoded = SubSeq(entries, 1, Len(decoded))
           /\ outcome = "decoded" => Len(decoded) = Len(entries)

\* A file cut short anywhere is never taken for an index, not even for one
\* with fewer entries; setIndex, which writes in place, relies on it.
TornIsNoticed == torn => outcome # "decoded"

\* "Synthetic images match the gitz / go-git Encoder layout": the generator
\* writes byte for byte what the encoder writes for the same entries.
SameLayout ==
  LET encoded[i \in 0 .. Len(entries)] ==
        IF i = 0 THEN <<>>
        ELSE encoded[i - 1]
             \o EncodeEntry(entries[i], IF i = 1 THEN <<>> ELSE <<entries[i - 1]>>)
  IN  body = encoded[Len(entries)]
=============================================================================

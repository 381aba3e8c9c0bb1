-------------------------- MODULE IndexFormat_proofs --------------------------
(***************************************************************************)
(* Proofs about IndexFormat: the generator writes what the encoder writes, *)
(* no file that was cut short is taken for an index, and the decoder reads *)
(* back what was written, for names of any bytes and lengths and any       *)
(* number of entries.  What the decoder reads is shown from the digits of  *)
(* a number to a name, from a name to an entry and from an entry to its    *)
(* place in the file; DecodeInv, at the end, says that the file is a       *)
(* beginning of what was written and that the decoder stands behind the    *)
(* entries it has.                                                         *)
(***************************************************************************)
EXTENDS IndexFormat, SequenceTheorems, WellFoundedInduction, TLAPS

\* Among some natural numbers there is a least one.
LEMMA LeastExists ==
  ASSUME NEW T \in SUBSET Nat, T # {}
  PROVE  \E m \in T : \A n \in T : m <= n
  <1> DEFINE R == {ss \in Nat \X Nat : ss[1] < ss[2]}
  <1>1. IsWellFoundedOn(R, Nat)
    BY NatLessThanWellFounded DEF OpToRel
  <1>2. PICK m \in T : \A n \in T : <<n, m>> \notin R
    <2> HIDE DEF R
    <2> QED BY <1>1, WFMin
  <1>3. ASSUME NEW n \in T PROVE m <= n
    <2>1. m \in Nat /\ n \in Nat
      OBVIOUS
    <2>2. ~ (n < m)
      BY <1>2, <2>1
    <2> QED BY <2>1, <2>2
  <1> QED BY <1>3

-----------------------------------------------------------------------------
\* Numbers of variable width.

LEMMA Quotient == \A n \in Nat : n \div Base \in 0 .. n /\ n % Base \in Nat
  <1> SUFFICES ASSUME NEW n \in Nat PROVE n \div Base \in 0 .. n /\ n % Base \in Nat
    OBVIOUS
  <1> DEFINE q == n \div Base
             r == n % Base
  <1>1. Base \in Nat /\ Base >= 2
    BY NumbersAssumption
  <1>2. q \in Int /\ r \in 0 .. Base - 1 /\ n = Base * q + r
    BY <1>1
  <1> HIDE DEF q, r
  <1>3. q >= 0
    BY <1>1, <1>2
  <1>4. Base * q >= q
    BY <1>1, <1>2, <1>3
  <1>5. q <= n
    BY <1>1, <1>2, <1>3, <1>4
  <1> QED BY <1>2, <1>3, <1>5 DEF q, r

Digits(d, n) ==
  d = [v \in 0 .. n |-> IF v = 0 THEN <<>>
                        ELSE Append(d[(v - 1) \div Base], Base + ((v - 1) % Base))]

\* The digits of the numbers up to n are defined.
LEMMA DigitsExist == ASSUME NEW n \in Nat PROVE \E d : Digits(d, n)
  <1> DEFINE T == {m \in Nat : ~ \E d : Digits(d, m)}
  <1> SUFFICES ASSUME T # {} PROVE FALSE
    OBVIOUS
  <1>1. PICK m \in T : \A k \in T : m <= k
    <2> HIDE DEF T
    <2>1. T \in SUBSET Nat
      BY DEF T
    <2> QED BY <2>1, LeastExists
  <1>2. m # 0
    <2> SUFFICES ASSUME m = 0 PROVE FALSE
      OBVIOUS
    <2> DEFINE d == [v \in 0 .. 0 |-> <<>>]
    <2>1. \A v \in 0 .. 0 : v = 0
      OBVIOUS
    <2>2. Digits(d, 0)
      BY <2>1 DEF Digits
    <2> QED BY <2>2
  <1>3. PICK d : Digits(d, m - 1)
    BY <1>1, <1>2
  <1> DEFINE e == [v \in 0 .. m |-> IF v = m
                     THEN Append(d[(m - 1) \div Base], Base + ((m - 1) % Base)) ELSE d[v]]
  <1>4. ASSUME NEW v \in 0 .. m, v # 0
        PROVE  e[(v - 1) \div Base] = d[(v - 1) \div Base]
    <2>1. (v - 1) \div Base \in 0 .. v - 1
      BY <1>4, Quotient
    <2>2. (v - 1) \div Base \in 0 .. m /\ (v - 1) \div Base # m
      BY <1>4, <2>1
    <2> QED BY <2>2
  <1>5. ASSUME NEW v \in 0 .. m
        PROVE  e[v] = IF v = 0 THEN <<>>
                      ELSE Append(e[(v - 1) \div Base], Base + ((v - 1) % Base))
    <2>1. CASE v = m
      BY <1>2, <1>4, <2>1
    <2>2. CASE v # m
      <3>1. v \in 0 .. m - 1
        BY <2>2
      <3>2. d[v] = IF v = 0 THEN <<>>
                   ELSE Append(d[(v - 1) \div Base], Base + ((v - 1) % Base))
        BY <1>3, <3>1 DEF Digits
      <3> QED BY <1>4, <2>2, <3>2
    <2> QED BY <2>1, <2>2
  <1>6. Digits(e, m)
    <2>1. e = [v \in 0 .. m |-> e[v]]
      OBVIOUS
    <2> HIDE DEF e
    <2> QED BY <1>5, <2>1 DEF Digits
  <1> QED BY <1>6

\* A number is written as bytes, one at least.
LEMMA VlqType == ASSUME NEW n \in Nat PROVE Vlq(n) \in Seq(Nat)
  <1> DEFINE d == CHOOSE d : Digits(d, n)
  <1>1. Digits(d, n)
    BY DigitsExist
  <1>2. Vlq(n) = Append(d[n \div Base], n % Base)
    BY DEF Vlq, Digits
  <1> HIDE DEF d
  <1> DEFINE T == {m \in 0 .. n : d[m] \notin Seq(Nat)}
  <1>3. T = {}
    <2> SUFFICES ASSUME T # {} PROVE FALSE
      OBVIOUS
    <2>1. PICK m \in T : \A k \in T : m <= k
      <3>1. T \in SUBSET Nat
        OBVIOUS
      <3> HIDE DEF T
      <3> QED BY <3>1, LeastExists
    <2>2. d[m] = IF m = 0 THEN <<>> ELSE Append(d[(m - 1) \div Base], Base + ((m - 1) % Base))
      BY <1>1 DEF Digits
    <2> m \in 0 .. n /\ d[m] \notin Seq(Nat)
      OBVIOUS
    <2>3. m # 0
      BY <2>2, EmptySeq
    <2>4. (m - 1) \div Base \in 0 .. m - 1 /\ (m - 1) % Base \in Nat
      <3>1. m - 1 \in Nat
        BY <2>3
      <3> QED BY <3>1, Quotient
    <2>5. ASSUME NEW k \in 0 .. m - 1 PROVE d[k] \in Seq(Nat)
      <3>1. k \in 0 .. n /\ ~(m <= k)
        BY <2>5
      <3> QED BY <2>1, <3>1
    <2>6. d[(m - 1) \div Base] \in Seq(Nat)
      BY <2>4, <2>5
    <2>7. Base + ((m - 1) % Base) \in Nat
      BY <2>4, NumbersAssumption
    <2> DEFINE rest == d[(m - 1) \div Base]
               digit == Base + ((m - 1) % Base)
    <2> HIDE DEF rest, digit
    <2>8. Append(rest, digit) \in Seq(Nat)
      BY <2>6, <2>7, AppendProperties DEF rest, digit
    <2> QED BY <2>2, <2>3, <2>8 DEF rest, digit
  <1>4. n \div Base \in 0 .. n /\ n % Base \in Nat
    BY Quotient
  <1>5. d[n \div Base] \in Seq(Nat)
    BY <1>3, <1>4
  <1> QED BY <1>2, <1>4, <1>5

-----------------------------------------------------------------------------
\* Prefixes and minima.

LEMMA MinExists ==
  ASSUME NEW T \in SUBSET Nat, T # {}
  PROVE  Min(T) \in T /\ \A n \in T : Min(T) <= n
  BY LeastExists DEF Min

\* Among some numbers up to a bound there is a greatest one.
LEMMA MaxExists ==
  ASSUME NEW b \in Nat, NEW T \in SUBSET (0 .. b), T # {}
  PROVE  Max(T) \in T
  <1> DEFINE R == {i \in 0 .. b : b - i \in T}
  <1>1. R \in SUBSET Nat /\ R # {}
    <2>1. PICK y \in T : TRUE
      OBVIOUS
    <2>2. y \in 0 .. b /\ b - y \in 0 .. b /\ b - (b - y) = y
      BY <2>1
    <2>3. b - y \in R
      BY <2>2
    <2>4. R \in SUBSET Nat
      OBVIOUS
    <2> HIDE DEF R
    <2> QED BY <2>3, <2>4
  <1>2. PICK m \in R : \A n \in R : m <= n
    <2> HIDE DEF R
    <2> QED BY <1>1, LeastExists
  <1> DEFINE x == b - m
  <1>3. x \in T /\ m = b - x
    BY <1>2
  <1>4. ASSUME NEW y \in T PROVE x >= y
    <2>1. b - y \in R
      OBVIOUS
    <2>2. m <= b - y
      BY <1>2, <2>1
    <2> QED BY <1>3, <2>2
  <1> HIDE DEF R, x
  <1>5. \E z \in T : \A y \in T : z >= y
    BY <1>3, <1>4
  <1> QED BY <1>5, Zenon DEF Max

\* A common prefix is no longer than either of the sequences.
LEMMA PrefixFits ==
  ASSUME NEW a \in Seq(Nat), NEW b \in Seq(Nat)
  PROVE  /\ CommonPrefix(a, b) \in Nat
         /\ CommonPrefix(a, b) <= Len(a)
         /\ CommonPrefix(a, b) <= Len(b)
  <1> DEFINE n == IF Len(a) < Len(b) THEN Len(a) ELSE Len(b)
             T == {i \in 0 .. n : SubSeq(a, 1, i) = SubSeq(b, 1, i)}
  <1>1. n \in Nat /\ n <= Len(a) /\ n <= Len(b)
    BY LenProperties
  <1>2. 0 \in T
    <2>1. SubSeq(a, 1, 0) = <<>> /\ SubSeq(b, 1, 0) = <<>>
      BY SubSeqEmpty
    <2> QED BY <1>1, <2>1
  <1>3. T \in SUBSET (0 .. n)
    OBVIOUS
  <1>4. CommonPrefix(a, b) = Max(T)
    BY DEF CommonPrefix
  <1> HIDE DEF n, T
  <1>5. Max(T) \in 0 .. n
    BY <1>1, <1>2, <1>3, MaxExists
  <1> QED BY <1>1, <1>4, <1>5

\* Nothing is a prefix of everything.
LEMMA NoPrefix == ASSUME NEW b \in Seq(Nat) PROVE CommonPrefix(<<>>, b) = 0
  <1>1. <<>> \in Seq(Nat) /\ Len(<<>>) = 0
    BY EmptySeq
  <1>2. CommonPrefix(<<>>, b) \in Nat /\ CommonPrefix(<<>>, b) <= 0
    BY <1>1, PrefixFits
  <1> QED BY <1>2

-----------------------------------------------------------------------------
\* The fields an image is made of.

FlagSet == [stage : Stages \cup {0}, extended : BOOLEAN, length : Nat]
Field == {Fixed} \cup {<<"flags", f>> : f \in FlagSet}
         \cup {<<"extended", x>> : x \in [intent : BOOLEAN, skip : BOOLEAN]}
         \cup {Byte(b) : b \in Nat}
Opening == {<<"header", <<v, n>>>> : v \in {2, 3, 4}, n \in Nat}
Checksum == {<<"sum", s>> : s \in Seq(Field \cup Opening)}

\* The bytes of a sequence of numbers are fields.
LEMMA BytesAreFields == ASSUME NEW s \in Seq(Nat) PROVE Bytes(s) \in Seq(Field)
  <1>1. Len(s) \in Nat /\ DOMAIN s = 1 .. Len(s)
    BY LenProperties
  <1>2. ASSUME NEW i \in DOMAIN s PROVE Byte(s[i]) \in Field
    <2>1. s[i] \in Nat
      BY <1>1, ElementOfSeq
    <2> QED BY <2>1 DEF Field
  <1>3. Bytes(s) \in [1 .. Len(s) -> Field]
    BY <1>1, <1>2 DEF Bytes
  <1> QED BY <1>1, <1>3, SeqDef

\* The padding ends an entry at a multiple of 8 bytes: 1 to 8 NULs.
LEMMA PadAligns ==
  ASSUME NEW n \in Nat
  PROVE  /\ Pad(n) \in Seq(Field)
         /\ Len(Pad(n)) \in 1 .. 8 /\ (n + Len(Pad(n))) % 8 = 0
  <1> DEFINE k == 8 - (n % 8)
  <1>1. k \in 1 .. 8 /\ (n + k) % 8 = 0
    OBVIOUS
  <1>2. Byte(NUL) \in Field
    BY DEF Field, NUL
  <1>3. Pad(n) = [i \in 1 .. k |-> Byte(NUL)]
    BY DEF Pad
  <1> HIDE DEF k
  <1>4. Pad(n) \in [1 .. k -> Field] /\ k \in Nat
    BY <1>1, <1>2, <1>3
  <1>5. Pad(n) \in Seq(Field)
    BY <1>4, SeqDef
  <1>6. Len(Pad(n)) = k
    BY <1>4, <1>5, LenProperties
  <1> QED BY <1>1, <1>5, <1>6

\* The names of entries are sequences of bytes.
LEMMA EntryName ==
  ASSUME NEW e \in Entry
  PROVE  e.name \in Seq(Nat) /\ Len(e.name) \in Nat
  <1>1. e.name \in Seq(Nat \ {0})
    BY NamesAreBytes DEF Entry
  <1>2. e.name \in Seq(Nat)
    BY <1>1, SeqMonotonic
  <1> QED BY <1>2, LenProperties

\* What is stored of a name after a prefix is fields.
LEMMA SuffixIsFields ==
  ASSUME NEW e \in Entry, NEW p \in Nat
  PROVE  Suffix(e, p) \in Seq(Field)
  <1>1. e.name \in Seq(Nat) /\ Len(e.name) \in Nat
    BY EntryName
  <1>2. \A i \in p + 1 .. Len(e.name) : e.name[i] \in Nat
    BY <1>1, ElementOfSeq
  <1>3. SubSeq(e.name, p + 1, Len(e.name)) \in Seq(Nat)
    BY <1>1, <1>2, SubSeqProperties
  <1> QED BY <1>3, BytesAreFields DEF Suffix

\* The flags of an entry and its extended flags are fields.
LEMMA FlagsAreFields ==
  ASSUME NEW e \in Entry
  PROVE  Fixed \in Field /\ Flags(e) \in Field /\ ExtendedFlags(e) \in Field
  <1>1. FlagLength(e) \in Nat
    BY EntryName, NumbersAssumption DEF FlagLength
  <1>2. e.stage \in Stages /\ e.intent \in BOOLEAN /\ e.skip \in BOOLEAN
    BY DEF Entry
  <1>3. [stage |-> e.stage, extended |-> Extended(e), length |-> FlagLength(e)] \in FlagSet
    BY <1>1, <1>2 DEF FlagSet, Extended
  <1>4. Flags(e) \in Field
    BY <1>3 DEF Flags, Field
  <1>5. ExtendedFlags(e) \in Field
    BY <1>2 DEF ExtendedFlags, Field
  <1> QED BY <1>4, <1>5 DEF Field

\* What comes before the name.
LEMMA StartIsFields ==
  ASSUME NEW e \in Entry
  PROVE  /\ Start(e) \in Seq(Field)
         /\ ~Extended(e) => Start(e) = <<Fixed, Flags(e)>>
         /\ Extended(e) => Start(e) = <<Fixed, Flags(e), ExtendedFlags(e)>>
  <1>1. Fixed \in Field /\ Flags(e) \in Field /\ ExtendedFlags(e) \in Field
    BY FlagsAreFields
  <1> DEFINE a == <<Fixed, Flags(e)>>
             b == <<ExtendedFlags(e)>>
             c == <<Fixed, Flags(e), ExtendedFlags(e)>>
  <1>2. a \in Seq(Field) /\ b \in Seq(Field) /\ c \in Seq(Field)
    BY <1>1
  <1>3. a \o b = c
    <2>1. /\ Len(a) = 2 /\ Len(b) = 1 /\ Len(c) = 3
          /\ a[1] = c[1] /\ a[2] = c[2] /\ b[1] = c[3]
      OBVIOUS
    <2> HIDE DEF a, b, c
    <2>2. /\ a \o b \in Seq(Field) /\ Len(a \o b) = Len(a) + Len(b)
          /\ \A i \in 1 .. Len(a) + Len(b) :
               (a \o b)[i] = IF i <= Len(a) THEN a[i] ELSE b[i - Len(a)]
      BY <1>2, ConcatProperties, Zenon
    <2>3. ASSUME NEW i \in 1 .. 3 PROVE (a \o b)[i] = c[i]
      BY <2>1, <2>2
    <2> QED BY <1>2, <2>1, <2>2, <2>3, SeqEqual
  <1>4. a \o <<>> = a
    BY <1>2, ConcatEmptySeq
  <1>5. Start(e) = a \o (IF Extended(e) THEN b ELSE <<>>)
    BY DEF Start
  <1> HIDE DEF a, b, c
  <1>6. Start(e) = (IF Extended(e) THEN c ELSE a)
    BY <1>3, <1>4, <1>5
  <1> QED BY <1>2, <1>6 DEF a, c

\* What there may be before an entry.
Before == {<<>>} \cup {<<q>> : q \in Entry}

\* How many bytes of the entry before are stripped.
LEMMA Stripped ==
  ASSUME NEW e \in Entry, NEW q \in Entry
  PROVE  /\ CommonPrefix(q.name, e.name) \in Nat
         /\ Len(q.name) - CommonPrefix(q.name, e.name) \in Nat
  <1>1. e.name \in Seq(Nat) /\ q.name \in Seq(Nat) /\ Len(q.name) \in Nat
    BY EntryName
  <1>2. CommonPrefix(q.name, e.name) \in Nat /\ CommonPrefix(q.name, e.name) <= Len(q.name)
    BY <1>1, PrefixFits
  <1> QED BY <1>1, <1>2

\* The three parts of an entry of version 4 after its start.
Tail4(strip, e, prefix) == Bytes(Vlq(strip)) \o Suffix(e, prefix) \o <<Byte(NUL)>>

LEMMA Tail4IsFields ==
  ASSUME NEW e \in Entry, NEW strip \in Nat, NEW prefix \in Nat
  PROVE  /\ Bytes(Vlq(strip)) \in Seq(Field) /\ Suffix(e, prefix) \in Seq(Field)
         /\ <<Byte(NUL)>> \in Seq(Field)
         /\ Tail4(strip, e, prefix) \in Seq(Field)
  <1> DEFINE a == Bytes(Vlq(strip))
             b == Suffix(e, prefix)
             c == <<Byte(NUL)>>
  <1>1. a \in Seq(Field)
    BY VlqType, BytesAreFields
  <1>2. b \in Seq(Field)
    BY SuffixIsFields
  <1>3. c \in Seq(Field)
    <2>1. Byte(NUL) \in Field
      BY DEF Field, NUL
    <2> QED BY <2>1
  <1>4. Tail4(strip, e, prefix) = a \o b \o c
    BY DEF Tail4
  <1> HIDE DEF a, b, c
  <1>5. a \o b \in Seq(Field)
    BY <1>1, <1>2, ConcatProperties
  <1>6. (a \o b) \o c \in Seq(Field)
    BY <1>3, <1>5, ConcatProperties
  <1> QED BY <1>1, <1>2, <1>3, <1>4, <1>6 DEF a, b, c

\* The encoder's output for one entry, the cases written out.
LEMMA EncodeEntryIs ==
  ASSUME NEW e, NEW previous
  PROVE  /\ version = 4 /\ previous = <<>> =>
              EncodeEntry(e, previous) = Start(e) \o Tail4(0, e, 0)
         /\ version = 4 /\ previous # <<>> =>
              EncodeEntry(e, previous) = Start(e) \o
                Tail4(Len(previous[1].name) - CommonPrefix(previous[1].name, e.name),
                      e, CommonPrefix(previous[1].name, e.name))
         /\ version # 4 =>
              EncodeEntry(e, previous) =
                Start(e) \o (Bytes(e.name) \o Pad(EntryLength(e) + Len(e.name)))
  BY DEF EncodeEntry, Tail4

\* An entry of versions 2 and 3 after its start.
LEMMA TailIsFields ==
  ASSUME NEW e \in Entry
  PROVE  /\ Bytes(e.name) \in Seq(Field)
         /\ Pad(EntryLength(e) + Len(e.name)) \in Seq(Field)
         /\ Bytes(e.name) \o Pad(EntryLength(e) + Len(e.name)) \in Seq(Field)
  <1>1. e.name \in Seq(Nat) /\ Len(e.name) \in Nat
    BY EntryName
  <1>2. EntryLength(e) + Len(e.name) \in Nat
    <2>1. EntryLength(e) \in {62 + 2, 62 + 0}
      BY DEF EntryLength, EntryHeader
    <2> QED BY <1>1, <2>1
  <1>3. Bytes(e.name) \in Seq(Field)
    BY <1>1, BytesAreFields
  <1>4. Pad(EntryLength(e) + Len(e.name)) \in Seq(Field)
    BY <1>2, PadAligns
  <1> QED BY <1>3, <1>4, ConcatProperties

\* What the encoder writes for an entry is fields.
LEMMA EncodesFields ==
  ASSUME NEW e \in Entry, NEW previous \in Before
  PROVE  EncodeEntry(e, previous) \in Seq(Field)
  <1> DEFINE start == Start(e)
  <1>1. start \in Seq(Field)
    BY StartIsFields
  <1>2. CASE version = 4 /\ previous = <<>>
    <2> DEFINE tail == Tail4(0, e, 0)
    <2>1. tail \in Seq(Field)
      BY Tail4IsFields
    <2>2. EncodeEntry(e, previous) = start \o tail
      BY <1>2, EncodeEntryIs
    <2> HIDE DEF start, tail
    <2> QED BY <1>1, <2>1, <2>2, ConcatProperties
  <1>3. CASE version = 4 /\ previous # <<>>
    <2>1. PICK q \in Entry : previous = <<q>>
      BY <1>3 DEF Before
    <2> DEFINE prefix == CommonPrefix(q.name, e.name)
               tail == Tail4(Len(q.name) - prefix, e, prefix)
    <2>2. prefix \in Nat /\ Len(q.name) - prefix \in Nat
      BY Stripped
    <2>3. EncodeEntry(e, previous) = start \o tail
      <3>1. previous[1] = q
        BY <2>1
      <3> QED BY <1>3, <3>1, EncodeEntryIs
    <2>4. tail \in Seq(Field)
      <3> HIDE DEF prefix
      <3> QED BY <2>2, Tail4IsFields
    <2> HIDE DEF start, tail
    <2> QED BY <1>1, <2>3, <2>4, ConcatProperties
  <1>4. CASE version # 4
    <2> DEFINE tail == Bytes(e.name) \o Pad(EntryLength(e) + Len(e.name))
    <2>1. tail \in Seq(Field)
      BY TailIsFields
    <2>2. EncodeEntry(e, previous) = start \o tail
      BY <1>4, EncodeEntryIs
    <2> HIDE DEF start, tail
    <2> QED BY <1>1, <2>1, <2>2, ConcatProperties
  <1> QED BY <1>2, <1>3, <1>4

-----------------------------------------------------------------------------
\* The generator writes what the encoder writes.

\* Concatenations, however they are put in parentheses.
LEMMA Regroup == \A a, b, c \in Seq(Field) : (a \o b) \o c = a \o (b \o c)
  OBVIOUS

\* The flags the generator writes out.
LEMMA GeneratedFlags ==
  ASSUME NEW e \in Entry, Generable(e)
  PROVE  /\ ~Extended(e) =>
              <<"flags", [stage |-> 0, extended |-> FALSE, length |-> FlagLength(e)]>>
              = Flags(e)
         /\ Extended(e) =>
              <<"flags", [stage |-> 0, extended |-> TRUE, length |-> FlagLength(e)]>>
              = Flags(e)
  <1>1. Extended(e) \in BOOLEAN
    BY DEF Extended, Entry
  <1> QED BY <1>1 DEF Flags, Generable

\* The length of an entry before its name.
LEMMA EntryLengthIs ==
  ASSUME NEW e
  PROVE  /\ Extended(e) => EntryLength(e) = EntryHeader + 2
         /\ ~Extended(e) => EntryLength(e) = EntryHeader
  <1>1. EntryHeader + 0 = EntryHeader
    BY DEF EntryHeader
  <1> QED BY <1>1 DEF EntryLength

\* An entry without extended flags and one with them.
LEMMA V2IsEncoded ==
  ASSUME NEW e \in Entry, NEW previous, Generable(e), version # 4, ~Extended(e)
  PROVE  V2Entry(e) = EncodeEntry(e, previous)
  <1> DEFINE a == <<Fixed, Flags(e)>>
             b == Bytes(e.name)
             c == Pad(EntryLength(e) + Len(e.name))
  <1>1. V2Entry(e) = a \o b \o c
    BY GeneratedFlags, EntryLengthIs DEF V2Entry
  <1>2. Start(e) = a /\ a \in Seq(Field)
    BY StartIsFields
  <1>3. EncodeEntry(e, previous) = Start(e) \o (b \o c)
    BY EncodeEntryIs
  <1>4. b \in Seq(Field) /\ c \in Seq(Field)
    BY TailIsFields
  <1> HIDE DEF a, b, c
  <1> QED BY <1>1, <1>2, <1>3, <1>4, Regroup

LEMMA V3IsEncoded ==
  ASSUME NEW e \in Entry, NEW previous, Generable(e), version # 4, Extended(e)
  PROVE  V3Ext(e) = EncodeEntry(e, previous)
  <1> DEFINE a == <<Fixed, Flags(e), ExtendedFlags(e)>>
             b == Bytes(e.name)
             c == Pad(EntryLength(e) + Len(e.name))
  <1>1. V3Ext(e) = a \o b \o c
    BY GeneratedFlags, EntryLengthIs DEF V3Ext
  <1>2. Start(e) = a /\ a \in Seq(Field)
    BY StartIsFields
  <1>3. EncodeEntry(e, previous) = Start(e) \o (b \o c)
    BY EncodeEntryIs
  <1>4. b \in Seq(Field) /\ c \in Seq(Field)
    BY TailIsFields
  <1> HIDE DEF a, b, c
  <1> QED BY <1>1, <1>2, <1>3, <1>4, Regroup

\* An entry of version 4: the first one shares nothing with the empty name the
\* generator starts from, and the encoder writes it without an entry before.
LEMMA V4IsEncoded ==
  ASSUME NEW e \in Entry, NEW previous \in Before, Generable(e), version = 4
  PROVE  V4Entry(e, previous) = EncodeEntry(e, previous)
  <1> DEFINE prev == IF previous = <<>> THEN <<>> ELSE previous[1].name
             prefix == CommonPrefix(prev, e.name)
             a == <<Fixed, Flags(e)>>
             b == Bytes(Vlq(Len(prev) - prefix))
             c == Suffix(e, prefix)
             d == <<Byte(NUL)>>
  <1>1. ~Extended(e)
    BY DEF Generable
  <1>2. V4Entry(e, previous) = a \o b \o c \o d
    BY <1>1, GeneratedFlags DEF V4Entry
  <1>3. Start(e) = a /\ a \in Seq(Field)
    BY <1>1, StartIsFields
  <1>4. prefix \in Nat /\ Len(prev) - prefix \in Nat
    <2>1. CASE previous = <<>>
      <3>1. prev = <<>> /\ Len(prev) = 0
        BY <2>1
      <3>2. prefix = 0
        BY <3>1, NoPrefix, EntryName
      <3> HIDE DEF prefix, prev
      <3> QED BY <3>1, <3>2
    <2>2. CASE previous # <<>>
      <3>1. PICK q \in Entry : previous = <<q>>
        BY <2>2 DEF Before
      <3>2. prev = q.name
        BY <3>1, <2>2
      <3> HIDE DEF prev
      <3> QED BY <3>2, Stripped
    <2> QED BY <2>1, <2>2
  <1>5. EncodeEntry(e, previous) = Start(e) \o Tail4(Len(prev) - prefix, e, prefix)
    <2>1. CASE previous = <<>>
      <3>1. prev = <<>> /\ Len(prev) = 0
        BY <2>1
      <3>2. prefix = 0
        BY <3>1, NoPrefix, EntryName
      <3>3. Len(prev) - prefix = 0
        <4> HIDE DEF prev, prefix
        <4> QED BY <3>1, <3>2
      <3> HIDE DEF prev, prefix
      <3> QED BY <2>1, <3>2, <3>3, EncodeEntryIs
    <2>2. CASE previous # <<>>
      <3>1. prev = previous[1].name
        BY <2>2
      <3> HIDE DEF prev
      <3> QED BY <2>2, <3>1, EncodeEntryIs
    <2> QED BY <2>1, <2>2
  <1>6. Tail4(Len(prev) - prefix, e, prefix) = b \o c \o d
    BY DEF Tail4
  <1>7. b \in Seq(Field) /\ c \in Seq(Field) /\ d \in Seq(Field)
    <2> HIDE DEF prev, prefix
    <2> QED BY <1>4, Tail4IsFields
  <1> HIDE DEF a, b, c, d, prev, prefix
  <1>8. EncodeEntry(e, previous) = a \o ((b \o c) \o d)
    BY <1>3, <1>5, <1>6
  <1>9. ((a \o b) \o c) \o d = a \o ((b \o c) \o d)
    <2>1. a \in Seq(Field)
      BY <1>3
    <2>2. (a \o b) \o c = a \o (b \o c)
      BY <1>7, <2>1, Regroup
    <2>3. b \o c \in Seq(Field)
      BY <1>7, ConcatProperties, Zenon
    <2>4. (a \o (b \o c)) \o d = a \o ((b \o c) \o d)
      BY <1>7, <2>1, <2>3, Regroup
    <2> QED BY <2>2, <2>4
  <1> QED BY <1>2, <1>8, <1>9

\* The generator and the encoder agree on every entry the generator is given.
LEMMA SameEntry ==
  ASSUME NEW e \in Entry, NEW previous \in Before, Generable(e), version \in {2, 3, 4}
  PROVE  GenerateEntry(e, previous) = EncodeEntry(e, previous)
  <1>1. CASE version = 4
    BY <1>1, V4IsEncoded DEF GenerateEntry
  <1>2. CASE version # 4 /\ Extended(e)
    BY <1>2, V3IsEncoded DEF GenerateEntry
  <1>3. CASE version # 4 /\ ~Extended(e)
    BY <1>3, V2IsEncoded DEF GenerateEntry
  <1> QED BY <1>1, <1>2, <1>3

-----------------------------------------------------------------------------
\* The layout.

\* What the encoder writes for an entry in version v.
EncodeFor(v, e, previous) ==
  LET prefix == IF previous = <<>> THEN 0 ELSE CommonPrefix(previous[1].name, e.name)
      strip == IF previous = <<>> THEN 0 ELSE Len(previous[1].name) - prefix
  IN  Start(e)
      \o IF v = 4
         THEN Bytes(Vlq(strip)) \o Suffix(e, prefix) \o <<Byte(NUL)>>
         ELSE Bytes(e.name) \o Pad(EntryLength(e) + Len(e.name))

LEMMA EncodeForIs ==
  ASSUME NEW e, NEW previous
  PROVE  EncodeFor(version, e, previous) = EncodeEntry(e, previous)
  BY DEF EncodeFor, EncodeEntry

\* f maps a number of entries to what the encoder writes for the first that many.
Encoded(v, f, s) ==
  f = [i \in 0 .. Len(s) |->
         IF i = 0 THEN <<>>
         ELSE f[i - 1] \o EncodeFor(v, s[i], IF i = 1 THEN <<>> ELSE <<s[i - 1]>>)]

\* There is only one such f.
LEMMA EncodedOnce ==
  ASSUME NEW v, NEW s \in Seq(Entry), NEW f, NEW g, Encoded(v, f, s), Encoded(v, g, s)
  PROVE  f = g
  <1> DEFINE T == {i \in 0 .. Len(s) : f[i] # g[i]}
             After(h, i) == h[i - 1] \o EncodeFor(v, s[i], IF i = 1 THEN <<>> ELSE <<s[i - 1]>>)
  <1>1. Len(s) \in Nat
    BY LenProperties
  <1>2. ASSUME NEW i \in 0 .. Len(s)
        PROVE  /\ f[i] = IF i = 0 THEN <<>> ELSE After(f, i)
               /\ g[i] = IF i = 0 THEN <<>> ELSE After(g, i)
    BY DEF Encoded
  <1>3. T = {}
    <2> SUFFICES ASSUME T # {} PROVE FALSE
      OBVIOUS
    <2>1. PICK m \in T : \A k \in T : m <= k
      <3>1. T \in SUBSET Nat
        BY <1>1
      <3> HIDE DEF T
      <3> QED BY <3>1, LeastExists
    <2>2. m \in 0 .. Len(s) /\ f[m] # g[m]
      OBVIOUS
    <2>3. m # 0
      BY <1>2, <2>2
    <2>4. m - 1 \in 0 .. Len(s) /\ ~(m <= m - 1)
      BY <1>1, <2>2, <2>3
    <2>5. f[m - 1] = g[m - 1]
      BY <2>1, <2>4
    <2>6. After(f, m) = After(g, m)
      BY <2>5
    <2> HIDE DEF After
    <2> QED BY <1>2, <2>2, <2>3, <2>6
  <1>4. f = [i \in 0 .. Len(s) |-> f[i]] /\ g = [i \in 0 .. Len(s) |-> g[i]]
    BY DEF Encoded
  <1>5. \A i \in 0 .. Len(s) : f[i] = g[i]
    BY <1>3
  <1> QED BY <1>4, <1>5

\* What is written for one entry more.
LEMMA EncodedGrows ==
  ASSUME NEW v, NEW s \in Seq(Entry), NEW e \in Entry, NEW f, Encoded(v, f, s)
  PROVE  \E g : /\ Encoded(v, g, Append(s, e))
                /\ g[Len(Append(s, e))] =
                     f[Len(s)] \o EncodeFor(v, e, IF s = <<>> THEN <<>> ELSE <<Last(s)>>)
  <1> DEFINE n == Len(s)
             t == Append(s, e)
             before == IF s = <<>> THEN <<>> ELSE <<Last(s)>>
             After(h, r, i) == h[i - 1] \o
                                EncodeFor(v, r[i], IF i = 1 THEN <<>> ELSE <<r[i - 1]>>)
             g == [i \in 0 .. n + 1 |->
                     IF i = n + 1 THEN f[n] \o EncodeFor(v, e, before) ELSE f[i]]
  <1>1. /\ n \in Nat /\ Len(t) = n + 1 /\ t[n + 1] = e
        /\ \A i \in 1 .. n : t[i] = s[i]
    BY LenProperties, AppendProperties
  <1>2. before = IF n + 1 = 1 THEN <<>> ELSE <<t[n]>>
    <2>1. CASE s = <<>>
      BY <2>1
    <2>2. CASE s # <<>>
      <3>1. n # 0 /\ Last(s) = s[n]
        BY <2>2, EmptySeq DEF Last
      <3>2. t[n] = s[n] /\ n + 1 # 1
        BY <1>1, <3>1
      <3> QED BY <2>2, <3>1, <3>2
    <2> QED BY <2>1, <2>2
  <1>3. ASSUME NEW i \in 0 .. n
        PROVE  f[i] = IF i = 0 THEN <<>> ELSE After(f, s, i)
    BY DEF Encoded
  <1> HIDE DEF n, t, before
  <1>4. /\ g[n + 1] = f[n] \o EncodeFor(v, e, before)
        /\ \A i \in 0 .. n : g[i] = f[i]
    BY <1>1
  <1>5. ASSUME NEW i \in 0 .. n + 1
        PROVE  g[i] = IF i = 0 THEN <<>> ELSE After(g, t, i)
    <2>1. CASE i = n + 1
      <3>1. i # 0 /\ i - 1 = n /\ n \in 0 .. n
        BY <1>1, <2>1
      <3>2. g[i - 1] = f[n]
        BY <1>4, <3>1
      <3>3. (IF i = 1 THEN <<>> ELSE <<t[i - 1]>>) = before
        BY <1>2, <2>1, <3>1
      <3> HIDE DEF g
      <3> QED BY <1>1, <1>4, <2>1, <3>1, <3>2, <3>3
    <2>2. CASE i # n + 1
      <3>1. i \in 0 .. n
        BY <1>1, <2>2
      <3>2. CASE i = 0
        BY <1>3, <1>4, <3>1, <3>2
      <3>3. CASE i # 0
        <4>1. i \in 1 .. n /\ i - 1 \in 0 .. n
          BY <1>1, <3>1, <3>3
        <4>2. t[i] = s[i] /\ g[i - 1] = f[i - 1]
          BY <1>1, <1>4, <4>1
        <4>3. (IF i = 1 THEN <<>> ELSE <<t[i - 1]>>) = IF i = 1 THEN <<>> ELSE <<s[i - 1]>>
          <5>1. i # 1 => i - 1 \in 1 .. n
            BY <4>1
          <5> QED BY <1>1, <5>1
        <4>4. After(g, t, i) = After(f, s, i)
          BY <4>2, <4>3
        <4> HIDE DEF g, After
        <4> QED BY <1>3, <1>4, <3>1, <3>3, <4>4
      <3> QED BY <3>2, <3>3
    <2> QED BY <2>1, <2>2
  <1>6. Encoded(v, g, t)
    <2>1. g = [i \in 0 .. n + 1 |-> g[i]]
      OBVIOUS
    <2> HIDE DEF g
    <2> QED BY <1>1, <1>5, <2>1 DEF Encoded
  <1> HIDE DEF g
  <1> QED BY <1>1, <1>4, <1>6 DEF n, t, before

LayoutInv ==
  /\ version \in {2, 3, 4}
  /\ entries \in Seq(Entry)
  /\ \E f : Encoded(version, f, entries) /\ body = f[Len(entries)]

LEMMA LayoutStarts == Init => LayoutInv
  <1> SUFFICES ASSUME Init PROVE LayoutInv
    OBVIOUS
  <1> DEFINE f == [i \in 0 .. 0 |-> <<>>]
  <1>1. entries = <<>> /\ Len(entries) = 0 /\ entries \in Seq(Entry)
    BY EmptySeq DEF Init
  <1>2. \A i \in 0 .. 0 : i = 0
    OBVIOUS
  <1>3. Encoded(version, f, entries)
    BY <1>1, <1>2 DEF Encoded
  <1>4. body = f[Len(entries)]
    BY <1>1 DEF Init
  <1> HIDE DEF f
  <1> QED BY <1>1, <1>3, <1>4 DEF Init, LayoutInv

\* The entry before, for the writer.
LEMMA PreviousIs ==
  ASSUME entries \in Seq(Entry)
  PROVE  /\ Previous \in Before
         /\ Previous = IF entries = <<>> THEN <<>> ELSE <<Last(entries)>>
  <1>1. CASE entries = <<>>
    BY <1>1 DEF Previous, Before
  <1>2. CASE entries # <<>>
    <2>1. Last(entries) \in Entry
      <3>1. Len(entries) \in 1 .. Len(entries)
        BY <1>2, EmptySeq, LenProperties
      <3> QED BY <3>1, ElementOfSeq DEF Last
    <2> QED BY <1>2, <2>1 DEF Previous, Before
  <1> QED BY <1>1, <1>2

\* Both writers add what the encoder writes.
LEMMA WriteEncodes ==
  ASSUME LayoutInv, NEW e \in Entry, Write(e)
  PROVE  body' = body \o EncodeEntry(e, Previous)
  <1>1. Previous \in Before
    BY PreviousIs DEF LayoutInv
  <1>2. CASE writer = "encoder" /\ body' = body \o EncodeEntry(e, Previous)
    BY <1>2
  <1>3. CASE /\ writer = "generator" /\ Generable(e)
             /\ body' = body \o GenerateEntry(e, Previous)
    BY <1>1, <1>3, SameEntry DEF LayoutInv
  <1> QED BY <1>2, <1>3 DEF Write

LEMMA WriteKeepsLayout ==
  ASSUME LayoutInv, NEW e \in Entry, Write(e)
  PROVE  LayoutInv'
  <1>1. /\ version' = version /\ entries' = Append(entries, e)
        /\ version \in {2, 3, 4} /\ entries \in Seq(Entry)
    BY DEF Write, LayoutInv
  <1>2. PICK f : Encoded(version, f, entries) /\ body = f[Len(entries)]
    BY DEF LayoutInv
  <1>3. PICK g : /\ Encoded(version, g, Append(entries, e))
                 /\ g[Len(Append(entries, e))] =
                      f[Len(entries)] \o
                        EncodeFor(version, e, IF entries = <<>> THEN <<>> ELSE <<Last(entries)>>)
    BY <1>1, <1>2, EncodedGrows
  <1>4. body' = f[Len(entries)] \o EncodeFor(version, e, Previous)
    BY <1>2, WriteEncodes, EncodeForIs
  <1>5. g[Len(entries')] = body'
    BY <1>1, <1>3, <1>4, PreviousIs
  <1>6. entries' \in Seq(Entry)
    BY <1>1, AppendProperties
  <1> QED BY <1>1, <1>3, <1>5, <1>6 DEF LayoutInv

LEMMA LayoutKept == LayoutInv /\ [Next]_vars => LayoutInv'
  <1> SUFFICES ASSUME LayoutInv, [Next]_vars PROVE LayoutInv'
    OBVIOUS
  <1>1. ASSUME NEW e \in Entry, Write(e) PROVE LayoutInv'
    BY <1>1, WriteKeepsLayout
  <1>2. CASE UNCHANGED <<version, entries, body>>
    BY <1>2 DEF LayoutInv
  <1>3. CASE Finish \/ Tear \/ ReadHeader \/ ReadEntry \/ ReadChecksum \/ UNCHANGED vars
    BY <1>2, <1>3 DEF Finish, Tear, ReadHeader, ReadEntry, ReadChecksum, vars
  <1> QED BY <1>1, <1>3 DEF Next

LEMMA LayoutIsSame == LayoutInv => SameLayout
  <1> SUFFICES ASSUME LayoutInv PROVE SameLayout
    OBVIOUS
  <1> DEFINE g == CHOOSE g : Encoded(version, g, entries)
  <1>1. PICK f : Encoded(version, f, entries) /\ body = f[Len(entries)]
    BY DEF LayoutInv
  <1>2. Encoded(version, g, entries)
    BY <1>1
  <1>3. SameLayout <=> body = g[Len(entries)]
    BY DEF SameLayout, Encoded, EncodeFor, EncodeEntry
  <1> HIDE DEF g
  <1>4. f = g
    BY <1>1, <1>2, EncodedOnce DEF LayoutInv
  <1> QED BY <1>1, <1>3, <1>4

\* Whoever writes an index, for any names, stages and number of entries, its
\* body is byte for byte what the encoder writes for the same entries: the
\* second copy of the layout, in the script that makes the fixtures, agrees
\* with the encoder it is the reference for.
THEOREM GeneratorFollowsEncoder == Spec => []SameLayout
  <1>1. Spec => []LayoutInv
    BY LayoutStarts, LayoutKept, PTL DEF Spec
  <1> QED BY <1>1, LayoutIsSame, PTL

-----------------------------------------------------------------------------
\* A file that was cut short.

Whole == Field \cup Opening

\* No field of a body or header is a checksum, and flags hold a length.
LEMMA FieldTags ==
  ASSUME NEW x \in Whole
  PROVE  x[1] # "sum" /\ (x[1] = "flags" => x[2].length \in Nat)
  <1>1. CASE x = Fixed
    BY <1>1 DEF Fixed
  <1>2. CASE x \in {<<"flags", f>> : f \in FlagSet}
    <2>1. PICK f \in FlagSet : x = <<"flags", f>>
      BY <1>2
    <2>2. f.length \in Nat
      BY DEF FlagSet
    <2>3. x[1] = "flags" /\ x[2] = f
      BY <2>1
    <2> QED BY <2>2, <2>3
  <1>3. CASE x \in {<<"extended", y>> : y \in [intent : BOOLEAN, skip : BOOLEAN]}
    BY <1>3
  <1>4. CASE x \in {Byte(b) : b \in Nat}
    BY <1>4 DEF Byte
  <1>5. CASE x \in Opening
    BY <1>5 DEF Opening
  <1> QED BY <1>1, <1>2, <1>3, <1>4, <1>5 DEF Whole, Field

TornInv ==
  /\ LayoutInv
  /\ body \in Seq(Field)
  /\ ~torn /\ image # <<>> => \E s \in Seq(Whole), c \in Checksum : image = s \o <<c>>
  /\ torn => image \in Seq(Whole) /\ pos \in Int /\ outcome # "decoded"

LEMMA TornStarts == Init => TornInv
  BY LayoutStarts, EmptySeq DEF Init, TornInv

LEMMA WriteKeepsTorn ==
  ASSUME TornInv, LayoutInv', NEW e \in Entry, Write(e)
  PROVE  TornInv'
  <1>1. LayoutInv /\ body \in Seq(Field)
    BY DEF TornInv
  <1>2. body' = body \o EncodeEntry(e, Previous)
    BY <1>1, WriteEncodes
  <1>3. EncodeEntry(e, Previous) \in Seq(Field)
    BY <1>1, PreviousIs, EncodesFields DEF LayoutInv
  <1>4. body' \in Seq(Field)
    BY <1>1, <1>2, <1>3, ConcatProperties
  <1>5. image' = <<>> /\ image' = image /\ torn' = torn /\ ~torn
    BY DEF Write
  <1> QED BY <1>4, <1>5 DEF TornInv

LEMMA FinishKeepsTorn ==
  ASSUME TornInv, LayoutInv', Finish
  PROVE  TornInv'
  <1> DEFINE s == <<Header>> \o body
             c == <<"sum", s>>
  <1>1. /\ LayoutInv /\ body \in Seq(Field) /\ body' = body
        /\ torn' = torn /\ ~torn /\ image' = s \o <<c>>
    BY DEF TornInv, Finish
  <1>2. Len(entries) \in Nat
    BY <1>1, LenProperties DEF LayoutInv
  <1>3. Header \in Opening
    BY <1>1, <1>2 DEF Header, Opening, LayoutInv
  <1>4. <<Header>> \in Seq(Whole)
    BY <1>3 DEF Whole
  <1>5. body \in Seq(Whole)
    BY <1>1, SeqMonotonic DEF Whole
  <1>6. s \in Seq(Whole)
    BY <1>4, <1>5, ConcatProperties
  <1> HIDE DEF s
  <1>7. c \in Checksum
    BY <1>6 DEF Checksum, Whole
  <1> HIDE DEF c
  <1> QED BY <1>1, <1>6, <1>7 DEF TornInv

\* What is left of the file lost its checksum at least.
LEMMA TearKeepsTorn ==
  ASSUME TornInv, LayoutInv', Tear
  PROVE  TornInv'
  <1>1. /\ image # <<>> /\ ~torn /\ torn' /\ pos' = pos /\ pos = 0
        /\ body' = body /\ body \in Seq(Field)
        /\ outcome' = outcome /\ outcome = "reading"
    BY DEF TornInv, Tear
  <1>2. PICK n \in 0 .. Len(image) - 1 : image' = SubSeq(image, 1, n)
    BY DEF Tear
  <1>3. PICK s \in Seq(Whole), c \in Checksum : image = s \o <<c>>
    BY <1>1 DEF TornInv
  <1> DEFINE S == Whole \cup Checksum
             t == <<c>>
  <1>4. s \in Seq(S) /\ t \in Seq(S) /\ Len(t) = 1
    <2>1. s \in Seq(S)
      BY SeqMonotonic
    <2>2. c \in S
      OBVIOUS
    <2> HIDE DEF S
    <2> QED BY <2>1, <2>2
  <1>5. Len(s) \in Nat
    BY LenProperties
  <1>6. image = s \o t
    BY <1>3
  <1> HIDE DEF S, t
  <1>7. /\ Len(image) = Len(s) + 1
        /\ \A i \in 1 .. Len(s) + 1 : image[i] = IF i <= Len(s) THEN s[i] ELSE t[i - Len(s)]
    <2>1. /\ Len(s \o t) = Len(s) + Len(t)
          /\ \A i \in 1 .. Len(s) + Len(t) :
               (s \o t)[i] = IF i <= Len(s) THEN s[i] ELSE t[i - Len(s)]
      BY <1>4, ConcatProperties, Zenon
    <2> QED BY <1>4, <1>6, <2>1
  <1>8. ASSUME NEW i \in 1 .. n PROVE image[i] \in Whole
    <2>1. i \in 1 .. Len(s) /\ i \in 1 .. Len(s) + 1 /\ i <= Len(s)
      BY <1>2, <1>5, <1>7
    <2>2. image[i] = s[i]
      BY <1>7, <2>1
    <2> QED BY <2>1, <2>2, ElementOfSeq
  <1>9. image' \in Seq(Whole)
    <2>1. n \in Int
      BY <1>2
    <2> QED BY <1>2, <1>8, <2>1, SubSeqProperties
  <1>10. pos' \in Int /\ outcome' # "decoded"
    BY <1>1
  <1> QED BY <1>1, <1>9, <1>10 DEF TornInv

\* What is read up to a field is as long as the fields that were read.
LEMMA UntilLength ==
  ASSUME NEW i \in Nat, NEW j \in Int, i <= j
  PROVE  Len(Until(i, j)) = j - i
  <1> DEFINE S == {image[i + k - 1][2] : k \in 1 .. j - i}
  <1>1. j - i \in Nat
    OBVIOUS
  <1>2. Until(i, j) \in [1 .. j - i -> S]
    BY DEF Until
  <1> HIDE DEF S
  <1>3. Until(i, j) \in Seq(S)
    BY <1>1, <1>2, SeqDef
  <1>4. DOMAIN Until(i, j) = 1 .. j - i /\ DOMAIN Until(i, j) = 1 .. Len(Until(i, j))
    BY <1>2, <1>3, LenProperties
  <1>5. Len(Until(i, j)) \in Nat
    BY <1>3, LenProperties
  <1> QED BY <1>1, <1>4, <1>5

\* The first NUL is at a number.
LEMMA FirstNul ==
  ASSUME image \in Seq(Whole), NEW i \in Nat, NulAfter(i) # {}
  PROVE  Min(NulAfter(i)) \in Nat /\ i <= Min(NulAfter(i))
  <1>1. Len(image) \in Nat
    BY LenProperties
  <1>2. NulAfter(i) \in SUBSET Nat /\ \A j \in NulAfter(i) : i <= j
    BY <1>1 DEF NulAfter
  <1> QED BY <1>2, MinExists

\* A name that could be read has a length and a field it ends at.
LEMMA ReadNameEnds ==
  ASSUME image \in Seq(Whole), NEW length \in Nat, NEW i \in Nat,
         ReadName(length, i).ok
  PROVE  ReadName(length, i).next \in Int /\ Len(ReadName(length, i).name) \in Int
  <1> DEFINE end == Min(NulAfter(i))
  <1>1. CASE length = NameMask
    <2>1. NulAfter(i) # {} /\ ReadName(length, i) = NameRead(Until(i, end), end + 1)
      BY <1>1 DEF ReadName, NoName
    <2>2. end \in Nat /\ i <= end
      BY <2>1, FirstNul
    <2>3. /\ ReadName(length, i).next = end + 1
          /\ ReadName(length, i).name = Until(i, end)
      BY <2>1 DEF NameRead
    <2> HIDE DEF end
    <2>4. Len(Until(i, end)) = end - i
      BY <2>2, UntilLength
    <2> QED BY <2>2, <2>3, <2>4
  <1>2. CASE length # NameMask
    <2>1. ReadName(length, i) = NameRead(Until(i, i + length), i + length)
      BY <1>2 DEF ReadName, NoName
    <2>2. /\ ReadName(length, i).next = i + length
          /\ ReadName(length, i).name = Until(i, i + length)
      BY <2>1 DEF NameRead
    <2>3. i + length \in Int /\ i <= i + length
      OBVIOUS
    <2>4. Len(Until(i, i + length)) = (i + length) - i
      BY <2>3, UntilLength
    <2> QED BY <2>2, <2>3, <2>4
  <1> QED BY <1>1, <1>2

LEMMA ReadNameV4Ends ==
  ASSUME image \in Seq(Whole), NEW i \in Nat, ReadNameV4(i).ok
  PROVE  ReadNameV4(i).next \in Int
  <1> DEFINE lasts == {j \in i .. Len(image) : AreBytes(i, j) /\ image[j][2] < Base}
             last == Min(lasts)
             end == Min(NulAfter(last + 1))
             keep == Len(LastName) - Number(i, last)
             name == SubSeq(LastName, 1, keep) \o Until(last + 1, end)
  <1>1. /\ lasts # {} /\ NulAfter(last + 1) # {}
        /\ ReadNameV4(i) = NameRead(name, end + 1)
    BY DEF ReadNameV4, NoName
  <1>2. ReadNameV4(i).next = end + 1
    BY <1>1 DEF NameRead
  <1>3. last \in Nat
    <2>1. Len(image) \in Nat
      BY LenProperties
    <2>2. lasts \in SUBSET Nat
      BY <2>1
    <2> HIDE DEF lasts
    <2> QED BY <1>1, <2>2, MinExists
  <1>4. end \in Nat
    <2> HIDE DEF last
    <2>1. last + 1 \in Nat
      BY <1>3
    <2> QED BY <1>1, <2>1, FirstNul
  <1> HIDE DEF end
  <1> QED BY <1>2, <1>4

\* The decoder's place in a file that was cut short is a number.
LEMMA ReadEntryKeepsTorn ==
  ASSUME TornInv, LayoutInv', ReadEntry
  PROVE  TornInv'
  <1>1. /\ body' = body /\ body \in Seq(Field) /\ torn' = torn /\ image' = image
        /\ version \in {2, 3, 4}
    BY DEF TornInv, LayoutInv, ReadEntry
  <1>2. CASE ~torn
    BY <1>1, <1>2 DEF TornInv
  <1>3. CASE torn
    <2>1. /\ image \in Seq(Whole) /\ pos \in Nat /\ pos > 0 /\ Len(image) \in Nat
          /\ outcome # "decoded"
      <3>1. image \in Seq(Whole) /\ pos \in Int /\ outcome # "decoded"
        BY <1>3 DEF TornInv
      <3>2. pos > 0
        BY DEF ReadEntry
      <3> QED BY <3>1, <3>2, LenProperties
    <2> DEFINE flags == image[pos + 2][2]
               fixed == IF Has(pos + 2, "flags") /\ flags.extended THEN 3 ELSE 2
               start == pos + fixed + 1
               read == IF version = 4 THEN ReadNameV4(start) ELSE ReadName(flags.length, start)
               size == EntryHeader + (IF fixed = 3 THEN 2 ELSE 0) + Len(read.name)
               left == PaddingLeft(size, read.name, read.next - start)
    <2>2. CASE Fail
      BY <1>1, <1>3, <2>1, <2>2 DEF TornInv, Fail
    <2>3. CASE ~Fail
      <3>1. /\ Has(pos + 2, "flags") /\ read.ok
            /\ pos' = read.next - 1 + (IF left > 0 THEN left ELSE 0)
            /\ outcome' = outcome
        BY <2>3 DEF ReadEntry
      <3>2. flags.length \in Nat
        <4>1. pos + 2 \in 1 .. Len(image) /\ image[pos + 2][1] = "flags"
          BY <2>1, <3>1 DEF Has
        <4>2. image[pos + 2] \in Whole
          BY <2>1, <4>1, ElementOfSeq
        <4> QED BY <4>1, <4>2, FieldTags
      <3>3. start \in Nat /\ (IF fixed = 3 THEN 2 ELSE 0) \in {2, 0}
        <4>1. fixed \in {2, 3}
          OBVIOUS
        <4> HIDE DEF fixed
        <4> QED BY <2>1, <4>1
      <3> HIDE DEF flags, fixed, start
      <3>4. read.next \in Int /\ (version # 4 => Len(read.name) \in Int)
        <4>1. CASE version = 4
          BY <2>1, <3>1, <3>3, <4>1, ReadNameV4Ends
        <4>2. CASE version # 4
          BY <2>1, <3>1, <3>2, <3>3, <4>2, ReadNameEnds
        <4> QED BY <4>1, <4>2
      <3> HIDE DEF read
      <3>5. left \in Int
        <4>1. CASE version = 4
          BY <4>1 DEF PaddingLeft
        <4>2. CASE version # 4
          <5>1. left = 8 - (size % 8) - (read.next - start - Len(read.name))
            BY <4>2 DEF PaddingLeft
          <5>2. size \in Int
            <6> DEFINE x == IF fixed = 3 THEN 2 ELSE 0
            <6>1. x \in {2, 0} /\ Len(read.name) \in Int
              BY <3>3, <3>4, <4>2
            <6>2. size = 62 + x + Len(read.name)
              BY DEF EntryHeader
            <6> HIDE DEF x, size
            <6> QED BY <6>1, <6>2
          <5> HIDE DEF left, size
          <5>3. size % 8 \in Int
            BY <5>2
          <5> QED BY <3>3, <3>4, <4>2, <5>1, <5>3
        <4> QED BY <4>1, <4>2
      <3> HIDE DEF left
      <3>6. pos' \in Int
        <4>1. (IF left > 0 THEN left ELSE 0) \in Int
          BY <3>5
        <4> QED BY <3>1, <3>4, <4>1
      <3> QED BY <1>1, <1>3, <2>1, <3>1, <3>6 DEF TornInv
    <2> QED BY <2>2, <2>3
  <1> QED BY <1>2, <1>3

LEMMA ChecksumKeepsTorn ==
  ASSUME TornInv, LayoutInv', ReadChecksum
  PROVE  TornInv'
  <1>1. /\ body' = body /\ body \in Seq(Field) /\ torn' = torn /\ image' = image
        /\ pos' = pos /\ outcome' \in {"decoded", "failed"}
    BY DEF TornInv, ReadChecksum, Fail
  <1>2. CASE ~torn
    BY <1>1, <1>2 DEF TornInv
  <1>3. CASE torn
    <2>1. image \in Seq(Whole) /\ pos \in Int /\ pos > 0 /\ Len(image) \in Nat
      BY <1>3, LenProperties DEF TornInv, ReadChecksum
    <2>2. ~Has(pos + 1, "sum")
      <3> SUFFICES ASSUME Has(pos + 1, "sum") PROVE FALSE
        OBVIOUS
      <3>1. pos + 1 <= Len(image) /\ image[pos + 1][1] = "sum"
        BY DEF Has
      <3>2. pos + 1 \in 1 .. Len(image)
        BY <2>1, <3>1
      <3>3. image[pos + 1] \in Whole
        BY <2>1, <3>2, ElementOfSeq
      <3> QED BY <3>1, <3>3, FieldTags
    <2>3. outcome' = "failed"
      BY <2>2 DEF ReadChecksum, Fail
    <2> QED BY <1>1, <1>3, <2>1, <2>3 DEF TornInv
  <1> QED BY <1>2, <1>3

LEMMA TornKept == TornInv /\ [Next]_vars => TornInv'
  <1> SUFFICES ASSUME TornInv, [Next]_vars PROVE TornInv'
    OBVIOUS
  <1>1. LayoutInv'
    BY LayoutKept DEF TornInv
  <1>2. ASSUME NEW e \in Entry, Write(e) PROVE TornInv'
    BY <1>1, <1>2, WriteKeepsTorn
  <1>3. CASE Finish
    BY <1>1, <1>3, FinishKeepsTorn
  <1>4. CASE Tear
    BY <1>1, <1>4, TearKeepsTorn
  <1>5. CASE ReadHeader
    <2>1. pos' \in {1, pos} /\ outcome' \in {outcome, "failed"}
      BY <1>5 DEF ReadHeader, Fail
    <2>2. UNCHANGED <<body, image, torn>>
      BY <1>5 DEF ReadHeader
    <2>3. torn => pos' \in Int /\ outcome' # "decoded"
      BY <2>1 DEF TornInv
    <2> QED BY <1>1, <2>2, <2>3 DEF TornInv
  <1>6. CASE ReadEntry
    BY <1>1, <1>6, ReadEntryKeepsTorn
  <1>7. CASE ReadChecksum
    BY <1>1, <1>7, ChecksumKeepsTorn
  <1>8. CASE UNCHANGED vars
    BY <1>1, <1>8 DEF TornInv, vars
  <1> QED BY <1>2, <1>3, <1>4, <1>5, <1>6, <1>7, <1>8 DEF Next

\* A file that setIndex began to write and did not finish, cut off at any
\* field, is never decoded: what is left holds no checksum, and the decoder
\* takes nothing without one.
THEOREM TornIsRefused == Spec => []TornIsNoticed
  <1>1. Spec => []TornInv
    BY TornStarts, TornKept, PTL DEF Spec
  <1>2. TornInv => TornIsNoticed
    BY DEF TornInv, TornIsNoticed
  <1> QED BY <1>1, <1>2, PTL

-----------------------------------------------------------------------------
\* What the digits of a number are worth.

\* The remainder of a digit, with the continuation mark and without it.
LEMMA DigitIs ==
  ASSUME NEW r \in 0 .. Base - 1
  PROVE  r % Base = r /\ (Base + r) % Base = r
  <1>1. Base \in Nat /\ Base >= 2 /\ r \in Nat /\ r < Base
    BY NumbersAssumption
  <1>2. r % Base = r
    <2> DEFINE q == r \div Base
               m == r % Base
    <2>1. q \in Int /\ m \in 0 .. Base - 1 /\ r = Base * q + m
      BY <1>1
    <2> HIDE DEF q, m
    <2>2. q >= 1 => Base * q >= Base
      BY <1>1, <2>1
    <2>3. q <= -1 => Base * q <= -Base
      BY <1>1, <2>1
    <2>4. q = 0
      BY <1>1, <2>1, <2>2, <2>3
    <2>5. Base * q = 0
      BY <1>1, <2>4
    <2> QED BY <1>1, <2>1, <2>5 DEF m
  <1>3. (Base + r) % Base = r
    <2> DEFINE q == (Base + r) \div Base
               m == (Base + r) % Base
    <2>1. q \in Int /\ m \in 0 .. Base - 1 /\ Base + r = Base * q + m
      BY <1>1
    <2> HIDE DEF q, m
    <2>2. q >= 2 => Base * q >= Base + Base
      BY <1>1, <2>1
    <2>3. q <= 0 => Base * q <= 0
      BY <1>1, <2>1
    <2>4. q = 1
      BY <1>1, <2>1, <2>2, <2>3
    <2>5. Base * q = Base
      BY <1>1, <2>4
    <2> QED BY <1>1, <2>1, <2>5 DEF m
  <1> QED BY <1>2, <1>3

\* f maps a number of digits of s to what the decoder has for them.
Evaluates(f, s) ==
  f = [k \in 1 .. Len(s) |-> IF k = 1 THEN s[k] % Base
                             ELSE (f[k - 1] + 1) * Base + (s[k] % Base)]

\* One digit more.
LEMMA EvaluatesMore ==
  ASSUME NEW s \in Seq(Nat), NEW x \in Nat, NEW f, Evaluates(f, Append(s, x))
  PROVE  /\ s = <<>> => f[Len(s) + 1] = x % Base
         /\ s # <<>> => \E g : /\ Evaluates(g, s)
                               /\ f[Len(s) + 1] = (g[Len(s)] + 1) * Base + (x % Base)
  <1> DEFINE t == Append(s, x)
             n == Len(s)
             g == [k \in 1 .. n |-> f[k]]
  <1>1. /\ n \in Nat /\ Len(t) = n + 1 /\ t[n + 1] = x
        /\ \A i \in 1 .. n : t[i] = s[i]
    BY LenProperties, AppendProperties
  <1> HIDE DEF t, n
  <1>2. ASSUME NEW k \in 1 .. n + 1
        PROVE  f[k] = IF k = 1 THEN t[k] % Base ELSE (f[k - 1] + 1) * Base + (t[k] % Base)
    BY <1>1 DEF Evaluates, t
  <1>3. ASSUME s = <<>> PROVE f[n + 1] = x % Base
    <2>1. n = 0
      BY <1>3 DEF n
    <2> QED BY <1>1, <1>2, <2>1
  <1>4. ASSUME s # <<>>
        PROVE  Evaluates(g, s) /\ f[n + 1] = (g[n] + 1) * Base + (x % Base)
    <2>1. n # 0
      BY <1>4, EmptySeq DEF n
    <2>2. n + 1 \in 1 .. n + 1 /\ n + 1 # 1 /\ (n + 1) - 1 = n /\ n \in 1 .. n
      BY <1>1, <2>1
    <2>3. f[n + 1] = (g[n] + 1) * Base + (x % Base)
      BY <1>1, <1>2, <2>2
    <2>4. ASSUME NEW k \in 1 .. n
          PROVE  g[k] = IF k = 1 THEN s[k] % Base ELSE (g[k - 1] + 1) * Base + (s[k] % Base)
      <3>1. k \in 1 .. n + 1 /\ t[k] = s[k] /\ g[k] = f[k]
        BY <1>1
      <3>2. k # 1 => g[k - 1] = f[k - 1]
        BY <1>1
      <3> HIDE DEF g
      <3> QED BY <1>2, <3>1, <3>2
    <2>5. g = [k \in 1 .. n |-> g[k]]
      OBVIOUS
    <2> HIDE DEF g
    <2>6. Evaluates(g, s)
      BY <2>4, <2>5 DEF Evaluates, n
    <2> QED BY <2>3, <2>6
  <1> HIDE DEF g
  <1> QED BY <1>3, <1>4 DEF n

\* The digits that carry the continuation mark.
Marked == {x \in Nat : x >= Base}

\* s is the digits before the last one of a number whose quotient is v.
Stands(s, v) ==
  /\ s \in Seq(Marked)
  /\ v = 0 => s = <<>>
  /\ v # 0 => s # <<>> /\ \A f : Evaluates(f, s) => f[Len(s)] = v - 1

LEMMA DigitsStand ==
  ASSUME NEW n \in Nat, NEW d, Digits(d, n)
  PROVE  \A v \in 0 .. n : Stands(d[v], v)
  <1> DEFINE T == {v \in 0 .. n : ~Stands(d[v], v)}
  <1> SUFFICES ASSUME T # {} PROVE FALSE
    OBVIOUS
  <1>1. PICK m \in T : \A k \in T : m <= k
    <2>1. T \in SUBSET Nat
      OBVIOUS
    <2> HIDE DEF T
    <2> QED BY <2>1, LeastExists
  <1>2. m \in 0 .. n /\ ~Stands(d[m], m)
    OBVIOUS
  <1>3. \A k \in 0 .. n : k < m => Stands(d[k], k)
    BY <1>1, <1>2
  <1> HIDE DEF T
  <1>4. d[m] = IF m = 0 THEN <<>> ELSE Append(d[(m - 1) \div Base], Base + ((m - 1) % Base))
    BY <1>2 DEF Digits
  <1>5. m # 0
    BY <1>2, <1>4, EmptySeq DEF Stands
  <1> DEFINE q == (m - 1) \div Base
             r == (m - 1) % Base
             s == d[q]
             x == Base + r
  <1>6. /\ Base \in Nat /\ Base >= 2 /\ q \in 0 .. m - 1 /\ r \in 0 .. Base - 1
        /\ m - 1 = Base * q + r
    <2>1. Base \in Nat /\ Base >= 2 /\ m - 1 \in Nat
      BY <1>2, <1>5, NumbersAssumption
    <2>2. q \in 0 .. m - 1
      BY <2>1, Quotient
    <2> QED BY <2>1, <2>2
  <1>7. d[m] = Append(s, x)
    BY <1>4, <1>5
  <1> HIDE DEF q, r
  <1>8. Stands(s, q)
    BY <1>2, <1>3, <1>6
  <1>9. x \in Marked /\ x \in Nat /\ x % Base = r
    BY <1>6, DigitIs DEF Marked
  <1> HIDE DEF s, x
  <1>10. s \in Seq(Marked) /\ s \in Seq(Nat) /\ Len(s) \in Nat
    <2>1. s \in Seq(Marked)
      BY <1>8 DEF Stands
    <2>2. s \in Seq(Nat)
      BY <2>1, SeqMonotonic DEF Marked
    <2> QED BY <2>1, <2>2, LenProperties
  <1>11. d[m] \in Seq(Marked) /\ d[m] # <<>> /\ Len(d[m]) = Len(s) + 1
    BY <1>7, <1>9, <1>10, AppendProperties
  <1>12. ASSUME NEW f, Evaluates(f, d[m]) PROVE f[Len(d[m])] = m - 1
    <2>1. Evaluates(f, Append(s, x))
      BY <1>7, <1>12
    <2>2. CASE q = 0
      <3>1. s = <<>>
        BY <1>8, <2>2 DEF Stands
      <3>2. f[Len(s) + 1] = r
        BY <1>9, <1>10, <2>1, <3>1, EvaluatesMore
      <3>3. m - 1 = r
        BY <1>6, <2>2
      <3> QED BY <1>11, <3>2, <3>3
    <2>3. CASE q # 0
      <3>1. s # <<>> /\ \A g : Evaluates(g, s) => g[Len(s)] = q - 1
        BY <1>8, <2>3 DEF Stands
      <3>2. f[Len(s) + 1] = ((q - 1) + 1) * Base + r
        BY <1>9, <1>10, <2>1, <3>1, EvaluatesMore
      <3>3. ((q - 1) + 1) * Base + r = m - 1
        BY <1>6
      <3> QED BY <1>11, <3>2, <3>3
    <2> QED BY <2>2, <2>3
  <1> QED BY <1>2, <1>5, <1>11, <1>12 DEF Stands

\* The bytes of a number: all but the last one carry the mark, and the decoder's
\* arithmetic gives back the number.
LEMMA VlqReads ==
  ASSUME NEW n \in Nat
  PROVE  \E s \in Seq(Marked), x \in 0 .. Base - 1 :
            /\ Vlq(n) = Append(s, x)
            /\ \A f : Evaluates(f, Vlq(n)) => f[Len(s) + 1] = n
  <1> DEFINE d == CHOOSE d : Digits(d, n)
             q == n \div Base
             r == n % Base
             s == d[q]
  <1>1. Digits(d, n)
    BY DigitsExist
  <1>2. Vlq(n) = Append(s, r)
    BY DEF Vlq, Digits
  <1> HIDE DEF d
  <1>3. /\ Base \in Nat /\ Base >= 2 /\ q \in 0 .. n /\ r \in 0 .. Base - 1
        /\ n = Base * q + r
    <2>1. Base \in Nat /\ Base >= 2
      BY NumbersAssumption
    <2>2. q \in 0 .. n
      BY <2>1, Quotient
    <2> QED BY <2>1, <2>2
  <1> HIDE DEF q, r
  <1>4. Stands(s, q)
    BY <1>1, <1>3, DigitsStand
  <1>5. r % Base = r
    BY <1>3, DigitIs
  <1> HIDE DEF s
  <1>6. s \in Seq(Marked) /\ s \in Seq(Nat) /\ r \in Nat
    <2>1. s \in Seq(Marked)
      BY <1>4 DEF Stands
    <2>2. s \in Seq(Nat)
      BY <2>1, SeqMonotonic DEF Marked
    <2> QED BY <1>3, <2>1, <2>2
  <1>7. ASSUME NEW f, Evaluates(f, Vlq(n)) PROVE f[Len(s) + 1] = n
    <2>1. Evaluates(f, Append(s, r))
      BY <1>2, <1>7
    <2>2. CASE q = 0
      <3>1. s = <<>>
        BY <1>4, <2>2 DEF Stands
      <3>2. f[Len(s) + 1] = r
        BY <1>5, <1>6, <2>1, <3>1, EvaluatesMore
      <3>3. n = r
        BY <1>3, <2>2
      <3> QED BY <3>2, <3>3
    <2>3. CASE q # 0
      <3>1. s # <<>> /\ \A g : Evaluates(g, s) => g[Len(s)] = q - 1
        BY <1>4, <2>3 DEF Stands
      <3>2. f[Len(s) + 1] = ((q - 1) + 1) * Base + r
        BY <1>5, <1>6, <2>1, <3>1, EvaluatesMore
      <3>3. ((q - 1) + 1) * Base + r = n
        BY <1>3
      <3> QED BY <3>2, <3>3
    <2> QED BY <2>2, <2>3
  <1> QED BY <1>2, <1>3, <1>6, <1>7

-----------------------------------------------------------------------------
\* Reading a number, a name and what ends it.

NumberFunction(f, i, j) ==
  f = [k \in i .. j |-> IF k = i THEN image[k][2] % Base
                        ELSE (f[k - 1] + 1) * Base + (image[k][2] % Base)]

LEMMA NumberFunctionExists ==
  ASSUME NEW i \in Nat, NEW j \in Nat
  PROVE  \E f : NumberFunction(f, i, j)
  <1> DEFINE T == {m \in Nat : ~ \E f : NumberFunction(f, i, m)}
             V(k) == image[k][2] % Base
  <1> SUFFICES ASSUME T # {} PROVE FALSE
    OBVIOUS
  <1>1. PICK m \in T : \A k \in T : m <= k
    <2>1. T \in SUBSET Nat
      OBVIOUS
    <2> HIDE DEF T
    <2> QED BY <2>1, LeastExists
  <1>2. m \in Nat /\ ~ \E f : NumberFunction(f, i, m)
    OBVIOUS
  <1>3. \A k \in Nat : k < m => \E f : NumberFunction(f, i, k)
    BY <1>1, <1>2
  <1> HIDE DEF T
  <1>4. m > i
    <2> SUFFICES ASSUME m <= i PROVE FALSE
      BY <1>2
    <2> DEFINE f == [k \in i .. m |-> V(k)]
    <2>1. \A k \in i .. m : k = i
      BY <1>2
    <2> HIDE DEF V
    <2>2. f = [k \in i .. m |-> IF k = i THEN V(k) ELSE (f[k - 1] + 1) * Base + V(k)]
      BY <2>1
    <2> HIDE DEF f
    <2>3. NumberFunction(f, i, m)
      BY <2>2 DEF NumberFunction, V
    <2> QED BY <1>2, <2>3
  <1>5. PICK g : NumberFunction(g, i, m - 1)
    BY <1>2, <1>3, <1>4
  <1> DEFINE f == [k \in i .. m |-> IF k = m THEN (g[m - 1] + 1) * Base + V(m) ELSE g[k]]
  <1> HIDE DEF V
  <1>6. ASSUME NEW k \in i .. m
        PROVE  f[k] = IF k = i THEN V(k) ELSE (f[k - 1] + 1) * Base + V(k)
    <2>1. k # i => f[k - 1] = g[k - 1]
      BY <1>2
    <2>2. f[k] = IF k = m THEN (g[m - 1] + 1) * Base + V(m) ELSE g[k]
      OBVIOUS
    <2> HIDE DEF f
    <2>3. CASE k = m
      BY <1>4, <2>1, <2>2, <2>3
    <2>4. CASE k # m
      <3>1. k \in i .. m - 1
        BY <1>2, <2>4
      <3>2. g[k] = IF k = i THEN V(k) ELSE (g[k - 1] + 1) * Base + V(k)
        BY <1>5, <3>1 DEF NumberFunction, V
      <3> QED BY <2>1, <2>2, <2>4, <3>2
    <2> QED BY <2>3, <2>4
  <1>7. NumberFunction(f, i, m)
    <2>1. f = [k \in i .. m |-> f[k]]
      OBVIOUS
    <2> HIDE DEF f
    <2> QED BY <1>6, <2>1 DEF NumberFunction, V
  <1> QED BY <1>2, <1>7

\* The number that the fields hold.
LEMMA NumberIs ==
  ASSUME NEW i \in Nat, NEW s \in Seq(Nat), s # <<>>, NEW n,
         \A k \in 1 .. Len(s) : image[i + k - 1][2] = s[k],
         \A f : Evaluates(f, s) => f[Len(s)] = n
  PROVE  Number(i, i + Len(s) - 1) = n
  <1> DEFINE j == i + Len(s) - 1
             F == CHOOSE F : NumberFunction(F, i, j)
             f == [k \in 1 .. Len(s) |-> F[i + k - 1]]
  <1>1. Len(s) \in Nat /\ Len(s) >= 1 /\ j \in Nat
    BY EmptySeq, LenProperties
  <1>2. Number(i, j) = F[j]
    BY DEF Number, NumberFunction
  <1>3. NumberFunction(F, i, j)
    <2> HIDE DEF j
    <2> QED BY <1>1, NumberFunctionExists
  <1> HIDE DEF F
  <1>4. ASSUME NEW k \in 1 .. Len(s)
        PROVE  f[k] = IF k = 1 THEN s[k] % Base ELSE (f[k - 1] + 1) * Base + (s[k] % Base)
    <2> DEFINE h == i + k - 1
    <2>1. h \in i .. j /\ (h = i <=> k = 1) /\ image[h][2] = s[k]
      BY <1>1
    <2>2. F[h] = IF h = i THEN image[h][2] % Base
                 ELSE (F[h - 1] + 1) * Base + (image[h][2] % Base)
      <3> HIDE DEF h
      <3> QED BY <1>3, <2>1 DEF NumberFunction
    <2>3. k # 1 => f[k - 1] = F[h - 1]
      BY <1>1
    <2>4. f[k] = F[h]
      OBVIOUS
    <2> HIDE DEF f, h
    <2> QED BY <2>1, <2>2, <2>3, <2>4
  <1>5. f[Len(s)] = F[j] /\ f = [k \in 1 .. Len(s) |-> f[k]]
    BY <1>1
  <1> HIDE DEF f
  <1>6. Evaluates(f, s)
    BY <1>4, <1>5 DEF Evaluates
  <1> QED BY <1>2, <1>5, <1>6

\* Some number is the least one of a set.
LEMMA MinIs ==
  ASSUME NEW T \in SUBSET Nat, NEW x \in T, \A y \in T : x <= y
  PROVE  Min(T) = x
  <1>1. Min(T) \in T /\ Min(T) <= x
    BY MinExists
  <1>2. x <= Min(T) /\ Min(T) \in Nat /\ x \in Nat
    BY <1>1
  <1> QED BY <1>1, <1>2

AnyField == Whole \cup Checksum

\* As far as the file goes, what is behind its first p fields is s.
Follows(p, s) == \A k \in 1 .. Len(s) : p + k <= Len(image) => image[p + k] = s[k]

LEMMA FollowsParts ==
  ASSUME NEW p \in Nat, NEW a \in Seq(Field), NEW b \in Seq(Field), Follows(p, a \o b)
  PROVE  Follows(p, a) /\ Follows(p + Len(a), b) /\ Len(a \o b) = Len(a) + Len(b)
  <1>1. Len(a) \in Nat /\ Len(b) \in Nat
    BY LenProperties
  <1> DEFINE c == a \o b
  <1>2. /\ Len(c) = Len(a) + Len(b)
        /\ \A i \in 1 .. Len(a) + Len(b) : c[i] = IF i <= Len(a) THEN a[i] ELSE b[i - Len(a)]
    BY ConcatProperties, Zenon
  <1>3. Follows(p, c)
    OBVIOUS
  <1> HIDE DEF c
  <1>4. ASSUME NEW k \in 1 .. Len(a), p + k <= Len(image) PROVE image[p + k] = a[k]
    <2>1. k \in 1 .. Len(c) /\ c[k] = a[k]
      BY <1>1, <1>2
    <2> QED BY <1>3, <1>4, <2>1 DEF Follows
  <1>5. ASSUME NEW k \in 1 .. Len(b), (p + Len(a)) + k <= Len(image)
        PROVE  image[(p + Len(a)) + k] = b[k]
    <2> DEFINE h == Len(a) + k
    <2>1. h \in 1 .. Len(c) /\ c[h] = b[k] /\ p + h = (p + Len(a)) + k
      BY <1>1, <1>2
    <2>2. image[p + h] = c[h]
      <3> HIDE DEF h
      <3> QED BY <1>3, <1>5, <2>1 DEF Follows
    <2> HIDE DEF h
    <2> QED BY <2>1, <2>2
  <1> QED BY <1>2, <1>4, <1>5 DEF Follows, c

\* The bytes of a sequence are as many as its elements.
LEMMA BytesAre ==
  ASSUME NEW s \in Seq(Nat)
  PROVE  Len(Bytes(s)) = Len(s) /\ \A k \in 1 .. Len(s) : Bytes(s)[k] = Byte(s[k])
  <1>1. Len(s) \in Nat /\ DOMAIN s = 1 .. Len(s)
    BY LenProperties
  <1>2. Bytes(s) \in Seq(Field)
    BY BytesAreFields
  <1>3. DOMAIN Bytes(s) = 1 .. Len(s)
    BY <1>1 DEF Bytes
  <1>4. DOMAIN Bytes(s) = 1 .. Len(Bytes(s)) /\ Len(Bytes(s)) \in Nat
    BY <1>2, LenProperties
  <1>5. Len(Bytes(s)) = Len(s)
    BY <1>1, <1>3, <1>4
  <1> QED BY <1>1, <1>5 DEF Bytes

\* A sequence of bytes that is there in whole is read as it is.
LEMMA BytesRead ==
  ASSUME NEW p \in Nat, NEW s \in Seq(Nat), Follows(p, Bytes(s)),
         p + Len(s) <= Len(image)
  PROVE  /\ AreBytes(p + 1, p + Len(s))
         /\ Until(p + 1, p + 1 + Len(s)) = s
         /\ \A k \in 1 .. Len(s) : image[p + k] = Byte(s[k])
  <1>1. Len(s) \in Nat /\ s \in [1 .. Len(s) -> Nat] /\ Len(image) >= p + Len(s)
    BY LenProperties
  <1>2. ASSUME NEW k \in 1 .. Len(s) PROVE image[p + k] = Byte(s[k])
    <2>1. p + k <= Len(image)
      BY <1>1
    <2> QED BY <2>1, BytesAre DEF Follows
  <1>3. \A x : Byte(x)[1] = "byte" /\ Byte(x)[2] = x
    BY DEF Byte
  <1>4. AreBytes(p + 1, p + Len(s))
    <2>1. ASSUME NEW k \in p + 1 .. p + Len(s) PROVE image[k][1] = "byte"
      <3>1. k - p \in 1 .. Len(s) /\ p + (k - p) = k
        BY <1>1
      <3>2. image[k] = Byte(s[k - p])
        BY <1>2, <3>1
      <3> QED BY <1>3, <3>2
    <2> QED BY <2>1 DEF AreBytes
  <1>5. Until(p + 1, p + 1 + Len(s)) = s
    <2>1. (p + 1 + Len(s)) - (p + 1) = Len(s)
      BY <1>1
    <2>2. Until(p + 1, p + 1 + Len(s)) = [k \in 1 .. Len(s) |-> image[(p + 1) + k - 1][2]]
      BY <2>1 DEF Until
    <2>3. ASSUME NEW k \in 1 .. Len(s) PROVE image[(p + 1) + k - 1][2] = s[k]
      <3>1. (p + 1) + k - 1 = p + k
        BY <1>1
      <3> QED BY <1>2, <1>3, <3>1
    <2> QED BY <1>1, <2>2, <2>3
  <1> QED BY <1>2, <1>4, <1>5

\* The first NUL behind a name is the one that the writer put there.
LEMMA NulIs ==
  ASSUME image \in Seq(AnyField), NEW p \in Nat, NEW s \in Seq(Nat \ {0}), Follows(p, Bytes(s)),
         p + Len(s) + 1 <= Len(image) => image[p + Len(s) + 1] = Byte(NUL)
  PROVE  /\ NulAfter(p + 1) # {} <=> p + Len(s) + 1 <= Len(image)
         /\ NulAfter(p + 1) # {} => Min(NulAfter(p + 1)) = p + Len(s) + 1
  <1> DEFINE z == p + Len(s) + 1
  <1>1. s \in Seq(Nat) /\ Len(s) \in Nat /\ Len(image) \in Nat
    BY SeqMonotonic, LenProperties
  <1>2. NulAfter(p + 1) \in SUBSET Nat
    BY <1>1 DEF NulAfter
  <1>3. ASSUME NEW j \in NulAfter(p + 1) PROVE z <= j /\ j <= Len(image)
    <2>1. j \in Nat /\ j >= p + 1 /\ j <= Len(image) /\ image[j] = Byte(NUL)
      BY <1>1 DEF NulAfter
    <2>2. ~(j < z)
      <3> SUFFICES ASSUME j < z PROVE FALSE
        OBVIOUS
      <3>1. j - p \in 1 .. Len(s) /\ p + (j - p) = j
        BY <1>1, <2>1
      <3>2. image[j] = Byte(s[j - p])
        BY <1>1, <2>1, <3>1, BytesAre DEF Follows
      <3>3. s[j - p] \in Nat \ {0}
        BY <3>1, ElementOfSeq
      <3> QED BY <2>1, <3>2, <3>3 DEF Byte, NUL
    <2> QED BY <1>1, <2>1, <2>2
  <1>4. ASSUME z <= Len(image) PROVE z \in NulAfter(p + 1)
    BY <1>1, <1>4 DEF NulAfter
  <1>5. z \in Nat
    BY <1>1
  <1> HIDE DEF z
  <1>6. NulAfter(p + 1) # {} => z <= Len(image)
    BY <1>1, <1>2, <1>3, <1>5
  <1>7. NulAfter(p + 1) # {} => Min(NulAfter(p + 1)) = z
    BY <1>2, <1>3, <1>4, <1>6, MinIs
  <1> QED BY <1>4, <1>6, <1>7 DEF z

\* A number ends at the first byte without the mark.
Lasts(i) == {j \in i .. Len(image) : AreBytes(i, j) /\ image[j][2] < Base}

LEMMA LastIs ==
  ASSUME image \in Seq(AnyField), NEW p \in Nat, NEW s \in Seq(Marked),
         NEW x \in 0 .. Base - 1, NEW u \in Seq(Nat), u = Append(s, x), Follows(p, Bytes(u))
  PROVE  /\ Len(u) = Len(s) + 1
         /\ Lasts(p + 1) # {} <=> p + Len(u) <= Len(image)
         /\ Lasts(p + 1) # {} => Min(Lasts(p + 1)) = p + Len(u)
  <1> DEFINE z == p + Len(u)
  <1>1. /\ Len(s) \in Nat /\ Len(image) \in Nat /\ Base \in Nat /\ x \in Nat /\ x < Base
        /\ s \in Seq(Nat)
    BY NumbersAssumption, LenProperties, SeqMonotonic DEF Marked
  <1>2. Len(u) = Len(s) + 1 /\ u[Len(u)] = x /\ \A i \in 1 .. Len(s) : u[i] = s[i]
    BY <1>1, AppendProperties
  <1>3. \A y : Byte(y)[2] = y
    BY DEF Byte
  <1>4. Lasts(p + 1) \in SUBSET Nat
    BY <1>1 DEF Lasts
  <1>5. ASSUME NEW j \in Lasts(p + 1) PROVE z <= j /\ j <= Len(image)
    <2>1. j \in Nat /\ j >= p + 1 /\ j <= Len(image) /\ image[j][2] < Base
      BY <1>1 DEF Lasts
    <2>2. ~(j < z)
      <3> SUFFICES ASSUME j < z PROVE FALSE
        OBVIOUS
      <3>1. j - p \in 1 .. Len(s) /\ j - p \in 1 .. Len(u) /\ p + (j - p) = j
        BY <1>1, <1>2, <2>1
      <3>2. image[j] = Byte(u[j - p])
        BY <2>1, <3>1, BytesAre DEF Follows
      <3>3. u[j - p] = s[j - p] /\ s[j - p] \in Marked
        BY <1>2, <3>1, ElementOfSeq
      <3>4. image[j][2] \in Nat /\ image[j][2] >= Base
        BY <1>3, <3>2, <3>3 DEF Marked
      <3> QED BY <1>1, <2>1, <3>4
    <2> QED BY <1>1, <1>2, <2>1, <2>2
  <1>6. ASSUME z <= Len(image) PROVE z \in Lasts(p + 1)
    <2>1. AreBytes(p + 1, z) /\ \A k \in 1 .. Len(u) : image[p + k] = Byte(u[k])
      BY <1>6, BytesRead
    <2>2. Len(u) \in 1 .. Len(u) /\ z \in p + 1 .. Len(image)
      BY <1>1, <1>2, <1>6
    <2>3. image[z][2] = x
      BY <1>2, <1>3, <2>1, <2>2
    <2> QED BY <1>1, <2>1, <2>2, <2>3 DEF Lasts
  <1>7. z \in Nat
    BY <1>1, <1>2
  <1> HIDE DEF z
  <1>8. Lasts(p + 1) # {} => z <= Len(image)
    BY <1>1, <1>4, <1>5, <1>7
  <1>9. Lasts(p + 1) # {} => Min(Lasts(p + 1)) = z
    BY <1>4, <1>5, <1>6, <1>8, MinIs
  <1> QED BY <1>2, <1>6, <1>8, <1>9 DEF z

-----------------------------------------------------------------------------
\* Reading a name.

\* What the decoder reads behind field p is the name in n fields, or nothing
\* where they are not all there.
ReadsAs(read, name, p, n) ==
  /\ read.ok => p + n <= Len(image) /\ read = NameRead(name, p + n + 1)
  /\ p + n <= Len(image) => read.ok

\* One NUL that ends a name is read with it when the flags do not say its length.
Ending(e) == IF FlagLength(e) = NameMask THEN 1 ELSE 0

\* A name of versions 2 and 3 is read as it was written, and only if it is there.
LEMMA ReadNameIs ==
  ASSUME image \in Seq(AnyField), NEW e \in Entry, NEW p \in Nat,
         Follows(p, Bytes(e.name)),
         p + Len(e.name) + 1 <= Len(image) => image[p + Len(e.name) + 1] = Byte(NUL)
  PROVE  ReadsAs(ReadName(FlagLength(e), p + 1), e.name, p, Len(e.name) + Ending(e))
  <1> DEFINE name == e.name
             n == Len(name)
             read == ReadName(FlagLength(e), p + 1)
             end == Min(NulAfter(p + 1))
  <1>1. /\ name \in Seq(Nat) /\ name \in Seq(Nat \ {0}) /\ n \in Nat
        /\ Len(image) \in Nat
    BY EntryName, NamesAreBytes, LenProperties DEF Entry
  <1>2. \A name2, next : NameRead(name2, next).ok
    BY DEF NameRead
  <1>5. /\ Follows(p, Bytes(name))
        /\ p + n + 1 <= Len(image) => image[p + n + 1] = Byte(NUL)
        /\ FlagLength(e) = IF n < NameMask THEN n ELSE NameMask
    BY DEF FlagLength
  <1>6. SUFFICES ReadsAs(read, name, p, n + Ending(e))
    OBVIOUS
  <1>7. n = Len(name)
    OBVIOUS
  <1> HIDE DEF name, n
  <1>3. CASE FlagLength(e) = NameMask
    <2>1. Ending(e) = 1
      BY <1>3 DEF Ending
    <2>2. /\ NulAfter(p + 1) # {} <=> p + n + 1 <= Len(image)
          /\ NulAfter(p + 1) # {} => end = p + n + 1
      BY <1>1, <1>5, <1>7, NulIs
    <2>3. read = IF NulAfter(p + 1) # {} /\ AreBytes(p + 1, end)
                 THEN NameRead(Until(p + 1, end), end + 1) ELSE NoName
      BY <1>3 DEF ReadName
    <2> HIDE DEF end
    <2>4. ASSUME p + n + 1 <= Len(image)
          PROVE  AreBytes(p + 1, end) /\ Until(p + 1, end) = name
      <3>1. p + n <= Len(image) /\ end = p + 1 + n
        BY <1>1, <2>2, <2>4
      <3>2. AreBytes(p + 1, p + n) /\ Until(p + 1, p + 1 + n) = name
        BY <1>1, <1>5, <1>7, <3>1, BytesRead
      <3>3. image[p + n + 1][1] = "byte"
        BY <1>5, <2>4 DEF Byte
      <3>4. ASSUME NEW k \in p + 1 .. end PROVE image[k][1] = "byte"
        <4>1. CASE k = p + n + 1
          BY <3>3, <4>1
        <4>2. CASE k # p + n + 1
          <5>1. k \in p + 1 .. p + n
            BY <1>1, <3>1, <4>2
          <5> QED BY <3>2, <5>1 DEF AreBytes
        <4> QED BY <4>1, <4>2
      <3>5. end <= Len(image)
        BY <1>1, <2>4, <3>1
      <3> QED BY <3>1, <3>2, <3>4, <3>5 DEF AreBytes
    <2>5. read.ok => p + n + 1 <= Len(image)
      BY <2>2, <2>3 DEF NoName
    <2>6. p + n + 1 <= Len(image) => read = NameRead(name, end + 1) /\ end = p + n + 1
      BY <2>2, <2>3, <2>4
    <2>7. p + n + 1 = p + (n + 1)
      BY <1>1
    <2> HIDE DEF read
    <2> QED BY <1>2, <2>1, <2>5, <2>6, <2>7 DEF ReadsAs
  <1>4. CASE FlagLength(e) # NameMask
    <2>1. Ending(e) = 0 /\ FlagLength(e) = n /\ (p + 1) + n - 1 = p + n
      BY <1>1, <1>4, <1>5 DEF Ending
    <2>2. read = IF AreBytes(p + 1, p + n) THEN NameRead(Until(p + 1, p + 1 + n), p + 1 + n)
                 ELSE NoName
      BY <1>4, <2>1 DEF ReadName
    <2>3. ASSUME p + n <= Len(image)
          PROVE  AreBytes(p + 1, p + n) /\ Until(p + 1, p + 1 + n) = name
      BY <1>1, <1>5, <1>7, <2>3, BytesRead
    <2>4. read.ok => p + n <= Len(image)
      BY <2>2 DEF NoName, AreBytes
    <2>5. p + n <= Len(image) => read = NameRead(name, p + 1 + n)
      BY <2>2, <2>3
    <2>6. n + 0 = n /\ p + 1 + n = p + n + 1
      BY <1>1
    <2> HIDE DEF read
    <2> QED BY <1>2, <2>1, <2>4, <2>5, <2>6 DEF ReadsAs
  <1> QED BY <1>3, <1>4

\* The name of version 4, put together from the entry before and the rest.
LEMMA Joins ==
  ASSUME NEW name \in Seq(Nat), NEW prefix \in 0 .. Len(name)
  PROVE  /\ SubSeq(name, 1, prefix) \o SubSeq(name, prefix + 1, Len(name)) = name
         /\ SubSeq(name, prefix + 1, Len(name)) \in Seq(Nat)
         /\ Len(SubSeq(name, prefix + 1, Len(name))) = Len(name) - prefix
  <1>1. Len(name) \in Nat
    BY LenProperties
  <1>2. ASSUME NEW i \in prefix + 1 .. Len(name) PROVE name[i] \in Nat
    <2>1. i \in 1 .. Len(name)
      BY <1>1
    <2> QED BY <2>1, ElementOfSeq
  <1>3. /\ SubSeq(name, prefix + 1, Len(name)) \in Seq(Nat)
        /\ Len(SubSeq(name, prefix + 1, Len(name)))
           = IF prefix + 1 <= Len(name) THEN Len(name) - (prefix + 1) + 1 ELSE 0
    BY <1>1, <1>2, SubSeqProperties
  <1>4. SubSeq(name, 1, prefix) \o SubSeq(name, prefix + 1, Len(name))
        = SubSeq(name, 1, Len(name))
    <2>1. 1 \in 1 .. Len(name) + 1 /\ prefix \in 1 - 1 .. Len(name) /\ Len(name) \in prefix .. Len(name)
      BY <1>1
    <2> QED BY <2>1, ConcatAdjacentSubSeq
  <1>5. SubSeq(name, 1, Len(name)) = name
    BY SubSeqFull
  <1> DEFINE n == Len(name)
             rest == SubSeq(name, prefix + 1, n)
             l == Len(rest)
  <1>6. n \in Nat /\ l = IF prefix + 1 <= n THEN n - (prefix + 1) + 1 ELSE 0
    BY <1>1, <1>3
  <1>7. rest \in Seq(Nat) /\ SubSeq(name, 1, prefix) \o rest = name
    BY <1>3, <1>4, <1>5
  <1> HIDE DEF n, l
  <1>8. prefix \in 0 .. n
    BY DEF n
  <1>9. l = n - prefix
    BY <1>6, <1>8
  <1> QED BY <1>7, <1>9 DEF n, l

\* From behind field p on come the bytes of u and v and a NUL, n fields in all.
Parts4(p, u, v, n) ==
  /\ u \in Seq(Nat) /\ Len(u) \in Nat
  /\ v \in Seq(Nat \ {0}) /\ v \in Seq(Nat) /\ Len(v) \in Nat
  /\ Follows(p, Bytes(u)) /\ Follows(p + Len(u), Bytes(v))
  /\ n = Len(u) + Len(v) + 1
  /\ p + Len(u) + Len(v) + 1 <= Len(image) =>
       image[p + Len(u) + Len(v) + 1] = Byte(NUL)

\* The parts of a name of version 4 in the file.
LEMMA Tail4Parts ==
  ASSUME NEW e \in Entry, NEW p \in Nat, NEW strip \in Nat, NEW prefix \in 0 .. Len(e.name),
         NEW u, u = Vlq(strip), NEW v, v = SubSeq(e.name, prefix + 1, Len(e.name)),
         NEW tail, tail = Tail4(strip, e, prefix), Follows(p, tail)
  PROVE  Parts4(p, u, v, Len(tail))
  <1> DEFINE a == Bytes(u)
             b == Bytes(v)
             c == <<Byte(NUL)>>
             ab == a \o b
             q == p + Len(a) + Len(b)
  <1>1. u \in Seq(Nat) /\ Len(u) \in Nat
    BY VlqType, LenProperties
  <1>2. v \in Seq(Nat \ {0}) /\ v \in Seq(Nat) /\ Len(v) \in Nat
    <2>1. e.name \in Seq(Nat \ {0}) /\ Len(e.name) \in Nat
      BY EntryName, NamesAreBytes DEF Entry
    <2>2. ASSUME NEW i \in prefix + 1 .. Len(e.name) PROVE e.name[i] \in Nat \ {0}
      <3>1. i \in 1 .. Len(e.name)
        BY <2>1
      <3> QED BY <2>1, <3>1, ElementOfSeq
    <2>3. v \in Seq(Nat \ {0})
      BY <2>1, <2>2, SubSeqProperties
    <2>4. v \in Seq(Nat)
      BY <2>3, SeqMonotonic
    <2> QED BY <2>3, <2>4, LenProperties
  <1>3. /\ a \in Seq(Field) /\ Len(a) = Len(u)
        /\ b \in Seq(Field) /\ Len(b) = Len(v)
    BY <1>1, <1>2, BytesAreFields, BytesAre
  <1>4. c \in Seq(Field) /\ Len(c) = 1 /\ c[1] = Byte(NUL)
    <2>1. Byte(NUL) \in Field
      BY DEF Field, NUL
    <2> QED BY <2>1
  <1>5. tail = (a \o b) \o c
    BY DEF Tail4, Suffix
  <1>6. Follows(p, ab \o c)
    BY <1>5
  <1> DEFINE la == Len(a)
             lb == Len(b)
  <1> HIDE DEF a, b, c, q
  <1>7. ab \in Seq(Field)
    BY <1>3, ConcatProperties
  <1> HIDE DEF ab
  <1>8. /\ Follows(p, ab) /\ Follows(p + Len(ab), c)
        /\ Len(ab \o c) = Len(ab) + Len(c)
    <2>1. c \in Seq(Field)
      BY <1>4
    <2>2. \A y, z \in Seq(Field) : Follows(p, y \o z) =>
            Follows(p, y) /\ Follows(p + Len(y), z) /\ Len(y \o z) = Len(y) + Len(z)
      BY FollowsParts
    <2> QED BY <1>6, <1>7, <2>1, <2>2
  <1>9. Follows(p, a) /\ Follows(p + la, b) /\ Len(ab) = la + lb
    BY <1>3, <1>8, FollowsParts DEF ab
  <1>10. q + 1 <= Len(image) => image[q + 1] = Byte(NUL)
    <2>1. la \in Nat /\ lb \in Nat /\ q = p + la + lb
      BY <1>1, <1>2, <1>3 DEF q
    <2> HIDE DEF la, lb
    <2>2. p + (la + lb) = q
      BY <2>1
    <2>3. Follows(q, c)
      BY <1>8, <1>9, <2>2
    <2>4. 1 \in 1 .. Len(c)
      BY <1>4
    <2>5. q + 1 <= Len(image) => image[q + 1] = c[1]
      BY <2>3, <2>4 DEF Follows
    <2> QED BY <1>4, <2>5
  <1>11. Len(tail) = Len(u) + Len(v) + 1
    BY <1>3, <1>4, <1>5, <1>8, <1>9 DEF ab
  <1>12. q = p + Len(u) + Len(v)
    BY <1>3 DEF q
  <1>13. Follows(p + Len(u), b)
    BY <1>3, <1>9
  <1> QED BY <1>1, <1>2, <1>9, <1>10, <1>11, <1>12, <1>13 DEF a, b, Parts4

\* Behind field p the decoder finds the number strip up to field m, and the bytes
\* of rest and a NUL up to field p + n.
Reads4(p, m, n, strip, rest) ==
  /\ p + 1 <= m /\ m + 1 <= p + n /\ n \in Nat
  /\ Lasts(p + 1) # {} <=> m <= Len(image)
  /\ Lasts(p + 1) # {} => Min(Lasts(p + 1)) = m
  /\ NulAfter(m + 1) # {} <=> p + n <= Len(image)
  /\ NulAfter(m + 1) # {} => Min(NulAfter(m + 1)) = p + n
  /\ p + n <= Len(image) => /\ Number(p + 1, m) = strip
                            /\ AreBytes(m + 1, p + n)
                            /\ Until(m + 1, p + n) = rest

\* The number and the rest of a name of version 4, as the decoder finds them.
LEMMA Tail4Read ==
  ASSUME image \in Seq(AnyField), NEW e \in Entry, NEW p \in Nat, NEW strip \in Nat,
         NEW prefix \in 0 .. Len(e.name), NEW t, t = Len(Tail4(strip, e, prefix)),
         Follows(p, Tail4(strip, e, prefix))
  PROVE  \E m \in Nat :
           Reads4(p, m, t, strip, SubSeq(e.name, prefix + 1, Len(e.name)))
  <1>a. PICK u : u = Vlq(strip)
    OBVIOUS
  <1>b. PICK v : v = SubSeq(e.name, prefix + 1, Len(e.name))
    OBVIOUS
  <1> DEFINE lu == Len(u)
             lv == Len(v)
             m == p + lu
  <1>1. /\ u \in Seq(Nat) /\ lu \in Nat
        /\ v \in Seq(Nat \ {0}) /\ v \in Seq(Nat) /\ lv \in Nat
        /\ Follows(p, Bytes(u)) /\ Follows(m, Bytes(v))
        /\ t = lu + lv + 1
        /\ m + lv + 1 <= Len(image) => image[m + lv + 1] = Byte(NUL)
    <2>1. Parts4(p, u, v, t)
      BY <1>a, <1>b, Tail4Parts
    <2> QED BY <2>1 DEF Parts4
  <1>2. PICK s \in Seq(Marked), x \in 0 .. Base - 1 :
          u = Append(s, x) /\ \A f : Evaluates(f, u) => f[Len(s) + 1] = strip
    BY <1>a, VlqReads
  <1>3. /\ lu = Len(s) + 1
        /\ Lasts(p + 1) # {} <=> m <= Len(image)
        /\ Lasts(p + 1) # {} => Min(Lasts(p + 1)) = m
    <2>1. \A r \in Seq(Nat) : r = Append(s, x) /\ Follows(p, Bytes(r)) =>
            /\ Len(r) = Len(s) + 1
            /\ Lasts(p + 1) # {} <=> p + Len(r) <= Len(image)
            /\ Lasts(p + 1) # {} => Min(Lasts(p + 1)) = p + Len(r)
      BY LastIs
    <2>2. u = Append(s, x)
      BY <1>2
    <2> QED BY <1>1, <2>1, <2>2
  <1>4. Len(s) \in Nat /\ Len(image) \in Nat
    BY LenProperties
  <1>5. m \in Nat
    BY <1>1
  <1> HIDE DEF m
  <1>6. /\ NulAfter(m + 1) # {} <=> m + lv + 1 <= Len(image)
        /\ NulAfter(m + 1) # {} => Min(NulAfter(m + 1)) = m + lv + 1
    <2>1. \A q \in Nat, r \in Seq(Nat \ {0}) :
            /\ Follows(q, Bytes(r))
            /\ q + Len(r) + 1 <= Len(image) => image[q + Len(r) + 1] = Byte(NUL)
            => /\ NulAfter(q + 1) # {} <=> q + Len(r) + 1 <= Len(image)
               /\ NulAfter(q + 1) # {} => Min(NulAfter(q + 1)) = q + Len(r) + 1
      BY NulIs
    <2> QED BY <1>1, <1>5, <2>1
  <1>7. p + t = m + lv + 1 /\ p + 1 <= m /\ m + 1 <= p + t /\ t \in Nat
    <2> HIDE DEF lu, lv
    <2> QED BY <1>1, <1>3, <1>4 DEF m
  <1>8. ASSUME p + t <= Len(image)
        PROVE  /\ Number(p + 1, m) = strip
               /\ AreBytes(m + 1, p + t)
               /\ Until(m + 1, p + t) = v
    <2>1. p + lu <= Len(image) /\ m + lv <= Len(image) /\ m = p + lu
      <3> HIDE DEF lu, lv
      <3> QED BY <1>1, <1>4, <1>5, <1>7, <1>8 DEF m
    <2>2. \A k \in 1 .. lu : image[p + k] = Byte(u[k])
      BY <1>1, <2>1, BytesRead
    <2>3. \A k \in 1 .. lu : image[(p + 1) + k - 1][2] = u[k]
      <3>1. \A y : Byte(y)[2] = y
        BY DEF Byte
      <3>2. \A k \in 1 .. lu : (p + 1) + k - 1 = p + k
        BY <1>1
      <3> QED BY <2>2, <3>1, <3>2
    <2>4. u # <<>> /\ (p + 1) + lu - 1 = m
      <3>1. lu # 0
        BY <1>3, <1>4
      <3>2. Len(<<>>) = 0
        OBVIOUS
      <3> QED BY <1>1, <2>1, <3>1, <3>2
    <2>5. Number(p + 1, (p + 1) + lu - 1) = strip
      <3>1. p + 1 \in Nat
        OBVIOUS
      <3>2. \A f : Evaluates(f, u) => f[Len(u)] = strip
        BY <1>2, <1>3
      <3>3. \A i \in Nat, r \in Seq(Nat) :
              /\ r # <<>> /\ \A k \in 1 .. Len(r) : image[i + k - 1][2] = r[k]
              /\ \A f : Evaluates(f, r) => f[Len(r)] = strip
              => Number(i, i + Len(r) - 1) = strip
        BY NumberIs
      <3> QED BY <1>1, <2>3, <2>4, <3>1, <3>2, <3>3
    <2>6. AreBytes(m + 1, m + lv) /\ Until(m + 1, m + 1 + lv) = v
      BY <1>1, <1>5, <2>1, BytesRead
    <2>7. p + t = m + 1 + lv
      BY <1>1, <1>5, <1>7
    <2>8. AreBytes(m + 1, p + t)
      <3>1. ASSUME NEW k \in m + 1 .. p + t PROVE image[k][1] = "byte"
        <4>1. CASE k = p + t
          BY <1>1, <1>7, <1>8, <4>1 DEF Byte
        <4>2. CASE k # p + t
          <5>1. k \in m + 1 .. m + lv
            <6>1. lv \in Nat /\ t \in Nat /\ k # p + t
              BY <1>1, <1>7, <4>2
            <6> HIDE DEF lv
            <6> QED BY <1>5, <2>7, <6>1
          <5> QED BY <2>6, <5>1 DEF AreBytes
        <4> QED BY <4>1, <4>2
      <3> QED BY <1>8, <3>1 DEF AreBytes
    <2> QED BY <2>4, <2>5, <2>6, <2>7, <2>8
  <1>9. Reads4(p, m, t, strip, v)
    BY <1>3, <1>5, <1>6, <1>7, <1>8 DEF Reads4
  <1> QED BY <1>b, <1>5, <1>9

\* A name of version 4 is put together from the name before and its own rest.
LEMMA ReadNameV4Is ==
  ASSUME image \in Seq(AnyField), NEW e \in Entry, NEW p \in Nat,
         NEW prefix \in 0 .. Len(e.name), NEW strip \in Nat,
         strip = Len(LastName) - prefix, Len(LastName) \in Nat,
         SubSeq(LastName, 1, prefix) = SubSeq(e.name, 1, prefix),
         NEW t, t = Len(Tail4(strip, e, prefix)), Follows(p, Tail4(strip, e, prefix))
  PROVE  ReadsAs(ReadNameV4(p + 1), e.name, p, t)
  <1> DEFINE rest == SubSeq(e.name, prefix + 1, Len(e.name))
             read == ReadNameV4(p + 1)
             last == Min(Lasts(p + 1))
             end == Min(NulAfter(last + 1))
             keep == Len(LastName) - Number(p + 1, last)
  <1>1. PICK m \in Nat : Reads4(p, m, t, strip, rest)
    BY Tail4Read
  <1>2. SubSeq(e.name, 1, prefix) \o rest = e.name
    BY EntryName, Joins
  <1>3. read = IF \/ Lasts(p + 1) = {} \/ NulAfter(last + 1) = {}
                  \/ ~AreBytes(last + 1, end) \/ keep < 0
               THEN NoName
               ELSE NameRead(SubSeq(LastName, 1, keep) \o Until(last + 1, end), end + 1)
    BY DEF ReadNameV4, Lasts
  <1>4. Len(image) \in Nat
    BY LenProperties
  <1> HIDE DEF rest, read, last
  <1>5. ASSUME read.ok PROVE p + t <= Len(image)
    <2>1. Lasts(p + 1) # {} /\ NulAfter(last + 1) # {}
      BY <1>3, <1>5 DEF NoName
    <2>2. last = m
      BY <1>1, <2>1 DEF Reads4, last
    <2> QED BY <1>1, <2>1, <2>2 DEF Reads4
  <1>6. ASSUME p + t <= Len(image) PROVE read = NameRead(e.name, p + t + 1)
    <2>1. m <= Len(image) /\ t \in Nat
      BY <1>1, <1>4, <1>6 DEF Reads4
    <2>2. last = m /\ Lasts(p + 1) # {}
      BY <1>1, <2>1 DEF Reads4, last
    <2>3. NulAfter(last + 1) # {} /\ end = p + t
      BY <1>1, <1>6, <2>2 DEF Reads4
    <2>4. Number(p + 1, last) = strip /\ AreBytes(last + 1, end) /\ Until(last + 1, end) = rest
      BY <1>1, <1>6, <2>2, <2>3 DEF Reads4
    <2>5. keep = prefix /\ ~(keep < 0)
      BY <2>4
    <2> HIDE DEF end, keep
    <2> QED BY <1>2, <1>3, <2>2, <2>3, <2>4, <2>5
  <1> QED BY <1>5, <1>6 DEF ReadsAs, read, NameRead

-----------------------------------------------------------------------------
\* Reading an entry.

\* The entry before, for the decoder.
Read == IF decoded = <<>> THEN <<>> ELSE <<Last(decoded)>>

\* What comes after the start of an entry in version v.
TailFor(v, e, previous) ==
  LET prefix == IF previous = <<>> THEN 0 ELSE CommonPrefix(previous[1].name, e.name)
      strip == IF previous = <<>> THEN 0 ELSE Len(previous[1].name) - prefix
  IN  IF v = 4 THEN Tail4(strip, e, prefix)
      ELSE Bytes(e.name) \o Pad(EntryLength(e) + Len(e.name))

\* Behind field p is what ends entry e: its name in the first k of n fields, and
\* as many bytes more as the decoder expects of padding.
EndsEntry(e, p, n, k) ==
  /\ k \in Nat /\ n - k \in Nat
  /\ ReadsAs(IF version = 4 THEN ReadNameV4(p + 1) ELSE ReadName(FlagLength(e), p + 1),
             e.name, p, k)
  /\ PaddingLeft(EntryLength(e) + Len(e.name), e.name, k) = n - k
  /\ \A j \in k + 1 .. n : p + j <= Len(image) => image[p + j][1] = "byte"

\* A common prefix is shared.
LEMMA PrefixShared ==
  ASSUME NEW a \in Seq(Nat), NEW b \in Seq(Nat)
  PROVE  /\ CommonPrefix(a, b) \in 0 .. Len(b) /\ CommonPrefix(a, b) <= Len(a)
         /\ SubSeq(a, 1, CommonPrefix(a, b)) = SubSeq(b, 1, CommonPrefix(a, b))
  <1> DEFINE n == IF Len(a) < Len(b) THEN Len(a) ELSE Len(b)
             T == {i \in 0 .. n : SubSeq(a, 1, i) = SubSeq(b, 1, i)}
  <1>1. n \in Nat /\ n <= Len(a) /\ n <= Len(b) /\ Len(b) \in Nat
    BY LenProperties
  <1>2. 0 \in T
    <2>1. SubSeq(a, 1, 0) = <<>> /\ SubSeq(b, 1, 0) = <<>>
      BY SubSeqEmpty
    <2> QED BY <1>1, <2>1
  <1>3. T \in SUBSET (0 .. n)
    OBVIOUS
  <1>4. CommonPrefix(a, b) = Max(T)
    BY DEF CommonPrefix
  <1>5. Max(T) \in T
    <2> HIDE DEF n, T
    <2> QED BY <1>1, <1>2, <1>3, MaxExists
  <1>6. CommonPrefix(a, b) \in 0 .. n
    BY <1>4, <1>5
  <1>7. SubSeq(a, 1, CommonPrefix(a, b)) = SubSeq(b, 1, CommonPrefix(a, b))
    BY <1>4, <1>5
  <1> HIDE DEF n
  <1> QED BY <1>1, <1>6, <1>7

\* The tail of an entry of version 4 is made with the name before.
LEMMA Tail4Is ==
  ASSUME decoded \in Seq(Entry), version = 4, NEW e \in Entry
  PROVE  \E prefix \in 0 .. Len(e.name), strip \in Nat :
           /\ strip = Len(LastName) - prefix /\ Len(LastName) \in Nat
           /\ SubSeq(LastName, 1, prefix) = SubSeq(e.name, 1, prefix)
           /\ TailFor(version, e, Read) = Tail4(strip, e, prefix)
           /\ TailFor(version, e, Read) \in Seq(Field)
  <1> DEFINE prefix == IF Read = <<>> THEN 0 ELSE CommonPrefix(LastName, e.name)
             strip == Len(LastName) - prefix
  <1>1. e.name \in Seq(Nat) /\ Len(e.name) \in Nat
    BY EntryName
  <1>2. /\ LastName \in Seq(Nat) /\ Len(LastName) \in Nat
        /\ Read = <<>> => LastName = <<>> /\ Len(LastName) = 0
        /\ Read # <<>> => Read[1].name = LastName
    <2>1. CASE decoded = <<>>
      BY <2>1 DEF LastName, Read
    <2>2. CASE decoded # <<>>
      <3>1. Last(decoded) \in Entry
        <4>1. Len(decoded) \in 1 .. Len(decoded)
          BY <2>2, EmptySeq, LenProperties
        <4> QED BY <4>1, ElementOfSeq DEF Last
      <3>2. LastName = Last(decoded).name /\ Read = <<Last(decoded)>>
        BY <2>2 DEF LastName, Read
      <3> QED BY <3>1, <3>2, EntryName
    <2> QED BY <2>1, <2>2
  <1>3. /\ prefix \in 0 .. Len(e.name) /\ strip \in Nat
        /\ SubSeq(LastName, 1, prefix) = SubSeq(e.name, 1, prefix)
    <2>1. CASE Read = <<>>
      <3>1. prefix = 0 /\ Len(LastName) = 0
        BY <1>2, <2>1
      <3>2. SubSeq(LastName, 1, 0) = <<>> /\ SubSeq(e.name, 1, 0) = <<>>
        BY <1>1, <1>2, SubSeqEmpty
      <3> HIDE DEF prefix
      <3>3. strip = 0
        BY <3>1
      <3> HIDE DEF strip
      <3> QED BY <1>1, <3>1, <3>2, <3>3
    <2>2. CASE Read # <<>>
      <3>1. prefix = CommonPrefix(LastName, e.name)
        BY <2>2
      <3> HIDE DEF prefix
      <3>2. /\ prefix \in 0 .. Len(e.name) /\ prefix <= Len(LastName)
            /\ SubSeq(LastName, 1, prefix) = SubSeq(e.name, 1, prefix)
        BY <1>1, <1>2, <3>1, PrefixShared
      <3>3. prefix \in Nat
        BY <1>1, <3>2
      <3> QED BY <1>2, <3>2, <3>3
    <2> QED BY <2>1, <2>2
  <1>4. TailFor(version, e, Read) = Tail4(strip, e, prefix)
    <2>1. CASE Read = <<>>
      <3>1. prefix = 0 /\ strip = 0
        BY <1>2, <2>1
      <3> HIDE DEF prefix, strip
      <3> QED BY <2>1, <3>1 DEF TailFor
    <2>2. CASE Read # <<>>
      BY <1>2, <2>2 DEF TailFor
    <2> QED BY <2>1, <2>2
  <1>5. Tail4(strip, e, prefix) \in Seq(Field)
    <2> HIDE DEF prefix, strip
    <2>1. prefix \in Nat
      BY <1>1, <1>3
    <2> QED BY <1>3, <2>1, Tail4IsFields
  <1> QED BY <1>2, <1>3, <1>4, <1>5

\* In version 4.
LEMMA EndsEntryV4 ==
  ASSUME image \in Seq(AnyField), decoded \in Seq(Entry), version = 4,
         NEW e \in Entry, NEW p \in Nat, NEW n, n = Len(TailFor(version, e, Read)),
         Follows(p, TailFor(version, e, Read))
  PROVE  EndsEntry(e, p, n, n)
  <1>1. PICK prefix \in 0 .. Len(e.name), strip \in Nat :
           /\ strip = Len(LastName) - prefix /\ Len(LastName) \in Nat
           /\ SubSeq(LastName, 1, prefix) = SubSeq(e.name, 1, prefix)
           /\ TailFor(version, e, Read) = Tail4(strip, e, prefix)
           /\ TailFor(version, e, Read) \in Seq(Field)
    BY Tail4Is
  <1>2. ReadsAs(ReadNameV4(p + 1), e.name, p, n)
    BY <1>1, ReadNameV4Is
  <1>3. n \in Nat
    BY <1>1, LenProperties
  <1>4. PaddingLeft(EntryLength(e) + Len(e.name), e.name, n) = 0
    BY DEF PaddingLeft
  <1>5. \A j \in n + 1 .. n : FALSE
    BY <1>3
  <1> QED BY <1>2, <1>3, <1>4, <1>5 DEF EndsEntry

\* The padding is NULs.
LEMMA PadIs ==
  ASSUME NEW n \in Nat
  PROVE  /\ Len(Pad(n)) = 8 - (n % 8) /\ Len(Pad(n)) \in 1 .. 8
         /\ \A i \in 1 .. Len(Pad(n)) : Pad(n)[i] = Byte(NUL)
  <1> DEFINE k == 8 - (n % 8)
  <1>1. Pad(n) \in Seq(Field) /\ Len(Pad(n)) \in 1 .. 8
    BY PadAligns
  <1>2. k \in 1 .. 8
    OBVIOUS
  <1>3. Pad(n) = [i \in 1 .. k |-> Byte(NUL)]
    BY DEF Pad
  <1> HIDE DEF k
  <1>4. DOMAIN Pad(n) = 1 .. k /\ \A i \in 1 .. k : Pad(n)[i] = Byte(NUL)
    BY <1>3
  <1>5. DOMAIN Pad(n) = 1 .. Len(Pad(n))
    BY <1>1, LenProperties
  <1>6. Len(Pad(n)) = k
    BY <1>1, <1>2, <1>4, <1>5
  <1> QED BY <1>1, <1>4, <1>6 DEF k

\* In versions 2 and 3; of the padding at least one byte is left for a name that
\* ends at a NUL.
LEMMA EndsEntryPadded ==
  ASSUME image \in Seq(AnyField), version # 4,
         NEW e \in Entry, NEW p \in Nat, NEW n, n = Len(TailFor(version, e, Read)),
         Follows(p, TailFor(version, e, Read))
  PROVE  EndsEntry(e, p, n, Len(e.name) + Ending(e))
  <1> DEFINE l == Len(e.name)
             size == EntryLength(e) + l
             a == Bytes(e.name)
             b == Pad(size)
             x == Ending(e)
             lb == Len(b)
  <1>1. e.name \in Seq(Nat) /\ l \in Nat
    BY EntryName
  <1>2. size \in Nat
    <2>1. EntryLength(e) \in {62 + 2, 62 + 0}
      BY DEF EntryLength, EntryHeader
    <2> HIDE DEF l
    <2> QED BY <1>1, <2>1
  <1>3. TailFor(version, e, Read) = a \o b
    BY DEF TailFor
  <1>4. a \in Seq(Field) /\ b \in Seq(Field) /\ Len(a) = l
    BY <1>1, TailIsFields, BytesAre
  <1>5. lb = 8 - (size % 8) /\ lb \in 1 .. 8 /\ \A i \in 1 .. lb : b[i] = Byte(NUL)
    <2> HIDE DEF size
    <2> QED BY <1>2, PadIs
  <1>6. x \in {0, 1}
    BY DEF Ending
  <1>7. PaddingLeft(size, e.name, l + x) = 8 - (size % 8) - ((l + x) - l)
    BY DEF PaddingLeft
  <1> HIDE DEF a, b, x, size
  <1>8. /\ Follows(p, a) /\ Follows(p + Len(a), b)
        /\ Len(a \o b) = Len(a) + Len(b)
    <2>1. \A y, z \in Seq(Field) : Follows(p, y \o z) =>
            Follows(p, y) /\ Follows(p + Len(y), z) /\ Len(y \o z) = Len(y) + Len(z)
      BY FollowsParts
    <2> QED BY <1>3, <1>4, <2>1
  <1>9. n = l + lb /\ Follows(p + l, b)
    BY <1>3, <1>4, <1>8
  <1> HIDE DEF l, lb
  <1>10. ASSUME NEW j \in l + 1 .. n, p + j <= Len(image) PROVE image[p + j] = Byte(NUL)
    <2>1. j - l \in 1 .. lb /\ (p + l) + (j - l) = p + j
      BY <1>1, <1>5, <1>9
    <2>2. image[(p + l) + (j - l)] = b[j - l]
      BY <1>9, <1>10, <2>1 DEF Follows, lb
    <2> QED BY <1>5, <2>1, <2>2
  <1>11. p + l + 1 <= Len(image) => image[p + l + 1] = Byte(NUL)
    <2>1. l + 1 \in l + 1 .. n /\ p + (l + 1) = p + l + 1
      BY <1>1, <1>5, <1>9
    <2> QED BY <1>10, <2>1
  <1>12. ReadsAs(ReadName(FlagLength(e), p + 1), e.name, p, l + x)
    BY <1>8, <1>11, ReadNameIs DEF a, l, x
  <1>13. l + x \in Nat /\ n - (l + x) \in Nat /\ n - (l + x) = 8 - (size % 8) - ((l + x) - l)
    <2> DEFINE r == size % 8
    <2>1. r \in Int
      BY <1>2
    <2> HIDE DEF r
    <2>2. lb = 8 - r
      BY <1>5 DEF r
    <2>3. lb \in Nat /\ lb >= 1
      BY <1>5
    <2>4. l + x \in Nat /\ n - (l + x) \in Nat /\ n - (l + x) = 8 - r - ((l + x) - l)
      BY <1>1, <1>6, <1>9, <2>1, <2>2, <2>3
    <2> QED BY <2>4 DEF r
  <1>14. ASSUME NEW j \in (l + x) + 1 .. n, p + j <= Len(image) PROVE image[p + j][1] = "byte"
    <2>1. j \in l + 1 .. n
      BY <1>1, <1>5, <1>6, <1>9
    <2> QED BY <1>10, <1>14, <2>1 DEF Byte
  <1>15. EndsEntry(e, p, n, l + x)
    BY <1>7, <1>12, <1>13, <1>14 DEF EndsEntry, size, l
  <1> QED BY <1>15 DEF l, x

\* The start of an entry, field by field, and the entry in two parts.
LEMMA EntryParts ==
  ASSUME decoded \in Seq(Entry), NEW e \in Entry
  PROVE  /\ EncodeFor(version, e, Read) = Start(e) \o TailFor(version, e, Read)
         /\ Start(e) \in Seq(Field) /\ TailFor(version, e, Read) \in Seq(Field)
         /\ Len(Start(e)) = IF Extended(e) THEN 3 ELSE 2
         /\ Start(e)[1] = Fixed /\ Start(e)[2] = Flags(e)
         /\ Extended(e) => Start(e)[3] = ExtendedFlags(e)
  <1>1. EncodeFor(version, e, Read) = Start(e) \o TailFor(version, e, Read)
    BY DEF EncodeFor, TailFor, Tail4
  <1>2. TailFor(version, e, Read) \in Seq(Field)
    <2>1. CASE version = 4
      BY <2>1, Tail4Is
    <2>2. CASE version # 4
      BY <2>2, TailIsFields DEF TailFor
    <2> QED BY <2>1, <2>2
  <1>3. Start(e) \in Seq(Field)
    BY StartIsFields
  <1>4. CASE Extended(e)
    <2>1. Start(e) = <<Fixed, Flags(e), ExtendedFlags(e)>>
      BY <1>4, StartIsFields
    <2> QED BY <1>1, <1>2, <1>3, <1>4, <2>1
  <1>5. CASE ~Extended(e)
    <2>1. Start(e) = <<Fixed, Flags(e)>>
      BY <1>5, StartIsFields
    <2> QED BY <1>1, <1>2, <1>3, <1>5, <2>1
  <1> QED BY <1>4, <1>5

\* What the decoder finds at the start of an entry.
LEMMA StartRead ==
  ASSUME NEW e \in Entry, NEW q \in Nat, Len(image) \in Nat, Follows(q, Start(e)),
         Len(Start(e)) = (IF Extended(e) THEN 3 ELSE 2),
         Start(e)[1] = Fixed, Start(e)[2] = Flags(e),
         Extended(e) => Start(e)[3] = ExtendedFlags(e)
  PROVE  /\ Has(q + 1, "fixed") <=> q + 1 <= Len(image)
         /\ Has(q + 2, "flags") <=> q + 2 <= Len(image)
         /\ q + 2 <= Len(image) =>
              image[q + 2][2] = [stage |-> e.stage, extended |-> Extended(e),
                                 length |-> FlagLength(e)]
         /\ Extended(e) =>
              /\ Has(q + 3, "extended") <=> q + 3 <= Len(image)
              /\ q + 3 <= Len(image) => image[q + 3][2] = [intent |-> e.intent, skip |-> e.skip]
  <1> DEFINE s == Start(e)
             l == Len(s)
  <1>1. 1 \in 1 .. l /\ 2 \in 1 .. l /\ (Extended(e) => 3 \in 1 .. l)
    OBVIOUS
  <1> HIDE DEF s, l
  <1>2. \A k \in 1 .. l : q + k <= Len(image) => image[q + k] = s[k]
    BY DEF Follows, s, l
  <1>3. q + 1 <= Len(image) => image[q + 1] = Fixed
    BY <1>1, <1>2 DEF s
  <1>4. q + 2 <= Len(image) => image[q + 2] = Flags(e)
    BY <1>1, <1>2 DEF s
  <1>5. Extended(e) /\ q + 3 <= Len(image) => image[q + 3] = ExtendedFlags(e)
    BY <1>1, <1>2 DEF s
  <1>6. Fixed[1] = "fixed" /\ Flags(e)[1] = "flags" /\ ExtendedFlags(e)[1] = "extended"
    BY DEF Fixed, Flags, ExtendedFlags
  <1>7. /\ Flags(e)[2] = [stage |-> e.stage, extended |-> Extended(e),
                          length |-> FlagLength(e)]
        /\ ExtendedFlags(e)[2] = [intent |-> e.intent, skip |-> e.skip]
    BY DEF Flags, ExtendedFlags
  <1> QED BY <1>3, <1>4, <1>5, <1>6, <1>7 DEF Has

\* Reading the next entry: it is read as it was written, or the file ends in it.
LEMMA ReadEntryIs ==
  ASSUME image \in Seq(AnyField), decoded \in Seq(Entry), pos \in Nat, NEW e \in Entry,
         NEW total, total = Len(EncodeFor(version, e, Read)),
         Follows(pos, EncodeFor(version, e, Read)), ReadEntry
  PROVE  /\ total \in Nat
         /\ \/ /\ decoded' = Append(decoded, e) /\ pos' = pos + total
               /\ outcome' = outcome /\ pos + total <= Len(image)
            \/ Fail /\ pos + total > Len(image)
  <1> DEFINE flags == image[pos + 2][2]
             fixed == IF Has(pos + 2, "flags") /\ flags.extended THEN 3 ELSE 2
             start == pos + fixed + 1
             read == IF version = 4 THEN ReadNameV4(start) ELSE ReadName(flags.length, start)
             size == EntryHeader + (IF fixed = 3 THEN 2 ELSE 0) + Len(read.name)
             left == PaddingLeft(size, read.name, read.next - start)
             result == [name |-> read.name, stage |-> flags.stage,
                        intent |-> fixed = 3 /\ image[pos + 3][2].intent,
                        skip |-> fixed = 3 /\ image[pos + 3][2].skip]
  <1>1. IF ~Has(pos + 1, "fixed") \/ ~Has(pos + 2, "flags") THEN Fail
        ELSE IF (fixed = 3 /\ ~Has(pos + 3, "extended")) \/ ~read.ok THEN Fail
        ELSE IF left > 0 /\ ~AreBytes(read.next, read.next + left - 1) THEN Fail
        ELSE /\ decoded' = Append(decoded, result)
             /\ pos' = read.next - 1 + (IF left > 0 THEN left ELSE 0)
             /\ outcome' = outcome
    BY DEF ReadEntry
  <1> DEFINE s == Start(e)
             tail == TailFor(version, e, Read)
             l == Len(s)
             n == Len(tail)
             p == pos + l
  <1>2. /\ s \in Seq(Field) /\ tail \in Seq(Field) /\ EncodeFor(version, e, Read) = s \o tail
        /\ l = IF Extended(e) THEN 3 ELSE 2
        /\ n \in Nat /\ Len(image) \in Nat
    BY EntryParts, LenProperties
  <1>3. Follows(pos, s) /\ Follows(p, tail) /\ total = l + n
    <2>1. \A y, z \in Seq(Field) : Follows(pos, y \o z) =>
            Follows(pos, y) /\ Follows(pos + Len(y), z) /\ Len(y \o z) = Len(y) + Len(z)
      BY FollowsParts
    <2> HIDE DEF s, tail
    <2> QED BY <1>2, <2>1
  <1>4. /\ Has(pos + 1, "fixed") <=> pos + 1 <= Len(image)
        /\ Has(pos + 2, "flags") <=> pos + 2 <= Len(image)
        /\ pos + 2 <= Len(image) =>
             flags = [stage |-> e.stage, extended |-> Extended(e), length |-> FlagLength(e)]
        /\ Extended(e) =>
             /\ Has(pos + 3, "extended") <=> pos + 3 <= Len(image)
             /\ pos + 3 <= Len(image) => image[pos + 3][2] = [intent |-> e.intent, skip |-> e.skip]
    BY <1>2, <1>3, EntryParts, StartRead
  <1>5. Extended(e) \in BOOLEAN
    BY DEF Extended, Entry
  <1>6. pos + 2 <= Len(image) => fixed = l
    BY <1>2, <1>4, <1>5
  <1> HIDE DEF s, tail, n, result, read, left
  <1>7. l \in {2, 3} /\ p \in Nat /\ total \in Nat /\ pos + total = p + n
    <2> HIDE DEF l
    <2>1. l \in {2, 3}
      BY <1>2
    <2>2. n \in Nat /\ total = l + n
      BY <1>2, <1>3
    <2> QED BY <2>1, <2>2
  <1>8. CASE p > Len(image)
    <2>1. pos + total > Len(image)
      <3> HIDE DEF p
      <3> QED BY <1>2, <1>7, <1>8
    <2>2. CASE pos + 2 > Len(image)
      <3>1. ~Has(pos + 2, "flags")
        BY <1>2, <1>4, <2>2
      <3> QED BY <1>1, <1>7, <2>1, <3>1
    <2>3. CASE pos + 2 <= Len(image)
      <3>1. l = 3 /\ Extended(e)
        BY <1>2, <1>7, <1>8, <2>3
      <3>2. fixed = 3 /\ ~Has(pos + 3, "extended")
        BY <1>2, <1>4, <1>6, <1>8, <2>3, <3>1
      <3> HIDE DEF fixed
      <3> QED BY <1>1, <1>7, <2>1, <3>2
    <2> QED BY <1>2, <2>2, <2>3
  <1>9. CASE p <= Len(image)
    <2>1. pos + 2 <= Len(image) /\ pos + 1 <= Len(image) /\ (l = 3 => pos + 3 <= Len(image))
      <3> HIDE DEF l
      <3> QED BY <1>2, <1>7, <1>9
    <2>2. /\ Has(pos + 1, "fixed") /\ Has(pos + 2, "flags") /\ fixed = l /\ start = p + 1
          /\ ~(fixed = 3 /\ ~Has(pos + 3, "extended"))
          /\ flags.stage = e.stage /\ flags.length = FlagLength(e)
      BY <1>2, <1>4, <1>6, <2>1
    <2> HIDE DEF flags, fixed, start, p
    <2>3. read = IF version = 4 THEN ReadNameV4(p + 1) ELSE ReadName(FlagLength(e), p + 1)
      BY <2>2 DEF read
    <2>4. PICK k \in Nat : EndsEntry(e, p, n, k)
      <3>1. CASE version = 4
        BY <1>2, <1>3, <1>7, <3>1, EndsEntryV4 DEF tail, n
      <3>2. CASE version # 4
        <4>1. EndsEntry(e, p, n, Len(e.name) + Ending(e))
          BY <1>2, <1>3, <1>7, <3>2, EndsEntryPadded DEF tail, n
        <4> QED BY <4>1 DEF EndsEntry
      <3> QED BY <3>1, <3>2 DEF EndsEntry
    <2>5. /\ n - k \in Nat /\ ReadsAs(read, e.name, p, k)
          /\ PaddingLeft(EntryLength(e) + Len(e.name), e.name, k) = n - k
          /\ \A j \in k + 1 .. n : p + j <= Len(image) => image[p + j][1] = "byte"
      BY <2>3, <2>4 DEF EndsEntry
    <2>6. CASE ~read.ok
      <3>1. p + k > Len(image)
        BY <1>2, <1>7, <2>5, <2>6 DEF ReadsAs
      <3>2. pos + total > Len(image)
        BY <1>2, <1>7, <2>5, <3>1
      <3> QED BY <1>1, <1>7, <2>6, <3>2
    <2>7. CASE read.ok
      <3>1. p + k <= Len(image) /\ read = NameRead(e.name, p + k + 1)
        BY <2>5, <2>7 DEF ReadsAs
      <3>2. read.name = e.name /\ read.next = p + k + 1
        BY <3>1 DEF NameRead
      <3>3. read.next - start = k
        BY <1>7, <2>2, <3>2
      <3>4. size = EntryLength(e) + Len(e.name)
        <4>1. (IF fixed = 3 THEN 2 ELSE 0) = IF Extended(e) THEN 2 ELSE 0
          BY <1>2, <2>2
        <4> QED BY <3>2, <4>1 DEF EntryLength
      <3>5. left = n - k
        BY <2>5, <3>2, <3>3, <3>4 DEF left
      <3> HIDE DEF size
      <3>6. read.next + left - 1 = p + n /\ read.next - 1 + (IF left > 0 THEN left ELSE 0) = p + n
        BY <1>2, <1>7, <2>5, <3>2, <3>5
      <3>7. result = e
        <4>1. e = [name |-> e.name, stage |-> e.stage, intent |-> e.intent, skip |-> e.skip]
          BY DEF Entry
        <4>2. (fixed = 3 /\ image[pos + 3][2].intent) = e.intent
          BY <1>2, <1>4, <2>1, <2>2 DEF Extended, Entry
        <4>3. (fixed = 3 /\ image[pos + 3][2].skip) = e.skip
          BY <1>2, <1>4, <2>1, <2>2 DEF Extended, Entry
        <4> QED BY <2>2, <3>2, <4>1, <4>2, <4>3 DEF result
      <3>8. CASE p + n <= Len(image)
        <4>1. AreBytes(read.next, read.next + left - 1)
          <5>1. ASSUME NEW i \in p + k + 1 .. p + n PROVE image[i][1] = "byte"
            <6>1. i - p \in k + 1 .. n /\ p + (i - p) = i /\ i <= Len(image)
              BY <1>2, <1>7, <3>8
            <6> QED BY <2>5, <6>1
          <5> QED BY <3>2, <3>6, <3>8, <5>1 DEF AreBytes
        <4> QED BY <1>1, <1>7, <2>2, <2>7, <3>6, <3>7, <3>8, <4>1
      <3>9. CASE p + n > Len(image)
        <4>1. left > 0
          BY <1>2, <1>7, <2>5, <3>1, <3>5, <3>9
        <4>2. ~AreBytes(read.next, read.next + left - 1)
          BY <1>2, <1>7, <3>6, <3>9 DEF AreBytes
        <4> QED BY <1>1, <1>7, <2>2, <2>7, <3>9, <4>1, <4>2
      <3> QED BY <1>2, <1>7, <3>8, <3>9
    <2> QED BY <2>6, <2>7
  <1> QED BY <1>2, <1>7, <1>8, <1>9

-----------------------------------------------------------------------------
\* The file the decoder reads.

\* The fields of the first entries are where the whole body has them.
LEMMA EncodedParts ==
  ASSUME version \in {2, 3, 4}, NEW s \in Seq(Entry), NEW f, Encoded(version, f, s)
  PROVE  /\ f[0] = <<>>
         /\ \A j \in 0 .. Len(s) : f[j] \in Seq(Field)
         /\ \A j \in 0 .. Len(s) - 1 :
              f[j + 1] = f[j] \o EncodeFor(version, s[j + 1], IF j = 0 THEN <<>> ELSE <<s[j]>>)
         /\ \A j \in 0 .. Len(s) - 1 :
              EncodeFor(version, s[j + 1], IF j = 0 THEN <<>> ELSE <<s[j]>>) \in Seq(Field)
  <1> DEFINE P(j) == IF j = 0 THEN <<>> ELSE <<s[j]>>
             E(j) == EncodeFor(version, s[j + 1], P(j))
             n == Len(s)
             T == {j \in 0 .. n : f[j] \notin Seq(Field)}
  <1>1. n \in Nat /\ f[0] = <<>>
    <2>1. n \in Nat
      BY LenProperties
    <2>2. 0 \in 0 .. n
      BY <2>1
    <2> QED BY <2>1, <2>2 DEF Encoded
  <1>2. ASSUME NEW j \in 0 .. n - 1 PROVE f[j + 1] = f[j] \o E(j) /\ E(j) \in Seq(Field)
    <2>1. j + 1 \in 0 .. n /\ j + 1 # 0 /\ (j + 1) - 1 = j /\ j \in Nat
      BY <1>1
    <2>2. (IF j + 1 = 1 THEN <<>> ELSE <<s[j]>>) = P(j)
      BY <2>1
    <2>3. f[j + 1] = f[j] \o E(j)
      BY <2>1, <2>2 DEF Encoded
    <2>4. s[j + 1] \in Entry /\ P(j) \in Before
      <3>1. j + 1 \in 1 .. n /\ (j # 0 => j \in 1 .. n)
        BY <1>1
      <3> QED BY <3>1, ElementOfSeq DEF Before
    <2>5. E(j) \in Seq(Field)
      <3> HIDE DEF P
      <3> QED BY <2>4, EncodesFields, EncodeForIs
    <2> QED BY <2>3, <2>5
  <1> HIDE DEF E
  <1>3. T = {}
    <2> SUFFICES ASSUME T # {} PROVE FALSE
      OBVIOUS
    <2>1. PICK m \in T : \A k \in T : m <= k
      <3>1. T \in SUBSET Nat
        BY <1>1
      <3> HIDE DEF T
      <3> QED BY <3>1, LeastExists
    <2>2. m \in 0 .. n /\ f[m] \notin Seq(Field)
      OBVIOUS
    <2>3. m # 0
      BY <1>1, <2>2, EmptySeq
    <2>4. m - 1 \in 0 .. n - 1 /\ m - 1 \in 0 .. n /\ ~(m <= m - 1) /\ (m - 1) + 1 = m
      BY <1>1, <2>2, <2>3
    <2>5. f[m - 1] \in Seq(Field)
      BY <2>1, <2>4
    <2>6. f[m] = f[m - 1] \o E(m - 1) /\ E(m - 1) \in Seq(Field)
      BY <1>2, <2>4
    <2>7. f[m - 1] \o E(m - 1) \in Seq(Field)
      BY <2>5, <2>6, ConcatProperties, Zenon
    <2> QED BY <2>2, <2>6, <2>7
  <1> QED BY <1>1, <1>2, <1>3 DEF E

\* Behind the first j entries, in what is written for all of s, comes E.
Behind(f, s, j, E) ==
  /\ Len(f[j]) \in Nat /\ Len(E) \in Nat /\ Len(f[Len(s)]) \in Nat
  /\ Len(f[j + 1]) = Len(f[j]) + Len(E) /\ Len(f[j + 1]) <= Len(f[Len(s)])
  /\ \A k \in 1 .. Len(E) : f[Len(s)][Len(f[j]) + k] = E[k]

\* Entry number j + 1 of a body is behind the first j.
LEMMA EntryPlace ==
  ASSUME version \in {2, 3, 4}, NEW s \in Seq(Entry), NEW f, Encoded(version, f, s),
         NEW j \in 0 .. Len(s) - 1, NEW E,
         E = EncodeFor(version, s[j + 1], IF j = 0 THEN <<>> ELSE <<s[j]>>)
  PROVE  Behind(f, s, j, E)
  <1> DEFINE n == Len(s)
             L(i) == Len(f[i])
             T == {i \in j + 1 .. n : ~ /\ L(j + 1) <= L(i)
                                        /\ \A x \in 1 .. L(j + 1) : f[i][x] = f[j + 1][x]}
  <1>1. n \in Nat /\ j \in Nat /\ j + 1 <= n
    BY LenProperties
  <1>2. ASSUME NEW i \in 0 .. n PROVE L(i) \in Nat /\ f[i] \in Seq(Field)
    BY <1>2, EncodedParts, LenProperties
  <1>3. ASSUME NEW i \in 0 .. n - 1
        PROVE  \E D \in Seq(Field) :
                 /\ i = j => D = E
                 /\ L(i + 1) = L(i) + Len(D)
                 /\ \A x \in 1 .. L(i) + Len(D) :
                      f[i + 1][x] = IF x <= L(i) THEN f[i][x] ELSE D[x - L(i)]
    <2> DEFINE D == EncodeFor(version, s[i + 1], IF i = 0 THEN <<>> ELSE <<s[i]>>)
               g == f[i]
    <2>1. D \in Seq(Field) /\ f[i + 1] = g \o D
      BY EncodedParts
    <2>2. i = j => D = E
      OBVIOUS
    <2>3. g \in Seq(Field)
      BY <1>1, <1>2
    <2> HIDE DEF D, g
    <2>4. /\ Len(g \o D) = Len(g) + Len(D)
          /\ \A x \in 1 .. Len(g) + Len(D) :
               (g \o D)[x] = IF x <= Len(g) THEN g[x] ELSE D[x - Len(g)]
      BY <2>1, <2>3, ConcatProperties, Zenon
    <2> QED BY <2>1, <2>2, <2>4 DEF g
  <1>4. PICK D \in Seq(Field) :
          /\ D = E
          /\ L(j + 1) = L(j) + Len(D)
          /\ \A x \in 1 .. L(j) + Len(D) :
               f[j + 1][x] = IF x <= L(j) THEN f[j][x] ELSE D[x - L(j)]
    BY <1>3
  <1>5. T = {}
    <2> SUFFICES ASSUME T # {} PROVE FALSE
      OBVIOUS
    <2>1. PICK m \in T : \A k \in T : m <= k
      <3>1. T \in SUBSET Nat
        BY <1>1
      <3> HIDE DEF T
      <3> QED BY <3>1, LeastExists
    <2>2. /\ m \in j + 1 .. n
          /\ ~ /\ L(j + 1) <= L(m)
               /\ \A x \in 1 .. L(j + 1) : f[m][x] = f[j + 1][x]
      OBVIOUS
    <2>3. L(j + 1) \in Nat
      BY <1>1, <1>2
    <2>4. m # j + 1
      BY <2>2, <2>3
    <2>5. m - 1 \in j + 1 .. n /\ m - 1 \in 0 .. n - 1 /\ m - 1 \in 0 .. n /\ (m - 1) + 1 = m /\ ~(m <= m - 1)
      BY <1>1, <2>2, <2>4
    <2>6. L(j + 1) <= L(m - 1) /\ \A x \in 1 .. L(j + 1) : f[m - 1][x] = f[j + 1][x]
      BY <2>1, <2>5
    <2> HIDE DEF T, L
    <2>7. PICK C \in Seq(Field) :
            /\ L(m) = L(m - 1) + Len(C)
            /\ \A x \in 1 .. L(m - 1) + Len(C) :
                 f[m][x] = IF x <= L(m - 1) THEN f[m - 1][x] ELSE C[x - L(m - 1)]
      BY <1>3, <2>5
    <2>8. Len(C) \in Nat /\ L(m - 1) \in Nat
      BY <1>2, <2>5, LenProperties
    <2>9. L(j + 1) <= L(m)
      BY <2>3, <2>6, <2>7, <2>8
    <2>10. ASSUME NEW x \in 1 .. L(j + 1) PROVE f[m][x] = f[j + 1][x]
      <3>1. x \in 1 .. L(m - 1) + Len(C) /\ x <= L(m - 1)
        BY <2>3, <2>6, <2>8
      <3> QED BY <2>6, <2>7, <3>1
    <2> QED BY <2>2, <2>9, <2>10
  <1>6. L(j + 1) <= L(n) /\ \A x \in 1 .. L(j + 1) : f[n][x] = f[j + 1][x]
    <2>1. n \in j + 1 .. n
      BY <1>1
    <2> QED BY <1>5, <2>1
  <1>7. L(j) \in Nat /\ Len(E) \in Nat /\ L(n) \in Nat /\ L(j + 1) = L(j) + Len(E)
    BY <1>1, <1>2, <1>4, LenProperties
  <1>8. ASSUME NEW k \in 1 .. Len(E) PROVE f[n][L(j) + k] = E[k]
    <2> DEFINE x == L(j) + k
    <2> HIDE DEF L, T
    <2>1. x \in 1 .. L(j) + Len(E) /\ ~(x <= L(j)) /\ x - L(j) = k
      BY <1>7
    <2> HIDE DEF x
    <2>2. f[n][x] = f[j + 1][x] /\ f[j + 1][x] = E[x - L(j)]
      BY <1>4, <1>6, <1>7, <2>1
    <2> QED BY <2>1, <2>2 DEF x
  <1> QED BY <1>6, <1>7, <1>8 DEF Behind

\* The whole file.
Sum == <<"sum", <<Header>> \o body>>
Full == <<Header>> \o body \o <<Sum>>

LEMMA FullIs ==
  ASSUME LayoutInv, body \in Seq(Field)
  PROVE  /\ Full \in Seq(AnyField) /\ Len(body) \in Nat /\ Len(Full) = Len(body) + 2
         /\ Full[1] = Header
         /\ \A k \in 1 .. Len(body) : Full[1 + k] = body[k]
         /\ Full[Len(body) + 2] = Sum
         /\ SubSeq(Full, 1, Len(body) + 1) = <<Header>> \o body
  <1> DEFINE h == <<Header>>
             s == h \o body
             c == <<Sum>>
             n == Len(body)
  <1>1. /\ Header \in Opening /\ h \in Seq(Whole) /\ body \in Seq(Whole)
    <2>1. Len(entries) \in Nat /\ version \in {2, 3, 4}
      BY LenProperties DEF LayoutInv
    <2>2. Header \in Opening
      BY <2>1 DEF Header, Opening
    <2>3. h \in Seq(Whole)
      BY <2>2 DEF Whole
    <2> QED BY <2>2, <2>3, SeqMonotonic DEF Whole
  <1>2. n \in Nat /\ Len(h) = 1 /\ h[1] = Header
    BY LenProperties
  <1> HIDE DEF h
  <1>3. /\ s \in Seq(Whole) /\ Len(s) = n + 1
        /\ \A k \in 1 .. n + 1 : s[k] = IF k <= 1 THEN Header ELSE body[k - 1]
    <2>1. /\ h \o body \in Seq(Whole) /\ Len(h \o body) = Len(h) + Len(body)
          /\ \A k \in 1 .. Len(h) + Len(body) :
               (h \o body)[k] = IF k <= Len(h) THEN h[k] ELSE body[k - Len(h)]
      BY <1>1, ConcatProperties, Zenon
    <2>2. \A k \in 1 .. n + 1 : k <= 1 => k = 1
      OBVIOUS
    <2> HIDE DEF n
    <2>3. 1 + n = n + 1
      BY <1>2
    <2> QED BY <1>2, <2>1, <2>2, <2>3 DEF n
  <1>4. Sum \in Checksum /\ Full = s \o c
    BY <1>3 DEF Checksum, Whole, Sum, Full, h
  <1>5. s \in Seq(AnyField) /\ c \in Seq(AnyField) /\ Len(c) = 1 /\ c[1] = Sum
    <2>1. s \in Seq(AnyField)
      BY <1>3, SeqMonotonic DEF AnyField
    <2>2. Sum \in AnyField
      BY <1>4 DEF AnyField
    <2> QED BY <2>1, <2>2
  <1> HIDE DEF s, c
  <1>6. /\ s \o c \in Seq(AnyField) /\ Len(s \o c) = Len(s) + Len(c)
        /\ \A k \in 1 .. Len(s) + Len(c) :
             (s \o c)[k] = IF k <= Len(s) THEN s[k] ELSE c[k - Len(s)]
    BY <1>5, ConcatProperties, Zenon
  <1> HIDE DEF n
  <1>7. /\ Full \in Seq(AnyField) /\ Len(Full) = n + 2
        /\ \A k \in 1 .. n + 2 : Full[k] = IF k <= n + 1 THEN s[k] ELSE c[k - (n + 1)]
    <2>1. (n + 1) + 1 = n + 2
      BY <1>2
    <2> QED BY <1>3, <1>4, <1>5, <1>6, <2>1
  <1>8. Full[1] = Header
    BY <1>2, <1>3, <1>7
  <1>9. ASSUME NEW k \in 1 .. n PROVE Full[1 + k] = body[k]
    <2> DEFINE x == 1 + k
    <2>1. x \in 1 .. n + 2 /\ x <= n + 1 /\ x \in 1 .. n + 1 /\ ~(x <= 1) /\ x - 1 = k
      BY <1>2
    <2> HIDE DEF x
    <2>2. Full[x] = body[x - 1]
      BY <1>3, <1>7, <2>1
    <2> QED BY <2>1, <2>2 DEF x
  <1>10. Full[n + 2] = Sum
    <2>1. n + 2 \in 1 .. n + 2 /\ ~(n + 2 <= n + 1) /\ (n + 2) - (n + 1) = 1
      BY <1>2
    <2> QED BY <1>5, <1>7, <2>1
  <1>11. SubSeq(Full, 1, n + 1) = s
    <2>1. \A k \in 1 .. n + 1 : Full[k] = s[k] /\ Full[k] \in AnyField
      <3>1. \A k \in 1 .. n + 1 : k \in 1 .. n + 2 /\ k <= n + 1
        BY <1>2
      <3>2. \A k \in 1 .. n + 1 : s[k] \in AnyField
        BY <1>3, <1>5, ElementOfSeq
      <3> QED BY <1>7, <3>1, <3>2
    <2> DEFINE r == SubSeq(Full, 1, n + 1)
    <2>2. r \in Seq(AnyField) /\ Len(r) = n + 1 /\ \A k \in 1 .. n + 1 : r[k] = Full[k]
      <3>1. /\ r \in Seq(AnyField)
            /\ Len(r) = IF 1 <= n + 1 THEN (n + 1) - 1 + 1 ELSE 0
            /\ \A k \in 1 .. (n + 1) - 1 + 1 : r[k] = Full[1 + k - 1]
        BY <1>2, <2>1, SubSeqProperties
      <3> HIDE DEF r
      <3>2. 1 <= n + 1 /\ (n + 1) - 1 + 1 = n + 1 /\ \A k \in 1 .. n + 1 : 1 + k - 1 = k
        BY <1>2
      <3> QED BY <3>1, <3>2
    <2> HIDE DEF r
    <2>3. r = s
      BY <1>3, <1>5, <2>1, <2>2, SeqEqual
    <2> QED BY <2>3 DEF r
  <1> QED BY <1>2, <1>7, <1>8, <1>9, <1>10, <1>11 DEF n, s, h

\* Behind the first j entries comes field q + 1.
Place(j, q) ==
  \E f : Encoded(version, f, entries) /\ body = f[Len(entries)] /\ q = 1 + Len(f[j])

\* The file is a beginning of what was written, all of it unless it was cut short.
FileInv ==
  /\ LayoutInv /\ body \in Seq(Field) /\ Len(entries) <= MaxEntries
  /\ image \in Seq(AnyField) /\ Len(image) <= Len(Full)
  /\ \A i \in 1 .. Len(image) : image[i] = Full[i]
  /\ ~torn => image \in {<<>>, Full}
  /\ ~torn /\ image = <<>> => pos = 0 /\ outcome = "reading"

\* The decoder has the first entries and is behind them.
DecoderInv ==
  /\ decoded \in Seq(Entry) /\ Len(decoded) <= Len(entries)
  /\ decoded = SubSeq(entries, 1, Len(decoded))
  /\ pos \in 0 .. Len(image)
  /\ pos = 0 => decoded = <<>>
  /\ pos > 0 => Place(Len(decoded), pos)
  /\ outcome \in {"reading", "decoded", "failed"}
  /\ ~torn => outcome # "failed"
  /\ outcome = "decoded" => Len(decoded) = Len(entries)

DecodeInv == FileInv /\ DecoderInv

LEMMA DecodeStarts == Init => DecodeInv
  <1> SUFFICES ASSUME Init PROVE DecodeInv
    OBVIOUS
  <1>1. LayoutInv
    BY LayoutStarts
  <1>2. /\ entries = <<>> /\ body = <<>> /\ image = <<>> /\ decoded = <<>>
        /\ ~torn /\ pos = 0 /\ outcome = "reading"
    BY DEF Init
  <1>3. body \in Seq(Field) /\ Len(<<>>) = 0
    BY <1>2, EmptySeq
  <1>4. Len(Full) = Len(body) + 2 /\ Len(body) \in Nat
    BY <1>1, <1>3, FullIs
  <1>5. FileInv
    <2>1. image \in Seq(AnyField) /\ Len(image) = 0 /\ 0 <= Len(Full)
      BY <1>2, <1>3, <1>4, EmptySeq
    <2>2. 0 <= MaxEntries
      BY BoundAssumption
    <2> QED BY <1>1, <1>2, <1>3, <2>1, <2>2 DEF FileInv
  <1>6. DecoderInv
    <2>1. SubSeq(entries, 1, 0) = <<>>
      BY SubSeqEmpty
    <2>2. decoded \in Seq(Entry)
      BY <1>2, EmptySeq
    <2> QED BY <1>2, <1>3, <2>1, <2>2 DEF DecoderInv
  <1> QED BY <1>5, <1>6 DEF DecodeInv

\* While the file is not written, the decoder has nothing.
LEMMA WriteKeepsDecode ==
  ASSUME DecodeInv, LayoutInv', body' \in Seq(Field), NEW e \in Entry, Write(e)
  PROVE  DecodeInv'
  <1>1. /\ image = <<>> /\ image' = <<>> /\ ~torn /\ ~torn'
        /\ pos' = pos /\ outcome' = outcome /\ decoded' = decoded
        /\ entries' = Append(entries, e) /\ Len(entries) < MaxEntries
    BY DEF Write
  <1>2. pos = 0 /\ outcome = "reading" /\ decoded = <<>>
    BY <1>1 DEF DecodeInv, FileInv, DecoderInv
  <1>3. entries \in Seq(Entry) /\ Len(entries) \in Nat /\ Len(entries') = Len(entries) + 1
    <2>1. entries \in Seq(Entry)
      BY DEF DecodeInv, FileInv, LayoutInv
    <2> QED BY <1>1, <2>1, LenProperties, AppendProperties
  <1>4. Len(<<>>) = 0
    OBVIOUS
  <1>5. Len(Full') = Len(body') + 2 /\ Len(body') \in Nat
    <2>1. (LayoutInv /\ body \in Seq(Field) => Len(Full) = Len(body) + 2 /\ Len(body) \in Nat)'
      BY FullIs, PTL
    <2> QED BY <2>1
  <1>6. FileInv'
    <2>1. image' \in Seq(AnyField) /\ Len(image') = 0 /\ 0 <= Len(Full')
      BY <1>1, <1>4, <1>5, EmptySeq
    <2>2. Len(entries') <= MaxEntries
      BY <1>1, <1>3, BoundAssumption
    <2> QED BY <1>1, <1>2, <2>1, <2>2 DEF FileInv
  <1>7. DecoderInv'
    <2>1. SubSeq(entries', 1, 0) = <<>>
      BY SubSeqEmpty
    <2>2. decoded \in Seq(Entry)
      BY <1>2, EmptySeq
    <2> QED BY <1>1, <1>2, <1>3, <1>4, <2>1, <2>2 DEF DecoderInv
  <1> QED BY <1>6, <1>7 DEF DecodeInv

LEMMA FinishKeepsDecode ==
  ASSUME DecodeInv, Finish
  PROVE  DecodeInv'
  <1>1. /\ image = <<>> /\ image' = Full /\ ~torn /\ ~torn'
        /\ UNCHANGED <<version, entries, body, decoded, pos, outcome>>
    BY DEF Finish, Full, Sum
  <1>2. pos = 0 /\ outcome = "reading" /\ decoded = <<>>
    BY <1>1 DEF DecodeInv, FileInv, DecoderInv
  <1>3. LayoutInv /\ body \in Seq(Field)
    BY DEF DecodeInv, FileInv
  <1>4. Full \in Seq(AnyField) /\ Len(Full) = Len(body) + 2 /\ Len(body) \in Nat
        /\ Full # <<>>
    <2>1. Full \in Seq(AnyField) /\ Len(Full) = Len(body) + 2 /\ Len(body) \in Nat
      BY <1>3, FullIs
    <2>2. Len(<<>>) = 0
      OBVIOUS
    <2> QED BY <2>1, <2>2
  <1>5. Full' = Full /\ LayoutInv'
    BY <1>1, <1>3 DEF Full, Sum, Header, LayoutInv
  <1> HIDE DEF Full
  <1>6. FileInv'
    BY <1>1, <1>3, <1>4, <1>5 DEF FileInv, DecodeInv
  <1>7. DecoderInv'
    <2>1. 0 \in 0 .. Len(Full)
      BY <1>4
    <2> QED BY <1>1, <1>2, <2>1 DEF DecoderInv, DecodeInv
  <1> QED BY <1>6, <1>7 DEF DecodeInv

LEMMA TearKeepsDecode ==
  ASSUME DecodeInv, Tear
  PROVE  DecodeInv'
  <1>1. /\ pos = 0 /\ outcome = "reading" /\ torn' /\ decoded = <<>>
        /\ UNCHANGED <<version, entries, body, decoded, pos, outcome>>
    BY DEF Tear, DecodeInv, DecoderInv
  <1>2. PICK n \in 0 .. Len(image) - 1 : image' = SubSeq(image, 1, n)
    BY DEF Tear
  <1>3. /\ LayoutInv /\ body \in Seq(Field)
        /\ image \in Seq(AnyField) /\ Len(image) <= Len(Full) /\ Len(image) \in Nat
        /\ \A i \in 1 .. Len(image) : image[i] = Full[i]
    BY LenProperties DEF DecodeInv, FileInv
  <1>4. Len(Full) \in Nat
    BY <1>3, FullIs, LenProperties
  <1>5. image' \in Seq(AnyField) /\ Len(image') = n /\ \A i \in 1 .. n : image'[i] = image[i]
    <2> DEFINE r == SubSeq(image, 1, n)
    <2>1. n \in Nat /\ \A i \in 1 .. n : image[i] \in AnyField
      <3>1. \A i \in 1 .. n : i \in 1 .. Len(image)
        BY <1>2, <1>3
      <3> QED BY <1>2, <1>3, <3>1, ElementOfSeq
    <2>2. /\ r \in Seq(AnyField)
          /\ Len(r) = IF 1 <= n THEN n - 1 + 1 ELSE 0
          /\ \A i \in 1 .. n - 1 + 1 : r[i] = image[1 + i - 1]
      BY <2>1, SubSeqProperties
    <2> HIDE DEF r
    <2>3. (IF 1 <= n THEN n - 1 + 1 ELSE 0) = n /\ n - 1 + 1 = n /\ \A i \in 1 .. n : 1 + i - 1 = i
      BY <2>1
    <2> QED BY <1>2, <2>2, <2>3 DEF r
  <1>6. Full' = Full /\ LayoutInv'
    BY <1>1, <1>3 DEF Full, Sum, Header, LayoutInv
  <1> HIDE DEF Full
  <1>7. FileInv'
    <2>1. n <= Len(Full) /\ \A i \in 1 .. n : i \in 1 .. Len(image)
      BY <1>2, <1>3, <1>4
    <2> QED BY <1>1, <1>3, <1>5, <1>6, <2>1 DEF FileInv, DecodeInv
  <1>8. DecoderInv'
    <2>1. 0 \in 0 .. n
      BY <1>2
    <2> QED BY <1>1, <1>5, <2>1 DEF DecoderInv, DecodeInv
  <1> QED BY <1>7, <1>8 DEF DecodeInv

\* A decoder that has read the header knows how many entries were written.
LEMMA CountIsRead ==
  ASSUME FileInv, 1 <= Len(image)
  PROVE  image[1] = Header /\ image[1][2][2] = Len(entries)
  <1>1. Full[1] = Header /\ Len(image) \in Nat
    BY FullIs, LenProperties DEF FileInv
  <1>2. 1 \in 1 .. Len(image)
    BY <1>1
  <1>3. image[1] = Header
    BY <1>1, <1>2 DEF FileInv
  <1> QED BY <1>3 DEF Header

LEMMA FileStays ==
  ASSUME FileInv, pos > 0 \/ image # <<>> \/ torn,
         UNCHANGED <<version, entries, body, image, torn>>, pos \in 0 .. Len(image)
  PROVE  FileInv'
  <1>1. Full' = Full /\ LayoutInv'
    BY DEF FileInv, Full, Sum, Header, LayoutInv
  <1>2. torn \/ image # <<>>
    <2>1. Len(<<>>) = 0
      OBVIOUS
    <2>2. image = <<>> => ~(pos > 0)
      BY <2>1
    <2> QED BY <2>2
  <1> HIDE DEF Full
  <1> QED BY <1>1, <1>2 DEF FileInv

LEMMA HeaderKeepsDecode ==
  ASSUME DecodeInv, ReadHeader
  PROVE  DecodeInv'
  <1>1. /\ image # <<>> \/ torn
        /\ pos = 0 /\ decoded = <<>> /\ outcome = "reading"
        /\ UNCHANGED <<version, entries, body, image, torn, decoded>>
    BY DEF ReadHeader, Fail, DecodeInv, DecoderInv
  <1>2. FileInv'
    BY <1>1, FileStays DEF DecodeInv, DecoderInv
  <1>3. LayoutInv /\ entries \in Seq(Entry)
    BY DEF DecodeInv, FileInv, LayoutInv
  <1>4. CASE Has(1, "header")
    <2>1. pos' = 1 /\ outcome' = outcome
      BY <1>4 DEF ReadHeader
    <2>2. pos' \in 0 .. Len(image') /\ pos' # 0
      <3>1. Len(image) \in Nat
        BY LenProperties DEF DecodeInv, FileInv
      <3>2. 1 <= Len(image)
        BY <1>4 DEF Has
      <3> QED BY <1>1, <2>1, <3>1, <3>2
    <2>3. Place(Len(decoded), 1)
      <3>1. PICK f : Encoded(version, f, entries) /\ body = f[Len(entries)]
        BY <1>3 DEF LayoutInv
      <3>2. f[0] = <<>>
        BY <1>3, <3>1, EncodedParts DEF LayoutInv
      <3>3. Len(decoded) = 0 /\ 1 = 1 + Len(f[0])
        BY <1>1, <3>2
      <3> QED BY <3>1, <3>3 DEF Place
    <2>4. Place(Len(decoded), pos)'
      BY <1>1, <2>1, <2>3 DEF Place
    <2>5. DecoderInv'
      BY <1>1, <2>1, <2>2, <2>4 DEF DecodeInv, DecoderInv
    <2> QED BY <1>2, <2>5 DEF DecodeInv
  <1>5. CASE ~Has(1, "header")
    <2>1. pos' = pos /\ outcome' = "failed"
      BY <1>5 DEF ReadHeader, Fail
    <2>2. torn
      <3> SUFFICES ASSUME ~torn PROVE FALSE
        OBVIOUS
      <3>1. image = Full
        BY <1>1 DEF DecodeInv, FileInv
      <3>2. 1 <= Len(image)
        BY <1>3, <3>1, FullIs DEF DecodeInv, FileInv
      <3>3. image[1] = Header
        BY <3>2, CountIsRead DEF DecodeInv
      <3>4. Has(1, "header")
        BY <3>2, <3>3 DEF Has, Header
      <3> QED BY <1>5, <3>4
    <2>3. DecoderInv'
      BY <1>1, <2>1, <2>2 DEF DecodeInv, DecoderInv
    <2> QED BY <1>2, <2>3 DEF DecodeInv
  <1> QED BY <1>4, <1>5

\* A file that was not cut short ends where it should; the checksum is that of
\* all before it.
LEMMA ChecksumKeepsDecode ==
  ASSUME DecodeInv, ReadChecksum
  PROVE  DecodeInv'
  <1>1. /\ pos > 0 /\ Len(decoded) = image[1][2][2]
        /\ UNCHANGED <<version, entries, body, image, torn, decoded, pos>>
        /\ outcome' \in {"decoded", "failed"}
    BY DEF ReadChecksum, Fail
  <1>2. FileInv'
    BY <1>1, FileStays DEF DecodeInv, DecoderInv
  <1>3. /\ LayoutInv /\ entries \in Seq(Entry) /\ body \in Seq(Field)
        /\ pos \in 0 .. Len(image) /\ Len(image) \in Nat
        /\ FileInv
    BY LenProperties DEF DecodeInv, FileInv, LayoutInv, DecoderInv
  <1>4. Len(decoded) = Len(entries)
    <2>1. 1 <= Len(image)
      BY <1>1, <1>3
    <2> QED BY <1>1, <1>3, <2>1, CountIsRead
  <1>5. pos = 1 + Len(body)
    <2>1. PICK f : /\ Encoded(version, f, entries) /\ body = f[Len(entries)]
                   /\ pos = 1 + Len(f[Len(decoded)])
      BY <1>1 DEF DecodeInv, DecoderInv, Place
    <2> QED BY <1>4, <2>1
  <1>6. ASSUME ~torn PROVE outcome' = "decoded"
    <2>1. image = Full
      <3>1. image # <<>>
        <4>1. Len(<<>>) = 0
          OBVIOUS
        <4> QED BY <1>1, <1>3, <4>1
      <3> QED BY <1>3, <1>6, <3>1 DEF FileInv
    <2>2. /\ Len(Full) = Len(body) + 2 /\ Full[Len(body) + 2] = Sum /\ Len(body) \in Nat
          /\ SubSeq(Full, 1, Len(body) + 1) = <<Header>> \o body
      BY <1>3, FullIs
    <2>3. pos + 1 = Len(body) + 2 /\ pos = Len(body) + 1
      BY <1>5, <2>2
    <2>4. Has(pos + 1, "sum") /\ image[pos + 1][2] = SubSeq(image, 1, pos)
      <3>1. pos + 1 <= Len(image) /\ image[pos + 1] = Sum
        BY <2>1, <2>2, <2>3
      <3>2. SubSeq(image, 1, pos) = <<Header>> \o body
        BY <2>1, <2>2, <2>3
      <3>3. Sum[1] = "sum" /\ Sum[2] = <<Header>> \o body
        BY DEF Sum
      <3>4. Has(pos + 1, "sum")
        BY <3>1, <3>3 DEF Has
      <3>5. image[pos + 1][2] = <<Header>> \o body
        BY <3>1, <3>3
      <3> QED BY <3>2, <3>4, <3>5
    <2> QED BY <2>4 DEF ReadChecksum
  <1>7. Place(Len(decoded), pos)'
    BY <1>1 DEF Place, DecodeInv, DecoderInv
  <1>8. DecoderInv'
    BY <1>1, <1>4, <1>6, <1>7 DEF DecodeInv, DecoderInv
  <1> QED BY <1>2, <1>8 DEF DecodeInv

LEMMA ReadEntryKeepsDecode ==
  ASSUME DecodeInv, ReadEntry
  PROVE  DecodeInv'
  <1> DEFINE k == Len(decoded)
             e == entries[k + 1]
             E == EncodeFor(version, e, Read)
  <1>1. /\ pos > 0 /\ k < image[1][2][2]
        /\ UNCHANGED <<version, entries, body, image, torn>>
    BY DEF ReadEntry
  <1>2. FileInv'
    BY <1>1, FileStays DEF DecodeInv, DecoderInv
  <1>3. /\ LayoutInv /\ entries \in Seq(Entry) /\ body \in Seq(Field) /\ version \in {2, 3, 4}
        /\ pos \in 0 .. Len(image) /\ Len(image) \in Nat /\ FileInv
        /\ decoded \in Seq(Entry) /\ decoded = SubSeq(entries, 1, k)
        /\ outcome \in {"reading", "decoded", "failed"}
        /\ Len(entries) \in Nat /\ k \in Nat
    BY LenProperties DEF DecodeInv, FileInv, LayoutInv, DecoderInv
  <1>4. image[1][2][2] = Len(entries)
    <2>1. 1 <= Len(image)
      BY <1>1, <1>3
    <2> QED BY <1>3, <2>1, CountIsRead
  <1> HIDE DEF k
  <1>5. k \in 0 .. Len(entries) - 1 /\ e \in Entry
    <2>1. k \in 0 .. Len(entries) - 1 /\ k + 1 \in 1 .. Len(entries)
      BY <1>1, <1>3, <1>4
    <2> QED BY <1>3, <2>1, ElementOfSeq
  <1>6. Read = IF k = 0 THEN <<>> ELSE <<entries[k]>>
    <2>1. CASE decoded = <<>>
      BY <2>1 DEF Read, k
    <2>2. CASE decoded # <<>>
      <3>1. k # 0
        BY <1>3, <2>2, EmptySeq DEF k
      <3>2. SubSeq(entries, 1, k)[k] = entries[k]
        <4>1. \A i \in 1 .. k : entries[i] \in Entry
          <5>1. \A i \in 1 .. k : i \in 1 .. Len(entries)
            BY <1>3, <1>5
          <5> QED BY <1>3, <5>1, ElementOfSeq
        <4>2. \A i \in 1 .. k - 1 + 1 : SubSeq(entries, 1, k)[i] = entries[1 + i - 1]
          BY <1>3, <4>1, SubSeqProperties
        <4>3. k \in 1 .. k - 1 + 1 /\ 1 + k - 1 = k
          BY <1>3, <3>1
        <4> QED BY <4>2, <4>3
      <3>3. Last(decoded) = decoded[k]
        BY DEF Last, k
      <3> QED BY <1>3, <2>2, <3>1, <3>2, <3>3 DEF Read
    <2> QED BY <2>1, <2>2
  <1>7. PICK f : /\ Encoded(version, f, entries) /\ body = f[Len(entries)]
                 /\ pos = 1 + Len(f[k])
    BY <1>1 DEF DecodeInv, DecoderInv, Place, k
  <1>8. E = EncodeFor(version, entries[k + 1], IF k = 0 THEN <<>> ELSE <<entries[k]>>)
    BY <1>6
  <1> HIDE DEF E
  <1>9. /\ Len(f[k]) \in Nat /\ Len(E) \in Nat /\ Len(body) \in Nat
        /\ Len(f[k + 1]) = Len(f[k]) + Len(E) /\ Len(f[k + 1]) <= Len(body)
        /\ \A j \in 1 .. Len(E) : body[Len(f[k]) + j] = E[j]
    <2>1. k \in 0 .. Len(entries) - 1
      BY <1>5
    <2>2. Behind(f, entries, k, E)
      BY <1>3, <1>7, <1>8, <2>1, EntryPlace
    <2>3. /\ Len(f[k]) \in Nat /\ Len(E) \in Nat /\ Len(f[Len(entries)]) \in Nat
          /\ Len(f[k + 1]) = Len(f[k]) + Len(E) /\ Len(f[k + 1]) <= Len(f[Len(entries)])
          /\ \A j \in 1 .. Len(E) : f[Len(entries)][Len(f[k]) + j] = E[j]
      BY <2>2 DEF Behind
    <2> QED BY <1>7, <2>3
  <1>10. /\ Len(Full) = Len(body) + 2 /\ \A j \in 1 .. Len(body) : Full[1 + j] = body[j]
    BY <1>3, FullIs
  <1>11. Follows(pos, E)
    <2> SUFFICES ASSUME NEW j \in 1 .. Len(E), pos + j <= Len(image)
                 PROVE  image[pos + j] = E[j]
      BY DEF Follows
    <2> DEFINE x == Len(f[k]) + j
    <2>1. x \in 1 .. Len(body) /\ pos + j = 1 + x /\ 1 + x \in 1 .. Len(image)
      <3> DEFINE a == Len(f[k])
                 b == Len(E)
                 c == Len(body)
                 d == Len(f[k + 1])
      <3>1. a \in Nat /\ b \in Nat /\ c \in Nat /\ d = a + b /\ d <= c /\ pos = 1 + a /\ j \in 1 .. b
        BY <1>7, <1>9
      <3> HIDE DEF a, b, c, d
      <3>2. a + j \in 1 .. c /\ pos + j = 1 + (a + j) /\ 1 + (a + j) \in 1 .. Len(image)
        BY <1>3, <3>1
      <3> QED BY <3>2 DEF a, c
    <2>2. body[x] = E[j]
      BY <1>9
    <2> HIDE DEF x
    <2>3. image[1 + x] = Full[1 + x]
      BY <1>3, <2>1 DEF FileInv
    <2> QED BY <1>10, <2>1, <2>2, <2>3
  <1> HIDE DEF e
  <1>12. \/ /\ decoded' = Append(decoded, e) /\ pos' = pos + Len(E)
            /\ outcome' = outcome /\ pos + Len(E) <= Len(image)
         \/ Fail /\ pos + Len(E) > Len(image)
    <2>1. image \in Seq(AnyField) /\ pos \in Nat
      BY <1>3 DEF FileInv
    <2> QED BY <1>3, <1>5, <1>11, <2>1, ReadEntryIs DEF E
  <1>13. CASE Fail /\ pos + Len(E) > Len(image)
    <2>1. torn
      <3> SUFFICES ASSUME ~torn PROVE FALSE
        OBVIOUS
      <3>1. image # <<>>
        <4>1. Len(<<>>) = 0
          OBVIOUS
        <4> QED BY <1>1, <1>3, <4>1
      <3>2. image = Full
        BY <1>3, <3>1 DEF FileInv
      <3>3. Len(image) = Len(body) + 2
        BY <1>10, <3>2
      <3> QED BY <1>3, <1>7, <1>9, <1>13, <3>3
    <2>2. decoded' = decoded /\ pos' = pos /\ outcome' = "failed"
      BY <1>13 DEF Fail
    <2>3. Place(Len(decoded), pos)'
      BY <1>1, <2>2 DEF Place, DecodeInv, DecoderInv
    <2>4. DecoderInv'
      BY <1>1, <2>1, <2>2, <2>3 DEF DecodeInv, DecoderInv
    <2> QED BY <1>2, <2>4 DEF DecodeInv
  <1>14. CASE /\ decoded' = Append(decoded, e) /\ pos' = pos + Len(E)
              /\ outcome' = outcome /\ pos + Len(E) <= Len(image)
    <2>1. decoded' \in Seq(Entry) /\ Len(decoded') = k + 1
      BY <1>3, <1>5, <1>14, AppendProperties DEF k
    <2>2. decoded' = SubSeq(entries', 1, Len(decoded'))
      <3>1. SubSeq(entries, 1, k + 1) = Append(SubSeq(entries, 1, k), entries[k + 1])
        <4>1. 1 \in 1 .. Len(entries) /\ k + 1 \in 1 .. Len(entries) /\ (k + 1) - 1 = k
          BY <1>3, <1>5
        <4>2. SubSeq(entries, 1, k + 1) = SubSeq(entries, 1, k) \o <<entries[k + 1]>>
          BY <1>3, <4>1, SubSeqRecursiveSecond
        <4>4. SubSeq(entries, 1, k) \in Seq(Entry) /\ entries[k + 1] \in Entry
          BY <1>3, <1>5 DEF e
        <4> QED BY <4>2, <4>4, AppendIsConcat
      <3> QED BY <1>1, <1>3, <1>14, <2>1, <3>1 DEF e
    <2>3. pos' \in 0 .. Len(image') /\ pos' > 0
      BY <1>1, <1>3, <1>9, <1>14
    <2>4. Place(k + 1, pos + Len(E))
      <3>1. pos + Len(E) = 1 + Len(f[k + 1])
        BY <1>7, <1>9
      <3> QED BY <1>7, <3>1 DEF Place
    <2>5. Place(Len(decoded), pos)'
      BY <1>1, <1>14, <2>1, <2>4 DEF Place
    <2>6. Len(decoded') <= Len(entries')
      BY <1>1, <1>5, <2>1
    <2>7. outcome' # "decoded" /\ outcome' \in {"reading", "decoded", "failed"} /\ (~torn' => outcome' # "failed")
      BY <1>14 DEF ReadEntry
    <2>8. DecoderInv'
      BY <2>1, <2>2, <2>3, <2>5, <2>6, <2>7 DEF DecoderInv
    <2> QED BY <1>2, <2>8 DEF DecodeInv
  <1> QED BY <1>12, <1>13, <1>14

LEMMA DecodeKept == DecodeInv /\ [Next]_vars => DecodeInv'
  <1> SUFFICES ASSUME DecodeInv, [Next]_vars PROVE DecodeInv'
    OBVIOUS
  <1>1. LayoutInv'
    BY LayoutKept DEF DecodeInv, FileInv
  <1>2. ASSUME NEW e \in Entry, Write(e) PROVE DecodeInv'
    <2>1. LayoutInv /\ body \in Seq(Field)
      BY DEF DecodeInv, FileInv
    <2>2. EncodeEntry(e, Previous) \in Seq(Field)
      BY <2>1, PreviousIs, EncodesFields DEF LayoutInv
    <2>3. body' = body \o EncodeEntry(e, Previous)
      BY <1>2, <2>1, WriteEncodes
    <2>4. body' \in Seq(Field)
      BY <2>1, <2>2, <2>3, ConcatProperties
    <2> QED BY <1>1, <1>2, <2>4, WriteKeepsDecode
  <1>3. CASE Finish
    BY <1>3, FinishKeepsDecode
  <1>4. CASE Tear
    BY <1>4, TearKeepsDecode
  <1>5. CASE ReadHeader
    BY <1>5, HeaderKeepsDecode
  <1>6. CASE ReadEntry
    BY <1>6, ReadEntryKeepsDecode
  <1>7. CASE ReadChecksum
    BY <1>7, ChecksumKeepsDecode
  <1>8. CASE UNCHANGED vars
    <2>1. Full' = Full /\ LayoutInv' /\ (Place(Len(decoded), pos)' <=> Place(Len(decoded), pos))
      BY <1>1, <1>8 DEF vars, Full, Sum, Header, Place
    <2>2. FileInv'
      BY <1>8, <2>1 DEF vars, DecodeInv, FileInv
    <2>3. DecoderInv'
      BY <1>8, <2>1 DEF vars, DecodeInv, DecoderInv
    <2> QED BY <2>2, <2>3 DEF DecodeInv
  <1> QED BY <1>2, <1>3, <1>4, <1>5, <1>6, <1>7, <1>8 DEF Next

\* Whoever wrote an index, in versions 2, 3 and 4, for names of any bytes and
\* lengths, any mask and any base of the numbers and any number of entries, the
\* decoder reads back the entries that were written, in order, and never fails
\* on a file that is whole.
THEOREM RoundTrip == Spec => []DecodesWhatWasWritten
  <1>1. Spec => []DecodeInv
    BY DecodeStarts, DecodeKept, PTL DEF Spec
  <1>2. DecodeInv => DecodesWhatWasWritten
    BY DEF DecodeInv, DecoderInv, DecodesWhatWasWritten
  <1> QED BY <1>1, <1>2, PTL

\* The decoder never makes up an entry and never reads past the end of the file,
\* be it cut short or not.
THEOREM TypeCorrect == Spec => []TypeOK
  <1>1. Spec => []DecodeInv
    BY DecodeStarts, DecodeKept, PTL DEF Spec
  <1>2. ASSUME DecodeInv PROVE TypeOK
    <2>1. /\ entries \in Seq(Entry) /\ decoded \in Seq(Entry)
          /\ Len(entries) <= MaxEntries /\ Len(decoded) <= Len(entries)
          /\ pos \in 0 .. Len(image) /\ outcome \in {"reading", "decoded", "failed"}
      BY <1>2 DEF DecodeInv, FileInv, DecoderInv, LayoutInv
    <2>2. \A i \in DOMAIN entries : entries[i] \in Entry
      BY <2>1, LenProperties, ElementOfSeq
    <2>3. \A i \in DOMAIN decoded : decoded[i] \in Entry
      BY <2>1, LenProperties, ElementOfSeq
    <2> QED BY <2>1, <2>2, <2>3 DEF TypeOK
  <1> QED BY <1>1, <1>2, PTL
=============================================================================

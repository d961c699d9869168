-------------------------- MODULE RecordingProofs --------------------------
(***************************************************************************)
(* Proofs about Recording, for every job of every program.  What a writer  *)
(* appends is a layout: one frame after another, of which the bytes are    *)
(* known place by place.  A reader that is at the beginning of a frame     *)
(* finds its fields, and is at the beginning of a frame when it has read   *)
(* it: the analysis, by the lengths in the headers, at that of the next    *)
(* one, where no header is wrong; the dashboard, field by field, at that   *)
(* of a later one, since a terminator is found only where a frame ends.    *)
(* The frames of a file say what the job described, round by round, and    *)
(* so does the screen that was filled from them.                           *)
(***************************************************************************)
EXTENDS Recording, FiniteSetTheorems, SequenceTheorems, WellFoundedInduction, TLAPS

-----------------------------------------------------------------------------
(* What holds of all numbers up to one *)

\* A set of naturals that is not empty has a least element.
LEMMA LeastOf ==
  ASSUME NEW T, T \subseteq Nat, T # {}
  PROVE  \E x \in T : \A y \in T : x <= y
<1>1. PICK R : R = {p \in Nat \X Nat : p[1] < p[2]} OBVIOUS
<1>2. IsWellFoundedOn(R, Nat) BY <1>1, NatLessThanWellFounded, Zenon DEF OpToRel
<1>3. PICK x \in T : \A y \in T : ~ (<<y, x>> \in R) BY <1>2, WFMin
<1>4. ASSUME NEW y \in T PROVE x <= y
  <2>1. <<y, x>> \in Nat \X Nat /\ <<y, x>> \notin R BY <1>3
  <2>2. ~ (y < x) BY <1>1, <2>1
  <2>3. QED BY <2>2
<1>5. QED BY <1>4

\* What holds of 0, and of a number when it holds of the one before, holds up to n.
LEMMA UpTo ==
  ASSUME NEW P, NEW n \in Nat, 0 \in P,
         \A i \in 1 .. n : i - 1 \in P => i \in P
  PROVE  0 .. n \subseteq P
<1> DEFINE Bad == {i \in 0 .. n : i \notin P}
<1>1. SUFFICES ASSUME Bad # {} PROVE FALSE OBVIOUS
<1>2. PICK i \in Bad : \A y \in Bad : i <= y
  <2>1. Bad \subseteq Nat OBVIOUS
  <2>2. QED BY <1>1, <2>1, LeastOf
<1>3. i \in 1 .. n /\ i - 1 \in 0 .. n /\ ~ (i <= i - 1) OBVIOUS
<1>4. i - 1 \in P BY <1>2, <1>3
<1>5. QED BY <1>2, <1>3, <1>4

\* A recursion over 0..n, with a step for each number, and values in S.
Recursion(f, n, S, base, step) ==
  /\ f \in [0 .. n -> S]
  /\ f[0] = base
  /\ \A i \in 1 .. n : f[i] = step[i][f[i - 1]]

\* A recursion whose every step stays in a set has a solution.
LEMMA RecursionExists ==
  ASSUME NEW S, NEW n \in Nat, NEW base \in S, NEW step \in [1 .. n -> [S -> S]]
  PROVE  \E f : Recursion(f, n, S, base, step)
<1> DEFINE P == {m \in 0 .. n : \E f : Recursion(f, m, S, base, step)}
<1>1. 0 \in P
  <2>1. PICK f : f = [i \in 0 .. 0 |-> base] OBVIOUS
  <2>2. Recursion(f, 0, S, base, step) BY <2>1 DEF Recursion
  <2>3. QED BY <2>2
<1>2. ASSUME NEW m \in 1 .. n, m - 1 \in P PROVE m \in P
  <2>1. PICK f : Recursion(f, m - 1, S, base, step) BY <1>2
  <2>2. step[m][f[m - 1]] \in S BY <2>1 DEF Recursion
  <2>3. PICK g : g = [i \in 0 .. m |-> IF i = m THEN step[m][f[m - 1]] ELSE f[i]] OBVIOUS
  <2>4. \A i \in 0 .. m - 1 : g[i] = f[i] BY <2>3
  <2>5. g \in [0 .. m -> S] BY <2>1, <2>2, <2>3 DEF Recursion
  <2>6. ASSUME NEW i \in 1 .. m PROVE g[i] = step[i][g[i - 1]]
    <3>1. g[i - 1] = f[i - 1] BY <2>4
    <3>2. CASE i = m BY <2>3, <3>1, <3>2
    <3>3. CASE i # m BY <2>1, <2>4, <3>1, <3>3 DEF Recursion
    <3>4. QED BY <3>2, <3>3
  <2>7. g[0] = base BY <2>1, <2>4 DEF Recursion
  <2>8. Recursion(g, m, S, base, step) BY <2>5, <2>6, <2>7 DEF Recursion
  <2>9. QED BY <2>8
<1>3. n \in P
  <2> HIDE DEF P
  <2>1. 0 .. n \subseteq P BY <1>1, <1>2, UpTo
  <2>2. QED BY <2>1
<1>4. QED BY <1>3

-----------------------------------------------------------------------------
(* Concatenations *)

\* The concatenations of the first rows, up to n of them.
RowsUpTo(rows, g, n) ==
  g = [i \in 1 .. n |-> IF i = 1 THEN rows[i] ELSE g[i - 1] \o rows[i]]

\* They exist.
LEMMA RowsExist ==
  ASSUME NEW rows, NEW n \in Nat
  PROVE  \E g : RowsUpTo(rows, g, n)
<1> DEFINE Bad == {m \in Nat : ~ \E g : RowsUpTo(rows, g, m)}
<1>1. SUFFICES ASSUME Bad # {} PROVE FALSE OBVIOUS
<1>2. PICK m \in Bad : \A y \in Bad : m <= y BY <1>1, LeastOf
<1>3. m \in Nat /\ ~ \E g : RowsUpTo(rows, g, m) OBVIOUS
<1>4. m # 0
  <2>1. RowsUpTo(rows, [i \in 1 .. 0 |-> 0], 0) BY DEF RowsUpTo
  <2>2. QED BY <1>3, <2>1
<1>5. m - 1 \in Nat /\ m - 1 \notin Bad BY <1>2, <1>3, <1>4
<1>6. PICK g : RowsUpTo(rows, g, m - 1) BY <1>5
<1>7. PICK h : h = [i \in 1 .. m |-> IF i = 1 THEN rows[i] ELSE g[i - 1] \o rows[i]] OBVIOUS
<1>8. ASSUME NEW i \in 1 .. (m - 1) PROVE h[i] = g[i]
  <2>1. g[i] = IF i = 1 THEN rows[i] ELSE g[i - 1] \o rows[i] BY <1>6 DEF RowsUpTo
  <2>2. i \in 1 .. m BY <1>3
  <2>3. QED BY <1>7, <2>1, <2>2
<1>9. ASSUME NEW i \in 1 .. m PROVE h[i] = IF i = 1 THEN rows[i] ELSE h[i - 1] \o rows[i]
  <2>1. h[i] = IF i = 1 THEN rows[i] ELSE g[i - 1] \o rows[i] BY <1>7
  <2>2. CASE i = 1 BY <2>1, <2>2
  <2>3. CASE i # 1
    <3>1. i - 1 \in 1 .. (m - 1) BY <1>3, <2>3
    <3>2. h[i - 1] = g[i - 1] BY <1>8, <3>1
    <3>3. QED BY <2>1, <2>3, <3>2
  <2>4. QED BY <2>2, <2>3
<1>10. h = [i \in 1 .. m |-> IF i = 1 THEN rows[i] ELSE h[i - 1] \o rows[i]] BY <1>7, <1>9
<1>11. RowsUpTo(rows, h, m) BY <1>10 DEF RowsUpTo
<1>12. QED BY <1>3, <1>11


\* Rows of elements of a set make a sequence of such elements.
LEMMA FlatType ==
  ASSUME NEW S, NEW rows \in Seq(Seq(S))
  PROVE  FlattenSeq(rows) \in Seq(S)
<1>1. PICK n \in Nat : n = Len(rows) OBVIOUS
<1>2. CASE n = 0 BY <1>1, <1>2, EmptySeq DEF FlattenSeq
<1>3. CASE n # 0
  <2> DEFINE g == CHOOSE g : RowsUpTo(rows, g, n)
  <2>1. RowsUpTo(rows, g, n) BY RowsExist
  <2>2. FlattenSeq(rows) = g[n] BY <1>1, <1>3 DEF FlattenSeq, RowsUpTo
  <2> HIDE DEF g
  <2> DEFINE P == {i \in Nat : i = 0 \/ g[i] \in Seq(S)}
  <2>3. 0 \in P OBVIOUS
  <2>4. ASSUME NEW i \in 1 .. n, i - 1 \in P PROVE i \in P
    <3>1. rows[i] \in Seq(S) BY <1>1, ElementOfSeq
    <3>2. g[i] = IF i = 1 THEN rows[i] ELSE g[i - 1] \o rows[i] BY <2>1 DEF RowsUpTo
    <3>3. i = 1 \/ g[i - 1] \in Seq(S) BY <2>4
    <3>4. g[i] \in Seq(S) BY <3>1, <3>2, <3>3, ConcatProperties
    <3>5. QED BY <3>4
  <2> HIDE DEF P
  <2>5. 0 .. n \subseteq P BY <2>3, <2>4, UpTo
  <2>6. g[n] \in Seq(S) BY <1>3, <2>5 DEF P
  <2>7. QED BY <2>2, <2>6
<1>4. QED BY <1>2, <1>3

\* A field of n bytes, and cells with these values.
IsField(s, part, value, n) == Len(s) = n /\ \A k \in 1..n : s[k] = <<part, k, value>>

AreCells(s, part, values) ==
  Len(s) = Len(values) /\ \A k \in 1..Len(values) : s[k] = <<part, 1, values[k]>>

\* What Field makes is a field.
LEMMA FieldIs ==
  ASSUME NEW S, NEW part, NEW value, NEW n \in Nat,
         \A k \in 1..n : <<part, k, value>> \in S
  PROVE  Field(part, value, n) \in Seq(S) /\ IsField(Field(part, value, n), part, value, n)
<1>1. Field(part, value, n) \in [1..n -> S] BY DEF Field
<1>2. Field(part, value, n) \in Seq(S) /\ Len(Field(part, value, n)) = n
  BY <1>1, SeqDef, LenProperties
<1>3. QED BY <1>2 DEF Field, IsField

\* The same for cells.
LEMMA CellsAre ==
  ASSUME NEW S, NEW T, NEW part, NEW values \in Seq(T), \A v \in T : <<part, 1, v>> \in S
  PROVE  Cells(part, values) \in Seq(S) /\ AreCells(Cells(part, values), part, values)
<1>1. DOMAIN values = 1..Len(values) /\ Len(values) \in Nat BY LenProperties
<1>2. \A k \in 1..Len(values) : values[k] \in T BY ElementOfSeq
<1>3. Cells(part, values) = [k \in 1..Len(values) |-> <<part, 1, values[k]>>] BY <1>1 DEF Cells
<1>4. Cells(part, values) \in [1..Len(values) -> S] BY <1>2, <1>3
<1>5. Cells(part, values) \in Seq(S) /\ Len(Cells(part, values)) = Len(values)
  BY <1>1, <1>4, SeqDef, LenProperties
<1>6. QED BY <1>3, <1>5 DEF AreCells

-----------------------------------------------------------------------------
(* What bytes say *)

Token == [mode : BOOLEAN, run : Nat]

Header == [frame_id : Nat, ancilla_count : Nat, payload_len : Nat,
           flags : SUBSET {"timing", "parity", "metadata", "annotations"}]

Tag == [tag : Range(TagOrder), len : Nat \ {0}]

\* The bytes of the optional blocks, those between a header and a terminator,
\* and all bytes.
BlockCell ==
  ({"timing", "parity"} \X Nat \X {0}) \cup
  ({"tag_count", "count", "annotations"} \X Nat \X Nat) \cup
  ({"tag"} \X Nat \X Tag) \cup
  ({"value"} \X Nat \X SUBSET Nat)

BodyCell ==
  BlockCell \cup
  ({"de_len"} \X Nat \X Nat) \cup
  ({"rle"} \X Nat \X Token) \cup
  ({"meas"} \X Nat \X BOOLEAN)

Cell ==
  BodyCell \cup
  ({"file_header"} \X Nat \X {0}) \cup
  ({"header"} \X Nat \X Header) \cup
  ({"terminator"} \X Nat \X [of : {"header", "whole"}, hdr : Header])

\* What the value of a byte is, by its part.
LEMMA CellValues ==
  ASSUME NEW cell \in Cell
  PROVE  /\ cell[1] = "header" => cell[3] \in Header
         /\ cell[1] \in {"de_len", "tag_count", "count"} => cell[3] \in Nat
         /\ cell[1] = "tag" => cell[3] \in Tag
         /\ cell[1] = "rle" => cell[3] \in Token
         /\ cell[1] = "value" => cell[3] \in SUBSET Nat
BY DEF Cell, BodyCell, BlockCell

\* No byte between a header and a terminator is of one of them.
LEMMA BodyParts ==
  ASSUME NEW cell \in BodyCell
  PROVE  cell[1] \notin {"header", "terminator"}
BY DEF BodyCell, BlockCell

\* One more event makes tokens of tokens.
LEMMA ExtendType ==
  ASSUME NEW tokens \in Seq(Token), NEW b \in BOOLEAN
  PROVE  Extend(tokens, b) \in Seq(Token)
<1>1. CASE tokens # << >>
  <2>1. Len(tokens) \in Nat \ {0} /\ Len(tokens) \in 1..Len(tokens) BY <1>1, EmptySeq
  <2>2. PICK last \in Token : last = tokens[Len(tokens)] BY <2>1, ElementOfSeq
  <2>3. [last EXCEPT !.run = @ + 1] \in Token BY DEF Token
  <2>4. [tokens EXCEPT ![Len(tokens)] = [last EXCEPT !.run = @ + 1]] \in Seq(Token)
    BY <2>1, <2>3, ExceptSeq
  <2>5. [tokens EXCEPT ![Len(tokens)].run = @ + 1]
          = [tokens EXCEPT ![Len(tokens)] = [last EXCEPT !.run = @ + 1]] BY <2>2
  <2>6. [mode |-> b, run |-> 1] \in Token BY DEF Token
  <2>7. Append(tokens, [mode |-> b, run |-> 1]) \in Seq(Token) BY <2>6, AppendProperties
  <2>8. QED BY <2>4, <2>5, <2>7 DEF Extend
<1>2. CASE tokens = << >> BY <1>2, AppendProperties DEF Token, Extend
<1>3. QED BY <1>1, <1>2

\* The tokens of the first events, up to n of them.
EncodedUpTo(events, g, n) ==
  g = [i \in 0..n |-> IF i = 0 THEN << >> ELSE Extend(g[i - 1], events[i])]

\* They exist, and are tokens.
LEMMA EncodedExist ==
  ASSUME NEW events \in Seq(BOOLEAN)
  PROVE  /\ \E g : EncodedUpTo(events, g, Len(events))
         /\ \A g : EncodedUpTo(events, g, Len(events)) => \A i \in 0..Len(events) : g[i] \in Seq(Token)
<1>1. PICK n \in Nat : n = Len(events) OBVIOUS
<1>2. PICK S : S = Seq(Token) OBVIOUS
<1>3. PICK step : step = [i \in 1..n |-> [tokens \in S |-> Extend(tokens, events[i])]] OBVIOUS
<1>4. ASSUME NEW i \in 1..n, NEW tokens \in S PROVE Extend(tokens, events[i]) \in S
  BY <1>1, <1>2, ElementOfSeq, ExtendType
<1>5. step \in [1..n -> [S -> S]] BY <1>3, <1>4
<1>6. << >> \in S BY <1>2
<1>7. PICK f : Recursion(f, n, S, << >>, step) BY <1>5, <1>6, RecursionExists
<1>8. /\ f \in [0..n -> S] /\ f[0] = << >>
      /\ \A i \in 1..n : f[i] = step[i][f[i - 1]] BY <1>7 DEF Recursion
<1>9. \A i \in 1..n : f[i] = Extend(f[i - 1], events[i]) BY <1>3, <1>8
<1>10. f = [i \in 0..n |-> IF i = 0 THEN << >> ELSE Extend(f[i - 1], events[i])] BY <1>8, <1>9
<1>11. \E g : EncodedUpTo(events, g, n) BY <1>10 DEF EncodedUpTo
<1>12. ASSUME NEW g, EncodedUpTo(events, g, n) PROVE \A i \in 0..n : g[i] \in S
  <2>1. \A i \in 0..n : g[i] = IF i = 0 THEN << >> ELSE Extend(g[i - 1], events[i])
    BY <1>12, Zenon DEF EncodedUpTo
  <2>2. PICK P : P = {i \in 0..n : g[i] \in S} OBVIOUS
  <2>3. 0 \in P BY <1>6, <2>1, <2>2
  <2>4. ASSUME NEW i \in 1..n, i - 1 \in P PROVE i \in P
    <3>1. g[i - 1] \in S BY <2>2, <2>4
    <3>2. Extend(g[i - 1], events[i]) \in S BY <1>4, <3>1
    <3>3. g[i] = Extend(g[i - 1], events[i]) BY <2>1
    <3>4. QED BY <2>2, <3>2, <3>3
  <2>5. 0..n \subseteq P BY <2>3, <2>4, UpTo
  <2>6. QED BY <2>2, <2>5
<1>13. QED BY <1>1, <1>2, <1>11, <1>12

\* The run-length code of events is tokens.
LEMMA EncodeType ==
  ASSUME NEW events \in Seq(BOOLEAN)
  PROVE  EncodeDetectorEvents(events) \in Seq(Token)
<1> DEFINE g == CHOOSE g : EncodedUpTo(events, g, Len(events))
<1>1. EncodedUpTo(events, g, Len(events)) BY EncodedExist
<1>2. EncodeDetectorEvents(events) = g[Len(events)] BY DEF EncodeDetectorEvents, EncodedUpTo
<1> HIDE DEF g
<1>3. Len(events) \in 0..Len(events) BY LenProperties
<1>4. g[Len(events)] \in Seq(Token) BY <1>1, <1>3, EncodedExist
<1>5. QED BY <1>2, <1>4

\* What tokens stand for is events.
LEMMA DecodeType ==
  ASSUME NEW tokens \in Seq(Token)
  PROVE  DecodeDetectorEvents(tokens) \in Seq(BOOLEAN)
<1>1. DOMAIN tokens = 1..Len(tokens) /\ Len(tokens) \in Nat BY LenProperties
<1>2. PICK rows : rows = [k \in 1..Len(tokens) |-> Run(tokens[k])] OBVIOUS
<1>3. ASSUME NEW k \in 1..Len(tokens) PROVE Run(tokens[k]) \in Seq(BOOLEAN)
  <2>1. PICK token \in Token : token = tokens[k] BY ElementOfSeq
  <2>2. PICK n \in Nat, b \in BOOLEAN : n = token.run /\ b = token.mode BY DEF Token
  <2>3. Run(token) = [j \in 1..n |-> b] BY <2>2 DEF Run
  <2>4. [j \in 1..n |-> b] \in [1..n -> BOOLEAN] BY Zenon
  <2>5. QED BY <2>1, <2>3, <2>4, SeqDef
<1>4. rows \in [1..Len(tokens) -> Seq(BOOLEAN)] BY <1>2, <1>3
<1>5. rows \in Seq(Seq(BOOLEAN)) BY <1>1, <1>4, SeqDef
<1>6. DecodeDetectorEvents(tokens) = FlattenSeq(rows) BY <1>1, <1>2 DEF DecodeDetectorEvents
<1>7. QED BY <1>5, <1>6, FlatType

-----------------------------------------------------------------------------
(* The optional blocks *)

Metadata == [tags : SUBSET Range(TagOrder), flips : SUBSET Nat]

\* The lengths of the format are positive.
LEMMA Lengths ==
  /\ FileHeaderLen \in Nat \ {0} /\ FrameHeaderLen \in Nat \ {0} /\ PrefixLen \in Nat \ {0}
  /\ TagHeaderLen \in Nat \ {0} /\ AnnotationLen \in Nat \ {0} /\ TerminatorLen \in Nat \ {0}
BY FileAssumption

\* A place behind the first a, and not behind the next n.
LEMMA Place ==
  ASSUME NEW a \in Nat, NEW n \in Nat, NEW i \in Int, a < i, i <= a + n
  PROVE  \E j \in 1..n : i = a + j
<1>1. i - a \in 1..n /\ i = a + (i - a) OBVIOUS
<1>2. QED BY <1>1

\* One sequence after another.
Follows(s, a, b) ==
  /\ Len(s) = Len(a) + Len(b)
  /\ \A i \in 1..Len(a) : s[i] = a[i]
  /\ \A i \in 1..Len(b) : s[Len(a) + i] = b[i]

\* What two joined sequences are.
LEMMA Joined ==
  ASSUME NEW S, NEW a \in Seq(S), NEW b \in Seq(S)
  PROVE  a \o b \in Seq(S) /\ Follows(a \o b, a, b)
<1>1. PICK m \in Nat, n \in Nat : m = Len(a) /\ n = Len(b) BY LenProperties
<1>2. /\ a \o b \in Seq(S) /\ Len(a \o b) = m + n
      /\ \A i \in 1..m + n : (a \o b)[i] = IF i <= m THEN a[i] ELSE b[i - m]
  BY <1>1, ConcatProperties
<1>3. \A i \in 1..n : m + i \in 1..m + n /\ ~ m + i <= m /\ (m + i) - m = i OBVIOUS
<1>4. \A i \in 1..n : (a \o b)[m + i] = b[i]
  <2> TAKE i \in 1..n
  <2>1. (a \o b)[m + i] = IF m + i <= m THEN a[m + i] ELSE b[(m + i) - m] BY <1>2, <1>3
  <2>2. QED BY <1>3, <2>1
<1>5. \A i \in 1..m : (a \o b)[i] = a[i] BY <1>2
<1>6. QED BY <1>1, <1>2, <1>4, <1>5 DEF Follows

\* There are finitely many tags.
LEMMA TagsFinite ==
  ASSUME NEW tags \in SUBSET Range(TagOrder)
  PROVE  IsFiniteSet(tags) /\ Cardinality(tags) \in Nat
<1>1. Range(TagOrder) = {"hardware_id", "temperature_mk", "cycle_us", "decoder_hint", "observable_flips"}
  BY DEF Range, TagOrder
<1>2. IsFiniteSet({"hardware_id", "temperature_mk", "cycle_us", "decoder_hint", "observable_flips"})
  <2>1. IsFiniteSet({"hardware_id"}) BY FS_Singleton
  <2>2. IsFiniteSet({"hardware_id"} \cup {"temperature_mk"}) BY <2>1, FS_AddElement
  <2>3. IsFiniteSet(({"hardware_id"} \cup {"temperature_mk"}) \cup {"cycle_us"})
    BY <2>2, FS_AddElement
  <2>4. IsFiniteSet((({"hardware_id"} \cup {"temperature_mk"}) \cup {"cycle_us"}) \cup {"decoder_hint"})
    BY <2>3, FS_AddElement
  <2>5. IsFiniteSet(((({"hardware_id"} \cup {"temperature_mk"}) \cup {"cycle_us"}) \cup {"decoder_hint"})
                    \cup {"observable_flips"}) BY <2>4, FS_AddElement
  <2>6. {"hardware_id", "temperature_mk", "cycle_us", "decoder_hint", "observable_flips"}
          = ((({"hardware_id"} \cup {"temperature_mk"}) \cup {"cycle_us"}) \cup {"decoder_hint"})
            \cup {"observable_flips"} OBVIOUS
  <2>7. QED BY <2>5, <2>6
<1>3. QED BY <1>1, <1>2, FS_Subset, FS_CardinalityType

\* Metadata is bytes of a block.
LEMMA MetadataType ==
  ASSUME NEW meta \in Metadata
  PROVE  WriteMetadataTlv(meta) \in Seq(BlockCell)
<1> DEFINE Entry(tag) == Field("tag", [tag |-> tag, len |-> TagLen(tag)], TagHeaderLen) \o
                         Field("value", meta.flips, TagLen(tag))
           rows == [j \in DOMAIN TagOrder |->
                      IF TagOrder[j] \in meta.tags THEN Entry(TagOrder[j]) ELSE << >>]
<1>1. meta.tags \in SUBSET Range(TagOrder) /\ meta.flips \in SUBSET Nat BY DEF Metadata
<1>2. ASSUME NEW tag \in meta.tags PROVE Entry(tag) \in Seq(BlockCell)
  <2>1. tag \in {"hardware_id", "temperature_mk", "cycle_us", "decoder_hint", "observable_flips"}
    BY <1>1 DEF Range, TagOrder
  <2>2. TagLen(tag) \in Nat \ {0} BY <2>1 DEF TagLen
  <2>3. [tag |-> tag, len |-> TagLen(tag)] \in Tag BY <1>1, <2>2 DEF Tag
  <2>4. \A k \in 1..TagHeaderLen : <<"tag", k, [tag |-> tag, len |-> TagLen(tag)]>> \in BlockCell
    BY <2>3, Lengths DEF BlockCell
  <2>5. Field("tag", [tag |-> tag, len |-> TagLen(tag)], TagHeaderLen) \in Seq(BlockCell)
    BY <2>4, FieldIs, Lengths
  <2>6. \A k \in 1..TagLen(tag) : <<"value", k, meta.flips>> \in BlockCell
    BY <1>1, <2>2 DEF BlockCell
  <2>7. Field("value", meta.flips, TagLen(tag)) \in Seq(BlockCell) BY <2>2, <2>6, FieldIs
  <2>8. QED BY <2>5, <2>7, ConcatProperties
<1> HIDE DEF Entry
<1>3. DOMAIN TagOrder = 1..5 BY DEF TagOrder
<1>4. << >> \in Seq(BlockCell) OBVIOUS
<1>5. \A j \in 1..5 : (IF TagOrder[j] \in meta.tags THEN Entry(TagOrder[j]) ELSE << >>) \in Seq(BlockCell)
  BY <1>2, <1>4
<1>6. rows \in [1..5 -> Seq(BlockCell)] BY <1>3, <1>5
<1>7. rows \in Seq(Seq(BlockCell)) BY <1>6, SeqDef
<1>8. FlattenSeq(rows) \in Seq(BlockCell)
  <2> HIDE DEF rows
  <2>1. QED BY <1>7, FlatType
<1>9. Cardinality(meta.tags) \in Nat BY <1>1, TagsFinite
<1>10. \A k \in 1..PrefixLen : <<"tag_count", k, Cardinality(meta.tags)>> \in BlockCell
  BY <1>9, Lengths DEF BlockCell
<1>11. Field("tag_count", Cardinality(meta.tags), PrefixLen) \in Seq(BlockCell)
  BY <1>10, FieldIs, Lengths
<1>12. WriteMetadataTlv(meta) = Field("tag_count", Cardinality(meta.tags), PrefixLen) \o FlattenSeq(rows)
  BY DEF WriteMetadataTlv, Entry
<1> HIDE DEF rows
<1>13. QED BY <1>8, <1>11, <1>12, ConcatProperties

\* Annotations are bytes of a block.
LEMMA AnnotationsType ==
  ASSUME NEW n \in Nat
  PROVE  WriteAnnotations(n) \in Seq(BlockCell)
<1>1. n * AnnotationLen \in Nat BY Lengths
<1>2. \A k \in 1..1 : <<"count", k, n>> \in BlockCell BY DEF BlockCell
<1>3. Field("count", n, 1) \in Seq(BlockCell) BY <1>2, FieldIs
<1>4. \A k \in 1..n * AnnotationLen : <<"annotations", k, n>> \in BlockCell BY <1>1 DEF BlockCell
<1>5. Field("annotations", n, n * AnnotationLen) \in Seq(BlockCell) BY <1>1, <1>4, FieldIs
<1>6. QED BY <1>3, <1>5, ConcatProperties DEF WriteAnnotations

\* How long the blocks are that come with so many events.
BlocksLen(shot, meta, annotated, n) ==
  (IF shot.timing THEN n * 2 ELSE 0) +
  (IF shot.parity THEN (n + 7) \div 8 ELSE 0) +
  (IF meta # NoMetadata THEN Len(WriteMetadataTlv(meta)) ELSE 0) +
  (IF annotated # << >> THEN Len(WriteAnnotations(annotated[1])) ELSE 0)

\* The four blocks that are joined.
BlockParts(shot, meta, annotated, timing, parity, metadata, annotations) ==
  /\ Blocks(shot, meta, annotated) = ((timing \o parity) \o metadata) \o annotations
  /\ Len(timing) = IF shot.timing THEN Len(shot.events) * 2 ELSE 0
  /\ Len(parity) = IF shot.parity THEN (Len(shot.events) + 7) \div 8 ELSE 0
  /\ metadata = IF meta # NoMetadata THEN WriteMetadataTlv(meta) ELSE << >>
  /\ annotations = IF annotated # << >> THEN WriteAnnotations(annotated[1]) ELSE << >>

\* They are bytes of blocks.
LEMMA BlocksJoined ==
  ASSUME NEW shot \in Shots, NEW meta \in Metadata, NEW annotated \in Seq(Nat)
  PROVE  /\ annotated # << >> => annotated[1] \in Nat
         /\ \E timing \in Seq(BlockCell), parity \in Seq(BlockCell), metadata \in Seq(BlockCell),
               annotations \in Seq(BlockCell) :
              BlockParts(shot, meta, annotated, timing, parity, metadata, annotations)
<1> DEFINE timing == IF shot.timing THEN Field("timing", 0, Len(shot.events) * 2) ELSE << >>
           parity == IF shot.parity THEN Field("parity", 0, (Len(shot.events) + 7) \div 8) ELSE << >>
           metadata == IF meta # NoMetadata THEN WriteMetadataTlv(meta) ELSE << >>
           annotations == IF annotated # << >> THEN WriteAnnotations(annotated[1]) ELSE << >>
<1>1. Blocks(shot, meta, annotated) = ((timing \o parity) \o metadata) \o annotations BY DEF Blocks
<1>2. PICK n \in Nat : n = Len(shot.events) BY LenProperties DEF Shots
<1>3. << >> \in Seq(BlockCell) /\ Len(<< >>) = 0 OBVIOUS
<1>4. timing \in Seq(BlockCell) /\ Len(timing) = IF shot.timing THEN n * 2 ELSE 0
  <2>1. \A k \in 1..n * 2 : <<"timing", k, 0>> \in BlockCell BY <1>2 DEF BlockCell
  <2>2. n * 2 \in Nat OBVIOUS
  <2>3. Field("timing", 0, n * 2) \in Seq(BlockCell) /\ Len(Field("timing", 0, n * 2)) = n * 2
    BY <2>1, <2>2, FieldIs DEF IsField
  <2>4. CASE shot.timing BY <1>2, <2>3, <2>4, Zenon
  <2>5. CASE ~ shot.timing
    <3>1. timing = << >> BY <2>5, Zenon
    <3> HIDE DEF timing
    <3>2. QED BY <1>3, <2>5, <3>1
  <2>6. QED BY <2>4, <2>5
<1>5. parity \in Seq(BlockCell) /\ Len(parity) = IF shot.parity THEN (n + 7) \div 8 ELSE 0
  <2>1. PICK m \in Nat : m = (n + 7) \div 8 OBVIOUS
  <2>2. \A k \in 1..m : <<"parity", k, 0>> \in BlockCell BY DEF BlockCell
  <2>3. Field("parity", 0, m) \in Seq(BlockCell) /\ Len(Field("parity", 0, m)) = m
    <3>1. Field("parity", 0, m) \in Seq(BlockCell) /\ IsField(Field("parity", 0, m), "parity", 0, m)
      BY ONLY <2>2, FieldIs, m \in Nat
    <3>2. QED BY <3>1, Zenon DEF IsField
  <2>4. CASE shot.parity BY <1>2, <2>1, <2>3, <2>4, Zenon
  <2>5. CASE ~ shot.parity
    <3>1. parity = << >> BY <2>5, Zenon
    <3> HIDE DEF parity
    <3>2. QED BY <1>3, <2>5, <3>1
  <2>6. QED BY <2>4, <2>5
<1>6. metadata \in Seq(BlockCell) /\ Len(metadata) = IF meta # NoMetadata THEN Len(WriteMetadataTlv(meta)) ELSE 0
  BY <1>3, MetadataType
<1>a. annotated # << >> => annotated[1] \in Nat
  <2>1. SUFFICES ASSUME annotated # << >> PROVE annotated[1] \in Nat OBVIOUS
  <2>2. Len(annotated) \in Nat \ {0} BY <2>1, EmptySeq
  <2>3. 1 \in 1..Len(annotated) BY <2>2
  <2>4. QED BY <2>3, ElementOfSeq
<1>7. /\ annotations \in Seq(BlockCell)
      /\ Len(annotations) = IF annotated # << >> THEN Len(WriteAnnotations(annotated[1])) ELSE 0
  <2>1. CASE annotated # << >>
    <3>1. annotated[1] \in Nat BY <1>a, <2>1
    <3>2. QED BY <2>1, <3>1, AnnotationsType
  <2>2. CASE annotated = << >> BY <1>3, <2>2
  <2>3. QED BY <2>1, <2>2
<1>8. BlockParts(shot, meta, annotated, timing, parity, metadata, annotations)
  BY <1>1, <1>2, <1>4, <1>5, Zenon DEF BlockParts
<1> HIDE DEF timing, parity, metadata, annotations
<1>9. QED BY <1>a, <1>4, <1>5, <1>6, <1>7, <1>8, Zenon

\* They are as many as that.
LEMMA BlocksAre ==
  ASSUME NEW shot \in Shots, NEW meta \in Metadata, NEW annotated \in Seq(Nat)
  PROVE  /\ Blocks(shot, meta, annotated) \in Seq(BlockCell)
         /\ Len(Blocks(shot, meta, annotated)) = BlocksLen(shot, meta, annotated, Len(shot.events))
<1>1. PICK timing \in Seq(BlockCell), parity \in Seq(BlockCell), metadata \in Seq(BlockCell),
           annotations \in Seq(BlockCell) :
        BlockParts(shot, meta, annotated, timing, parity, metadata, annotations) BY BlocksJoined
<1>2. PICK first \in Seq(BlockCell) : first = timing \o parity BY ConcatProperties
<1>3. PICK second \in Seq(BlockCell) : second = first \o metadata BY ConcatProperties
<1>4. PICK all \in Seq(BlockCell) : all = second \o annotations BY ConcatProperties
<1>5. Blocks(shot, meta, annotated) = all BY <1>1, <1>2, <1>3, <1>4, Zenon DEF BlockParts
<1>6. /\ Len(first) = Len(timing) + Len(parity) /\ Len(second) = Len(first) + Len(metadata)
      /\ Len(all) = Len(second) + Len(annotations) BY <1>2, <1>3, <1>4, ConcatProperties
<1>7. Len(all) = Len(timing) + Len(parity) + Len(metadata) + Len(annotations) BY <1>6, LenProperties
<1>8. Len(<< >>) = 0 OBVIOUS
<1>9. /\ Len(metadata) = IF meta # NoMetadata THEN Len(WriteMetadataTlv(meta)) ELSE 0
      /\ Len(annotations) = IF annotated # << >> THEN Len(WriteAnnotations(annotated[1])) ELSE 0
  BY <1>1, <1>8 DEF BlockParts
<1>10. BlocksLen(shot, meta, annotated, Len(shot.events))
       = Len(timing) + Len(parity) + Len(metadata) + Len(annotations)
  BY <1>1, <1>9 DEF BlocksLen, BlockParts
<1>11. QED BY <1>5, <1>7, <1>10

-----------------------------------------------------------------------------
(* A frame *)

\* What a frame is written from.
FrameData == [hdr : Header, de : Seq(Token), meas : Seq(BOOLEAN), blocks : Seq(BlockCell),
              crc : {"header", "whole"}]

BytesOf(f) == FrameBytes(f.hdr, f.de, f.meas, f.blocks, f.crc)

\* Where its parts begin, and its length.
RleAt == FrameHeaderLen + PrefixLen

MeasOf(f) == RleAt + Len(f.de)

BlocksOf(f) == MeasOf(f) + Len(f.meas)

TerminatorOf(f) == BlocksOf(f) + Len(f.blocks)

LengthOf(f) == TerminatorOf(f) + TerminatorLen

\* The bytes of a frame, place by place.
LaidOut(f, bytes) ==
  /\ bytes \in Seq(Cell) /\ Len(bytes) = LengthOf(f)
  /\ \A i \in 1..FrameHeaderLen : bytes[i] = <<"header", i, f.hdr>>
  /\ \A i \in 1..PrefixLen : bytes[FrameHeaderLen + i] = <<"de_len", i, Len(f.de) % CountModulus>>
  /\ \A i \in 1..Len(f.de) : bytes[RleAt + i] = <<"rle", 1, f.de[i]>>
  /\ \A i \in 1..Len(f.meas) : bytes[MeasOf(f) + i] = <<"meas", 1, f.meas[i]>>
  /\ \A i \in 1..Len(f.blocks) : bytes[BlocksOf(f) + i] = f.blocks[i]
  /\ \A i \in 1..TerminatorLen :
       bytes[TerminatorOf(f) + i] = <<"terminator", i, [of |-> f.crc, hdr |-> f.hdr]>>

\* The types of what a frame is written from, and the lengths of its parts.
LEMMA FrameTypes ==
  ASSUME NEW f \in FrameData
  PROVE  /\ f.hdr \in Header /\ f.de \in Seq(Token) /\ f.meas \in Seq(BOOLEAN)
         /\ f.blocks \in Seq(BlockCell) /\ f.crc \in {"header", "whole"}
         /\ Len(f.de) \in Nat /\ Len(f.meas) \in Nat /\ Len(f.blocks) \in Nat
         /\ RleAt \in Nat /\ MeasOf(f) \in Nat /\ BlocksOf(f) \in Nat /\ TerminatorOf(f) \in Nat
         /\ LengthOf(f) \in Nat
<1>1. /\ f.hdr \in Header /\ f.de \in Seq(Token) /\ f.meas \in Seq(BOOLEAN)
      /\ f.blocks \in Seq(BlockCell) /\ f.crc \in {"header", "whole"} BY DEF FrameData
<1>2. Len(f.de) \in Nat /\ Len(f.meas) \in Nat /\ Len(f.blocks) \in Nat BY <1>1, LenProperties
<1>3. FrameHeaderLen \in Nat /\ PrefixLen \in Nat /\ TerminatorLen \in Nat BY Lengths
<1>4. RleAt \in Nat BY <1>3 DEF RleAt
<1>5. MeasOf(f) \in Nat BY <1>2, <1>4 DEF MeasOf
<1>6. BlocksOf(f) \in Nat BY <1>2, <1>5 DEF BlocksOf
<1>7. TerminatorOf(f) \in Nat BY <1>2, <1>6 DEF TerminatorOf
<1>8. LengthOf(f) \in Nat BY <1>3, <1>7 DEF LengthOf
<1>9. QED BY <1>1, <1>2, <1>4, <1>5, <1>6, <1>7, <1>8

\* A number modulo 2^16 is no greater.
LEMMA CountType ==
  ASSUME NEW n \in Nat
  PROVE  n % CountModulus \in Nat /\ n % CountModulus <= n
<1>1. CountModulus \in Nat \ {0} BY FileAssumption
<1>2. n % CountModulus \in 0..CountModulus - 1 BY <1>1
<1>3. CASE n < CountModulus BY <1>1, <1>3, <1>2
<1>4. CASE n >= CountModulus BY <1>1, <1>2, <1>4
<1>5. QED BY <1>1, <1>3, <1>4

\* Where the elements of six sequences are when they are joined.
SixIn(s, h, d, r, m, b, t) ==
  /\ Len(s) = Len(h) + Len(d) + Len(r) + Len(m) + Len(b) + Len(t)
  /\ \A i \in 1..Len(h) : s[i] = h[i]
  /\ \A i \in 1..Len(d) : s[Len(h) + i] = d[i]
  /\ \A i \in 1..Len(r) : s[Len(h) + Len(d) + i] = r[i]
  /\ \A i \in 1..Len(m) : s[Len(h) + Len(d) + Len(r) + i] = m[i]
  /\ \A i \in 1..Len(b) : s[Len(h) + Len(d) + Len(r) + Len(m) + i] = b[i]
  /\ \A i \in 1..Len(t) : s[Len(h) + Len(d) + Len(r) + Len(m) + Len(b) + i] = t[i]

\* They are there.
LEMMA SixJoined ==
  ASSUME NEW S, NEW h \in Seq(S), NEW d \in Seq(S), NEW r \in Seq(S), NEW m \in Seq(S),
         NEW b \in Seq(S), NEW t \in Seq(S), NEW s, s = ((((h \o d) \o r) \o m) \o b) \o t
  PROVE  s \in Seq(S) /\ SixIn(s, h, d, r, m, b, t)
<1>1. PICK s1 \in Seq(S) : s1 = h \o d /\ Follows(s1, h, d) BY Joined
<1>2. PICK s2 \in Seq(S) : s2 = s1 \o r /\ Follows(s2, s1, r) BY Joined
<1>3. PICK s3 \in Seq(S) : s3 = s2 \o m /\ Follows(s3, s2, m) BY Joined
<1>4. PICK s4 \in Seq(S) : s4 = s3 \o b /\ Follows(s4, s3, b) BY Joined
<1>5. s \in Seq(S) /\ Follows(s, s4, t) BY <1>1, <1>2, <1>3, <1>4, Joined
<1>6. PICK H \in Nat, D \in Nat, R \in Nat, M \in Nat, B \in Nat, T \in Nat :
        H = Len(h) /\ D = Len(d) /\ R = Len(r) /\ M = Len(m) /\ B = Len(b) /\ T = Len(t)
  BY LenProperties
<1>7. /\ Len(s1) = H + D /\ (\A i \in 1..H : s1[i] = h[i]) /\ (\A i \in 1..D : s1[H + i] = d[i])
  BY <1>1, <1>6 DEF Follows
<1>8. /\ Len(s2) = H + D + R /\ (\A i \in 1..H + D : s2[i] = s1[i])
      /\ (\A i \in 1..R : s2[H + D + i] = r[i]) BY <1>2, <1>6, <1>7, Zenon DEF Follows
<1>9. /\ Len(s3) = H + D + R + M /\ (\A i \in 1..H + D + R : s3[i] = s2[i])
      /\ (\A i \in 1..M : s3[H + D + R + i] = m[i]) BY <1>3, <1>6, <1>8, Zenon DEF Follows
<1>10. /\ Len(s4) = H + D + R + M + B /\ (\A i \in 1..H + D + R + M : s4[i] = s3[i])
       /\ (\A i \in 1..B : s4[H + D + R + M + i] = b[i]) BY <1>4, <1>6, <1>9, Zenon DEF Follows
<1>11. /\ Len(s) = H + D + R + M + B + T /\ (\A i \in 1..H + D + R + M + B : s[i] = s4[i])
       /\ (\A i \in 1..T : s[H + D + R + M + B + i] = t[i])
  <2>1. /\ Len(s) = Len(s4) + Len(t)
        /\ \A i \in 1..Len(s4) : s[i] = s4[i]
        /\ \A i \in 1..Len(t) : s[Len(s4) + i] = t[i] BY <1>5, Zenon DEF Follows
  <2>2. Len(s4) = H + D + R + M + B /\ Len(t) = T BY <1>6, <1>10, Zenon
  <2>3. QED BY <2>1, <2>2, Zenon
<1>12. \A i \in 1..H + D + R + M : s[i] = s3[i]
  <2> TAKE i \in 1..H + D + R + M
  <2>1. i \in 1..H + D + R + M + B OBVIOUS
  <2>2. QED BY <1>10, <1>11, <2>1, Zenon
<1>13. \A i \in 1..H + D + R : s[i] = s2[i]
  <2> TAKE i \in 1..H + D + R
  <2>1. i \in 1..H + D + R + M OBVIOUS
  <2>2. QED BY <1>9, <1>12, <2>1, Zenon
<1>14. \A i \in 1..H + D : s[i] = s1[i]
  <2> TAKE i \in 1..H + D
  <2>1. i \in 1..H + D + R OBVIOUS
  <2>2. QED BY <1>8, <1>13, <2>1, Zenon
<1>15. \A i \in 1..H : s[i] = h[i]
  <2> TAKE i \in 1..H
  <2>1. i \in 1..H + D OBVIOUS
  <2>2. QED BY <1>7, <1>14, <2>1, Zenon
<1>16. \A i \in 1..D : s[H + i] = d[i]
  <2> TAKE i \in 1..D
  <2>1. H + i \in 1..H + D OBVIOUS
  <2>2. QED BY <1>7, <1>14, <2>1
<1>17. \A i \in 1..R : s[H + D + i] = r[i]
  <2> TAKE i \in 1..R
  <2>1. H + D + i \in 1..H + D + R OBVIOUS
  <2>2. QED BY <1>8, <1>13, <2>1
<1>18. \A i \in 1..M : s[H + D + R + i] = m[i]
  <2> TAKE i \in 1..M
  <2>1. H + D + R + i \in 1..H + D + R + M OBVIOUS
  <2>2. QED BY <1>9, <1>12, <2>1
<1>19. \A i \in 1..B : s[H + D + R + M + i] = b[i]
  <2> TAKE i \in 1..B
  <2>1. H + D + R + M + i \in 1..H + D + R + M + B OBVIOUS
  <2>2. QED BY <1>10, <1>11, <2>1
<1>20. QED BY <1>5, <1>6, <1>11, <1>15, <1>16, <1>17, <1>18, <1>19, Zenon DEF SixIn

\* A frame is laid out so.
LEMMA FrameIsLaidOut ==
  ASSUME NEW f \in FrameData
  PROVE  LaidOut(f, BytesOf(f))
<1>1. PICK hdr \in Header, de \in Seq(Token), meas \in Seq(BOOLEAN), b \in Seq(BlockCell),
           crc \in {"header", "whole"} :
        hdr = f.hdr /\ de = f.de /\ meas = f.meas /\ b = f.blocks /\ crc = f.crc BY DEF FrameData
<1>2. FrameHeaderLen \in Nat \ {0} /\ PrefixLen \in Nat \ {0} /\ TerminatorLen \in Nat \ {0}
  BY Lengths
<1>3. PICK n \in Nat : n = Len(de) % CountModulus BY LenProperties, CountType
<1>4. PICK term \in [of : {"header", "whole"}, hdr : Header] : term = [of |-> crc, hdr |-> hdr]
  OBVIOUS
<1>5. PICK h \in Seq(Cell) : h = Field("header", hdr, FrameHeaderLen) /\ IsField(h, "header", hdr, FrameHeaderLen)
  BY <1>2, FieldIs DEF Cell
<1>6. PICK d \in Seq(Cell) : d = Field("de_len", n, PrefixLen) /\ IsField(d, "de_len", n, PrefixLen)
  <2>1. \A k \in 1..PrefixLen : <<"de_len", k, n>> \in Cell BY <1>2 DEF Cell, BodyCell
  <2>2. QED BY <1>2, <2>1, FieldIs
<1>7. PICK r \in Seq(Cell) : r = Cells("rle", de) /\ AreCells(r, "rle", de)
  <2>1. \A v \in Token : <<"rle", 1, v>> \in Cell BY DEF Cell, BodyCell
  <2>2. QED BY <2>1, CellsAre
<1>8. PICK m \in Seq(Cell) : m = Cells("meas", meas) /\ AreCells(m, "meas", meas)
  <2>1. \A v \in BOOLEAN : <<"meas", 1, v>> \in Cell BY DEF Cell, BodyCell
  <2>2. QED BY <2>1, CellsAre
<1>9. b \in Seq(Cell) BY SeqMonotonic DEF Cell, BodyCell
<1>10. PICK t \in Seq(Cell) : t = Field("terminator", term, TerminatorLen) /\ IsField(t, "terminator", term, TerminatorLen)
  <2>1. \A k \in 1..TerminatorLen : <<"terminator", k, term>> \in Cell BY <1>2 DEF Cell
  <2>2. QED BY <1>2, <2>1, FieldIs
<1>11. PICK s : s = BytesOf(f) OBVIOUS
<1>12. s = ((((h \o d) \o r) \o m) \o b) \o t
  BY <1>1, <1>3, <1>4, <1>5, <1>6, <1>7, <1>8, <1>10, <1>11, Zenon DEF BytesOf, FrameBytes
<1>13. s \in Seq(Cell) /\ SixIn(s, h, d, r, m, b, t) BY <1>9, <1>12, SixJoined
<1>14. /\ Len(s) = FrameHeaderLen + PrefixLen + Len(de) + Len(meas) + Len(b) + TerminatorLen
       /\ \A i \in 1..FrameHeaderLen : s[i] = h[i]
       /\ \A i \in 1..PrefixLen : s[FrameHeaderLen + i] = d[i]
       /\ \A i \in 1..Len(de) : s[FrameHeaderLen + PrefixLen + i] = r[i]
       /\ \A i \in 1..Len(meas) : s[FrameHeaderLen + PrefixLen + Len(de) + i] = m[i]
       /\ \A i \in 1..Len(b) : s[FrameHeaderLen + PrefixLen + Len(de) + Len(meas) + i] = b[i]
       /\ \A i \in 1..TerminatorLen :
            s[FrameHeaderLen + PrefixLen + Len(de) + Len(meas) + Len(b) + i] = t[i]
  <2>1. /\ Len(h) = FrameHeaderLen /\ Len(d) = PrefixLen /\ Len(r) = Len(de)
        /\ Len(m) = Len(meas) /\ Len(t) = TerminatorLen
    BY <1>5, <1>6, <1>7, <1>8, <1>10, Zenon DEF IsField, AreCells
  <2>2. /\ Len(s) = Len(h) + Len(d) + Len(r) + Len(m) + Len(b) + Len(t)
        /\ \A i \in 1..Len(h) : s[i] = h[i]
        /\ \A i \in 1..Len(d) : s[Len(h) + i] = d[i]
        /\ \A i \in 1..Len(r) : s[Len(h) + Len(d) + i] = r[i]
        /\ \A i \in 1..Len(m) : s[Len(h) + Len(d) + Len(r) + i] = m[i]
        /\ \A i \in 1..Len(b) : s[Len(h) + Len(d) + Len(r) + Len(m) + i] = b[i]
        /\ \A i \in 1..Len(t) : s[Len(h) + Len(d) + Len(r) + Len(m) + Len(b) + i] = t[i]
    BY <1>13, Zenon DEF SixIn
  <2>3. QED BY <2>1, <2>2
<1>15. /\ RleAt = FrameHeaderLen + PrefixLen
       /\ MeasOf(f) = FrameHeaderLen + PrefixLen + Len(de)
       /\ BlocksOf(f) = FrameHeaderLen + PrefixLen + Len(de) + Len(meas)
       /\ TerminatorOf(f) = FrameHeaderLen + PrefixLen + Len(de) + Len(meas) + Len(b)
       /\ LengthOf(f) = FrameHeaderLen + PrefixLen + Len(de) + Len(meas) + Len(b) + TerminatorLen
  BY <1>1, Zenon DEF RleAt, MeasOf, BlocksOf, TerminatorOf, LengthOf
<1>16. LaidOut(f, s)
  <2>1. \A i \in 1..FrameHeaderLen : s[i] = <<"header", i, hdr>> BY <1>5, <1>14, Zenon DEF IsField
  <2>2. \A i \in 1..PrefixLen : s[FrameHeaderLen + i] = <<"de_len", i, n>>
    BY <1>6, <1>14, Zenon DEF IsField
  <2>3. \A i \in 1..Len(de) : s[RleAt + i] = <<"rle", 1, de[i]>>
    BY <1>7, <1>14, <1>15, Zenon DEF AreCells
  <2>4. \A i \in 1..Len(meas) : s[MeasOf(f) + i] = <<"meas", 1, meas[i]>>
    BY <1>8, <1>14, <1>15, Zenon DEF AreCells
  <2>5. \A i \in 1..Len(b) : s[BlocksOf(f) + i] = b[i] BY <1>14, <1>15, Zenon
  <2>6. \A i \in 1..TerminatorLen : s[TerminatorOf(f) + i] = <<"terminator", i, term>>
    BY <1>10, <1>14, <1>15, Zenon DEF IsField
  <2>7. Len(s) = LengthOf(f) BY <1>14, <1>15, Zenon
  <2>8. QED BY <1>1, <1>3, <1>4, <1>13, <2>1, <2>2, <2>3, <2>4, <2>5, <2>6, <2>7, Zenon DEF LaidOut
<1>17. QED BY <1>11, <1>16

\* Only the first bytes of a frame are of the header, only the last of the terminator.
LEMMA PartsApart ==
  ASSUME NEW f \in FrameData, NEW bytes, LaidOut(f, bytes), NEW i \in 1..LengthOf(f)
  PROVE  /\ bytes[i][1] = "header" => i <= FrameHeaderLen
         /\ bytes[i][1] = "terminator" => i > TerminatorOf(f) /\ bytes[i][2] = i - TerminatorOf(f)
<1>1. PICK a \in Nat, p \in Nat, n \in Nat, m \in Nat, k \in Nat, t \in Nat :
        /\ a = FrameHeaderLen /\ p = PrefixLen /\ n = Len(f.de) /\ m = Len(f.meas) /\ k = Len(f.blocks)
        /\ t = TerminatorLen BY FrameTypes, Lengths
<1>2. /\ RleAt = a + p /\ MeasOf(f) = a + p + n /\ BlocksOf(f) = a + p + n + m
      /\ TerminatorOf(f) = a + p + n + m + k /\ LengthOf(f) = a + p + n + m + k + t
  BY <1>1, Zenon DEF RleAt, MeasOf, BlocksOf, TerminatorOf, LengthOf
<1>3. i \in Int /\ i >= 1 /\ i <= a + p + n + m + k + t BY <1>2
<1>4. CASE i <= a
  <2>1. i \in 1..FrameHeaderLen BY <1>1, <1>3, <1>4
  <2>2. bytes[i] = <<"header", i, f.hdr>> BY <2>1, Zenon DEF LaidOut
  <2>3. QED BY <1>1, <1>4, <2>2
<1>5. CASE a < i /\ i <= a + p
  <2>1. PICK j \in 1..p : i = a + j BY <1>3, <1>5, Place
  <2>2. bytes[i] = <<"de_len", j, Len(f.de) % CountModulus>> BY <1>1, <1>2, <2>1, Zenon DEF LaidOut
  <2>3. QED BY <2>2
<1>6. CASE a + p < i /\ i <= a + p + n
  <2>1. PICK j \in 1..n : i = a + p + j BY <1>3, <1>6, Place
  <2>2. bytes[i] = <<"rle", 1, f.de[j]>> BY <1>1, <1>2, <2>1, Zenon DEF LaidOut
  <2>3. QED BY <2>2
<1>7. CASE a + p + n < i /\ i <= a + p + n + m
  <2>1. PICK j \in 1..m : i = a + p + n + j BY <1>3, <1>7, Place
  <2>2. bytes[i] = <<"meas", 1, f.meas[j]>> BY <1>1, <1>2, <2>1, Zenon DEF LaidOut
  <2>3. QED BY <2>2
<1>8. CASE a + p + n + m < i /\ i <= a + p + n + m + k
  <2>1. PICK j \in 1..k : i = a + p + n + m + j BY <1>3, <1>8, Place
  <2>2. bytes[i] = f.blocks[j] BY <1>1, <1>2, <2>1, Zenon DEF LaidOut
  <2>3. f.blocks[j] \in BlockCell BY <1>1, <2>1, FrameTypes, ElementOfSeq
  <2>4. BlockCell \subseteq BodyCell BY DEF BodyCell
  <2>5. QED BY <2>2, <2>3, <2>4, BodyParts
<1>9. CASE a + p + n + m + k < i
  <2>1. PICK j \in 1..t : i = a + p + n + m + k + j BY <1>3, <1>9, Place
  <2>2. bytes[i] = <<"terminator", j, [of |-> f.crc, hdr |-> f.hdr]>>
    BY <1>1, <1>2, <2>1, Zenon DEF LaidOut
  <2>3. i - (a + p + n + m + k) = j BY <2>1
  <2>4. bytes[i][1] = "terminator" /\ bytes[i][2] = j BY <2>2
  <2>5. QED BY <1>2, <1>9, <2>3, <2>4
<1>10. QED BY <1>3, <1>4, <1>5, <1>6, <1>7, <1>8, <1>9

-----------------------------------------------------------------------------
(* A file of frames *)

\* Where frame k begins, behind the first base bytes.
StartAt(es, base, k) == IF k = 1 THEN base ELSE es[k - 1]

\* Frame k was written from f.
IsFrame(bytes, es, base, k, f) ==
  /\ f \in FrameData
  /\ es[k] = StartAt(es, base, k) + LengthOf(f)
  /\ \A i \in 1..LengthOf(f) : bytes[StartAt(es, base, k) + i] = BytesOf(f)[i]

\* The ends go up.
Ascend(es, base) ==
  \A k \in 1..Len(es) : base < es[k] /\ \A l \in 1..k - 1 : es[l] < es[k]

\* Frame after frame, of which the last ends where the bytes do.
Layout(bytes, es, base) ==
  /\ bytes \in Seq(Cell) /\ es \in Seq(Nat) /\ base \in Nat
  /\ Len(bytes) = StartAt(es, base, Len(es) + 1)
  /\ Ascend(es, base)
  /\ \A i \in 1..base : bytes[i][1] = "file_header"
  /\ \A k \in 1..Len(es) : \E f : IsFrame(bytes, es, base, k, f)

\* Where a frame begins, and that it ends later.
LEMMA Starts ==
  ASSUME NEW es \in Seq(Nat), NEW base \in Nat, Ascend(es, base), NEW k \in 1..Len(es) + 1
  PROVE  /\ StartAt(es, base, k) \in Nat /\ base <= StartAt(es, base, k)
         /\ k \in 1..Len(es) => es[k] \in Nat /\ StartAt(es, base, k) < es[k]
<1>1. PICK n \in Nat : n = Len(es) BY LenProperties
<1>2. \A l \in 1..n : es[l] \in Nat BY <1>1, ElementOfSeq
<1>3. \A j \in 1..n : base < es[j] /\ \A l \in 1..j - 1 : es[l] < es[j] BY <1>1, Zenon DEF Ascend
<1>4. k \in 1..n + 1 BY <1>1
<1>5. CASE k = 1 BY <1>5, <1>2, <1>3, <1>1 DEF StartAt
<1>6. CASE k # 1
  <2>1. StartAt(es, base, k) = es[k - 1] BY <1>6 DEF StartAt
  <2>2. k - 1 \in 1..n /\ k - 1 \in 1..k - 1 BY <1>4, <1>6
  <2>3. es[k - 1] \in Nat /\ base < es[k - 1] BY <1>2, <1>3, <2>2
  <2>4. k \in 1..n => es[k - 1] < es[k] /\ es[k] \in Nat BY <1>2, <1>3, <2>2
  <2>5. QED BY <1>1, <2>1, <2>3, <2>4
<1>7. QED BY <1>5, <1>6

\* A later frame ends later.
LEMMA LaterEnds ==
  ASSUME NEW es \in Seq(Nat), NEW base \in Nat, Ascend(es, base),
         NEW k \in 1..Len(es), NEW l \in 1..Len(es)
  PROVE  es[k] \in Nat /\ es[l] \in Nat /\ (es[k] <= es[l] <=> k <= l)
<1>1. PICK n \in Nat : n = Len(es) BY LenProperties
<1>2. es[k] \in Nat /\ es[l] \in Nat BY ElementOfSeq
<1>3. \A j \in 1..n : \A i \in 1..j - 1 : es[i] < es[j] BY <1>1, Zenon DEF Ascend
<1>4. k \in 1..n /\ l \in 1..n BY <1>1
<1>5. CASE k = l BY <1>2, <1>5
<1>6. CASE k < l BY <1>4, <1>6, <1>3, <1>2
<1>7. CASE l < k BY <1>4, <1>7, <1>3, <1>2
<1>8. QED BY <1>4, <1>5, <1>6, <1>7

\* A file with a frame more.
Grown(bytes, es, base, f, more, es2) ==
  /\ Layout(more, es2, base)
  /\ Len(es2) = Len(es) + 1 /\ Len(more) = Len(bytes) + LengthOf(f)
  /\ \A k \in 1..Len(es) : es2[k] = es[k]
  /\ \A i \in 1..Len(bytes) : more[i] = bytes[i]
  /\ IsFrame(more, es2, base, Len(es) + 1, f)
  /\ StartAt(es2, base, Len(es) + 1) = Len(bytes)

\* It is one.
LEMMA LayoutGrows ==
  ASSUME NEW bytes, NEW es, NEW base, Layout(bytes, es, base), NEW f \in FrameData,
         NEW more, more = bytes \o BytesOf(f), NEW es2, es2 = Append(es, Len(more))
  PROVE  Grown(bytes, es, base, f, more, es2)
<1>1. /\ bytes \in Seq(Cell) /\ es \in Seq(Nat) /\ base \in Nat
      /\ Len(bytes) = StartAt(es, base, Len(es) + 1)
      /\ Ascend(es, base)
      /\ \A i \in 1..base : bytes[i][1] = "file_header"
      /\ \A k \in 1..Len(es) : \E g : IsFrame(bytes, es, base, k, g) BY Zenon DEF Layout
<1>2. PICK n \in Nat, m \in Nat, len \in Nat : n = Len(es) /\ m = Len(bytes) /\ len = LengthOf(f)
  BY <1>1, LenProperties, FrameTypes
<1>3. PICK b \in Seq(Cell) : b = BytesOf(f) /\ Len(b) = len BY <1>2, FrameIsLaidOut DEF LaidOut
<1>4. len > 0
  <2>1. PICK a \in Nat, p \in Nat \ {0} : a = TerminatorOf(f) /\ p = TerminatorLen /\ len = a + p
    BY <1>2, FrameTypes, Lengths, Zenon DEF LengthOf
  <2>2. QED BY <2>1
<1>5. more \in Seq(Cell) /\ Follows(more, bytes, b) BY <1>1, <1>3, Joined
<1>6. /\ Len(more) = m + len /\ (\A i \in 1..m : more[i] = bytes[i])
      /\ (\A i \in 1..len : more[m + i] = b[i]) BY <1>5, <1>2, <1>3 DEF Follows
<1>7. /\ es2 \in Seq(Nat) /\ Len(es2) = n + 1 /\ (\A k \in 1..n : es2[k] = es[k])
      /\ es2[n + 1] = m + len BY <1>6, <1>1, <1>2, AppendProperties
<1>8. \A k \in 1..n + 1 : StartAt(es2, base, k) = StartAt(es, base, k)
  <2> TAKE k \in 1..n + 1
  <2>1. CASE k = 1 BY <2>1 DEF StartAt
  <2>2. CASE k # 1 BY <2>2, <1>7 DEF StartAt
  <2>3. QED BY <2>1, <2>2
<1>9. StartAt(es2, base, n + 1) = m BY <1>1, <1>2, <1>8
<1>10. IsFrame(more, es2, base, n + 1, f) BY <1>2, <1>7, <1>9, <1>3, <1>6, Zenon DEF IsFrame
<1>11. \A l \in 1..n : es[l] \in Nat /\ es[l] <= m
  <2> TAKE l \in 1..n
  <2>1. CASE l = n BY <2>1, <1>1, <1>2 DEF StartAt
  <2>2. CASE l # n
    <3>1. n \in 1..n /\ l <= n OBVIOUS
    <3>2. es[l] \in Nat /\ es[n] \in Nat /\ es[l] <= es[n] BY <1>1, <1>2, <3>1, LaterEnds
    <3>3. StartAt(es, base, n + 1) = es[n] BY <3>1 DEF StartAt
    <3>4. es[n] = m BY <1>1, <1>2, <3>3, Zenon
    <3>5. QED BY <3>2, <3>4
  <2>3. QED BY <2>1, <2>2
<1>12. base <= m BY <1>2, <1>1, Starts
<1>13. Ascend(es2, base)
  <2>1. ASSUME NEW k \in 1..n + 1 PROVE base < es2[k] /\ \A l \in 1..k - 1 : es2[l] < es2[k]
    <3>1. CASE k = n + 1
      <4>1. base < es2[k] BY <1>1, <1>4, <1>7, <1>12, <3>1
      <4>2. ASSUME NEW l \in 1..k - 1 PROVE es2[l] < es2[k]
        <5>1. l \in 1..n BY <3>1
        <5>2. es2[l] = es[l] /\ es[l] \in Nat /\ es[l] <= m BY <1>7, <1>11, <5>1
        <5>3. es2[k] = m + len BY <1>7, <3>1
        <5>4. QED BY <1>4, <5>2, <5>3
      <4>3. QED BY <4>1, <4>2
    <3>2. CASE k # n + 1
      <4>1. k \in 1..n BY <3>2
      <4>2. base < es[k] /\ \A l \in 1..k - 1 : es[l] < es[k] BY <1>1, <1>2, <4>1, Zenon DEF Ascend
      <4>3. \A l \in 1..k - 1 : es2[l] = es[l]
        <5> TAKE l \in 1..k - 1
        <5>1. l \in 1..n BY <4>1
        <5>2. QED BY <1>7, <5>1
      <4>4. es2[k] = es[k] BY <1>7, <4>1
      <4>5. QED BY <4>2, <4>3, <4>4
    <3>3. QED BY <3>1, <3>2
  <2>2. QED BY <1>7, <2>1, Zenon DEF Ascend
<1>14. \A i \in 1..base : more[i][1] = "file_header"
  <2> TAKE i \in 1..base
  <2>1. i \in 1..m BY <1>1, <1>12
  <2>2. QED BY <1>1, <1>6, <2>1
<1>15. ASSUME NEW k \in 1..n + 1 PROVE \E g : IsFrame(more, es2, base, k, g)
  <2>1. CASE k = n + 1 BY <1>10, <2>1
  <2>2. CASE k # n + 1
    <3>1. k \in 1..n BY <2>2
    <3>2. PICK g : IsFrame(bytes, es, base, k, g) BY <1>1, <1>2, <3>1
    <3>3. PICK s \in Nat, l \in Nat : s = StartAt(es, base, k) /\ l = LengthOf(g)
      <4>1. k \in 1..Len(es) + 1 BY <1>2
      <4>2. StartAt(es, base, k) \in Nat BY <1>1, <4>1, Starts
      <4>3. LengthOf(g) \in Nat BY <3>2, FrameTypes DEF IsFrame
      <4>4. QED BY <4>2, <4>3
    <3>4. g \in FrameData /\ es[k] = s + l /\ \A i \in 1..l : bytes[s + i] = BytesOf(g)[i]
      BY <3>2, <3>3, Zenon DEF IsFrame
    <3>5. es2[k] = es[k] /\ StartAt(es2, base, k) = s BY <1>7, <1>8, <3>1, <3>3
    <3>6. s + l <= m BY <1>11, <3>1, <3>4
    <3>7. \A i \in 1..l : more[s + i] = BytesOf(g)[i]
      <4> TAKE i \in 1..l
      <4>1. s + i \in 1..m BY <3>6
      <4>2. QED BY <1>6, <3>4, <4>1
    <3>8. IsFrame(more, es2, base, k, g) BY <3>3, <3>4, <3>5, <3>7, Zenon DEF IsFrame
    <3>9. QED BY <3>8
  <2>3. QED BY <2>1, <2>2
<1>16. Len(more) = StartAt(es2, base, Len(es2) + 1) BY <1>7, <1>6 DEF StartAt
<1>17. Layout(more, es2, base) BY <1>1, <1>5, <1>7, <1>13, <1>14, <1>15, <1>16, Zenon DEF Layout
<1>18. QED BY <1>2, <1>6, <1>7, <1>9, <1>10, <1>17, Zenon DEF Grown

\* A byte behind the first is in a frame.
LEMMA InSomeFrame ==
  ASSUME NEW bytes, NEW es, NEW base, Layout(bytes, es, base),
         NEW i \in 1..Len(bytes), base < i
  PROVE  \E k \in 1..Len(es) : StartAt(es, base, k) < i /\ i <= es[k]
<1>1. /\ es \in Seq(Nat) /\ base \in Nat /\ bytes \in Seq(Cell)
      /\ Len(bytes) = StartAt(es, base, Len(es) + 1) BY Zenon DEF Layout
<1>2. PICK n \in Nat, m \in Nat : n = Len(es) /\ m = Len(bytes) BY <1>1, LenProperties
<1>3. PICK T : T = {k \in 1..n : i <= es[k]} OBVIOUS
<1>4. n \in T
  <2>1. n # 0
    <3>1. ASSUME n = 0 PROVE FALSE BY <3>1, <1>1, <1>2 DEF StartAt
    <3>2. QED BY <3>1
  <2>2. n + 1 # 1 /\ (n + 1) - 1 = n BY <2>1
  <2>3. StartAt(es, base, n + 1) = es[n] BY <2>2, Zenon DEF StartAt
  <2>4. m = es[n] BY <1>1, <1>2, <2>3, Zenon
  <2>5. QED BY <1>2, <1>3, <2>1, <2>4
<1>5. PICK k \in T : \A y \in T : k <= y
  <2>1. T \subseteq Nat /\ T # {} BY <1>3, <1>4
  <2>2. QED BY <2>1, LeastOf
<1>6. k \in 1..n /\ i <= es[k] BY <1>3
<1>7. StartAt(es, base, k) < i
  <2>1. CASE k = 1 BY <2>1 DEF StartAt
  <2>2. CASE k # 1
    <3>1. k - 1 \in 1..n /\ ~ k <= k - 1 BY <1>6, <2>2
    <3>2. es[k - 1] \in Nat BY <1>1, <1>2, <3>1, ElementOfSeq
    <3>3. ~ i <= es[k - 1] BY <1>3, <1>5, <3>1
    <3>4. i \in Nat BY <1>2
    <3>5. QED BY <2>2, <3>2, <3>3, <3>4 DEF StartAt
  <2>3. QED BY <2>1, <2>2
<1>8. QED BY <1>2, <1>6, <1>7

\* A terminator is found only where a frame ends.
LEMMA TerminatorEnds ==
  ASSUME NEW bytes, NEW es, NEW base, Layout(bytes, es, base), NEW p \in Nat,
         Holds(bytes, p, "terminator", TerminatorLen)
  PROVE  \E k \in 1..Len(es) : es[k] = p + TerminatorLen
<1>1. PICK t \in Nat \ {0} : t = TerminatorLen BY Lengths
<1>2. /\ bytes \in Seq(Cell) /\ es \in Seq(Nat) /\ base \in Nat /\ Ascend(es, base)
      /\ \A i \in 1..base : bytes[i][1] = "file_header"
      /\ \A k \in 1..Len(es) : \E g : IsFrame(bytes, es, base, k, g) BY Zenon DEF Layout
<1>3. PICK m \in Nat : m = Len(bytes) BY <1>2, LenProperties
<1>4. p + t <= m /\ bytes[p + t][1] = "terminator" /\ bytes[p + t][2] = t BY <1>1, <1>3 DEF Holds
<1>5. PICK i : i = p + t OBVIOUS
<1>6. i \in 1..Len(bytes) /\ base < i
  <2>1. i \in 1..m BY <1>1, <1>4, <1>5
  <2>2. i \in 1..base => bytes[i][1] = "file_header" BY <1>2
  <2>3. ~ i \in 1..base BY <1>4, <1>5, <2>2
  <2>4. QED BY <1>2, <1>3, <2>1, <2>3
<1>7. PICK k \in 1..Len(es) : StartAt(es, base, k) < i /\ i <= es[k] BY <1>6, InSomeFrame
<1>8. PICK g : IsFrame(bytes, es, base, k, g) BY <1>2
<1>9. g \in FrameData /\ LengthOf(g) \in Nat BY <1>8, FrameTypes DEF IsFrame
<1>10. PICK s \in Nat, l \in Nat : s = StartAt(es, base, k) /\ l = LengthOf(g)
  <2>1. k \in 1..Len(es) + 1 BY <1>2, LenProperties
  <2>2. StartAt(es, base, k) \in Nat BY <1>2, <2>1, Starts
  <2>3. QED BY <1>9, <2>2, Zenon
<1>11. es[k] = s + l /\ \A j \in 1..l : bytes[s + j] = BytesOf(g)[j]
  BY <1>8, <1>10, Zenon DEF IsFrame
<1>12. PICK j \in 1..l : i = s + j
  <2>1. s < i /\ i <= es[k] /\ es[k] = s + l BY <1>7, <1>10, <1>11, Zenon
  <2>2. i \in Int BY <1>1, <1>5
  <2>3. s < i /\ i <= s + l BY <2>1
  <2>4. QED BY <2>2, <2>3, Place
<1>13. PICK b : b = BytesOf(g) OBVIOUS
<1>14. b[j][1] = "terminator" /\ b[j][2] = t BY <1>11, <1>12, <1>13, <1>4, <1>5
<1>15. j > TerminatorOf(g) /\ b[j][2] = j - TerminatorOf(g)
  BY <1>9, <1>13, <1>10, <1>14, FrameIsLaidOut, PartsApart
<1>16. PICK a \in Nat : a = TerminatorOf(g) BY <1>9, FrameTypes
<1>17. l = a + t BY <1>1, <1>10, <1>16, Zenon DEF LengthOf
<1>18. j = l
  <2>1. t = j - a BY <1>14, <1>15, <1>16, Zenon
  <2>2. QED BY <1>17, <2>1
<1>19. QED BY <1>1, <1>5, <1>7, <1>11, <1>12, <1>18

\* The bytes from one on are those of a frame.
FrameAt(bytes, from, f) ==
  /\ from + LengthOf(f) <= Len(bytes)
  /\ \A i \in 1..LengthOf(f) : bytes[from + i] = BytesOf(f)[i]

\* Where a reader finds the parts of a frame.
Readable(bytes, from, f) ==
  /\ Holds(bytes, from, "header", FrameHeaderLen)
  /\ ValueAt(bytes, from) = f.hdr
  /\ Holds(bytes, DeLenAt(from), "de_len", PrefixLen)
  /\ ValueAt(bytes, DeLenAt(from)) = Len(f.de) % CountModulus
  /\ \A k \in 1..Len(f.de) : ValueAt(bytes, DeLenAt(from) + PrefixLen + k - 1) = f.de[k]
  /\ \A k \in 1..Len(f.blocks) : bytes[from + BlocksOf(f) + k] = f.blocks[k]
  /\ Holds(bytes, from + TerminatorOf(f), "terminator", TerminatorLen)
  /\ ValueAt(bytes, from + TerminatorOf(f)) = [of |-> f.crc, hdr |-> f.hdr]

\* It finds them.
LEMMA FrameIsReadable ==
  ASSUME NEW bytes, NEW from \in Nat, NEW f \in FrameData, FrameAt(bytes, from, f), Len(bytes) \in Nat
  PROVE  Readable(bytes, from, f)
<1>1. PICK a \in Nat \ {0}, p \in Nat \ {0}, n \in Nat, m \in Nat, k \in Nat, t \in Nat \ {0} :
        /\ a = FrameHeaderLen /\ p = PrefixLen /\ n = Len(f.de) /\ m = Len(f.meas) /\ k = Len(f.blocks)
        /\ t = TerminatorLen BY FrameTypes, Lengths
<1>2. PICK b : b = BytesOf(f) OBVIOUS
<1>0. 1 \in 1..a /\ 1 \in 1..p /\ 1 \in 1..t OBVIOUS
<1>3. PICK len \in Nat : len = Len(bytes) OBVIOUS
<1>4. /\ RleAt = a + p /\ MeasOf(f) = a + p + n /\ BlocksOf(f) = a + p + n + m
      /\ TerminatorOf(f) = a + p + n + m + k /\ LengthOf(f) = a + p + n + m + k + t
  BY <1>1, Zenon DEF RleAt, MeasOf, BlocksOf, TerminatorOf, LengthOf
<1>5. LaidOut(f, b) BY <1>2, FrameIsLaidOut
<1>6. /\ \A i \in 1..a : b[i] = <<"header", i, f.hdr>>
      /\ \A i \in 1..p : b[a + i] = <<"de_len", i, Len(f.de) % CountModulus>>
      /\ \A i \in 1..n : b[a + p + i] = <<"rle", 1, f.de[i]>>
      /\ \A i \in 1..k : b[a + p + n + m + i] = f.blocks[i]
      /\ \A i \in 1..t : b[a + p + n + m + k + i] = <<"terminator", i, [of |-> f.crc, hdr |-> f.hdr]>>
  BY <1>1, <1>4, <1>5, Zenon DEF LaidOut
<1>7. /\ from + (a + p + n + m + k + t) <= len
      /\ \A i \in 1..a + p + n + m + k + t : bytes[from + i] = b[i]
  BY <1>2, <1>3, <1>4, Zenon DEF FrameAt
<1>8. Holds(bytes, from, "header", FrameHeaderLen)
  <2>1. from + a <= len BY <1>7
  <2>2. ASSUME NEW i \in 1..a PROVE bytes[from + i][1] = "header" /\ bytes[from + i][2] = i
    <3>1. i \in 1..a + p + n + m + k + t OBVIOUS
    <3>2. bytes[from + i] = <<"header", i, f.hdr>> BY <1>6, <1>7, <3>1, Zenon
    <3>3. QED BY <3>2
  <2>3. QED BY <1>1, <1>3, <2>1, <2>2, Zenon DEF Holds
<1>9. ValueAt(bytes, from) = f.hdr
  <2>1. 1 \in 1..a /\ 1 \in 1..a + p + n + m + k + t BY <1>0
  <2>2. bytes[from + 1] = <<"header", 1, f.hdr>> BY <1>6, <1>7, <2>1, Zenon
  <2>3. QED BY <2>2 DEF ValueAt
<1>a. Holds(bytes, DeLenAt(from), "de_len", PrefixLen)
  <2>1. from + a + p <= len BY <1>7
  <2>2. ASSUME NEW i \in 1..p PROVE bytes[from + a + i][1] = "de_len" /\ bytes[from + a + i][2] = i
    <3>1. a + i \in 1..a + p + n + m + k + t /\ from + a + i = from + (a + i) OBVIOUS
    <3>2. bytes[from + a + i] = <<"de_len", i, Len(f.de) % CountModulus>> BY <1>6, <1>7, <3>1, Zenon
    <3>3. QED BY <3>2
  <2>3. DeLenAt(from) = from + a BY <1>1, Zenon DEF DeLenAt
  <2>4. QED BY <1>1, <1>3, <2>1, <2>2, <2>3, Zenon DEF Holds
<1>10. ValueAt(bytes, DeLenAt(from)) = Len(f.de) % CountModulus
  <2>1. 1 \in 1..p /\ a + 1 \in 1..a + p + n + m + k + t /\ (from + a) + 1 = from + (a + 1) BY <1>0
  <2>2. b[a + 1] = <<"de_len", 1, Len(f.de) % CountModulus>> /\ bytes[from + (a + 1)] = b[a + 1]
    BY <1>6, <1>7, <2>1, Zenon
  <2>3. bytes[from + a + 1] = <<"de_len", 1, Len(f.de) % CountModulus>> BY <2>1, <2>2, Zenon
  <2>4. DeLenAt(from) = from + a BY <1>1, Zenon DEF DeLenAt
  <2>5. QED BY <2>3, <2>4 DEF ValueAt
<1>11. \A i \in 1..Len(f.de) : ValueAt(bytes, DeLenAt(from) + PrefixLen + i - 1) = f.de[i]
  <2> TAKE i \in 1..Len(f.de)
  <2>1. i \in 1..n BY <1>1, Zenon
  <2>2. a + p + i \in 1..a + p + n + m + k + t /\ (from + a + p + i - 1) + 1 = from + (a + p + i)
    BY <2>1
  <2>3. b[a + p + i] = <<"rle", 1, f.de[i]>> /\ bytes[from + (a + p + i)] = b[a + p + i]
    BY <1>6, <1>7, <2>1, <2>2, Zenon
  <2>4. bytes[(from + a + p + i - 1) + 1] = <<"rle", 1, f.de[i]>> BY <2>2, <2>3, Zenon
  <2>5. DeLenAt(from) + PrefixLen + i - 1 = from + a + p + i - 1 BY <1>1, Zenon DEF DeLenAt
  <2>6. QED BY <2>4, <2>5 DEF ValueAt
<1>12. \A i \in 1..Len(f.blocks) : bytes[from + BlocksOf(f) + i] = f.blocks[i]
  <2> TAKE i \in 1..Len(f.blocks)
  <2>1. i \in 1..k BY <1>1, Zenon
  <2>2. a + p + n + m + i \in 1..a + p + n + m + k + t /\ from + (a + p + n + m) + i = from + (a + p + n + m + i)
    BY <2>1
  <2>3. bytes[from + (a + p + n + m + i)] = f.blocks[i] BY <1>6, <1>7, <2>1, <2>2, Zenon
  <2>4. bytes[from + (a + p + n + m) + i] = f.blocks[i] BY <2>2, <2>3, Zenon
  <2>5. QED BY <1>4, <2>4, Zenon
<1>13. \A i \in 1..t : bytes[from + (a + p + n + m + k) + i] = <<"terminator", i, [of |-> f.crc, hdr |-> f.hdr]>>
  <2> TAKE i \in 1..t
  <2>1. /\ a + p + n + m + k + i \in 1..a + p + n + m + k + t
        /\ from + (a + p + n + m + k) + i = from + (a + p + n + m + k + i) OBVIOUS
  <2>2. QED BY <1>6, <1>7, <2>1, Zenon
<1>14. Holds(bytes, from + TerminatorOf(f), "terminator", TerminatorLen)
  <2>1. from + (a + p + n + m + k) + t <= len BY <1>7
  <2>2. \A i \in 1..t : /\ bytes[from + (a + p + n + m + k) + i][1] = "terminator"
                        /\ bytes[from + (a + p + n + m + k) + i][2] = i
    <3> TAKE i \in 1..t
    <3>1. bytes[from + (a + p + n + m + k) + i] = <<"terminator", i, [of |-> f.crc, hdr |-> f.hdr]>>
      BY <1>13
    <3>2. QED BY <3>1
  <2>3. QED BY <1>1, <1>3, <1>4, <2>1, <2>2, Zenon DEF Holds
<1>15. ValueAt(bytes, from + TerminatorOf(f)) = [of |-> f.crc, hdr |-> f.hdr]
  BY <1>0, <1>13, <1>4 DEF ValueAt
<1>16. QED BY <1>8, <1>9, <1>a, <1>10, <1>11, <1>12, <1>14, <1>15, Zenon DEF Readable

-----------------------------------------------------------------------------
(* The frames of the writers *)

\* What an exporter, or a recorder, writes a frame from.
ExportData(shot, meta, annotated, id, width, crc) ==
  LET de  == EncodeDetectorEvents(shot.events)
      hdr == [frame_id |-> id, ancilla_count |-> width, payload_len |-> 0,
              flags |-> Flags(shot, meta, annotated)]
  IN  [hdr |-> [hdr EXCEPT !.payload_len = ExportedLen(hdr, de, meta, annotated)],
       de |-> de, meas |-> shot.events, blocks |-> Blocks(shot, meta, annotated), crc |-> crc]

\* And the encoders that write no blocks.
EncodeData(events, id, width) ==
  [hdr |-> [frame_id |-> id, ancilla_count |-> width,
            payload_len |-> PrefixLen + Len(EncodeDetectorEvents(events)) + width, flags |-> {}],
   de |-> EncodeDetectorEvents(events), meas |-> events, blocks |-> << >>, crc |-> "header"]

\* The header says how long the frame is, or too much.
Exactly(f) == FrameHeaderLen + f.hdr.payload_len + TerminatorLen = LengthOf(f)

TooLong(f) == FrameHeaderLen + f.hdr.payload_len + TerminatorLen > LengthOf(f)

\* Wider rounds have longer blocks.
LEMMA LongerBlocks ==
  ASSUME NEW shot \in Shots, NEW meta \in Metadata, NEW annotated \in Seq(Nat), NEW w \in Nat, NEW n \in Nat,
         n <= w
  PROVE  /\ BlocksLen(shot, meta, annotated, n) \in Nat /\ BlocksLen(shot, meta, annotated, w) \in Nat
         /\ BlocksLen(shot, meta, annotated, n) <= BlocksLen(shot, meta, annotated, w)
<1>1. PICK x \in Nat : x = IF meta # NoMetadata THEN Len(WriteMetadataTlv(meta)) ELSE 0
  BY MetadataType, LenProperties
<1>2. PICK y \in Nat : y = IF annotated # << >> THEN Len(WriteAnnotations(annotated[1])) ELSE 0
  <2>1. CASE annotated # << >>
    <3>1. Len(annotated) \in Nat \ {0} BY <2>1, EmptySeq
    <3>2. 1 \in 1..Len(annotated) BY <3>1
    <3>3. annotated[1] \in Nat BY <3>2, ElementOfSeq
    <3>4. Len(WriteAnnotations(annotated[1])) \in Nat BY <3>3, AnnotationsType, LenProperties
    <3>5. QED BY <3>4
  <2>2. CASE annotated = << >> BY <2>2
  <2>3. QED BY <2>1, <2>2
<1>3. PICK t \in BOOLEAN, p \in BOOLEAN : t = shot.timing /\ p = shot.parity BY DEF Shots
<1>4. /\ BlocksLen(shot, meta, annotated, n)
           = (IF t THEN n * 2 ELSE 0) + (IF p THEN (n + 7) \div 8 ELSE 0) + x + y
      /\ BlocksLen(shot, meta, annotated, w)
           = (IF t THEN w * 2 ELSE 0) + (IF p THEN (w + 7) \div 8 ELSE 0) + x + y
  BY <1>1, <1>2, <1>3, Zenon DEF BlocksLen
<1>5. /\ n * 2 \in Nat /\ w * 2 \in Nat /\ n * 2 <= w * 2
      /\ (n + 7) \div 8 \in Nat /\ (w + 7) \div 8 \in Nat /\ (n + 7) \div 8 <= (w + 7) \div 8
  OBVIOUS
<1>6. /\ (IF t THEN n * 2 ELSE 0) \in Nat /\ (IF t THEN w * 2 ELSE 0) \in Nat
      /\ (IF t THEN n * 2 ELSE 0) <= (IF t THEN w * 2 ELSE 0)
  <2>1. CASE t BY <1>5, <2>1
  <2>2. CASE ~ t BY <2>2
  <2>3. QED BY <2>1, <2>2
<1>7. /\ (IF p THEN (n + 7) \div 8 ELSE 0) \in Nat /\ (IF p THEN (w + 7) \div 8 ELSE 0) \in Nat
      /\ (IF p THEN (n + 7) \div 8 ELSE 0) <= (IF p THEN (w + 7) \div 8 ELSE 0)
  <2>1. CASE p BY <1>5, <2>1
  <2>2. CASE ~ p BY <2>2
  <2>3. QED BY <2>1, <2>2
<1>8. PICK a \in Nat, b \in Nat, c \in Nat, d \in Nat :
        /\ a = (IF t THEN n * 2 ELSE 0) /\ b = (IF t THEN w * 2 ELSE 0) /\ a <= b
        /\ c = (IF p THEN (n + 7) \div 8 ELSE 0) /\ d = (IF p THEN (w + 7) \div 8 ELSE 0) /\ c <= d
  BY <1>6, <1>7
<1>9. BlocksLen(shot, meta, annotated, n) = a + c + x + y /\ BlocksLen(shot, meta, annotated, w) = b + d + x + y
  BY <1>4, <1>8, Zenon
<1>10. a + c + x + y \in Nat /\ b + d + x + y \in Nat /\ a + c + x + y <= b + d + x + y BY <1>8
<1>11. QED BY <1>9, <1>10, Zenon

\* The payload_len of an exporter counts the blocks of rounds as wide as the header says.
LEMMA PayloadIs ==
  ASSUME NEW shot \in Shots, NEW meta \in Metadata, NEW annotated \in Seq(Nat), NEW id \in Nat, NEW width \in Nat,
         NEW hdr, hdr = [frame_id |-> id, ancilla_count |-> width, payload_len |-> 0,
                         flags |-> Flags(shot, meta, annotated)],
         NEW de \in Seq(Token)
  PROVE  ExportedLen(hdr, de, meta, annotated) = PrefixLen + Len(de) + width + BlocksLen(shot, meta, annotated, width)
<1>1. PICK t \in BOOLEAN, p \in BOOLEAN : t = shot.timing /\ p = shot.parity BY DEF Shots
<1>2. ("timing" \in Flags(shot, meta, annotated) <=> t) /\ ("parity" \in Flags(shot, meta, annotated) <=> p)
  BY <1>1 DEF Flags
<1>3. hdr.ancilla_count = width /\ hdr.flags = Flags(shot, meta, annotated) BY DEF Flags
<1>4. TimingLen(hdr) = IF t THEN width * 2 ELSE 0 BY <1>2, <1>3, Zenon DEF TimingLen
<1>5. ParityLen(hdr) = IF p THEN (width + 7) \div 8 ELSE 0 BY <1>2, <1>3, Zenon DEF ParityLen
<1>6. PICK x \in Nat : x = IF meta # NoMetadata THEN Len(WriteMetadataTlv(meta)) ELSE 0
  BY MetadataType, LenProperties
<1>7. PICK y \in Nat : y = IF annotated # << >> THEN Len(WriteAnnotations(annotated[1])) ELSE 0
  <2>1. CASE annotated # << >>
    <3>1. Len(annotated) \in Nat \ {0} BY <2>1, EmptySeq
    <3>2. 1 \in 1..Len(annotated) BY <3>1
    <3>3. annotated[1] \in Nat BY <3>2, ElementOfSeq
    <3>4. Len(WriteAnnotations(annotated[1])) \in Nat BY <3>3, AnnotationsType, LenProperties
    <3>5. QED BY <3>4
  <2>2. CASE annotated = << >> BY <2>2
  <2>3. QED BY <2>1, <2>2
<1>8. PICK a \in Nat : a = IF t THEN width * 2 ELSE 0 OBVIOUS
<1>9. PICK c \in Nat : c = IF p THEN (width + 7) \div 8 ELSE 0 OBVIOUS
<1>10. ExportedLen(hdr, de, meta, annotated) = PrefixLen + Len(de) + width + a + c + x + y
  BY <1>3, <1>4, <1>5, <1>6, <1>7, <1>8, <1>9, Zenon DEF ExportedLen
<1>11. BlocksLen(shot, meta, annotated, width) = a + c + x + y
  BY <1>1, <1>6, <1>7, <1>8, <1>9, Zenon DEF BlocksLen
<1>12. PICK l \in Nat, q \in Nat : l = Len(de) /\ q = PrefixLen BY LenProperties, Lengths
<1>13. q + l + width + a + c + x + y = q + l + width + (a + c + x + y) OBVIOUS
<1>14. QED BY <1>10, <1>11, <1>12, <1>13, Zenon

\* A header with its length.
LEMMA WithLength ==
  ASSUME NEW id \in Nat, NEW width \in Nat, NEW len \in Nat, NEW fl, NEW h,
         h = [frame_id |-> id, ancilla_count |-> width, payload_len |-> 0, flags |-> fl]
  PROVE  [h EXCEPT !.payload_len = len]
           = [frame_id |-> id, ancilla_count |-> width, payload_len |-> len, flags |-> fl]
<1>1. [[frame_id |-> id, ancilla_count |-> width, payload_len |-> 0, flags |-> fl] EXCEPT !.payload_len = len]
        = [frame_id |-> id, ancilla_count |-> width, payload_len |-> len, flags |-> fl] OBVIOUS
<1>2. QED BY <1>1

\* What an exported frame is written from: the header fits when it says how wide the round is.
LEMMA ExportedData ==
  ASSUME NEW shot \in Shots, NEW meta \in Metadata, NEW annotated \in Seq(Nat), NEW id \in Nat, NEW width \in Nat,
         NEW crc \in {"header", "whole"}, NEW f, f = ExportData(shot, meta, annotated, id, width, crc)
  PROVE  /\ f \in FrameData
         /\ width = Len(shot.events) => Exactly(f)
         /\ width > Len(shot.events) => TooLong(f)
<1>1. PICK de \in Seq(Token), meas \in Seq(BOOLEAN), blocks \in Seq(BlockCell), n \in Nat, l \in Nat, k \in Nat :
        /\ de = EncodeDetectorEvents(shot.events) /\ meas = shot.events /\ blocks = Blocks(shot, meta, annotated)
        /\ n = Len(meas) /\ l = Len(de) /\ k = Len(blocks) /\ k = BlocksLen(shot, meta, annotated, n)
  <2>1. shot.events \in Seq(BOOLEAN) BY DEF Shots
  <2>2. EncodeDetectorEvents(shot.events) \in Seq(Token) BY <2>1, EncodeType
  <2>3. /\ Blocks(shot, meta, annotated) \in Seq(BlockCell)
        /\ Len(Blocks(shot, meta, annotated)) = BlocksLen(shot, meta, annotated, Len(shot.events))
    BY BlocksAre
  <2>4. /\ Len(shot.events) \in Nat /\ Len(EncodeDetectorEvents(shot.events)) \in Nat
        /\ Len(Blocks(shot, meta, annotated)) \in Nat BY <2>1, <2>2, <2>3, LenProperties
  <2>5. QED BY <2>1, <2>2, <2>3, <2>4
<1>2. PICK hdr : hdr = [frame_id |-> id, ancilla_count |-> width, payload_len |-> 0,
                        flags |-> Flags(shot, meta, annotated)] OBVIOUS
<1>3. PICK j \in Nat : j = BlocksLen(shot, meta, annotated, width) BY LongerBlocks
<1>4. PICK a \in Nat, p \in Nat, t \in Nat : a = FrameHeaderLen /\ p = PrefixLen /\ t = TerminatorLen
  BY Lengths
<1>5. ExportedLen(hdr, de, meta, annotated) = p + l + width + j BY <1>2, <1>1, <1>3, <1>4, PayloadIs
<1>6. PICK len \in Nat : len = p + l + width + j OBVIOUS
<1>7. Flags(shot, meta, annotated) \in SUBSET {"timing", "parity", "metadata", "annotations"}
  BY DEF Flags
<1>8. PICK h \in Header : h = [hdr EXCEPT !.payload_len = len] /\ h.payload_len = len
  <2>1. PICK fl \in SUBSET {"timing", "parity", "metadata", "annotations"} : fl = Flags(shot, meta, annotated)
    BY <1>7
  <2>2. [frame_id |-> id, ancilla_count |-> width, payload_len |-> len, flags |-> fl] \in Header
    BY DEF Header
  <2>3. [hdr EXCEPT !.payload_len = len]
          = [frame_id |-> id, ancilla_count |-> width, payload_len |-> len, flags |-> fl]
    BY <1>2, <2>1, WithLength
  <2>4. QED BY <2>2, <2>3
<1>9. f = [hdr |-> h, de |-> de, meas |-> meas, blocks |-> blocks, crc |-> crc]
  BY <1>1, <1>2, <1>5, <1>6, <1>8, Zenon DEF ExportData
<1>10. f \in FrameData BY <1>9 DEF FrameData
<1>11. f.hdr = h /\ f.de = de /\ f.meas = meas /\ f.blocks = blocks BY <1>9
<1>12. LengthOf(f) = a + p + l + n + k + t
  BY <1>1, <1>4, <1>11, Zenon DEF LengthOf, TerminatorOf, BlocksOf, MeasOf, RleAt
<1>13. FrameHeaderLen + f.hdr.payload_len + TerminatorLen = a + (p + l + width + j) + t
  BY <1>4, <1>6, <1>8, <1>11, Zenon
<1>14. width = n => k = j BY <1>1, <1>3, Zenon
<1>15. width > n => k <= j
  <2>1. width > n => n <= width OBVIOUS
  <2>2. width > n => BlocksLen(shot, meta, annotated, n) <= BlocksLen(shot, meta, annotated, width)
    BY <2>1, LongerBlocks
  <2>3. QED BY <1>1, <1>3, <2>2, Zenon
<1>16. width = n => a + (p + l + width + j) + t = a + p + l + n + k + t BY <1>14
<1>17. width > n => a + (p + l + width + j) + t > a + p + l + n + k + t BY <1>15
<1>18. n = Len(shot.events) BY <1>1, Zenon
<1>19. width = n => Exactly(f) BY <1>12, <1>13, <1>16, Zenon DEF Exactly
<1>20. width > n => TooLong(f) BY <1>12, <1>13, <1>17, Zenon DEF TooLong
<1>21. QED BY <1>10, <1>18, <1>19, <1>20, Zenon

\* The same for a frame without blocks.
LEMMA EncodedData ==
  ASSUME NEW events \in Seq(BOOLEAN), NEW id \in Nat, NEW width \in Nat, NEW f, f = EncodeData(events, id, width)
  PROVE  /\ f \in FrameData
         /\ width = Len(events) => Exactly(f)
         /\ width > Len(events) => TooLong(f)
<1>1. PICK de \in Seq(Token), n \in Nat, l \in Nat :
        de = EncodeDetectorEvents(events) /\ n = Len(events) /\ l = Len(de)
  BY EncodeType, LenProperties
<1>2. PICK a \in Nat, p \in Nat, t \in Nat : a = FrameHeaderLen /\ p = PrefixLen /\ t = TerminatorLen
  BY Lengths
<1>3. PICK len \in Nat : len = p + l + width OBVIOUS
<1>4. PICK h \in Header : h = [frame_id |-> id, ancilla_count |-> width, payload_len |-> len, flags |-> {}]
  BY DEF Header
<1>5. f = [hdr |-> h, de |-> de, meas |-> events, blocks |-> << >>, crc |-> "header"]
  BY <1>1, <1>2, <1>3, <1>4, Zenon DEF EncodeData
<1>6. << >> \in Seq(BlockCell) /\ Len(<< >>) = 0 OBVIOUS
<1>7. f \in FrameData BY <1>5, <1>6 DEF FrameData
<1>8. f.hdr = h /\ f.de = de /\ f.meas = events /\ f.blocks = << >> /\ h.payload_len = len
  BY <1>4, <1>5
<1>9. LengthOf(f) = a + p + l + n + 0 + t
  BY <1>1, <1>2, <1>6, <1>8, Zenon DEF LengthOf, TerminatorOf, BlocksOf, MeasOf, RleAt
<1>10. FrameHeaderLen + f.hdr.payload_len + TerminatorLen = a + (p + l + width) + t
  BY <1>2, <1>3, <1>8, Zenon
<1>11. /\ width = n => a + (p + l + width) + t = a + p + l + n + 0 + t
       /\ width > n => a + (p + l + width) + t > a + p + l + n + 0 + t OBVIOUS
<1>12. width = n => Exactly(f) BY <1>9, <1>10, <1>11, Zenon DEF Exactly
<1>13. width > n => TooLong(f) BY <1>9, <1>10, <1>11, Zenon DEF TooLong
<1>14. QED BY <1>1, <1>7, <1>12, <1>13, Zenon

\* The bytes that the programs write are those of such frames.
LEMMA ExportedBytes ==
  ASSUME NEW shot, NEW meta, NEW annotated, NEW id, NEW width
  PROVE  ExportFrame(shot, meta, annotated, id, width)
           = BytesOf(ExportData(shot, meta, annotated, id, width, "header"))
BY DEF ExportFrame, BytesOf, ExportData

\* So are those of a recorder.
LEMMA RecordedBytes ==
  ASSUME NEW shot, NEW id
  PROVE  RecordFrame(shot, id) = BytesOf(ExportData(shot, NoMetadata, << >>, id, Len(shot.events), "whole"))
BY DEF RecordFrame, BytesOf, ExportData

\* And of an encoder.
LEMMA EncodedBytes ==
  ASSUME NEW events, NEW id, NEW width
  PROVE  EncodeShotFrame(events, id, width) = BytesOf(EncodeData(events, id, width))
BY DEF EncodeShotFrame, BytesOf, EncodeData

-----------------------------------------------------------------------------
(* The shots of a job *)

\* The lines from one on, behind those whose text is empty.
LEMMA Skipped ==
  ASSUME NEW S, NEW lines \in Seq(S), NEW texts, Len(texts) = Len(lines)
  PROVE  \/ SkipBlank(lines, texts) = << >> /\ \A i \in 1..Len(lines) : texts[i] = << >>
         \/ \E k \in 1..Len(lines) :
              /\ texts[k] # << >> /\ \A i \in 1..k - 1 : texts[i] = << >>
              /\ SkipBlank(lines, texts) = SubSeq(lines, k, Len(lines))
<1> DEFINE I == {i \in 1..Len(texts) : texts[i] # << >>}
           k == IF I # {} THEN Min(I) ELSE 0
<1>1. SelectInSeq(texts, LAMBDA text : text # << >>) = k BY DEF SelectInSeq
<1>2. SkipBlank(lines, texts) = IF k = 0 THEN << >> ELSE SubSeq(lines, k, Len(lines))
  BY <1>1, Zenon DEF SkipBlank
<1>3. CASE I = {}
  <2>1. SkipBlank(lines, texts) = << >> BY <1>2, <1>3
  <2>2. ASSUME NEW i \in 1..Len(lines) PROVE texts[i] = << >> BY <1>3
  <2>3. QED BY <2>1, <2>2
<1>4. CASE I # {}
  <2>1. I \subseteq Nat BY LenProperties
  <2>2. \E x \in I : \A y \in I : x <= y BY <1>4, <2>1, LeastOf
  <2>3. Min(I) \in I /\ \A y \in I : Min(I) <= y BY <2>2, Zenon DEF Min
  <2>4. k \in I /\ \A y \in I : k <= y BY <1>4, <2>3
  <2> HIDE DEF k
  <2>5. k \in 1..Len(lines) /\ texts[k] # << >> BY <2>4
  <2>6. k # 0 /\ Len(lines) \in Nat BY <2>5, LenProperties
  <2>7. ASSUME NEW i \in 1..k - 1 PROVE texts[i] = << >> BY <2>5, <2>6, <2>4
  <2>8. QED BY <1>2, <2>5, <2>6, <2>7
<1>5. QED BY <1>3, <1>4

\* The first of the elements from k on, and those behind it.
Onward(S, s, k, rest) ==
  /\ rest \in Seq(S) /\ rest # << >> /\ Head(rest) = s[k] /\ s[k] \in S
  /\ Tail(rest) \in Seq(S) /\ Len(Tail(rest)) = Len(s) - k
  /\ \A i \in 1..Len(s) - k : Tail(rest)[i] = s[k + i]

\* They are in their places.
LEMMA FromOneOn ==
  ASSUME NEW S, NEW s \in Seq(S), NEW k \in 1..Len(s), NEW rest, rest = SubSeq(s, k, Len(s))
  PROVE  Onward(S, s, k, rest)
<1>1. PICK n \in Nat : n = Len(s) BY LenProperties
<1>2. k \in 1..n /\ \A i \in k..n : s[i] \in S
  <2>1. k \in 1..n BY <1>1
  <2>2. \A i \in k..n : i \in 1..n BY <2>1
  <2>3. \A i \in 1..n : s[i] \in S BY <1>1, ElementOfSeq
  <2>4. QED BY <2>1, <2>2, <2>3
<1>3. /\ rest \in Seq(S) /\ Len(rest) = n - k + 1
      /\ \A i \in 1..n - k + 1 : rest[i] = s[k + i - 1] BY <1>1, <1>2, SubSeqProperties
<1>4. rest # << >>
  <2>1. Len(rest) # 0 BY <1>2, <1>3
  <2>2. QED BY <2>1
<1>5. Head(rest) = s[k] BY <1>3, <1>4, <1>2
<1>6. /\ Tail(rest) \in Seq(S) /\ Len(Tail(rest)) = n - k
      /\ \A i \in 1..Len(Tail(rest)) : Tail(rest)[i] = rest[i + 1]
  BY <1>2, <1>3, <1>4, HeadTailProperties
<1>7. \A i \in 1..n - k : Tail(rest)[i] = s[k + i]
  <2> TAKE i \in 1..n - k
  <2>1. i + 1 \in 1..n - k + 1 /\ k + (i + 1) - 1 = k + i BY <1>2
  <2>2. i \in 1..Len(Tail(rest)) BY <1>6
  <2>3. Tail(rest)[i] = rest[i + 1] BY <1>6, <2>2
  <2>4. rest[i + 1] = s[k + (i + 1) - 1] BY <1>3, <2>1
  <2>5. QED BY <2>1, <2>3, <2>4
<1>8. s[k] \in S BY <1>2
<1>9. QED BY <1>1, <1>3, <1>4, <1>5, <1>6, <1>7, <1>8, Zenon DEF Onward

\* The lines that are kept of the first n.
KeptUpTo(lines, texts, g, n) ==
  g = [i \in 0..n |-> IF i = 0 THEN << >>
                      ELSE IF texts[i] # << >> THEN Append(g[i - 1], lines[i]) ELSE g[i - 1]]

\* They exist.
LEMMA KeptExist ==
  ASSUME NEW S, NEW lines \in Seq(S), NEW texts
  PROVE  \E g : KeptUpTo(lines, texts, g, Len(lines))
<1>1. PICK n \in Nat : n = Len(lines) BY LenProperties
<1>2. PICK Q : Q = Seq(S) OBVIOUS
<1>3. PICK step : step = [i \in 1..n |-> [kept \in Q |-> IF texts[i] # << >> THEN Append(kept, lines[i]) ELSE kept]]
  OBVIOUS
<1>4. ASSUME NEW i \in 1..n, NEW kept \in Q
      PROVE  (IF texts[i] # << >> THEN Append(kept, lines[i]) ELSE kept) \in Q
  BY <1>1, <1>2, ElementOfSeq, AppendProperties
<1>5. step \in [1..n -> [Q -> Q]] BY <1>3, <1>4
<1>6. << >> \in Q BY <1>2
<1>7. PICK f : Recursion(f, n, Q, << >>, step) BY <1>5, <1>6, RecursionExists
<1>8. /\ f \in [0..n -> Q] /\ f[0] = << >>
      /\ \A i \in 1..n : f[i] = step[i][f[i - 1]] BY <1>7 DEF Recursion
<1>9. \A i \in 1..n : f[i] = IF texts[i] # << >> THEN Append(f[i - 1], lines[i]) ELSE f[i - 1]
  <2> TAKE i \in 1..n
  <2>1. f[i - 1] \in Q BY <1>8
  <2>2. step[i] = [kept \in Q |-> IF texts[i] # << >> THEN Append(kept, lines[i]) ELSE kept] BY <1>3
  <2>3. step[i][f[i - 1]] = IF texts[i] # << >> THEN Append(f[i - 1], lines[i]) ELSE f[i - 1]
    BY <2>1, <2>2, Zenon
  <2>4. QED BY <1>8, <2>3
<1>10. f = [i \in 0..n |-> IF i = 0 THEN << >>
                           ELSE IF texts[i] # << >> THEN Append(f[i - 1], lines[i]) ELSE f[i - 1]]
  <2>1. \A i \in 0..n : f[i] = IF i = 0 THEN << >>
                               ELSE IF texts[i] # << >> THEN Append(f[i - 1], lines[i]) ELSE f[i - 1]
    <3> TAKE i \in 0..n
    <3>1. CASE i = 0 BY <1>8, <3>1, Zenon
    <3>2. CASE i # 0 BY <3>2, <1>9
    <3>3. QED BY <3>1, <3>2
  <2>2. f = [i \in 0..n |-> f[i]] BY <1>8, Zenon
  <2>3. QED BY <2>1, <2>2, Zenon
<1>11. QED BY <1>1, <1>10, Zenon DEF KeptUpTo

\* Every line whose text is not empty is kept.
LEMMA NotBlankHas ==
  ASSUME NEW S, NEW lines \in Seq(S), NEW texts
  PROVE  /\ NotBlank(lines, texts) \in Seq(S)
         /\ \A j \in 1..Len(lines) :
              texts[j] # << >> => \E i \in 1..Len(NotBlank(lines, texts)) : NotBlank(lines, texts)[i] = lines[j]
<1>1. PICK n \in Nat : n = Len(lines) BY LenProperties
<1> DEFINE g == CHOOSE g : KeptUpTo(lines, texts, g, Len(lines))
<1>2. KeptUpTo(lines, texts, g, Len(lines)) BY KeptExist
<1>3. NotBlank(lines, texts) = g[Len(lines)] BY DEF NotBlank, KeptUpTo
<1> HIDE DEF g
<1>4. \A i \in 0..n : g[i] = IF i = 0 THEN << >>
                            ELSE IF texts[i] # << >> THEN Append(g[i - 1], lines[i]) ELSE g[i - 1]
  BY <1>1, <1>2, Zenon DEF KeptUpTo
<1>5. PICK P : P = {i \in 0..n : /\ g[i] \in Seq(S)
                               /\ \A j \in 1..i : texts[j] # << >> => \E k \in 1..Len(g[i]) : g[i][k] = lines[j]}
  OBVIOUS
<1>6. 0 \in P
  <2>1. g[0] = << >> BY <1>4
  <2>2. << >> \in Seq(S) OBVIOUS
  <2>3. 0 \in 0..n /\ 1..0 = {} BY <1>1
  <2>4. QED BY <1>5, <2>1, <2>2, <2>3
<1>7. ASSUME NEW i \in 1..n, i - 1 \in P PROVE i \in P
  <2>1. i \in 0..n /\ i # 0 /\ i - 1 \in 0..n OBVIOUS
  <2>2. g[i] = IF texts[i] # << >> THEN Append(g[i - 1], lines[i]) ELSE g[i - 1] BY <1>4, <2>1
  <2>3. PICK before \in Seq(S) : before = g[i - 1] BY <1>5, <1>7
  <2>4. \A j \in 1..i - 1 : texts[j] # << >> => \E k \in 1..Len(before) : before[k] = lines[j]
    BY <1>5, <1>7, <2>3
  <2>5. lines[i] \in S BY <1>1, ElementOfSeq
  <2>6. PICK m \in Nat : m = Len(before) BY LenProperties
  <2>7. CASE texts[i] # << >>
    <3>1. PICK now \in Seq(S) : now = Append(before, lines[i]) BY <2>5, AppendProperties
    <3>2. Len(now) = m + 1 /\ (\A k \in 1..m : now[k] = before[k]) /\ now[m + 1] = lines[i]
      BY <2>5, <2>6, <3>1, AppendProperties
    <3>3. g[i] = now BY <2>2, <2>3, <2>7, <3>1
    <3>4. ASSUME NEW j \in 1..i, texts[j] # << >> PROVE \E k \in 1..Len(now) : now[k] = lines[j]
      <4>1. CASE j = i BY <3>2, <4>1
      <4>2. CASE j # i
        <5>1. j \in 1..i - 1 BY <4>2
        <5>2. PICK k \in 1..m : before[k] = lines[j] BY <2>4, <2>6, <3>4, <5>1
        <5>3. k \in 1..Len(now) /\ now[k] = lines[j] BY <3>2, <5>2
        <5>4. QED BY <5>3
      <4>3. QED BY <4>1, <4>2
    <3>5. QED BY <1>5, <2>1, <3>3, <3>4
  <2>8. CASE ~ texts[i] # << >>
    <3>1. g[i] = before BY <2>2, <2>3, <2>8
    <3>2. ASSUME NEW j \in 1..i, texts[j] # << >>
          PROVE  \E k \in 1..Len(before) : before[k] = lines[j] BY <2>8, <3>2, <2>4
    <3>4. QED BY <1>5, <2>1, <3>1, <3>2
  <2>9. QED BY <2>7, <2>8
<1>8. 0..n \subseteq P BY <1>6, <1>7, UpTo
<1>9. n \in 0..n BY <1>1
<1>10. QED BY <1>1, <1>3, <1>5, <1>8, <1>9

-----------------------------------------------------------------------------
(* The widths of a job *)

Widths == {d.ancilla_count : d \in Range(Described)}

\* The shots that a job describes.
DescribedShots ==
  IF job.program \in LineByLine
  THEN NotBlank(job.shots, [k \in DOMAIN job.shots |-> job.shots[k].events])
  ELSE job.shots

\* The width of such a shot is one of the widths.
LEMMA WidthOfShot ==
  ASSUME NEW k \in DOMAIN DescribedShots
  PROVE  Len(DescribedShots[k].events) \in Widths
<1>1. DOMAIN Described = DOMAIN DescribedShots BY DEF Described, DescribedShots
<1>2. Described[k].ancilla_count = Len(DescribedShots[k].events) BY DEF Described, DescribedShots
<1>3. Described[k] \in Range(Described) BY <1>1 DEF Range
<1>4. QED BY <1>2, <1>3 DEF Widths

\* The job's shots that are described: of lines, those that are not empty.
LEMMA WidthOfJobShot ==
  ASSUME job \in Jobs, NEW j \in 1..Len(job.shots),
         job.program \in LineByLine => job.shots[j].events # << >>
  PROVE  Len(job.shots[j].events) \in Widths
<1>1. job.shots \in Seq(Shots) BY WritersAssumption
<1>2. CASE job.program \in LineByLine
  <2> DEFINE texts == [k \in DOMAIN job.shots |-> job.shots[k].events]
  <2>1. DescribedShots = NotBlank(job.shots, texts) BY <1>2 DEF DescribedShots
  <2>2. texts[j] = job.shots[j].events BY <1>1, LenProperties
  <2> HIDE DEF texts
  <2>3. /\ DescribedShots \in Seq(Shots)
        /\ \E i \in 1..Len(DescribedShots) : DescribedShots[i] = job.shots[j]
    BY <1>2, <2>2, <1>1, <2>1, NotBlankHas
  <2>4. PICK i \in 1..Len(DescribedShots) : DescribedShots[i] = job.shots[j] BY <2>3
  <2>5. i \in DOMAIN DescribedShots BY <2>3, LenProperties
  <2>6. QED BY <2>4, <2>5, WidthOfShot
<1>3. CASE job.program \notin LineByLine
  BY <1>3, <1>1, LenProperties, WidthOfShot DEF DescribedShots
<1>4. QED BY <1>2, <1>3

\* The shots that are described are shots.
LEMMA DescribedType ==
  ASSUME job \in Jobs
  PROVE  /\ DescribedShots \in Seq(Shots) /\ Widths \subseteq Nat
<1>1. job.shots \in Seq(Shots) BY WritersAssumption
<1>2. PICK texts : texts = [k \in DOMAIN job.shots |-> job.shots[k].events] OBVIOUS
<1>3. NotBlank(job.shots, texts) \in Seq(Shots) BY <1>1, NotBlankHas
<1>4. DescribedShots \in Seq(Shots) BY <1>1, <1>2, <1>3 DEF DescribedShots
<1>5. ASSUME NEW k \in DOMAIN Described PROVE Described[k].ancilla_count \in Nat
  <2>1. DOMAIN Described = DOMAIN DescribedShots BY DEF Described, DescribedShots
  <2>2. Described[k].ancilla_count = Len(DescribedShots[k].events) BY DEF Described, DescribedShots
  <2>3. k \in 1..Len(DescribedShots) BY <1>4, <2>1, LenProperties
  <2>4. DescribedShots[k] \in Shots BY <1>4, <2>3, ElementOfSeq
  <2>5. DescribedShots[k].events \in Seq(BOOLEAN) BY <2>4 DEF Shots
  <2>6. QED BY <2>2, <2>5, LenProperties
<1>6. QED BY <1>4, <1>5 DEF Widths, Range

\* What Sound says of the job alone.
SoundJob ==
  /\ \A n \in Widths : n < CountModulus
  /\ job.program \in LineByLine => Cardinality(Widths) <= 1
  /\ job.program = "stim_encoder" => job.shots = << >> \/ Head(job.shots).events # << >>

\* And of the width of the lines.
LEMMA SoundIs == Sound <=> SoundJob /\ (line_width # -1 => line_width \in Widths)
BY Zenon DEF Sound, SoundJob, Widths

\* The same in the next state.
LEMMA SoundNext ==
  ASSUME job' = job
  PROVE  /\ Sound' <=> SoundJob /\ (line_width' # -1 => line_width' \in Widths)
         /\ Widths' = Widths
<1>1. Described' = Described BY ZenonT(30) DEF Described, LineByLine, Importers
<1>2. Widths' = Widths BY <1>1, Zenon DEF Widths
<1>3. Sound' <=> SoundJob' /\ (line_width' # -1 => line_width' \in Widths')
  BY Zenon DEF Sound, SoundJob, Widths
<1>4. SoundJob' <=> SoundJob BY <1>2, Zenon DEF SoundJob, LineByLine, Importers
<1>5. QED BY <1>2, <1>3, <1>4

\* The widths of a sound job fit, and those of lines are one.
LEMMA SoundWidths ==
  ASSUME job \in Jobs, SoundJob
  PROVE  /\ Widths \subseteq Nat /\ \A n \in Widths : n < CountModulus
         /\ job.program \in LineByLine => \A n \in Widths : \A m \in Widths : n = m
<1>1. /\ \A n \in Widths : n < CountModulus
      /\ job.program \in LineByLine => Cardinality(Widths) <= 1 BY Zenon DEF SoundJob
<1>2. Widths \subseteq Nat BY DescribedType
<1>3. PICK c \in Nat : c = CountModulus BY FileAssumption
<1>4. IsFiniteSet(Widths)
  <2>1. IsFiniteSet(0..c) BY FS_Interval
  <2>2. \A n \in Widths : n \in 0..c BY <1>1, <1>2, <1>3
  <2>3. Widths \in SUBSET (0..c) BY <2>2
  <2>4. QED BY <2>1, <2>3, FS_Subset
<1>5. ASSUME job.program \in LineByLine, NEW n \in Widths, NEW m \in Widths, n # m PROVE FALSE
  <2>1. IsFiniteSet({n}) /\ Cardinality({n}) = 1 BY FS_Singleton
  <2>2. Cardinality({n} \cup {m}) = 2 BY <1>5, <2>1, FS_AddElement
  <2>3. ({n} \cup {m}) \in SUBSET Widths BY <1>5
  <2>4. Cardinality({n} \cup {m}) <= Cardinality(Widths) BY <1>4, <2>3, FS_Subset
  <2>5. Cardinality(Widths) \in Nat BY <1>4, FS_CardinalityType
  <2>6. QED BY <1>1, <1>5, <2>2, <2>4, <2>5
<1>6. QED BY <1>1, <1>2, <1>5

-----------------------------------------------------------------------------
(* What a writer keeps *)

\* The bytes before the first frame.
Base == IF job.program = "record" THEN 0 ELSE FileHeaderLen

\* What the next frame is appended to.
Prefix == IF file = << >> /\ job.program # "record" THEN FileHeader ELSE file

WriterTypes ==
  /\ job \in Jobs /\ todo \in Seq(Shots) /\ obs_lines \in Seq(Optional(SUBSET Nat))
  /\ line_width \in Nat \cup {-1} /\ (job.program \notin LineByLine => line_width = -1) /\ frame_id \in Nat
  /\ phase \in {"start", "write", "done", "failed"} /\ stim \in {"well", "failed"}

\* What is still to come was in the input; of a stim that died there is at most a part of a line.
TodoOK ==
  /\ stim = "well" => \A k \in 1..Len(todo) : \E j \in 1..Len(job.shots) : todo[k] = job.shots[j]
  /\ phase = "write" /\ stim = "failed" =>
       /\ job.program \in StreamsStim /\ Len(todo) <= 1
       /\ \A k \in 1..Len(todo) : \E j \in 1..Len(job.shots) : Len(todo[k].events) <= Len(job.shots[j].events)

FileOK ==
  /\ Len(ends) = frame_id
  /\ Layout(Prefix, ends, Base)
  /\ file = << >> => ends = << >>
  /\ phase = "start" => file = << >> /\ stim = "well"
  /\ phase = "write" /\ file = << >> => job.program \in Importers \cup {"export", "record"}

\* Where the header of frame k says that it ends.
SaidEnd(bytes, es, base, k) ==
  StartAt(es, base, k) + FrameHeaderLen + ValueAt(bytes, StartAt(es, base, k)).payload_len + TerminatorLen

\* Every header says where its frame ends, or, of the last line of a stim that died, a later place.
HeadersFit ==
  \A k \in 1..Len(ends) :
    \/ SaidEnd(file, ends, Base, k) = ends[k]
    \/ /\ stim = "failed" /\ todo = << >> /\ k = Len(ends)
       /\ SaidEnd(file, ends, Base, k) > ends[k]

WriterInv == WriterTypes /\ TodoOK /\ FileOK /\ (Sound => HeadersFit)

\* What metadata says of the observables.
TruthOf(meta) == IF "observable_flips" \in meta.tags THEN <<meta.flips>> ELSE << >>

\* What a frame says besides its events: its flags and blocks are those of a shot, with this truth.
Annotated(f, events, truth) ==
  \E shot \in Shots, meta \in Metadata, annotated \in Seq(Nat) :
    /\ shot.events = events
    /\ f.hdr.flags = Flags(shot, meta, annotated)
    /\ f.blocks = Blocks(shot, meta, annotated)
    /\ truth = TruthOf(meta)

\* A frame has these events, and its header this width.
Carries(f, events, width) ==
  /\ f.crc = "header" /\ f.de = EncodeDetectorEvents(events) /\ f.meas = events
  /\ f.hdr.ancilla_count = width

\* Its header says how long it is without metadata and annotations.
Plain(f) ==
  /\ "metadata" \notin f.hdr.flags /\ "annotations" \notin f.hdr.flags
  /\ f.hdr.payload_len = PrefixLen + Len(f.de) + f.hdr.ancilla_count + TimingLen(f.hdr) + ParityLen(f.hdr)

\* Of lines, the first that is not empty comes next, or simply the first.
Comes(k) ==
  \/ k = 1 /\ (job.program \notin LineByLine \/ (job.program = "stim_encoder" /\ line_width = -1))
  \/ /\ job.program \in LineByLine /\ todo[k].events # << >>
     /\ \A i \in 1..k - 1 : todo[i].events = << >>

WidthIn(k) ==
  IF job.program \in LineByLine THEN Width(todo[k].events) ELSE Len(todo[k].events) % CountModulus

\* The truth that comes with it.
NextTruth(k) ==
  CASE job.program = "stim_obs" -> IF Flips # << >> THEN Head(Flips) ELSE << >>
    [] job.program \in {"export", "write_qssf"} -> todo[k].flips
    [] OTHER -> << >>

\* What the frame says of it.
Tells(k, f) ==
  /\ Comes(k)
  /\ Carries(f, todo[k].events, WidthIn(k)) /\ Annotated(f, todo[k].events, NextTruth(k))
  /\ job.program \in StreamsStim => Plain(f)
  /\ WidthIn(k) > Len(todo[k].events) => TooLong(f)
  /\ job.program \in LineByLine => line_width' = WidthIn(k)
  /\ job.program = "stim_obs" => obs_lines' = IF Flips # << >> THEN Tail(Flips) ELSE << >>

\* One step writes the k-th of the shots that are still to come, from f.
Puts(k, f) ==
  /\ phase = "write" /\ k \in 1..Len(todo) /\ todo' = Tail(SubSeq(todo, k, Len(todo)))
  /\ f \in FrameData /\ f.hdr.frame_id = frame_id
  /\ file' = Prefix \o BytesOf(f)
  /\ ends' = Append(ends, Len(file')) /\ frame_id' = frame_id + 1
  /\ job' = job /\ stim' = stim /\ phase' = phase
  /\ line_width' \in Nat \cup {-1} /\ (line_width # -1 => line_width' = line_width)
  /\ job.program \notin LineByLine => line_width' = -1
  /\ obs_lines' \in Seq(Optional(SUBSET Nat))
  /\ Sound' => Exactly(f) \/ (TooLong(f) /\ stim = "failed" /\ todo' = << >>)
  /\ job.program # "record" => Tells(k, f)

\* What precedes the first frame is a layout.
LEMMA EmptyLayout ==
  /\ Layout(FileHeader, << >>, FileHeaderLen) /\ Layout(<< >>, << >>, 0)
  /\ FileHeader # << >> /\ Len(FileHeader) = FileHeaderLen
<1>1. PICK n \in Nat \ {0} : n = FileHeaderLen BY Lengths
<1>2. PICK h \in Seq(Cell) : h = FileHeader /\ Len(h) = n /\ \A i \in 1..n : h[i] = <<"file_header", i, 0>>
  <2>1. \A i \in 1..n : <<"file_header", i, 0>> \in Cell BY DEF Cell
  <2>2. Field("file_header", 0, n) \in Seq(Cell) /\ IsField(Field("file_header", 0, n), "file_header", 0, n)
    BY <2>1, FieldIs
  <2>3. QED BY <1>1, <2>2, Zenon DEF FileHeader, IsField
<1>3. << >> \in Seq(Nat) /\ Len(<< >>) = 0 /\ << >> \in Seq(Cell) OBVIOUS
<1>4. StartAt(<< >>, n, Len(<< >>) + 1) = n /\ StartAt(<< >>, 0, Len(<< >>) + 1) = 0
  BY <1>3 DEF StartAt
<1>5. Ascend(<< >>, n) /\ Ascend(<< >>, 0) BY <1>3 DEF Ascend
<1>6. Layout(h, << >>, n) BY <1>2, <1>3, <1>4, <1>5 DEF Layout
<1>7. Layout(<< >>, << >>, 0) BY <1>3, <1>4, <1>5 DEF Layout
<1>8. h # << >> BY <1>2
<1>9. QED BY <1>1, <1>2, <1>6, <1>7, <1>8, Zenon

\* The header of a frame says where it ends.
LEMMA SaidEndIs ==
  ASSUME NEW bytes, NEW es, NEW base, Layout(bytes, es, base), NEW k \in 1..Len(es), NEW f,
         IsFrame(bytes, es, base, k, f)
  PROVE  /\ Exactly(f) => SaidEnd(bytes, es, base, k) = es[k]
         /\ TooLong(f) => SaidEnd(bytes, es, base, k) > es[k]
         /\ FrameAt(bytes, StartAt(es, base, k), f)
         /\ Readable(bytes, StartAt(es, base, k), f)
         /\ f \in FrameData /\ f.hdr.payload_len \in Nat
         /\ SaidEnd(bytes, es, base, k) \in Nat
<1>1. /\ bytes \in Seq(Cell) /\ es \in Seq(Nat) /\ base \in Nat /\ Ascend(es, base)
      /\ Len(bytes) = StartAt(es, base, Len(es) + 1) BY Zenon DEF Layout
<1>2. f \in FrameData /\ LengthOf(f) \in Nat /\ f.hdr \in Header BY FrameTypes DEF IsFrame
<1>3. f.hdr.payload_len \in Nat BY <1>2 DEF Header
<1>4. PICK n \in Nat, m \in Nat, len \in Nat, s \in Nat, a \in Nat, t \in Nat, p \in Nat :
        /\ n = Len(es) /\ m = Len(bytes) /\ len = LengthOf(f) /\ s = StartAt(es, base, k)
        /\ a = FrameHeaderLen /\ t = TerminatorLen /\ p = f.hdr.payload_len
  <2>1. k \in 1..Len(es) + 1 BY <1>1, LenProperties
  <2>2. StartAt(es, base, k) \in Nat BY <1>1, <2>1, Starts
  <2>3. Len(es) \in Nat /\ Len(bytes) \in Nat BY <1>1, LenProperties
  <2>4. QED BY <1>2, <1>3, <2>2, <2>3, Lengths
<1>5. es[k] = s + len /\ \A i \in 1..len : bytes[s + i] = BytesOf(f)[i] BY <1>4, Zenon DEF IsFrame
<1>6. es[k] <= m
  <2>1. k \in 1..n /\ n \in 1..n /\ n + 1 # 1 /\ (n + 1) - 1 = n BY <1>4
  <2>2. m = es[n] BY <1>1, <1>4, <2>1, Zenon DEF StartAt
  <2>3. es[k] <= es[n]
    <3>1. k <= n BY <2>1
    <3>2. n \in 1..Len(es) BY <1>4, <2>1
    <3>3. QED BY <1>1, <3>1, <3>2, LaterEnds
  <2>4. QED BY <2>2, <2>3
<1>7. FrameAt(bytes, s, f) BY <1>5, <1>6, <1>4 DEF FrameAt
<1>8. Readable(bytes, s, f) BY <1>4, <1>2, <1>7, FrameIsReadable
<1>9. ValueAt(bytes, s) = f.hdr BY <1>8, Zenon DEF Readable
<1>10. SaidEnd(bytes, es, base, k) = s + a + p + t BY <1>4, <1>9, Zenon DEF SaidEnd
<1>11. Exactly(f) => a + p + t = len BY <1>4, Zenon DEF Exactly
<1>12. TooLong(f) => a + p + t > len BY <1>4, Zenon DEF TooLong
<1>13. Exactly(f) => s + a + p + t = s + len BY <1>11
<1>14. TooLong(f) => s + a + p + t > s + len BY <1>12
<1>15. s + a + p + t \in Nat OBVIOUS
<1>16. QED BY <1>2, <1>3, <1>4, <1>5, <1>7, <1>8, <1>10, <1>13, <1>14, <1>15, Zenon

\* A frame more in the file.
LEMMA FileGrows ==
  ASSUME WriterInv, NEW k, NEW f, Puts(k, f)
  PROVE  /\ FileOK' /\ Base' = Base
         /\ Layout(file', ends', Base) /\ Len(ends') = Len(ends) + 1 /\ Len(ends) \in Nat
         /\ \A i \in 1..Len(ends) : ends'[i] = ends[i]
         /\ \A i \in 1..Len(Prefix) : file'[i] = Prefix[i]
         /\ IsFrame(file', ends', Base, Len(ends) + 1, f)
<1>1. /\ Layout(Prefix, ends, Base) /\ Len(ends) = frame_id /\ frame_id \in Nat
  BY Zenon DEF WriterInv, FileOK, WriterTypes
<1>2. /\ f \in FrameData /\ file' = Prefix \o BytesOf(f) /\ ends' = Append(ends, Len(file'))
      /\ frame_id' = frame_id + 1 /\ job' = job /\ phase' = phase /\ phase = "write"
  BY Zenon DEF Puts
<1>3. /\ Layout(file', ends', Base)
      /\ Len(ends') = Len(ends) + 1 /\ Len(file') = Len(Prefix) + LengthOf(f)
      /\ \A i \in 1..Len(ends) : ends'[i] = ends[i]
      /\ \A i \in 1..Len(Prefix) : file'[i] = Prefix[i]
      /\ IsFrame(file', ends', Base, Len(ends) + 1, f)
  <2>1. PICK more, es2 : more = file' /\ es2 = ends' OBVIOUS
  <2>2. more = Prefix \o BytesOf(f) /\ es2 = Append(ends, Len(more)) BY <1>2, <2>1, Zenon
  <2>3. Grown(Prefix, ends, Base, f, more, es2) BY <1>1, <1>2, <2>2, LayoutGrows
  <2>4. QED BY <2>1, <2>3, Zenon DEF Grown
<1>4. file' # << >>
  <2>1. PICK m \in Nat, len \in Nat : m = Len(Prefix) /\ len = LengthOf(f)
    BY <1>1, <1>2, FrameTypes, LenProperties DEF Layout
  <2>2. PICK a \in Nat, p \in Nat \ {0} : a = TerminatorOf(f) /\ p = TerminatorLen /\ len = a + p
    BY <1>2, <2>1, FrameTypes, Lengths, Zenon DEF LengthOf
  <2>3. Len(file') = m + (a + p) BY <1>3, <2>1, <2>2, Zenon
  <2>4. Len(file') # 0 BY <2>3
  <2>5. QED BY <2>4
<1>5. Base' = Base BY <1>2, Zenon DEF Base
<1>6. Prefix' = file' BY <1>4, Zenon DEF Prefix
<1>7. FileOK'
  <2>1. Len(ends)' = frame_id' BY <1>1, <1>2, <1>3
  <2>2. Layout(Prefix, ends, Base)' BY <1>3, <1>5, <1>6
  <2>3. phase' # "start" BY <1>2
  <2>4. QED BY <1>4, <2>1, <2>2, <2>3, Zenon DEF FileOK
<1>8. QED BY <1>1, <1>3, <1>5, <1>7

\* What is still to come when one shot was written.
LEMMA TodoLeft ==
  ASSUME WriterInv, NEW k, NEW f, Puts(k, f)
  PROVE  TodoOK' /\ todo' \in Seq(Shots)
<1>1. /\ todo \in Seq(Shots) /\ TodoOK BY Zenon DEF WriterInv, WriterTypes
<1>2. /\ k \in 1..Len(todo) /\ todo' = Tail(SubSeq(todo, k, Len(todo))) /\ job' = job /\ stim' = stim
      /\ phase' = phase BY Zenon DEF Puts
<1>3. PICK n \in Nat, m \in Nat : n = Len(todo) /\ m = Len(job.shots)
  BY <1>1, WritersAssumption, LenProperties DEF WriterInv, WriterTypes
<1>4. todo' \in Seq(Shots) /\ Len(todo') = n - k /\ \A i \in 1..n - k : todo'[i] = todo[k + i]
  <2>1. PICK rest : rest = SubSeq(todo, k, Len(todo)) OBVIOUS
  <2>2. Onward(Shots, todo, k, rest) BY <1>1, <1>2, <2>1, FromOneOn
  <2>3. QED BY <1>2, <1>3, <2>1, <2>2, Zenon DEF Onward
<1>5. k \in 1..n BY <1>2, <1>3
<1>6. stim = "well" => \A i \in 1..n : \E j \in 1..m : todo[i] = job.shots[j]
  BY <1>1, <1>3, Zenon DEF TodoOK
<1>7. phase = "write" /\ stim = "failed" =>
        /\ job.program \in StreamsStim /\ n <= 1
        /\ \A i \in 1..n : \E j \in 1..m : Len(todo[i].events) <= Len(job.shots[j].events)
  BY <1>1, <1>3, Zenon DEF TodoOK
<1>8. \A i \in 1..n - k : k + i \in 1..n BY <1>5
<1>9. stim = "well" => \A i \in 1..n - k : \E j \in 1..m : todo'[i] = job.shots[j]
  BY <1>4, <1>6, <1>8, SMTT(30)
<1>10. phase = "write" /\ stim = "failed" =>
        /\ job.program \in StreamsStim /\ n - k <= 1
        /\ \A i \in 1..n - k : \E j \in 1..m : Len(todo'[i].events) <= Len(job.shots[j].events)
  <2>1. ASSUME phase = "write", stim = "failed" PROVE job.program \in StreamsStim /\ n - k <= 1
    BY <1>5, <1>7, <2>1
  <2>2. ASSUME phase = "write", stim = "failed", NEW i \in 1..n - k
        PROVE  \E j \in 1..m : Len(todo'[i].events) <= Len(job.shots[j].events)
    <3>1. PICK j \in 1..m : Len(todo[k + i].events) <= Len(job.shots[j].events) BY <1>7, <1>8, <2>2
    <3>2. Len(todo'[i].events) <= Len(job.shots[j].events) BY <1>4, <3>1, Zenon
    <3>3. QED BY <3>2
  <2>3. QED BY <2>1, <2>2
<1>11. TodoOK'
  <2>1. Len(todo') = n - k /\ job' = job /\ Len(job.shots) = m
    <3>1. Len(todo') = n - k BY <1>4, Zenon
    <3>2. job' = job BY <1>2, Zenon
    <3>3. Len(job.shots) = m BY <1>3, Zenon
    <3>4. QED BY <3>1, <3>2, <3>3
  <2>2. QED
    <3>1. ASSUME stim' = "well", NEW i \in 1..Len(todo')
          PROVE  \E j \in 1..Len(job'.shots) : todo'[i] = job'.shots[j]
      <4>1. stim = "well" /\ i \in 1..n - k BY <1>2, <2>1, <3>1, Zenon
      <4>2. PICK j \in 1..m : todo'[i] = job.shots[j] BY <1>9, <4>1, Zenon
      <4>3. j \in 1..Len(job'.shots) /\ todo'[i] = job'.shots[j] BY <2>1, <4>2, Zenon
      <4>4. QED BY <4>3, Zenon
    <3>2. ASSUME phase' = "write", stim' = "failed"
          PROVE  job'.program \in StreamsStim /\ Len(todo') <= 1 BY <1>2, <1>10, <2>1, <3>2, Zenon
    <3>3. ASSUME phase' = "write", stim' = "failed", NEW i \in 1..Len(todo')
          PROVE  \E j \in 1..Len(job'.shots) : Len(todo'[i].events) <= Len(job'.shots[j].events)
      <4>1. phase = "write" /\ stim = "failed" /\ i \in 1..n - k BY <1>2, <2>1, <3>3, Zenon
      <4>2. PICK j \in 1..m : Len(todo'[i].events) <= Len(job.shots[j].events) BY <1>10, <4>1, Zenon
      <4>3. j \in 1..Len(job'.shots) /\ Len(todo'[i].events) <= Len(job'.shots[j].events)
        BY <2>1, <4>2, Zenon
      <4>4. QED BY <4>3, Zenon
    <3>4. QED BY <3>1, <3>2, <3>3, Zenon DEF TodoOK, StreamsStim
<1>12. QED BY <1>4, <1>11

\* Where the earlier frames say that they end does not change.
LEMMA SaidEndKept ==
  ASSUME NEW bytes, NEW es, NEW base, Layout(bytes, es, base), NEW more, NEW es2,
         \A i \in 1..Len(es) : es2[i] = es[i], \A i \in 1..Len(bytes) : more[i] = bytes[i],
         NEW k \in 1..Len(es)
  PROVE  SaidEnd(more, es2, base, k) = SaidEnd(bytes, es, base, k) /\ es2[k] = es[k]
<1>1. /\ bytes \in Seq(Cell) /\ es \in Seq(Nat) /\ base \in Nat /\ Ascend(es, base)
      /\ \E f : IsFrame(bytes, es, base, k, f) BY Zenon DEF Layout
<1>2. PICK f : IsFrame(bytes, es, base, k, f) BY <1>1
<1>3. /\ FrameAt(bytes, StartAt(es, base, k), f) /\ f \in FrameData BY <1>2, SaidEndIs
<1>4. PICK s \in Nat, m \in Nat, len \in Nat, n \in Nat :
        s = StartAt(es, base, k) /\ m = Len(bytes) /\ len = LengthOf(f) /\ n = Len(es)
  <2>1. k \in 1..Len(es) + 1 BY <1>1, LenProperties
  <2>2. StartAt(es, base, k) \in Nat BY <1>1, <2>1, Starts
  <2>3. Len(bytes) \in Nat /\ LengthOf(f) \in Nat /\ Len(es) \in Nat
    BY <1>1, <1>3, LenProperties, FrameTypes
  <2>4. QED BY <2>2, <2>3
<1>5. s + 1 \in 1..m
  <2>1. s + len <= m BY <1>3, <1>4, Zenon DEF FrameAt
  <2>2. PICK a \in Nat, p \in Nat \ {0} : a = TerminatorOf(f) /\ p = TerminatorLen /\ len = a + p
    BY <1>3, <1>4, FrameTypes, Lengths, Zenon DEF LengthOf
  <2>3. QED BY <2>1, <2>2
<1>6. StartAt(es2, base, k) = s
  <2>1. CASE k = 1 BY <1>4, <2>1 DEF StartAt
  <2>2. CASE k # 1 BY <1>4, <2>2 DEF StartAt
  <2>3. QED BY <2>1, <2>2
<1>7. ValueAt(more, s) = ValueAt(bytes, s) BY <1>4, <1>5, Zenon DEF ValueAt
<1>8. QED BY <1>4, <1>6, <1>7, Zenon DEF SaidEnd

\* Every step that writes a frame keeps what a writer keeps.
LEMMA PutKeeps ==
  ASSUME WriterInv, NEW k, NEW f, Puts(k, f)
  PROVE  WriterInv'
<1>1. FileOK' /\ TodoOK' /\ todo' \in Seq(Shots) BY FileGrows, TodoLeft
<1>2. WriterTypes'
  <2>1. WriterTypes BY DEF WriterInv
  <2>2. /\ job' = job /\ stim' = stim /\ phase' = phase /\ frame_id' = frame_id + 1
        /\ line_width' \in Nat \cup {-1} /\ obs_lines' \in Seq(Optional(SUBSET Nat))
        /\ job.program \notin LineByLine => line_width' = -1 BY Zenon DEF Puts
  <2>3. frame_id' \in Nat BY <2>1, <2>2 DEF WriterTypes
  <2>4. QED BY <1>1, <2>1, <2>2, <2>3, Zenon DEF WriterTypes, LineByLine, Importers
<1>3. ASSUME Sound' PROVE HeadersFit'
  <2>1. Sound BY <1>3, SoundNext, SoundIs DEF Puts
  <2>2. HeadersFit /\ Layout(Prefix, ends, Base) BY <2>1, Zenon DEF WriterInv, FileOK
  <2>3. /\ Base' = Base
        /\ Layout(file', ends', Base) /\ Len(ends') = Len(ends) + 1 /\ Len(ends) \in Nat
        /\ \A i \in 1..Len(ends) : ends'[i] = ends[i]
        /\ \A i \in 1..Len(Prefix) : file'[i] = Prefix[i]
        /\ IsFrame(file', ends', Base, Len(ends) + 1, f) BY FileGrows
  <2>4. PICK n \in Nat : n = Len(ends) BY <2>3
  <2>5. n + 1 \in 1..Len(ends') BY <2>3, <2>4
  <2>6. /\ Exactly(f) => SaidEnd(file', ends', Base, n + 1) = ends'[n + 1]
        /\ TooLong(f) => SaidEnd(file', ends', Base, n + 1) > ends'[n + 1]
    BY <2>3, <2>4, <2>5, SaidEndIs
  <2>7. Exactly(f) \/ (TooLong(f) /\ stim = "failed" /\ todo' = << >>) BY <1>3, Zenon DEF Puts
  <2>8. stim' = stim BY Zenon DEF Puts
  <2>9. n > 0 => file = Prefix
    <3>1. ASSUME file = << >> PROVE n = 0 BY <3>1, <2>4 DEF WriterInv, FileOK
    <3>2. n > 0 => file # << >> BY <3>1
    <3>3. QED BY <3>2, Zenon DEF Prefix
  <2>10. todo # << >> BY DEF Puts
  <2>11. ASSUME NEW i \in 1..n PROVE SaidEnd(file', ends', Base, i) = ends'[i]
    <3>1. i \in 1..Len(ends) BY <2>4
    <3>2. SaidEnd(file, ends, Base, i) = ends[i] BY <2>2, <2>10, <3>1, Zenon DEF HeadersFit
    <3>3. file = Prefix BY <2>9, <2>11
    <3>4. SaidEnd(file', ends', Base, i) = SaidEnd(Prefix, ends, Base, i) /\ ends'[i] = ends[i]
      BY <2>2, <2>3, <3>1, SaidEndKept
    <3>5. QED BY <3>2, <3>3, <3>4
  <2>12. ASSUME NEW i \in 1..n + 1
         PROVE  \/ SaidEnd(file', ends', Base', i) = ends'[i]
                \/ /\ stim' = "failed" /\ todo' = << >> /\ i = n + 1
                   /\ SaidEnd(file', ends', Base', i) > ends'[i]
    <3>1. CASE i = n + 1 BY <2>3, <2>6, <2>7, <2>8, <3>1
    <3>2. CASE i # n + 1 BY <3>2, <2>3, <2>11
    <3>3. QED BY <3>1, <3>2
  <2>13. Len(ends)' = n + 1 BY <2>3, <2>4
  <2>14. QED BY <2>12, <2>13, Zenon DEF HeadersFit
<1>4. QED BY <1>1, <1>2, <1>3, Zenon DEF WriterInv

-----------------------------------------------------------------------------
(* What the writers' frames say *)

\* An optional value is none, or one.
LEMMA OptionalIs ==
  ASSUME NEW S, NEW s \in Optional(S)
  PROVE  s \in Seq(S) /\ (s # << >> => s[1] \in S /\ s = <<s[1]>>)
<1>1. s \in Seq(S) /\ Len(s) <= 1 BY DEF Optional
<1>2. ASSUME s # << >> PROVE s[1] \in S /\ s = <<s[1]>>
  <2>1. Len(s) \in Nat \ {0} BY <1>1, <1>2, EmptySeq
  <2>2. Len(s) = 1 /\ 1 \in 1..Len(s)
    <3>1. PICK l \in Nat \ {0} : l = Len(s) BY <2>1
    <3>2. l <= 1 BY <1>1, <3>1, Zenon
    <3>3. l = 1 /\ 1 \in 1..l BY <3>2
    <3>4. QED BY <3>1, <3>3, Zenon
  <2>3. PICK x \in S : x = s[1] BY <1>1, <2>2, ElementOfSeq
  <2>4. PICK one \in Seq(S) : one = <<x>> /\ Len(one) = 1 /\ one[1] = x
    <3>1. <<x>> \in Seq(S) /\ Len(<<x>>) = 1 /\ <<x>>[1] = x OBVIOUS
    <3>2. QED BY <3>1
  <2>5. \A i \in 1..Len(s) : s[i] = one[i] BY <2>2, <2>3, <2>4
  <2>6. s = one BY <1>1, <2>2, <2>4, <2>5, SeqEqual
  <2>7. QED BY <2>3, <2>4, <2>6
<1>3. QED BY <1>1, <1>2

\* A missing value is one.
LEMMA NoneIsOptional ==
  ASSUME NEW S
  PROVE  << >> \in Optional(S)
<1>1. << >> \in Seq(S) /\ Len(<< >>) = 0 OBVIOUS
<1>2. QED BY <1>1 DEF Optional

\* The metadata of a truth says that truth.
LEMMA FlipsOnlySays ==
  ASSUME NEW flips \in Optional(SUBSET Nat)
  PROVE  TruthOf(FlipsOnly(flips)) = flips
<1>1. CASE flips = << >> BY <1>1 DEF FlipsOnly, NoMetadata, TruthOf
<1>2. CASE flips # << >>
  <2>1. PICK x : x = flips[1] /\ flips = <<x>>
    <3>1. PICK T : T = SUBSET Nat OBVIOUS
    <3>2. flips \in Optional(T) BY <3>1
    <3>3. flips = <<flips[1]>> BY <1>2, <3>2, OptionalIs
    <3>4. QED BY <3>3
  <2>2. FlipsOnly(flips) = [tags |-> {"observable_flips"}, flips |-> x] BY <1>2, <2>1 DEF FlipsOnly
  <2>3. QED BY <2>1, <2>2 DEF TruthOf
<1>3. QED BY <1>1, <1>2

\* The flags and blocks of an exported frame.
LEMMA ExportAnnotated ==
  ASSUME NEW shot \in Shots, NEW meta \in Metadata, NEW annotated \in Seq(Nat), NEW id, NEW width, NEW crc,
         NEW f, f = ExportData(shot, meta, annotated, id, width, crc)
  PROVE  Annotated(f, shot.events, TruthOf(meta))
<1>1. f.hdr.flags = Flags(shot, meta, annotated) /\ f.blocks = Blocks(shot, meta, annotated)
  BY DEF ExportData
<1>2. QED BY <1>1, Zenon DEF Annotated

\* Those of a frame that has none.
LEMMA EncodeAnnotated ==
  ASSUME NEW events \in Seq(BOOLEAN), NEW id, NEW width, NEW f, f = EncodeData(events, id, width)
  PROVE  Annotated(f, events, << >>)
<1>1. f.hdr.flags = {} /\ f.blocks = << >> BY DEF EncodeData
<1>2. PICK shot : shot = [events |-> events, flips |-> << >>, tags |-> {}, timing |-> FALSE, parity |-> FALSE,
                          annotations |-> << >>] OBVIOUS
<1>3. shot.events = events /\ shot.timing = FALSE /\ shot.parity = FALSE BY <1>2
<1>4. shot \in Shots
  <2>1. PICK Q : Q = Optional(SUBSET Nat) /\ << >> \in Q BY NoneIsOptional
  <2>2. PICK R : R = Optional(Nat) /\ << >> \in R BY NoneIsOptional
  <2>3. shot \in [events : Seq(BOOLEAN), flips : Q, tags : SUBSET Range(TagOrder), timing : BOOLEAN,
                  parity : BOOLEAN, annotations : R] BY <1>2, <2>1, <2>2
  <2>4. QED BY <2>1, <2>2, <2>3, Zenon DEF Shots
<1>5. NoMetadata \in Metadata /\ TruthOf(NoMetadata) = << >> BY DEF NoMetadata, Metadata, TruthOf
<1>6. Flags(shot, NoMetadata, << >>) = {} BY <1>3 DEF Flags
<1>7. Blocks(shot, NoMetadata, << >>) = << >> BY <1>3 DEF Blocks
<1>8. PICK none \in Seq(Nat) : none = << >>
  <2>1. << >> \in Seq(Nat) OBVIOUS
  <2>2. QED BY <2>1
<1>9. /\ shot.events = events /\ f.hdr.flags = Flags(shot, NoMetadata, none)
      /\ f.blocks = Blocks(shot, NoMetadata, none) BY <1>1, <1>3, <1>6, <1>7, <1>8, Zenon
<1>10. QED BY <1>4, <1>5, <1>9, Zenon DEF Annotated

\* What an exporter's frame says, whatever its header says.
Told(f, events, width, truth) ==
  /\ Carries(f, events, width) /\ Annotated(f, events, truth)
  /\ width > Len(events) => TooLong(f)

\* Without metadata and annotations it says its length by its width.
LEMMA ExportTells ==
  ASSUME NEW shot \in Shots, NEW meta \in Metadata, NEW annotated \in Seq(Nat), NEW id \in Nat, NEW width \in Nat,
         NEW f, f = ExportData(shot, meta, annotated, id, width, "header")
  PROVE  /\ Told(f, shot.events, width, TruthOf(meta))
         /\ meta = NoMetadata /\ annotated = << >> => Plain(f)
<1>1. "header" \in {"header", "whole"} OBVIOUS
<1>2. width > Len(shot.events) => TooLong(f) BY <1>1, ExportedData
<1>3. Annotated(f, shot.events, TruthOf(meta)) BY ExportAnnotated
<1>4. Carries(f, shot.events, width) BY DEF ExportData, Carries
<1>5. ASSUME meta = NoMetadata, annotated = << >> PROVE Plain(f)
  <2>1. PICK hdr : hdr = [frame_id |-> id, ancilla_count |-> width, payload_len |-> 0,
                          flags |-> Flags(shot, meta, annotated)] OBVIOUS
  <2>2. PICK de : de = EncodeDetectorEvents(shot.events) OBVIOUS
  <2>3. PICK len : len = ExportedLen(hdr, de, meta, annotated) OBVIOUS
  <2>4. f.de = de /\ f.hdr = [hdr EXCEPT !.payload_len = len] BY <2>1, <2>2, <2>3 DEF ExportData
  <2>5. f.hdr.ancilla_count = hdr.ancilla_count /\ f.hdr.flags = hdr.flags /\ f.hdr.payload_len = len
    BY <2>1, <2>4
  <2>6. TimingLen(f.hdr) = TimingLen(hdr) /\ ParityLen(f.hdr) = ParityLen(hdr)
    BY <2>5, Zenon DEF TimingLen, ParityLen
  <2>7. len = PrefixLen + Len(de) + hdr.ancilla_count + TimingLen(hdr) + ParityLen(hdr) + 0 + 0
    BY <1>5, <2>3, Zenon DEF ExportedLen
  <2>8. "metadata" \notin f.hdr.flags /\ "annotations" \notin f.hdr.flags
    <3>1. hdr.flags = Flags(shot, meta, annotated) BY <2>1
    <3>2. "metadata" \notin Flags(shot, meta, annotated) /\ "annotations" \notin Flags(shot, meta, annotated)
      BY <1>5 DEF Flags
    <3>3. QED BY <2>5, <3>1, <3>2
  <2>9. PICK a \in Nat, l \in Nat, t \in Nat, p \in Nat :
          a = PrefixLen /\ l = Len(de) /\ t = TimingLen(hdr) /\ p = ParityLen(hdr)
    <3>1. hdr.ancilla_count = width BY <2>1
    <3>2. PICK t \in Nat : t = TimingLen(hdr) BY <3>1 DEF TimingLen
    <3>3. PICK p \in Nat : p = ParityLen(hdr) BY <3>1 DEF ParityLen
    <3>4. Len(de) \in Nat BY <2>2, EncodeType, LenProperties DEF Shots
    <3>5. QED BY <3>2, <3>3, <3>4, Lengths
  <2>10. a + l + width + t + p + 0 + 0 = a + l + width + t + p OBVIOUS
  <2>11. hdr.ancilla_count = width BY <2>1
  <2>12. f.hdr.payload_len = PrefixLen + Len(f.de) + f.hdr.ancilla_count + TimingLen(f.hdr) + ParityLen(f.hdr)
    BY <2>4, <2>5, <2>6, <2>7, <2>9, <2>10, <2>11, Zenon
  <2>13. QED BY <2>8, <2>12, Zenon DEF Plain
<1>6. QED BY <1>2, <1>3, <1>4, <1>5, Zenon DEF Told

\* So does an encoder's.
LEMMA EncodeTells ==
  ASSUME NEW events \in Seq(BOOLEAN), NEW id \in Nat, NEW width \in Nat, NEW f, f = EncodeData(events, id, width)
  PROVE  Told(f, events, width, << >>) /\ Plain(f)
<1>1. width > Len(events) => TooLong(f) BY EncodedData
<1>2. Annotated(f, events, << >>) BY EncodeAnnotated
<1>3. Carries(f, events, width) BY DEF EncodeData, Carries
<1>4. /\ f.hdr.payload_len = PrefixLen + Len(f.de) + width /\ f.hdr.flags = {} /\ f.hdr.ancilla_count = width
      /\ f.de = EncodeDetectorEvents(events) BY DEF EncodeData
<1>5. PICK a \in Nat, l \in Nat : a = PrefixLen /\ l = Len(f.de)
  BY <1>4, EncodeType, Lengths, LenProperties
<1>6. TimingLen(f.hdr) = 0 /\ ParityLen(f.hdr) = 0 BY <1>4 DEF TimingLen, ParityLen
<1>7. a + l + width = a + l + width + 0 + 0 OBVIOUS
<1>8. Plain(f) BY <1>4, <1>5, <1>6, <1>7 DEF Plain
<1>9. QED BY <1>1, <1>2, <1>3, <1>8, Zenon DEF Told

-----------------------------------------------------------------------------
(* The steps of a writer *)

\* What a program appends for a frame, with the file header or without.
Continues(f) ==
  /\ job.program \in Importers \cup {"export"} =>
       file \o (HeaderOnce \o BytesOf(f)) = Prefix \o BytesOf(f)
  /\ job.program \notin Importers \cup {"export"} => file \o BytesOf(f) = Prefix \o BytesOf(f)

\* With or without the file header, a frame goes behind what precedes it.
LEMMA PrefixFor ==
  ASSUME WriterInv, phase = "write", NEW f \in FrameData
  PROVE  Continues(f)
<1>1. /\ Layout(Prefix, ends, Base)
      /\ phase = "write" /\ file = << >> => job.program \in Importers \cup {"export", "record"}
  BY Zenon DEF WriterInv, FileOK
<1>2. PICK b \in Seq(Cell) : b = BytesOf(f) BY FrameIsLaidOut DEF LaidOut
<1>3. PICK h \in Seq(Cell) : h = FileHeader BY EmptyLayout, Zenon DEF Layout
<1>5. CASE file = << >>
  <2>1. HeaderOnce = h BY <1>3, <1>5 DEF HeaderOnce
  <2>2. h \o b \in Seq(Cell) BY ConcatProperties
  <2>3. << >> \o (h \o b) = h \o b BY <2>2, ConcatEmptySeq
  <2>4. job.program # "record" => Prefix = h BY <1>3, <1>5, Zenon DEF Prefix
  <2>5. job.program \in Importers \cup {"export"} => job.program # "record" BY DEF Importers
  <2>6. job.program \notin Importers \cup {"export"} => job.program = "record" BY <1>1, <1>5
  <2>7. job.program = "record" => Prefix = file BY Zenon DEF Prefix
  <2>8. QED BY <1>2, <1>5, <2>1, <2>3, <2>4, <2>5, <2>6, <2>7, Zenon DEF Continues
<1>6. CASE file # << >>
  <2>1. HeaderOnce = << >> BY <1>6 DEF HeaderOnce
  <2>2. << >> \o b = b BY ConcatEmptySeq
  <2>3. Prefix = file BY <1>6, Zenon DEF Prefix
  <2>4. QED BY <1>2, <2>1, <2>2, <2>3, Zenon DEF Continues
<1>7. QED BY <1>5, <1>6

\* The lines that a program reads begin at one of those still to come.
LEMMA LinesAre ==
  ASSUME WriterInv, job.program \in LineByLine, Lines # << >>
  PROVE  \E k \in 1..Len(todo) :
           Lines = SubSeq(todo, k, Len(todo)) /\ (line_width = -1 \/ todo[k].events # << >>) /\ Comes(k)
<1>1. todo \in Seq(Shots) BY Zenon DEF WriterInv, WriterTypes
<1>2. CASE job.program = "stim_encoder" /\ line_width = -1
  <2>1. Lines = todo BY <1>2, Zenon DEF Lines
  <2>2. Len(todo) \in Nat \ {0} BY <1>1, <2>1, EmptySeq
  <2>3. SubSeq(todo, 1, Len(todo)) = todo BY <1>1, SubSeqFull
  <2>4. 1 \in 1..Len(todo) BY <2>2
  <2>5. Comes(1) BY <1>2, Zenon DEF Comes
  <2>6. QED BY <1>2, <2>1, <2>3, <2>4, <2>5
<1>3. CASE ~ (job.program = "stim_encoder" /\ line_width = -1)
  <2>1. PICK texts : texts = [k \in DOMAIN todo |-> todo[k].events] OBVIOUS
  <2>2. Lines = SkipBlank(todo, texts) BY <1>3, <2>1, Zenon DEF Lines
  <2>3. DOMAIN todo = 1..Len(todo) /\ Len(todo) \in Nat BY <1>1, LenProperties
  <2>4. Len(texts) = Len(todo)
    <3>1. texts \in [1..Len(todo) -> {todo[k].events : k \in 1..Len(todo)}] BY <2>1, <2>3
    <3>2. texts \in Seq({todo[k].events : k \in 1..Len(todo)}) BY <2>3, <3>1, SeqDef
    <3>3. DOMAIN texts = 1..Len(texts) /\ Len(texts) \in Nat BY <3>2, LenProperties
    <3>4. DOMAIN texts = 1..Len(todo) BY <2>1, <2>3
    <3>5. PICK a \in Nat, b \in Nat : a = Len(texts) /\ b = Len(todo) /\ 1..a = 1..b
      BY <2>3, <3>3, <3>4
    <3>6. a = b BY <3>5
    <3>7. QED BY <3>5, <3>6
  <2>5. PICK k \in 1..Len(todo) :
          /\ texts[k] # << >> /\ \A i \in 1..k - 1 : texts[i] = << >>
          /\ SkipBlank(todo, texts) = SubSeq(todo, k, Len(todo)) BY <1>1, <2>4, <2>2, Skipped
  <2>6. texts[k] = todo[k].events /\ \A i \in 1..k - 1 : texts[i] = todo[i].events BY <2>3, <2>1
  <2>7. Comes(k) BY <2>5, <2>6, Zenon DEF Comes
  <2>8. QED BY <2>2, <2>5, <2>6, <2>7, Zenon
<1>4. QED BY <1>2, <1>3

\* The truth of a line is a sequence of at most one set of observables, with those behind it.
LEMMA FlipsAre ==
  ASSUME WriterInv, NEW flips, flips = (IF job.program = "stim_obs" /\ Flips # << >> THEN Head(Flips) ELSE << >>),
         NEW left, left = (IF job.program = "stim_obs" /\ Flips # << >> THEN Tail(Flips) ELSE << >>)
  PROVE  flips \in Optional(SUBSET Nat) /\ left \in Seq(Optional(SUBSET Nat))
<1>1. PICK S : S = Optional(SUBSET Nat) OBVIOUS
<1>2. obs_lines \in Seq(S) BY <1>1, Zenon DEF WriterInv, WriterTypes
<1>3. << >> \in S /\ << >> \in Seq(S) BY <1>1, NoneIsOptional
<1>4. CASE job.program = "stim_obs" /\ Flips # << >>
  <2>1. PICK k \in 1..Len(obs_lines) : Flips = SubSeq(obs_lines, k, Len(obs_lines))
    BY <1>2, <1>4, Skipped DEF Flips
  <2>2. Onward(S, obs_lines, k, Flips) BY <1>2, <2>1, FromOneOn
  <2>3. Head(Flips) \in S /\ Tail(Flips) \in Seq(S) BY <2>2, Zenon DEF Onward
  <2>4. QED BY <1>1, <1>4, <2>3, Zenon
<1>5. CASE ~ (job.program = "stim_obs" /\ Flips # << >>) BY <1>1, <1>3, <1>5, Zenon
<1>6. QED BY <1>4, <1>5

\* The metadata of the truth is metadata.
LEMMA FlipsOnlyType ==
  ASSUME NEW flips \in Optional(SUBSET Nat)
  PROVE  FlipsOnly(flips) \in Metadata
<1>1. Range(TagOrder) = {"hardware_id", "temperature_mk", "cycle_us", "decoder_hint", "observable_flips"}
  BY DEF Range, TagOrder
<1>2. CASE flips = << >> BY <1>2 DEF NoMetadata, Metadata, FlipsOnly
<1>3. CASE flips # << >>
  <2>3. PICK set \in SUBSET Nat : set = flips[1]
    <3>1. PICK T : T = SUBSET Nat /\ flips \in Optional(T) OBVIOUS
    <3>2. flips[1] \in T BY <1>3, <3>1, OptionalIs
    <3>3. QED BY <3>1, <3>2
  <2>4. [tags |-> {"observable_flips"}, flips |-> set] \in Metadata BY <1>1 DEF Metadata
  <2>5. QED BY <1>3, <2>3, <2>4 DEF FlipsOnly
<1>4. QED BY <1>2, <1>3

\* The width that a program reading lines writes is at least that of the line, and more only for
\* the last one of a stim that died.
LEMMA LineWidth ==
  ASSUME WriterInv, phase = "write", job' = job, Sound', job.program \in LineByLine, NEW k \in 1..Len(todo),
         line_width = -1 \/ todo[k].events # << >>,
         NEW width \in Nat, width = Width(todo[k].events), line_width' = width
  PROVE  /\ width >= Len(todo[k].events) /\ Len(todo[k].events) \in Nat
         /\ stim = "well" => width = Len(todo[k].events)
<1>1. job \in Jobs /\ todo \in Seq(Shots) /\ stim \in {"well", "failed"} /\ TodoOK
  BY Zenon DEF WriterInv, WriterTypes
<1>2. SoundJob /\ width \in Widths BY SoundNext
<1>3. /\ Widths \subseteq Nat /\ \A n \in Widths : n < CountModulus
      /\ \A n \in Widths : \A m \in Widths : n = m BY <1>1, <1>2, SoundWidths
<1>4. todo[k] \in Shots BY <1>1, ElementOfSeq
<1>5. PICK events \in Seq(BOOLEAN), n \in Nat : events = todo[k].events /\ n = Len(events)
  BY <1>4, LenProperties DEF Shots
<1>6. PICK j \in 1..Len(job.shots) :
        Len(todo[k].events) <= Len(job.shots[j].events) /\ (stim = "well" => todo[k] = job.shots[j])
  <2>1. CASE stim = "well"
    <3>1. PICK j \in 1..Len(job.shots) : todo[k] = job.shots[j] BY <1>1, <2>1 DEF TodoOK
    <3>2. Len(todo[k].events) <= Len(job.shots[j].events) BY <1>5, <3>1
    <3>3. QED BY <3>1, <3>2
  <2>2. CASE stim = "failed"
    <3>1. PICK j \in 1..Len(job.shots) : Len(todo[k].events) <= Len(job.shots[j].events)
      BY <1>1, <2>2 DEF TodoOK
    <3>2. QED BY <2>2, <3>1
  <2>3. QED BY <1>1, <2>1, <2>2
<1>7. PICK shot \in Shots : shot = job.shots[j] BY <1>1, WritersAssumption, ElementOfSeq
<1>8. PICK l \in Nat : l = Len(shot.events) BY LenProperties DEF Shots
<1>9. n <= l BY <1>5, <1>6, <1>7, <1>8, Zenon
<1>10. shot.events # << >> => l = width
  <2>1. ASSUME shot.events # << >> PROVE l \in Widths BY <1>1, <1>7, <1>8, <2>1, WidthOfJobShot
  <2>2. QED BY <1>2, <1>3, <2>1
<1>11. shot.events = << >> => l = 0 BY <1>8
<1>12. n <= width BY <1>9, <1>10, <1>11
<1>13. ASSUME stim = "well" PROVE n = width
  <2>1. n = l /\ events = shot.events BY <1>5, <1>6, <1>7, <1>8, <1>13, Zenon
  <2>2. CASE events # << >> BY <1>10, <2>1, <2>2
  <2>3. CASE events = << >>
    <3>1. n = 0 BY <1>5, <2>3
    <3>2. line_width = -1 BY <1>5, <2>3
    <3>3. width = n % CountModulus BY <1>5, <3>2, Zenon DEF Width
    <3>4. n % CountModulus <= n /\ n % CountModulus \in Nat BY CountType
    <3>5. QED BY <3>1, <3>3, <3>4
  <2>4. QED BY <2>2, <2>3
<1>14. Len(todo[k].events) = n BY <1>5, Zenon
<1>15. QED BY <1>12, <1>13, <1>14

\* The width of a shot of the other programs fits a header.
LEMMA ShotWidth ==
  ASSUME WriterInv, phase = "write", job' = job, Sound', job.program \notin LineByLine, NEW k \in 1..Len(todo)
  PROVE  Len(todo[k].events) % CountModulus = Len(todo[k].events)
<1>1. job \in Jobs /\ todo \in Seq(Shots) /\ stim \in {"well", "failed"} /\ TodoOK
  BY Zenon DEF WriterInv, WriterTypes
<1>2. SoundJob BY SoundNext, Zenon
<1>3. stim = "well" BY <1>1 DEF LineByLine, StreamsStim, Importers, TodoOK
<1>4. PICK j \in 1..Len(job.shots) : todo[k] = job.shots[j] BY <1>1, <1>3 DEF TodoOK
<1>5. Len(job.shots[j].events) \in Widths BY <1>1, WidthOfJobShot
<1>6. PICK n \in Nat : n = Len(job.shots[j].events) /\ n < CountModulus
  BY <1>1, <1>2, <1>5, SoundWidths
<1>7. PICK c \in Nat \ {0} : c = CountModulus /\ n < c BY <1>6, FileAssumption
<1>8. n % c = n
  <2>1. n \in Nat /\ c \in Nat \ {0} /\ n < c BY <1>7
  <2>2. QED BY ONLY <2>1
<1>9. Len(todo[k].events) = n BY <1>4, <1>6, Zenon
<1>10. QED BY <1>7, <1>8, <1>9, Zenon

\* A line is written as its width says, or as too long.
LEMMA LineFits ==
  ASSUME WriterInv, phase = "write", job' = job, job.program \in LineByLine, NEW k \in 1..Len(todo),
         line_width = -1 \/ todo[k].events # << >>,
         NEW width \in Nat, width = Width(todo[k].events), line_width' = width,
         todo' = Tail(SubSeq(todo, k, Len(todo))), NEW f,
         width = Len(todo[k].events) => Exactly(f), width > Len(todo[k].events) => TooLong(f)
  PROVE  Sound' => Exactly(f) \/ (TooLong(f) /\ stim = "failed" /\ todo' = << >>)
<1> SUFFICES ASSUME Sound' PROVE Exactly(f) \/ (TooLong(f) /\ stim = "failed" /\ todo' = << >>)
  OBVIOUS
<1>1. /\ width >= Len(todo[k].events) /\ Len(todo[k].events) \in Nat
      /\ stim = "well" => width = Len(todo[k].events) BY LineWidth
<1>2. CASE width = Len(todo[k].events) BY <1>2
<1>3. CASE width # Len(todo[k].events)
  <2>1. stim = "failed" /\ todo \in Seq(Shots) /\ TodoOK
    BY <1>1, <1>3, Zenon DEF WriterInv, WriterTypes
  <2>2. TooLong(f) BY <1>1, <1>3
  <2>3. PICK n \in Nat : n = Len(todo) BY <2>1, LenProperties
  <2>4. n <= 1 BY <2>1, <2>3, Zenon DEF TodoOK
  <2>5. k = 1 /\ n = 1 BY <2>3, <2>4
  <2>6. PICK rest : rest = SubSeq(todo, k, Len(todo)) OBVIOUS
  <2>7. Onward(Shots, todo, k, rest) BY <2>1, <2>6, FromOneOn
  <2>8. Tail(rest) \in Seq(Shots) /\ Len(Tail(rest)) = n - k BY <2>3, <2>7, Zenon DEF Onward
  <2>9. Len(Tail(rest)) = 0 BY <2>5, <2>8
  <2>10. Tail(rest) = << >> BY <2>8, <2>9, EmptySeq
  <2>11. QED BY <2>1, <2>2, <2>6, <2>10, Zenon
<1>4. QED BY <1>2, <1>3

\* The width of a line is a number.
LEMMA WidthType ==
  ASSUME WriterInv, NEW events \in Seq(BOOLEAN)
  PROVE  Width(events) \in Nat /\ (line_width # -1 => Width(events) = line_width)
<1>1. line_width \in Nat \cup {-1} BY Zenon DEF WriterInv, WriterTypes
<1>2. Len(events) \in Nat BY LenProperties
<1>3. Len(events) % CountModulus \in Nat BY <1>2, CountType
<1>4. QED BY <1>1, <1>3 DEF Width

\* An importer writes the first line of those that it reads.
LEMMA ImportPuts ==
  ASSUME WriterInv, ImportFrame
  PROVE  \E k, f : Puts(k, f)
<1>1. /\ phase = "write" /\ job.program \in Importers /\ Lines # << >>
      /\ job' = job /\ stim' = stim /\ phase' = phase /\ frame_id' = frame_id + 1
      /\ ends' = Append(ends, Len(file')) /\ todo' = Tail(Lines) BY Zenon DEF ImportFrame, Written
<1>2. job.program \in LineByLine BY <1>1 DEF LineByLine
<1>3. todo \in Seq(Shots) /\ frame_id \in Nat BY Zenon DEF WriterInv, WriterTypes
<1>4. PICK k \in 1..Len(todo) :
        /\ Lines = SubSeq(todo, k, Len(todo)) /\ (line_width = -1 \/ todo[k].events # << >>)
        /\ Comes(k) BY <1>1, <1>2, LinesAre
<1>5. Onward(Shots, todo, k, Lines) BY <1>3, <1>4, FromOneOn
<1>6. PICK shot \in Shots : shot = todo[k] /\ Head(Lines) = shot BY <1>5, Zenon DEF Onward
<1>7. shot.events \in Seq(BOOLEAN) BY DEF Shots
<1>8. PICK width \in Nat : width = Width(shot.events) /\ (line_width # -1 => width = line_width)
  BY <1>7, WidthType
<1>9. PICK flips, left :
        /\ flips = (IF job.program = "stim_obs" /\ Flips # << >> THEN Head(Flips) ELSE << >>)
        /\ left = (IF job.program = "stim_obs" /\ Flips # << >> THEN Tail(Flips) ELSE << >>) OBVIOUS
<1>10. flips \in Optional(SUBSET Nat) /\ left \in Seq(Optional(SUBSET Nat)) BY <1>9, FlipsAre
<1>11. PICK meta \in Metadata : meta = FlipsOnly(flips) BY <1>10, FlipsOnlyType
<1>12. /\ file' = file \o (HeaderOnce \o ExportFrame(shot, meta, << >>, frame_id, width))
       /\ line_width' = width /\ obs_lines' = left
  BY <1>6, <1>8, <1>9, <1>11, Zenon DEF ImportFrame, Written
<1>13. PICK f : f = ExportData(shot, meta, << >>, frame_id, width, "header") OBVIOUS
<1>14. << >> \in Seq(Nat) /\ "header" \in {"header", "whole"} OBVIOUS
<1>15. /\ f \in FrameData
       /\ width = Len(shot.events) => Exactly(f)
       /\ width > Len(shot.events) => TooLong(f) BY <1>3, <1>13, <1>14, ExportedData
<1>16. file' = Prefix \o BytesOf(f)
  BY <1>1, <1>15, <1>13, <1>12, PrefixFor, ExportedBytes DEF Continues
<1>17. f.hdr.frame_id = frame_id BY <1>13 DEF ExportData
<1>18. todo' = Tail(SubSeq(todo, k, Len(todo))) BY <1>1, <1>4, Zenon
<1>19. Sound' => Exactly(f) \/ (TooLong(f) /\ stim = "failed" /\ todo' = << >>)
  BY <1>1, <1>2, <1>4, <1>6, <1>8, <1>12, <1>15, <1>18, LineFits
<1>20. line_width' \in Nat \cup {-1} /\ (line_width # -1 => line_width' = line_width)
       /\ obs_lines' \in Seq(Optional(SUBSET Nat)) BY <1>8, <1>10, <1>12
<1>21. Tells(k, f)
  <2>1. flips = NextTruth(k) BY <1>1, <1>9 DEF NextTruth, Importers
  <2>2. width = WidthIn(k) BY <1>2, <1>6, <1>8, Zenon DEF WidthIn
  <2>3. PICK none \in Seq(Nat) : none = << >> BY <1>14
  <2>4. f = ExportData(shot, meta, none, frame_id, width, "header") BY <1>13, <2>3
  <2>5. Told(f, shot.events, width, TruthOf(meta)) /\ (meta = NoMetadata => Plain(f))
    BY <1>3, <2>3, <2>4, ExportTells
  <2>6. TruthOf(meta) = flips BY <1>10, <1>11, FlipsOnlySays
  <2>7. job.program \in StreamsStim => Plain(f)
    <3>1. job.program \in StreamsStim => job.program # "stim_obs" BY DEF StreamsStim
    <3>2. job.program # "stim_obs" => flips = << >> BY <1>9
    <3>3. flips = << >> => meta = NoMetadata BY <1>11 DEF FlipsOnly
    <3>4. QED BY <2>5, <3>1, <3>2, <3>3
  <2>8. job.program = "stim_obs" => obs_lines' = IF Flips # << >> THEN Tail(Flips) ELSE << >>
    BY <1>9, <1>12
  <2>9. QED BY <1>4, <1>6, <1>12, <2>1, <2>2, <2>5, <2>6, <2>7, <2>8, Zenon DEF Tells, Told
<1>22. Puts(k, f) BY <1>1, <1>2, <1>15, <1>16, <1>17, <1>18, <1>19, <1>20, <1>21, Zenon DEF Puts
<1>23. QED BY <1>22

\* So does a server.
LEMMA ServePuts ==
  ASSUME WriterInv, ServeLine
  PROVE  \E k, f : Puts(k, f)
<1>1. /\ phase = "write" /\ job.program \in {"serve", "stim_encoder"} /\ Lines # << >>
      /\ job' = job /\ stim' = stim /\ phase' = phase /\ frame_id' = frame_id + 1
      /\ ends' = Append(ends, Len(file')) /\ todo' = Tail(Lines) /\ obs_lines' = obs_lines
  BY Zenon DEF ServeLine, Written
<1>2. job.program \in LineByLine /\ job.program \notin Importers \cup {"export"}
  BY <1>1 DEF LineByLine, Importers
<1>3. todo \in Seq(Shots) /\ frame_id \in Nat /\ obs_lines \in Seq(Optional(SUBSET Nat))
  BY Zenon DEF WriterInv, WriterTypes
<1>4. PICK k \in 1..Len(todo) :
        /\ Lines = SubSeq(todo, k, Len(todo)) /\ (line_width = -1 \/ todo[k].events # << >>)
        /\ Comes(k) BY <1>1, <1>2, LinesAre
<1>5. Onward(Shots, todo, k, Lines) BY <1>3, <1>4, FromOneOn
<1>6. PICK shot \in Shots : shot = todo[k] /\ Head(Lines) = shot BY <1>5, Zenon DEF Onward
<1>7. shot.events \in Seq(BOOLEAN) BY DEF Shots
<1>8. PICK width \in Nat : width = Width(shot.events) /\ (line_width # -1 => width = line_width)
  BY <1>7, WidthType
<1>9. file' = file \o EncodeShotFrame(shot.events, frame_id, width) /\ line_width' = width
  BY <1>6, <1>8, Zenon DEF ServeLine, Written
<1>10. PICK f : f = EncodeData(shot.events, frame_id, width) OBVIOUS
<1>11. /\ f \in FrameData
       /\ width = Len(shot.events) => Exactly(f)
       /\ width > Len(shot.events) => TooLong(f) BY <1>3, <1>7, <1>10, EncodedData
<1>12. file' = Prefix \o BytesOf(f)
  BY <1>1, <1>2, <1>11, <1>10, <1>9, PrefixFor, EncodedBytes DEF Continues
<1>13. f.hdr.frame_id = frame_id BY <1>10 DEF EncodeData
<1>14. todo' = Tail(SubSeq(todo, k, Len(todo))) BY <1>1, <1>4, Zenon
<1>15. Sound' => Exactly(f) \/ (TooLong(f) /\ stim = "failed" /\ todo' = << >>)
  BY <1>1, <1>2, <1>4, <1>6, <1>8, <1>9, <1>11, <1>14, LineFits
<1>16. line_width' \in Nat \cup {-1} /\ (line_width # -1 => line_width' = line_width)
       /\ obs_lines' \in Seq(Optional(SUBSET Nat)) BY <1>1, <1>3, <1>8, <1>9
<1>17. Tells(k, f)
  <2>1. << >> = NextTruth(k) BY <1>1 DEF NextTruth
  <2>2. width = WidthIn(k) BY <1>2, <1>6, <1>8, Zenon DEF WidthIn
  <2>3. Told(f, shot.events, width, << >>) /\ Plain(f) BY <1>3, <1>7, <1>10, EncodeTells
  <2>4. job.program # "stim_obs" BY <1>1
  <2>5. QED BY <1>4, <1>6, <1>9, <2>1, <2>2, <2>3, <2>4, Zenon DEF Tells, Told
<1>18. Puts(k, f) BY <1>1, <1>2, <1>11, <1>12, <1>13, <1>14, <1>15, <1>16, <1>17, Zenon DEF Puts
<1>19. QED BY <1>18

\* The other programs take the first of what is still to come.
LEMMA FirstShot ==
  ASSUME WriterInv, todo # << >>
  PROVE  /\ 1 \in 1..Len(todo) /\ SubSeq(todo, 1, Len(todo)) = todo
         /\ Head(todo) = todo[1] /\ todo[1] \in Shots
<1>1. todo \in Seq(Shots) BY Zenon DEF WriterInv, WriterTypes
<1>2. Len(todo) \in Nat \ {0} BY <1>1, EmptySeq
<1>3. 1 \in 1..Len(todo) BY <1>2
<1>4. SubSeq(todo, 1, Len(todo)) = todo BY <1>1, SubSeqFull
<1>5. todo[1] \in Shots BY <1>1, <1>3, ElementOfSeq
<1>6. Head(todo) = todo[1] BY <1>1, <1>2
<1>7. QED BY <1>3, <1>4, <1>5, <1>6

\* A server of samples.
LEMMA SamplePuts ==
  ASSUME WriterInv, ServeSample
  PROVE  \E k, f : Puts(k, f)
<1>1. /\ phase = "write" /\ job.program = "serve_dem" /\ todo # << >>
      /\ job' = job /\ stim' = stim /\ phase' = phase /\ frame_id' = frame_id + 1
      /\ ends' = Append(ends, Len(file')) /\ todo' = Tail(todo) /\ obs_lines' = obs_lines
      /\ line_width' = -1 BY Zenon DEF ServeSample, Written
<1>2. job.program \notin LineByLine /\ job.program \notin Importers \cup {"export"}
  BY <1>1 DEF LineByLine, Importers
<1>3. frame_id \in Nat /\ obs_lines \in Seq(Optional(SUBSET Nat))
  BY Zenon DEF WriterInv, WriterTypes
<1>4. /\ 1 \in 1..Len(todo) /\ SubSeq(todo, 1, Len(todo)) = todo
      /\ Head(todo) = todo[1] /\ todo[1] \in Shots BY <1>1, FirstShot
<1>5. PICK shot \in Shots : shot = todo[1] BY <1>4
<1>6. shot.events \in Seq(BOOLEAN) BY DEF Shots
<1>7. PICK width \in Nat : width = Len(shot.events) % CountModulus BY <1>6, LenProperties, CountType
<1>8. file' = file \o EncodeShotFrame(shot.events, frame_id, width)
  BY <1>4, <1>5, <1>7, Zenon DEF ServeSample, Written
<1>9. PICK f : f = EncodeData(shot.events, frame_id, width) OBVIOUS
<1>10. f \in FrameData /\ (width = Len(shot.events) => Exactly(f)) BY <1>3, <1>6, <1>9, EncodedData
<1>11. file' = Prefix \o BytesOf(f)
  BY <1>1, <1>2, <1>10, <1>9, <1>8, PrefixFor, EncodedBytes DEF Continues
<1>12. f.hdr.frame_id = frame_id BY <1>9 DEF EncodeData
<1>13. todo' = Tail(SubSeq(todo, 1, Len(todo))) BY <1>1, <1>4, Zenon
<1>14. Sound' => Exactly(f)
  <2>1. ASSUME Sound' PROVE Len(todo[1].events) % CountModulus = Len(todo[1].events)
    BY <1>1, <1>2, <1>4, <2>1, ShotWidth
  <2>2. QED BY <1>5, <1>7, <1>10, <2>1, Zenon
<1>15. line_width = -1 BY <1>2, Zenon DEF WriterInv, WriterTypes
<1>16. line_width' \in Nat \cup {-1} BY <1>1
<1>17. Tells(1, f)
  <2>1. << >> = NextTruth(1) BY <1>1, <1>5 DEF NextTruth
  <2>2. width = WidthIn(1) BY <1>2, <1>5, <1>7, Zenon DEF WidthIn
  <2>3. Comes(1) BY <1>2, Zenon DEF Comes
  <2>4. Told(f, shot.events, width, << >>) /\ Plain(f) BY <1>3, <1>6, <1>9, EncodeTells
  <2>5. job.program # "stim_obs" BY <1>1
  <2>6. QED BY <1>2, <1>5, <2>1, <2>2, <2>3, <2>4, <2>5, Zenon DEF Tells, Told
<1>18. Puts(1, f)
  BY <1>1, <1>3, <1>4, <1>10, <1>11, <1>12, <1>13, <1>14, <1>15, <1>16, <1>17, Zenon DEF Puts
<1>19. QED BY <1>18

\* A caller of the exporter.
LEMMA ExportPuts ==
  ASSUME WriterInv, ExportOne
  PROVE  \E k, f : Puts(k, f)
<1>1. /\ phase = "write" /\ job.program = "export" /\ todo # << >>
      /\ job' = job /\ stim' = stim /\ phase' = phase /\ frame_id' = frame_id + 1
      /\ ends' = Append(ends, Len(file')) /\ todo' = Tail(todo) /\ obs_lines' = obs_lines
      /\ line_width' = -1 BY Zenon DEF ExportOne, Written
<1>2. job.program \notin LineByLine /\ job.program \in Importers \cup {"export"}
  BY <1>1 DEF LineByLine, Importers
<1>3. frame_id \in Nat /\ obs_lines \in Seq(Optional(SUBSET Nat))
  BY Zenon DEF WriterInv, WriterTypes
<1>4. /\ 1 \in 1..Len(todo) /\ SubSeq(todo, 1, Len(todo)) = todo
      /\ Head(todo) = todo[1] /\ todo[1] \in Shots BY <1>1, FirstShot
<1>5. PICK shot \in Shots : shot = todo[1] BY <1>4
<1>6. shot.events \in Seq(BOOLEAN) /\ shot.annotations \in Seq(Nat) BY OptionalIs DEF Shots
<1>7. PICK width \in Nat : width = Len(shot.events) % CountModulus BY <1>6, LenProperties, CountType
<1>8. PICK meta : meta = IF shot.tags = {} THEN NoMetadata
                         ELSE [tags |-> shot.tags,
                               flips |-> IF shot.flips = << >> THEN {} ELSE shot.flips[1]] OBVIOUS
<1>9. meta \in Metadata
  <2>1. CASE shot.tags = {} BY <1>8, <2>1 DEF NoMetadata, Metadata
  <2>2. CASE shot.tags # {}
    <3>1. PICK tags \in SUBSET Range(TagOrder) : tags = shot.tags BY DEF Shots
    <3>2. PICK flips \in SUBSET Nat : flips = IF shot.flips = << >> THEN {} ELSE shot.flips[1]
      <4>1. PICK T : T = SUBSET Nat /\ shot.flips \in Optional(T) BY DEF Shots
      <4>2. CASE shot.flips = << >> BY <4>2
      <4>3. CASE shot.flips # << >> BY <4>1, <4>3, OptionalIs
      <4>4. QED BY <4>2, <4>3
    <3>3. [tags |-> tags, flips |-> flips] \in Metadata BY DEF Metadata
    <3>4. QED BY <1>8, <2>2, <3>1, <3>2, <3>3, Zenon
  <2>3. QED BY <2>1, <2>2
<1>10. file' = file \o (HeaderOnce \o ExportFrame(shot, meta, shot.annotations, frame_id, width))
  BY <1>4, <1>5, <1>7, <1>8, Zenon DEF ExportOne, Written
<1>11. PICK f : f = ExportData(shot, meta, shot.annotations, frame_id, width, "header") OBVIOUS
<1>12. f \in FrameData /\ (width = Len(shot.events) => Exactly(f))
  BY <1>3, <1>6, <1>9, <1>11, ExportedData
<1>13. file' = Prefix \o BytesOf(f)
  BY <1>1, <1>2, <1>12, <1>11, <1>10, PrefixFor, ExportedBytes DEF Continues
<1>14. f.hdr.frame_id = frame_id BY <1>11 DEF ExportData
<1>15. todo' = Tail(SubSeq(todo, 1, Len(todo))) BY <1>1, <1>4, Zenon
<1>16. Sound' => Exactly(f)
  <2>1. ASSUME Sound' PROVE Len(todo[1].events) % CountModulus = Len(todo[1].events)
    BY <1>1, <1>2, <1>4, <2>1, ShotWidth
  <2>2. QED BY <1>5, <1>7, <1>12, <2>1, Zenon
<1>17. line_width = -1 BY <1>2, Zenon DEF WriterInv, WriterTypes
<1>18. line_width' \in Nat \cup {-1} BY <1>1
<1>19. TruthOf(meta) = shot.flips
  <2>1. "observable_flips" \in shot.tags <=> shot.flips # << >>
    <3>1. job \in Jobs BY Zenon DEF WriterInv, WriterTypes
    <3>2. \A i \in DOMAIN job.shots :
            "observable_flips" \in job.shots[i].tags <=> job.shots[i].flips # << >>
      BY <1>1, <3>1, WritersAssumption
    <3>3. PICK i \in 1..Len(job.shots) : shot = job.shots[i]
      BY <1>1, <1>4, <1>5 DEF StreamsStim, WriterInv, WriterTypes, TodoOK
    <3>4. DOMAIN job.shots = 1..Len(job.shots) BY <3>1, WritersAssumption, LenProperties
    <3>5. QED BY <3>2, <3>3, <3>4
  <2>2. CASE shot.flips = << >> BY <1>8, <2>1, <2>2 DEF NoMetadata, TruthOf
  <2>3. CASE shot.flips # << >>
    <3>1. shot.tags # {} /\ "observable_flips" \in shot.tags BY <2>1, <2>3
    <3>2. meta.tags = shot.tags /\ meta.flips = shot.flips[1] BY <1>8, <2>3, <3>1
    <3>3. shot.flips = <<shot.flips[1]>>
      <4>1. PICK T : T = SUBSET Nat /\ shot.flips \in Optional(T) BY DEF Shots
      <4>2. QED BY <2>3, <4>1, OptionalIs
    <3>4. QED BY <3>1, <3>2, <3>3 DEF TruthOf
  <2>4. QED BY <2>2, <2>3
<1>20. Tells(1, f)
  <2>1. shot.flips = NextTruth(1) BY <1>1, <1>5 DEF NextTruth
  <2>2. width = WidthIn(1) BY <1>2, <1>5, <1>7, Zenon DEF WidthIn
  <2>3. Comes(1) BY <1>2, Zenon DEF Comes
  <2>4. Told(f, shot.events, width, TruthOf(meta)) BY <1>3, <1>6, <1>9, <1>11, ExportTells
  <2>5. job.program # "stim_obs" /\ job.program \notin StreamsStim BY <1>1 DEF StreamsStim
  <2>6. QED BY <1>2, <1>5, <1>19, <2>1, <2>2, <2>3, <2>4, <2>5, Zenon DEF Tells, Told
<1>21. Puts(1, f)
  BY <1>1, <1>3, <1>4, <1>12, <1>13, <1>14, <1>15, <1>16, <1>17, <1>18, <1>20, Zenon DEF Puts
<1>22. QED BY <1>21

\* A caller of the recorder, whose headers are always exact.
LEMMA RecordPuts ==
  ASSUME WriterInv, RecordOne
  PROVE  \E k, f : Puts(k, f)
<1>1. /\ phase = "write" /\ job.program = "record" /\ todo # << >>
      /\ job' = job /\ stim' = stim /\ phase' = phase /\ frame_id' = frame_id + 1
      /\ ends' = Append(ends, Len(file')) /\ todo' = Tail(todo) /\ obs_lines' = obs_lines
      /\ line_width' = -1 BY Zenon DEF RecordOne, Written
<1>2. job.program \notin LineByLine /\ job.program \notin Importers \cup {"export"}
  BY <1>1 DEF LineByLine, Importers
<1>3. frame_id \in Nat /\ obs_lines \in Seq(Optional(SUBSET Nat))
  BY Zenon DEF WriterInv, WriterTypes
<1>4. /\ 1 \in 1..Len(todo) /\ SubSeq(todo, 1, Len(todo)) = todo
      /\ Head(todo) = todo[1] /\ todo[1] \in Shots BY <1>1, FirstShot
<1>5. PICK shot \in Shots : shot = todo[1] BY <1>4
<1>6. PICK width \in Nat : width = Len(shot.events) BY LenProperties DEF Shots
<1>7. file' = file \o RecordFrame(shot, frame_id) BY <1>4, <1>5, Zenon DEF RecordOne, Written
<1>8. PICK f : f = ExportData(shot, NoMetadata, << >>, frame_id, width, "whole") OBVIOUS
<1>9. f \in FrameData /\ (width = Len(shot.events) => Exactly(f))
  <2>1. "whole" \in {"header", "whole"} /\ << >> \in Seq(Nat) OBVIOUS
  <2>2. NoMetadata \in Metadata BY DEF NoMetadata, Metadata
  <2>3. QED BY <1>3, <1>8, <2>1, <2>2, ExportedData
<1>10. file' = Prefix \o BytesOf(f)
  BY <1>1, <1>2, <1>9, <1>6, <1>8, <1>7, PrefixFor, RecordedBytes DEF Continues
<1>11. f.hdr.frame_id = frame_id BY <1>8 DEF ExportData
<1>12. todo' = Tail(SubSeq(todo, 1, Len(todo))) BY <1>1, <1>4, Zenon
<1>13. Exactly(f) BY <1>6, <1>9
<1>14. line_width = -1 BY <1>2, Zenon DEF WriterInv, WriterTypes
<1>15. line_width' \in Nat \cup {-1} BY <1>1
<1>16. Puts(1, f)
  BY <1>1, <1>3, <1>4, <1>9, <1>10, <1>11, <1>12, <1>13, <1>14, <1>15, Zenon DEF Puts
<1>17. QED BY <1>16

\* The Python writer writes a frame whose width fits, or stops.
LEMMA PythonPuts ==
  ASSUME WriterInv, PythonFrame
  PROVE  \/ \E k, f : Puts(k, f)
         \/ /\ phase' = "failed" /\ phase = "write" /\ job' = job /\ stim' = stim /\ file' = file /\ ends' = ends
            /\ frame_id' = frame_id /\ line_width' = line_width /\ obs_lines' = obs_lines
            /\ todo # << >> /\ todo' = Tail(todo) /\ job.program = "write_qssf"
<1>1. /\ phase = "write" /\ job.program = "write_qssf" /\ todo # << >>
      /\ todo' = Tail(todo) /\ obs_lines' = obs_lines BY Zenon DEF PythonFrame
<1>2. job.program \notin LineByLine /\ job.program \notin Importers \cup {"export"}
  BY <1>1 DEF LineByLine, Importers
<1>3. frame_id \in Nat /\ obs_lines \in Seq(Optional(SUBSET Nat))
  BY Zenon DEF WriterInv, WriterTypes
<1>4. /\ 1 \in 1..Len(todo) /\ SubSeq(todo, 1, Len(todo)) = todo
      /\ Head(todo) = todo[1] /\ todo[1] \in Shots BY <1>1, FirstShot
<1>5. PICK shot \in Shots : shot = todo[1] BY <1>4
<1>6. PICK width \in Nat : width = Len(shot.events) BY LenProperties DEF Shots
<1>7. CASE width < CountModulus
  <2>1. PICK meta \in Metadata : meta = FlipsOnly(shot.flips) BY FlipsOnlyType DEF Shots
  <2>2. /\ file' = file \o ExportFrame(shot, meta, << >>, frame_id, width)
        /\ job' = job /\ stim' = stim /\ phase' = phase /\ frame_id' = frame_id + 1
        /\ ends' = Append(ends, Len(file')) /\ line_width' = -1
    BY <1>4, <1>5, <1>6, <1>7, <2>1, Zenon DEF PythonFrame, Written
  <2>3. PICK f : f = ExportData(shot, meta, << >>, frame_id, width, "header") OBVIOUS
  <2>4. f \in FrameData /\ (width = Len(shot.events) => Exactly(f))
    <3>1. "header" \in {"header", "whole"} /\ << >> \in Seq(Nat) OBVIOUS
    <3>2. QED BY <1>3, <2>3, <3>1, ExportedData
  <2>5. file' = Prefix \o BytesOf(f)
    BY <1>1, <1>2, <2>4, <2>3, <2>2, PrefixFor, ExportedBytes DEF Continues
  <2>6. f.hdr.frame_id = frame_id BY <2>3 DEF ExportData
  <2>7. todo' = Tail(SubSeq(todo, 1, Len(todo))) BY <1>1, <1>4, Zenon
  <2>8. Exactly(f) BY <1>6, <2>4
  <2>9. line_width = -1 BY <1>2, Zenon DEF WriterInv, WriterTypes
  <2>10. line_width' \in Nat \cup {-1} BY <2>2
  <2>11. Tells(1, f)
    <3>1. shot.flips = NextTruth(1) BY <1>1, <1>5 DEF NextTruth
    <3>2. width = WidthIn(1)
      <4>1. PICK c \in Nat \ {0} : c = CountModulus BY FileAssumption
      <4>2. width % c = width
        <5>1. width < c BY <1>7, <4>1, Zenon
        <5>2. width \in Nat /\ c \in Nat \ {0} OBVIOUS
        <5>3. QED BY ONLY <5>1, <5>2
      <4>3. QED BY <1>2, <1>5, <1>6, <4>1, <4>2, Zenon DEF WidthIn
    <3>3. Comes(1) BY <1>2, Zenon DEF Comes
    <3>4. PICK none \in Seq(Nat) : none = << >>
      <4>1. << >> \in Seq(Nat) OBVIOUS
      <4>2. QED BY <4>1
    <3>5. f = ExportData(shot, meta, none, frame_id, width, "header") BY <2>3, <3>4
    <3>6. Told(f, shot.events, width, TruthOf(meta)) BY <1>3, <3>5, ExportTells
    <3>7. TruthOf(meta) = shot.flips BY <2>1, FlipsOnlySays DEF Shots
    <3>8. job.program # "stim_obs" /\ job.program \notin StreamsStim BY <1>1 DEF StreamsStim
    <3>9. QED BY <1>2, <1>5, <3>1, <3>2, <3>3, <3>6, <3>7, <3>8, Zenon DEF Tells, Told
  <2>12. Puts(1, f)
    BY <1>1, <1>3, <1>4, <2>2, <2>4, <2>5, <2>6, <2>7, <2>8, <2>9, <2>10, <2>11, Zenon DEF Puts
  <2>13. QED BY <2>12
<1>8. CASE ~ (width < CountModulus) BY <1>4, <1>5, <1>6, <1>8, <1>1, Zenon DEF PythonFrame
<1>9. QED BY <1>7, <1>8

\* A step that writes nothing leaves what the headers say.
LEMMA FitKept ==
  ASSUME WriterInv, job' = job, line_width' = line_width, file' = file, ends' = ends,
         \/ todo' = todo /\ stim' = stim
         \/ todo # << >>
         \/ stim = "well"
         \/ todo' = << >> /\ stim' = stim
  PROVE  Sound' => HeadersFit'
<1> SUFFICES ASSUME Sound' PROVE HeadersFit' OBVIOUS
<1>1. Sound BY SoundNext, SoundIs
<1>2. HeadersFit BY <1>1, Zenon DEF WriterInv
<1>3. Base' = Base BY Zenon DEF Base
<1>4. ASSUME NEW k \in 1..Len(ends)
      PROVE  \/ SaidEnd(file', ends', Base', k) = ends'[k]
             \/ /\ stim' = "failed" /\ todo' = << >> /\ k = Len(ends')
                /\ SaidEnd(file', ends', Base', k) > ends'[k]
  <2>1. \/ SaidEnd(file, ends, Base, k) = ends[k]
        \/ /\ stim = "failed" /\ todo = << >> /\ k = Len(ends)
           /\ SaidEnd(file, ends, Base, k) > ends[k] BY <1>2, Zenon DEF HeadersFit
  <2>2. SaidEnd(file', ends', Base', k) = SaidEnd(file, ends, Base, k) BY <1>3, Zenon
  <2>3. CASE SaidEnd(file, ends, Base, k) = ends[k] BY <2>2, <2>3
  <2>4. CASE /\ stim = "failed" /\ todo = << >> /\ k = Len(ends)
             /\ SaidEnd(file, ends, Base, k) > ends[k] BY <2>4, <2>2
  <2>5. QED BY <2>1, <2>3, <2>4
<1>5. QED BY <1>4, Zenon DEF HeadersFit

\* Nor does it change the file.
LEMMA FileOKKept ==
  ASSUME WriterInv, job' = job, file' = file, ends' = ends, frame_id' = frame_id,
         \/ phase' = phase /\ (phase = "start" => stim' = stim)
         \/ phase' \in {"done", "failed"}
  PROVE  FileOK'
<1>1. FileOK BY DEF WriterInv
<1>2. Prefix' = Prefix /\ Base' = Base BY Zenon DEF Prefix, Base
<1>3. Layout(Prefix, ends, Base) BY <1>1, Zenon DEF FileOK
<1>4. Layout(Prefix, ends, Base)' BY <1>2, <1>3
<1>5. /\ Len(ends)' = frame_id' /\ (file' = << >> => ends' = << >>)
      /\ phase' = "start" => file' = << >> /\ stim' = "well"
      /\ phase' = "write" /\ file' = << >> => job'.program \in Importers \cup {"export", "record"}
  <2>1. Len(ends) = frame_id /\ (file = << >> => ends = << >>) BY <1>1, Zenon DEF FileOK
  <2>2. /\ phase = "start" => file = << >> /\ stim = "well"
        /\ phase = "write" /\ file = << >> => job.program \in Importers \cup {"export", "record"}
    BY <1>1, Zenon DEF FileOK
  <2>3. CASE phase' = phase /\ (phase = "start" => stim' = stim) BY <2>1, <2>2, <2>3, Zenon
  <2>4. CASE phase' \in {"done", "failed"} BY <2>4, <2>1
  <2>5. QED BY <2>3, <2>4
<1>6. QED BY <1>4, <1>5, Zenon DEF FileOK, Importers

\* A writer starts.
LEMMA StartKeeps ==
  ASSUME WriterInv, Start
  PROVE  WriterInv'
<1>1. /\ phase = "start" /\ phase' = "write"
      /\ file' = IF job.program \in Importers \cup {"export", "record"} THEN << >> ELSE FileHeader
      /\ job' = job /\ todo' = todo /\ obs_lines' = obs_lines /\ line_width' = line_width
      /\ frame_id' = frame_id /\ stim' = stim /\ ends' = ends BY Zenon DEF Start
<1>2. WriterTypes /\ TodoOK /\ FileOK BY DEF WriterInv
<1>3. file = << >> /\ ends = << >> /\ Len(ends) = frame_id /\ Layout(Prefix, ends, Base)
  BY <1>1, <1>2, Zenon DEF FileOK
<1>4. WriterTypes' BY <1>1, <1>2 DEF WriterTypes, LineByLine, Importers
<1>5. stim = "well" BY <1>1, <1>2, Zenon DEF FileOK
<1>6. TodoOK' BY <1>5, <1>1, <1>2 DEF TodoOK, StreamsStim
<1>7. Prefix' = Prefix /\ Base' = Base
  <2>1. FileHeader # << >> BY EmptyLayout
  <2>2. job.program = "record" => job.program \in Importers \cup {"export", "record"} OBVIOUS
  <2>3. CASE job.program \in Importers \cup {"export", "record"}
    BY <1>1, <1>3, <2>3, Zenon DEF Prefix, Base
  <2>4. CASE job.program \notin Importers \cup {"export", "record"}
    BY <1>1, <1>3, <2>1, <2>2, <2>4, Zenon DEF Prefix, Base
  <2>5. QED BY <2>3, <2>4
<1>8. Layout(Prefix, ends, Base)' BY <1>1, <1>3, <1>7
<1>9. FileOK'
  <2>1. phase' # "start" BY <1>1
  <2>2. file' = << >> => job.program \in Importers \cup {"export", "record"} BY <1>1, EmptyLayout
  <2>3. Len(ends)' = frame_id' BY <1>1, <1>3
  <2>4. QED BY <1>1, <1>3, <1>8, <2>1, <2>2, <2>3, Zenon DEF FileOK, Importers
<1>10. HeadersFit' BY <1>1, <1>3 DEF HeadersFit
<1>11. QED BY <1>4, <1>6, <1>9, <1>10, Zenon DEF WriterInv

\* Stim fails before anything is written.
LEMMA ObsFailsKeeps ==
  ASSUME WriterInv, StimObsFails
  PROVE  WriterInv'
<1>1. /\ phase = "start" /\ phase' = "failed" /\ stim' = "failed"
      /\ job' = job /\ todo' = todo /\ obs_lines' = obs_lines /\ line_width' = line_width
      /\ frame_id' = frame_id /\ file' = file /\ ends' = ends BY Zenon DEF StimObsFails
<1>2. WriterTypes /\ TodoOK /\ FileOK BY DEF WriterInv
<1>3. file = << >> /\ ends = << >> BY <1>1, <1>2, Zenon DEF FileOK
<1>4. WriterTypes' BY <1>1, <1>2 DEF WriterTypes, LineByLine, Importers
<1>5. TodoOK' BY <1>1 DEF TodoOK
<1>6. FileOK' BY <1>1, FileOKKept
<1>7. HeadersFit' BY <1>1, <1>3 DEF HeadersFit
<1>8. QED BY <1>4, <1>5, <1>6, <1>7, Zenon DEF WriterInv

\* A stim that dies leaves of the line that comes next how it begins.
LEMMA PartOfLine ==
  ASSUME WriterInv, StimDies
  PROVE  /\ todo' \in Seq(Shots) /\ Len(todo') = 1 /\ 1 \in 1..Len(todo) /\ todo'[1].events \in Seq(BOOLEAN)
         /\ Len(todo'[1].events) <= Len(todo[1].events)
         /\ \A i \in 1..Len(todo'[1].events) : todo'[1].events[i] = todo[1].events[i]
<1>1. /\ todo # << >>
      /\ \E n \in 0..Len(Head(todo).events) :
           todo' = <<[Head(todo) EXCEPT !.events = SubSeq(@, 1, n)]>> BY Zenon DEF StimDies
<1>2. 1 \in 1..Len(todo) /\ Head(todo) = todo[1] /\ todo[1] \in Shots BY <1>1, FirstShot
<1>3. PICK shot \in Shots : shot = todo[1] BY <1>2
<1>4. PICK events \in Seq(BOOLEAN), l \in Nat : events = shot.events /\ l = Len(events)
  BY LenProperties DEF Shots
<1>5. PICK n \in 0..l : todo' = <<[shot EXCEPT !.events = SubSeq(events, 1, n)]>>
  <2>1. PICK n \in 0..Len(Head(todo).events) : todo' = <<[Head(todo) EXCEPT !.events = SubSeq(@, 1, n)]>>
    BY <1>1
  <2>2. Head(todo) = shot /\ Len(Head(todo).events) = l BY <1>2, <1>3, <1>4, Zenon
  <2>3. [shot EXCEPT !.events = SubSeq(@, 1, n)] = [shot EXCEPT !.events = SubSeq(events, 1, n)]
    BY <1>4
  <2>4. todo' = <<[shot EXCEPT !.events = SubSeq(@, 1, n)]>> BY <2>1, <2>2
  <2>5. n \in 0..l BY <2>1, <2>2
  <2>6. QED BY <2>3, <2>4, <2>5
<1>6. PICK part \in Seq(BOOLEAN) : part = SubSeq(events, 1, n) /\ Len(part) = n /\ \A i \in 1..n : part[i] = events[i]
  <2>1. 1..n \subseteq 1..l BY <1>5
  <2>2. SubSeq(events, 1, n) \in Seq(BOOLEAN) /\ Len(SubSeq(events, 1, n)) = n
        /\ \A i \in 1..n : SubSeq(events, 1, n)[i] = events[i] BY <1>4, <2>1, <1>5, ElementOfSeq
  <2>3. QED BY <2>2
<1>7. PICK cut_off \in Shots : cut_off = [shot EXCEPT !.events = part] /\ cut_off.events = part
  <2>1. [shot EXCEPT !.events = part] \in Shots BY DEF Shots
  <2>2. [shot EXCEPT !.events = part].events = part BY DEF Shots
  <2>3. QED BY <2>1, <2>2
<1>8. todo' = <<cut_off>> BY <1>5, <1>6, <1>7
<1>9. PICK rest : rest = <<cut_off>> OBVIOUS
<1>10. rest \in Seq(Shots) /\ Len(rest) = 1 /\ rest[1] = cut_off BY <1>9
<1>11. todo' = rest /\ todo'[1].events = part /\ todo[1].events = events
  BY <1>3, <1>4, <1>7, <1>8, <1>9, <1>10, Zenon
<1>12. Len(part) = n /\ Len(events) = l /\ n <= l BY <1>4, <1>5, <1>6
<1>13. QED BY <1>2, <1>6, <1>10, <1>11, <1>12

\* Stim dies inside a line.
LEMMA DiesKeeps ==
  ASSUME WriterInv, StimDies
  PROVE  WriterInv'
<1>1. /\ phase = "write" /\ job.program \in StreamsStim /\ stim = "well" /\ todo # << >>
      /\ stim' = "failed" /\ job' = job /\ obs_lines' = obs_lines /\ line_width' = line_width
      /\ frame_id' = frame_id /\ file' = file /\ phase' = phase /\ ends' = ends
  BY Zenon DEF StimDies
<1>2. WriterTypes /\ TodoOK BY DEF WriterInv
<1>3. /\ todo' \in Seq(Shots) /\ Len(todo') = 1 /\ 1 \in 1..Len(todo)
      /\ Len(todo'[1].events) <= Len(todo[1].events) BY PartOfLine
<1>4. WriterTypes' BY <1>1, <1>2, <1>3 DEF WriterTypes, LineByLine, Importers
<1>5. TodoOK'
  <2>1. PICK j \in 1..Len(job.shots) : todo[1] = job.shots[j] BY <1>1, <1>2, <1>3, Zenon DEF TodoOK
  <2>2. Len(todo'[1].events) <= Len(job.shots[j].events) BY <1>3, <2>1
  <2>3. ASSUME NEW i \in 1..Len(todo')
        PROVE  \E m \in 1..Len(job.shots) : Len(todo'[i].events) <= Len(job.shots[m].events)
    BY <1>3, <2>2
  <2>4. Len(todo') <= 1 /\ stim' # "well" BY <1>1, <1>3
  <2>5. QED BY <1>1, <2>3, <2>4, Zenon DEF TodoOK, StreamsStim
<1>6. FileOK' BY <1>1, FileOKKept
<1>7. Sound' => HeadersFit' BY <1>1, FitKept
<1>8. QED BY <1>4, <1>5, <1>6, <1>7, Zenon DEF WriterInv

\* A writer finishes.
LEMMA FinishKeeps ==
  ASSUME WriterInv, Finish
  PROVE  WriterInv'
<1>1. /\ phase = "write" /\ phase' \in {"done", "failed"} /\ todo' = << >>
      /\ job' = job /\ obs_lines' = obs_lines /\ line_width' = line_width
      /\ frame_id' = frame_id /\ file' = file /\ stim' = stim /\ ends' = ends BY DEF Finish
<1>2. WriterTypes BY DEF WriterInv
<1>3. WriterTypes' BY <1>1, <1>2 DEF WriterTypes, LineByLine, Importers
<1>4. TodoOK' BY <1>1 DEF TodoOK
<1>5. FileOK' BY <1>1, FileOKKept
<1>6. Sound' => HeadersFit' BY <1>1, FitKept
<1>7. QED BY <1>3, <1>4, <1>5, <1>6, Zenon DEF WriterInv

\* The Python writer stops.
LEMMA StopKeeps ==
  ASSUME WriterInv, phase' = "failed", phase = "write", job' = job, stim' = stim, file' = file, ends' = ends,
         frame_id' = frame_id, line_width' = line_width, obs_lines' = obs_lines, todo # << >>, todo' = Tail(todo),
         job.program = "write_qssf"
  PROVE  WriterInv'
<1>1. WriterTypes /\ TodoOK BY DEF WriterInv
<1>2. stim = "well" BY <1>1 DEF StreamsStim, WriterTypes, TodoOK
<1>3. 1 \in 1..Len(todo) /\ SubSeq(todo, 1, Len(todo)) = todo BY FirstShot
<1>4. todo \in Seq(Shots) BY <1>1, Zenon DEF WriterTypes
<1>5. Onward(Shots, todo, 1, todo) BY <1>3, <1>4, FromOneOn
<1>6. PICK n \in Nat : n = Len(todo) BY <1>4, LenProperties
<1>7. Tail(todo) \in Seq(Shots) /\ Len(Tail(todo)) = n - 1 /\ \A i \in 1..n - 1 : Tail(todo)[i] = todo[1 + i]
  BY <1>5, <1>6, Zenon DEF Onward
<1>8. WriterTypes' BY <1>7, <1>1 DEF WriterTypes, LineByLine, Importers
<1>9. TodoOK'
  <2>1. phase' # "write" OBVIOUS
  <2>2. \A i \in 1..n : \E j \in 1..Len(job.shots) : todo[i] = job.shots[j]
    BY <1>1, <1>2, <1>6, Zenon DEF TodoOK
  <2>3. \A i \in 1..n - 1 : 1 + i \in 1..n OBVIOUS
  <2>4. \A i \in 1..Len(todo') : \E j \in 1..Len(job'.shots) : todo'[i] = job'.shots[j]
    <3>1. job' = job /\ Len(todo') = n - 1 BY <1>7
    <3>2. ASSUME NEW i \in 1..n - 1 PROVE \E j \in 1..Len(job.shots) : todo'[i] = job.shots[j]
      <4>1. todo'[i] = todo[1 + i] BY <1>7
      <4>2. QED BY <2>2, <2>3, <4>1
    <3>3. QED BY <3>1, <3>2
  <2>5. QED BY <2>1, <2>4, Zenon DEF TodoOK
<1>10. FileOK' BY FileOKKept
<1>11. Sound' => HeadersFit' BY <1>2, FitKept
<1>12. QED BY <1>8, <1>9, <1>10, <1>11, Zenon DEF WriterInv

\* What a writer keeps holds from the start.
LEMMA WriterStarts ==
  ASSUME WriterInit
  PROVE  WriterInv
<1>1. /\ job \in Jobs /\ todo = job.shots /\ obs_lines = job.truth /\ line_width = -1
      /\ frame_id = 0 /\ file = << >> /\ stim = "well" /\ phase = "start" /\ ends = << >>
  BY Zenon DEF WriterInit
<1>2. WriterTypes BY <1>1, WritersAssumption DEF WriterTypes
<1>3. TodoOK BY <1>1 DEF TodoOK
<1>4. FileOK
  <2>1. Layout(FileHeader, << >>, FileHeaderLen) /\ Layout(<< >>, << >>, 0) BY EmptyLayout
  <2>2. Layout(Prefix, ends, Base)
    <3>1. CASE job.program = "record" BY <1>1, <2>1, <3>1, Zenon DEF Prefix, Base
    <3>2. CASE job.program # "record" BY <1>1, <2>1, <3>2, Zenon DEF Prefix, Base
    <3>3. QED BY <3>1, <3>2
  <2>3. Len(ends) = frame_id /\ phase # "write" BY <1>1
  <2>4. QED BY <1>1, <2>2, <2>3, Zenon DEF FileOK
<1>5. HeadersFit BY <1>1 DEF HeadersFit
<1>6. QED BY <1>2, <1>3, <1>4, <1>5, Zenon DEF WriterInv

\* Every step of a writer keeps what it keeps.
LEMMA WriterKeeps ==
  ASSUME WriterInv, WriterNext
  PROVE  WriterInv'
<1>1. CASE Start BY <1>1, StartKeeps
<1>2. CASE StimObsFails BY <1>2, ObsFailsKeeps
<1>3. CASE StimDies BY <1>3, DiesKeeps
<1>4. CASE ImportFrame BY <1>4, ImportPuts, PutKeeps
<1>5. CASE ServeLine BY <1>5, ServePuts, PutKeeps
<1>6. CASE ServeSample BY <1>6, SamplePuts, PutKeeps
<1>7. CASE ExportOne BY <1>7, ExportPuts, PutKeeps
<1>8. CASE RecordOne BY <1>8, RecordPuts, PutKeeps
<1>9. CASE PythonFrame BY <1>9, PythonPuts, PutKeeps, StopKeeps
<1>10. CASE Finish BY <1>10, FinishKeeps
<1>11. QED BY <1>1, <1>2, <1>3, <1>4, <1>5, <1>6, <1>7, <1>8, <1>9, <1>10, Zenon DEF WriterNext

\* Nor is it lost where the writer does nothing.
LEMMA WriterRests ==
  ASSUME WriterInv, UNCHANGED writer
  PROVE  WriterInv'
<1>1. /\ job' = job /\ todo' = todo /\ obs_lines' = obs_lines /\ line_width' = line_width
      /\ frame_id' = frame_id /\ file' = file /\ stim' = stim /\ phase' = phase /\ ends' = ends
  BY DEF writer
<1>2. WriterTypes /\ TodoOK BY DEF WriterInv
<1>3. WriterTypes' BY <1>1, <1>2, Zenon DEF WriterTypes, LineByLine, Importers
<1>4. TodoOK' BY <1>1, <1>2, Zenon DEF TodoOK, StreamsStim
<1>5. FileOK' BY <1>1, FileOKKept
<1>6. Sound' => HeadersFit' BY <1>1, FitKept
<1>7. QED BY <1>3, <1>4, <1>5, <1>6, Zenon DEF WriterInv

-----------------------------------------------------------------------------
(* The frames of a part of a file *)

\* The frames that end within the first n bytes are those up to one of them.
LEMMA FramesUpTo ==
  ASSUME NEW es \in Seq(Nat), NEW base \in Nat, Ascend(es, base), NEW n \in Nat, NEW q \in 0..Len(es),
         q = 0 \/ es[q] <= n, q < Len(es) => n < es[q + 1]
  PROVE  Cardinality({k \in DOMAIN es : es[k] <= n}) = q
<1>1. PICK l \in Nat : l = Len(es) /\ DOMAIN es = 1..l BY LenProperties
<1>2. ASSUME NEW k \in 1..l PROVE es[k] <= n <=> k <= q
  <2>1. es[k] \in Nat BY <1>1, ElementOfSeq
  <2>2. CASE k <= q
    <3>1. q \in 1..Len(es) /\ k \in 1..Len(es) /\ q # 0 BY <1>1, <2>2
    <3>2. es[k] <= es[q] /\ es[q] \in Nat BY <2>2, <3>1, LaterEnds
    <3>3. es[q] <= n BY <3>1
    <3>4. QED BY <2>1, <2>2, <3>2, <3>3
  <2>3. CASE ~ k <= q
    <3>1. q + 1 \in 1..Len(es) /\ k \in 1..Len(es) /\ q + 1 <= k /\ q < Len(es) BY <1>1, <2>3
    <3>2. es[q + 1] <= es[k] /\ es[q + 1] \in Nat BY <3>1, LaterEnds
    <3>3. n < es[q + 1] BY <3>1
    <3>4. QED BY <2>1, <2>3, <3>2, <3>3
  <2>4. QED BY <2>2, <2>3
<1>3. {k \in DOMAIN es : es[k] <= n} = 1..q BY <1>1, <1>2
<1>4. Cardinality(1..q) = q BY FS_Interval
<1>5. QED BY <1>3, <1>4

\* Where a frame begins in the file, as data.
LEMMA FrameFound ==
  ASSUME NEW bytes, NEW es, NEW base, Layout(bytes, es, base), NEW k \in 1..Len(es)
  PROVE  \E f \in FrameData :
           /\ Readable(bytes, StartAt(es, base, k), f)
           /\ StartAt(es, base, k) \in Nat /\ es[k] = StartAt(es, base, k) + LengthOf(f)
           /\ es[k] <= Len(bytes) /\ IsFrame(bytes, es, base, k, f)
<1>1. \E f : IsFrame(bytes, es, base, k, f) BY Zenon DEF Layout
<1>2. PICK f : IsFrame(bytes, es, base, k, f) BY <1>1
<1>3. /\ f \in FrameData /\ Readable(bytes, StartAt(es, base, k), f)
      /\ FrameAt(bytes, StartAt(es, base, k), f) BY <1>2, SaidEndIs
<1>4. es \in Seq(Nat) /\ base \in Nat /\ Ascend(es, base) /\ bytes \in Seq(Cell) BY Zenon DEF Layout
<1>5. StartAt(es, base, k) \in Nat BY <1>4, LenProperties, Starts
<1>6. es[k] = StartAt(es, base, k) + LengthOf(f) BY <1>2, Zenon DEF IsFrame
<1>7. es[k] <= Len(bytes) BY <1>3, <1>6, Zenon DEF FrameAt
<1>8. QED BY <1>2, <1>3, <1>5, <1>6, <1>7

\* What is there in the bytes is there in the first of them, up to their end.
LEMMA HoldsInPart ==
  ASSUME NEW bytes \in Seq(Cell), NEW size \in 0..Len(bytes), NEW p \in Nat, NEW part, NEW n \in Nat
  PROVE  /\ Len(SubSeq(bytes, 1, size)) = size
         /\ \A i \in 1..size : SubSeq(bytes, 1, size)[i] = bytes[i]
         /\ Holds(SubSeq(bytes, 1, size), p, part, n) <=> p + n <= size /\ Holds(bytes, p, part, n)
         /\ p + 1 <= size => ValueAt(SubSeq(bytes, 1, size), p) = ValueAt(bytes, p)
<1>1. PICK m \in Nat : m = Len(bytes) /\ size \in 0..m BY LenProperties
<1>2. PICK b : b = SubSeq(bytes, 1, size) OBVIOUS
<1>3. Len(b) = size /\ \A i \in 1..size : b[i] = bytes[i] BY <1>1, <1>2
<1>4. Holds(b, p, part, n) <=> p + n <= size /\ Holds(bytes, p, part, n)
  <2>1. p + n <= size => p + n <= m BY <1>1
  <2>2. p + n <= size => \A k \in 1..n : p + k \in 1..size BY <1>1
  <2>3. p + n <= size => \A k \in 1..n : b[p + k] = bytes[p + k] BY <1>3, <2>2
  <2>4. Holds(b, p, part, n) <=> p + n <= size /\ \A k \in 1..n : b[p + k][1] = part /\ b[p + k][2] = k
    BY <1>3, Zenon DEF Holds
  <2>5. Holds(bytes, p, part, n) <=> p + n <= m /\ \A k \in 1..n : bytes[p + k][1] = part /\ bytes[p + k][2] = k
    BY <1>1, Zenon DEF Holds
  <2>6. QED BY <2>1, <2>3, <2>4, <2>5, Zenon
<1>5. p + 1 <= size => ValueAt(b, p) = ValueAt(bytes, p) BY <1>1, <1>3 DEF ValueAt
<1>6. QED BY <1>2, <1>3, <1>4, <1>5, Zenon

\* A header says a length.
LEMMA HeaderValue ==
  ASSUME NEW bytes \in Seq(Cell), NEW p \in Nat, Holds(bytes, p, "header", FrameHeaderLen)
  PROVE  ValueAt(bytes, p) \in Header /\ ValueAt(bytes, p).payload_len \in Nat /\ p + FrameHeaderLen <= Len(bytes)
<1>1. PICK a \in Nat \ {0}, m \in Nat : a = FrameHeaderLen /\ m = Len(bytes)
  BY Lengths, LenProperties
<1>2. p + a <= m /\ \A k \in 1..a : bytes[p + k][1] = "header" /\ bytes[p + k][2] = k
  BY <1>1, Zenon DEF Holds
<1>3. 1 \in 1..a /\ p + 1 \in 1..Len(bytes) BY <1>1, <1>2
<1>4. bytes[p + 1] \in Cell /\ bytes[p + 1][1] = "header" BY <1>2, <1>3, ElementOfSeq
<1>5. ValueAt(bytes, p) \in Header BY <1>4, CellValues DEF ValueAt
<1>6. ValueAt(bytes, p).payload_len \in Nat BY <1>5 DEF Header
<1>7. QED BY <1>1, <1>2, <1>5, <1>6

\* What the next frame of a reader by lengths is, case by case.
LEMMA NextIs ==
  ASSUME NEW bytes \in Seq(Cell), NEW p \in Nat, NEW next, next = ReadNextFrame(bytes, p),
         NEW end, end = p + FrameHeaderLen + ValueAt(bytes, p).payload_len + TerminatorLen
  PROVE  /\ p + FrameHeaderLen > Len(bytes) => next = Outcome("end", << >>, p)
         /\ p + FrameHeaderLen <= Len(bytes) /\ ~ Holds(bytes, p, "header", FrameHeaderLen) =>
              next = Outcome("adrift", << >>, p)
         /\ Holds(bytes, p, "header", FrameHeaderLen) =>
              /\ end \in Nat /\ p + FrameHeaderLen <= Len(bytes) /\ p + FrameHeaderLen + TerminatorLen <= end
              /\ end > Len(bytes) => next = Outcome("error", << >>, p)
              /\ end <= Len(bytes) /\ Holds(bytes, end - TerminatorLen, "terminator", TerminatorLen) =>
                   next = Outcome("frame", SubSeq(bytes, p + 1, end), end)
              /\ end <= Len(bytes) /\ ~ Holds(bytes, end - TerminatorLen, "terminator", TerminatorLen) =>
                   next = Outcome("adrift", << >>, p)
<1>1. PICK a \in Nat \ {0}, t \in Nat \ {0}, m \in Nat : a = FrameHeaderLen /\ t = TerminatorLen /\ m = Len(bytes)
  BY Lengths, LenProperties
<1>2. PICK holds \in BOOLEAN : holds = Holds(bytes, p, "header", FrameHeaderLen) BY DEF Holds
<1>3. PICK ends_there \in BOOLEAN : ends_there = Holds(bytes, end - TerminatorLen, "terminator", TerminatorLen)
  BY DEF Holds
<1>4. next = CASE p + a > m -> Outcome("end", << >>, p)
               [] p + a <= m /\ ~ holds -> Outcome("adrift", << >>, p)
               [] holds /\ end > m -> Outcome("error", << >>, p)
               [] holds /\ end <= m -> IF ends_there THEN Outcome("frame", SubSeq(bytes, p + 1, end), end)
                                       ELSE Outcome("adrift", << >>, p)
  BY <1>1, <1>2, <1>3 DEF ReadNextFrame
<1>5. p + a \in Nat /\ (p + a > m <=> ~ p + a <= m) OBVIOUS
<1>6. holds => end \in Nat /\ p + a <= m /\ p + a + t <= end
  <2>1. ASSUME holds PROVE end \in Nat /\ p + a <= m /\ p + a + t <= end
    <3>1. /\ ValueAt(bytes, p).payload_len \in Nat /\ p + a <= m BY <1>1, <1>2, <2>1, HeaderValue
    <3>2. PICK len \in Nat : len = ValueAt(bytes, p).payload_len BY <3>1
    <3>3. end = p + a + len + t BY <1>1, <3>2
    <3>4. QED BY <3>1, <3>3
  <2>2. QED BY <2>1
<1>7. holds => (end > m <=> ~ end <= m) BY <1>6
<1>8. p + a > m => next = Outcome("end", << >>, p) BY <1>4, <1>5, <1>6
<1>9. p + a <= m /\ ~ holds => next = Outcome("adrift", << >>, p) BY <1>4, <1>5
<1>10. holds /\ end > m => next = Outcome("error", << >>, p) BY <1>4, <1>5, <1>6, <1>7
<1>11. holds /\ end <= m /\ ends_there => next = Outcome("frame", SubSeq(bytes, p + 1, end), end)
  BY <1>4, <1>5, <1>6, <1>7
<1>12. holds /\ end <= m /\ ~ ends_there => next = Outcome("adrift", << >>, p)
  BY <1>4, <1>5, <1>6, <1>7
<1>13. QED BY <1>1, <1>2, <1>3, <1>6, <1>8, <1>9, <1>10, <1>11, <1>12, Zenon

\* Wherever it reads, a reader by lengths does not go back, nor beyond the end.
LEMMA NextInside ==
  ASSUME NEW bytes \in Seq(Cell), NEW p \in 0..Len(bytes), NEW next, next = ReadNextFrame(bytes, p)
  PROVE  /\ next.status \in {"frame", "end", "error", "adrift"}
         /\ next.at \in 0..Len(bytes)
<1>1. PICK a \in Nat \ {0}, m \in Nat : a = FrameHeaderLen /\ m = Len(bytes)
  BY Lengths, LenProperties
<1>2. p \in 0..m /\ p \in Nat BY <1>1
<1>3. PICK end : end = p + FrameHeaderLen + ValueAt(bytes, p).payload_len + TerminatorLen OBVIOUS
<1>4. \/ next = Outcome("end", << >>, p) \/ next = Outcome("adrift", << >>, p) \/ next = Outcome("error", << >>, p)
      \/ next = Outcome("frame", SubSeq(bytes, p + 1, end), end) /\ end \in Nat /\ end <= m
  <2>1. p + a > m \/ p + a <= m BY <1>1, <1>2
  <2>2. CASE Holds(bytes, p, "header", FrameHeaderLen) BY <1>1, <1>2, <1>3, <2>2, NextIs
  <2>3. CASE ~ Holds(bytes, p, "header", FrameHeaderLen) BY <1>1, <1>2, <1>3, <2>3, <2>1, NextIs
  <2>4. QED BY <2>2, <2>3
<1>5. QED BY <1>1, <1>2, <1>4 DEF Outcome

\* What a reader by lengths finds in the first bytes of a file, from the beginning of a frame on,
\* when every header says where its frame ends, or of the last one a later place.
LEMMA NextOfPart ==
  ASSUME NEW bytes, NEW es, NEW base, Layout(bytes, es, base), NEW size \in 0..Len(bytes), NEW q \in 0..Len(es),
         NEW p, p = StartAt(es, base, q + 1), p <= size, NEW failed \in BOOLEAN,
         \A k \in 1..Len(es) : \/ SaidEnd(bytes, es, base, k) = es[k]
                               \/ failed /\ k = Len(es) /\ SaidEnd(bytes, es, base, k) > es[k],
         NEW next, next = ReadNextFrame(SubSeq(bytes, 1, size), p)
  PROVE  \/ next.status = "frame" /\ q < Len(es) /\ next.at = es[q + 1] /\ es[q + 1] <= size
         \/ next.status = "end" /\ next.at = p /\ (q < Len(es) => size < es[q + 1])
         \/ next.status = "error" /\ next.at = p /\ (failed \/ \A j \in 1..Len(es) : size # es[j])
<1>1. /\ bytes \in Seq(Cell) /\ es \in Seq(Nat) /\ base \in Nat /\ Ascend(es, base)
      /\ Len(bytes) = StartAt(es, base, Len(es) + 1) BY Zenon DEF Layout
<1>2. PICK n \in Nat, m \in Nat, a \in Nat \ {0}, t \in Nat \ {0} :
        n = Len(es) /\ m = Len(bytes) /\ a = FrameHeaderLen /\ t = TerminatorLen
  BY <1>1, Lengths, LenProperties
<1>3. p \in Nat BY <1>2, <1>1, Starts
<1>4. PICK b : b = SubSeq(bytes, 1, size) OBVIOUS
<1>5. b \in Seq(Cell) /\ Len(b) = size
  <2>1. Len(b) = size /\ \A i \in 1..size : b[i] = bytes[i] BY <1>1, <1>2, <1>3, <1>4, HoldsInPart
  <2>2. \A i \in 1..size : bytes[i] \in Cell BY <1>1, <1>2, ElementOfSeq
  <2>3. b \in Seq(Cell) BY <1>1, <1>2, <1>4, <2>2
  <2>4. QED BY <2>1, <2>3
<1>6. /\ size \in 0..m /\ q \in 0..n
      /\ next = ReadNextFrame(b, p) BY <1>2, <1>4
<1>7. CASE p + a > size
  <2>1. next = Outcome("end", << >>, p)
    <3>1. PICK end : end = p + FrameHeaderLen + ValueAt(b, p).payload_len + TerminatorLen OBVIOUS
    <3>2. p + FrameHeaderLen > Len(b) BY <1>2, <1>5, <1>7
    <3>3. p + FrameHeaderLen > Len(b) => next = Outcome("end", << >>, p)
      BY <1>3, <1>5, <1>6, <3>1, NextIs
    <3>4. QED BY <3>2, <3>3, Zenon
  <2>2. q < n => size < es[q + 1]
    <3>1. ASSUME q < n PROVE size < es[q + 1]
      <4>1. q + 1 \in 1..Len(es) BY <1>2, <3>1
      <4>2. PICK f \in FrameData : es[q + 1] = StartAt(es, base, q + 1) + LengthOf(f)
        BY <4>1, FrameFound
      <4>3. PICK len \in Nat : len = LengthOf(f) /\ a <= len
        <5>1. /\ TerminatorOf(f) \in Nat /\ MeasOf(f) \in Nat /\ BlocksOf(f) \in Nat
              /\ Len(f.de) \in Nat /\ Len(f.meas) \in Nat /\ Len(f.blocks) \in Nat /\ LengthOf(f) \in Nat
          BY FrameTypes
        <5>2. PICK pre \in Nat : pre = PrefixLen BY Lengths
        <5>3. PICK x \in Nat, y \in Nat, z \in Nat : x = Len(f.de) /\ y = Len(f.meas) /\ z = Len(f.blocks)
          BY <5>1
        <5>4. LengthOf(f) = a + pre + x + y + z + t
          BY <1>2, <5>2, <5>3, Zenon DEF LengthOf, TerminatorOf, BlocksOf, MeasOf, RleAt
        <5>5. QED BY <5>1, <5>4
      <4>4. es[q + 1] = p + len BY <4>2, <4>3, Zenon
      <4>5. QED BY <1>3, <1>6, <1>7, <4>3, <4>4
    <3>2. QED BY <3>1
  <2>3. QED BY <1>2, <2>1, <2>2 DEF Outcome
<1>8. CASE ~ p + a > size
  <2>1. p + a <= size /\ p + 1 <= size BY <1>2, <1>3, <1>6, <1>8
  <2>2. q < n
    <3>1. ASSUME q = n PROVE FALSE BY <1>1, <1>2, <3>1, <1>6, <2>1
    <3>2. QED BY <1>6, <3>1
  <2>3. q + 1 \in 1..Len(es) BY <1>2, <1>6, <2>2
  <2>4. PICK f \in FrameData : Readable(bytes, p, f) /\ es[q + 1] = p + LengthOf(f) /\ es[q + 1] <= m
    BY <1>2, <2>3, FrameFound
  <2>5. PICK k \in Nat : k = TerminatorOf(f) /\ LengthOf(f) = k + t
    BY <1>2, FrameTypes, Zenon DEF LengthOf
  <2>6. Holds(b, p, "header", FrameHeaderLen)
    BY <2>4, <1>2, <2>1, <1>1, <1>3, <1>4, HoldsInPart DEF Readable
  <2>7. ValueAt(b, p) = ValueAt(bytes, p) BY <1>2, <1>3, <2>1, <1>1, <1>4, HoldsInPart
  <2>8. PICK end : end = p + FrameHeaderLen + ValueAt(b, p).payload_len + TerminatorLen OBVIOUS
  <2>9. end = SaidEnd(bytes, es, base, q + 1) BY <2>7, <2>8, Zenon DEF SaidEnd
  <2>10. /\ end \in Nat
         /\ end > size => next = Outcome("error", << >>, p)
         /\ end <= size /\ Holds(b, end - TerminatorLen, "terminator", TerminatorLen) =>
              next = Outcome("frame", SubSeq(b, p + 1, end), end)
    BY <1>3, <1>5, <1>6, <2>6, <2>8, NextIs
  <2>11. es[q + 1] = p + (k + t) BY <2>4, <2>5, Zenon
  <2>12. CASE end = es[q + 1] /\ end <= size
    <3>1. end - TerminatorLen = p + k BY <1>2, <1>3, <2>5, <2>11, <2>12
    <3>2. Holds(bytes, p + k, "terminator", TerminatorLen) BY <2>4, <2>5, Zenon DEF Readable
    <3>3. p + k + TerminatorLen <= size /\ p + k \in Nat /\ TerminatorLen \in Nat
      BY <1>2, <1>3, <2>5, <2>11, <2>12
    <3>4. Holds(b, p + k, "terminator", TerminatorLen) BY <1>1, <1>4, <3>2, <3>3, HoldsInPart
    <3>5. next = Outcome("frame", SubSeq(b, p + 1, end), end) BY <2>10, <2>12, <3>1, <3>4
    <3>6. QED BY <1>2, <2>2, <2>12, <3>5 DEF Outcome
  <2>13. CASE end = es[q + 1] /\ end > size
    <3>1. next = Outcome("error", << >>, p) BY <2>10, <2>13
    <3>2. ASSUME NEW j \in 1..Len(es) PROVE size # es[j]
      <4>1. es[j] \in Nat /\ es[q + 1] \in Nat /\ (es[q + 1] <= es[j] <=> q + 1 <= j)
        BY <1>1, <2>3, LaterEnds
      <4>2. CASE q + 1 <= j BY <1>6, <2>13, <4>1, <4>2
      <4>3. CASE ~ q + 1 <= j
        <5>1. q \in 1..Len(es) /\ j <= q /\ q + 1 # 1 /\ (q + 1) - 1 = q BY <1>2, <1>6, <4>3
        <5>2. es[j] <= es[q] /\ es[q] \in Nat BY <1>1, <5>1, LaterEnds
        <5>3. es[q] = p BY <5>1, Zenon DEF StartAt
        <5>4. QED BY <1>2, <1>3, <1>6, <2>1, <4>1, <5>2, <5>3
      <4>4. QED BY <4>2, <4>3
    <3>3. QED BY <3>1, <3>2 DEF Outcome
  <2>14. CASE failed /\ q + 1 = Len(es) /\ end > es[q + 1]
    <3>1. q + 1 = n /\ n + 1 # 1 /\ (n + 1) - 1 = n BY <1>2, <2>14
    <3>2. m = es[n] BY <1>1, <1>2, <3>1, Zenon DEF StartAt
    <3>3. end > size BY <1>6, <2>10, <2>14, <3>1, <3>2
    <3>4. next = Outcome("error", << >>, p) BY <2>10, <3>3
    <3>5. QED BY <2>14, <3>4 DEF Outcome
  <2>15. end <= size \/ end > size BY <1>6, <2>10
  <2>16. \/ end = es[q + 1]
         \/ failed /\ q + 1 = Len(es) /\ end > es[q + 1] BY <2>3, <2>9
  <2>17. QED BY <2>12, <2>13, <2>14, <2>15, <2>16
<1>9. QED BY <1>7, <1>8

-----------------------------------------------------------------------------
(* What the analysis keeps *)

AnalysisTypes ==
  /\ analysis \in {"none", "frames", "done", "error", "adrift"} /\ frames_processed \in Nat
  /\ cut \in 0..Len(file) /\ at \in 0..cut
  /\ analysis = "none" => at = 0 /\ frames_processed = 0 /\ cut = 0
  /\ analysis # "none" => reader = "analyze" /\ Ended
  /\ analysis = "frames" => Prefix = file
  /\ window # << >> <=> frames_processed > 0
  /\ report # NoReport => analysis = "done"

\* It is at the beginning of a frame, all before it were read, or the file has not even a header.
ReadInv ==
  /\ analysis # "adrift" /\ frames_processed <= Len(ends)
  /\ \/ analysis = "none"
     \/ at = StartAt(ends, Base, frames_processed + 1)
     \/ analysis = "error" /\ at = 0 /\ frames_processed = 0
  /\ analysis = "frames" => at = StartAt(ends, Base, frames_processed + 1)
  /\ analysis = "done" => FramesIn(cut) = frames_processed
  /\ analysis = "error" => cut \notin Range(ends) \/ stim = "failed"

AnalysisInv == AnalysisTypes /\ (Sound => ReadInv)

\* What is known of the ends of the frames.
LEMMA EndsAscend ==
  ASSUME WriterInv
  PROVE  /\ ends \in Seq(Nat) /\ Base \in Nat /\ Ascend(ends, Base) /\ Layout(Prefix, ends, Base)
         /\ Len(ends) = frame_id /\ Len(ends) \in Nat /\ file \in Seq(Cell) /\ Len(file) \in Nat
         /\ Range(ends) = {ends[k] : k \in 1..Len(ends)}
<1>1. Layout(Prefix, ends, Base) /\ Len(ends) = frame_id BY Zenon DEF WriterInv, FileOK
<1>2. ends \in Seq(Nat) /\ Base \in Nat /\ Ascend(ends, Base) /\ Prefix \in Seq(Cell)
  BY <1>1, Zenon DEF Layout
<1>3. file \in Seq(Cell)
  <2>1. CASE file = << >> BY <2>1
  <2>2. CASE file # << >> BY <1>2, <2>2 DEF Prefix
  <2>3. QED BY <2>1, <2>2
<1>4. Range(ends) = {ends[k] : k \in 1..Len(ends)} /\ Len(ends) \in Nat
  BY <1>2, LenProperties DEF Range
<1>5. Len(file) \in Nat BY <1>3, LenProperties
<1>6. QED BY <1>1, <1>2, <1>3, <1>4, <1>5

\* A writer that has ended does no more.
LEMMA WriterStops ==
  ASSUME WriterNext
  PROVE  ~ Ended
BY DEF WriterNext, Start, StimObsFails, StimDies, ImportFrame, ServeLine, ServeSample, ExportOne, RecordOne,
       PythonFrame, Finish, Ended

\* Whether the frames say what their headers say is a matter of the writer alone.
LEMMA SoundStays ==
  ASSUME UNCHANGED writer
  PROVE  (Sound' <=> Sound) /\ Base' = Base /\ Prefix' = Prefix /\ (Ended' <=> Ended)
<1>1. job' = job /\ line_width' = line_width /\ file' = file /\ phase' = phase BY DEF writer
<1>2. Sound' <=> SoundJob /\ (line_width' # -1 => line_width' \in Widths) BY <1>1, SoundNext, Zenon
<1>3. Sound' <=> Sound BY <1>1, <1>2, SoundIs, Zenon
<1>4. Base' = Base /\ Prefix' = Prefix /\ (Ended' <=> Ended) BY <1>1, Zenon DEF Base, Prefix, Ended
<1>5. QED BY <1>3, <1>4

\* While the writer writes, the analysis waits.
LEMMA WritingKeeps ==
  ASSUME WriterInv, WriterInv', AnalysisInv, WriterNext, UNCHANGED <<replay, reader, cut>>
  PROVE  AnalysisInv'
<1>1. AnalysisTypes BY DEF AnalysisInv
<1>2. ~ Ended BY WriterStops
<1>3. analysis = "none" BY <1>1, <1>2, Zenon DEF AnalysisTypes
<1>4. /\ analysis' = "none" /\ at' = 0 /\ frames_processed' = 0 /\ cut' = 0
      /\ window' = window /\ report' = report BY <1>1, <1>3 DEF AnalysisTypes, replay
<1>5. window = << >> /\ report = NoReport BY <1>1, <1>3 DEF AnalysisTypes
<1>6. Len(file)' \in Nat /\ Len(ends)' \in Nat
  <2>1. WriterInv' => (Len(file) \in Nat)' /\ (Len(ends) \in Nat)' BY EndsAscend, PTL
  <2>2. QED BY <2>1
<1>7. AnalysisTypes'
  <2>1. cut' \in 0..Len(file') /\ at' \in 0..cut' /\ frames_processed' \in Nat BY <1>4, <1>6
  <2>2. ~ frames_processed' > 0 BY <1>4
  <2>3. analysis' # "frames" /\ analysis' \in {"none", "frames", "done", "error", "adrift"} BY <1>4
  <2>4. QED BY <1>4, <1>5, <2>1, <2>2, <2>3, Zenon DEF AnalysisTypes, NoReport
<1>8. ReadInv' BY <1>4, <1>6 DEF ReadInv
<1>9. QED BY <1>7, <1>8, Zenon DEF AnalysisInv

\* Nor do the steps of the other parts touch it.
LEMMA AnalysisRests ==
  ASSUME AnalysisInv, UNCHANGED <<writer, replay, reader, cut>>
  PROVE  AnalysisInv'
<1>1. /\ analysis' = analysis /\ at' = at /\ frames_processed' = frames_processed /\ cut' = cut
      /\ window' = window /\ report' = report /\ reader' = reader
      /\ file' = file /\ ends' = ends /\ stim' = stim BY DEF replay, writer
<1>2. (Sound' <=> Sound) /\ Base' = Base /\ Prefix' = Prefix /\ (Ended' <=> Ended) BY SoundStays
<1>3. FramesIn(cut)' = FramesIn(cut) BY <1>1, Zenon DEF FramesIn
<1>4. Range(ends)' = Range(ends) BY <1>1, Zenon
<1>5. AnalysisTypes /\ (Sound => ReadInv) BY DEF AnalysisInv
<1>6. AnalysisTypes' BY <1>1, <1>2, <1>5, Zenon DEF AnalysisTypes, NoReport
<1>7. Sound' => ReadInv' BY <1>1, <1>2, <1>3, <1>4, <1>5, Zenon DEF ReadInv
<1>8. QED BY <1>6, <1>7, Zenon DEF AnalysisInv

\* A recording is opened.
LEMMA OpenKeeps ==
  ASSUME WriterInv, AnalysisInv, OpenRecording
  PROVE  AnalysisInv'
<1>1. /\ ends \in Seq(Nat) /\ Base \in Nat /\ Ascend(ends, Base) /\ Len(ends) \in Nat
      /\ file \in Seq(Cell) /\ Len(file) \in Nat
      /\ Range(ends) = {ends[k] : k \in 1..Len(ends)} BY EndsAscend
<1>2. /\ reader = "analyze" /\ Ended /\ reader' = reader /\ UNCHANGED writer
      /\ \E n \in IF job.program = "record" THEN {Len(file)} ELSE 0..Len(file) :
           /\ cut' = n
           /\ Open(SubSeq(file, 1, n), job.program = "record") BY Zenon DEF OpenRecording
<1>3. PICK n \in 0..Len(file) : cut' = n /\ Open(SubSeq(file, 1, n), job.program = "record")
  <2>1. CASE job.program = "record" BY <1>1, <1>2, <2>1
  <2>2. CASE job.program # "record" BY <1>2, <2>2
  <2>3. QED BY <2>1, <2>2
<1>4. PICK headless \in BOOLEAN : headless = (job.program = "record") OBVIOUS
<1>5. /\ analysis = "none"
      /\ IF headless \/ Len(SubSeq(file, 1, n)) >= FileHeaderLen
         THEN analysis' = "frames" /\ at' = (IF headless THEN 0 ELSE FileHeaderLen)
         ELSE analysis' = "error" /\ at' = at
      /\ window' = window /\ frames_processed' = frames_processed /\ report' = report
  BY <1>3, <1>4, Zenon DEF Open
<1>6. PICK h \in Nat, m \in Nat : h = FileHeaderLen /\ m = Len(file) BY <1>1, Lengths
<1>7. Len(SubSeq(file, 1, n)) = n /\ n \in 0..m BY <1>1, <1>3, <1>6, HoldsInPart
<1>8. AnalysisTypes BY DEF AnalysisInv
<1>9. at = 0 /\ frames_processed = 0 /\ window = << >> /\ report = NoReport
  BY <1>5, <1>8 DEF AnalysisTypes
<1>10. frames_processed' = 0 /\ window' = << >> /\ report' = NoReport BY <1>5, <1>9
<1>11. Base' = Base /\ Prefix' = Prefix /\ (Ended' <=> Ended) /\ file' = file /\ ends' = ends /\ stim' = stim
  BY <1>2, SoundStays DEF writer
<1>12. Base = IF headless THEN 0 ELSE h BY <1>4, <1>6, Zenon DEF Base
<1>13. CASE headless \/ n >= h
  <2>1. analysis' = "frames" /\ at' = Base BY <1>5, <1>6, <1>7, <1>12, <1>13
  <2>2. Prefix = file
    <3>1. CASE headless BY <1>4, <3>1, Zenon DEF Prefix
    <3>2. CASE ~ headless
      <4>1. h > 0 BY <1>6, Lengths
      <4>2. n > 0 /\ m > 0 BY <1>7, <1>13, <3>2, <4>1
      <4>3. file # << >> BY <1>6, <4>2
      <4>4. QED BY <4>3, Zenon DEF Prefix
    <3>3. QED BY <3>1, <3>2
  <2>3. at' \in 0..n BY <1>7, <1>12, <1>13, <2>1
  <2>4. AnalysisTypes'
    <3>1. cut' \in 0..Len(file') /\ at' \in 0..cut' /\ frames_processed' \in Nat /\ ~ frames_processed' > 0
      BY <1>3, <1>10, <1>11, <2>3
    <3>2. analysis' \in {"none", "frames", "done", "error", "adrift"} /\ analysis' # "none" BY <2>1
    <3>3. Prefix' = file' BY <1>11, <2>2
    <3>4. QED BY <1>2, <1>10, <1>11, <3>1, <3>2, <3>3, Zenon DEF AnalysisTypes, NoReport
  <2>5. ReadInv'
    <3>1. StartAt(ends', Base', frames_processed' + 1) = Base BY <1>10, <1>11 DEF StartAt
    <3>2. frames_processed' <= Len(ends') BY <1>1, <1>10, <1>11
    <3>3. analysis' # "adrift" /\ analysis' # "done" /\ analysis' # "error" BY <2>1
    <3>4. QED BY <2>1, <3>1, <3>2, <3>3, Zenon DEF ReadInv
  <2>6. QED BY <2>4, <2>5, Zenon DEF AnalysisInv
<1>14. CASE ~ (headless \/ n >= h)
  <2>1. analysis' = "error" /\ at' = 0 /\ n < h /\ Base = h BY <1>5, <1>6, <1>7, <1>9, <1>12, <1>14
  <2>2. AnalysisTypes' BY <1>3, <1>7, <1>10, <1>11, <2>1, <1>2 DEF AnalysisTypes, NoReport
  <2>3. cut' \notin Range(ends)
    <3>1. ASSUME NEW k \in 1..Len(ends) PROVE ends[k] # n
      BY <1>1, <1>7, <2>1, ElementOfSeq DEF Ascend
    <3>2. QED BY <1>1, <1>3, <3>1
  <2>4. ReadInv'
    <3>1. frames_processed' <= Len(ends') BY <1>1, <1>10, <1>11
    <3>2. analysis' # "adrift" /\ analysis' # "done" /\ analysis' # "frames" BY <2>1
    <3>3. cut' \notin Range(ends') BY <1>11, <2>3
    <3>4. QED BY <1>10, <2>1, <3>1, <3>2, <3>3, Zenon DEF ReadInv
  <2>5. QED BY <2>2, <2>4, Zenon DEF AnalysisInv
<1>15. QED BY <1>13, <1>14

\* How far the frames go that are read.
LEMMA FramesAt ==
  ASSUME WriterInv, NEW q \in 0..Len(ends), NEW n \in Nat
  PROVE  /\ n = StartAt(ends, Base, q + 1) => FramesIn(n) = q
         /\ n >= StartAt(ends, Base, q + 1) /\ (q < Len(ends) => n < ends[q + 1]) => FramesIn(n) = q
         /\ n = 0 => FramesIn(n) = 0
<1>1. /\ ends \in Seq(Nat) /\ Base \in Nat /\ Ascend(ends, Base) /\ Len(ends) \in Nat BY EndsAscend
<1>2. PICK l \in Nat : l = Len(ends) BY <1>1
<1>3. q + 1 \in 1..Len(ends) + 1 /\ q \in 0..l BY <1>2
<1>4. /\ StartAt(ends, Base, q + 1) \in Nat
      /\ q + 1 \in 1..Len(ends) => ends[q + 1] \in Nat /\ StartAt(ends, Base, q + 1) < ends[q + 1]
  BY <1>1, <1>3, Starts
<1>5. q < Len(ends) => q + 1 \in 1..Len(ends) BY <1>2, <1>3
<1>6. q # 0 => StartAt(ends, Base, q + 1) = ends[q] BY <1>3 DEF StartAt
<1>7. ASSUME n >= StartAt(ends, Base, q + 1), q < Len(ends) => n < ends[q + 1]
      PROVE  FramesIn(n) = q BY <1>4, <1>6, <1>7, <1>1, FramesUpTo DEF FramesIn
<1>8. ASSUME n = StartAt(ends, Base, q + 1) PROVE FramesIn(n) = q BY <1>4, <1>8, <1>5, <1>7
<1>9. ASSUME n = 0 PROVE FramesIn(n) = 0
  <2>1. 0 \in 0..Len(ends) /\ (0 < Len(ends) => 1 \in 1..Len(ends)) BY <1>1
  <2>2. 1 \in 1..Len(ends) => Base < ends[1] /\ ends[1] \in Nat BY <1>1, ElementOfSeq DEF Ascend
  <2>3. 0 < Len(ends) => n < ends[0 + 1] BY <1>1, <1>9, <2>1, <2>2
  <2>4. Cardinality({k \in DOMAIN ends : ends[k] <= n}) = 0 BY <1>1, <2>1, <2>3, FramesUpTo
  <2>5. QED BY <2>4, Zenon DEF FramesIn
<1>10. QED BY <1>7, <1>8, <1>9

\* A frame is read, or the end of the recording, or an error.
LEMMA TurnKeeps ==
  ASSUME WriterInv, AnalysisInv, AnalyzeTurn
  PROVE  AnalysisInv'
<1>1. /\ ends \in Seq(Nat) /\ Base \in Nat /\ Ascend(ends, Base) /\ Len(ends) \in Nat
      /\ file \in Seq(Cell) /\ Len(file) \in Nat /\ Layout(Prefix, ends, Base)
      /\ Range(ends) = {ends[k] : k \in 1..Len(ends)} BY EndsAscend
<1>2. /\ Turn(SubSeq(file, 1, cut)) /\ UNCHANGED writer /\ reader' = reader /\ cut' = cut
  BY Zenon DEF AnalyzeTurn, Recorded
<1>3. AnalysisTypes BY DEF AnalysisInv
<1>4. analysis = "frames" /\ reader = "analyze" /\ Ended /\ Prefix = file /\ report = NoReport
  BY <1>2, <1>3 DEF Turn, AnalysisTypes
<1>5. cut \in 0..Len(file) /\ at \in 0..cut /\ frames_processed \in Nat /\ (window # << >> <=> frames_processed > 0)
  BY <1>3, Zenon DEF AnalysisTypes
<1>6. PICK b : b = SubSeq(file, 1, cut) OBVIOUS
<1>7. b \in Seq(Cell) /\ Len(b) = cut
  <2>1. 0 \in Nat OBVIOUS
  <2>2. Len(b) = cut BY <1>1, <1>5, <1>6, <2>1, HoldsInPart
  <2>3. \A i \in 1..cut : file[i] \in Cell BY <1>1, <1>5, ElementOfSeq
  <2>4. b \in Seq(Cell) BY <1>1, <1>5, <1>6, <2>3
  <2>5. QED BY <2>2, <2>4
<1>8. PICK next : next = ReadNextFrame(b, at) OBVIOUS
<1>9. /\ at' = next.at
      /\ \/ /\ next.status = "frame" /\ frames_processed' = frames_processed + 1 /\ window' # << >>
            /\ analysis' = analysis /\ report' = report
         \/ /\ next.status = "end" /\ analysis' = "done"
            /\ window' = window /\ frames_processed' = frames_processed
         \/ /\ next.status \in {"error", "adrift"} /\ analysis' = next.status
            /\ window' = window /\ frames_processed' = frames_processed /\ report' = report
  <2>1. /\ at' = next.at
        /\ \/ /\ next.status = "frame"
              /\ Frame(next.frame)
              /\ UNCHANGED <<analysis, report>>
           \/ /\ next.status = "end"
              /\ analysis' = "done"
              /\ window' = window /\ frames_processed' = frames_processed
           \/ /\ next.status \in {"error", "adrift"}
              /\ analysis' = next.status
              /\ window' = window /\ frames_processed' = frames_processed /\ report' = report
    BY <1>2, <1>6, <1>8 DEF Turn
  <2>2. ASSUME Frame(next.frame) PROVE frames_processed' = frames_processed + 1 /\ window' # << >>
    <3>1. PICK pushed : window' = <<pushed>> /\ frames_processed' = frames_processed + 1
      BY <2>2, Zenon DEF Frame
    <3>2. QED BY <3>1
  <2>3. QED BY <2>1, <2>2
<1>10. next.status \in {"frame", "end", "error", "adrift"} /\ next.at \in 0..cut
  BY <1>5, <1>7, <1>8, NextInside
<1>11. /\ (Sound' <=> Sound) /\ Base' = Base /\ Prefix' = Prefix /\ (Ended' <=> Ended)
       /\ file' = file /\ ends' = ends /\ stim' = stim BY <1>2, SoundStays DEF writer
<1>12. AnalysisTypes'
  <2>1. cut' \in 0..Len(file') /\ at' \in 0..cut' /\ frames_processed' \in Nat
    BY <1>2, <1>5, <1>9, <1>10, <1>11
  <2>2. analysis' \in {"frames", "done", "error", "adrift"} /\ analysis' # "none" BY <1>4, <1>9
  <2>3. window' # << >> <=> frames_processed' > 0
    <3>1. CASE frames_processed' = frames_processed + 1 /\ window' # << >> BY <1>5, <3>1
    <3>2. CASE window' = window /\ frames_processed' = frames_processed BY <1>5, <3>2
    <3>3. QED BY <1>9, <3>1, <3>2
  <2>4. report' # NoReport => analysis' = "done" BY <1>4, <1>9
  <2>5. reader' = "analyze" /\ Ended' /\ Prefix' = file' BY <1>2, <1>4, <1>11
  <2>6. QED BY <2>1, <2>2, <2>3, <2>4, <2>5, Zenon DEF AnalysisTypes, NoReport
<1>13. ASSUME Sound' PROVE ReadInv'
  <2>1. HeadersFit /\ ReadInv BY <1>11, <1>13, Zenon DEF WriterInv, AnalysisInv
  <2>2. frames_processed \in 0..Len(ends) /\ at = StartAt(ends, Base, frames_processed + 1)
    BY <1>4, <2>1, <1>1, <1>5 DEF ReadInv
  <2>3. PICK failed \in BOOLEAN : failed = (stim = "failed") OBVIOUS
  <2>4. \A k \in 1..Len(ends) : \/ SaidEnd(file, ends, Base, k) = ends[k]
                                \/ failed /\ k = Len(ends) /\ SaidEnd(file, ends, Base, k) > ends[k]
    BY <2>1, <2>3, Zenon DEF HeadersFit
  <2>5. \/ next.status = "frame" /\ frames_processed < Len(ends) /\ next.at = ends[frames_processed + 1]
        \/ next.status = "end" /\ next.at = at /\ (frames_processed < Len(ends) => cut < ends[frames_processed + 1])
        \/ next.status = "error" /\ next.at = at /\ (failed \/ \A j \in 1..Len(ends) : cut # ends[j])
    <3>1. Layout(file, ends, Base) /\ at <= cut BY <1>1, <1>4, <1>5
    <3>2. next = ReadNextFrame(SubSeq(file, 1, cut), at) BY <1>6, <1>8
    <3>3. QED BY <1>5, <2>2, <2>4, <3>1, <3>2, NextOfPart
  <2>6. CASE /\ next.status = "frame" /\ frames_processed < Len(ends) /\ next.at = ends[frames_processed + 1]
    <3>1. frames_processed' = frames_processed + 1 /\ analysis' = "frames" /\ at' = ends[frames_processed + 1]
      BY <1>4, <1>9, <2>6
    <3>2. frames_processed' <= Len(ends') BY <1>1, <1>5, <1>11, <2>6, <3>1
    <3>3. frames_processed' + 1 # 1 /\ (frames_processed' + 1) - 1 = frames_processed + 1
      BY <1>5, <3>1
    <3>4. StartAt(ends', Base', frames_processed' + 1) = ends[frames_processed + 1]
      BY <1>11, <3>3, Zenon DEF StartAt
    <3>5. analysis' # "adrift" /\ analysis' # "done" /\ analysis' # "error" BY <3>1
    <3>6. QED BY <3>1, <3>2, <3>4, <3>5, Zenon DEF ReadInv
  <2>7. CASE /\ next.status = "end" /\ next.at = at
             /\ (frames_processed < Len(ends) => cut < ends[frames_processed + 1])
    <3>1. frames_processed' = frames_processed /\ analysis' = "done" /\ at' = at BY <1>9, <2>7
    <3>2. FramesIn(cut) = frames_processed BY <1>5, <2>2, <2>7, FramesAt
    <3>3. FramesIn(cut)' = FramesIn(cut) BY <1>2, <1>11, Zenon DEF FramesIn
    <3>4. frames_processed' <= Len(ends') BY <1>11, <2>2, <3>1
    <3>5. StartAt(ends', Base', frames_processed' + 1) = at' BY <1>11, <2>2, <3>1, Zenon
    <3>6. analysis' # "adrift" /\ analysis' # "frames" /\ analysis' # "error" BY <3>1
    <3>7. QED BY <3>1, <3>2, <3>3, <3>4, <3>5, <3>6, Zenon DEF ReadInv
  <2>8. CASE /\ next.status = "error" /\ next.at = at /\ (failed \/ \A j \in 1..Len(ends) : cut # ends[j])
    <3>1. frames_processed' = frames_processed /\ analysis' = "error" /\ at' = at BY <1>9, <2>8
    <3>2. cut \notin Range(ends) \/ stim = "failed" BY <1>1, <2>3, <2>8
    <3>3. cut' \notin Range(ends)' \/ stim' = "failed" BY <1>2, <1>11, <3>2
    <3>4. frames_processed' <= Len(ends') BY <1>11, <2>2, <3>1
    <3>5. StartAt(ends', Base', frames_processed' + 1) = at' BY <1>11, <2>2, <3>1, Zenon
    <3>6. analysis' # "adrift" /\ analysis' # "frames" /\ analysis' # "done" BY <3>1
    <3>7. QED BY <3>1, <3>3, <3>4, <3>5, <3>6, Zenon DEF ReadInv
  <2>9. QED BY <2>5, <2>6, <2>7, <2>8
<1>14. QED BY <1>12, <1>13, Zenon DEF AnalysisInv

\* What the property says follows.
LEMMA ReadingIs ==
  ASSUME WriterInv, AnalysisInv
  PROVE  ReadsAPrefix
<1>1. SUFFICES ASSUME reader = "analyze", Sound
               PROVE  /\ analysis # "adrift"
                      /\ frames_processed = FramesIn(at)
                      /\ analysis = "done" => frames_processed = FramesIn(cut)
                      /\ analysis = "error" => cut \notin Range(ends) \/ stim = "failed"
  BY DEF ReadsAPrefix
<1>2. AnalysisTypes /\ ReadInv BY <1>1 DEF AnalysisInv
<1>3. Len(ends) \in Nat BY EndsAscend
<1>4. frames_processed \in 0..Len(ends) /\ at \in Nat BY <1>2, <1>3 DEF AnalysisTypes, ReadInv
<1>5. \/ at = 0 /\ frames_processed = 0
      \/ at = StartAt(ends, Base, frames_processed + 1) BY <1>2, Zenon DEF AnalysisTypes, ReadInv
<1>6. frames_processed = FramesIn(at) BY <1>4, <1>5, FramesAt
<1>7. QED BY <1>2, <1>6, Zenon DEF ReadInv
-----------------------------------------------------------------------------
(* The run-length code and back *)

\* One sequence or function begins as another does.
Begins(more, rows, n) == \A i \in 1..n : more[i] = rows[i]

\* Concatenations of the first rows do not depend on how many there are.
LEMMA RowsAgree ==
  ASSUME NEW rows, NEW more, NEW n \in Nat, NEW m \in Nat, n <= m,
         NEW g, NEW h, Begins(more, rows, n), RowsUpTo(rows, g, n), RowsUpTo(more, h, m)
  PROVE  Begins(h, g, n)
<1>1. /\ \A i \in 1..n : g[i] = IF i = 1 THEN rows[i] ELSE g[i - 1] \o rows[i]
      /\ \A i \in 1..m : h[i] = IF i = 1 THEN more[i] ELSE h[i - 1] \o more[i] BY Zenon DEF RowsUpTo
<1>2. PICK P : P = {i \in 0..n : i = 0 \/ h[i] = g[i]} OBVIOUS
<1>3. 0 \in P BY <1>2
<1>4. ASSUME NEW i \in 1..n, i - 1 \in P PROVE i \in P
  <2>1. i \in 1..m OBVIOUS
  <2>2. g[i] = IF i = 1 THEN rows[i] ELSE g[i - 1] \o rows[i] BY <1>1
  <2>3. h[i] = IF i = 1 THEN rows[i] ELSE h[i - 1] \o rows[i] BY <1>1, <2>1 DEF Begins
  <2>4. i # 1 => h[i - 1] = g[i - 1] BY <1>2, <1>4
  <2>5. h[i] = g[i] BY <2>2, <2>3, <2>4, Zenon
  <2>6. QED BY <1>2, <2>5
<1>5. 0..n \subseteq P BY <1>3, <1>4, UpTo
<1>6. QED BY <1>2, <1>5 DEF Begins

\* One more row comes at the end.
LEMMA FlatAppend ==
  ASSUME NEW S, NEW rows \in Seq(Seq(S)), NEW row \in Seq(S)
  PROVE  FlattenSeq(Append(rows, row)) = FlattenSeq(rows) \o row
<1>1. PICK n \in Nat : n = Len(rows) BY LenProperties
<1>2. PICK more \in Seq(Seq(S)) : more = Append(rows, row) BY AppendProperties
<1>3. Len(more) = n + 1 /\ (\A i \in 1..n : more[i] = rows[i]) /\ more[n + 1] = row
  BY <1>1, <1>2, AppendProperties
<1>m. PICK m \in Nat : m = n + 1 OBVIOUS
<1> DEFINE g == CHOOSE g : RowsUpTo(rows, g, n)
           h == CHOOSE h : RowsUpTo(more, h, m)
<1>4. RowsUpTo(rows, g, n) BY RowsExist
<1>5. RowsUpTo(more, h, m) BY RowsExist
<1>6. n # 0 => FlattenSeq(rows) = g[n] BY <1>1 DEF FlattenSeq, RowsUpTo
<1>7. FlattenSeq(more) = h[m] BY <1>3, <1>m DEF FlattenSeq, RowsUpTo
<1> HIDE DEF g, h
<1>8. h[m] = IF m = 1 THEN row ELSE h[n] \o row
  <2>1. \A i \in 1..m : h[i] = IF i = 1 THEN more[i] ELSE h[i - 1] \o more[i]
    BY <1>5, Zenon DEF RowsUpTo
  <2>2. m \in 1..m /\ m - 1 = n BY <1>m
  <2>3. QED BY <1>3, <1>m, <2>1, <2>2
<1>9. CASE n = 0
  <2>1. rows = << >> /\ FlattenSeq(rows) = << >> BY <1>1, <1>9, EmptySeq DEF FlattenSeq
  <2>2. << >> \o row = row BY ConcatEmptySeq
  <2>3. QED BY <1>2, <1>7, <1>8, <1>9, <1>m, <2>1, <2>2
<1>10. CASE n # 0
  <2>1. h[n] = g[n]
    <3>1. n <= m BY <1>m
    <3>2. Begins(more, rows, n) BY <1>3 DEF Begins
    <3>3. Begins(h, g, n) BY <1>4, <1>5, <3>1, <3>2, RowsAgree
    <3>4. QED BY <1>10, <3>3 DEF Begins
  <2>2. m # 1 BY <1>m, <1>10
  <2>3. QED BY <1>2, <1>6, <1>7, <1>8, <1>10, <2>1, <2>2
<1>11. QED BY <1>9, <1>10

\* The rows that tokens stand for.
Runs(tokens) == [k \in DOMAIN tokens |-> Run(tokens[k])]

\* What one token stands for.
LEMMA RunIs ==
  ASSUME NEW token \in Token
  PROVE  /\ Run(token) \in Seq(BOOLEAN) /\ Len(Run(token)) = token.run
         /\ \A j \in 1..token.run : Run(token)[j] = token.mode
<1>1. PICK n \in Nat, b \in BOOLEAN : n = token.run /\ b = token.mode BY DEF Token
<1>2. Run(token) = [j \in 1..n |-> b] BY <1>1 DEF Run
<1>3. [j \in 1..n |-> b] \in [1..n -> BOOLEAN] BY Zenon
<1>4. Run(token) \in Seq(BOOLEAN) /\ Len(Run(token)) = n BY <1>2, <1>3, SeqDef, LenProperties
<1>5. \A j \in 1..n : Run(token)[j] = b BY <1>2
<1>6. QED BY <1>1, <1>4, <1>5

\* The rows are rows of events.
LEMMA RunsType ==
  ASSUME NEW tokens \in Seq(Token)
  PROVE  Runs(tokens) \in Seq(Seq(BOOLEAN)) /\ Len(Runs(tokens)) = Len(tokens)
<1>1. DOMAIN tokens = 1..Len(tokens) /\ Len(tokens) \in Nat BY LenProperties
<1>2. \A k \in 1..Len(tokens) : Run(tokens[k]) \in Seq(BOOLEAN) BY ElementOfSeq, RunIs
<1>3. Runs(tokens) \in [1..Len(tokens) -> Seq(BOOLEAN)] BY <1>1, <1>2 DEF Runs
<1>4. QED BY <1>1, <1>3, SeqDef, LenProperties

\* A token more stands for a run more.
LEMMA DecodeAppend ==
  ASSUME NEW tokens \in Seq(Token), NEW token \in Token
  PROVE  DecodeDetectorEvents(Append(tokens, token)) = DecodeDetectorEvents(tokens) \o Run(token)
<1>1. PICK n \in Nat : n = Len(tokens) BY LenProperties
<1>2. PICK more \in Seq(Token) : more = Append(tokens, token) BY AppendProperties
<1>3. Len(more) = n + 1 /\ (\A i \in 1..n : more[i] = tokens[i]) /\ more[n + 1] = token
  BY <1>1, <1>2, AppendProperties
<1>4. Runs(tokens) \in Seq(Seq(BOOLEAN)) /\ Len(Runs(tokens)) = n /\ Runs(more) \in Seq(Seq(BOOLEAN))
      /\ Len(Runs(more)) = n + 1 BY <1>1, <1>3, RunsType
<1>5. Run(token) \in Seq(BOOLEAN) BY RunIs
<1>6. DOMAIN tokens = 1..n /\ DOMAIN more = 1..n + 1 BY <1>1, <1>3, LenProperties
<1>7. (\A i \in 1..n : Runs(tokens)[i] = Run(tokens[i])) /\ \A i \in 1..n + 1 : Runs(more)[i] = Run(more[i])
  BY <1>6 DEF Runs
<1>8. Runs(more) = Append(Runs(tokens), Run(token))
  <2>1. PICK a \in Seq(Seq(BOOLEAN)), b \in Seq(Seq(BOOLEAN)), r \in Seq(BOOLEAN) :
          a = Runs(tokens) /\ b = Runs(more) /\ r = Run(token) BY <1>4, <1>5
  <2>2. PICK c \in Seq(Seq(BOOLEAN)) : c = Append(a, r) BY AppendProperties
  <2>3. Len(c) = n + 1 /\ (\A i \in 1..n : c[i] = a[i]) /\ c[n + 1] = r
    BY <1>4, <2>1, <2>2, AppendProperties
  <2>4. Len(b) = n + 1 /\ \A i \in 1..n + 1 : c[i] = b[i]
    <3>1. ASSUME NEW i \in 1..n + 1 PROVE c[i] = b[i]
      <4>1. CASE i = n + 1 BY <1>3, <1>7, <2>1, <2>3, <4>1
      <4>2. CASE i # n + 1
        <5>1. i \in 1..n BY <4>2
        <5>2. QED BY <1>3, <1>7, <2>1, <2>3, <5>1
      <4>3. QED BY <4>1, <4>2
    <3>2. QED BY <1>4, <2>1, <3>1
  <2>5. c = b BY <2>3, <2>4, SeqEqual
  <2>6. QED BY <2>1, <2>2, <2>5
<1>9. FlattenSeq(Runs(more)) = FlattenSeq(Runs(tokens)) \o Run(token)
  BY <1>4, <1>5, <1>8, FlatAppend
<1>10. QED BY <1>2, <1>9, Zenon DEF DecodeDetectorEvents, Runs

\* A sequence with one more element than another, at its end.
OneMore(s, t, x) == Len(t) = Len(s) + 1 /\ Begins(t, s, Len(s)) /\ t[Len(s) + 1] = x

\* A run that grows is the last one, of the same mode, by one.
LEMMA LastGrows ==
  ASSUME NEW tokens \in Seq(Token), NEW b \in BOOLEAN,
         Extend(tokens, b) # Append(tokens, [mode |-> b, run |-> 1])
  PROVE  \E front \in Seq(Token), last \in Token, more \in Token :
           /\ tokens = Append(front, last) /\ Extend(tokens, b) = Append(front, more)
           /\ last.mode = b /\ more.mode = b /\ more.run = last.run + 1
<1>1. PICK n \in Nat : n = Len(tokens) BY LenProperties
<1>2. /\ tokens # << >> /\ Last(tokens).mode = b
      /\ Extend(tokens, b) = [tokens EXCEPT ![Len(tokens)].run = @ + 1] BY Zenon DEF Extend
<1>3. PICK front \in Seq(Token), last \in Token : tokens = Append(front, last)
  BY <1>2, SequenceEmptyOrAppend
<1>4. PICK m \in Nat : m = Len(front) BY LenProperties
<1>5. /\ n = m + 1 /\ tokens[n] = last
      /\ \A i \in 1..m : tokens[i] = front[i] BY <1>1, <1>3, <1>4, AppendProperties
<1>6. Last(tokens) = last BY <1>1, <1>5 DEF Last
<1>7. PICK more \in Token : more = [last EXCEPT !.run = @ + 1]
  <2>1. [last EXCEPT !.run = @ + 1] \in Token BY DEF Token
  <2>2. QED BY <2>1
<1>8. more.mode = b /\ more.run = last.run + 1 /\ last.mode = b /\ last.run \in Nat
  BY <1>2, <1>6, <1>7 DEF Token
<1>9. Extend(tokens, b) = Append(front, more)
  <2>1. Extend(tokens, b) = [tokens EXCEPT ![n] = more] BY <1>1, <1>2, <1>5, <1>7
  <2>2. n \in 1..Len(tokens) BY <1>1, <1>5
  <2>a. PICK s : s = [tokens EXCEPT ![n] = more] OBVIOUS
  <2>3. s \in Seq(Token) /\ Len(s) = n /\ \A j \in 1..n : s[j] = IF j = n THEN more ELSE tokens[j]
    BY <1>1, <2>2, <2>a, ExceptSeq
  <2>b. PICK t : t = Append(front, more) OBVIOUS
  <2>4. /\ t \in Seq(Token) /\ Len(t) = m + 1 /\ t[m + 1] = more
        /\ \A j \in 1..m : t[j] = front[j] BY <1>4, <2>b, AppendProperties
  <2>5. ASSUME NEW j \in 1..n PROVE s[j] = t[j]
    <3>1. CASE j = n BY <1>5, <2>3, <2>4, <3>1
    <3>2. CASE j # n BY <1>5, <3>2, <2>3, <2>4
    <3>3. QED BY <3>1, <3>2
  <2>6. s = t BY <1>5, <2>3, <2>4, <2>5, SeqEqual
  <2>7. QED BY <2>1, <2>a, <2>b, <2>6
<1>10. QED BY <1>3, <1>7, <1>8, <1>9

\* One more event is one more of what the tokens stand for.
LEMMA DecodeExtend ==
  ASSUME NEW tokens \in Seq(Token), NEW b \in BOOLEAN
  PROVE  /\ OneMore(DecodeDetectorEvents(tokens), DecodeDetectorEvents(Extend(tokens, b)), b)
         /\ Len(Extend(tokens, b)) <= Len(tokens) + 1
<1>1. PICK one \in Token : one = [mode |-> b, run |-> 1] BY DEF Token
<1>2. one.mode = b /\ one.run = 1 BY <1>1
<1>3. CASE Extend(tokens, b) = Append(tokens, one)
  <2>1. PICK d \in Seq(BOOLEAN), r \in Seq(BOOLEAN) : d = DecodeDetectorEvents(tokens) /\ r = Run(one)
    BY DecodeType, RunIs
  <2>2. Len(r) = 1 /\ r[1] = b
    <3>1. Len(Run(one)) = one.run /\ \A j \in 1..one.run : Run(one)[j] = one.mode BY RunIs
    <3>2. QED BY <1>2, <2>1, <3>1
  <2>3. DecodeDetectorEvents(Extend(tokens, b)) = d \o r BY <1>3, <2>1, DecodeAppend
  <2>4. OneMore(d, d \o r, b)
    <3>1. Len(d \o r) = Len(d) + 1 /\ Len(d) \in Nat BY <2>2, ConcatProperties, LenProperties
    <3>2. \A i \in 1..Len(d) + Len(r) : (d \o r)[i] = IF i <= Len(d) THEN d[i] ELSE r[i - Len(d)]
      BY ConcatProperties
    <3>3. QED BY <2>2, <3>1, <3>2 DEF OneMore, Begins
  <2>5. Len(Append(tokens, one)) = Len(tokens) + 1 /\ Len(tokens) \in Nat
    BY AppendProperties, LenProperties
  <2>6. QED BY <1>3, <2>1, <2>3, <2>4, <2>5
<1>4. CASE Extend(tokens, b) # Append(tokens, one)
  <2>1. PICK n \in Nat : n = Len(tokens) BY LenProperties
  <2>3. PICK front \in Seq(Token), last \in Token, more \in Token :
          /\ tokens = Append(front, last) /\ Extend(tokens, b) = Append(front, more)
          /\ last.mode = b /\ more.mode = b /\ more.run = last.run + 1 BY <1>1, <1>4, LastGrows
  <2>4. PICK m \in Nat : m = Len(front) BY LenProperties
  <2>5. n = m + 1 /\ Len(Append(front, more)) = m + 1 BY <2>1, <2>3, <2>4, AppendProperties
  <2>8. last.run \in Nat BY DEF Token
  <2>10. PICK d \in Seq(BOOLEAN), r \in Seq(BOOLEAN), q \in Seq(BOOLEAN) :
           d = DecodeDetectorEvents(front) /\ r = Run(last) /\ q = Run(more) BY DecodeType, RunIs
  <2>11. DecodeDetectorEvents(tokens) = d \o r /\ DecodeDetectorEvents(Extend(tokens, b)) = d \o q
    BY <2>3, <2>10, DecodeAppend
  <2>12. PICK k \in Nat, j \in Nat : k = Len(d) /\ j = Len(r) BY LenProperties
  <2>13. /\ j = last.run /\ Len(q) = j + 1
         /\ (\A i \in 1..j : r[i] = b) /\ \A i \in 1..j + 1 : q[i] = b
    BY <2>3, <2>8, <2>10, <2>12, RunIs
  <2>c. /\ Len(d \o r) = Len(d) + Len(r) /\ Len(d \o q) = Len(d) + Len(q)
        /\ \A i \in 1..Len(d) + Len(r) : (d \o r)[i] = IF i <= Len(d) THEN d[i] ELSE r[i - Len(d)]
        /\ \A i \in 1..Len(d) + Len(q) : (d \o q)[i] = IF i <= Len(d) THEN d[i] ELSE q[i - Len(d)]
    BY ConcatProperties
  <2>14. /\ Len(d \o r) = k + j /\ Len(d \o q) = k + j + 1
         /\ \A i \in 1..k + j : (d \o r)[i] = IF i <= k THEN d[i] ELSE r[i - k]
         /\ \A i \in 1..k + j + 1 : (d \o q)[i] = IF i <= k THEN d[i] ELSE q[i - k]
    <3>1. Len(d) + Len(r) = k + j /\ Len(d) + Len(q) = k + j + 1 BY <2>12, <2>13
    <3>2. Len(d \o r) = k + j /\ Len(d \o q) = k + j + 1 BY <2>c, <3>1
    <3>3. ASSUME NEW i \in 1..k + j PROVE (d \o r)[i] = IF i <= k THEN d[i] ELSE r[i - k]
      BY <2>c, <2>12, <3>1
    <3>4. ASSUME NEW i \in 1..k + j + 1 PROVE (d \o q)[i] = IF i <= k THEN d[i] ELSE q[i - k]
      BY <2>c, <2>12, <3>1
    <3>5. QED BY <3>2, <3>3, <3>4
  <2>15. ASSUME NEW i \in 1..k + j PROVE (d \o q)[i] = (d \o r)[i]
    <3>0. i \in 1..k + j + 1 OBVIOUS
    <3>1. CASE i <= k BY <2>14, <3>0, <3>1
    <3>2. CASE i > k
      <4>1. i - k \in 1..j /\ i - k \in 1..j + 1 /\ i \in 1..k + j + 1 /\ ~ (i <= k) BY <3>2
      <4>2. (d \o r)[i] = r[i - k] /\ (d \o q)[i] = q[i - k] BY <2>14, <4>1
      <4>3. QED BY <2>13, <4>1, <4>2
    <3>3. i <= k \/ i > k OBVIOUS
    <3>4. QED BY <3>1, <3>2, <3>3, Zenon
  <2>16. (d \o q)[k + j + 1] = b
    <3>1. k + j + 1 \in 1..k + j + 1 /\ ~ (k + j + 1 <= k) /\ (k + j + 1) - k = j + 1 /\ j + 1 \in 1..j + 1
      OBVIOUS
    <3>2. (d \o q)[k + j + 1] = q[(k + j + 1) - k] BY <2>14, <3>1
    <3>3. QED BY <2>13, <3>1, <3>2
  <2>17. OneMore(d \o r, d \o q, b) BY <2>14, <2>15, <2>16 DEF OneMore, Begins
  <2>18. Len(Extend(tokens, b)) = n BY <2>3, <2>5
  <2>19. QED BY <2>1, <2>11, <2>17, <2>18
<1>5. QED BY <1>3, <1>4

\* Events are what their code stands for, and it is no longer than they are.
LEMMA RunsReturn ==
  ASSUME NEW events \in Seq(BOOLEAN)
  PROVE  /\ DecodeDetectorEvents(EncodeDetectorEvents(events)) = events
         /\ Len(EncodeDetectorEvents(events)) \in 0..Len(events)
<1>1. PICK n \in Nat : n = Len(events) BY LenProperties
<1> DEFINE g == CHOOSE g : EncodedUpTo(events, g, Len(events))
<1>2. EncodedUpTo(events, g, Len(events)) BY EncodedExist
<1>3. EncodeDetectorEvents(events) = g[n] BY <1>1 DEF EncodeDetectorEvents, EncodedUpTo
<1> HIDE DEF g
<1>4. \A i \in 0..n : g[i] \in Seq(Token) BY <1>1, <1>2, EncodedExist
<1>5. \A i \in 0..n : g[i] = IF i = 0 THEN << >> ELSE Extend(g[i - 1], events[i])
  BY <1>1, <1>2, Zenon DEF EncodedUpTo
<1> DEFINE D(i) == DecodeDetectorEvents(g[i])
<1>6. PICK P : P = {i \in 0..n : Len(D(i)) = i /\ Begins(D(i), events, i) /\ Len(g[i]) <= i} OBVIOUS
<1>7. 0 \in P
  <2>1. g[0] = << >> BY <1>5
  <2>2. Runs(<< >>) = << >> /\ Len(<< >>) = 0 BY DEF Runs
  <2>3. D(0) = << >> BY <2>1, <2>2 DEF DecodeDetectorEvents, FlattenSeq, Runs
  <2>4. Begins(D(0), events, 0) BY DEF Begins
  <2>5. QED BY <1>6, <2>1, <2>2, <2>3, <2>4
<1>8. ASSUME NEW i \in 1..n, i - 1 \in P PROVE i \in P
  <2>1. i - 1 \in 0..n /\ i \in 0..n /\ events[i] \in BOOLEAN BY <1>1, ElementOfSeq
  <2>2. PICK old \in Seq(Token), b \in BOOLEAN : old = g[i - 1] /\ b = events[i] BY <1>4, <2>1
  <2>3. g[i] = Extend(old, b) BY <1>5, <2>1, <2>2
  <2>4. OneMore(D(i - 1), D(i), b) /\ Len(g[i]) <= Len(old) + 1 BY <2>2, <2>3, DecodeExtend
  <2>5. Len(D(i - 1)) = i - 1 /\ Begins(D(i - 1), events, i - 1) /\ Len(old) <= i - 1
    BY <1>6, <1>8, <2>2
  <2>6. Len(D(i)) = i /\ D(i)[i] = b /\ Begins(D(i), D(i - 1), i - 1) BY <2>4, <2>5 DEF OneMore
  <2>7. Begins(D(i), events, i) BY <2>2, <2>5, <2>6 DEF Begins
  <2>8. Len(g[i]) <= i BY <1>4, <2>1, <2>2, <2>4, <2>5, LenProperties
  <2>9. QED BY <1>6, <2>1, <2>6, <2>7, <2>8
<1>9. 0..n \subseteq P BY <1>7, <1>8, UpTo
<1>10. Len(D(n)) = n /\ Begins(D(n), events, n) /\ Len(g[n]) <= n BY <1>6, <1>9
<1>11. D(n) \in Seq(BOOLEAN) /\ g[n] \in Seq(Token) BY <1>4, DecodeType
<1>12. D(n) = events
  <2>1. PICK d \in Seq(BOOLEAN) : d = D(n) BY <1>11
  <2>2. Len(d) = Len(events) /\ \A i \in 1..Len(d) : d[i] = events[i]
    BY <1>1, <1>10, <2>1 DEF Begins
  <2>3. QED BY <2>1, <2>2, SeqEqual
<1>13. Len(g[n]) \in 0..n BY <1>10, <1>11, LenProperties
<1>14. QED BY <1>1, <1>3, <1>12, <1>13

-----------------------------------------------------------------------------
(* Counting the events of tokens *)

\* What a token adds to the count.
Adding(token) == IF token.mode THEN token.run ELSE 0

\* The counts of the first tokens, up to n of them.
CountUpTo(tokens, g, n) ==
  g = [i \in 0..n |-> IF i = 0 THEN 0
                      ELSE IF tokens[i].mode THEN g[i - 1] + tokens[i].run ELSE g[i - 1]]

\* They exist, and add up.
LEMMA CountExist ==
  ASSUME NEW tokens \in Seq(Token)
  PROVE  /\ \E g : CountUpTo(tokens, g, Len(tokens))
         /\ \A g : CountUpTo(tokens, g, Len(tokens)) =>
              /\ \A i \in 0..Len(tokens) : g[i] \in Nat
              /\ g[0] = 0 /\ \A i \in 1..Len(tokens) : g[i] = g[i - 1] + Adding(tokens[i])
<1>1. PICK n \in Nat : n = Len(tokens) BY LenProperties
<1>2. ASSUME NEW i \in 1..n
      PROVE  /\ Adding(tokens[i]) \in Nat
             /\ \A x \in Nat : (IF tokens[i].mode THEN x + tokens[i].run ELSE x) = x + Adding(tokens[i])
  <2>1. PICK token \in Token : token = tokens[i] BY <1>1, ElementOfSeq
  <2>2. PICK b \in BOOLEAN, r \in Nat : b = token.mode /\ r = token.run BY DEF Token
  <2>3. Adding(token) = IF b THEN r ELSE 0 BY <2>2 DEF Adding
  <2>4. QED BY <2>1, <2>2, <2>3
<1>3. PICK step : step = [i \in 1..n |-> [x \in Nat |-> x + Adding(tokens[i])]] OBVIOUS
<1>4. step \in [1..n -> [Nat -> Nat]] BY <1>2, <1>3
<1>5. PICK f : Recursion(f, n, Nat, 0, step) BY <1>4, RecursionExists
<1>6. f \in [0..n -> Nat] /\ f[0] = 0 /\ \A i \in 1..n : f[i] = step[i][f[i - 1]]
  BY <1>5 DEF Recursion
<1>7. ASSUME NEW i \in 1..n
      PROVE  f[i] = IF tokens[i].mode THEN f[i - 1] + tokens[i].run ELSE f[i - 1]
  <2>1. f[i - 1] \in Nat BY <1>6
  <2>2. f[i] = f[i - 1] + Adding(tokens[i]) BY <1>3, <1>6, <2>1
  <2>3. QED BY <1>2, <2>1, <2>2
<1>8. f = [i \in 0..n |-> IF i = 0 THEN 0
                          ELSE IF tokens[i].mode THEN f[i - 1] + tokens[i].run ELSE f[i - 1]]
  BY <1>6, <1>7
<1>9. \E g : CountUpTo(tokens, g, n) BY <1>8 DEF CountUpTo
<1>10. ASSUME NEW g, CountUpTo(tokens, g, n)
       PROVE  /\ \A i \in 0..n : g[i] \in Nat
              /\ g[0] = 0 /\ \A i \in 1..n : g[i] = g[i - 1] + Adding(tokens[i])
  <2>1. \A i \in 0..n : g[i] = IF i = 0 THEN 0
                               ELSE IF tokens[i].mode THEN g[i - 1] + tokens[i].run ELSE g[i - 1]
    BY <1>10, Zenon DEF CountUpTo
  <2>2. g[0] = 0 BY <2>1
  <2>3. PICK P : P = {i \in 0..n : g[i] \in Nat} OBVIOUS
  <2>4. 0 \in P BY <2>2, <2>3
  <2>5. ASSUME NEW i \in 1..n, g[i - 1] \in Nat
        PROVE  g[i] = g[i - 1] + Adding(tokens[i]) /\ g[i] \in Nat
    <3>1. g[i] = IF tokens[i].mode THEN g[i - 1] + tokens[i].run ELSE g[i - 1] BY <2>1
    <3>2. PICK x \in Nat, y \in Nat : x = g[i - 1] /\ y = Adding(tokens[i]) BY <1>2, <2>5
    <3>3. (IF tokens[i].mode THEN x + tokens[i].run ELSE x) = x + y BY <1>2, <3>2
    <3>4. g[i] = x + y BY <3>1, <3>2, <3>3, Zenon
    <3>5. QED BY <3>2, <3>4
  <2>6. ASSUME NEW i \in 1..n, i - 1 \in P PROVE i \in P BY <2>3, <2>5, <2>6
  <2>7. 0..n \subseteq P BY <2>4, <2>6, UpTo
  <2>8. \A i \in 0..n : g[i] \in Nat BY <2>3, <2>7
  <2>9. \A i \in 1..n : g[i] = g[i - 1] + Adding(tokens[i]) BY <2>5, <2>8
  <2>10. QED BY <2>2, <2>8, <2>9
<1>11. QED BY <1>1, <1>9, <1>10

\* One more token adds what it adds; no tokens count nothing.
LEMMA CountAppend ==
  ASSUME NEW tokens \in Seq(Token), NEW token \in Token
  PROVE  /\ Popcount(tokens) \in Nat /\ (tokens = << >> => Popcount(tokens) = 0)
         /\ Popcount(Append(tokens, token)) = Popcount(tokens) + Adding(token)
<1>1. PICK n \in Nat, m \in Nat : n = Len(tokens) /\ m = n + 1 BY LenProperties
<1>2. PICK more \in Seq(Token) : more = Append(tokens, token) BY AppendProperties
<1>3. Len(more) = m /\ (\A i \in 1..n : more[i] = tokens[i]) /\ more[m] = token
  BY <1>1, <1>2, AppendProperties
<1> DEFINE g == CHOOSE g : CountUpTo(tokens, g, n)
           h == CHOOSE h : CountUpTo(more, h, m)
<1>4. CountUpTo(tokens, g, n) BY <1>1, CountExist
<1>5. CountUpTo(more, h, m) BY <1>3, CountExist
<1>6. Popcount(tokens) = g[n] BY <1>1 DEF Popcount, CountUpTo
<1>7. Popcount(more) = h[m] BY <1>3 DEF Popcount, CountUpTo
<1> HIDE DEF g, h
<1>8. (\A i \in 0..n : g[i] \in Nat) /\ g[0] = 0 /\ \A i \in 1..n : g[i] = g[i - 1] + Adding(tokens[i])
  BY <1>1, <1>4, CountExist
<1>9. h[0] = 0 /\ \A i \in 1..m : h[i] = h[i - 1] + Adding(more[i]) BY <1>3, <1>5, CountExist
<1>10. PICK P : P = {i \in 0..n : h[i] = g[i]} OBVIOUS
<1>11. 0 \in P BY <1>8, <1>9, <1>10
<1>12. ASSUME NEW i \in 1..n, i - 1 \in P PROVE i \in P
  <2>1. i \in 1..m BY <1>1
  <2>2. h[i] = h[i - 1] + Adding(tokens[i]) /\ g[i] = g[i - 1] + Adding(tokens[i])
    BY <1>3, <1>8, <1>9, <2>1
  <2>3. h[i - 1] = g[i - 1] BY <1>10, <1>12
  <2>4. QED BY <1>10, <2>2, <2>3
<1>13. 0..n \subseteq P BY <1>11, <1>12, UpTo
<1>14. h[n] = g[n] /\ g[n] \in Nat BY <1>8, <1>10, <1>13
<1>15. h[m] = h[n] + Adding(token) BY <1>1, <1>3, <1>9
<1>16. tokens = << >> => g[n] = 0 BY <1>1, <1>8
<1>17. QED BY <1>2, <1>6, <1>7, <1>14, <1>15, <1>16

\* One more event that fired counts one more.
LEMMA CountExtend ==
  ASSUME NEW tokens \in Seq(Token), NEW b \in BOOLEAN
  PROVE  Popcount(Extend(tokens, b)) = Popcount(tokens) + (IF b THEN 1 ELSE 0)
<1>1. PICK one \in Token : one = [mode |-> b, run |-> 1] BY DEF Token
<1>2. Adding(one) = IF b THEN 1 ELSE 0 BY <1>1 DEF Adding
<1>3. CASE Extend(tokens, b) = Append(tokens, one) BY <1>2, <1>3, CountAppend
<1>4. CASE Extend(tokens, b) # Append(tokens, one)
  <2>1. PICK front \in Seq(Token), last \in Token, more \in Token :
          /\ tokens = Append(front, last) /\ Extend(tokens, b) = Append(front, more)
          /\ last.mode = b /\ more.mode = b /\ more.run = last.run + 1 BY <1>1, <1>4, LastGrows
  <2>2. Popcount(front) \in Nat /\ last.run \in Nat BY CountAppend DEF Token
  <2>3. /\ Popcount(tokens) = Popcount(front) + Adding(last)
        /\ Popcount(Extend(tokens, b)) = Popcount(front) + Adding(more) BY <2>1, CountAppend
  <2>4. Adding(last) = (IF b THEN last.run ELSE 0) /\ Adding(more) = IF b THEN last.run + 1 ELSE 0
    BY <2>1 DEF Adding
  <2>5. QED BY <2>2, <2>3, <2>4
<1>5. QED BY <1>3, <1>4

\* The count of the code of events is that of the events that fired.
LEMMA CountIs ==
  ASSUME NEW events \in Seq(BOOLEAN)
  PROVE  /\ Popcount(EncodeDetectorEvents(events)) = Cardinality(Fired(events))
         /\ Cardinality(Fired(events)) \in Nat
<1>1. PICK n \in Nat : n = Len(events) BY LenProperties
<1> DEFINE g == CHOOSE g : EncodedUpTo(events, g, Len(events))
<1>2. EncodedUpTo(events, g, Len(events)) BY EncodedExist
<1>3. EncodeDetectorEvents(events) = g[n] BY <1>1 DEF EncodeDetectorEvents, EncodedUpTo
<1> HIDE DEF g
<1>4. \A i \in 0..n : g[i] \in Seq(Token) BY <1>1, <1>2, EncodedExist
<1>5. \A i \in 0..n : g[i] = IF i = 0 THEN << >> ELSE Extend(g[i - 1], events[i])
  BY <1>1, <1>2, Zenon DEF EncodedUpTo
<1> DEFINE F(i) == {j \in 1..i : events[j]}
<1>6. PICK P : P = {i \in 0..n : IsFiniteSet(F(i)) /\ Cardinality(F(i)) \in Nat /\ Popcount(g[i]) = Cardinality(F(i))}
  OBVIOUS
<1>7. 0 \in P
  <2>1. F(0) = {} OBVIOUS
  <2>2. IsFiniteSet({}) /\ Cardinality({}) = 0 BY FS_EmptySet
  <2>3. g[0] = << >> /\ << >> \in Seq(Token) BY <1>5
  <2>4. PICK t \in Token : t = [mode |-> TRUE, run |-> 1] BY DEF Token
  <2>5. Popcount(g[0]) = 0 BY <2>3, <2>4, CountAppend
  <2>6. QED BY <1>6, <2>1, <2>2, <2>5
<1>8. ASSUME NEW i \in 1..n, i - 1 \in P PROVE i \in P
  <2>1. i - 1 \in 0..n /\ i \in 0..n /\ events[i] \in BOOLEAN BY <1>1, ElementOfSeq
  <2>2. PICK old \in Seq(Token), b \in BOOLEAN : old = g[i - 1] /\ b = events[i] BY <1>4, <2>1
  <2>3. g[i] = Extend(old, b) BY <1>5, <2>1, <2>2
  <2>4. Popcount(g[i]) = Popcount(old) + (IF b THEN 1 ELSE 0) BY <2>3, CountExtend
  <2>5. IsFiniteSet(F(i - 1)) /\ Cardinality(F(i - 1)) \in Nat /\ Popcount(old) = Cardinality(F(i - 1))
    BY <1>6, <1>8, <2>2
  <2>6. F(i) = IF b THEN F(i - 1) \cup {i} ELSE F(i - 1) BY <2>2
  <2>7. i \notin F(i - 1) OBVIOUS
  <2> HIDE DEF F
  <2>8. /\ IsFiniteSet(F(i - 1) \cup {i})
        /\ Cardinality(F(i - 1) \cup {i}) = Cardinality(F(i - 1)) + 1 BY <2>5, <2>7, FS_AddElement
  <2>9. IsFiniteSet(F(i)) /\ Cardinality(F(i)) = Cardinality(F(i - 1)) + (IF b THEN 1 ELSE 0)
    <3>1. CASE b BY <2>6, <2>8, <3>1
    <3>2. CASE ~ b BY <2>5, <2>6, <3>2
    <3>3. QED BY <3>1, <3>2, Zenon
  <2>10. PICK x \in Nat, y \in Nat : x = Cardinality(F(i - 1)) /\ y = IF b THEN 1 ELSE 0 BY <2>5
  <2>11. Cardinality(F(i)) = x + y /\ Popcount(g[i]) = x + y BY <2>4, <2>5, <2>9, <2>10, Zenon
  <2>12. QED BY <1>6, <2>1, <2>9, <2>11
<1>9. 0..n \subseteq P
  <2>1. ASSUME NEW i \in 1..n PROVE i - 1 \in P => i \in P BY <1>8
  <2>2. n \in Nat /\ 0 \in P /\ \A i \in 1..n : i - 1 \in P => i \in P BY <1>7, <2>1
  <2>3. QED BY <2>2, UpTo, Zenon
<1>10. n \in P BY <1>9
<1>11. Fired(events) = F(n) BY <1>1, LenProperties DEF Fired
<1> HIDE DEF F
<1>12. Cardinality(F(n)) \in Nat /\ Popcount(g[n]) = Cardinality(F(n)) BY <1>6, <1>10
<1>13. QED BY <1>3, <1>11, <1>12


-----------------------------------------------------------------------------
(* Frames of a stream that is read field by field *)

\* What the bytes of a field say, by the field.
LEMMA FieldValue ==
  ASSUME NEW bytes \in Seq(Cell), NEW p \in Nat, NEW part, NEW n \in Nat \ {0}, Holds(bytes, p, part, n)
  PROVE  /\ part = "header" => ValueAt(bytes, p) \in Header
         /\ part \in {"tag_count", "count"} => ValueAt(bytes, p) \in Nat
         /\ part = "tag" => ValueAt(bytes, p) \in Tag
         /\ part = "value" => ValueAt(bytes, p) \in SUBSET Nat
<1>1. PICK m \in Nat : m = Len(bytes) BY LenProperties
<1>2. p + n <= m /\ \A k \in 1..n : bytes[p + k][1] = part /\ bytes[p + k][2] = k
  BY <1>1, Zenon DEF Holds
<1>3. 1 \in 1..n /\ p + 1 \in 1..Len(bytes) BY <1>1, <1>2
<1>4. PICK cell \in Cell : cell = bytes[p + 1] /\ cell[1] = part BY <1>2, <1>3, ElementOfSeq
<1>5. ValueAt(bytes, p) = cell[3] BY <1>4 DEF ValueAt
<1>6. QED BY <1>4, <1>5, CellValues

\* What a reader of tags keeps, from a place on.
TagStates(from) == {s \in [at : Nat, more : BOOLEAN, meta : Metadata] : from <= s.at}

\* One more tag.
LEMMA TagStep ==
  ASSUME NEW bytes \in Seq(Cell), NEW from \in Nat, NEW s \in TagStates(from)
  PROVE  ReadTag(bytes, s) \in TagStates(from)
<1>1. /\ s \in [at : Nat, more : BOOLEAN, meta : Metadata] /\ from <= s.at BY DEF TagStates
<1>2. PICK place \in Nat, meta \in Metadata, h \in Nat \ {0} :
        place = s.at /\ meta = s.meta /\ h = TagHeaderLen /\ from <= place BY <1>1, Lengths
<1>3. [s EXCEPT !.more = FALSE] \in TagStates(from) BY <1>1 DEF TagStates
<1>4. PICK ended \in BOOLEAN :
        ended = (~ s.more \/ ~ Holds(bytes, place, "tag", h)) OBVIOUS
<1>a. PICK bare \in BOOLEAN : bare = ~ Holds(bytes, place + h, "value", ValueAt(bytes, place).len)
  OBVIOUS
<1>5. PICK t : t = ValueAt(bytes, place) OBVIOUS
<1>6. PICK flips : flips = IF t.tag = "observable_flips" THEN ValueAt(bytes, place + h) ELSE meta.flips
  OBVIOUS
<1>7. ReadTag(bytes, s) =
        IF ended THEN [s EXCEPT !.more = FALSE]
        ELSE IF bare THEN [s EXCEPT !.at = @ + h, !.more = FALSE]
        ELSE [at |-> place + h + t.len, more |-> TRUE,
              meta |-> [tags |-> meta.tags \cup {t.tag}, flips |-> flips]]
  BY <1>2, <1>4, <1>a, <1>5, <1>6, Zenon DEF ReadTag
<1>8. CASE ended BY <1>3, <1>7, <1>8
<1>b. CASE ~ ended /\ bare
  <2>1. PICK there \in Nat : there = place + h /\ from <= there BY <1>2
  <2>2. PICK one : one = [s EXCEPT !.at = @ + h] OBVIOUS
  <2>3. one \in [at : Nat, more : BOOLEAN, meta : Metadata] /\ one.at = there
    BY <1>1, <1>2, <2>1, <2>2
  <2>4. [one EXCEPT !.more = FALSE] \in TagStates(from) BY <2>1, <2>3 DEF TagStates
  <2>5. [s EXCEPT !.at = @ + h, !.more = FALSE] = [one EXCEPT !.more = FALSE] BY <2>2
  <2>6. QED BY <1>7, <1>b, <2>4, <2>5
<1>9. CASE ~ ended /\ ~ bare
  <2>1. Holds(bytes, place, "tag", h) /\ Holds(bytes, place + h, "value", t.len)
    BY <1>4, <1>a, <1>5, <1>9
  <2>2. t \in Tag BY <1>2, <1>5, <2>1, FieldValue
  <2>3. PICK len \in Nat \ {0}, tag \in Range(TagOrder) : len = t.len /\ tag = t.tag BY <2>2 DEF Tag
  <2>4. ValueAt(bytes, place + h) \in SUBSET Nat BY <1>2, <2>1, <2>3, FieldValue
  <2>5. meta.tags \in SUBSET Range(TagOrder) /\ meta.flips \in SUBSET Nat BY <1>2 DEF Metadata
  <2>6. flips \in SUBSET Nat BY <1>6, <2>4, <2>5
  <2>7. [tags |-> meta.tags \cup {tag}, flips |-> flips] \in Metadata
    BY <2>3, <2>5, <2>6 DEF Metadata
  <2>8. PICK there \in Nat : there = place + h + len BY <1>2, <2>3
  <2>9. from <= there BY <1>2, <2>3, <2>8
  <2>10. PICK now \in Metadata : now = [tags |-> meta.tags \cup {tag}, flips |-> flips] BY <2>7
  <2>11. [at |-> there, more |-> TRUE, meta |-> now] \in TagStates(from) BY <2>9 DEF TagStates
  <2>12. ReadTag(bytes, s) = [at |-> there, more |-> TRUE, meta |-> now]
    BY <1>7, <1>9, <2>3, <2>8, <2>10, Zenon
  <2>13. QED BY <2>11, <2>12
<1>10. QED BY <1>8, <1>b, <1>9

\* The states of a reader of n tags, one after the other.
TagTurns(bytes, place, turn, n) ==
  turn = [i \in 0..n |-> IF i = 0 THEN [at |-> place + PrefixLen, more |-> TRUE, meta |-> NoMetadata]
                         ELSE ReadTag(bytes, turn[i - 1])]

\* The first of these states.
FirstTurn(place) == [at |-> place + PrefixLen, more |-> TRUE, meta |-> NoMetadata]

\* It is one.
LEMMA FirstTurnType ==
  ASSUME NEW place \in Nat
  PROVE  FirstTurn(place) \in TagStates(place) /\ NoMetadata \in Metadata
<1>1. NoMetadata \in Metadata BY DEF NoMetadata, Metadata
<1>2. PICK none \in Metadata : none = NoMetadata BY <1>1
<1>3. PICK p \in Nat : p = PrefixLen BY Lengths
<1>4. PICK there \in Nat : there = place + p /\ place <= there OBVIOUS
<1>5. FirstTurn(place) = [at |-> there, more |-> TRUE, meta |-> none]
  BY <1>2, <1>3, <1>4 DEF FirstTurn
<1>6. [at |-> there, more |-> TRUE, meta |-> none] \in TagStates(place) BY <1>4 DEF TagStates
<1>7. QED BY <1>1, <1>5, <1>6

\* What the turns come to.
Turns(bytes, place, turn, n) ==
  /\ turn[0] = FirstTurn(place)
  /\ \A i \in 1..n : turn[i] = ReadTag(bytes, turn[i - 1])
  /\ ParseMetadataTlv(bytes, place) = turn[n]

\* There are such turns, as many as the count says.
LEMMA ParseTurns ==
  ASSUME NEW bytes \in Seq(Cell), NEW place \in Nat, Holds(bytes, place, "tag_count", PrefixLen),
         NEW n \in Nat, n = ValueAt(bytes, place)
  PROVE  \E turn : Turns(bytes, place, turn, n)
<1>1. PICK S : S = TagStates(place) OBVIOUS
<1>2. PICK base \in S : base = FirstTurn(place) BY <1>1, FirstTurnType
<1>3. \A s \in S : ReadTag(bytes, s) \in S BY <1>1, TagStep
<1>4. PICK step : step = [i \in 1..n |-> [s \in S |-> ReadTag(bytes, s)]] OBVIOUS
<1>5. step \in [1..n -> [S -> S]] BY <1>3, <1>4
<1>6. PICK f : Recursion(f, n, S, base, step) BY <1>5, RecursionExists
<1>7. /\ f \in [0..n -> S] /\ f[0] = base
      /\ \A i \in 1..n : f[i] = step[i][f[i - 1]] BY <1>6 DEF Recursion
<1>8. ASSUME NEW i \in 0..n PROVE f[i] = IF i = 0 THEN base ELSE ReadTag(bytes, f[i - 1])
  <2>1. CASE i = 0 BY <1>7, <2>1, Zenon
  <2>2. CASE i # 0
    <3>1. i \in 1..n /\ i - 1 \in 0..n BY <2>2
    <3>2. f[i - 1] \in S BY <1>7, <3>1
    <3>3. step[i] = [s \in S |-> ReadTag(bytes, s)] BY <1>4, <3>1
    <3>4. step[i][f[i - 1]] = ReadTag(bytes, f[i - 1]) BY <3>2, <3>3, Zenon
    <3>5. QED BY <1>7, <2>2, <3>1, <3>4, Zenon
  <2>3. QED BY <2>1, <2>2
<1>9. TagTurns(bytes, place, f, n) BY <1>7, <1>2, <1>8, Zenon DEF TagTurns, FirstTurn
<1> DEFINE turn == CHOOSE turn : TagTurns(bytes, place, turn, n)
<1>10. TagTurns(bytes, place, turn, n) BY <1>9
<1>11. ParseMetadataTlv(bytes, place) = turn[n] BY DEF ParseMetadataTlv, TagTurns
<1> HIDE DEF turn
<1>12. \A i \in 0..n : turn[i] = IF i = 0 THEN base ELSE ReadTag(bytes, turn[i - 1])
  BY <1>2, <1>10, Zenon DEF TagTurns, FirstTurn
<1>13. turn[0] = FirstTurn(place) BY <1>2, <1>12
<1>14. ASSUME NEW i \in 1..n PROVE turn[i] = ReadTag(bytes, turn[i - 1]) BY <1>12
<1>15. QED BY <1>11, <1>13, <1>14, Zenon DEF Turns

\* Metadata is read as metadata, and no reader of it goes back.
LEMMA ParseType ==
  ASSUME NEW bytes \in Seq(Cell), NEW place \in Nat
  PROVE  ParseMetadataTlv(bytes, place) \in TagStates(place)
<1>1. PICK none \in Metadata : none = NoMetadata BY FirstTurnType
<1>2. CASE ~ Holds(bytes, place, "tag_count", PrefixLen)
  BY <1>1, <1>2 DEF ParseMetadataTlv, TagStates
<1>3. CASE Holds(bytes, place, "tag_count", PrefixLen)
  <2>1. PICK n \in Nat : n = ValueAt(bytes, place) BY <1>3, FieldValue, Lengths
  <2>2. PICK turn : Turns(bytes, place, turn, n) BY <1>3, <2>1, ParseTurns
  <2>3. /\ turn[0] = FirstTurn(place) /\ ParseMetadataTlv(bytes, place) = turn[n]
        /\ \A i \in 1..n : turn[i] = ReadTag(bytes, turn[i - 1]) BY <2>2, Zenon DEF Turns
  <2>4. PICK P : P = {i \in 0..n : turn[i] \in TagStates(place)} OBVIOUS
  <2>5. 0 \in P BY <2>3, <2>4, FirstTurnType
  <2>6. ASSUME NEW i \in 1..n, i - 1 \in P PROVE i \in P
    <3>1. turn[i - 1] \in TagStates(place) BY <2>4, <2>6
    <3>2. ReadTag(bytes, turn[i - 1]) \in TagStates(place) BY <3>1, TagStep
    <3>3. turn[i] = ReadTag(bytes, turn[i - 1]) BY <2>3
    <3>4. QED BY <2>4, <3>2, <3>3
  <2>7. 0..n \subseteq P BY <2>5, <2>6, UpTo
  <2>8. QED BY <2>3, <2>4, <2>7
<1>4. QED BY <1>2, <1>3

-----------------------------------------------------------------------------
(* Metadata and back *)

\* A sequence stands in the bytes from a place on.
Placed(bytes, p, s) ==
  p + Len(s) <= Len(bytes) /\ \A k \in 1..Len(s) : bytes[p + k] = s[k]

\* So do the two parts that it was joined from.
LEMMA PlacedParts ==
  ASSUME NEW S, NEW a \in Seq(S), NEW b \in Seq(S), NEW bytes, Len(bytes) \in Nat, NEW p \in Nat,
         Placed(bytes, p, a \o b)
  PROVE  Placed(bytes, p, a) /\ Placed(bytes, p + Len(a), b)
<1>1. Follows(a \o b, a, b) BY Joined
<1>2. PICK n \in Nat, m \in Nat : n = Len(a) /\ m = Len(b) BY LenProperties
<1>3. PICK s : s = a \o b OBVIOUS
<1>4. /\ Len(s) = n + m
      /\ \A i \in 1..n : s[i] = a[i]
      /\ \A i \in 1..m : s[n + i] = b[i] BY <1>1, <1>2, <1>3, Zenon DEF Follows
<1>5. p + (n + m) <= Len(bytes) /\ \A k \in 1..n + m : bytes[p + k] = s[k]
  BY <1>3, <1>4, Zenon DEF Placed
<1>6. ASSUME NEW k \in 1..n PROVE bytes[p + k] = a[k] BY <1>4, <1>5
<1>7. ASSUME NEW k \in 1..m PROVE bytes[p + n + k] = b[k] BY <1>4, <1>5
<1>8. p + n <= Len(bytes) /\ p + n + m <= Len(bytes) BY <1>5
<1>9. QED BY <1>2, <1>6, <1>7, <1>8, Zenon DEF Placed

\* Where each of some rows begins when they are joined.
Offsets(rows, off) ==
  /\ off \in [0..Len(rows) -> Nat] /\ off[0] = 0 /\ off[Len(rows)] = Len(FlattenSeq(rows))
  /\ \A i \in 1..Len(rows) : off[i] = off[i - 1] + Len(rows[i])

\* The rows are there.
LEMMA FlatOffsets ==
  ASSUME NEW S, NEW rows \in Seq(Seq(S)), NEW bytes, Len(bytes) \in Nat, NEW p \in Nat,
         Placed(bytes, p, FlattenSeq(rows))
  PROVE  \E off : /\ Offsets(rows, off)
                  /\ \A i \in 1..Len(rows) : Placed(bytes, p + off[i - 1], rows[i])
<1>1. PICK n \in Nat : n = Len(rows) BY LenProperties
<1>2. CASE n = 0
  <2>1. rows = << >> /\ FlattenSeq(rows) = << >> BY <1>1, <1>2, EmptySeq DEF FlattenSeq
  <2>2. PICK off : off = [i \in 0..0 |-> 0] OBVIOUS
  <2>3. off \in [0..0 -> Nat] /\ off[0] = 0 /\ Len(<< >>) = 0 BY <2>2
  <2>4. Offsets(rows, off) BY <1>1, <1>2, <2>1, <2>3 DEF Offsets
  <2>5. \A i \in 1..Len(rows) : Placed(bytes, p + off[i - 1], rows[i]) BY <1>1, <1>2
  <2>6. QED BY <2>4, <2>5
<1>3. CASE n # 0
  <2> DEFINE g == CHOOSE g : RowsUpTo(rows, g, n)
  <2>1. RowsUpTo(rows, g, n) BY RowsExist
  <2>2. FlattenSeq(rows) = g[n] BY <1>1, <1>3 DEF FlattenSeq, RowsUpTo
  <2> HIDE DEF g
  <2>3. \A i \in 1..n : g[i] = IF i = 1 THEN rows[i] ELSE g[i - 1] \o rows[i]
    BY <2>1, Zenon DEF RowsUpTo
  <2>4. PICK h : h = [i \in 0..n |-> IF i = 0 THEN << >> ELSE g[i]] OBVIOUS
  <2>5. h[0] = << >> /\ h[n] = FlattenSeq(rows) /\ \A i \in 1..n : h[i] = g[i] BY <1>3, <2>2, <2>4
  <2>6. \A i \in 1..n : rows[i] \in Seq(S) BY <1>1, ElementOfSeq
  <2>7. ASSUME NEW i \in 1..n PROVE h[i] = h[i - 1] \o rows[i]
    <3>1. CASE i = 1
      <4>1. h[i - 1] = << >> /\ h[i] = rows[i] BY <2>3, <2>5, <3>1
      <4>2. << >> \o rows[i] = rows[i] BY <2>6, ConcatEmptySeq
      <4>3. QED BY <4>1, <4>2
    <3>2. CASE i # 1
      <4>1. i - 1 \in 1..n BY <3>2
      <4>2. QED BY <2>3, <2>5, <3>2, <4>1
    <3>3. QED BY <3>1, <3>2
  <2>8. \A i \in 0..n : h[i] \in Seq(S)
    <3>0. PICK T : T = Seq(S) OBVIOUS
    <3>1. PICK P : P = {i \in 0..n : h[i] \in T} OBVIOUS
    <3>2. 0 \in P
      <4>1. << >> \in T BY <3>0
      <4>2. h[0] \in T /\ 0 \in 0..n BY <2>5, <4>1
      <4>3. QED BY <3>1, <4>2
    <3>3. ASSUME NEW i \in 1..n, i - 1 \in P PROVE i \in P
      <4>1. h[i - 1] \in T BY <3>1, <3>3
      <4>2. h[i - 1] \o rows[i] \in T BY <2>6, <3>0, <4>1, ConcatProperties
      <4>3. h[i] = h[i - 1] \o rows[i] BY <2>7, Zenon
      <4>4. h[i] \in T /\ i \in 0..n BY <4>2, <4>3
      <4>5. QED BY <3>1, <4>3, <4>4
    <3>4. 0..n \subseteq P BY <3>2, <3>3, UpTo
    <3>5. QED BY <3>0, <3>1, <3>4
  <2>9. PICK off : off = [i \in 0..n |-> Len(h[i])] OBVIOUS
  <2>10. off \in [0..n -> Nat] /\ off[0] = 0 /\ off[n] = Len(FlattenSeq(rows))
    BY <2>8, <2>5, <2>9, LenProperties
  <2>11. ASSUME NEW i \in 1..n PROVE off[i] = off[i - 1] + Len(rows[i])
    <3>1. i - 1 \in 0..n /\ i \in 0..n OBVIOUS
    <3>2. Len(h[i - 1] \o rows[i]) = Len(h[i - 1]) + Len(rows[i])
      BY <2>6, <2>8, <3>1, ConcatProperties
    <3>3. QED BY <2>7, <2>9, <3>1, <3>2
  <2>12. PICK Q : Q = {j \in 0..n : Placed(bytes, p, h[n - j])} OBVIOUS
  <2>13. 0 \in Q BY <2>5, <2>12
  <2>14. ASSUME NEW i \in 1..n, Placed(bytes, p, h[i])
         PROVE  Placed(bytes, p, h[i - 1]) /\ Placed(bytes, p + off[i - 1], rows[i])
    <3>1. i - 1 \in 0..n OBVIOUS
    <3>2. h[i - 1] \in Seq(S) /\ rows[i] \in Seq(S) /\ off[i - 1] = Len(h[i - 1])
      BY <2>6, <2>8, <2>9, <3>1
    <3>3. Placed(bytes, p, h[i - 1] \o rows[i]) BY <2>7, <2>14
    <3>4. QED BY <3>2, <3>3, PlacedParts
  <2>15. ASSUME NEW j \in 1..n, j - 1 \in Q PROVE j \in Q
    <3>1. PICK i \in 1..n : i = n - (j - 1) /\ i - 1 = n - j OBVIOUS
    <3>2. Placed(bytes, p, h[i]) BY <2>12, <2>15, <3>1
    <3>3. Placed(bytes, p, h[i - 1]) BY <2>14, <3>2
    <3>4. QED BY <2>12, <3>1, <3>3
  <2>16. 0..n \subseteq Q BY <2>13, <2>15, UpTo
  <2>17. ASSUME NEW i \in 1..n PROVE Placed(bytes, p + off[i - 1], rows[i])
    <3>1. PICK j \in 0..n : j = n - i /\ n - j = i OBVIOUS
    <3>2. Placed(bytes, p, h[i]) BY <2>12, <2>16, <3>1
    <3>3. QED BY <2>14, <3>2
  <2>18. QED BY <1>1, <2>10, <2>11, <2>17 DEF Offsets
<1>4. QED BY <1>2, <1>3

\* The names of the tags are different, and have positive lengths.
LEMMA TagNames ==
  /\ Len(TagOrder) = 5 /\ DOMAIN TagOrder = 1..5 /\ Range(TagOrder) = {TagOrder[j] : j \in 1..5}
  /\ \A i \in 1..5, j \in 1..5 : TagOrder[i] = TagOrder[j] => i = j
  /\ \A j \in 1..5 : TagLen(TagOrder[j]) \in Nat \ {0}
<1>1. Len(TagOrder) = 5 /\ DOMAIN TagOrder = 1..5 BY DEF TagOrder
<1>2. Range(TagOrder) = {TagOrder[j] : j \in 1..5} BY <1>1 DEF Range
<1>3. /\ TagOrder[1] = "hardware_id" /\ TagOrder[2] = "temperature_mk" /\ TagOrder[3] = "cycle_us"
      /\ TagOrder[4] = "decoder_hint" /\ TagOrder[5] = "observable_flips" BY DEF TagOrder
<1>4. \A j \in 1..5 : j = 1 \/ j = 2 \/ j = 3 \/ j = 4 \/ j = 5 OBVIOUS
<1>5. \A i \in 1..5, j \in 1..5 : TagOrder[i] = TagOrder[j] => i = j BY <1>3, <1>4
<1>6. \A j \in 1..5 : TagLen(TagOrder[j]) \in Nat \ {0} BY <1>3, <1>4 DEF TagLen
<1>7. QED BY <1>1, <1>2, <1>5, <1>6

\* The bytes of one tag and its value.
TagEntry(tag, flips) ==
  Field("tag", [tag |-> tag, len |-> TagLen(tag)], TagHeaderLen) \o Field("value", flips, TagLen(tag))

\* They are bytes of a block, and so many.
LEMMA EntryIs ==
  ASSUME NEW tag \in Range(TagOrder), NEW flips \in SUBSET Nat
  PROVE  /\ TagEntry(tag, flips) \in Seq(BlockCell)
         /\ Len(TagEntry(tag, flips)) = TagHeaderLen + TagLen(tag)
         /\ Field("tag", [tag |-> tag, len |-> TagLen(tag)], TagHeaderLen) \in Seq(BlockCell)
         /\ IsField(Field("tag", [tag |-> tag, len |-> TagLen(tag)], TagHeaderLen), "tag",
                    [tag |-> tag, len |-> TagLen(tag)], TagHeaderLen)
         /\ Field("value", flips, TagLen(tag)) \in Seq(BlockCell)
         /\ IsField(Field("value", flips, TagLen(tag)), "value", flips, TagLen(tag))
<1>1. TagLen(tag) \in Nat \ {0} BY TagNames
<1>2. PICK t \in Tag : t = [tag |-> tag, len |-> TagLen(tag)] BY <1>1 DEF Tag
<1>3. \A k \in 1..TagHeaderLen : <<"tag", k, t>> \in BlockCell BY Lengths DEF BlockCell
<1>4. PICK a : a = Field("tag", t, TagHeaderLen) OBVIOUS
<1>5. a \in Seq(BlockCell) /\ IsField(a, "tag", t, TagHeaderLen)
  <2>1. PICK h \in Nat : h = TagHeaderLen BY Lengths
  <2>2. \A k \in 1..h : <<"tag", k, t>> \in BlockCell BY <1>3, <2>1
  <2>3. Field("tag", t, h) \in Seq(BlockCell) /\ IsField(Field("tag", t, h), "tag", t, h)
    BY <2>2, FieldIs
  <2>4. QED BY <1>4, <2>1, <2>3
<1>6. PICK n \in Nat : n = TagLen(tag) BY <1>1
<1>7. PICK b : b = Field("value", flips, TagLen(tag)) OBVIOUS
<1>8. b \in Seq(BlockCell) /\ IsField(b, "value", flips, TagLen(tag))
  <2>1. PICK W : W = SUBSET Nat OBVIOUS
  <2>a. flips \in W BY <2>1, Zenon
  <2>b. \A k \in 1..n : <<"value", k, flips>> \in {"value"} \X Nat \X W BY <2>a
  <2>2. \A k \in 1..n : <<"value", k, flips>> \in BlockCell BY <2>1, <2>b, Zenon DEF BlockCell
  <2>3. Field("value", flips, n) \in Seq(BlockCell) /\ IsField(Field("value", flips, n), "value", flips, n)
    BY <2>2, FieldIs
  <2>4. QED BY <1>6, <1>7, <2>3
<1>9. TagEntry(tag, flips) = a \o b BY <1>2, <1>4, <1>7, Zenon DEF TagEntry
<1>10. a \o b \in Seq(BlockCell) /\ Len(a \o b) = Len(a) + Len(b) BY <1>5, <1>8, ConcatProperties
<1>11. Len(a) = TagHeaderLen /\ Len(b) = TagLen(tag) BY <1>5, <1>8 DEF IsField
<1>12. QED BY <1>2, <1>4, <1>5, <1>7, <1>8, <1>9, <1>10, <1>11, Zenon

\* A field that stands in the bytes is held there, with its value.
LEMMA FieldPlaced ==
  ASSUME NEW bytes, NEW p \in Nat, NEW part, NEW value, NEW n \in Nat \ {0}, NEW s,
         IsField(s, part, value, n), Placed(bytes, p, s)
  PROVE  Holds(bytes, p, part, n) /\ ValueAt(bytes, p) = value
<1>0. Len(s) = n /\ \A k \in 1..n : s[k] = <<part, k, value>> BY Zenon DEF IsField
<1>1. p + n <= Len(bytes) /\ \A k \in 1..n : bytes[p + k] = <<part, k, value>> BY <1>0 DEF Placed
<1>2. ASSUME NEW k \in 1..n PROVE bytes[p + k][1] = part /\ bytes[p + k][2] = k
  <2>1. PICK b : b = bytes[p + k] OBVIOUS
  <2>2. b = <<part, k, value>> BY <1>1, <2>1
  <2>3. QED BY <2>1, <2>2
<1>3. 1 \in 1..n OBVIOUS
<1>4. bytes[p + 1][3] = value BY <1>1, <1>3
<1>5. QED BY <1>1, <1>2, <1>4 DEF Holds, ValueAt

\* One turn reads a tag that stands there.
LEMMA ReadsEntry ==
  ASSUME NEW bytes, Len(bytes) \in Nat, NEW p \in Nat, NEW tag \in Range(TagOrder), NEW flips \in SUBSET Nat,
         Placed(bytes, p, TagEntry(tag, flips)), NEW tags, NEW old
  PROVE  ReadTag(bytes, [at |-> p, more |-> TRUE, meta |-> [tags |-> tags, flips |-> old]])
         = [at |-> p + (TagHeaderLen + TagLen(tag)), more |-> TRUE,
            meta |-> [tags |-> tags \cup {tag},
                      flips |-> IF tag = "observable_flips" THEN flips ELSE old]]
<1>1. PICK h \in Nat \ {0}, len \in Nat \ {0} : h = TagHeaderLen /\ len = TagLen(tag)
  BY Lengths, TagNames
<1>2. PICK t : t = [tag |-> tag, len |-> len] OBVIOUS
<1>3. t.tag = tag /\ t.len = len BY <1>2
<1>4. PICK a \in Seq(BlockCell) : a = Field("tag", t, h) /\ IsField(a, "tag", t, h)
  BY <1>1, <1>2, EntryIs
<1>5. PICK b \in Seq(BlockCell) : b = Field("value", flips, len) /\ IsField(b, "value", flips, len)
  BY <1>1, EntryIs
<1>6. Placed(bytes, p, a \o b) BY <1>1, <1>2, <1>4, <1>5 DEF TagEntry
<1>7. Placed(bytes, p, a) /\ Placed(bytes, p + Len(a), b) BY <1>6, PlacedParts
<1>8. Len(a) = h BY <1>4 DEF IsField
<1>9. Holds(bytes, p, "tag", h) /\ ValueAt(bytes, p) = t BY <1>4, <1>7, FieldPlaced
<1>10. Holds(bytes, p + h, "value", len) /\ ValueAt(bytes, p + h) = flips
  BY <1>5, <1>7, <1>8, FieldPlaced
<1>11. PICK s : s = [at |-> p, more |-> TRUE, meta |-> [tags |-> tags, flips |-> old]] OBVIOUS
<1>12. s.at = p /\ s.more /\ s.meta.tags = tags /\ s.meta.flips = old BY <1>11
<1>13. ReadTag(bytes, s) = [at |-> p + h + len, more |-> TRUE,
                            meta |-> [tags |-> tags \cup {tag},
                                      flips |-> IF tag = "observable_flips" THEN flips ELSE old]]
  BY <1>1, <1>3, <1>9, <1>10, <1>12, Zenon DEF ReadTag
<1>14. p + h + len = p + (h + len) OBVIOUS
<1>15. QED BY <1>1, <1>11, <1>13, <1>14

\* What a reader makes of metadata: without the tag there are no observables that flipped.
Returned(meta) ==
  [tags |-> meta.tags, flips |-> IF "observable_flips" \in meta.tags THEN meta.flips ELSE {}]

\* Metadata that stands in the bytes is read back, to its end.
LEMMA ParseReturns ==
  ASSUME NEW bytes \in Seq(Cell), NEW p \in Nat, NEW meta \in Metadata,
         Placed(bytes, p, WriteMetadataTlv(meta))
  PROVE  /\ Holds(bytes, p, "tag_count", PrefixLen)
         /\ ParseMetadataTlv(bytes, p)
            = [at |-> p + Len(WriteMetadataTlv(meta)), more |-> TRUE, meta |-> Returned(meta)]
<1>1. PICK tags \in SUBSET Range(TagOrder), flips \in SUBSET Nat : tags = meta.tags /\ flips = meta.flips
  BY DEF Metadata
<1>2. PICK rows : rows = [j \in 1..5 |-> IF TagOrder[j] \in tags THEN TagEntry(TagOrder[j], flips) ELSE << >>]
  OBVIOUS
<1>3. rows \in Seq(Seq(BlockCell)) /\ Len(rows) = 5
  <2>1. << >> \in Seq(BlockCell) OBVIOUS
  <2>2. ASSUME NEW j \in 1..5
        PROVE  (IF TagOrder[j] \in tags THEN TagEntry(TagOrder[j], flips) ELSE << >>) \in Seq(BlockCell)
    BY <2>1, EntryIs
  <2>3. rows \in [1..5 -> Seq(BlockCell)] BY <1>2, <2>2
  <2>4. PICK R : R = Seq(BlockCell) OBVIOUS
  <2>5. rows \in Seq(R) /\ Len(rows) = 5
    <3>1. PICK five \in Nat : five = 5 OBVIOUS
    <3>2. rows \in [1..five -> R] BY <2>3, <2>4, <3>1
    <3>3. rows \in Seq(R) /\ Len(rows) = five BY <3>2, SeqDef, LenProperties
    <3>4. QED BY <3>1, <3>3
  <2>6. QED BY <2>4, <2>5
<1>4. PICK n \in Nat : n = Cardinality(tags) BY TagsFinite
<1>5. PICK h \in Nat \ {0} : h = PrefixLen BY Lengths
<1>6. PICK c : c = Field("tag_count", n, h) OBVIOUS
<1>7. WriteMetadataTlv(meta) = c \o FlattenSeq(rows)
  BY <1>2, <1>1, <1>4, <1>5, <1>6, TagNames DEF WriteMetadataTlv, TagEntry
<1>8. c \in Seq(BlockCell) /\ IsField(c, "tag_count", n, h)
  <2>1. \A k \in 1..h : <<"tag_count", k, n>> \in BlockCell BY DEF BlockCell
  <2>2. QED BY <1>6, <2>1, FieldIs
<1>9. PICK flat \in Seq(BlockCell) : flat = FlattenSeq(rows) BY <1>3, FlatType
<1>10. Len(bytes) \in Nat /\ Len(c) = h BY <1>8, LenProperties DEF IsField
<1>11. Placed(bytes, p, c) /\ Placed(bytes, p + h, flat)
  <2>1. Placed(bytes, p, c \o flat) BY <1>7, <1>9, Zenon
  <2>2. Placed(bytes, p, c) /\ Placed(bytes, p + Len(c), flat)
    BY <1>8, <1>10, <2>1, PlacedParts, Zenon
  <2>3. QED BY <1>10, <2>2, Zenon
<1>12. Holds(bytes, p, "tag_count", PrefixLen) /\ ValueAt(bytes, p) = n
  BY <1>5, <1>8, <1>11, FieldPlaced
<1>13. PICK turn : Turns(bytes, p, turn, n) BY <1>12, ParseTurns
<1>14. /\ turn[0] = FirstTurn(p) /\ ParseMetadataTlv(bytes, p) = turn[n]
       /\ \A i \in 1..n : turn[i] = ReadTag(bytes, turn[i - 1]) BY <1>13, Zenon DEF Turns
<1>15. PICK q \in Nat : q = p + h OBVIOUS
<1>16. PICK off : Offsets(rows, off) /\ \A i \in 1..Len(rows) : Placed(bytes, q + off[i - 1], rows[i])
  BY <1>3, <1>9, <1>10, <1>11, <1>15, FlatOffsets
<1>17. /\ off \in [0..5 -> Nat] /\ off[0] = 0 /\ off[5] = Len(flat)
       /\ \A i \in 1..5 : off[i] = off[i - 1] + Len(rows[i]) BY <1>3, <1>9, <1>16, Zenon DEF Offsets
<1> DEFINE T(i) == {TagOrder[j] : j \in {j \in 1..i : TagOrder[j] \in tags}}
           Found(i) == [tags |-> T(i), flips |-> IF "observable_flips" \in T(i) THEN flips ELSE {}]
           State(i) == [at |-> q + off[i], more |-> TRUE, meta |-> Found(i)]
<1>18. ASSUME NEW i \in 0..5
       PROVE  IsFiniteSet(T(i)) /\ Cardinality(T(i)) \in 0..n /\ T(i) \subseteq tags
  <2>1. T(i) \subseteq tags OBVIOUS
  <2> HIDE DEF T
  <2>2. QED BY <1>4, <2>1, TagsFinite, FS_Subset, FS_CardinalityType
<1>19. ASSUME NEW i \in 1..5
       PROVE  /\ TagOrder[i] \notin tags => T(i) = T(i - 1)
              /\ TagOrder[i] \in tags => T(i) = T(i - 1) \cup {TagOrder[i]} /\ TagOrder[i] \notin T(i - 1)
  <2>1. \A j \in 1..i : j \in 1..i - 1 \/ j = i OBVIOUS
  <2>2. \A j \in 1..i - 1 : j \in 1..i /\ j \in 1..5 /\ j # i OBVIOUS
  <2>3. i \in 1..i OBVIOUS
  <2>4. TagOrder[i] \notin T(i - 1) BY <2>2, TagNames
  <2>5. QED BY <2>1, <2>2, <2>3, <2>4
<1>20. T(0) = {} /\ T(5) = tags BY <1>1, TagNames
<1> HIDE DEF T
<1>21. PICK P : P = {i \in 0..5 : turn[Cardinality(T(i))] = State(i)} OBVIOUS
<1>22. 0 \in P
  <2>1. Cardinality(T(0)) = 0 BY <1>20, FS_EmptySet
  <2>2. Found(0) = NoMetadata BY <1>20 DEF NoMetadata
  <2>3. q + off[0] = p + PrefixLen BY <1>5, <1>15, <1>17
  <2>4. State(0) = FirstTurn(p) BY <2>2, <2>3, Zenon DEF FirstTurn
  <2>5. QED BY <1>14, <1>21, <2>1, <2>4
<1>23. ASSUME NEW i \in 1..5, i - 1 \in P PROVE i \in P
  <2>1. i \in 0..5 /\ i - 1 \in 0..5 OBVIOUS
  <2>2. turn[Cardinality(T(i - 1))] = State(i - 1) BY <1>21, <1>23
  <2>3. PICK tag \in Range(TagOrder) : tag = TagOrder[i] BY TagNames
  <2>4. rows[i] = IF tag \in tags THEN TagEntry(tag, flips) ELSE << >> BY <1>2, <2>3
  <2>a. off[i] = off[i - 1] + Len(rows[i]) /\ off[i - 1] \in Nat /\ off[i] \in Nat BY <1>17, <2>1
  <2>5. CASE tag \notin tags
    <3>1. Len(rows[i]) = 0 BY <2>4, <2>5
    <3>2. off[i] = off[i - 1] BY <2>a, <3>1
    <3>3. T(i) = T(i - 1) BY <1>19, <2>3, <2>5
    <3>4. State(i) = State(i - 1) BY <3>2, <3>3
    <3>5. QED BY <1>21, <2>1, <2>2, <3>3, <3>4
  <2>6. CASE tag \in tags
    <3>1. T(i) = T(i - 1) \cup {tag} /\ tag \notin T(i - 1) BY <1>19, <2>3, <2>6
    <3>2. IsFiniteSet(T(i - 1)) /\ Cardinality(T(i - 1)) \in 0..n /\ Cardinality(T(i)) \in 0..n
      BY <1>18, <2>1
    <3>3. Cardinality(T(i)) = Cardinality(T(i - 1)) + 1 BY <3>1, <3>2, FS_AddElement
    <3>4. PICK k \in 1..n : k = Cardinality(T(i)) /\ k - 1 = Cardinality(T(i - 1)) BY <3>2, <3>3
    <3>5. turn[k] = ReadTag(bytes, State(i - 1)) BY <1>14, <2>2, <3>4
    <3>6. PICK there \in Nat : there = q + off[i - 1] BY <2>a
    <3>7. Placed(bytes, there, TagEntry(tag, flips)) BY <1>3, <1>16, <2>4, <2>6, <3>6
    <3>8. PICK old : old = IF "observable_flips" \in T(i - 1) THEN flips ELSE {} OBVIOUS
    <3>9. State(i - 1) = [at |-> there, more |-> TRUE, meta |-> [tags |-> T(i - 1), flips |-> old]]
      BY <3>6, <3>8
    <3>10. ReadTag(bytes, State(i - 1))
           = [at |-> there + (TagHeaderLen + TagLen(tag)), more |-> TRUE,
              meta |-> [tags |-> T(i - 1) \cup {tag},
                        flips |-> IF tag = "observable_flips" THEN flips ELSE old]]
      <4>a. PICK before, s : /\ before = T(i - 1) /\ s = State(i - 1)
                             /\ s = [at |-> there, more |-> TRUE, meta |-> [tags |-> before, flips |-> old]]
        BY <3>9
      <4>1. ReadTag(bytes, [at |-> there, more |-> TRUE, meta |-> [tags |-> before, flips |-> old]])
            = [at |-> there + (TagHeaderLen + TagLen(tag)), more |-> TRUE,
               meta |-> [tags |-> before \cup {tag},
                         flips |-> IF tag = "observable_flips" THEN flips ELSE old]]
        BY <1>10, <3>7, ReadsEntry, SMTT(30)
      <4>2. ReadTag(bytes, s)
            = [at |-> there + (TagHeaderLen + TagLen(tag)), more |-> TRUE,
               meta |-> [tags |-> before \cup {tag},
                         flips |-> IF tag = "observable_flips" THEN flips ELSE old]]
        BY <4>a, <4>1, Zenon
      <4>3. QED BY <4>a, <4>2, Zenon
    <3>11. there + (TagHeaderLen + TagLen(tag)) = q + off[i]
      <4>1. Len(rows[i]) = TagHeaderLen + TagLen(tag) BY <2>4, <2>6, EntryIs
      <4>2. off[i] = off[i - 1] + (TagHeaderLen + TagLen(tag)) /\ off[i - 1] \in Nat /\ off[i] \in Nat
        BY <2>a, <4>1
      <4>3. PICK len \in Nat : len = TagHeaderLen + TagLen(tag) BY Lengths, TagNames
      <4>4. QED BY <3>6, <4>2, <4>3, SMTT(30)
    <3>12. (IF tag = "observable_flips" THEN flips ELSE old) = IF "observable_flips" \in T(i) THEN flips ELSE {}
      BY <3>1, <3>8
    <3>13. State(i) = [at |-> there + (TagHeaderLen + TagLen(tag)), more |-> TRUE,
                       meta |-> [tags |-> T(i - 1) \cup {tag},
                                 flips |-> IF tag = "observable_flips" THEN flips ELSE old]]
      BY <3>1, <3>11, <3>12
    <3>14. turn[Cardinality(T(i))] = State(i) BY <3>4, <3>5, <3>10, <3>13
    <3>15. QED BY <1>21, <2>1, <3>14
  <2>7. QED BY <2>5, <2>6
<1>24. 0..5 \subseteq P BY <1>22, <1>23, UpTo
<1>25. turn[Cardinality(T(5))] = State(5) BY <1>21, <1>24
<1>26. turn[n] = [at |-> q + off[5], more |-> TRUE, meta |-> Found(5)] BY <1>4, <1>20, <1>25
<1>27. Found(5) = Returned(meta) BY <1>1, <1>20 DEF Returned
<1>28. q + off[5] = p + Len(WriteMetadataTlv(meta))
  <2>1. Len(c \o flat) = Len(c) + Len(flat) BY <1>8, ConcatProperties
  <2>2. Len(flat) \in Nat BY LenProperties
  <2>3. QED BY <1>7, <1>9, <1>10, <1>15, <1>17, <2>1, <2>2
<1>29. QED BY <1>12, <1>14, <1>26, <1>27, <1>28, Zenon

\* What a reader field by field returns.
WireFrames == [frame_id : Nat, ancilla_count : Nat, detector_events : Seq(Token),
               observable_flips : Seq(SUBSET Nat)]

\* Where the metadata is, behind the fields of a frame that is one.
LEMMA MetadataPlace ==
  ASSUME NEW bytes, NEW p \in Nat, NEW f \in FrameData, Readable(bytes, p, f)
  PROVE  MetadataAt(bytes, p) \in Nat /\ p <= MetadataAt(bytes, p)
<1>1. /\ ValueAt(bytes, p) = f.hdr /\ ValueAt(bytes, DeLenAt(p)) = Len(f.de) % CountModulus
  BY Zenon DEF Readable
<1>2. f.hdr \in Header /\ Len(f.de) % CountModulus \in Nat BY FrameTypes, CountType
<1>3. PICK a \in Nat, l \in Nat, d \in Nat, n \in Nat :
        a = FrameHeaderLen /\ l = PrefixLen /\ d = Len(f.de) % CountModulus /\ n = f.hdr.ancilla_count
  BY <1>2, Lengths DEF Header
<1>4. MeasAt(bytes, p) = p + a + l + d BY <1>1, <1>3 DEF MeasAt, DeLenAt
<1>5. PICK timing \in Nat : timing = TimingLen(f.hdr) BY <1>3 DEF TimingLen
<1>6. PICK parity \in Nat : parity = ParityLen(f.hdr) BY <1>3 DEF ParityLen
<1>7. MetadataAt(bytes, p) = p + a + l + d + n + timing + parity
  BY <1>1, <1>3, <1>4, <1>5, <1>6, Zenon DEF MetadataAt
<1>8. QED BY <1>7

\* The tokens of a frame are tokens.
LEMMA TokensType ==
  ASSUME NEW bytes, NEW p \in Nat, NEW f \in FrameData, Readable(bytes, p, f)
  PROVE  Tokens(bytes, p) \in Seq(Token)
<1>1. /\ ValueAt(bytes, DeLenAt(p)) = Len(f.de) % CountModulus
      /\ \A k \in 1..Len(f.de) : ValueAt(bytes, DeLenAt(p) + PrefixLen + k - 1) = f.de[k]
  BY Zenon DEF Readable
<1>2. PICK n \in Nat, d \in Nat : n = Len(f.de) /\ d = Len(f.de) % CountModulus /\ d <= n
  BY FrameTypes, CountType
<1>3. \A k \in 1..d : ValueAt(bytes, DeLenAt(p) + PrefixLen + k - 1) \in Token
  <2> TAKE k \in 1..d
  <2>1. k \in 1..n BY <1>2
  <2>2. f.de[k] \in Token BY <1>2, <2>1, FrameTypes, ElementOfSeq
  <2>3. QED BY <1>1, <1>2, <2>1, <2>2
<1>4. Tokens(bytes, p) = [k \in 1..d |-> ValueAt(bytes, DeLenAt(p) + PrefixLen + k - 1)]
  BY <1>1, <1>2, Zenon DEF Tokens
<1>5. Tokens(bytes, p) \in [1..d -> Token] BY <1>3, <1>4
<1>6. QED BY <1>5, SeqDef

\* A place from which a reader who looks for a terminator comes to the end of the bytes.
EndsCut(bytes, place) == place \in Nat /\ place <= Len(bytes) /\ place + TerminatorLen > Len(bytes)

\* What comes next behind frame q, at p.
Following(bytes, es, q, p, next) ==
  \/ next.status \in {"end", "error", "adrift"} /\ next.at = p
  \/ /\ next.status = "frame" /\ next.frame \in WireFrames /\ q < Len(es)
     /\ \/ \E k \in 1..Len(es) : q < k /\ next.at = es[k]
        \/ EndsCut(bytes, next.at) /\ ~ HasNext(bytes, p)

\* The next of a stream is a frame, of which the terminator is that of one of the frames still
\* unread or is missing because the stream ends, or the end, or an error that leaves the reader
\* where it is.
LEMMA WireNext ==
  ASSUME NEW bytes, NEW es, NEW base, Layout(bytes, es, base), NEW q \in 0..Len(es),
         NEW p, p = StartAt(es, base, q + 1), NEW next, next = NextOnWire(bytes, p)
  PROVE  Following(bytes, es, q, p, next)
<1>1. /\ bytes \in Seq(Cell) /\ es \in Seq(Nat) /\ base \in Nat /\ Ascend(es, base)
      /\ Len(bytes) = StartAt(es, base, Len(es) + 1) BY Zenon DEF Layout
<1>2. PICK n \in Nat, m \in Nat, a \in Nat \ {0}, t \in Nat \ {0} :
        n = Len(es) /\ m = Len(bytes) /\ a = FrameHeaderLen /\ t = TerminatorLen
  BY <1>1, Lengths, LenProperties
<1>3. p \in Nat BY <1>2, <1>1, Starts
<1>4. PICK hdr, meta, term :
        /\ hdr = ValueAt(bytes, p) /\ meta = MetaFound(bytes, p)
        /\ term = TerminatorFound(bytes, p, meta.at) OBVIOUS
<1>0. PICK over \in BOOLEAN, astray \in BOOLEAN, there \in BOOLEAN :
        /\ over <=> p + a > m
        /\ astray <=> Astray(bytes, p)
        /\ there <=> FieldsThere(bytes, p) OBVIOUS
<1>5. PICK short \in BOOLEAN, ends_there \in BOOLEAN :
        /\ short <=> term + t > m
        /\ ends_there <=> (/\ Holds(bytes, term, "terminator", t)
                           /\ ValueAt(bytes, term) = [of |-> "header", hdr |-> hdr]) OBVIOUS
<1>6. next = IF over THEN Outcome("end", NoFrame, p)
             ELSE IF astray THEN Outcome("adrift", NoFrame, p)
             ELSE IF ~ there THEN Outcome("error", NoFrame, p)
             ELSE IF short THEN Outcome("frame", Parsed(bytes, p, meta.meta), term)
             ELSE IF ends_there THEN Outcome("frame", Parsed(bytes, p, meta.meta), term + t)
             ELSE Outcome("error", NoFrame, p) BY <1>0, <1>2, <1>4, <1>5, Zenon DEF NextOnWire
<1>8. CASE over \/ astray \/ ~ there \/ ~ (short \/ ends_there) BY <1>6, <1>8 DEF Outcome, Following
<1>9. CASE ~ over /\ ~ astray /\ there /\ (short \/ ends_there)
  <2>0. Holds(bytes, p, "header", FrameHeaderLen) /\ term <= Len(bytes)
    BY <1>0, <1>4, <1>9, Zenon DEF Astray, FieldsThere
  <2>1. /\ next.status = "frame" /\ next.frame = Parsed(bytes, p, meta.meta)
        /\ next.at = IF short THEN term ELSE term + t BY <1>6, <1>9 DEF Outcome
  <2>2. q \in 0..n - 1
    <3>1. CASE q = n BY <1>0, <1>1, <1>2, <3>1, <1>9
    <3>2. CASE q # n BY <1>2, <3>2
    <3>3. QED BY <3>1, <3>2
  <2>3. PICK f \in FrameData : Readable(bytes, p, f) BY <1>2, <2>2, FrameFound
  <2>4. hdr = f.hdr /\ hdr \in Header BY <1>4, <2>3, FrameTypes, Zenon DEF Readable
  <2>5. PICK place \in Nat : place = MetadataAt(bytes, p) /\ p <= place BY <1>3, <2>3, MetadataPlace
  <2>6. meta.at \in Nat /\ place <= meta.at /\ meta.meta \in Metadata
    <3>1. CASE "metadata" \in hdr.flags
      BY <1>1, <1>4, <2>5, <3>1, ParseType DEF TagStates, MetaFound
    <3>2. CASE "metadata" \notin hdr.flags
      <4>1. meta = [at |-> place, more |-> TRUE, meta |-> NoMetadata]
        BY <1>4, <2>5, <3>2, Zenon DEF MetaFound
      <4>2. {} \in SUBSET Range(TagOrder) /\ {} \in SUBSET Nat OBVIOUS
      <4>3. NoMetadata \in Metadata BY <4>2 DEF NoMetadata, Metadata
      <4>4. QED BY <4>1, <4>3
    <3>3. QED BY <3>1, <3>2
  <2>7. PICK behind \in Nat : behind = meta.at BY <2>6
  <2>8. term \in Nat /\ behind <= term
    <3>1. CASE "annotations" \in hdr.flags /\ Holds(bytes, behind, "count", 1)
      <4>1. ValueAt(bytes, behind) \in Nat BY <1>1, <3>1, FieldValue
      <4>2. PICK c \in Nat, l \in Nat : c = ValueAt(bytes, behind) /\ l = AnnotationLen
        BY <4>1, Lengths
      <4>3. c * l \in Nat OBVIOUS
      <4>4. PICK cl \in Nat : cl = c * l BY <4>3
      <4>5. term = behind + 1 + cl BY <1>4, <2>7, <3>1, <4>2, <4>4, Zenon DEF TerminatorFound
      <4>6. QED BY <4>5
    <3>2. CASE ~ ("annotations" \in hdr.flags /\ Holds(bytes, behind, "count", 1))
      BY <1>4, <2>7, <3>2 DEF TerminatorFound
    <3>3. QED BY <3>1, <3>2
  <2>9. ASSUME ~ short PROVE \E k \in 1..Len(es) : q < k /\ next.at = es[k]
    <3>1. PICK k \in 1..Len(es) : es[k] = term + t BY <1>2, <1>5, <1>9, <2>8, <2>9, TerminatorEnds
    <3>2. q < k
      <4>1. CASE q = 0 BY <1>2, <3>1, <4>1
      <4>2. CASE q # 0
        <5>1. p = es[q] /\ q \in 1..Len(es) BY <1>2, <4>2 DEF StartAt
        <5>2. es[k] \in Nat /\ (es[k] <= es[q] <=> k <= q) BY <1>1, <3>1, <5>1, LaterEnds
        <5>3. p < term + t BY <1>3, <2>5, <2>6, <2>7, <2>8
        <5>4. ~ es[k] <= es[q] BY <1>3, <2>8, <3>1, <5>1, <5>3
        <5>5. QED BY <1>2, <3>1, <5>2, <5>4
      <4>3. QED BY <4>1, <4>2
    <3>3. QED BY <2>1, <2>9, <3>1, <3>2, Zenon
  <2>10. ASSUME short PROVE EndsCut(bytes, next.at) /\ ~ HasNext(bytes, p)
    <3>1. ~ (term + t <= m) BY <1>5, <2>8, <2>10
    <3>2. ~ HasNext(bytes, p) BY <1>0, <1>2, <1>4, <1>9, <3>1, Zenon DEF HasNext
    <3>3. next.at = term BY <2>1, <2>10
    <3>4. QED BY <1>2, <1>5, <2>0, <2>8, <2>10, <3>2, <3>3, Zenon DEF EndsCut
  <2>11. Parsed(bytes, p, meta.meta) \in WireFrames
    <3>1. Tokens(bytes, p) \in Seq(Token) BY <1>3, <2>3, TokensType
    <3>2. PICK id \in Nat, width \in Nat : id = hdr.frame_id /\ width = hdr.ancilla_count
      BY <2>4 DEF Header
    <3>3. meta.meta.flips \in SUBSET Nat BY <2>6 DEF Metadata
    <3>4. PICK flips \in Seq(SUBSET Nat) :
            flips = IF "observable_flips" \in meta.meta.tags THEN <<meta.meta.flips>> ELSE << >>
      <4>1. <<meta.meta.flips>> \in Seq(SUBSET Nat) /\ << >> \in Seq(SUBSET Nat) BY <3>3
      <4>2. QED BY <4>1
    <3>5. PICK tokens \in Seq(Token) : tokens = Tokens(bytes, p) BY <3>1
    <3>6. Parsed(bytes, p, meta.meta) = [frame_id |-> id, ancilla_count |-> width, detector_events |-> tokens,
                                         observable_flips |-> flips]
      BY <1>4, <3>2, <3>4, <3>5, Zenon DEF Parsed
    <3>7. QED BY <3>6 DEF WireFrames
  <2>12. q < Len(es) BY <1>2, <2>2
  <2>13. QED BY <2>1, <2>9, <2>10, <2>11, <2>12, Zenon DEF Following
<1>10. QED BY <1>8, <1>9

-----------------------------------------------------------------------------
(* Frames and back *)

\* A frame says this of a round.
Says(f, id, events, truth) ==
  /\ f.hdr.frame_id = id
  /\ events \in Seq(BOOLEAN) /\ f.de = EncodeDetectorEvents(events) /\ f.meas = events
  /\ f.hdr.ancilla_count = Len(events) /\ Len(events) < CountModulus
  /\ Annotated(f, events, truth)

\* Which flags are set.
LEMMA FlagsAre ==
  ASSUME NEW shot \in Shots, NEW meta, NEW annotated
  PROVE  /\ "timing" \in Flags(shot, meta, annotated) <=> shot.timing
         /\ "parity" \in Flags(shot, meta, annotated) <=> shot.parity
         /\ "metadata" \in Flags(shot, meta, annotated) <=> meta # NoMetadata
         /\ "annotations" \in Flags(shot, meta, annotated) <=> annotated # << >> BY DEF Flags

\* Annotations that stand in the bytes are counted, to their end.
LEMMA AnnotationsPlaced ==
  ASSUME NEW bytes, Len(bytes) \in Nat, NEW p \in Nat, NEW n \in Nat, Placed(bytes, p, WriteAnnotations(n))
  PROVE  /\ Holds(bytes, p, "count", 1)
         /\ p + 1 + ValueAt(bytes, p) * AnnotationLen = p + Len(WriteAnnotations(n))
<1>1. PICK m \in Nat : m = n * AnnotationLen BY Lengths
<1>2. PICK a : a = Field("count", n, 1) OBVIOUS
<1>3. a \in Seq(BlockCell) /\ IsField(a, "count", n, 1) BY <1>2, FieldIs DEF BlockCell
<1>4. PICK b : b = Field("annotations", n, m) OBVIOUS
<1>5. b \in Seq(BlockCell) /\ IsField(b, "annotations", n, m)
  <2>1. \A k \in 1..m : <<"annotations", k, n>> \in BlockCell BY DEF BlockCell
  <2>2. Field("annotations", n, m) \in Seq(BlockCell) /\ IsField(Field("annotations", n, m), "annotations", n, m)
    BY <2>1, FieldIs
  <2>3. QED BY <1>4, <2>2
<1>6. WriteAnnotations(n) = a \o b BY <1>1, <1>2, <1>4, Zenon DEF WriteAnnotations
<1>7. Placed(bytes, p, a) BY <1>3, <1>5, <1>6, PlacedParts
<1>8. Holds(bytes, p, "count", 1) /\ ValueAt(bytes, p) = n BY <1>3, <1>7, FieldPlaced
<1>9. Len(a \o b) = 1 + m
  <2>1. Len(a) = 1 /\ Len(b) = m BY <1>3, <1>5 DEF IsField
  <2>2. Len(a \o b) = Len(a) + Len(b) BY <1>3, <1>5, ConcatProperties
  <2>3. QED BY <2>1, <2>2
<1>10. ValueAt(bytes, p) * AnnotationLen = m /\ Len(WriteAnnotations(n)) = 1 + m
  BY <1>1, <1>6, <1>8, <1>9, Zenon
<1>11. p + 1 + m = p + (1 + m) OBVIOUS
<1>12. QED BY <1>8, <1>10, <1>11, Zenon

\* How long the blocks of fixed length are.
TimingOf(shot) == IF shot.timing THEN Len(shot.events) * 2 ELSE 0

ParityOf(shot) == IF shot.parity THEN (Len(shot.events) + 7) \div 8 ELSE 0

\* The blocks that a header announces stand in their place, behind which is the metadata.
BlocksStand(bytes, p, place, shot, meta, annotated) ==
  /\ ValueAt(bytes, p).flags = Flags(shot, meta, annotated)
  /\ Placed(bytes, place, Blocks(shot, meta, annotated))
  /\ MetadataAt(bytes, p) = place + TimingOf(shot) + ParityOf(shot)

\* The reader comes to their end, with the metadata.
BlocksLead(bytes, p, place, shot, meta, annotated) ==
  /\ TerminatorFound(bytes, p, MetaFound(bytes, p).at) = place + Len(Blocks(shot, meta, annotated))
  /\ MetaFound(bytes, p).meta = Returned(meta)
  /\ BlocksThere(bytes, p)

\* The blocks of a frame lead to its terminator, and their metadata is the truth.
LEMMA BlocksRead ==
  ASSUME NEW bytes \in Seq(Cell), NEW p \in Nat, NEW place \in Nat,
         NEW shot \in Shots, NEW meta \in Metadata, NEW annotated \in Seq(Nat),
         BlocksStand(bytes, p, place, shot, meta, annotated)
  PROVE  BlocksLead(bytes, p, place, shot, meta, annotated)
<1>0. /\ ValueAt(bytes, p).flags = Flags(shot, meta, annotated)
      /\ Placed(bytes, place, Blocks(shot, meta, annotated))
      /\ MetadataAt(bytes, p) = place + TimingOf(shot) + ParityOf(shot) BY Zenon DEF BlocksStand
<1>1. PICK timing \in Seq(BlockCell), parity \in Seq(BlockCell), metadata \in Seq(BlockCell),
           annotations \in Seq(BlockCell) :
        BlockParts(shot, meta, annotated, timing, parity, metadata, annotations) BY BlocksJoined
<1>2. PICK first \in Seq(BlockCell) : first = timing \o parity BY ConcatProperties
<1>3. PICK second \in Seq(BlockCell) : second = first \o metadata BY ConcatProperties
<1>4. PICK all \in Seq(BlockCell) : all = second \o annotations BY ConcatProperties
<1>5. Blocks(shot, meta, annotated) = all BY <1>1, <1>2, <1>3, <1>4, Zenon DEF BlockParts
<1>6. PICK a \in Nat, b \in Nat, c \in Nat, d \in Nat :
        a = Len(timing) /\ b = Len(parity) /\ c = Len(metadata) /\ d = Len(annotations)
  BY LenProperties
<1>7. Len(first) = a + b /\ Len(second) = a + b + c /\ Len(all) = a + b + c + d
  BY <1>2, <1>3, <1>4, <1>6, ConcatProperties
<1>8. Len(bytes) \in Nat BY LenProperties
<1>9. Placed(bytes, place, second) /\ Placed(bytes, place + Len(second), annotations)
  BY <1>0, <1>4, <1>5, <1>8, PlacedParts
<1>10. Placed(bytes, place + Len(first), metadata) BY <1>3, <1>8, <1>9, PlacedParts
<1>11. PICK m \in Nat : m = place + (a + b) OBVIOUS
<1>12. MetadataAt(bytes, p) = m
  <2>1. MetadataAt(bytes, p) = place + a + b
    BY <1>0, <1>1, <1>6, Zenon DEF BlockParts, TimingOf, ParityOf
  <2>2. place + a + b = m BY <1>11
  <2>3. QED BY <2>1, <2>2, Zenon
<1>13. Placed(bytes, m, metadata) /\ Placed(bytes, m + c, annotations) BY <1>11, <1>7, <1>9, <1>10
<1>14. /\ MetaFound(bytes, p).at = m + c /\ MetaFound(bytes, p).meta = Returned(meta)
       /\ "metadata" \in ValueAt(bytes, p).flags => Holds(bytes, MetadataAt(bytes, p), "tag_count", PrefixLen)
  <2>1. CASE meta # NoMetadata
    <3>1. metadata = WriteMetadataTlv(meta) BY <1>1, <2>1 DEF BlockParts
    <3>2. /\ ParseMetadataTlv(bytes, m) = [at |-> m + c, more |-> TRUE, meta |-> Returned(meta)]
          /\ Holds(bytes, m, "tag_count", PrefixLen) BY <1>6, <1>13, <3>1, ParseReturns
    <3>3. "metadata" \in ValueAt(bytes, p).flags BY <1>0, <2>1, FlagsAre
    <3>4. MetaFound(bytes, p) = [at |-> m + c, more |-> TRUE, meta |-> Returned(meta)]
      BY <1>12, <3>2, <3>3, Zenon DEF MetaFound
    <3>5. QED BY <1>12, <3>2, <3>4
  <2>2. CASE meta = NoMetadata
    <3>1. metadata = << >> BY <1>1, <2>2 DEF BlockParts
    <3>2. c = 0 BY <1>6, <3>1
    <3>3. "metadata" \notin ValueAt(bytes, p).flags BY <1>0, <2>2, FlagsAre
    <3>4. MetaFound(bytes, p) = [at |-> m, more |-> TRUE, meta |-> NoMetadata]
      BY <1>12, <3>3, Zenon DEF MetaFound
    <3>5. Returned(meta) = NoMetadata BY <2>2 DEF Returned, NoMetadata
    <3>6. QED BY <3>2, <3>3, <3>4, <3>5
  <2>3. QED BY <2>1, <2>2
<1>15. /\ TerminatorFound(bytes, p, m + c) = m + c + d
       /\ "annotations" \in ValueAt(bytes, p).flags => Holds(bytes, m + c, "count", 1)
  <2>1. CASE annotated # << >>
    <3>1. PICK n \in Nat : n = annotated[1] BY <2>1, BlocksJoined
    <3>2. annotations = WriteAnnotations(n) BY <1>1, <2>1, <3>1 DEF BlockParts
    <3>3. PICK there \in Nat : there = m + c OBVIOUS
    <3>4. /\ Holds(bytes, there, "count", 1)
          /\ there + 1 + ValueAt(bytes, there) * AnnotationLen = there + d
      <4>1. Placed(bytes, there, WriteAnnotations(n)) /\ d = Len(WriteAnnotations(n))
        BY <1>6, <1>13, <3>2, <3>3, Zenon
      <4>2. /\ Holds(bytes, there, "count", 1)
            /\ there + 1 + ValueAt(bytes, there) * AnnotationLen = there + Len(WriteAnnotations(n))
        BY <1>8, <4>1, AnnotationsPlaced
      <4>3. QED BY <4>1, <4>2, Zenon
    <3>5. "annotations" \in ValueAt(bytes, p).flags BY <1>0, <2>1, FlagsAre
    <3>6. TerminatorFound(bytes, p, there) = there + d BY <3>4, <3>5, Zenon DEF TerminatorFound
    <3>7. QED BY <3>3, <3>4, <3>6
  <2>2. CASE annotated = << >>
    <3>1. annotations = << >> BY <1>1, <2>2 DEF BlockParts
    <3>2. d = 0 BY <1>6, <3>1
    <3>3. "annotations" \notin ValueAt(bytes, p).flags BY <1>0, <2>2, FlagsAre
    <3>4. TerminatorFound(bytes, p, m + c) = m + c BY <3>3, Zenon DEF TerminatorFound
    <3>5. QED BY <3>2, <3>3, <3>4
  <2>3. QED BY <2>1, <2>2
<1>16. m + c + d = place + Len(all) BY <1>7, <1>11
<1>17. QED BY <1>5, <1>14, <1>15, <1>16, Zenon DEF BlocksLead, BlocksThere

\* The tokens of a frame are found, if their number fits its count.
LEMMA TokensAre ==
  ASSUME NEW bytes, NEW p \in Nat, NEW f \in FrameData, Readable(bytes, p, f), Len(f.de) < CountModulus
  PROVE  ValueAt(bytes, DeLenAt(p)) = Len(f.de) /\ Tokens(bytes, p) = f.de
<1>1. PICK n \in Nat : n = Len(f.de) BY FrameTypes
<1>2. n % CountModulus = n BY <1>1, FileAssumption, SMTT(30)
<1>3. ValueAt(bytes, DeLenAt(p)) = n BY <1>1, <1>2 DEF Readable
<1>4. \A k \in 1..n : ValueAt(bytes, DeLenAt(p) + PrefixLen + k - 1) = f.de[k]
  BY <1>1, Zenon DEF Readable
<1>5. Tokens(bytes, p) = [k \in 1..n |-> f.de[k]] BY <1>3, <1>4, Zenon DEF Tokens
<1>6. f.de \in Seq(Token) /\ DOMAIN f.de = 1..n /\ f.de = [k \in DOMAIN f.de |-> f.de[k]]
  BY <1>1, FrameTypes, LenProperties
<1>7. QED BY <1>1, <1>3, <1>5, <1>6

\* The tokens of a frame that says a round are those of its events.
LEMMA SaidTokens ==
  ASSUME NEW bytes, NEW p \in Nat, NEW f \in FrameData, Readable(bytes, p, f),
         NEW id, NEW events, NEW truth, Says(f, id, events, truth)
  PROVE  /\ ValueAt(bytes, DeLenAt(p)) = Len(f.de)
         /\ Tokens(bytes, p) = EncodeDetectorEvents(events)
<1>1. events \in Seq(BOOLEAN) /\ f.de = EncodeDetectorEvents(events) /\ Len(events) < CountModulus
  BY DEF Says
<1>2. PICK n \in Nat, w \in Nat : n = Len(f.de) /\ w = Len(events) /\ n <= w
  BY <1>1, RunsReturn, LenProperties
<1>3. Len(f.de) < CountModulus BY <1>1, <1>2, FileAssumption
<1>4. QED BY <1>1, <1>3, TokensAre

\* What the reader of a stream returns for a round.
WireFrame(id, events, truth) ==
  [frame_id |-> id, ancilla_count |-> Len(events), detector_events |-> EncodeDetectorEvents(events),
   observable_flips |-> truth]

\* Where a frame stands, its fields and its terminator are found.
LEMMA PartsReturn ==
  ASSUME NEW bytes \in Seq(Cell), NEW p \in Nat, NEW f \in FrameData, Readable(bytes, p, f),
         p + LengthOf(f) <= Len(bytes), NEW id, NEW events, NEW truth, Says(f, id, events, truth)
  PROVE  /\ BlocksThere(bytes, p)
         /\ TerminatorFound(bytes, p, MetaFound(bytes, p).at) = p + TerminatorOf(f)
         /\ Parsed(bytes, p, MetaFound(bytes, p).meta) = WireFrame(id, events, truth)
<1>1. /\ f.hdr.frame_id = id /\ events \in Seq(BOOLEAN) /\ f.meas = events
      /\ f.hdr.ancilla_count = Len(events) BY DEF Says
<1>2. PICK shot \in Shots, meta \in Metadata, annotated \in Seq(Nat) :
        /\ shot.events = events /\ f.hdr.flags = Flags(shot, meta, annotated)
        /\ f.blocks = Blocks(shot, meta, annotated)
        /\ truth = IF "observable_flips" \in meta.tags THEN <<meta.flips>> ELSE << >>
  BY Zenon DEF Says, Annotated, TruthOf
<1>3. ValueAt(bytes, p) = f.hdr /\ Holds(bytes, p, "header", FrameHeaderLen) BY DEF Readable
<1>4. PICK w \in Nat, n \in Nat, b \in Nat : w = Len(events) /\ n = Len(f.de) /\ b = Len(f.blocks)
  BY <1>1, LenProperties, FrameTypes
<1>5. PICK h \in Nat, e \in Nat, t \in Nat : h = FrameHeaderLen /\ e = PrefixLen /\ t = TerminatorLen
  BY Lengths
<1>6. BlocksOf(f) = h + e + n + w /\ TerminatorOf(f) = h + e + n + w + b /\ LengthOf(f) = h + e + n + w + b + t
  BY <1>1, <1>4, <1>5 DEF BlocksOf, MeasOf, RleAt, TerminatorOf, LengthOf
<1>7. PICK place \in Nat : place = p + BlocksOf(f) BY <1>6
<1>8. MeasAt(bytes, p) + f.hdr.ancilla_count = place
  <2>1. ValueAt(bytes, DeLenAt(p)) = n BY <1>4, SaidTokens
  <2>2. MeasAt(bytes, p) = p + h + e + n BY <1>5, <2>1 DEF MeasAt, DeLenAt
  <2>3. p + h + e + n + w = place BY <1>6, <1>7
  <2>4. QED BY <1>1, <1>4, <2>2, <2>3, Zenon
<1>9. TimingLen(f.hdr) = TimingOf(shot) BY <1>1, <1>2, FlagsAre DEF TimingLen, TimingOf
<1>10. ParityLen(f.hdr) = ParityOf(shot) BY <1>1, <1>2, FlagsAre DEF ParityLen, ParityOf
<1>11. MetadataAt(bytes, p) = place + TimingOf(shot) + ParityOf(shot)
  BY <1>3, <1>8, <1>9, <1>10, Zenon DEF MetadataAt
<1>12. Placed(bytes, place, f.blocks)
  <2>1. \A k \in 1..Len(f.blocks) : bytes[p + BlocksOf(f) + k] = f.blocks[k] BY Zenon DEF Readable
  <2>2. Len(bytes) \in Nat BY LenProperties
  <2>3. place + b <= Len(bytes) BY <1>5, <1>6, <1>7, <2>2
  <2>4. QED BY <1>4, <1>7, <2>1, <2>3, Zenon DEF Placed
<1>13. /\ TerminatorFound(bytes, p, MetaFound(bytes, p).at) = place + b
       /\ MetaFound(bytes, p).meta = Returned(meta) /\ BlocksThere(bytes, p)
  <2>1. /\ ValueAt(bytes, p).flags = Flags(shot, meta, annotated)
        /\ Placed(bytes, place, Blocks(shot, meta, annotated)) /\ Len(Blocks(shot, meta, annotated)) = b
    BY <1>2, <1>3, <1>4, <1>12, Zenon
  <2>2. BlocksStand(bytes, p, place, shot, meta, annotated) BY <1>11, <2>1, Zenon DEF BlocksStand
  <2>3. BlocksLead(bytes, p, place, shot, meta, annotated) BY <2>2, BlocksRead
  <2>4. QED BY <2>1, <2>3, Zenon DEF BlocksLead
<1>14. place + b = p + TerminatorOf(f) /\ p + TerminatorOf(f) + TerminatorLen = p + LengthOf(f)
  BY <1>5, <1>6, <1>7
<1>15. Parsed(bytes, p, MetaFound(bytes, p).meta) = WireFrame(id, events, truth)
  <2>1. PICK m : m = MetaFound(bytes, p).meta OBVIOUS
  <2>2. m.tags = meta.tags /\ ("observable_flips" \in meta.tags => m.flips = meta.flips)
    BY <1>13, <2>1 DEF Returned
  <2>3. (IF "observable_flips" \in m.tags THEN <<m.flips>> ELSE << >>) = truth BY <1>2, <2>2
  <2>4. Tokens(bytes, p) = EncodeDetectorEvents(events) BY SaidTokens
  <2>5. QED BY <1>1, <1>3, <2>1, <2>3, <2>4, Zenon DEF Parsed, WireFrame
<1>16. QED BY <1>13, <1>14, <1>15, Zenon

\* The header is not longer than what stands before the terminator.
LEMMA HeaderFirst ==
  ASSUME NEW f \in FrameData
  PROVE  FrameHeaderLen <= TerminatorOf(f) /\ FrameHeaderLen <= LengthOf(f)
<1>1. PICK h \in Nat, e \in Nat, n \in Nat, w \in Nat, b \in Nat, t \in Nat :
        /\ h = FrameHeaderLen /\ e = PrefixLen /\ n = Len(f.de) /\ w = Len(f.meas) /\ b = Len(f.blocks)
        /\ t = TerminatorLen BY Lengths, FrameTypes
<1>2. TerminatorOf(f) = h + e + n + w + b /\ LengthOf(f) = h + e + n + w + b + t
  BY <1>1, Zenon DEF LengthOf, TerminatorOf, BlocksOf, MeasOf, RleAt
<1>3. h <= h + e + n + w + b /\ h <= h + e + n + w + b + t OBVIOUS
<1>4. QED BY <1>1, <1>2, <1>3, Zenon

\* What the reader of a stream asks for stands where it looks for it.
Asked(bytes, p) ==
  /\ Holds(bytes, p, "header", FrameHeaderLen)
  /\ Holds(bytes, DeLenAt(p), "de_len", PrefixLen)
  /\ BlocksThere(bytes, p)

\* Then it depends on the terminator, and on where the bytes end, what it returns.
LEMMA WireIs ==
  ASSUME NEW bytes, Len(bytes) \in Nat, NEW p \in Nat, Asked(bytes, p),
         NEW term \in Nat, term = TerminatorFound(bytes, p, MetaFound(bytes, p).at)
  PROVE  NextOnWire(bytes, p) =
           IF term > Len(bytes) THEN Outcome("error", NoFrame, p)
           ELSE IF term + TerminatorLen > Len(bytes)
           THEN Outcome("frame", Parsed(bytes, p, MetaFound(bytes, p).meta), term)
           ELSE IF /\ Holds(bytes, term, "terminator", TerminatorLen)
                   /\ ValueAt(bytes, term) = [of |-> "header", hdr |-> ValueAt(bytes, p)]
           THEN Outcome("frame", Parsed(bytes, p, MetaFound(bytes, p).meta), term + TerminatorLen)
           ELSE Outcome("error", NoFrame, p)
<1>1. PICK len \in Nat, h \in Nat : len = Len(bytes) /\ h = FrameHeaderLen BY Lengths
<1>2. ~ (p + FrameHeaderLen > Len(bytes)) BY <1>1 DEF Asked, Holds
<1>3. ~ Astray(bytes, p) BY Zenon DEF Astray, Asked, BlocksThere, Elsewhere
<1>4. FieldsThere(bytes, p) <=> term <= Len(bytes) BY Zenon DEF FieldsThere, Asked
<1>5. term <= Len(bytes) <=> ~ (term > Len(bytes)) BY <1>1
<1>6. FieldsThere(bytes, p) <=> ~ (term > Len(bytes)) BY <1>4, <1>5
<1>7. QED BY <1>2, <1>3, <1>6, Zenon DEF NextOnWire

\* The reader of a stream returns what the frame says, and is then at its end.
LEMMA FrameReturns ==
  ASSUME NEW bytes \in Seq(Cell), NEW p \in Nat, NEW f \in FrameData, Readable(bytes, p, f),
         p + LengthOf(f) <= Len(bytes), f.crc = "header",
         NEW id, NEW events, NEW truth, Says(f, id, events, truth)
  PROVE  NextOnWire(bytes, p) = Outcome("frame", WireFrame(id, events, truth), p + LengthOf(f))
<1>1. PICK h \in Nat, a \in Nat, t \in Nat, len \in Nat :
        h = FrameHeaderLen /\ a = TerminatorOf(f) /\ t = TerminatorLen /\ len = Len(bytes)
  BY Lengths, FrameTypes, LenProperties
<1>2. LengthOf(f) = a + t BY <1>1, Zenon DEF LengthOf
<1>5. PICK term : term = TerminatorFound(bytes, p, MetaFound(bytes, p).at) OBVIOUS
<1>6. term = p + TerminatorOf(f) /\ Parsed(bytes, p, MetaFound(bytes, p).meta) = WireFrame(id, events, truth)
  BY <1>5, PartsReturn
<1>7. ValueAt(bytes, p) = f.hdr /\ Holds(bytes, p, "header", FrameHeaderLen) BY Zenon DEF Readable
<1>8. /\ Holds(bytes, term, "terminator", TerminatorLen)
      /\ ValueAt(bytes, term) = [of |-> "header", hdr |-> f.hdr] BY <1>6 DEF Readable
<1>9. term + TerminatorLen = p + LengthOf(f) BY <1>1, <1>2, <1>6
<1>10. NextOnWire(bytes, p) =
         IF /\ Holds(bytes, term, "terminator", TerminatorLen)
            /\ ValueAt(bytes, term) = [of |-> "header", hdr |-> ValueAt(bytes, p)]
         THEN Outcome("frame", Parsed(bytes, p, MetaFound(bytes, p).meta), term + TerminatorLen)
         ELSE Outcome("error", NoFrame, p)
  <2>1. Asked(bytes, p) BY <1>7, PartsReturn, Zenon DEF Asked, Readable
  <2>2. term \in Nat /\ ~ (term > Len(bytes)) /\ ~ (term + TerminatorLen > Len(bytes))
    BY <1>1, <1>2, <1>6, <1>9
  <2>3. QED BY <1>1, <1>5, <2>1, <2>2, WireIs
<1>11. QED BY <1>6, <1>7, <1>8, <1>9, <1>10, Zenon

-----------------------------------------------------------------------------
(* What is written is read back *)

\* A frame at the start of the bytes that are cut out for it says the same.
LEMMA RawReturns ==
  ASSUME NEW f \in FrameData, NEW id, NEW events, NEW truth, Says(f, id, events, truth)
  PROVE  ParseRawFrame(BytesOf(f)) = WireFrame(id, events, truth)
<1>1. PICK raw : raw = BytesOf(f) OBVIOUS
<1>2. raw \in Seq(Cell) /\ Len(raw) = LengthOf(f) /\ LengthOf(f) \in Nat
  BY <1>1, FrameIsLaidOut, FrameTypes DEF LaidOut
<1>3. PICK p \in Nat, l \in Nat : p = 0 /\ l = LengthOf(f) BY <1>2
<1>4. FrameAt(raw, p, f) /\ p + LengthOf(f) <= Len(raw) BY <1>3, <1>1, <1>2 DEF FrameAt
<1>5. Readable(raw, p, f) BY <1>2, <1>4, FrameIsReadable
<1>6. Parsed(raw, p, MetaFound(raw, p).meta) = WireFrame(id, events, truth)
  BY <1>2, <1>4, <1>5, PartsReturn
<1>7. ParseRawFrame(raw) = Parsed(raw, p, MetaFound(raw, p).meta)
  BY <1>3 DEF ParseRawFrame, MetaFound
<1>8. QED BY <1>1, <1>6, <1>7, Zenon

\* So does the reader that goes by the length in the header, if it is right.
LEMMA LengthReturns ==
  ASSUME NEW bytes \in Seq(Cell), NEW p \in Nat, NEW f \in FrameData, FrameAt(bytes, p, f), Exactly(f),
         NEW id, NEW events, NEW truth, Says(f, id, events, truth)
  PROVE  NextByLength(bytes, p) = Outcome("frame", WireFrame(id, events, truth), p + LengthOf(f))
<1>1. PICK h \in Nat, t \in Nat, a \in Nat, len \in Nat :
        h = FrameHeaderLen /\ t = TerminatorLen /\ a = TerminatorOf(f) /\ len = Len(bytes)
  BY Lengths, FrameTypes, LenProperties
<1>2. PICK l \in Nat, pay \in Nat : l = LengthOf(f) /\ pay = f.hdr.payload_len
  BY FrameTypes DEF Header
<1>3. l = a + t /\ h + pay + t = l BY <1>1, <1>2, Zenon DEF LengthOf, Exactly
<1>4. Readable(bytes, p, f) BY <1>1, FrameIsReadable
<1>5. /\ Holds(bytes, p, "header", h) /\ ValueAt(bytes, p).payload_len = pay
      /\ Holds(bytes, p + a, "terminator", t) BY <1>1, <1>2, <1>4, Zenon DEF Readable
<1>6. PICK past \in Nat : past = p + l OBVIOUS
<1>7. past <= len /\ \A i \in 1..l : bytes[p + i] = BytesOf(f)[i]
  BY <1>1, <1>2, <1>6, Zenon DEF FrameAt
<1>8. p + h + pay + t = past /\ p + h <= len /\ past - t = p + a /\ ~ (p + h > len)
  BY <1>3, <1>6, <1>7
<1>9. SubSeq(bytes, p + 1, past) = BytesOf(f)
  <2>1. PICK raw : raw = BytesOf(f) /\ raw \in Seq(Cell) /\ Len(raw) = l
    BY <1>2, FrameIsLaidOut, Zenon DEF LaidOut
  <2>2. PICK part : part = SubSeq(bytes, p + 1, past) OBVIOUS
  <2>3. part \in Seq(Cell) /\ Len(part) = l /\ \A i \in 1..l : part[i] = bytes[p + i]
    BY <1>1, <1>6, <1>7, <2>2, SubSeqProperties
  <2>4. \A i \in 1..l : part[i] = raw[i] BY <1>7, <2>1, <2>3
  <2>5. part = raw BY <2>1, <2>3, <2>4, SeqEqual
  <2>6. QED BY <2>1, <2>2, <2>5
<1>10. ReadNextFrame(bytes, p) = Outcome("frame", BytesOf(f), past)
  <2>1. Holds(bytes, p, "header", FrameHeaderLen) /\ Holds(bytes, past - TerminatorLen, "terminator", TerminatorLen)
    BY <1>1, <1>5, <1>8, Zenon
  <2>2. p + FrameHeaderLen + ValueAt(bytes, p).payload_len + TerminatorLen = past
    BY <1>1, <1>5, <1>8, Zenon
  <2>3. ~ (p + FrameHeaderLen > Len(bytes)) /\ past <= Len(bytes) BY <1>1, <1>7, <1>8, Zenon
  <2>4. ReadNextFrame(bytes, p) = Outcome("frame", SubSeq(bytes, p + 1, past), past)
    BY <1>1, <2>1, <2>2, <2>3 DEF ReadNextFrame
  <2>5. QED BY <1>9, <2>4, Zenon
<1>11. ParseRawFrame(BytesOf(f)) = WireFrame(id, events, truth) BY RawReturns
<1>12. QED BY <1>2, <1>6, <1>10, <1>11 DEF NextByLength, Outcome

\* A frame between other bytes stands there.
LEMMA StandsBetween ==
  ASSUME NEW before \in Seq(Cell), NEW f \in FrameData, NEW after \in Seq(Cell),
         NEW bytes, bytes = before \o BytesOf(f) \o after
  PROVE  bytes \in Seq(Cell) /\ FrameAt(bytes, Len(before), f) /\ Len(BytesOf(f)) = LengthOf(f)
<1>1. PICK raw \in Seq(Cell) : raw = BytesOf(f) /\ Len(raw) = LengthOf(f)
  BY FrameIsLaidOut DEF LaidOut
<1>2. PICK p \in Nat, l \in Nat, r \in Nat : p = Len(before) /\ l = Len(raw) /\ r = Len(after)
  BY LenProperties
<1>3. PICK one \in Seq(Cell) : one = before \o raw /\ Follows(one, before, raw) BY Joined
<1>4. bytes \in Seq(Cell) /\ Follows(bytes, one, after) BY <1>1, <1>3, Joined
<1>5. Len(one) = p + l /\ \A i \in 1..l : one[p + i] = raw[i] BY <1>2, <1>3, Zenon DEF Follows
<1>6. Len(bytes) = p + l + r /\ \A i \in 1..p + l : bytes[i] = one[i]
  BY <1>2, <1>4, <1>5, Zenon DEF Follows
<1>7. ASSUME NEW i \in 1..l PROVE bytes[p + i] = raw[i]
  <2>1. p + i \in 1..p + l BY <1>2
  <2>2. QED BY <1>5, <1>6, <2>1, Zenon
<1>8. p + l <= Len(bytes) BY <1>6
<1>9. QED BY <1>1, <1>2, <1>4, <1>7, <1>8, Zenon DEF FrameAt

\* The reader of a stream and the one that goes by length both get the frame.
BothReturn(bytes, p, frame, next) ==
  NextOnWire(bytes, p) = Outcome("frame", frame, next) /\ NextByLength(bytes, p) = Outcome("frame", frame, next)

\* They do where there is one whose checksum is that of the header.
LEMMA BothReadersReturn ==
  ASSUME NEW before \in Seq(Cell), NEW f \in FrameData, NEW after \in Seq(Cell), Exactly(f), f.crc = "header",
         NEW id, NEW events, NEW truth, Says(f, id, events, truth)
  PROVE  BothReturn(before \o BytesOf(f) \o after, Len(before), WireFrame(id, events, truth),
                    Len(before) + Len(BytesOf(f)))
<1>1. PICK bytes : bytes = before \o BytesOf(f) \o after OBVIOUS
<1>2. PICK p \in Nat, l \in Nat : p = Len(before) /\ l = Len(BytesOf(f))
  BY LenProperties, StandsBetween, FrameTypes
<1>3. bytes \in Seq(Cell) /\ FrameAt(bytes, p, f) /\ l = LengthOf(f)
  BY <1>1, <1>2, StandsBetween, Zenon
<1>4. Len(bytes) \in Nat BY <1>3, LenProperties
<1>5. Readable(bytes, p, f) /\ p + LengthOf(f) <= Len(bytes)
  BY <1>3, <1>4, FrameIsReadable, Zenon DEF FrameAt
<1>6. NextOnWire(bytes, p) = Outcome("frame", WireFrame(id, events, truth), p + LengthOf(f))
  BY <1>3, <1>5, FrameReturns
<1>7. NextByLength(bytes, p) = Outcome("frame", WireFrame(id, events, truth), p + LengthOf(f))
  BY <1>3, LengthReturns
<1>8. QED BY <1>1, <1>2, <1>3, <1>6, <1>7, Zenon DEF BothReturn

\* A frame of an exporter says the round it was written from.
LEMMA ExportSays ==
  ASSUME NEW shot \in Shots, NEW meta \in Metadata, NEW annotated \in Seq(Nat), NEW id,
         NEW crc, NEW f, f = ExportData(shot, meta, annotated, id, Len(shot.events), crc),
         Len(shot.events) < CountModulus
  PROVE  Says(f, id, shot.events, TruthOf(meta)) /\ f.crc = crc
<1>1. shot.events \in Seq(BOOLEAN) BY DEF Shots
<1>2. /\ f.hdr.frame_id = id /\ f.hdr.ancilla_count = Len(shot.events)
      /\ f.de = EncodeDetectorEvents(shot.events) /\ f.meas = shot.events /\ f.crc = crc
  BY DEF ExportData
<1>3. Annotated(f, shot.events, TruthOf(meta)) BY ExportAnnotated
<1>4. QED BY <1>1, <1>2, <1>3, Zenon DEF Says

\* So does one of an encoder, which says nothing of the observables.
LEMMA EncodeSays ==
  ASSUME NEW events \in Seq(BOOLEAN), NEW id, NEW f, f = EncodeData(events, id, Len(events)),
         Len(events) < CountModulus
  PROVE  Says(f, id, events, << >>) /\ f.crc = "header"
<1>1. /\ f.hdr.frame_id = id /\ f.hdr.ancilla_count = Len(events)
      /\ f.de = EncodeDetectorEvents(events) /\ f.meas = events /\ f.crc = "header"
  BY DEF EncodeData
<1>2. Annotated(f, events, << >>) BY EncodeAnnotated
<1>3. QED BY <1>1, <1>2, Zenon DEF Says

\* decode_detector_events gives back what encode_detector_events was given, and
\* popcount counts what fires in it without decoding.
THEOREM EventsReturn ==
  ASSUME NEW events \in Seq(BOOLEAN)
  PROVE  /\ DecodeDetectorEvents(EncodeDetectorEvents(events)) = events
         /\ Len(EncodeDetectorEvents(events)) \in 0..Len(events)
         /\ Popcount(EncodeDetectorEvents(events)) = Cardinality(Fired(events))
BY RunsReturn, CountIs

\* A frame of QssfExporter, of whatever optional blocks and wherever it stands,
\* is read back by QssfStream and by the offline readers, field for field, and
\* both are at its end then.
THEOREM ExportedFramesReturn ==
  ASSUME NEW shot \in Shots, NEW meta \in Metadata, NEW annotated \in Seq(Nat), NEW id \in Nat,
         Len(shot.events) < CountModulus, NEW before \in Seq(Cell), NEW after \in Seq(Cell),
         NEW raw, raw = ExportFrame(shot, meta, annotated, id, Len(shot.events))
  PROVE  BothReturn(before \o raw \o after, Len(before), WireFrame(id, shot.events, TruthOf(meta)),
                    Len(before) + Len(raw))
<1>1. PICK width \in Nat : width = Len(shot.events) BY LenProperties DEF Shots
<1>2. PICK f : f = ExportData(shot, meta, annotated, id, width, "header") OBVIOUS
<1>3. f \in FrameData /\ Exactly(f) BY <1>1, <1>2, ExportedData
<1>4. Says(f, id, shot.events, TruthOf(meta)) /\ f.crc = "header"
  <2>1. f = ExportData(shot, meta, annotated, id, Len(shot.events), "header") BY <1>1, <1>2, Zenon
  <2>2. QED BY <2>1, ExportSays
<1>5. raw = BytesOf(f) BY <1>1, <1>2, ExportedBytes
<1>6. QED BY <1>3, <1>4, <1>5, BothReadersReturn, Zenon

\* The same for a frame of the sampler, the server and the Python simulator.
THEOREM EncodedFramesReturn ==
  ASSUME NEW events \in Seq(BOOLEAN), NEW id \in Nat, Len(events) < CountModulus,
         NEW before \in Seq(Cell), NEW after \in Seq(Cell),
         NEW raw, raw = EncodeShotFrame(events, id, Len(events))
  PROVE  BothReturn(before \o raw \o after, Len(before), WireFrame(id, events, << >>), Len(before) + Len(raw))
<1>1. PICK width \in Nat : width = Len(events) BY LenProperties
<1>2. PICK f : f = EncodeData(events, id, width) OBVIOUS
<1>3. f \in FrameData /\ Exactly(f) BY <1>1, <1>2, EncodedData
<1>4. Says(f, id, events, << >>) /\ f.crc = "header" BY <1>1, <1>2, EncodeSays
<1>5. raw = BytesOf(f) BY <1>1, <1>2, EncodedBytes
<1>6. QED BY <1>3, <1>4, <1>5, BothReadersReturn, Zenon

\* A frame of StreamRecorder is read back by the offline readers, and no stream
\* parser takes it: its checksum is that of the whole frame.
THEOREM RecordedFramesReturn ==
  ASSUME NEW shot \in Shots, NEW id \in Nat, Len(shot.events) < CountModulus,
         NEW before \in Seq(Cell), NEW after \in Seq(Cell), NEW raw, raw = RecordFrame(shot, id)
  PROVE  /\ NextByLength(before \o raw \o after, Len(before))
            = Outcome("frame", WireFrame(id, shot.events, << >>), Len(before) + Len(raw))
         /\ NextOnWire(before \o raw \o after, Len(before)) = Outcome("error", NoFrame, Len(before))
<1>1. PICK width \in Nat : width = Len(shot.events) BY LenProperties DEF Shots
<1>2. PICK none \in Seq(Nat) : none = << >>
  <2>1. << >> \in Seq(Nat) OBVIOUS
  <2>2. QED BY <2>1
<1>3. NoMetadata \in Metadata /\ TruthOf(NoMetadata) = << >> BY DEF NoMetadata, Metadata, TruthOf
<1>4. PICK f : f = ExportData(shot, NoMetadata, none, id, width, "whole") OBVIOUS
<1>5. f \in FrameData /\ Exactly(f) BY <1>1, <1>3, <1>4, ExportedData
<1>6. Says(f, id, shot.events, << >>) /\ f.crc = "whole" BY <1>1, <1>4, <1>3, ExportSays
<1>7. raw = BytesOf(f) BY <1>1, <1>2, <1>4, RecordedBytes
<1>8. PICK bytes : bytes = before \o raw \o after OBVIOUS
<1>9. PICK p \in Nat : p = Len(before) BY LenProperties
<1>10. bytes \in Seq(Cell) /\ FrameAt(bytes, p, f) /\ Len(raw) = LengthOf(f)
  BY <1>5, <1>7, <1>8, <1>9, StandsBetween, Zenon
<1>11. PICK len \in Nat : len = Len(bytes) BY <1>10, LenProperties
<1>12. Readable(bytes, p, f) /\ p + LengthOf(f) <= Len(bytes)
  BY <1>5, <1>10, <1>11, FrameIsReadable, Zenon DEF FrameAt
<1>13. NextByLength(bytes, p) = Outcome("frame", WireFrame(id, shot.events, << >>), p + LengthOf(f))
  BY <1>5, <1>6, <1>10, LengthReturns
<1>14. PICK term : term = TerminatorFound(bytes, p, MetaFound(bytes, p).at) OBVIOUS
<1>15. term = p + TerminatorOf(f) BY <1>5, <1>6, <1>10, <1>12, <1>14, PartsReturn
<1>16. /\ Holds(bytes, p, "header", FrameHeaderLen)
       /\ ValueAt(bytes, term) = [of |-> "whole", hdr |-> f.hdr] BY <1>6, <1>12, <1>15 DEF Readable
<1>17. PICK a \in Nat, t \in Nat : a = TerminatorOf(f) /\ t = TerminatorLen /\ p + (a + t) <= len
  BY <1>5, <1>11, <1>12, FrameTypes, Lengths, Zenon DEF LengthOf
<1>18. NextOnWire(bytes, p) =
         IF /\ Holds(bytes, term, "terminator", TerminatorLen)
            /\ ValueAt(bytes, term) = [of |-> "header", hdr |-> ValueAt(bytes, p)]
         THEN Outcome("frame", Parsed(bytes, p, MetaFound(bytes, p).meta), term + TerminatorLen)
         ELSE Outcome("error", NoFrame, p)
  <2>1. Asked(bytes, p) BY <1>5, <1>6, <1>10, <1>12, PartsReturn, Zenon DEF Asked, Readable
  <2>2. term \in Nat /\ ~ (term > len) /\ ~ (term + TerminatorLen > len) BY <1>15, <1>17
  <2>3. QED BY <1>11, <1>14, <2>1, <2>2, WireIs
<1>19. [of |-> "whole", hdr |-> f.hdr] # [of |-> "header", hdr |-> ValueAt(bytes, p)] OBVIOUS
<1>20. NextOnWire(bytes, p) = Outcome("error", NoFrame, p) BY <1>16, <1>18, <1>19, Zenon
<1>21. QED BY <1>8, <1>9, <1>10, <1>13, <1>20, Zenon
-----------------------------------------------------------------------------
(* The lines that are kept *)

\* What is kept up to each line.
KeptOf(lines, texts) == CHOOSE g : KeptUpTo(lines, texts, g, Len(lines))

\* One line is kept, or left.
KeepsOne(lines, texts, g, i) ==
  g[i] = IF texts[i] # << >> THEN Append(g[i - 1], lines[i]) ELSE g[i - 1]

\* What is kept up to a line is what was kept before it, and the line unless it is empty.
LEMMA KeptIs ==
  ASSUME NEW S, NEW lines \in Seq(S), NEW texts
  PROVE  /\ NotBlank(lines, texts) = KeptOf(lines, texts)[Len(lines)]
         /\ KeptOf(lines, texts)[0] = << >>
         /\ \A i \in 1..Len(lines) : KeepsOne(lines, texts, KeptOf(lines, texts), i)
         /\ \A i \in 0..Len(lines) : KeptOf(lines, texts)[i] \in Seq(S)
<1>1. PICK n \in Nat : n = Len(lines) BY LenProperties
<1>2. PICK g : g = KeptOf(lines, texts) OBVIOUS
<1>3. KeptUpTo(lines, texts, g, n) BY <1>1, <1>2, KeptExist DEF KeptOf
<1>4. NotBlank(lines, texts) = g[Len(lines)] BY <1>2 DEF NotBlank, KeptOf, KeptUpTo
<1>5. \A i \in 0..n : g[i] = IF i = 0 THEN << >>
                            ELSE IF texts[i] # << >> THEN Append(g[i - 1], lines[i]) ELSE g[i - 1]
  BY <1>3, Zenon DEF KeptUpTo
<1>6. g[0] = << >> BY <1>5
<1>7. ASSUME NEW i \in 1..n PROVE KeepsOne(lines, texts, g, i) BY <1>5 DEF KeepsOne
<1>8. PICK Q : Q = Seq(S) OBVIOUS
<1>9. PICK P : P = {i \in 0..n : g[i] \in Q} OBVIOUS
<1>10. 0 \in P
  <2>1. << >> \in Q BY <1>8
  <2>2. 0 \in 0..n BY <1>1
  <2>3. QED BY <1>6, <1>9, <2>1, <2>2
<1>11. ASSUME NEW i \in 1..n, i - 1 \in P PROVE i \in P
  <2>1. g[i - 1] \in Q /\ lines[i] \in S BY <1>1, <1>9, <1>11, ElementOfSeq
  <2>2. Append(g[i - 1], lines[i]) \in Q BY <1>8, <2>1, AppendProperties
  <2>3. g[i] \in Q BY <1>7, <2>1, <2>2, Zenon DEF KeepsOne
  <2>4. QED BY <1>9, <2>3
<1>12. 0..n \subseteq P BY <1>10, <1>11, UpTo
<1>13. QED BY <1>1, <1>2, <1>4, <1>6, <1>7, <1>8, <1>9, <1>12

\* What was kept stays where it is.
LEMMA KeptStays ==
  ASSUME NEW S, NEW lines \in Seq(S), NEW texts, NEW i \in 0..Len(lines), NEW j \in i..Len(lines),
         NEW few, few = KeptOf(lines, texts)[i], NEW many, many = KeptOf(lines, texts)[j]
  PROVE  /\ few \in Seq(S) /\ many \in Seq(S) /\ Len(few) \in Nat /\ Len(many) \in Nat
         /\ Len(few) <= Len(many) /\ Begins(many, few, Len(few))
<1>1. PICK n \in Nat : n = Len(lines) BY LenProperties
<1>2. PICK g : g = KeptOf(lines, texts) OBVIOUS
<1>3. (\A l \in 1..n : KeepsOne(lines, texts, g, l)) /\ \A l \in 0..n : g[l] \in Seq(S)
  BY <1>1, <1>2, KeptIs
<1>4. few \in Seq(S) /\ many \in Seq(S) /\ few = g[i] /\ many = g[j] /\ i \in 0..n /\ j \in i..n /\ j \in 0..n
  BY <1>1, <1>2, <1>3
<1>5. PICK m \in Nat : m = Len(few) BY <1>4, LenProperties
<1>6. PICK P : P = {l \in 0..n : l >= i => m <= Len(g[l]) /\ \A k \in 1..m : g[l][k] = few[k]}
  OBVIOUS
<1>7. \A l \in 0..n : l <= i => l \in P
  <2>1. ASSUME NEW l \in 0..n, l <= i PROVE l \in P BY <1>4, <2>1, <1>5, <1>6
  <2>2. QED BY <2>1
<1>8. 0 \in P BY <1>4, <1>7
<1>9. ASSUME NEW l \in 1..n, l - 1 \in P PROVE l \in P
  <2>1. CASE l <= i BY <1>7, <2>1
  <2>2. CASE ~ (l <= i)
    <3>1. l - 1 >= i /\ l \in 0..n /\ l - 1 \in 0..n BY <1>4, <2>2
    <3>2. m <= Len(g[l - 1]) /\ \A k \in 1..m : g[l - 1][k] = few[k] BY <1>6, <1>9, <3>1
    <3>3. PICK before \in Seq(S) : before = g[l - 1] BY <1>3, <3>1
    <3>4. PICK b \in Nat : b = Len(before) BY LenProperties
    <3>5. m <= b BY <3>2, <3>3, <3>4
    <3>6. KeepsOne(lines, texts, g, l) /\ lines[l] \in S BY <1>1, <1>3, ElementOfSeq
    <3>7. CASE g[l] = before BY <1>6, <3>1, <3>2, <3>3, <3>7
    <3>8. CASE g[l] = Append(before, lines[l])
      <4>1. Len(g[l]) = b + 1 /\ \A k \in 1..b : g[l][k] = before[k]
        BY <3>4, <3>6, <3>8, AppendProperties
      <4>2. m <= b + 1 /\ \A k \in 1..m : k \in 1..b BY <3>5
      <4>3. \A k \in 1..m : g[l][k] = few[k] BY <3>2, <3>3, <4>1, <4>2
      <4>4. QED BY <1>6, <3>1, <4>1, <4>2, <4>3
    <3>9. QED BY <3>3, <3>6, <3>7, <3>8 DEF KeepsOne
  <2>3. QED BY <2>1, <2>2
<1>10. 0..n \subseteq P BY <1>8, <1>9, UpTo
<1>11. j \in P /\ j >= i BY <1>4, <1>10
<1>12. m <= Len(many) /\ \A k \in 1..m : many[k] = few[k] BY <1>4, <1>6, <1>11
<1>13. Len(many) \in Nat BY <1>4, LenProperties
<1>14. QED BY <1>4, <1>5, <1>12, <1>13 DEF Begins

\* Where a line is found that is not empty.
LEMMA KeptPlace ==
  ASSUME NEW S, NEW lines \in Seq(S), NEW texts, NEW j \in 1..Len(lines),
         NEW before, before = KeptOf(lines, texts)[j - 1], NEW now, now = KeptOf(lines, texts)[j]
  PROVE  /\ Len(before) \in Nat /\ Len(now) \in Nat
         /\ texts[j] = << >> => Len(now) = Len(before)
         /\ texts[j] # << >> =>
              /\ Len(now) = Len(before) + 1
              /\ Len(now) \in 1..Len(NotBlank(lines, texts)) /\ NotBlank(lines, texts)[Len(now)] = lines[j]
<1>1. PICK n \in Nat : n = Len(lines) BY LenProperties
<1>2. PICK g : g = KeptOf(lines, texts) OBVIOUS
<1>3. /\ NotBlank(lines, texts) = g[n] /\ KeepsOne(lines, texts, g, j)
      /\ \A l \in 0..n : g[l] \in Seq(S) BY <1>1, <1>2, KeptIs
<1>4. j \in 1..n /\ j - 1 \in 0..n /\ j \in 0..n /\ n \in j..n BY <1>1
<1>5. before \in Seq(S) /\ now \in Seq(S) /\ before = g[j - 1] /\ now = g[j] BY <1>2, <1>3, <1>4
<1>6. PICK b \in Nat, m \in Nat : b = Len(before) /\ m = Len(now) BY <1>5, LenProperties
<1>7. now = IF texts[j] # << >> THEN Append(before, lines[j]) ELSE before BY <1>3, <1>5 DEF KeepsOne
<1>8. ASSUME texts[j] # << >>
      PROVE  m = b + 1 /\ m \in 1..Len(NotBlank(lines, texts)) /\ NotBlank(lines, texts)[m] = lines[j]
  <2>1. lines[j] \in S /\ now = Append(before, lines[j]) BY <1>7, <1>8, ElementOfSeq
  <2>2. m = b + 1 /\ now[b + 1] = lines[j] BY <1>5, <1>6, <2>1, AppendProperties
  <2>3. PICK all : all = g[n] OBVIOUS
  <2>4. Len(all) \in Nat /\ Len(now) <= Len(all) /\ Begins(all, now, Len(now))
    BY <1>1, <1>2, <1>4, <1>5, <2>3, KeptStays
  <2>5. m \in 1..m /\ m \in 1..Len(all) BY <1>6, <2>2, <2>4
  <2>6. all[m] = lines[j] BY <1>6, <2>2, <2>4, <2>5 DEF Begins
  <2>7. QED BY <1>3, <2>2, <2>3, <2>5, <2>6
<1>9. QED BY <1>6, <1>7, <1>8

\* What is kept of the first lines does not depend on those behind them.
LEMMA KeptPrefix ==
  ASSUME NEW S, NEW lines \in Seq(S), NEW texts, NEW q \in 0..Len(lines),
         NEW part \in Seq(S), NEW part_texts, Len(part) = q,
         Begins(lines, part, q), Begins(texts, part_texts, q)
  PROVE  NotBlank(part, part_texts) = KeptOf(lines, texts)[q]
<1>1. PICK n \in Nat : n = Len(lines) BY LenProperties
<1>2. PICK g, h : g = KeptOf(lines, texts) /\ h = KeptOf(part, part_texts) OBVIOUS
<1>3. g[0] = << >> /\ \A i \in 1..n : KeepsOne(lines, texts, g, i) BY <1>1, <1>2, KeptIs
<1>4. h[0] = << >> /\ (\A i \in 1..q : KeepsOne(part, part_texts, h, i)) /\ NotBlank(part, part_texts) = h[q]
  BY <1>2, KeptIs
<1>5. q \in Nat /\ q \in 0..n BY <1>1
<1>6. PICK P : P = {i \in 0..q : h[i] = g[i]} OBVIOUS
<1>7. 0 \in P BY <1>3, <1>4, <1>5, <1>6
<1>8. ASSUME NEW i \in 1..q, i - 1 \in P PROVE i \in P
  <2>1. i \in 1..n /\ i \in 0..q BY <1>5
  <2>2. h[i - 1] = g[i - 1] BY <1>6, <1>8
  <2>3. lines[i] = part[i] /\ texts[i] = part_texts[i] BY DEF Begins
  <2>4. h[i] = g[i] BY <1>3, <1>4, <2>1, <2>2, <2>3, Zenon DEF KeepsOne
  <2>5. QED BY <1>6, <2>1, <2>4
<1>9. 0..q \subseteq P BY <1>5, <1>7, <1>8, UpTo
<1>10. QED BY <1>2, <1>4, <1>5, <1>6, <1>9


-----------------------------------------------------------------------------
(* What a job describes, shot by shot *)

Texts == [k \in DOMAIN job.shots |-> job.shots[k].events]

\* How many of the first j shots are described, and whether shot j is.
Nth(j) == IF job.program \in LineByLine THEN Len(KeptOf(job.shots, Texts)[j]) ELSE j

Counts(j) == job.program \notin LineByLine \/ job.shots[j].events # << >>

\* One more shot is one more that is described, or none.
NthStep(j) ==
  /\ Counts(j) => /\ Nth(j) = Nth(j - 1) + 1 /\ Nth(j) \in 1..Len(DescribedShots)
                  /\ DescribedShots[Nth(j)] = job.shots[j]
  /\ ~ Counts(j) => Nth(j) = Nth(j - 1)

\* It is, from none on.
LEMMA NthIs ==
  ASSUME job \in Jobs
  PROVE  /\ job.shots \in Seq(Shots) /\ Len(job.shots) \in Nat /\ Nth(0) = 0
         /\ \A j \in 0..Len(job.shots) : Nth(j) \in Nat
         /\ \A j \in 1..Len(job.shots) : NthStep(j)
<1>1. job.shots \in Seq(Shots) BY WritersAssumption
<1>2. PICK n \in Nat : n = Len(job.shots) /\ DOMAIN job.shots = 1..n BY <1>1, LenProperties
<1>3. CASE job.program \in LineByLine
  <2>1. PICK texts, g : texts = Texts /\ g = KeptOf(job.shots, texts) OBVIOUS
  <2>2. \A j \in 1..n : texts[j] = job.shots[j].events BY <1>2, <2>1 DEF Texts
  <2>3. DescribedShots = NotBlank(job.shots, texts) BY <1>3, <2>1, Zenon DEF DescribedShots, Texts
  <2>4. \A j : Nth(j) = Len(g[j]) BY <1>3, <2>1, Zenon DEF Nth
  <2>5. g[0] = << >> /\ \A j \in 0..n : g[j] \in Seq(Shots) BY <1>1, <1>2, <2>1, KeptIs
  <2>6. ASSUME NEW j \in 1..n PROVE NthStep(j)
    <3>1. PICK before, now : before = g[j - 1] /\ now = g[j] OBVIOUS
    <3>2. j \in 1..Len(job.shots) BY <1>2
    <3>3. /\ texts[j] = << >> => Len(now) = Len(before)
          /\ texts[j] # << >> =>
               /\ Len(now) = Len(before) + 1
               /\ Len(now) \in 1..Len(NotBlank(job.shots, texts)) /\ NotBlank(job.shots, texts)[Len(now)] = job.shots[j]
      <4>1. PICK lines, S : lines = job.shots /\ S = Shots OBVIOUS
      <4>2. before = KeptOf(lines, texts)[j - 1] /\ now = KeptOf(lines, texts)[j]
        BY <2>1, <3>1, <4>1
      <4>3. lines \in Seq(S) /\ j \in 1..Len(lines) BY <1>1, <3>2, <4>1
      <4>4. /\ texts[j] = << >> => Len(now) = Len(before)
            /\ texts[j] # << >> =>
                 /\ Len(now) = Len(before) + 1
                 /\ Len(now) \in 1..Len(NotBlank(lines, texts)) /\ NotBlank(lines, texts)[Len(now)] = lines[j]
        BY <4>2, <4>3, KeptPlace
      <4>5. QED BY <4>1, <4>4
    <3>4. Counts(j) <=> texts[j] # << >> BY <1>3, <2>2, Zenon DEF Counts
    <3>5. Nth(j) = Len(now) /\ Nth(j - 1) = Len(before) BY <2>4, <3>1
    <3>6. QED BY <2>3, <3>3, <3>4, <3>5, Zenon DEF NthStep
  <2>7. \A j \in 0..n : Nth(j) \in Nat BY <2>4, <2>5, LenProperties
  <2>8. Nth(0) = 0 BY <2>4, <2>5
  <2>9. QED BY <1>1, <1>2, <2>6, <2>7, <2>8
<1>4. CASE job.program \notin LineByLine
  BY <1>4, <1>2, <1>1 DEF DescribedShots, Counts, Nth, NthStep
<1>5. QED BY <1>3, <1>4

\* Shots that are not described are passed over.
LEMMA NthSkips ==
  ASSUME job \in Jobs, NEW j \in 0..Len(job.shots), NEW k \in 1..Len(job.shots) - j,
         \A i \in 1..k - 1 : ~ Counts(j + i)
  PROVE  Nth(j + k - 1) = Nth(j)
<1>1. PICK n \in Nat : n = Len(job.shots) BY NthIs
<1>2. \A i \in 1..n : NthStep(i) BY <1>1, NthIs
<1>3. PICK m \in Nat : m = k - 1 /\ j \in 0..n /\ k \in 1..n - j BY <1>1
<1>4. PICK P : P = {i \in 0..m : Nth(j + i) = Nth(j)} OBVIOUS
<1>5. 0 \in P BY <1>3, <1>4
<1>6. ASSUME NEW i \in 1..m, i - 1 \in P PROVE i \in P
  <2>1. j + i \in 1..n /\ (j + i) - 1 = j + (i - 1) /\ i \in 1..k - 1 /\ i \in 0..m BY <1>3
  <2>2. Nth(j + i) = Nth((j + i) - 1) BY <1>2, <2>1 DEF NthStep
  <2>3. Nth(j + (i - 1)) = Nth(j) BY <1>4, <1>6
  <2>4. QED BY <1>4, <2>1, <2>2, <2>3
<1>7. 0..m \subseteq P BY <1>5, <1>6, UpTo
<1>8. m \in 0..m /\ j + k - 1 = j + m BY <1>3
<1>9. QED BY <1>4, <1>7, <1>8

\* The truths of the lines that are not empty, and that of a round.
Truths == NotBlank(job.truth, job.truth)

TruthAt(k) ==
  CASE job.program = "stim_obs" -> IF k \in 1..Len(Truths) THEN Truths[k] ELSE << >>
    [] job.program \in {"export", "write_qssf"} -> DescribedShots[k].flips
    [] OTHER -> << >>

Rounds == [frame_id : Nat, ancilla_count : Nat, events : Seq(BOOLEAN), observable_flips : Optional(SUBSET Nat)]

Round(k) ==
  [frame_id |-> k - 1, ancilla_count |-> Len(DescribedShots[k].events), events |-> DescribedShots[k].events,
   observable_flips |-> TruthAt(k)]

\* What is described is one round for each of the shots.
LEMMA DescribedIs ==
  ASSUME job \in Jobs
  PROVE  /\ Described \in Seq(Rounds) /\ Len(Described) = Len(DescribedShots) /\ Len(Described) \in Nat
         /\ \A k \in 1..Len(Described) : Described[k] = Round(k) /\ Described[k] \in Rounds
<1>1. PICK shots \in Seq(Shots) : shots = DescribedShots BY DescribedType
<1>2. PICK n \in Nat : n = Len(shots) /\ DOMAIN shots = 1..n BY LenProperties
<1>3. PICK Truth : Truth = Optional(SUBSET Nat) OBVIOUS
<1>4. << >> \in Truth
  <2>1. PICK T : T = SUBSET Nat OBVIOUS
  <2>2. << >> \in Optional(T) BY NoneIsOptional
  <2>3. QED BY <1>3, <2>1, <2>2
<1>5. PICK lines \in Seq(Truth) : lines = Truths /\ DOMAIN lines = 1..Len(lines)
  <2>1. job.truth \in Seq(Truth) BY <1>3, WritersAssumption
  <2>2. NotBlank(job.truth, job.truth) \in Seq(Truth) BY <2>1, NotBlankHas
  <2>3. Truths \in Seq(Truth) BY <2>2, Zenon DEF Truths
  <2>4. QED BY <2>3, LenProperties
<1>6. Described = [k \in 1..n |-> Round(k)]
  <2>1. Described = [k \in DOMAIN shots |->
                      [frame_id |-> k - 1, ancilla_count |-> Len(shots[k].events), events |-> shots[k].events,
                       observable_flips |->
                         CASE job.program = "stim_obs" -> IF k \in DOMAIN lines THEN lines[k] ELSE << >>
                           [] job.program \in {"export", "write_qssf"} -> shots[k].flips
                           [] OTHER -> << >>]]
    BY <1>1, <1>5, Zenon DEF Described, DescribedShots, Truths
  <2>2. \A k : TruthAt(k) = CASE job.program = "stim_obs" -> IF k \in DOMAIN lines THEN lines[k] ELSE << >>
                              [] job.program \in {"export", "write_qssf"} -> shots[k].flips
                              [] OTHER -> << >> BY <1>1, <1>5, Zenon DEF TruthAt
  <2>3. \A k : Round(k) = [frame_id |-> k - 1, ancilla_count |-> Len(shots[k].events), events |-> shots[k].events,
                           observable_flips |-> TruthAt(k)] BY <1>1, Zenon DEF Round
  <2>4. QED BY <1>2, <2>1, <2>2, <2>3, Zenon
<1>7. ASSUME NEW k \in 1..n PROVE Round(k) \in Rounds
  <2>1. shots[k] \in Shots /\ k - 1 \in Nat BY <1>2, ElementOfSeq
  <2>2. shots[k].events \in Seq(BOOLEAN) /\ shots[k].flips \in Truth BY <1>3, <2>1 DEF Shots
  <2>3. PICK len \in Nat : len = Len(shots[k].events) BY <2>2, LenProperties
  <2>4. TruthAt(k) \in Truth BY <1>1, <1>4, <1>5, <2>2, ElementOfSeq DEF TruthAt
  <2>5. PICK truth \in Truth : truth = TruthAt(k) BY <2>4
  <2>6. Round(k) = [frame_id |-> k - 1, ancilla_count |-> len, events |-> shots[k].events, observable_flips |-> truth]
    BY <1>1, <2>3, <2>5, Zenon DEF Round
  <2>7. Rounds = [frame_id : Nat, ancilla_count : Nat, events : Seq(BOOLEAN), observable_flips : Truth]
    BY <1>3, Zenon DEF Rounds
  <2>8. QED BY <2>1, <2>2, <2>3, <2>5, <2>6, <2>7
<1>8. Described \in Seq(Rounds) /\ Len(Described) = n
  <2>1. Described \in [1..n -> Rounds] BY <1>6, <1>7
  <2>2. Described \in Seq(Rounds) /\ DOMAIN Described = 1..n BY <2>1, SeqDef
  <2>3. DOMAIN Described = 1..Len(Described) /\ Len(Described) \in Nat BY <2>2, LenProperties
  <2>4. \A a \in Nat, b \in Nat : 1..a = 1..b => a = b
    <3>1. ASSUME NEW a \in Nat, NEW b \in Nat, 1..a = 1..b PROVE a = b BY <3>1
    <3>2. QED BY <3>1
  <2>5. QED BY <2>2, <2>3, <2>4
<1>9. QED BY <1>1, <1>2, <1>6, <1>7, <1>8

-----------------------------------------------------------------------------
(* What the frames of a file say *)

\* The shots behind the j-th are still to come; of a stim that died, at most a part of the next.
TodoIs(j) ==
  /\ Nth(j) = Len(ends)
  /\ job.program = "stim_encoder" /\ line_width = -1 => j = 0
  /\ stim = "well" => Len(todo) = Len(job.shots) - j /\ \A i \in 1..Len(todo) : todo[i] = job.shots[j + i]
  /\ stim = "failed" /\ todo # << >> =>
       /\ Len(todo) = 1 /\ j < Len(job.shots)
       /\ Len(todo[1].events) <= Len(job.shots[j + 1].events)
       /\ Begins(job.shots[j + 1].events, todo[1].events, Len(todo[1].events))

\* So are the lines of the observables file behind the i-th: as many of those before it were not
\* empty as frames were written, or it has ended.
TruthIs(i) ==
  /\ Len(obs_lines) = Len(job.truth) - i /\ \A l \in 1..Len(obs_lines) : obs_lines[l] = job.truth[i + l]
  /\ \/ Len(KeptOf(job.truth, job.truth)[i]) = Len(ends)
     \/ i = Len(job.truth) /\ Len(Truths) <= Len(ends)

\* A frame says what is described, or, as the last one of a stim that died, the first events of
\* it, under a header that counts them all.
Right(k, f) ==
  /\ k <= Len(Described) /\ f.crc = "header"
  /\ Says(f, k - 1, Described[k].events, Described[k].observable_flips)

Short(k, f) ==
  /\ f.crc = "header" /\ Plain(f) /\ TooLong(f) /\ Len(f.de) < CountModulus
  /\ k <= Len(Described) /\ f.hdr.frame_id = k - 1 /\ f.hdr.ancilla_count = Len(Described[k].events)
  /\ f.de = EncodeDetectorEvents(f.meas) /\ Len(f.meas) <= Len(Described[k].events)
  /\ Begins(Described[k].events, f.meas, Len(f.meas)) /\ Described[k].observable_flips = << >>
  /\ Annotated(f, f.meas, << >>)

FrameSays(k) ==
  \E f : /\ IsFrame(file, ends, Base, k, f)
         /\ Right(k, f) \/ (stim = "failed" /\ todo = << >> /\ k = Len(ends) /\ Short(k, f))

Writing == phase \in {"start", "write"}

LinesOK ==
  Writing => /\ \E j \in 0..Len(job.shots) : TodoIs(j)
             /\ job.program = "stim_obs" => \E i \in 0..Len(job.truth) : TruthIs(i)

FramesOK == \A k \in 1..Len(ends) : FrameSays(k)

SayInv == Sound /\ job.program # "record" => LinesOK /\ FramesOK

\* A width that is told is kept: what is sound was sound.
LEMMA SoundBefore ==
  ASSUME WriterInv, job' = job, line_width # -1 => line_width' = line_width
  PROVE  Sound' => Sound /\ SoundJob /\ (line_width' # -1 => line_width' \in Widths)
<1>1. Sound' => SoundJob /\ (line_width' # -1 => line_width' \in Widths) BY SoundNext
<1>2. Sound' => (line_width # -1 => line_width \in Widths) BY <1>1
<1>3. QED BY <1>1, <1>2, SoundIs

\* The shot that is written next is described, and the frame as wide as it; of it there are all
\* the events, or some.
NextIsShot(k, l) ==
  /\ l \in 1..Len(job.shots) /\ Counts(l) /\ Nth(l) = Len(ends) + 1
  /\ stim = "well" => todo[k] = job.shots[l]
  /\ stim = "failed" => todo' = << >> /\ job.program \in StreamsStim
  /\ Len(todo[k].events) <= Len(job.shots[l].events)
  /\ Begins(job.shots[l].events, todo[k].events, Len(todo[k].events))
  /\ WidthIn(k) = Len(job.shots[l].events) /\ WidthIn(k) < CountModulus

\* So it is with the k-th of what is still to come.
LEMMA NextShot ==
  ASSUME WriterInv, NEW k, NEW f, Puts(k, f), Sound', job.program # "record",
         NEW j \in 0..Len(job.shots), TodoIs(j)
  PROVE  NextIsShot(k, j + k)
<1>1. /\ phase = "write" /\ k \in 1..Len(todo) /\ todo' = Tail(SubSeq(todo, k, Len(todo)))
      /\ job' = job /\ (line_width # -1 => line_width' = line_width) /\ Tells(k, f)
  BY Zenon DEF Puts
<1>2. /\ Comes(k) /\ (job.program \in LineByLine => line_width' = WidthIn(k))
  BY <1>1, Zenon DEF Tells
<1>3. /\ job \in Jobs /\ todo \in Seq(Shots) /\ line_width \in Nat \cup {-1} /\ stim \in {"well", "failed"}
      /\ stim = "failed" => job.program \in StreamsStim
  BY <1>1, Zenon DEF WriterInv, WriterTypes, TodoOK
<1>4. SoundJob /\ (line_width' # -1 => line_width' \in Widths) BY <1>1, SoundBefore
<1>5. PICK n \in Nat, m \in Nat : n = Len(job.shots) /\ m = Len(todo) /\ job.shots \in Seq(Shots)
  BY <1>3, NthIs, LenProperties
<1>6. j \in 0..n /\ k \in 1..m BY <1>1, <1>5
<1>7. PICK shot \in Shots : shot = todo[k] BY <1>1, <1>3, ElementOfSeq
<1>8. PICK s \in Nat : s = Len(shot.events) /\ shot.events \in Seq(BOOLEAN)
  BY LenProperties DEF Shots
<1>9. j + k \in 1..n
  <2>1. CASE stim = "well" BY <1>5, <2>1, <1>6 DEF TodoIs
  <2>2. CASE stim = "failed" BY <1>1, <1>3, <1>5, <2>2, <1>6, EmptySeq DEF TodoIs
  <2>3. QED BY <1>3, <2>1, <2>2
<1>10. PICK full \in Shots : full = job.shots[j + k] BY <1>5, <1>9, ElementOfSeq
<1>11. PICK F \in Nat : F = Len(full.events) /\ full.events \in Seq(BOOLEAN)
  BY LenProperties DEF Shots
<1>12. stim = "well" => shot = full BY <1>1, <1>7, <1>10 DEF TodoIs
<1>13. stim = "failed" => k = 1 /\ m = 1 BY <1>1, <1>3, <1>5, <1>6, EmptySeq DEF TodoIs
<1>14. s <= F /\ Begins(full.events, shot.events, s)
  <2>1. CASE stim = "well" BY <1>8, <1>11, <1>12, <2>1 DEF Begins
  <2>2. CASE stim = "failed"
    BY <1>1, <1>3, <1>13, <2>2, <1>7, <1>8, <1>10, <1>11, EmptySeq DEF TodoIs
  <2>3. QED BY <1>3, <2>1, <2>2
<1>15. ASSUME job.program \in LineByLine
      PROVE  /\ Counts(j + k) /\ (\A i \in 1..k - 1 : ~ Counts(j + i)) /\ WidthIn(k) = F
  <2>1. full.events # << >>
    <3>1. CASE k = 1 /\ job.program = "stim_encoder" /\ line_width = -1
      <4>1. j = 0 BY <3>1, Zenon DEF TodoIs
      <4>2. j + k = 1 /\ 1 \in 1..n BY <1>9, <3>1, <4>1
      <4>3. job.shots # << >> BY <1>5, <4>2, EmptySeq
      <4>4. Head(job.shots) = job.shots[1] BY <1>5, <4>3, HeadTailProperties
      <4>5. job.shots = << >> \/ Head(job.shots).events # << >> BY <1>4, <3>1, Zenon DEF SoundJob
      <4>6. QED BY <1>10, <4>2, <4>3, <4>4, <4>5
    <3>2. CASE todo[k].events # << >> BY <1>7, <1>8, <3>2, <1>14, <1>11, EmptySeq
    <3>3. QED BY <1>2, <1>15, <3>1, <3>2, Zenon DEF Comes
  <2>2. Counts(j + k) BY <1>10, <2>1, Zenon DEF Counts
  <2>3. \A i \in 1..k - 1 : ~ Counts(j + i)
    <3>1. ASSUME NEW i \in 1..k - 1 PROVE ~ Counts(j + i)
      <4>1. stim = "well" /\ k # 1 BY <1>3, <1>13, <3>1
      <4>2. todo[i].events = << >> BY <1>2, <3>1, <4>1, Zenon DEF Comes
      <4>3. i \in 1..Len(todo) BY <1>5, <1>6, <3>1
      <4>4. todo[i] = job.shots[j + i] BY <4>1, <4>3, Zenon DEF TodoIs
      <4>5. QED BY <1>15, <4>2, <4>4, Zenon DEF Counts
    <3>2. QED BY <3>1
  <2>4. WidthIn(k) = F
    <3>1. F \in Widths BY <1>3, <1>5, <1>9, <1>10, <1>11, <2>1, WidthOfJobShot
    <3>2. WidthIn(k) = Width(shot.events) BY <1>7, <1>15, Zenon DEF WidthIn
    <3>3. WidthIn(k) \in Nat BY <1>8, <3>2, WidthType
    <3>4. line_width' = WidthIn(k) /\ line_width' # -1 BY <1>2, <1>15, <3>3
    <3>5. line_width' \in Widths BY <1>4, <3>4
    <3>6. \A x \in Widths : \A y \in Widths : x = y BY <1>3, <1>4, <1>15, SoundWidths
    <3>7. QED BY <3>1, <3>4, <3>5, <3>6
  <2>5. QED BY <2>2, <2>3, <2>4
<1>16. ASSUME job.program \notin LineByLine
      PROVE  /\ Counts(j + k) /\ (\A i \in 1..k - 1 : ~ Counts(j + i)) /\ WidthIn(k) = F
  <2>1. stim = "well" /\ k = 1 BY <1>16, <1>2, <1>3 DEF StreamsStim, LineByLine, Importers, Comes
  <2>2. Counts(j + k) /\ \A i \in 1..k - 1 : ~ Counts(j + i) BY <1>16, <2>1 DEF Counts
  <2>3. WidthIn(k) = F BY <1>16, <1>1, <1>7, <1>11, <1>12, <2>1, ShotWidth DEF WidthIn
  <2>4. QED BY <2>2, <2>3
<1>17. /\ Counts(j + k) /\ (\A i \in 1..k - 1 : ~ Counts(j + i)) /\ WidthIn(k) = F BY <1>15, <1>16
<1>18. F < CountModulus
  BY <1>10, <1>17, <1>3, <1>5, <1>9, <1>11, <1>4, WidthOfJobShot, SoundWidths DEF Counts
<1>19. Nth(j + k) = Len(ends) + 1
  <2>1. k \in 1..Len(job.shots) - j BY <1>5, <1>6, <1>9
  <2>2. Nth(j + k - 1) = Nth(j) BY <1>3, <1>17, <2>1, NthSkips
  <2>3. NthStep(j + k) BY <1>3, <1>5, <1>9, NthIs
  <2>4. Nth(j + k) = Nth(j + k - 1) + 1
    <3>1. PICK l : l = j + k OBVIOUS
    <3>2. NthStep(l) /\ Counts(l) BY <1>17, <2>3, <3>1
    <3>3. Nth(l) = Nth(l - 1) + 1 BY <3>2, Zenon DEF NthStep
    <3>4. l - 1 = j + k - 1 BY <1>5, <1>6, <3>1
    <3>5. QED BY <3>1, <3>3, <3>4
  <2>5. Nth(j) = Len(ends) BY Zenon DEF TodoIs
  <2>6. QED BY <2>2, <2>4, <2>5
<1>20. stim = "failed" => todo' = << >>
  <2>1. PICK rest : rest = SubSeq(todo, k, Len(todo)) OBVIOUS
  <2>2. Onward(Shots, todo, k, rest) BY <1>1, <1>3, <2>1, FromOneOn
  <2>3. todo' \in Seq(Shots) /\ Len(todo') = m - k BY <1>1, <1>5, <2>1, <2>2, Zenon DEF Onward
  <2>4. stim = "failed" => Len(todo') = 0 BY <1>13, <2>3
  <2>5. QED BY <2>3, <2>4, EmptySeq
<1>21. QED
  BY <1>3, <1>5, <1>7, <1>8, <1>9, <1>10, <1>11, <1>12, <1>14, <1>17, <1>18, <1>19, <1>20, Zenon DEF NextIsShot

\* Empty lines are passed over.
LEMMA KeptSkips ==
  ASSUME NEW S, NEW lines \in Seq(S), NEW texts, NEW i \in 0..Len(lines), NEW k \in 0..Len(lines) - i,
         \A l \in 1..k : texts[i + l] = << >>
  PROVE  KeptOf(lines, texts)[i + k] = KeptOf(lines, texts)[i]
<1>1. PICK n \in Nat : n = Len(lines) BY LenProperties
<1>2. PICK g : g = KeptOf(lines, texts) OBVIOUS
<1>3. \A l \in 1..n : KeepsOne(lines, texts, g, l) BY <1>1, <1>2, KeptIs
<1>4. i \in 0..n /\ k \in 0..n - i /\ k \in Nat BY <1>1
<1>5. PICK P : P = {l \in 0..k : g[i + l] = g[i]} OBVIOUS
<1>6. 0 \in P BY <1>4, <1>5
<1>7. ASSUME NEW l \in 1..k, l - 1 \in P PROVE l \in P
  <2>1. i + l \in 1..n /\ (i + l) - 1 = i + (l - 1) /\ l \in 0..k BY <1>4
  <2>2. KeepsOne(lines, texts, g, i + l) /\ texts[i + l] = << >> BY <1>3, <2>1
  <2>3. g[i + l] = g[(i + l) - 1] BY <2>2, Zenon DEF KeepsOne
  <2>4. g[i + (l - 1)] = g[i] BY <1>5, <1>7
  <2>5. QED BY <1>5, <2>1, <2>3, <2>4
<1>8. 0..k \subseteq P BY <1>4, <1>6, <1>7, UpTo
<1>9. k \in 0..k BY <1>4
<1>10. QED BY <1>2, <1>5, <1>8, <1>9

\* A line that is not empty is kept behind those before it.
KeptNext(lines, g, p) ==
  lines[p] # << >> => /\ Len(g[p]) = Len(g[p - 1]) + 1 /\ Len(g[p]) \in 1..Len(NotBlank(lines, lines))
                      /\ NotBlank(lines, lines)[Len(g[p])] = lines[p]

\* So it is with each of them.
LEMMA AllKept ==
  ASSUME NEW S, NEW lines \in Seq(S)
  PROVE  \A p \in 1..Len(lines) : KeptNext(lines, KeptOf(lines, lines), p)
<1>1. PICK texts : texts = lines OBVIOUS
<1>2. ASSUME NEW p \in 1..Len(lines) PROVE KeptNext(lines, KeptOf(lines, lines), p)
  <2>1. PICK before, now : before = KeptOf(lines, texts)[p - 1] /\ now = KeptOf(lines, texts)[p]
    OBVIOUS
  <2>2. /\ texts[p] = << >> => Len(now) = Len(before)
        /\ texts[p] # << >> =>
             /\ Len(now) = Len(before) + 1
             /\ Len(now) \in 1..Len(NotBlank(lines, texts)) /\ NotBlank(lines, texts)[Len(now)] = lines[p]
    BY <2>1, KeptPlace
  <2>3. QED BY <1>1, <2>1, <2>2, Zenon DEF KeptNext
<1>3. QED BY <1>2

\* The truth of the next frame is that of the line of its number, and the lines behind it are left.
LEMMA TruthNext ==
  ASSUME WriterInv, NEW k, NEW f, Puts(k, f), job.program = "stim_obs",
         NEW i \in 0..Len(job.truth), TruthIs(i)
  PROVE  NextTruth(k) = TruthAt(Len(ends) + 1) /\ \E l \in 0..Len(job.truth) : TruthIs(l)'
<1>1. job \in Jobs /\ obs_lines \in Seq(Optional(SUBSET Nat)) /\ job' = job /\ Tells(k, f)
  BY Zenon DEF Puts, WriterInv, WriterTypes
<1>2. PICK Truth : Truth = Optional(SUBSET Nat) OBVIOUS
<1>3. PICK lines \in Seq(Truth), left \in Seq(Truth) : lines = job.truth /\ left = obs_lines
  BY <1>1, <1>2, WritersAssumption
<1>4. PICK n \in Nat, m \in Nat, e \in Nat : n = Len(lines) /\ m = Len(left) /\ e = Len(ends)
  BY EndsAscend, LenProperties
<1>5. PICK g : g = KeptOf(lines, lines) OBVIOUS
<1>6. /\ i \in 0..n /\ m = n - i /\ \A l \in 1..m : left[l] = lines[i + l]
      /\ Len(g[i]) = e \/ (i = n /\ Len(Truths) <= e) BY <1>3, <1>4, <1>5, Zenon DEF TruthIs
<1>7. Truths = g[n] /\ \A l \in 0..n : g[l] \in Seq(Truth) BY <1>4, <1>5, <1>3, KeptIs DEF Truths
<1>8. PICK t \in Nat : t = Len(Truths) BY <1>7, LenProperties
<1>9. Len(ends') = e + 1 BY <1>4, FileGrows
<1>10. Flips = SkipBlank(left, left) /\ obs_lines' = (IF Flips # << >> THEN Tail(Flips) ELSE << >>)
  BY <1>1, <1>3, Zenon DEF Flips, Tells
<1>11. NextTruth(k) = IF Flips # << >> THEN Head(Flips) ELSE << >> BY DEF NextTruth
<1>12. TruthAt(e + 1) = IF e + 1 \in 1..t THEN Truths[e + 1] ELSE << >> BY <1>8 DEF TruthAt
<1>13. ASSUME NEW l \in 0..n, Len(obs_lines') = n - l,
              \A x \in 1..Len(obs_lines') : obs_lines'[x] = lines[l + x],
              Len(g[l]) = e + 1 \/ (l = n /\ t <= e + 1)
       PROVE  TruthIs(l)' BY <1>1, <1>3, <1>4, <1>5, <1>8, <1>9, <1>13, Zenon DEF Truths, TruthIs
<1>14. CASE Flips = << >> /\ \A l \in 1..m : left[l] = << >>
  <2>1. \A l \in 1..m : lines[i + l] = << >> BY <1>6, <1>14
  <2>2. g[i + m] = g[i]
    <3>1. m \in 0..Len(lines) - i /\ i \in 0..Len(lines) BY <1>4, <1>6
    <3>2. KeptOf(lines, lines)[i + m] = KeptOf(lines, lines)[i] BY <2>1, <3>1, KeptSkips
    <3>3. QED BY <1>5, <3>2
  <2>3. i + m = n BY <1>6
  <2>4. t <= e BY <1>6, <1>7, <1>8, <2>2, <2>3
  <2>5. ~ (e + 1 \in 1..t) BY <2>4
  <2>6. NextTruth(k) = TruthAt(e + 1) BY <1>11, <1>12, <1>14, <2>5
  <2>7. obs_lines' = << >> BY <1>10, <1>14
  <2>8. TruthIs(n)' BY <2>4, <2>7, <1>13
  <2>9. QED BY <1>3, <1>4, <2>6, <2>8
<1>15. CASE \E q \in 1..m : /\ left[q] # << >> /\ \A l \in 1..q - 1 : left[l] = << >>
                            /\ Flips = SubSeq(left, q, m)
  <2>1. PICK q \in 1..m : /\ left[q] # << >> /\ \A l \in 1..q - 1 : left[l] = << >>
                          /\ Flips = SubSeq(left, q, m) BY <1>15
  <2>2. Onward(Truth, left, q, Flips) BY <1>4, <2>1, FromOneOn
  <2>3. /\ Flips # << >> /\ Head(Flips) = left[q] /\ Len(Tail(Flips)) = m - q
        /\ \A l \in 1..m - q : Tail(Flips)[l] = left[q + l] BY <1>4, <2>2, Zenon DEF Onward
  <2>4. PICK p \in Nat, p1 \in Nat : p = i + q /\ p1 = q - 1 BY <1>6, <2>1
  <2>5. /\ p \in 1..n /\ p1 \in 0..n - i /\ i + p1 = p - 1 /\ q \in 1..m /\ i # n /\ lines[p] = left[q]
        /\ p \in 0..n /\ m - q = n - p BY <1>6, <2>1, <2>4
  <2>6. Len(g[i]) = e BY <1>6, <2>5
  <2>7. g[p - 1] = g[i]
    <3>1. ASSUME NEW l \in 1..p1 PROVE lines[i + l] = << >>
      <4>1. l \in 1..q - 1 /\ l \in 1..m BY <2>1, <2>4
      <4>2. left[l] = << >> /\ left[l] = lines[i + l] BY <1>6, <2>1, <4>1
      <4>3. QED BY <4>2
    <3>2. p1 \in 0..Len(lines) - i /\ i \in 0..Len(lines) BY <1>4, <1>6, <2>5
    <3>3. KeptOf(lines, lines)[i + p1] = KeptOf(lines, lines)[i] BY <3>1, <3>2, KeptSkips
    <3>4. QED BY <1>5, <2>5, <3>3
  <2>8. Len(g[p]) = e + 1 /\ e + 1 \in 1..t /\ Truths[e + 1] = lines[p]
    <3>1. KeptNext(lines, g, p) BY <1>4, <2>5, <1>5, AllKept
    <3>2. lines[p] # << >> BY <2>1, <2>5
    <3>3. /\ Len(g[p]) = Len(g[p - 1]) + 1 /\ Len(g[p]) \in 1..Len(Truths)
          /\ Truths[Len(g[p])] = lines[p] BY <1>3, <3>1, <3>2, Zenon DEF KeptNext, Truths
    <3>4. QED BY <1>8, <2>6, <2>7, <3>3
  <2>9. NextTruth(k) = TruthAt(e + 1) BY <1>11, <1>12, <2>3, <2>5, <2>8
  <2>10. obs_lines' = Tail(Flips) BY <1>10, <2>3
  <2>11. Len(obs_lines') = n - p /\ \A x \in 1..Len(obs_lines') : obs_lines'[x] = lines[p + x]
    <3>1. Len(obs_lines') = n - p BY <2>3, <2>5, <2>10
    <3>2. ASSUME NEW x \in 1..n - p PROVE Tail(Flips)[x] = lines[p + x]
      BY <1>6, <2>1, <2>4, <2>5, <2>3
    <3>3. QED BY <2>10, <3>1, <3>2
  <2>12. TruthIs(p)' BY <1>13, <2>5, <2>8, <2>11
  <2>13. QED BY <1>3, <1>4, <2>5, <2>9, <2>12
<1>16. \/ SkipBlank(left, left) = << >> /\ \A l \in 1..m : left[l] = << >>
       \/ \E q \in 1..m : /\ left[q] # << >> /\ \A l \in 1..q - 1 : left[l] = << >>
                          /\ SkipBlank(left, left) = SubSeq(left, q, m) BY <1>4, Skipped
<1>17. QED BY <1>10, <1>14, <1>15, <1>16

\* A frame stays where it is when the file goes on.
LEMMA FrameStays ==
  ASSUME NEW bytes, NEW es, NEW base, Layout(bytes, es, base), NEW more, NEW es2,
         \A i \in 1..Len(es) : es2[i] = es[i], \A i \in 1..Len(bytes) : more[i] = bytes[i],
         NEW k \in 1..Len(es), NEW f, IsFrame(bytes, es, base, k, f)
  PROVE  IsFrame(more, es2, base, k, f)
<1>1. PICK n \in Nat, m \in Nat : n = Len(es) /\ m = Len(bytes) BY LenProperties DEF Layout
<1>2. /\ f \in FrameData /\ es[k] = StartAt(es, base, k) + LengthOf(f)
      /\ \A i \in 1..LengthOf(f) : bytes[StartAt(es, base, k) + i] = BytesOf(f)[i]
  BY Zenon DEF IsFrame
<1>3. FrameAt(bytes, StartAt(es, base, k), f) BY SaidEndIs
<1>4. StartAt(es2, base, k) = StartAt(es, base, k) /\ es2[k] = es[k] BY <1>1 DEF StartAt
<1>5. PICK s \in Nat, len \in Nat : s = StartAt(es, base, k) /\ len = LengthOf(f)
  <2>1. LengthOf(f) \in Nat BY <1>2, FrameTypes
  <2>3. StartAt(es, base, k) \in Nat BY <1>1, Starts DEF Layout
  <2>4. QED BY <2>1, <2>3
<1>6. s + len <= m BY <1>1, <1>3, <1>5, Zenon DEF FrameAt
<1>7. ASSUME NEW i \in 1..len PROVE more[s + i] = BytesOf(f)[i] BY <1>6, <1>1, <1>2, <1>5
<1>8. QED BY <1>2, <1>4, <1>5, <1>7, Zenon DEF IsFrame

\* The programs without an observables file tell the truth that comes with the shot, or none.
LEMMA OtherTruth ==
  ASSUME WriterInv, NEW k, NEW l, NextIsShot(k, l), job.program # "stim_obs"
  PROVE  NextTruth(k) = TruthAt(Len(ends) + 1)
<1>1. job \in Jobs /\ stim \in {"well", "failed"} BY Zenon DEF WriterInv, WriterTypes
<1>2. /\ l \in 1..Len(job.shots) /\ Counts(l) /\ Nth(l) = Len(ends) + 1
      /\ stim = "well" => todo[k] = job.shots[l]
      /\ stim = "failed" => job.program \in StreamsStim BY Zenon DEF NextIsShot
<1>3. NthStep(l) BY <1>1, <1>2, NthIs
<1>4. DescribedShots[Len(ends) + 1] = job.shots[l] BY <1>2, <1>3, Zenon DEF NthStep
<1>5. CASE job.program \in {"export", "write_qssf"}
  <2>1. stim = "well" BY <1>1, <1>2, <1>5 DEF StreamsStim
  <2>2. NextTruth(k) = todo[k].flips BY <1>5 DEF NextTruth
  <2>3. TruthAt(Len(ends) + 1) = DescribedShots[Len(ends) + 1].flips BY <1>5 DEF TruthAt
  <2>4. QED BY <1>2, <1>4, <2>1, <2>2, <2>3
<1>6. CASE job.program \notin {"export", "write_qssf"} BY <1>6 DEF NextTruth, TruthAt
<1>7. QED BY <1>5, <1>6

\* The frame that is written says what is described, or it is short.
LEMMA RightOrShort ==
  ASSUME WriterInv, NEW k, NEW f, Puts(k, f), job.program # "record", NEW l, NextIsShot(k, l),
         NextTruth(k) = TruthAt(Len(ends) + 1)
  PROVE  Right(Len(ends) + 1, f) \/ (stim = "failed" /\ Short(Len(ends) + 1, f))
<1>1. /\ f.hdr.frame_id = frame_id /\ k \in 1..Len(todo) /\ Tells(k, f) BY Zenon DEF Puts
<1>2. /\ job \in Jobs /\ stim \in {"well", "failed"} /\ todo \in Seq(Shots) /\ frame_id = Len(ends)
  BY EndsAscend, Zenon DEF WriterInv, WriterTypes
<1>3. PICK e \in Nat : e = Len(ends) BY EndsAscend
<1>4. /\ l \in 1..Len(job.shots) /\ Counts(l) /\ Nth(l) = e + 1
      /\ stim = "well" => todo[k] = job.shots[l]
      /\ stim = "failed" => job.program \in StreamsStim
      /\ Len(todo[k].events) <= Len(job.shots[l].events)
      /\ Begins(job.shots[l].events, todo[k].events, Len(todo[k].events))
      /\ WidthIn(k) = Len(job.shots[l].events) /\ WidthIn(k) < CountModulus
  BY <1>3, Zenon DEF NextIsShot
<1>5. PICK full \in Shots, shot \in Shots : full = job.shots[l] /\ shot = todo[k]
  BY <1>2, <1>1, <1>4, NthIs, ElementOfSeq
<1>6. PICK F \in Nat, s \in Nat : F = Len(full.events) /\ s = Len(shot.events)
  BY LenProperties DEF Shots
<1>7. full.events \in Seq(BOOLEAN) /\ shot.events \in Seq(BOOLEAN) BY DEF Shots
<1>8. s <= F /\ Begins(full.events, shot.events, s) /\ WidthIn(k) = F /\ F < CountModulus
  BY <1>4, <1>5, <1>6
<1>9. /\ f.crc = "header" /\ f.de = EncodeDetectorEvents(shot.events) /\ f.meas = shot.events
      /\ f.hdr.ancilla_count = F /\ Annotated(f, shot.events, TruthAt(e + 1))
      /\ job.program \in StreamsStim => Plain(f)
      /\ F > s => TooLong(f) BY <1>1, <1>3, <1>5, <1>6, <1>8, Zenon DEF Tells, Carries
<1>10. e + 1 \in 1..Len(DescribedShots) /\ DescribedShots[e + 1] = full
  BY <1>2, <1>4, <1>5, NthIs DEF NthStep
<1>11. e + 1 <= Len(Described) /\ (e + 1) - 1 = e /\ Described[e + 1] = Round(e + 1)
  BY <1>2, <1>10, DescribedIs
<1>12. Described[e + 1].events = full.events /\ Described[e + 1].observable_flips = TruthAt(e + 1)
  BY <1>10, <1>11 DEF Round
<1>13. CASE s = F
  <2>1. full.events = shot.events BY <1>6, <1>8, <1>7, <1>13, SeqEqual DEF Begins
  <2>2. Says(f, e, full.events, TruthAt(e + 1))
    BY <1>1, <1>2, <1>3, <1>6, <1>7, <1>8, <1>9, <2>1, Zenon DEF Says
  <2>3. QED BY <1>3, <1>9, <1>11, <1>12, <2>2, Zenon DEF Right
<1>14. CASE s # F
  <2>1. F > s BY <1>8, <1>14
  <2>2. stim = "failed" BY <1>2, <1>4, <1>5, <1>6, <1>14
  <2>3. Len(EncodeDetectorEvents(shot.events)) \in 0..s BY <1>6, <1>7, RunsReturn
  <2>4. Len(f.de) < CountModulus
    <3>1. PICK c \in Nat : c = CountModulus BY FileAssumption
    <3>2. QED BY <1>8, <1>9, <2>1, <2>3, <3>1
  <2>5. TruthAt(e + 1) = << >> BY <1>4, <2>2 DEF TruthAt, StreamsStim
  <2>6. Len(f.meas) <= Len(full.events) /\ Begins(full.events, f.meas, Len(f.meas))
    BY <1>6, <1>8, <1>9, Zenon
  <2>7. Plain(f) /\ TooLong(f) /\ Annotated(f, f.meas, << >>) BY <1>4, <1>9, <2>1, <2>2, <2>5
  <2>8. f.hdr.frame_id = (e + 1) - 1 /\ f.hdr.ancilla_count = Len(full.events)
    BY <1>1, <1>2, <1>3, <1>6, <1>9, <1>11, Zenon
  <2>9. Short(e + 1, f) BY <1>9, <1>11, <1>12, <2>4, <2>5, <2>6, <2>7, <2>8, Zenon DEF Short
  <2>10. QED BY <1>3, <2>2, <2>9, Zenon
<1>15. QED BY <1>13, <1>14

\* What comes behind the shot that is written.
LEMMA NextTodo ==
  ASSUME WriterInv, NEW k, NEW f, Puts(k, f), job.program # "record",
         NEW j \in 0..Len(job.shots), TodoIs(j), NextIsShot(k, j + k)
  PROVE  TodoIs(j + k)'
<1>1. /\ k \in 1..Len(todo) /\ todo' = Tail(SubSeq(todo, k, Len(todo)))
      /\ job' = job /\ stim' = stim /\ Tells(k, f) BY Zenon DEF Puts
<1>2. /\ job \in Jobs /\ todo \in Seq(Shots) BY Zenon DEF WriterInv, WriterTypes
<1>3. /\ j + k \in 1..Len(job.shots) /\ Nth(j + k) = Len(ends) + 1
      /\ stim = "failed" => todo' = << >>
      /\ WidthIn(k) = Len(job.shots[j + k].events) BY Zenon DEF NextIsShot
<1>4. PICK n \in Nat, m \in Nat : n = Len(job.shots) /\ m = Len(todo) /\ job.shots \in Seq(Shots)
  BY <1>2, NthIs, LenProperties
<1>5. Nth(j + k)' = Len(ends') BY <1>1, <1>3, FileGrows DEF Nth, Texts
<1>6. ~ (job.program = "stim_encoder" /\ line_width' = -1)
  <2>1. job.program = "stim_encoder" => line_width' = WidthIn(k) BY <1>1 DEF Tells, LineByLine
  <2>2. job.shots[j + k] \in Shots BY <1>3, <1>4, ElementOfSeq
  <2>3. job.shots[j + k].events \in Seq(BOOLEAN) BY <2>2 DEF Shots
  <2>4. WidthIn(k) \in Nat BY <1>3, <2>3, LenProperties
  <2>5. QED BY <2>1, <2>4
<1>7. ASSUME stim = "well"
      PROVE  /\ Len(todo') = Len(job.shots) - (j + k)
             /\ \A i \in 1..Len(todo') : todo'[i] = job.shots[(j + k) + i]
  <2>1. m = n - j /\ \A i \in 1..m : todo[i] = job.shots[j + i] BY <1>4, <1>7, Zenon DEF TodoIs
  <2>2. PICK rest : rest = SubSeq(todo, k, Len(todo)) OBVIOUS
  <2>3. Onward(Shots, todo, k, rest) BY <1>1, <1>2, <2>2, FromOneOn
  <2>4. Len(todo') = m - k /\ \A i \in 1..m - k : todo'[i] = todo[k + i]
    BY <1>1, <1>4, <2>2, <2>3, Zenon DEF Onward
  <2>5. k \in 1..m /\ j \in 0..n BY <1>1, <1>4
  <2>6. ASSUME NEW i \in 1..m - k PROVE todo'[i] = job.shots[(j + k) + i]
    <3>1. k + i \in 1..m /\ j + (k + i) = (j + k) + i BY <2>5
    <3>2. todo'[i] = job.shots[j + (k + i)] BY <2>1, <2>4, <3>1
    <3>3. QED BY <3>1, <3>2
  <2>7. Len(todo') = n - (j + k) BY <2>1, <2>4, <2>5
  <2>8. QED BY <1>4, <2>4, <2>6, <2>7
<1>8. QED BY <1>1, <1>3, <1>5, <1>6, <1>7, Zenon DEF TodoIs

\* A frame more is one that says what is described, or short; the others say what they said.
LEMMA NextFrames ==
  ASSUME WriterInv, NEW k, NEW f, Puts(k, f), FramesOK,
         Right(Len(ends) + 1, f) \/ (stim = "failed" /\ todo' = << >> /\ Short(Len(ends) + 1, f))
  PROVE  FramesOK'
<1>1. /\ Base' = Base /\ Len(ends') = Len(ends) + 1 /\ Len(ends) \in Nat
      /\ \A i \in 1..Len(ends) : ends'[i] = ends[i]
      /\ \A i \in 1..Len(Prefix) : file'[i] = Prefix[i]
      /\ IsFrame(file', ends', Base, Len(ends) + 1, f) BY FileGrows
<1>2. job' = job /\ stim' = stim /\ k \in 1..Len(todo) BY Zenon DEF Puts
<1>3. todo # << >> BY <1>2, EmptySeq DEF WriterInv, WriterTypes
<1>4. Layout(Prefix, ends, Base) /\ (file = << >> => ends = << >>) BY Zenon DEF WriterInv, FileOK
<1>5. \A i, g : (Right(i, g)' <=> Right(i, g)) /\ (Short(i, g)' <=> Short(i, g))
  <2>1. Described' = Described BY <1>2 DEF Described
  <2>2. QED BY <2>1, Zenon DEF Right, Short
<1>6. PICK e \in Nat : e = Len(ends) BY <1>1
<1>7. ASSUME NEW i \in 1..e PROVE FrameSays(i)'
  <2>1. i \in 1..Len(ends) /\ ends # << >> BY <1>6
  <2>2. Prefix = file BY <1>4, <2>1, Zenon DEF Prefix
  <2>3. PICK g : /\ IsFrame(file, ends, Base, i, g)
                 /\ Right(i, g) \/ (stim = "failed" /\ todo = << >> /\ i = Len(ends) /\ Short(i, g))
    BY <2>1, Zenon DEF FramesOK, FrameSays
  <2>4. IsFrame(file', ends', Base, i, g)
    <3>1. PICK more, es2 : more = file' /\ es2 = ends' OBVIOUS
    <3>2. Layout(file, ends, Base) BY <1>4, <2>2
    <3>3. (\A x \in 1..Len(ends) : es2[x] = ends[x]) /\ \A x \in 1..Len(file) : more[x] = file[x]
      BY <1>1, <2>2, <3>1
    <3>4. IsFrame(more, es2, Base, i, g) BY <2>1, <2>3, <3>2, <3>3, FrameStays
    <3>5. QED BY <3>1, <3>4
  <2>5. Right(i, g)' BY <1>3, <1>5, <2>3
  <2>6. QED BY <1>1, <2>4, <2>5, Zenon DEF FrameSays
<1>8. FrameSays(e + 1)' BY <1>1, <1>6, <1>2, <1>5 DEF FrameSays
<1>9. ASSUME NEW i \in 1..Len(ends') PROVE FrameSays(i)'
  <2>1. i \in 1..e \/ i = e + 1 BY <1>1, <1>6
  <2>2. CASE i \in 1..e BY <1>7, <2>2
  <2>3. CASE i = e + 1 BY <1>8, <2>3, Zenon
  <2>4. QED BY <2>1, <2>2, <2>3
<1>10. QED BY <1>9, Zenon DEF FramesOK

\* Every step that writes a frame keeps what the frames say.
LEMMA PutSays ==
  ASSUME WriterInv, SayInv, NEW k, NEW f, Puts(k, f)
  PROVE  SayInv'
<1>1. SUFFICES ASSUME Sound', job.program # "record" PROVE LinesOK' /\ FramesOK'
  BY Zenon DEF Puts, SayInv
<1>2. job' = job /\ (line_width # -1 => line_width' = line_width) /\ phase = "write" /\ stim' = stim
  BY Zenon DEF Puts
<1>3. LinesOK /\ FramesOK BY <1>1, <1>2, SoundBefore DEF SayInv
<1>4. Writing BY <1>2 DEF Writing
<1>5. PICK j \in 0..Len(job.shots) : TodoIs(j) BY <1>3, <1>4, Zenon DEF LinesOK
<1>6. NextIsShot(k, j + k) BY <1>1, <1>5, NextShot
<1>7. TodoIs(j + k)' /\ j + k \in 0..Len(job.shots)
  <2>1. TodoIs(j + k)' BY <1>1, <1>5, <1>6, NextTodo
  <2>2. j + k \in 1..Len(job.shots) BY <1>6, Zenon DEF NextIsShot
  <2>3. Len(job.shots) \in Nat BY NthIs DEF WriterInv, WriterTypes
  <2>4. QED BY <2>1, <2>2, <2>3
<1>8. NextTruth(k) = TruthAt(Len(ends) + 1) /\ (job.program = "stim_obs" => \E i \in 0..Len(job.truth) : TruthIs(i)')
  <2>1. CASE job.program = "stim_obs"
    <3>1. PICK i \in 0..Len(job.truth) : TruthIs(i) BY <1>3, <1>4, <2>1, Zenon DEF LinesOK
    <3>2. NextTruth(k) = TruthAt(Len(ends) + 1) /\ \E l \in 0..Len(job.truth) : TruthIs(l)'
      BY <2>1, <3>1, TruthNext
    <3>3. QED BY <3>2
  <2>2. CASE job.program # "stim_obs" BY <1>6, <2>2, OtherTruth
  <2>3. QED BY <2>1, <2>2
<1>9. LinesOK' BY <1>2, <1>7, <1>8, Zenon DEF LinesOK
<1>10. FramesOK'
  <2>1. Right(Len(ends) + 1, f) \/ (stim = "failed" /\ Short(Len(ends) + 1, f))
    BY <1>1, <1>6, <1>8, RightOrShort
  <2>2. stim = "failed" => todo' = << >> BY <1>6, Zenon DEF NextIsShot
  <2>3. Right(Len(ends) + 1, f) \/ (stim = "failed" /\ todo' = << >> /\ Short(Len(ends) + 1, f))
    BY <2>1, <2>2
  <2>4. QED BY <1>3, <2>3, NextFrames
<1>11. QED BY <1>9, <1>10

\* What the frames say stays so while none is written.
LEMMA FramesKept ==
  ASSUME FramesOK, job' = job, ends' = ends, file' = file \/ Len(ends) = 0,
         stim = "failed" /\ todo = << >> => stim' = "failed" /\ todo' = << >>
  PROVE  FramesOK'
<1>1. CASE Len(ends) = 0 BY <1>1 DEF FramesOK
<1>2. CASE file' = file
  <2>1. Base' = Base /\ Described' = Described BY DEF Base, Described
  <2>2. \A k, f : (Right(k, f)' <=> Right(k, f)) /\ (Short(k, f)' <=> Short(k, f))
    BY <2>1, Zenon DEF Right, Short
  <2>3. ASSUME NEW k \in 1..Len(ends') PROVE FrameSays(k)'
    <3>1. PICK f : /\ IsFrame(file, ends, Base, k, f)
                   /\ Right(k, f) \/ (stim = "failed" /\ todo = << >> /\ k = Len(ends) /\ Short(k, f))
      BY DEF FramesOK, FrameSays
    <3>2. IsFrame(file', ends', Base', k, f) BY <1>2, <2>1, <3>1
    <3>3. Right(k, f)' \/ (stim' = "failed" /\ todo' = << >> /\ k = Len(ends') /\ Short(k, f)')
      BY <2>2, <3>1
    <3>4. QED BY <3>2, <3>3, Zenon DEF FrameSays
  <2>4. QED BY <2>3, Zenon DEF FramesOK
<1>3. QED BY <1>1, <1>2

\* Neither does a line come or go.
LEMMA LinesKept ==
  ASSUME LinesOK, Writing' => Writing /\ todo' = todo /\ stim' = stim,
         job' = job, obs_lines' = obs_lines, line_width' = line_width, ends' = ends
  PROVE  LinesOK'
<1>1. SUFFICES ASSUME Writing'
               PROVE  /\ \E j \in 0..Len(job'.shots) : TodoIs(j)'
                      /\ job'.program = "stim_obs" => \E i \in 0..Len(job'.truth) : TruthIs(i)'
  BY Zenon DEF LinesOK
<1>2. Writing /\ todo' = todo /\ stim' = stim BY <1>1
<1>3. \A j : TodoIs(j)' <=> TodoIs(j) BY <1>2, Zenon DEF Nth, Texts, TodoIs
<1>4. \A i : TruthIs(i)' <=> TruthIs(i) BY Zenon DEF TruthIs, Truths
<1>5. QED BY <1>2, <1>3, <1>4, Zenon DEF LinesOK

\* So it is kept what the frames say.
LEMMA SayKept ==
  ASSUME WriterInv, SayInv, job' = job, obs_lines' = obs_lines, line_width' = line_width, ends' = ends,
         Writing' => Writing /\ todo' = todo /\ stim' = stim,
         file' = file \/ Len(ends) = 0,
         stim = "failed" /\ todo = << >> => stim' = "failed" /\ todo' = << >>
  PROVE  SayInv'
<1>1. SUFFICES ASSUME Sound', job.program # "record" PROVE LinesOK' /\ FramesOK' BY Zenon DEF SayInv
<1>2. Sound BY <1>1, SoundBefore
<1>3. LinesOK /\ FramesOK BY <1>1, <1>2, Zenon DEF SayInv
<1>4. LinesOK' BY <1>3, LinesKept
<1>5. FramesOK' BY <1>3, FramesKept
<1>6. QED BY <1>4, <1>5

\* Of a stim that dies, a part of the next line is still to come.
LEMMA DiesSays ==
  ASSUME WriterInv, SayInv, StimDies
  PROVE  SayInv'
<1>1. /\ phase = "write" /\ job.program \in StreamsStim /\ stim = "well" /\ stim' = "failed"
      /\ job' = job /\ obs_lines' = obs_lines /\ line_width' = line_width /\ file' = file /\ ends' = ends
  BY Zenon DEF StimDies
<1>2. SUFFICES ASSUME Sound', job.program # "record" PROVE LinesOK' /\ FramesOK'
  BY <1>1, Zenon DEF SayInv
<1>3. Sound BY <1>1, <1>2, SoundBefore
<1>4. LinesOK /\ FramesOK BY <1>2, <1>3, Zenon DEF SayInv
<1>5. FramesOK' BY <1>1, <1>4, FramesKept
<1>6. PICK j \in 0..Len(job.shots) : TodoIs(j) BY <1>1, <1>4 DEF Writing, LinesOK
<1>7. /\ Len(todo') = 1 /\ 1 \in 1..Len(todo)
      /\ Len(todo'[1].events) <= Len(todo[1].events)
      /\ Begins(todo[1].events, todo'[1].events, Len(todo'[1].events)) BY PartOfLine DEF Begins
<1>8. j < Len(job.shots) /\ todo[1] = job.shots[j + 1]
  BY <1>1, <1>6, <1>7, NthIs, LenProperties DEF WriterInv, WriterTypes, TodoIs
<1>9. TodoIs(j)'
  <2>1. Nth(j)' = Nth(j) BY <1>1, Zenon DEF Nth, Texts
  <2>2. /\ Nth(j)' = Len(ends') /\ stim' # "well"
        /\ job'.program = "stim_encoder" /\ line_width' = -1 => j = 0 BY <1>1, <1>6, <2>1 DEF TodoIs
  <2>3. /\ j < Len(job'.shots)
        /\ Len(todo'[1].events) <= Len(job'.shots[j + 1].events)
        /\ Begins(job'.shots[j + 1].events, todo'[1].events, Len(todo'[1].events))
    BY <1>1, <1>7, <1>8
  <2>4. QED BY <1>7, <2>2, <2>3, Zenon DEF TodoIs
<1>10. job.program # "stim_obs" BY <1>1 DEF StreamsStim
<1>11. LinesOK' BY <1>1, <1>6, <1>9, <1>10, Zenon DEF LinesOK
<1>12. QED BY <1>5, <1>11

\* At the start all shots are still to come.
LEMMA SayStarts ==
  ASSUME WriterInit
  PROVE  SayInv
<1>1. /\ job \in Jobs /\ todo = job.shots /\ obs_lines = job.truth /\ line_width = -1
      /\ stim = "well" /\ ends = << >> /\ Len(ends) = 0 BY DEF WriterInit
<1>2. /\ Nth(0) = 0 /\ Len(job.shots) \in Nat /\ job.truth \in Seq(Optional(SUBSET Nat))
  BY <1>1, NthIs, WritersAssumption
<1>3. Len(job.truth) \in Nat BY <1>2, LenProperties
<1>4. TodoIs(0) BY <1>1, <1>2 DEF TodoIs
<1>5. TruthIs(0)
  <2>1. Len(obs_lines) = Len(job.truth) - 0 /\ \A i \in 1..Len(obs_lines) : obs_lines[i] = job.truth[0 + i]
    BY <1>1, <1>3
  <2>2. PICK lines : lines = job.truth OBVIOUS
  <2>3. KeptOf(lines, lines)[0] = << >>
    <3>1. PICK T : T = Optional(SUBSET Nat) OBVIOUS
    <3>2. lines \in Seq(T) BY <1>2, <2>2, <3>1
    <3>3. QED BY <3>2, KeptIs
  <2>4. Len(KeptOf(job.truth, job.truth)[0]) = Len(ends) BY <1>1, <2>2, <2>3
  <2>5. QED BY <2>1, <2>4, Zenon DEF TruthIs
<1>6. 0 \in 0..Len(job.shots) /\ 0 \in 0..Len(job.truth) BY <1>2, <1>3
<1>7. LinesOK BY <1>4, <1>5, <1>6, Zenon DEF LinesOK
<1>8. FramesOK BY <1>1 DEF FramesOK
<1>9. QED BY <1>7, <1>8, Zenon DEF SayInv

\* Every step of a writer keeps what its frames say.
LEMMA WriterSays ==
  ASSUME WriterInv, SayInv, WriterNext
  PROVE  SayInv'
<1>1. CASE Start BY <1>1, SayKept DEF WriterInv, FileOK, Start, Writing
<1>2. CASE StimObsFails \/ Finish BY <1>2, SayKept DEF StimObsFails, Finish, Writing
<1>3. CASE StimDies BY <1>3, DiesSays
<1>4. CASE ImportFrame \/ ServeLine \/ ServeSample \/ ExportOne \/ RecordOne
  BY <1>4, ImportPuts, ServePuts, SamplePuts, ExportPuts, RecordPuts, PutSays
<1>5. CASE PythonFrame
  <2>1. CASE \E k, f : Puts(k, f) BY <2>1, PutSays
  <2>2. CASE ~ \E k, f : Puts(k, f) BY <1>5, <2>2, PythonPuts, SayKept DEF Writing
  <2>3. QED BY <2>1, <2>2
<1>6. QED BY <1>1, <1>2, <1>3, <1>4, <1>5, Zenon DEF WriterNext

\* Where the writer does nothing, it is kept too.
LEMMA SayRests ==
  ASSUME WriterInv, SayInv, UNCHANGED writer
  PROVE  SayInv'
<1>1. /\ job' = job /\ todo' = todo /\ obs_lines' = obs_lines /\ line_width' = line_width
      /\ file' = file /\ stim' = stim /\ phase' = phase /\ ends' = ends BY DEF writer
<1>2. Writing' <=> Writing BY <1>1, Zenon DEF Writing
<1>3. QED BY <1>1, <1>2, SayKept

-----------------------------------------------------------------------------
(* What the dashboard has read *)

\* What a step of the writer leaves as it is.
Extended ==
  /\ Base' = Base /\ job' = job
  /\ Len(ends) \in Nat /\ Len(ends') \in Nat /\ Len(ends) <= Len(ends')
  /\ \A i \in 1..Len(ends) : ends'[i] = ends[i]
  /\ Len(file) \in Nat /\ Len(file') \in Nat /\ Len(file) <= Len(file')
  /\ file # << >> => file' # << >>

\* It leaves it so when it writes a frame.
LEMMA PutExtends ==
  ASSUME WriterInv, NEW k, NEW f, Puts(k, f), Len(file') \in Nat, Len(ends') \in Nat
  PROVE  Extended
<1>1. /\ Layout(Prefix, ends, Base) /\ file \in Seq(Cell) /\ Len(ends) \in Nat /\ Len(file) \in Nat
  BY EndsAscend
<1>2. /\ f \in FrameData /\ file' = Prefix \o BytesOf(f) /\ ends' = Append(ends, Len(file')) /\ job' = job
  BY Zenon DEF Puts
<1>3. /\ Len(ends') = Len(ends) + 1 /\ Len(file') = Len(Prefix) + LengthOf(f)
      /\ \A i \in 1..Len(ends) : ends'[i] = ends[i]
  <2>1. PICK more, es2 : more = file' /\ es2 = ends' OBVIOUS
  <2>2. more = Prefix \o BytesOf(f) /\ es2 = Append(ends, Len(more)) BY <1>2, <2>1, Zenon
  <2>3. Grown(Prefix, ends, Base, f, more, es2) BY <1>1, <1>2, <2>2, LayoutGrows
  <2>4. QED BY <2>1, <2>3, Zenon DEF Grown
<1>4. Base' = Base BY <1>2, Zenon DEF Base
<1>5. PICK n \in Nat, m \in Nat : n = Len(ends) /\ m = Len(file) BY <1>1
<1>6. n <= Len(ends') BY <1>3, <1>5
<1>7. m <= Len(file')
  <2>1. CASE file = << >> BY <1>5, <2>1
  <2>2. CASE file # << >>
    <3>1. Prefix = file BY <2>2, Zenon DEF Prefix
    <3>2. PICK l \in Nat : l = LengthOf(f) BY <1>2, FrameTypes
    <3>3. Len(file') = m + l BY <1>3, <1>5, <3>1, <3>2, Zenon
    <3>4. QED BY <3>3
  <2>3. QED BY <2>1, <2>2
<1>8. file # << >> => file' # << >> BY <1>1, <1>5, <1>7, EmptySeq
<1>9. QED BY <1>1, <1>2, <1>3, <1>4, <1>5, <1>6, <1>7, <1>8, Zenon DEF Extended

\* And when it writes none.
LEMMA WriterExtends ==
  ASSUME WriterInv, WriterInv', WriterNext
  PROVE  Extended
<1>1. /\ Len(ends) \in Nat /\ Len(file) \in Nat /\ Len(ends') \in Nat /\ Len(file') \in Nat
  <2>1. WriterInv' => (Len(file) \in Nat)' /\ (Len(ends) \in Nat)' BY EndsAscend, PTL
  <2>2. QED BY <2>1, EndsAscend
<1>2. ASSUME job' = job, ends' = ends, file' = file \/ file = << >> PROVE Extended
  <2>1. Base' = Base BY <1>2, Zenon DEF Base
  <2>2. PICK n \in Nat, m \in Nat, m2 \in Nat : n = Len(ends) /\ m = Len(file) /\ m2 = Len(file')
    BY <1>1
  <2>3. n <= n /\ m <= m2
    <3>1. CASE file' = file BY <2>2, <3>1
    <3>2. CASE file = << >> BY <2>2, <3>2
    <3>3. QED BY <1>2, <3>1, <3>2
  <2>4. QED BY <1>1, <1>2, <2>1, <2>2, <2>3, Zenon DEF Extended
<1>3. CASE Start BY <1>2, <1>3 DEF WriterInv, FileOK, Start
<1>4. CASE StimObsFails \/ StimDies \/ Finish BY <1>2, <1>4 DEF StimObsFails, StimDies, Finish
<1>5. CASE \E k, f : Puts(k, f)
  <2>1. PICK k, f : Puts(k, f) BY <1>5
  <2>2. QED BY <1>1, <2>1, PutExtends
<1>6. CASE PythonFrame
  <2>1. CASE \E k, f : Puts(k, f) BY <1>5, <2>1
  <2>2. CASE ~ \E k, f : Puts(k, f) BY <1>6, <2>2, <1>2, PythonPuts
  <2>3. QED BY <2>1, <2>2
<1>7. CASE ImportFrame \/ ServeLine \/ ServeSample \/ ExportOne \/ RecordOne
  BY <1>5, <1>7, ImportPuts, ServePuts, SamplePuts, ExportPuts, RecordPuts
<1>8. QED BY <1>3, <1>4, <1>6, <1>7, Zenon DEF WriterNext

\* The dashboard is at the beginning of a frame, and has shown no more than are before it; or
\* it finds no header any more.
ReadSoFar ==
  \/ \E q \in 0..Len(ends) : total_frames <= q /\ stream_at = StartAt(ends, Base, q + 1)
  \/ Ended /\ stream_at + FrameHeaderLen > Len(file)

ScreenInv ==
  /\ screen \in {"off", "on", "closed", "error", "adrift"}
  /\ total_frames \in Nat /\ total_frames <= Len(ends)
  /\ stream_at \in 0..Len(file)
  /\ reader = "dashboard" => job.program # "record"
  /\ screen = "off" => stream_at = 0 /\ total_frames = 0
  /\ screen = "on" => reader = "dashboard" /\ file # << >> /\ ReadSoFar

\* While the writer writes, the dashboard stays where it is.
LEMMA ScreenWaits ==
  ASSUME WriterInv, WriterInv', WriterNext, ScreenInv, UNCHANGED <<total_frames, reader, screen, stream_at>>
  PROVE  ScreenInv'
<1>1. Extended BY WriterExtends
<1>2. /\ Base' = Base /\ job' = job
      /\ Len(ends) \in Nat /\ Len(ends') \in Nat /\ Len(ends) <= Len(ends')
      /\ \A i \in 1..Len(ends) : ends'[i] = ends[i]
      /\ Len(file) \in Nat /\ Len(file') \in Nat /\ Len(file) <= Len(file')
      /\ file # << >> => file' # << >> BY <1>1, Zenon DEF Extended
<1>3. total_frames' = total_frames /\ reader' = reader /\ screen' = screen /\ stream_at' = stream_at
  OBVIOUS
<1>4. /\ total_frames \in Nat /\ total_frames <= Len(ends) /\ stream_at \in 0..Len(file)
      /\ screen = "on" => ReadSoFar BY Zenon DEF ScreenInv
<1>5. total_frames' \in Nat /\ total_frames' <= Len(ends') BY <1>2, <1>3, <1>4
<1>6. stream_at' \in 0..Len(file') BY <1>2, <1>3, <1>4
<1>7. ASSUME ReadSoFar PROVE ReadSoFar'
  <2>1. PICK q \in 0..Len(ends) : total_frames <= q /\ stream_at = StartAt(ends, Base, q + 1)
    BY <1>7, WriterStops, Zenon DEF ReadSoFar
  <2>2. q \in 0..Len(ends') BY <1>2, <2>1
  <2>3. StartAt(ends', Base, q + 1) = StartAt(ends, Base, q + 1)
    <3>1. CASE q = 0 BY <3>1 DEF StartAt
    <3>2. CASE q # 0 BY <1>2, <3>2 DEF StartAt
    <3>3. QED BY <3>1, <3>2
  <2>4. QED BY <1>2, <1>3, <2>1, <2>2, <2>3, Zenon DEF ReadSoFar
<1>8. QED BY <1>2, <1>3, <1>4, <1>5, <1>6, <1>7, Zenon DEF ScreenInv

\* So it does while the other parts read.
LEMMA ScreenRests ==
  ASSUME ScreenInv, UNCHANGED <<writer, total_frames, reader, stream_at>>,
         screen' = screen \/ (screen = "on" /\ screen' = "closed")
  PROVE  ScreenInv'
<1>1. /\ total_frames' = total_frames /\ reader' = reader /\ stream_at' = stream_at
      /\ job' = job /\ file' = file /\ ends' = ends /\ phase' = phase BY DEF writer
<1>2. Base' = Base BY <1>1, Zenon DEF Base
<1>3. ReadSoFar' <=> ReadSoFar BY <1>1, <1>2, Zenon DEF ReadSoFar, Ended
<1>4. screen' \in {"off", "on", "closed", "error", "adrift"} /\ (screen' = "off" => screen = "off") /\ (screen' = "on" => screen = "on")
  BY DEF ScreenInv
<1>5. QED BY <1>1, <1>2, <1>3, <1>4, Zenon DEF ScreenInv

\* The dashboard opens a stream behind its header.
LEMMA OpenScreenKeeps ==
  ASSUME WriterInv, ScreenInv, OpenScreen
  PROVE  ScreenInv'
<1>1. /\ reader = "dashboard" /\ screen = "off" /\ UNCHANGED <<writer, total_frames, reader>>
      /\ \/ Len(file) >= FileHeaderLen /\ screen' = "on" /\ stream_at' = FileHeaderLen
         \/ screen' = "closed" /\ stream_at' = stream_at BY DEF OpenScreen, dashboard, aggregator
<1>2. /\ total_frames' = total_frames /\ reader' = reader /\ job' = job /\ file' = file /\ ends' = ends
  BY <1>1 DEF writer
<1>3. /\ total_frames = 0 /\ stream_at = 0 /\ stream_at \in 0..Len(file) /\ job.program # "record"
  BY <1>1 DEF ScreenInv
<1>4. Base' = Base /\ Base = FileHeaderLen BY <1>2, <1>3 DEF Base
<1>5. Len(ends) \in Nat /\ Len(file) \in Nat BY EndsAscend
<1>6. CASE screen' = "closed" /\ stream_at' = stream_at
  <2>1. total_frames' \in Nat /\ total_frames' <= Len(ends') BY <1>2, <1>3, <1>5
  <2>2. stream_at' \in 0..Len(file') BY <1>2, <1>3, <1>6
  <2>3. screen' \in {"off", "on", "closed", "error", "adrift"} /\ screen' # "off" /\ screen' # "on"
    BY <1>6
  <2>4. reader' = "dashboard" => job'.program # "record" BY <1>2, <1>3
  <2>5. QED BY <2>1, <2>2, <2>3, <2>4, Zenon DEF ScreenInv
<1>7. CASE Len(file) >= FileHeaderLen /\ screen' = "on" /\ stream_at' = FileHeaderLen
  <2>1. PICK h \in Nat \ {0} : h = FileHeaderLen BY Lengths
  <2>2. stream_at' \in 0..Len(file') /\ file' # << >> BY <1>2, <1>5, <1>7, <2>1, EmptySeq
  <2>3. total_frames' \in Nat /\ total_frames' <= Len(ends') /\ total_frames' = 0
    BY <1>2, <1>3, <1>5
  <2>4. ReadSoFar' BY <1>2, <1>5, <2>3, <1>4, <1>7 DEF StartAt, ReadSoFar
  <2>5. screen' \in {"off", "on", "closed", "error", "adrift"} /\ screen' # "off" BY <1>7
  <2>6. reader' = "dashboard" /\ job'.program # "record" BY <1>1, <1>2, <1>3
  <2>7. QED BY <2>2, <2>3, <2>4, <2>5, <2>6, Zenon DEF ScreenInv
<1>8. QED BY <1>1, <1>6, <1>7

\* One turn of the dashboard: what its frame is.
LEMMA ScreenNext ==
  ASSUME WriterInv, ScreenInv, ScreenTurn
  PROVE  /\ ScreenInv'
         /\ \/ UNCHANGED dashboard
            \/ \E frame \in WireFrames : ShowFrame(frame)
<1>1. screen = "on" /\ UNCHANGED <<writer, reader>> BY DEF ScreenTurn
<1>2. PICK next : next = NextOnWire(file, stream_at) OBVIOUS
<1>3. /\ stream_at' = next.at
      /\ \/ next.status = "frame" /\ ShowFrame(next.frame) /\ screen' = screen
         \/ next.status = "end" /\ screen' = "closed" /\ UNCHANGED dashboard
         \/ next.status \in {"error", "adrift"} /\ screen' = next.status /\ UNCHANGED dashboard
  BY <1>2, Zenon DEF ScreenTurn
<1>4. /\ reader = "dashboard" /\ file # << >> /\ total_frames \in Nat /\ total_frames <= Len(ends)
      /\ stream_at \in 0..Len(file) /\ job.program # "record" BY <1>1, Zenon DEF ScreenInv
<1>5. \/ \E q \in 0..Len(ends) : total_frames <= q /\ stream_at = StartAt(ends, Base, q + 1)
      \/ Ended /\ stream_at + FrameHeaderLen > Len(file) BY <1>1, Zenon DEF ScreenInv, ReadSoFar
<1>6. /\ Layout(file, ends, Base) /\ ends \in Seq(Nat) /\ Base \in Nat /\ Ascend(ends, Base)
      /\ Len(ends) \in Nat /\ Len(file) \in Nat BY <1>4, EndsAscend DEF Prefix
<1>7. /\ reader' = reader /\ job' = job /\ file' = file /\ ends' = ends /\ Base' = Base
  BY <1>1 DEF writer, Base
<1>8. \/ next.status \in {"end", "error", "adrift"} /\ next.at = stream_at
      \/ \E q \in 0..Len(ends) : total_frames <= q /\ Following(file, ends, q, stream_at, next)
  <2>1. CASE Ended /\ stream_at + FrameHeaderLen > Len(file) BY <1>2, <2>1 DEF NextOnWire, Outcome
  <2>2. CASE \E q \in 0..Len(ends) : total_frames <= q /\ stream_at = StartAt(ends, Base, q + 1)
    <3>1. PICK q \in 0..Len(ends) : total_frames <= q /\ stream_at = StartAt(ends, Base, q + 1)
      BY <2>2
    <3>2. Following(file, ends, q, stream_at, next) BY <1>2, <1>6, <3>1, WireNext
    <3>3. QED BY <3>1, <3>2
  <2>3. QED BY <1>5, <2>1, <2>2
<1>9. CASE next.status \in {"end", "error", "adrift"} /\ next.at = stream_at
  <2>1. UNCHANGED dashboard /\ screen' \in {"closed", "error", "adrift"} /\ stream_at' = stream_at
    BY <1>3, <1>9
  <2>2. total_frames' = total_frames BY <2>1 DEF dashboard, aggregator
  <2>3. screen' # "on" /\ screen' # "off" /\ screen' \in {"off", "on", "closed", "error", "adrift"}
    BY <2>1
  <2>4. ScreenInv' BY <1>4, <1>7, <2>1, <2>2, <2>3, Zenon DEF ScreenInv
  <2>5. QED BY <2>1, <2>4
<1>10. ASSUME ~ (next.status \in {"end", "error", "adrift"} /\ next.at = stream_at)
       PROVE  ScreenInv' /\ \E frame \in WireFrames : ShowFrame(frame)
  <2>1. PICK q \in 0..Len(ends) : total_frames <= q /\ Following(file, ends, q, stream_at, next)
    BY <1>8, <1>10
  <2>2. /\ next.status = "frame" /\ next.frame \in WireFrames /\ q < Len(ends)
        /\ \/ \E k \in 1..Len(ends) : q < k /\ next.at = ends[k]
           \/ EndsCut(file, next.at) /\ ~ HasNext(file, stream_at)
    BY <1>10, <2>1, Zenon DEF Following
  <2>3. ShowFrame(next.frame) /\ screen' = "on" /\ stream_at' = next.at BY <1>1, <1>3, <2>2
  <2>4. PICK n \in Nat : n = Len(ends) /\ q \in 0..n - 1 BY <1>6, <2>1, <2>2
  <2>5. total_frames' = total_frames + 1 /\ total_frames' \in Nat /\ total_frames' <= q + 1 /\ total_frames' <= n
    BY <2>3, <1>4, <2>1, <2>4 DEF ShowFrame, Record
  <2>6. stream_at' \in 0..Len(file) /\ ReadSoFar'
    <3>1. CASE \E k \in 1..Len(ends) : q < k /\ next.at = ends[k]
      <4>1. PICK k \in 1..Len(ends) : q < k /\ next.at = ends[k] BY <3>1
      <4>2. k \in 0..n /\ total_frames' <= k /\ k # 0 BY <2>4, <2>5, <4>1
      <4>3. stream_at' \in 0..Len(file) BY <1>6, <2>3, <4>1, FrameFound, ElementOfSeq
      <4>4. stream_at' = StartAt(ends, Base, k + 1) BY <2>3, <4>1, <4>2 DEF StartAt
      <4>5. QED BY <1>7, <2>4, <4>2, <4>3, <4>4, Zenon DEF ReadSoFar
    <3>2. CASE EndsCut(file, next.at) /\ ~ HasNext(file, stream_at)
      <4>1. Ended /\ Ended' BY <1>1, <3>2, Zenon DEF ScreenTurn, Ended, writer
      <4>2. PICK h \in Nat, t \in Nat : h = FrameHeaderLen /\ t = TerminatorLen /\ t <= h
        BY FileAssumption
      <4>3. next.at \in 0..Len(file) /\ next.at + h > Len(file) BY <1>6, <3>2, <4>2 DEF EndsCut
      <4>4. QED BY <1>7, <2>3, <4>1, <4>2, <4>3, Zenon DEF ReadSoFar
    <3>3. QED BY <2>2, <3>1, <3>2
  <2>7. screen' \in {"off", "on", "closed", "error", "adrift"} /\ screen' # "off" BY <2>3
  <2>8. ScreenInv' BY <1>4, <1>7, <2>4, <2>5, <2>6, <2>7, Zenon DEF ScreenInv
  <2>9. QED BY <2>2, <2>3, <2>8
<1>11. QED BY <1>9, <1>10

-----------------------------------------------------------------------------
(* What the dashboard has shown *)

Entry(frame) == [events |-> frame.events, frame_id |-> frame.frame_id]

Shown == [events : Seq(BOOLEAN), frame_id : Nat, observable_flips : Seq(SUBSET Nat)]

Entries == [events : Seq(BOOLEAN), frame_id : Nat]

ShownTypes ==
  /\ shown \in Seq(Shown)
  /\ export_buf \in Seq(Entries)
  /\ per_ancilla_fires \in Seq(Nat)
  /\ heatmap_frames \in Nat

\* The buffer is as long as it may be, and each of its entries is in its place.
KeepsTail ==
  /\ Len(export_buf) = IF Len(shown) > EXPORT_WINDOW THEN EXPORT_WINDOW ELSE Len(shown)
  /\ \A k \in 1..Len(export_buf) :
       export_buf[k] = Entry(shown[Len(shown) - Len(export_buf) + k])

\* What was shown, and what is kept of it.
ShownInv == ShownTypes /\ KeepsTail /\ HeatmapIsExact

-----------------------------------------------------------------------------
(* What a frame does *)

\* A frame with a round: what it adds.
Adds(events, number, flips) ==
  /\ events \in Seq(BOOLEAN) /\ number \in Nat /\ flips \in Seq(SUBSET Nat)
  /\ per_ancilla_fires' = [i \in 1..Len(events) |->
                             Heatmap(Len(events)).fires[i] + (IF events[i] THEN 1 ELSE 0)]
  /\ heatmap_frames' = Heatmap(Len(events)).frames + 1
  /\ export_buf' = PushLast(export_buf, [events |-> events, frame_id |-> number], EXPORT_WINDOW)
  /\ shown' = Append(shown, [events |-> events, frame_id |-> number, observable_flips |-> flips])

Kept == UNCHANGED <<per_ancilla_fires, heatmap_frames, export_buf, shown>>

\* A frame of the stream adds a round, or leaves what is remembered as it is.
LEMMA FrameAdds ==
  ASSUME NEW frame \in WireFrames, ShowFrame(frame)
  PROVE  Kept \/ \E events, number, flips : Adds(events, number, flips)
<1>1. /\ frame.detector_events \in Seq(Token) /\ frame.frame_id \in Nat
      /\ frame.observable_flips \in Seq(SUBSET Nat) BY DEF WireFrames
<1>2. PICK events : events = DecodeDetectorEvents(frame.detector_events) OBVIOUS
<1>3. events \in Seq(BOOLEAN) BY <1>1, <1>2, DecodeType
<1>4. RecordAncillaEvents(events, frame.frame_id, frame.observable_flips)
  BY <1>2, Zenon DEF ShowFrame
<1>5. CASE events = << >> BY <1>4, <1>5 DEF RecordAncillaEvents, Kept
<1>6. CASE events # << >> BY <1>1, <1>3, <1>4, <1>6 DEF RecordAncillaEvents, Adds
<1>7. QED BY <1>5, <1>6

\* What was shown, with a frame more.
LEMMA ShownMore ==
  ASSUME ShownTypes, NEW events, NEW number, NEW flips, Adds(events, number, flips)
  PROVE  /\ shown' \in Seq(Shown) /\ Len(shown') = Len(shown) + 1 /\ Len(shown) \in Nat
         /\ \A k \in 1..Len(shown) : shown'[k] = shown[k]
         /\ shown'[Len(shown) + 1] = [events |-> events, frame_id |-> number, observable_flips |-> flips]
<1>1. [events |-> events, frame_id |-> number, observable_flips |-> flips] \in Shown
  BY DEF Adds, Shown
<1>2. QED BY <1>1, AppendProperties, LenProperties DEF Adds, ShownTypes

-----------------------------------------------------------------------------
(* The export *)

\* The buffer with an entry more.
LEMMA PushedLast ==
  ASSUME export_buf \in Seq(Entries), EXPORT_WINDOW \in Nat \ {0}, Len(export_buf) <= EXPORT_WINDOW,
         NEW value \in Entries, export_buf' = PushLast(export_buf, value, EXPORT_WINDOW),
         NEW drop, drop = IF Len(export_buf) = EXPORT_WINDOW THEN 1 ELSE 0
  PROVE  /\ export_buf' \in Seq(Entries) /\ Len(export_buf') = Len(export_buf) - drop + 1
         /\ \A k \in 1..Len(export_buf) - drop : export_buf'[k] = export_buf[k + drop]
         /\ export_buf'[Len(export_buf) - drop + 1] = value
<1>1. Len(export_buf) \in Nat BY LenProperties
<1>2. CASE Len(export_buf) = EXPORT_WINDOW
  <2>1. export_buf # << >> BY <1>1, <1>2, EmptySeq
  <2>2. /\ Tail(export_buf) \in Seq(Entries) /\ Len(Tail(export_buf)) = Len(export_buf) - 1
        /\ \A k \in 1..Len(export_buf) - 1 : Tail(export_buf)[k] = export_buf[k + 1]
    BY <2>1, HeadTailProperties
  <2> DEFINE rest == Tail(export_buf)
             new == Append(rest, value)
  <2>3. rest \in Seq(Entries) /\ Len(rest) = Len(export_buf) - 1 /\ \A k \in 1..Len(export_buf) - 1 : rest[k] = export_buf[k + 1]
    BY <2>2
  <2>4. export_buf' = new BY <1>1, <1>2 DEF PushLast
  <2> HIDE DEF rest
  <2>5. /\ new \in Seq(Entries) /\ Len(new) = Len(rest) + 1
        /\ \A k \in 1..Len(rest) : new[k] = rest[k]
        /\ new[Len(rest) + 1] = value BY <2>3, AppendProperties
  <2> HIDE DEF new
  <2>6. QED BY <1>1, <1>2, <2>3, <2>4, <2>5
<1>3. CASE Len(export_buf) # EXPORT_WINDOW
  <2>1. export_buf' = Append(export_buf, value) BY <1>1, <1>3 DEF PushLast
  <2>2. /\ Append(export_buf, value) \in Seq(Entries) /\ Len(Append(export_buf, value)) = Len(export_buf) + 1
        /\ \A k \in 1..Len(export_buf) : Append(export_buf, value)[k] = export_buf[k]
        /\ Append(export_buf, value)[Len(export_buf) + 1] = value BY AppendProperties
  <2>3. QED BY <1>1, <1>3, <2>1, <2>2
<1>4. QED BY <1>2, <1>3

\* A frame more keeps the buffer the tail.
LEMMA TailKept ==
  ASSUME ShownTypes, KeepsTail, NEW events, NEW number, NEW flips, Adds(events, number, flips)
  PROVE  KeepsTail' /\ export_buf' \in Seq(Entries)
<1> DEFINE value == [events |-> events, frame_id |-> number]
           n == Len(export_buf)
           m == Len(shown)
           drop == IF n = EXPORT_WINDOW THEN 1 ELSE 0
<1>1. /\ EXPORT_WINDOW \in Nat \ {0} /\ m \in Nat /\ n \in Nat
      /\ n = IF m > EXPORT_WINDOW THEN EXPORT_WINDOW ELSE m
  BY DashboardAssumption, LenProperties DEF ShownTypes, KeepsTail
<1>2. value \in Entries BY DEF Adds, Entries
<1>3. export_buf' = PushLast(export_buf, value, EXPORT_WINDOW) BY DEF Adds
<1>4. /\ export_buf' \in Seq(Entries) /\ Len(export_buf') = n - drop + 1
      /\ \A k \in 1..n - drop : export_buf'[k] = export_buf[k + drop]
      /\ export_buf'[n - drop + 1] = value
  <2>1. n <= EXPORT_WINDOW BY <1>1
  <2> HIDE DEF value
  <2>2. QED
    <3>1. export_buf \in Seq(Entries) /\ EXPORT_WINDOW \in Nat \ {0} /\ Len(export_buf) <= EXPORT_WINDOW
      BY <1>1, <2>1 DEF ShownTypes
    <3>2. drop = IF Len(export_buf) = EXPORT_WINDOW THEN 1 ELSE 0 OBVIOUS
    <3> HIDE DEF drop, n, m
    <3>3. /\ export_buf' \in Seq(Entries) /\ Len(export_buf') = Len(export_buf) - drop + 1
          /\ \A k \in 1..Len(export_buf) - drop : export_buf'[k] = export_buf[k + drop]
          /\ export_buf'[Len(export_buf) - drop + 1] = value BY <1>2, <1>3, <3>1, <3>2, PushedLast
    <3>4. QED BY <3>3 DEF n
<1>5. /\ Len(shown') = m + 1
      /\ \A k \in 1..m : shown'[k] = shown[k]
      /\ shown'[m + 1] = [events |-> events, frame_id |-> number, observable_flips |-> flips]
  BY ShownMore
<1>6. Entry(shown'[m + 1]) = value BY <1>5 DEF Entry
<1>7. \A k \in 1..n : export_buf[k] = Entry(shown[m - n + k]) BY DEF KeepsTail
<1> HIDE DEF n, m, value
<1>8. drop \in {0, 1} /\ (drop = 1 <=> n = EXPORT_WINDOW) OBVIOUS
<1> HIDE DEF drop
<1>9. Len(export_buf') = IF Len(shown') > EXPORT_WINDOW THEN EXPORT_WINDOW ELSE Len(shown')
  BY <1>1, <1>4, <1>5, <1>8
<1>10. ASSUME NEW k \in 1..Len(export_buf')
       PROVE  export_buf'[k] = Entry(shown'[Len(shown') - Len(export_buf') + k])
  <2>1. Len(shown') - Len(export_buf') + k = m - n + drop + k /\ k \in 1..n - drop + 1
    BY <1>1, <1>4, <1>5, <1>8
  <2>2. CASE k = n - drop + 1
    <3>1. m - n + drop + k = m + 1 BY <1>1, <1>8, <2>2
    <3>2. export_buf'[k] = value BY <1>4, <2>2
    <3>3. QED BY <1>6, <2>1, <3>1, <3>2, Zenon
  <2>3. CASE k # n - drop + 1
    <3>1. k \in 1..n - drop /\ k + drop \in 1..n BY <1>1, <1>8, <2>1, <2>3
    <3>2. export_buf'[k] = Entry(shown[m - n + (k + drop)]) BY <1>4, <1>7, <3>1
    <3>3. m - n + (k + drop) = m - n + drop + k /\ m - n + drop + k \in 1..m BY <1>1, <1>8, <3>1
    <3>4. QED BY <1>5, <2>1, <3>2, <3>3
  <2>4. QED BY <2>2, <2>3
<1>11. QED BY <1>4, <1>9, <1>10 DEF KeepsTail

\* The buffer is then the tail, as the property says it.
LEMMA TailIsTheTail ==
  ASSUME ShownTypes, KeepsTail
  PROVE  ExportIsTheTail
<1> DEFINE m == Len(shown)
           n == Len(export_buf)
           first == IF m > EXPORT_WINDOW THEN m - EXPORT_WINDOW + 1 ELSE 1
           last == SubSeq(shown, first, m)
<1>1. /\ EXPORT_WINDOW \in Nat \ {0} /\ m \in Nat /\ n \in Nat /\ DOMAIN export_buf = 1..n
      /\ n = IF m > EXPORT_WINDOW THEN EXPORT_WINDOW ELSE m
      /\ \A k \in 1..m : shown[k] \in Shown
  <2>1. EXPORT_WINDOW \in Nat \ {0} BY DashboardAssumption
  <2>2. m \in Nat /\ n \in Nat /\ DOMAIN export_buf = 1..n BY LenProperties DEF ShownTypes
  <2>3. n = IF m > EXPORT_WINDOW THEN EXPORT_WINDOW ELSE m BY DEF KeepsTail
  <2>4. \A k \in 1..m : shown[k] \in Shown BY ElementOfSeq DEF ShownTypes
  <2>5. QED BY <2>1, <2>2, <2>3, <2>4
<1>2. \A k \in 1..n : export_buf[k] = Entry(shown[m - n + k]) BY DEF KeepsTail
<1>3. last = LastOf(shown, EXPORT_WINDOW) BY DEF LastOf
<1> HIDE DEF m, n
<1>4. first \in Int /\ first \in 1..m + 1 /\ m - first + 1 = n
  <2>1. CASE m > EXPORT_WINDOW BY <1>1, <2>1
  <2>2. CASE ~ m > EXPORT_WINDOW BY <1>1, <2>2
  <2>3. QED BY <2>1, <2>2
<1> HIDE DEF first
<1>5. /\ last \in Seq(Shown) /\ Len(last) = IF first <= m THEN m - first + 1 ELSE 0
      /\ \A k \in 1..m - first + 1 : last[k] = shown[first + k - 1]
  <2>1. ASSUME NEW k \in first..m PROVE shown[k] \in Shown BY <1>1, <1>4
  <2>2. QED BY <1>1, <1>4, <2>1, SubSeqProperties
<1> HIDE DEF last
<1>6. DOMAIN last = 1..n BY <1>1, <1>4, <1>5, LenProperties
<1>7. \A k \in 1..n : last[k] = shown[m - n + k]
  <2> TAKE k \in 1..n
  <2>1. k \in 1..m - first + 1 /\ first + k - 1 = m - n + k BY <1>1, <1>4
  <2>2. QED BY <1>5, <2>1
<1>8. \A k \in 1..n : export_buf[k] = [events |-> last[k].events, frame_id |-> last[k].frame_id]
  BY <1>2, <1>7 DEF Entry
<1>9. export_buf = [k \in 1..n |-> export_buf[k]] BY <1>1 DEF ShownTypes
<1>10. export_buf = [k \in DOMAIN last |-> [events |-> last[k].events, frame_id |-> last[k].frame_id]]
  BY <1>6, <1>8, <1>9
<1>11. QED BY <1>3, <1>10 DEF ExportIsTheTail
-----------------------------------------------------------------------------
(* The heatmap *)

\* The frames from one on that have an event at i.
Having(from, i) == {k \in from..Len(shown) : shown[k].events[i]}

\* A frame more keeps the counts.
LEMMA HeatmapKept ==
  ASSUME ShownTypes, HeatmapIsExact, NEW events, NEW number, NEW flips, Adds(events, number, flips)
  PROVE  HeatmapIsExact' /\ per_ancilla_fires' \in Seq(Nat) /\ heatmap_frames' \in Nat
<1> DEFINE m == Len(shown)
           n == Len(events)
           old == Heatmap(n)
           from == m + 1 - old.frames
<1>1. /\ Len(shown') = m + 1 /\ m \in Nat
      /\ \A k \in 1..m : shown'[k] = shown[k]
      /\ shown'[m + 1].events = events
  <2>1. /\ Len(shown') = m + 1 /\ m \in Nat
        /\ \A k \in 1..m : shown'[k] = shown[k]
        /\ shown'[m + 1] = [events |-> events, frame_id |-> number, observable_flips |-> flips]
    BY ShownMore
  <2>2. QED BY <2>1
<1>2. n \in Nat /\ DOMAIN events = 1..n /\ \A i \in 1..n : events[i] \in BOOLEAN
  BY LenProperties, ElementOfSeq DEF Adds
<1>3. /\ per_ancilla_fires \in Seq(Nat) /\ heatmap_frames \in Nat /\ heatmap_frames <= m
      /\ DOMAIN per_ancilla_fires = 1..Len(per_ancilla_fires)
  BY LenProperties DEF ShownTypes, HeatmapIsExact
<1>4. /\ old.frames \in Nat /\ old.frames <= m
      /\ \A k \in from..m : Len(shown[k].events) = n
      /\ \A i \in 1..n : old.fires[i] = Cardinality(Having(from, i))
  <2>1. CASE Len(per_ancilla_fires) # n
    <3>1. old.frames = 0 /\ \A i \in 1..n : old.fires[i] = 0 BY <2>1 DEF Heatmap
    <3>2. from = m + 1 BY <1>1, <3>1
    <3>3. \A i \in 1..n : Having(from, i) = {} BY <1>1, <3>2 DEF Having
    <3>4. \A k \in from..m : Len(shown[k].events) = n BY <1>1, <3>2
    <3>5. Cardinality({}) = 0 BY FS_EmptySet
    <3>6. \A i \in 1..n : old.fires[i] = Cardinality(Having(from, i)) BY <3>1, <3>3, <3>5, Zenon
    <3>7. old.frames \in Nat /\ old.frames <= m BY <1>1, <3>1
    <3>8. QED BY <3>4, <3>6, <3>7, Zenon
  <2>2. CASE Len(per_ancilla_fires) = n
    <3>1. old.frames = heatmap_frames /\ old.fires = per_ancilla_fires BY <2>2 DEF Heatmap
    <3>2. Mapped = from..m BY <1>1, <1>3, <3>1 DEF Mapped
    <3>3. \A k \in from..m : Len(shown[k].events) = n BY <2>2, <3>2 DEF HeatmapIsExact
    <3>4. \A i \in 1..n : Having(from, i) = {k \in Mapped : shown[k].events[i]} BY <3>2 DEF Having
    <3>5. \A i \in 1..n : old.fires[i] = Cardinality(Having(from, i))
      BY <1>3, <2>2, <3>1, <3>4 DEF HeatmapIsExact
    <3>6. QED BY <1>3, <3>1, <3>3, <3>5
  <2>3. QED BY <2>1, <2>2
<1> HIDE DEF old
<1>5. from \in 1..m + 1 BY <1>1, <1>4
<1>6. \A i \in 1..n : IsFiniteSet(Having(from, i)) /\ Cardinality(Having(from, i)) \in Nat
  <2> TAKE i \in 1..n
  <2>1. IsFiniteSet(from..m) /\ Having(from, i) \in SUBSET (from..m)
    <3>1. from \in Int /\ m \in Int BY <1>1, <1>5
    <3>2. Having(from, i) \subseteq from..m BY DEF Having
    <3> HIDE DEF from, m
    <3>3. IsFiniteSet(from..m) BY <3>1, FS_Interval
    <3>4. QED BY <3>2, <3>3
  <2>2. QED BY <2>1, FS_Subset, FS_CardinalityType
<1>7. /\ heatmap_frames' = old.frames + 1
      /\ per_ancilla_fires' = [i \in 1..n |-> old.fires[i] + (IF events[i] THEN 1 ELSE 0)]
  BY DEF Adds, old
<1>8. per_ancilla_fires' \in Seq(Nat) /\ Len(per_ancilla_fires') = n /\ DOMAIN per_ancilla_fires' = 1..n
  BY <1>4, <1>6, <1>7, <1>2, SeqDef, LenProperties
<1>9. Mapped' = from..m + 1 BY <1>1, <1>4, <1>7 DEF Mapped
<1> HIDE DEF m, n, from
<1>10. ASSUME NEW k \in Mapped' PROVE Len(shown'[k].events) = Len(per_ancilla_fires')
  <2>1. CASE k = m + 1 BY <1>1, <1>8, <2>1 DEF n
  <2>2. CASE k # m + 1 BY <1>1, <1>5, <1>9, <2>2, <1>4, <1>8
  <2>3. QED BY <2>1, <2>2
<1>11. ASSUME NEW i \in 1..n
       PROVE  per_ancilla_fires'[i] = Cardinality({k \in Mapped' : shown'[k].events[i]})
  <2> DEFINE now == {k \in Mapped' : shown'[k].events[i]}
             then == Having(from, i)
  <2>1. then = {k \in from..m : shown[k].events[i]} BY DEF Having, m
  <2>2. \A k \in Mapped' : k = m + 1 \/ (k \in from..m /\ k \in 1..m) BY <1>1, <1>5, <1>9
  <2>3. m + 1 \in Mapped' /\ \A k \in from..m : k \in Mapped' /\ k \in 1..m /\ k # m + 1
    BY <1>1, <1>5, <1>9
  <2>4. m + 1 \notin then BY <2>1, <2>3
  <2>5. CASE events[i]
    <3>1. now = then \cup {m + 1} BY <1>1, <2>1, <2>2, <2>3, <2>5
    <3> HIDE DEF now, then
    <3>2. Cardinality(then \cup {m + 1}) = Cardinality(then) + 1
      BY <1>6, <2>4, FS_AddElement DEF then
    <3>3. per_ancilla_fires'[i] = old.fires[i] + 1 BY <1>7, <2>5
    <3>4. old.fires[i] = Cardinality(then) BY <1>4 DEF then
    <3>5. QED BY <3>1, <3>2, <3>3, <3>4 DEF now
  <2>6. CASE ~ events[i]
    <3>1. now = then BY <1>1, <2>1, <2>2, <2>3, <2>6
    <3> HIDE DEF now, then
    <3>2. per_ancilla_fires'[i] = old.fires[i] + 0 BY <1>7, <2>6
    <3>3. old.fires[i] = Cardinality(then) /\ Cardinality(then) \in Nat BY <1>4, <1>6 DEF then
    <3>4. per_ancilla_fires'[i] = Cardinality(then) BY <3>2, <3>3
    <3>5. QED BY <3>1, <3>4 DEF now
  <2>7. QED BY <2>5, <2>6
<1>12. heatmap_frames' <= Len(shown') /\ heatmap_frames' \in Nat BY <1>1, <1>4, <1>7
<1>13. QED BY <1>8, <1>10, <1>11, <1>12 DEF HeatmapIsExact


\* What was shown stays.
LEMMA ShownRests ==
  ASSUME ShownInv, Kept
  PROVE  ShownInv'
BY DEF Kept, ShownInv, ShownTypes, KeepsTail, HeatmapIsExact, Mapped

\* A frame more keeps all of it.
LEMMA ShownKeeps ==
  ASSUME ShownInv, NEW frame \in WireFrames, ShowFrame(frame)
  PROVE  ShownInv'
<1>1. CASE Kept BY <1>1, ShownRests
<1>2. ASSUME NEW events, NEW number, NEW flips, Adds(events, number, flips) PROVE ShownInv'
  <2>1. shown' \in Seq(Shown) BY <1>2, ShownMore DEF ShownInv
  <2>2. KeepsTail' /\ export_buf' \in Seq(Entries) BY <1>2, TailKept DEF ShownInv
  <2>3. HeatmapIsExact' /\ per_ancilla_fires' \in Seq(Nat) /\ heatmap_frames' \in Nat
    BY <1>2, HeatmapKept DEF ShownInv
  <2>4. ShownTypes' BY <2>1, <2>2, <2>3 DEF ShownTypes
  <2>5. QED BY <2>2, <2>3, <2>4 DEF ShownInv
<1>3. QED BY <1>1, <1>2, FrameAdds

-----------------------------------------------------------------------------
(* What the dashboard reads *)

\* A round without its last m events, and a frame that brings a round.
Shorter(d, m) == [d EXCEPT !.events = SubSeq(@, 1, Len(@) - m)]

Brings(frame, d) ==
  /\ frame.detector_events = EncodeDetectorEvents(d.events)
  /\ frame.frame_id = d.frame_id /\ frame.observable_flips = d.observable_flips

\* A reader has passed p, and finds nothing more where it is.
RunsOut(bytes, p, next) ==
  next.at \in Nat /\ p < next.at /\ next.at + FrameHeaderLen > Len(bytes) /\ ~ HasNext(bytes, p)

\* What a short frame that brings round d may be to a reader.
ShortOf(bytes, p, d, next) ==
  \/ next.status = "error" /\ next.at = p
  \/ /\ next.status = "frame" /\ RunsOut(bytes, p, next)
     /\ \E m \in 0..TerminatorLen : m <= Len(d.events) /\ Brings(next.frame, Shorter(d, m))

\* The rest of a round is a round.
LEMMA ShorterIs ==
  ASSUME NEW d \in Rounds, NEW m \in Nat, m <= Len(d.events)
  PROVE  /\ Shorter(d, m) \in Rounds /\ Shorter(d, m).frame_id = d.frame_id
         /\ Shorter(d, m).observable_flips = d.observable_flips
         /\ Shorter(d, m).events = SubSeq(d.events, 1, Len(d.events) - m)
         /\ m = 0 => Shorter(d, m) = d
<1>1. PICK events \in Seq(BOOLEAN), l \in Nat : events = d.events /\ l = Len(events)
  BY LenProperties DEF Rounds
<1>2. PICK n \in 0..l : n = l - m
  <2>1. m <= l BY <1>1
  <2>2. l - m \in 0..l BY <2>1
  <2>3. QED BY <2>2
<1>3. PICK some : some = SubSeq(events, 1, n) OBVIOUS
<1>4. some \in Seq(BOOLEAN) /\ (m = 0 => some = events)
  <2>1. some \in Seq(BOOLEAN) /\ Len(some) = n /\ \A k \in 1..n : some[k] = events[k]
    BY <1>1, <1>2, <1>3, ElementOfSeq
  <2>2. ASSUME m = 0 PROVE some = events BY <1>1, <1>2, <2>2, <2>1, SeqEqual
  <2>3. QED BY <2>1, <2>2
<1>5. Shorter(d, m) = [d EXCEPT !.events = some] BY <1>1, <1>2, <1>3 DEF Shorter
<1>6. d = [d EXCEPT !.events = events] BY <1>1 DEF Rounds
<1>7. QED BY <1>1, <1>2, <1>3, <1>4, <1>5, <1>6 DEF Rounds

\* Behind the events, a plain frame has no more than its header says.
LEMMA PlainBlocks ==
  ASSUME NEW f \in FrameData, Plain(f), NEW events, NEW truth, Annotated(f, events, truth),
         NEW w \in Nat, w = f.hdr.ancilla_count, Len(events) <= w
  PROVE  Len(f.blocks) <= TimingLen(f.hdr) + ParityLen(f.hdr)
<1>1. PICK shot \in Shots, meta \in Metadata, annotated \in Seq(Nat) :
        shot.events = events /\ f.hdr.flags = Flags(shot, meta, annotated) /\ f.blocks = Blocks(shot, meta, annotated)
  BY Zenon DEF Annotated
<1>2. PICK n \in Nat : n = Len(events) /\ n <= w BY <1>1, LenProperties DEF Shots
<1>3. meta = NoMetadata /\ annotated = << >> BY <1>1, FlagsAre, Zenon DEF Plain
<1>4. BlocksLen(shot, meta, annotated, n) <= BlocksLen(shot, meta, annotated, w)
  BY <1>2, LongerBlocks
<1>5. Len(f.blocks) = BlocksLen(shot, meta, annotated, n) BY <1>1, <1>2, BlocksAre
<1>6. /\ "timing" \in f.hdr.flags <=> shot.timing
      /\ "parity" \in f.hdr.flags <=> shot.parity BY <1>1, FlagsAre
<1>7. TimingLen(f.hdr) = IF shot.timing THEN w * 2 ELSE 0 BY <1>6, Zenon DEF TimingLen
<1>8. ParityLen(f.hdr) = IF shot.parity THEN (w + 7) \div 8 ELSE 0 BY <1>6, Zenon DEF ParityLen
<1>9. PICK tl \in Nat, pl \in Nat : tl = TimingLen(f.hdr) /\ pl = ParityLen(f.hdr)
  <2>1. w * 2 \in Nat /\ (w + 7) \div 8 \in Nat OBVIOUS
  <2>2. QED BY <1>7, <1>8, <2>1, Zenon
<1>10. BlocksLen(shot, meta, annotated, w) = tl + pl + 0 + 0
  BY <1>3, <1>7, <1>8, <1>9, Zenon DEF BlocksLen
<1>11. QED BY <1>4, <1>5, <1>9, <1>10

\* A short frame at the end of a file is an error, or the file ends before or inside the terminator
\* that is looked for: then no more events are missing than it has bytes, and what there is of the
\* frame is returned.
LEMMA ShortComes ==
  ASSUME NEW bytes \in Seq(Cell), NEW p \in Nat, NEW f \in FrameData, Readable(bytes, p, f),
         p + LengthOf(f) = Len(bytes), NEW k, Short(k, f), NEW next, next = NextOnWire(bytes, p),
         NEW d \in Rounds, d = Described[k], d.frame_id = k - 1
  PROVE  ShortOf(bytes, p, d, next)
<1>1. PICK h \in Nat, e \in Nat, t \in Nat, n \in Nat, len \in Nat, s \in Nat, b \in Nat :
        /\ h = FrameHeaderLen /\ e = PrefixLen /\ t = TerminatorLen /\ n = Len(f.de) /\ len = LengthOf(f)
        /\ s = Len(f.meas) /\ b = Len(f.blocks) BY Lengths, FrameTypes
<1>2. 1 <= h /\ t <= h BY <1>1, FileAssumption
<1>3. len = h + e + n + s + b + t BY <1>1, Zenon DEF LengthOf, TerminatorOf, BlocksOf, MeasOf, RleAt
<1>4. /\ "metadata" \notin f.hdr.flags /\ "annotations" \notin f.hdr.flags
      /\ f.hdr.payload_len = PrefixLen + Len(f.de) + f.hdr.ancilla_count + TimingLen(f.hdr) + ParityLen(f.hdr)
      /\ FrameHeaderLen + f.hdr.payload_len + TerminatorLen > LengthOf(f) /\ Len(f.de) < CountModulus
  BY Zenon DEF Short, Plain, TooLong
<1>5. PICK w \in Nat, tl \in Nat, pl \in Nat, size \in Nat :
        w = f.hdr.ancilla_count /\ tl = TimingLen(f.hdr) /\ pl = ParityLen(f.hdr) /\ size = f.hdr.payload_len
  <2>1. f.hdr.payload_len \in Nat /\ f.hdr.ancilla_count \in Nat BY FrameTypes DEF Header
  <2>2. TimingLen(f.hdr) \in Nat /\ ParityLen(f.hdr) \in Nat BY <2>1 DEF TimingLen, ParityLen
  <2>3. QED BY <2>1, <2>2
<1>6. size = e + n + w + tl + pl /\ h + size + t > len BY <1>1, <1>4, <1>5
<1>7. /\ d.events \in Seq(BOOLEAN) /\ w = Len(d.events) /\ s <= w /\ Begins(d.events, f.meas, s)
      /\ f.hdr.frame_id = d.frame_id /\ d.observable_flips = << >> /\ f.de = EncodeDetectorEvents(f.meas)
  BY <1>1, <1>5, Zenon DEF Short, Rounds
<1>8. b <= tl + pl BY <1>1, <1>7, <1>5, PlainBlocks DEF Short
<1>9. /\ ValueAt(bytes, p) = f.hdr /\ Holds(bytes, p, "header", FrameHeaderLen)
      /\ Holds(bytes, DeLenAt(p), "de_len", PrefixLen) BY Zenon DEF Readable
<1>10. ValueAt(bytes, DeLenAt(p)) = n /\ Tokens(bytes, p) = f.de BY <1>1, <1>4, TokensAre
<1>11. MetadataAt(bytes, p) = p + h + size
  <2>1. MeasAt(bytes, p) = p + h + e + n BY <1>1, <1>10 DEF MeasAt, DeLenAt
  <2>2. MetadataAt(bytes, p) = MeasAt(bytes, p) + w + tl + pl BY <1>5, <1>9, Zenon DEF MetadataAt
  <2>3. p + h + e + n + w + tl + pl = p + h + (e + n + w + tl + pl) BY <1>5, SMTT(30)
  <2>4. QED BY <1>5, <1>6, <2>1, <2>2, <2>3
<1>12. PICK term \in Nat : term = p + h + size OBVIOUS
<1>13. term = TerminatorFound(bytes, p, MetaFound(bytes, p).at) /\ MetaFound(bytes, p).meta = NoMetadata
  BY <1>4, <1>9, <1>11, <1>12 DEF MetaFound, TerminatorFound
<1>14. BlocksThere(bytes, p) /\ Asked(bytes, p) BY <1>4, <1>9, Zenon DEF BlocksThere, Asked
<1>15. term + t > Len(bytes) /\ Len(bytes) \in Nat /\ Len(bytes) = p + len BY <1>1, <1>6, <1>12
<1>16. next = IF term > Len(bytes) THEN Outcome("error", NoFrame, p)
              ELSE Outcome("frame", Parsed(bytes, p, MetaFound(bytes, p).meta), term)
  BY <1>1, <1>13, <1>14, <1>15, WireIs
<1>17. CASE term > Len(bytes) BY <1>16, <1>17 DEF Outcome, ShortOf
<1>18. CASE ~ term > Len(bytes)
  <2>1. next.status = "frame" /\ next.frame = Parsed(bytes, p, NoMetadata) /\ next.at = term
    BY <1>13, <1>16, <1>18 DEF Outcome
  <2>2. ~ HasNext(bytes, p)
    BY <1>14, <1>1, <1>15, <1>13 DEF Astray, Asked, BlocksThere, Elsewhere, HasNext
  <2>3. RunsOut(bytes, p, next)
    <3>1. p < term /\ term + h > Len(bytes) BY <1>2, <1>12, <1>15
    <3>2. QED BY <1>1, <1>12, <2>1, <2>2, <3>1 DEF RunsOut
  <2>4. PICK m \in Nat : m = w - s /\ m <= t /\ m <= w /\ w - m = s
    <3>1. p + h + size <= p + len BY <1>12, <1>15, <1>18
    <3>2. w <= s + t BY <1>3, <1>6, <1>8, <3>1
    <3>3. s <= w BY <1>7
    <3>4. w - s \in Nat /\ w - s <= t /\ w - s <= w /\ w - (w - s) = s BY <3>2, <3>3
    <3>5. QED BY <3>4
  <2>5. m \in 0..t /\ m \in 0..TerminatorLen /\ m <= Len(d.events) /\ Len(d.events) - m = s
    <3>1. m \in 0..t BY <2>4
    <3>2. QED BY <1>1, <1>7, <2>4, <3>1, Zenon
  <2>6. Shorter(d, m).events = f.meas
    <3>1. PICK some : some = SubSeq(d.events, 1, s) OBVIOUS
    <3>2. some \in Seq(BOOLEAN) /\ Len(some) = s /\ \A i \in 1..s : some[i] = d.events[i]
      BY <1>7, <3>1, ElementOfSeq
    <3>3. \A i \in 1..s : d.events[i] = f.meas[i] BY <1>7, Zenon DEF Begins
    <3>4. PICK meas \in Seq(BOOLEAN) : meas = f.meas /\ Len(meas) = s BY <1>1, FrameTypes
    <3>5. \A i \in 1..Len(some) : some[i] = meas[i] BY <3>2, <3>3, <3>4
    <3>6. some = meas BY <3>2, <3>4, <3>5, SeqEqual
    <3>7. QED
      <4>1. Shorter(d, m).events = SubSeq(d.events, 1, Len(d.events) - m) BY <2>5, ShorterIs
      <4>2. QED BY <2>5, <3>1, <3>4, <3>6, <4>1, Zenon
  <2>7. next.frame.detector_events = f.de /\ next.frame.frame_id = f.hdr.frame_id
        /\ next.frame.observable_flips = << >> BY <1>9, <1>10, <2>1 DEF Parsed, NoMetadata
  <2>8. Brings(next.frame, Shorter(d, m)) BY <1>7, <2>5, <2>6, <2>7, ShorterIs DEF Brings
  <2>9. QED BY <2>1, <2>3, <2>5, <2>8, Zenon DEF ShortOf
<1>19. QED BY <1>17, <1>18

\* The next of a stream is the next frame that is described; or, because stim died, an error, or the
\* last frame without its last events, behind which no other is found.
Coming(k, p, next) ==
  \/ stim = "failed" /\ next.status = "error" /\ next.at = p
  \/ /\ next.status = "frame" /\ k <= Len(Described)
     /\ \E m \in Nat :
          /\ m <= Len(Described[k].events) /\ Brings(next.frame, Shorter(Described[k], m))
          /\ \/ m = 0 /\ next.at = ends[k]
             \/ stim = "failed" /\ k = Len(ends) /\ m \in 0..TerminatorLen /\ RunsOut(file, p, next)

\* It is, where a frame begins.
LEMMA SaidComes ==
  ASSUME WriterInv, Layout(file, ends, Base), NEW k \in 1..Len(ends), FrameSays(k),
         NEW p, p = StartAt(ends, Base, k), NEW next, next = NextOnWire(file, p)
  PROVE  Coming(k, p, next)
<1>1. PICK f : /\ IsFrame(file, ends, Base, k, f)
               /\ Right(k, f) \/ (stim = "failed" /\ todo = << >> /\ k = Len(ends) /\ Short(k, f))
  BY Zenon DEF FrameSays
<1>2. f \in FrameData /\ Readable(file, p, f) /\ FrameAt(file, p, f) BY <1>1, SaidEndIs
<1>3. file \in Seq(Cell) /\ ends \in Seq(Nat) /\ Base \in Nat /\ Ascend(ends, Base) /\ Len(ends) \in Nat
  BY EndsAscend
<1>4. p \in Nat BY <1>3, Starts
<1>5. ends[k] = p + LengthOf(f) /\ p + LengthOf(f) <= Len(file)
  BY <1>1, <1>2, Zenon DEF IsFrame, FrameAt
<1>6. k <= Len(Described) BY <1>1, Zenon DEF Right, Short
<1>7. PICK d \in Rounds : d = Described[k] /\ d.frame_id = k - 1
  <2>1. job \in Jobs /\ Len(Described) \in Nat BY DescribedIs DEF WriterInv, WriterTypes
  <2>2. k \in 1..Len(Described) BY <1>3, <1>6, <2>1
  <2>3. Described[k] \in Rounds /\ Described[k] = Round(k) BY <2>1, <2>2, DescribedIs
  <2>4. QED BY <2>3 DEF Round
<1>8. PICK l \in Nat : l = Len(d.events) BY LenProperties DEF Rounds
<1>9. CASE Right(k, f)
  <2>1. f.crc = "header" /\ Says(f, k - 1, d.events, d.observable_flips)
    BY <1>7, <1>9, Zenon DEF Right
  <2>2. PICK id, events, truth : id = k - 1 /\ events = d.events /\ truth = d.observable_flips
    OBVIOUS
  <2>3. Says(f, id, events, truth) BY <2>1, <2>2, Zenon
  <2>4. next = Outcome("frame", WireFrame(id, events, truth), p + LengthOf(f))
    BY <1>2, <1>3, <1>4, <1>5, <2>1, <2>3, FrameReturns
  <2>5. next.status = "frame" /\ next.at = ends[k] /\ next.frame = WireFrame(id, events, truth)
    BY <1>5, <2>4 DEF Outcome
  <2>6. Brings(next.frame, d) BY <1>7, <2>2, <2>5 DEF Brings, WireFrame
  <2>7. Shorter(d, 0) = d /\ 0 <= l BY <1>8, ShorterIs
  <2>8. QED BY <1>6, <1>7, <1>8, <2>5, <2>6, <2>7, Zenon DEF Coming
<1>10. CASE stim = "failed" /\ k = Len(ends) /\ Short(k, f)
  <2>1. Len(file) = StartAt(ends, Base, Len(ends) + 1) BY Zenon DEF Layout
  <2>2. StartAt(ends, Base, Len(ends) + 1) = ends[k] BY <1>3, <1>10 DEF StartAt
  <2>3. p + LengthOf(f) = Len(file) BY <1>5, <2>1, <2>2
  <2>4. ShortOf(file, p, d, next) BY <1>2, <1>3, <1>4, <1>7, <1>10, <2>3, ShortComes
  <2>5. 0..TerminatorLen \subseteq Nat BY Lengths
  <2>6. QED BY <1>6, <1>7, <1>10, <2>4, <2>5, Zenon DEF Coming, ShortOf
<1>11. QED BY <1>1, <1>9, <1>10

-----------------------------------------------------------------------------
(* What the dashboard shows of a run *)

\* Of some rounds, those that have events, as they are shown.
KeptRounds(rounds) == NotBlank(rounds, [k \in DOMAIN rounds |-> rounds[k].events])

Showing(d) == [events |-> d.events, frame_id |-> d.frame_id, observable_flips |-> d.observable_flips]

AllShown(rounds) ==
  Len(shown) = Len(KeptRounds(rounds)) /\ \A k \in 1..Len(shown) : shown[k] = Showing(KeptRounds(rounds)[k])

\* What is counted of them.
OfSize(rounds, b) == {k \in DOMAIN rounds : ClusterBucket(Cardinality(Fired(rounds[k].events))) = b}

WithTruth == {k \in 1..Len(shown) : shown[k].observable_flips # << >>}

WithError == {k \in 1..Len(shown) : shown[k].observable_flips # << >> /\ shown[k].observable_flips # <<{}>>}

Counted(rounds) ==
  /\ \A b \in 1..4 : cluster_sizes[b] = Cardinality(OfSize(rounds, b))
  /\ obs_total = Cardinality(WithTruth) /\ obs_errors = Cardinality(WithError)

\* One more is counted.
LEMMA OneMoreCounts ==
  ASSUME NEW n \in Nat, NEW A, A \subseteq 1..n
  PROVE  Cardinality(A) \in Nat /\ Cardinality(A \cup {n + 1}) = Cardinality(A) + 1
<1>1. IsFiniteSet(A) /\ Cardinality(A) \in Nat
  <2>1. IsFiniteSet(1..n) BY FS_Interval
  <2>2. QED BY <2>1, FS_Subset, FS_CardinalityType
<1>2. n + 1 \notin A OBVIOUS
<1>3. QED BY <1>1, <1>2, FS_AddElement

\* One more round is kept, or not.
LEMMA KeptMore ==
  ASSUME NEW rounds \in Seq(Rounds), NEW more \in Seq(Rounds), NEW n \in Nat,
         Len(rounds) = n, Len(more) = n + 1, Begins(more, rounds, n)
  PROVE  /\ KeptRounds(rounds) \in Seq(Rounds) /\ more[n + 1] \in Rounds
         /\ KeptRounds(more) = IF more[n + 1].events # << >> THEN Append(KeptRounds(rounds), more[n + 1])
                               ELSE KeptRounds(rounds)
<1>1. PICK part, texts : part = [k \in DOMAIN rounds |-> rounds[k].events] /\ texts = [k \in DOMAIN more |-> more[k].events]
  OBVIOUS
<1>2. DOMAIN rounds = 1..n /\ DOMAIN more = 1..n + 1 BY LenProperties
<1>3. Begins(texts, part, n) BY <1>1, <1>2 DEF Begins
<1>4. PICK g : g = KeptOf(more, texts) OBVIOUS
<1>5. n \in 0..Len(more) /\ n + 1 \in 1..Len(more) /\ (n + 1) - 1 = n OBVIOUS
<1>6. /\ NotBlank(more, texts) = g[n + 1] /\ KeepsOne(more, texts, g, n + 1)
      /\ g[n] \in Seq(Rounds) BY <1>4, <1>5, KeptIs
<1>7. NotBlank(rounds, part) = g[n] BY <1>3, <1>4, <1>5, KeptPrefix
<1>8. texts[n + 1] = more[n + 1].events /\ more[n + 1] \in Rounds BY <1>1, <1>2, <1>5, ElementOfSeq
<1>9. g[n + 1] = IF more[n + 1].events # << >> THEN Append(g[n], more[n + 1]) ELSE g[n]
  BY <1>5, <1>6, <1>8, Zenon DEF KeepsOne
<1>10. QED BY <1>1, <1>6, <1>7, <1>8, <1>9, Zenon DEF KeptRounds

\* The frame of the next round is shown, and counted.
LEMMA RoundShown ==
  ASSUME shown \in Seq(Shown), total_frames \in Nat, NEW rounds \in Seq(Rounds), NEW more \in Seq(Rounds),
         Len(rounds) = total_frames, Len(more) = total_frames + 1, Begins(more, rounds, total_frames),
         AllShown(rounds), Counted(rounds), NEW d, d = more[total_frames + 1], d.frame_id = total_frames,
         NEW frame, Brings(frame, d), ShowFrame(frame)
  PROVE  total_frames' = total_frames + 1 /\ AllShown(more)' /\ Counted(more)'
<1>1. PICK n \in Nat : n = total_frames OBVIOUS
<1>2. d \in Rounds /\ d.frame_id = n /\ DOMAIN rounds = 1..n /\ DOMAIN more = 1..n + 1
  BY <1>1, KeptMore, LenProperties
<1>3. PICK events \in Seq(BOOLEAN), flips \in Optional(SUBSET Nat) : events = d.events /\ flips = d.observable_flips
  BY <1>2 DEF Rounds
<1>4. PICK fired : fired = Cardinality(Fired(events)) OBVIOUS
<1>5. /\ total_frames' = n + 1
      /\ cluster_sizes' = [b \in 1..4 |-> cluster_sizes[b] + (IF b = ClusterBucket(fired) THEN 1 ELSE 0)]
      /\ RecordAncillaEvents(events, n, flips)
  <2>2. /\ frame.detector_events = EncodeDetectorEvents(events) /\ frame.frame_id = n
        /\ frame.observable_flips = flips BY <1>2, <1>3, Zenon DEF Brings
  <2>3. /\ Record(Popcount(frame.detector_events), frame.ancilla_count)
        /\ RecordAncillaEvents(DecodeDetectorEvents(frame.detector_events), frame.frame_id, frame.observable_flips)
    BY Zenon DEF ShowFrame
  <2>4. DecodeDetectorEvents(frame.detector_events) = events /\ Popcount(frame.detector_events) = fired
    BY <1>4, <2>2, RunsReturn, CountIs
  <2>5. Record(fired, frame.ancilla_count) /\ RecordAncillaEvents(events, n, flips)
    BY <2>2, <2>3, <2>4
  <2>6. QED BY <1>1, <2>5, Zenon DEF Record
<1>6. ASSUME NEW b \in 1..4 PROVE cluster_sizes'[b] = Cardinality(OfSize(more, b))
  <2>1. PICK yes \in BOOLEAN : yes <=> ClusterBucket(fired) = b OBVIOUS
  <2>2. cluster_sizes'[b] = cluster_sizes[b] + (IF yes THEN 1 ELSE 0) BY <1>5, <2>1
  <2>3. PICK Size : Size = [k \in 1..n + 1 |-> ClusterBucket(Cardinality(Fired(more[k].events)))]
    OBVIOUS
  <2>4. n + 1 \in 1..n + 1 /\ 1..n \subseteq 1..n + 1 /\ \A k \in 1..n + 1 : k \in 1..n \/ k = n + 1
    OBVIOUS
  <2>5. \A k \in 1..n : more[k] = rounds[k] BY <1>1, Zenon DEF Begins
  <2>6. OfSize(rounds, b) = {k \in 1..n : Size[k] = b} /\ OfSize(more, b) = {k \in 1..n + 1 : Size[k] = b}
    BY <1>2, <2>3, <2>4, <2>5 DEF OfSize
  <2>7. Size[n + 1] = b <=> yes BY <1>1, <1>3, <1>4, <2>1, <2>3, <2>4
  <2>8. PICK A : A = OfSize(rounds, b) /\ A \subseteq 1..n BY <2>6
  <2>9. OfSize(more, b) = IF yes THEN A \cup {n + 1} ELSE A BY <2>4, <2>6, <2>7, <2>8
  <2>10. Cardinality(A) \in Nat /\ Cardinality(A \cup {n + 1}) = Cardinality(A) + 1
    BY <2>8, OneMoreCounts
  <2>11. cluster_sizes[b] = Cardinality(A) BY <2>8 DEF Counted
  <2>12. QED BY <2>2, <2>9, <2>10, <2>11
<1>7. /\ KeptRounds(rounds) \in Seq(Rounds)
      /\ KeptRounds(more) = IF events # << >> THEN Append(KeptRounds(rounds), d) ELSE KeptRounds(rounds)
  BY <1>1, <1>3, KeptMore
<1>8. PICK old \in Seq(Rounds), l \in Nat : old = KeptRounds(rounds) /\ l = Len(old)
  BY <1>7, LenProperties
<1>9. PICK past \in Seq(Shown) : past = shown /\ Len(past) = l /\ \A k \in 1..l : past[k] = Showing(old[k])
  BY <1>1, <1>8, Zenon DEF AllShown
<1>10. CASE events = << >>
  <2>1. shown' = past /\ obs_total' = obs_total /\ obs_errors' = obs_errors
    BY <1>5, <1>9, <1>10, Zenon DEF RecordAncillaEvents
  <2>2. KeptRounds(more) = old BY <1>7, <1>8, <1>10
  <2>3. AllShown(more)' BY <1>9, <2>1, <2>2, <1>8 DEF AllShown, Showing
  <2>4. WithTruth' = WithTruth /\ WithError' = WithError
    BY <1>9, <2>1, Zenon DEF WithTruth, WithError
  <2>5. Counted(more)' BY <1>6, <2>1, <2>4, Zenon DEF Counted, OfSize
  <2>6. QED BY <1>1, <1>5, <2>3, <2>5
<1>11. CASE events # << >>
  <2>1. PICK entry : entry = [events |-> events, frame_id |-> n, observable_flips |-> flips] OBVIOUS
  <2>2. /\ shown' = Append(past, entry) /\ obs_total' = obs_total + Len(flips)
        /\ obs_errors' = obs_errors + (IF flips # << >> /\ flips # <<{}>> THEN 1 ELSE 0)
    BY <1>5, <1>9, <1>11, <2>1, Zenon DEF RecordAncillaEvents
  <2>3. KeptRounds(more) = Append(old, d) BY <1>7, <1>8, <1>11
  <2>4. PICK now : now = Append(past, entry) OBVIOUS
  <2>5. Len(now) = l + 1 /\ (\A k \in 1..l : now[k] = past[k]) /\ now[l + 1] = entry
    BY <1>9, <2>4, SMTT(30)
  <2>6. PICK new : new = Append(old, d) OBVIOUS
  <2>7. Len(new) = l + 1 /\ (\A k \in 1..l : new[k] = old[k]) /\ new[l + 1] = d BY <1>8, <2>6
  <2>8. \A k \in 1..l + 1 : k \in 1..l \/ k = l + 1 OBVIOUS
  <2>9. \A k \in 1..l + 1 : now[k] = Showing(new[k])
    BY <1>2, <1>3, <2>1, <1>9, <2>5, <2>7, <2>8, Zenon DEF Showing
  <2>10. AllShown(more)' BY <2>2, <2>3, <2>4, <2>6, <2>5, <2>7, <2>9 DEF AllShown
  <2>11. PICK one \in BOOLEAN, wrong \in BOOLEAN :
           (one <=> flips # << >>) /\ (wrong <=> flips # << >> /\ flips # <<{}>>) OBVIOUS
  <2>12. Len(flips) = IF one THEN 1 ELSE 0
    <3>1. flips \in Seq(SUBSET Nat) /\ Len(flips) <= 1 BY Zenon DEF Optional
    <3>2. PICK size \in Nat : size = Len(flips) /\ (flips = << >> <=> size = 0)
      BY <3>1, EmptySeq, LenProperties
    <3>3. size = 0 \/ size = 1 BY <3>1, <3>2
    <3>4. QED BY <2>11, <3>2, <3>3, Zenon
  <2>13. WithTruth' = IF one THEN WithTruth \cup {l + 1} ELSE WithTruth
    <3>1. WithTruth = {k \in 1..l : past[k].observable_flips # << >>} BY <1>9, Zenon DEF WithTruth
    <3>2. WithTruth' = {k \in 1..l + 1 : now[k].observable_flips # << >>}
      BY <2>2, <2>4, <2>5, Zenon DEF WithTruth
    <3>3. now[l + 1].observable_flips = flips BY <2>1, <2>5
    <3>4. QED BY <2>5, <2>8, <2>11, <3>1, <3>2, <3>3
  <2>14. WithError' = IF wrong THEN WithError \cup {l + 1} ELSE WithError
    <3> DEFINE Is(given) == given # << >> /\ given # <<{}>>
    <3>1. WithError = {k \in 1..l : Is(past[k].observable_flips)} BY <1>9, Zenon DEF WithError
    <3>2. WithError' = {k \in 1..l + 1 : Is(now[k].observable_flips)}
      BY <2>2, <2>4, <2>5, Zenon DEF WithError
    <3>3. now[l + 1].observable_flips = flips BY <2>1, <2>5
    <3>4. wrong <=> Is(flips) BY <2>11
    <3> HIDE DEF Is
    <3>5. QED BY <2>5, <2>8, <3>1, <3>2, <3>3, <3>4
  <2>15. WithTruth \subseteq 1..l /\ WithError \subseteq 1..l BY <1>9 DEF WithTruth, WithError
  <2>16. /\ Cardinality(WithTruth') = Cardinality(WithTruth) + (IF one THEN 1 ELSE 0)
         /\ Cardinality(WithError') = Cardinality(WithError) + (IF wrong THEN 1 ELSE 0)
    <3>1. PICK A, B, C, D : A = WithTruth /\ B = WithTruth' /\ C = WithError /\ D = WithError'
      OBVIOUS
    <3>2. A \subseteq 1..l /\ B = IF one THEN A \cup {l + 1} ELSE A BY <2>13, <2>15, <3>1
    <3>3. C \subseteq 1..l /\ D = IF wrong THEN C \cup {l + 1} ELSE C BY <2>14, <2>15, <3>1
    <3>4. Cardinality(A) \in Nat /\ Cardinality(A \cup {l + 1}) = Cardinality(A) + 1
      BY <3>2, OneMoreCounts
    <3>5. Cardinality(C) \in Nat /\ Cardinality(C \cup {l + 1}) = Cardinality(C) + 1
      BY <3>3, OneMoreCounts
    <3>6. Cardinality(B) = Cardinality(A) + (IF one THEN 1 ELSE 0) BY <3>2, <3>4
    <3>7. Cardinality(D) = Cardinality(C) + (IF wrong THEN 1 ELSE 0) BY <3>3, <3>5
    <3>8. QED BY <3>1, <3>6, <3>7
  <2>17. obs_total' = Cardinality(WithTruth') /\ obs_errors' = Cardinality(WithError')
    BY <2>2, <2>11, <2>12, <2>16 DEF Counted
  <2>18. Counted(more)' BY <1>6, <2>17, Zenon DEF Counted, OfSize
  <2>19. QED BY <1>1, <1>5, <2>10, <2>18
<1>12. QED BY <1>10, <1>11

\* The dashboard is in front of a frame, and has counted those behind it; or in the last one, of
\* which it has shown what there is.
ReadOK ==
  /\ total_frames <= Len(Described)
  /\ \/ stream_at = 0 /\ total_frames = 0
     \/ stream_at = StartAt(ends, Base, total_frames + 1)
     \/ /\ Ended /\ total_frames = Len(ends) /\ total_frames # 0
        /\ StartAt(ends, Base, total_frames) < stream_at /\ stream_at + FrameHeaderLen > Len(file)
  /\ screen = "error" => stim = "failed"
  /\ screen # "adrift"

\* Of the first n rounds, the last without m events, it shows those with events, and counts what they say.
Shows(n, m) ==
  m \in Lost(n) /\ AllShown(CutRounds(n, m)) /\ Counted(CutRounds(n, m)) /\ (m # 0 => Ended)

ShowInv == reader = "dashboard" /\ Sound => ReadOK /\ \E m : Shows(total_frames, m)

\* The rounds that are compared are those described.
LEMMA CutIs ==
  ASSUME job \in Jobs, NEW n \in Nat, n <= Len(Described), NEW m \in Nat, n # 0 => m <= Len(Described[n].events)
  PROVE  /\ CutRounds(n, m) \in Seq(Rounds) /\ Len(CutRounds(n, m)) = n
         /\ \A k \in 1..n : CutRounds(n, m)[k] = IF k = n THEN Shorter(Described[n], m) ELSE Described[k]
         /\ n # 0 => Shorter(Described[n], 0) = Described[n]
<1>1. PICK rounds \in Seq(Rounds), l \in Nat : rounds = Described /\ l = Len(rounds) /\ 1..n \subseteq 1..l
  BY DescribedIs
<1>2. \A k \in 1..n : rounds[k] \in Rounds BY <1>1, ElementOfSeq
<1>3. ASSUME n # 0 PROVE Shorter(rounds[n], m) \in Rounds /\ Shorter(rounds[n], 0) = rounds[n]
  <2>1. n \in 1..n BY <1>3
  <2>2. PICK d \in Rounds : d = rounds[n] BY <1>2, <2>1
  <2>3. m <= Len(d.events) BY <1>1, <1>3, <2>2
  <2>4. 0 <= Len(d.events) BY <2>2, LenProperties DEF Rounds
  <2>5. Shorter(d, m) \in Rounds BY <2>3, ShorterIs
  <2>6. Shorter(d, 0) = d BY <2>4, ShorterIs
  <2>7. QED BY <2>2, <2>5, <2>6, Zenon
<1>4. PICK cut_rounds : cut_rounds = [k \in 1..n |-> IF k = n THEN Shorter(rounds[n], m) ELSE rounds[k]]
  OBVIOUS
<1>5. cut_rounds \in [1..n -> Rounds] BY <1>2, <1>3, <1>4
<1>6. cut_rounds \in Seq(Rounds) /\ Len(cut_rounds) = n BY <1>5
<1>7. CutRounds(n, m) = cut_rounds BY <1>1, <1>4 DEF CutRounds, Shorter
<1>8. QED BY <1>1, <1>3, <1>4, <1>6, <1>7

\* Where no frame is shown, what was shown is still right.
LEMMA ShowingStays ==
  ASSUME NEW n, NEW m, AllShown(CutRounds(n, m)), Counted(CutRounds(n, m)), job' = job, UNCHANGED <<aggregator, shown>>
  PROVE  AllShown(CutRounds(n, m))' /\ Counted(CutRounds(n, m))' /\ total_frames' = total_frames
<1>1. /\ total_frames' = total_frames /\ cluster_sizes' = cluster_sizes /\ obs_total' = obs_total
      /\ obs_errors' = obs_errors /\ shown' = shown BY DEF aggregator
<1>2. Described' = Described BY DEF Described
<1>3. CutRounds(n, m)' = CutRounds(n, m) BY <1>2, Zenon DEF CutRounds
<1>4. AllShown(CutRounds(n, m))' BY <1>1, <1>3, Zenon DEF AllShown, KeptRounds
<1>5. WithTruth' = WithTruth /\ WithError' = WithError BY <1>1, Zenon DEF WithTruth, WithError
<1>6. Counted(CutRounds(n, m))' BY <1>1, <1>3, <1>5, Zenon DEF Counted, OfSize
<1>7. QED BY <1>1, <1>4, <1>6

\* What is sound after a step of the writer was sound before; a stim that failed has failed.
LEMMA WriterSound ==
  ASSUME WriterInv, WriterNext
  PROVE  job' = job /\ (Sound' => Sound) /\ (stim = "failed" => stim' = "failed")
<1>1. ASSUME job' = job, line_width # -1 => line_width' = line_width, stim = "failed" => stim' = "failed"
      PROVE  job' = job /\ (Sound' => Sound) /\ (stim = "failed" => stim' = "failed")
  BY <1>1, SoundBefore
<1>2. CASE Start \/ StimObsFails \/ StimDies \/ Finish
  BY <1>1, <1>2 DEF Start, StimObsFails, StimDies, Finish
<1>3. CASE \E k, f : Puts(k, f) BY <1>1, <1>3, Zenon DEF Puts
<1>4. CASE ImportFrame \/ ServeLine \/ ServeSample \/ ExportOne \/ RecordOne
  BY <1>3, <1>4, ImportPuts, ServePuts, SamplePuts, ExportPuts, RecordPuts
<1>5. CASE PythonFrame BY <1>1, <1>3, <1>5, PythonPuts
<1>6. QED BY <1>2, <1>4, <1>5, Zenon DEF WriterNext

\* While the writer writes, the screen stays as it is.
LEMMA ShowWaits ==
  ASSUME WriterInv, WriterInv', WriterNext, ScreenInv, ShowInv, UNCHANGED <<dashboard, reader, screen, stream_at>>
  PROVE  ShowInv'
<1>1. SUFFICES ASSUME reader' = "dashboard", Sound' PROVE ReadOK' /\ \E m : Shows(total_frames, m)'
  BY Zenon DEF ShowInv
<1>2. job' = job /\ Sound /\ (stim = "failed" => stim' = "failed") /\ ~ Ended
  BY <1>1, WriterSound, WriterStops
<1>3. ReadOK /\ \E m : Shows(total_frames, m) BY <1>1, <1>2 DEF ShowInv
<1>4. PICK n : n = total_frames /\ n = total_frames' BY DEF dashboard, aggregator
<1>5. AllShown(CutRounds(n, 0)) /\ Counted(CutRounds(n, 0)) BY <1>2, <1>3, <1>4, Zenon DEF Shows
<1>6. AllShown(CutRounds(n, 0))' /\ Counted(CutRounds(n, 0))'
  BY <1>2, <1>5, ShowingStays DEF dashboard
<1>7. 0 \in Lost(n)' BY Lengths DEF Lost
<1>8. Shows(total_frames, 0)' BY <1>4, <1>6, <1>7, Zenon DEF Shows
<1>9. Described' = Described BY <1>2 DEF Described
<1>10. Base' = Base /\ Len(ends) \in Nat /\ \A i \in 1..Len(ends) : ends'[i] = ends[i]
  BY WriterExtends, Zenon DEF Extended
<1>11. StartAt(ends', Base', n + 1) = StartAt(ends, Base, n + 1)
  <2>1. n \in Nat /\ n <= Len(ends) BY <1>4, Zenon DEF ScreenInv
  <2>2. CASE n = 0 BY <1>10, <2>2 DEF StartAt
  <2>3. CASE n # 0 BY <1>10, <2>1, <2>3 DEF StartAt
  <2>4. QED BY <2>2, <2>3
<1>12. ReadOK' BY <1>2, <1>3, <1>4, <1>9, <1>11, Zenon DEF ReadOK
<1>13. QED BY <1>8, <1>12

\* What is shown stays right while nothing is written or shown.
LEMMA ShowStays ==
  ASSUME UNCHANGED writer, UNCHANGED <<aggregator, shown>>, \E m : Shows(total_frames, m)
  PROVE  (\E m : Shows(total_frames, m)') /\ total_frames' = total_frames
<1>1. PICK m, n : Shows(n, m) /\ n = total_frames /\ n = total_frames' BY DEF aggregator
<1>2. job' = job /\ ends' = ends /\ stim' = stim /\ phase' = phase BY DEF writer
<1>3. AllShown(CutRounds(n, m))' /\ Counted(CutRounds(n, m))' BY <1>1, <1>2, ShowingStays DEF Shows
<1>4. Lost(n)' = Lost(n) /\ (Ended' <=> Ended) BY <1>2, Zenon DEF Lost, Ended
<1>5. Shows(total_frames, m)' BY <1>1, <1>3, <1>4, Zenon DEF Shows
<1>6. QED BY <1>1, <1>5

\* So it does while the others read.
LEMMA ShowRests ==
  ASSUME ShowInv, UNCHANGED writer, UNCHANGED <<aggregator, shown, reader, stream_at>>,
         screen' = screen \/ screen' = "closed"
  PROVE  ShowInv'
<1>1. /\ job' = job /\ ends' = ends /\ stim' = stim /\ phase' = phase /\ file' = file
      /\ reader' = reader /\ stream_at' = stream_at BY DEF writer
<1>2. SUFFICES ASSUME reader' = "dashboard", Sound' PROVE ReadOK' /\ \E m : Shows(total_frames, m)'
  BY Zenon DEF ShowInv
<1>3. Sound /\ Base' = Base BY <1>2, SoundStays
<1>4. ReadOK /\ \E m : Shows(total_frames, m) BY <1>1, <1>2, <1>3 DEF ShowInv
<1>5. (\E m : Shows(total_frames, m)') /\ total_frames' = total_frames BY <1>4, ShowStays
<1>6. Described' = Described /\ (Ended' <=> Ended) BY <1>1 DEF Described, Ended
<1>7. (screen' = "error" => screen = "error") /\ (screen' = "adrift" => screen = "adrift") OBVIOUS
<1>8. ReadOK' BY <1>1, <1>3, <1>4, <1>5, <1>6, <1>7, Zenon DEF ReadOK
<1>9. QED BY <1>5, <1>8

\* The stream is opened, before anything is shown.
LEMMA ShowOpens ==
  ASSUME ScreenInv, ShowInv, OpenScreen
  PROVE  ShowInv'
<1>1. /\ reader = "dashboard" /\ screen = "off" /\ reader' = reader /\ UNCHANGED writer
      /\ UNCHANGED <<aggregator, shown>>
      /\ \/ screen' = "on" /\ stream_at' = FileHeaderLen
         \/ screen' = "closed" /\ stream_at' = stream_at BY DEF OpenScreen, dashboard
<1>2. job' = job BY <1>1 DEF writer
<1>3. SUFFICES ASSUME Sound' PROVE ReadOK' /\ \E m : Shows(total_frames, m)' BY Zenon DEF ShowInv
<1>4. Sound /\ Base' = Base BY <1>1, <1>3, SoundStays
<1>5. ReadOK /\ \E m : Shows(total_frames, m) BY <1>1, <1>4 DEF ShowInv
<1>6. (\E m : Shows(total_frames, m)') /\ total_frames' = total_frames BY <1>1, <1>5, ShowStays
<1>7. stream_at = 0 /\ total_frames = 0 /\ job.program # "record" BY <1>1 DEF ScreenInv
<1>8. (stream_at' = 0 /\ total_frames' = 0) \/ stream_at' = StartAt(ends', Base', total_frames' + 1)
  <2>1. CASE stream_at' = stream_at BY <1>6, <1>7, <2>1
  <2>2. CASE stream_at' = FileHeaderLen BY <1>4, <1>6, <1>7, <2>2 DEF Base, StartAt
  <2>3. QED BY <1>1, <2>1, <2>2
<1>9. Described' = Described BY <1>2 DEF Described
<1>10. screen' # "error" /\ screen' # "adrift" BY <1>1
<1>11. ReadOK' BY <1>5, <1>6, <1>8, <1>9, <1>10, Zenon DEF ReadOK
<1>12. QED BY <1>6, <1>11

\* The dashboard shows the frame of the next round, or none.
LEMMA ShowTurns ==
  ASSUME WriterInv, SayInv, ScreenInv, ShownTypes, ShowInv, ScreenTurn
  PROVE  ShowInv'
<1>1. screen = "on" /\ UNCHANGED writer /\ reader' = reader /\ (Ended \/ HasNext(file, stream_at))
  BY DEF ScreenTurn
<1>2. PICK next : next = NextOnWire(file, stream_at) OBVIOUS
<1>3. /\ stream_at' = next.at
      /\ \/ next.status = "frame" /\ ShowFrame(next.frame) /\ screen' = screen
         \/ next.status = "end" /\ screen' = "closed" /\ UNCHANGED dashboard
         \/ next.status \in {"error", "adrift"} /\ screen' = next.status /\ UNCHANGED dashboard
  BY <1>2, Zenon DEF ScreenTurn
<1>4. /\ reader = "dashboard" /\ file # << >> /\ total_frames \in Nat /\ total_frames <= Len(ends)
      /\ job.program # "record" /\ ReadSoFar BY <1>1, Zenon DEF ScreenInv
<1>5. /\ job' = job /\ ends' = ends /\ stim' = stim /\ file' = file /\ job \in Jobs
      /\ Described' = Described /\ (Ended' <=> Ended)
  BY <1>1 DEF writer, WriterInv, WriterTypes, Described, Ended
<1>6. SUFFICES ASSUME Sound' PROVE ReadOK' /\ \E m : Shows(total_frames, m)' BY Zenon DEF ShowInv
<1>7. Sound /\ Base' = Base BY <1>1, <1>6, SoundStays
<1>8. ReadOK /\ \E m : Shows(total_frames, m) BY <1>4, <1>7 DEF ShowInv
<1>9. FramesOK BY <1>4, <1>7, Zenon DEF SayInv
<1>10. /\ Layout(file, ends, Base) /\ ends \in Seq(Nat) /\ Base \in Nat /\ Ascend(ends, Base) /\ Len(ends) \in Nat
       /\ Len(file) \in Nat BY <1>4, EndsAscend DEF Prefix
<1>11. PICK n \in Nat, e \in Nat, h \in Nat, l \in Nat, p \in {stream_at} :
         n = total_frames /\ e = Len(ends) /\ n <= e /\ h = FrameHeaderLen /\ h # 0 /\ l = Len(file) /\ p = stream_at
  BY <1>4, <1>10, Lengths
<1>12. ASSUME UNCHANGED dashboard, next.at = p, screen' = "error" => stim = "failed", screen' # "adrift"
       PROVE  ReadOK' /\ \E m : Shows(total_frames, m)'
  BY <1>1, <1>8, <1>12, <1>3, <1>5, <1>7, <1>11, ShowStays DEF dashboard, ReadOK
<1>13. CASE p + FrameHeaderLen > Len(file)
  BY <1>2, <1>11, <1>13, <1>3, <1>12 DEF NextOnWire, Outcome
<1>14. CASE ~ p + FrameHeaderLen > Len(file)
  <2>1. PICK q \in 0..Len(ends) : p = StartAt(ends, Base, q + 1)
    BY <1>4, <1>11, <1>14, Zenon DEF ReadSoFar
  <2>2. p \in Nat /\ p # 0
    <3>1. q + 1 \in 1..Len(ends) + 1 BY <1>10, <2>1
    <3>2. StartAt(ends, Base, q + 1) \in Nat /\ Base <= StartAt(ends, Base, q + 1)
      BY <1>10, <3>1, Starts
    <3>3. Base \in Nat \ {0} BY <1>4, Lengths DEF Base
    <3>4. QED BY <2>1, <3>2, <3>3
  <2>3. p = StartAt(ends, Base, n + 1) BY <1>8, <1>11, <1>14, <2>2, Zenon DEF ReadOK
  <2>4. n # e
    <3>1. Len(file) = StartAt(ends, Base, Len(ends) + 1) BY <1>10, Zenon DEF Layout
    <3>2. n = e => l = p BY <1>11, <2>3, <3>1
    <3>3. ~ p + h > l BY <1>11, <1>14
    <3>4. QED BY <1>11, <2>2, <3>2, <3>3
  <2>5. n + 1 \in 1..Len(ends) /\ (n + 1) - 1 = n /\ n # Len(ends) /\ n + 1 # 0 BY <1>11, <2>4
  <2>6. Coming(n + 1, p, next) BY <1>9, <2>5, <1>2, <1>10, <1>11, <2>3, SaidComes DEF FramesOK
  <2>7. CASE stim = "failed" /\ next.status = "error" /\ next.at = p BY <1>3, <1>12, <2>7
  <2>8. ASSUME next.status = "frame", n + 1 <= Len(Described), NEW m \in Nat, m <= Len(Described[n + 1].events),
               Brings(next.frame, Shorter(Described[n + 1], m)),
               \/ m = 0 /\ next.at = ends[n + 1]
               \/ stim = "failed" /\ n + 1 = Len(ends) /\ m \in 0..TerminatorLen /\ RunsOut(file, p, next)
        PROVE  ReadOK' /\ \E more : Shows(total_frames, more)'
    <3>1. ShowFrame(next.frame) /\ screen' = "on" /\ stream_at' = next.at BY <1>1, <1>3, <2>8
    <3>2. PICK rounds, more : rounds = CutRounds(n, 0) /\ more = CutRounds(n + 1, m) OBVIOUS
    <3>3. /\ rounds \in Seq(Rounds) /\ Len(rounds) = n
          /\ \A k \in 1..n : rounds[k] = Described[k]
      <4>1. n <= Len(Described) /\ (n # 0 => 0 <= Len(Described[n].events))
        <5>1. PICK d \in Nat : d = Len(Described) /\ n + 1 <= d BY <1>5, <2>8, DescribedIs
        <5>2. ASSUME n # 0 PROVE 0 <= Len(Described[n].events)
          <6>1. n \in 1..Len(Described) BY <5>1, <5>2
          <6>2. Described[n] \in Rounds BY <1>5, <6>1, DescribedIs
          <6>3. Len(Described[n].events) \in Nat BY <6>2, LenProperties DEF Rounds
          <6>4. QED BY <6>3
        <5>3. QED BY <5>1, <5>2
      <4>2. /\ rounds \in Seq(Rounds) /\ Len(rounds) = n
            /\ \A k \in 1..n : rounds[k] = IF k = n THEN Shorter(Described[n], 0) ELSE Described[k]
            /\ n # 0 => Shorter(Described[n], 0) = Described[n] BY <1>5, <3>2, <4>1, CutIs
      <4>3. QED BY <4>2
    <3>4. /\ more \in Seq(Rounds) /\ Len(more) = n + 1
          /\ \A k \in 1..n + 1 : more[k] = IF k = n + 1 THEN Shorter(Described[n + 1], m) ELSE Described[k]
      BY <1>5, <2>5, <2>8, <3>2, CutIs
    <3>5. n + 1 \in 1..n + 1 /\ \A k \in 1..n : k \in 1..n + 1 /\ k # n + 1 OBVIOUS
    <3>6. Begins(more, rounds, n) BY <3>3, <3>4, <3>5, Zenon DEF Begins
    <3>7. PICK d : d = more[n + 1] /\ d = Shorter(Described[n + 1], m) /\ d.frame_id = n
      <4>1. n + 1 \in 1..Len(Described) BY <1>5, <2>8, DescribedIs
      <4>2. Described[n + 1] \in Rounds /\ Described[n + 1] = Round(n + 1)
        BY <1>5, <4>1, DescribedIs
      <4>3. Shorter(Described[n + 1], m).frame_id = Described[n + 1].frame_id
        BY <2>8, <4>2, ShorterIs
      <4>4. Described[n + 1].frame_id = n BY <2>5, <4>2 DEF Round
      <4>5. QED BY <3>4, <3>5, <4>3, <4>4
    <3>8. AllShown(rounds) /\ Counted(rounds)
      <4>1. PICK gone : Shows(n, gone) BY <1>8, <1>11
      <4>2. gone = 0 BY <2>5, <4>1 DEF Shows, Lost
      <4>3. QED BY <3>2, <4>1, <4>2, Zenon DEF Shows
    <3>9. total_frames' = n + 1 /\ AllShown(more)' /\ Counted(more)'
      BY <2>8, <3>7, <1>11, <3>1, <3>3, <3>4, <3>6, <3>8, RoundShown DEF ShownTypes
    <3>10. m # 0 => Ended BY <1>1, <1>11, <2>8, Zenon DEF RunsOut
    <3>11. Shows(total_frames, m)'
      <4>1. more = CutRounds(n + 1, m)' BY <1>5, <3>2, Zenon DEF CutRounds
      <4>2. AllShown(CutRounds(n + 1, m))' /\ Counted(CutRounds(n + 1, m))'
        BY <3>9, <4>1, Zenon DEF AllShown, Counted, KeptRounds, OfSize
      <4>3. m \in Lost(n + 1)' BY <1>5, <2>8, Lengths DEF Lost
      <4>4. QED BY <1>5, <3>9, <3>10, <4>2, <4>3, Zenon DEF Shows
    <3>12. ReadOK'
      <4>1. total_frames' <= Len(Described)' /\ screen' # "error" /\ screen' # "adrift"
        BY <1>5, <2>8, <3>1, <3>9
      <4>2. CASE next.at = ends[n + 1] BY <1>5, <2>5, <3>1, <3>9, <4>1, <4>2 DEF StartAt, ReadOK
      <4>3. CASE n + 1 = Len(ends) /\ RunsOut(file, p, next)
        BY <1>1, <1>11, <4>3, <1>5, <1>7, <2>3, <2>5, <3>1, <3>9, <4>1, Zenon DEF RunsOut, ReadOK
      <4>4. QED BY <2>8, <4>2, <4>3
    <3>13. QED BY <3>11, <3>12
  <2>9. QED BY <2>6, <2>7, <2>8, Zenon DEF Coming
<1>15. QED BY <1>13, <1>14

\* The frames that begin before a place between two of them.
LEMMA BeforeAt ==
  ASSUME WriterInv, Base = FileHeaderLen, NEW n \in Nat, NEW q \in 0..Len(ends),
         q = 0 \/ StartAt(ends, Base, q) < n, q < Len(ends) => n <= StartAt(ends, Base, q + 1)
  PROVE  FramesBefore(n) = q
<1>1. ends \in Seq(Nat) /\ Base \in Nat /\ Ascend(ends, Base) /\ Len(ends) \in Nat BY EndsAscend
<1>2. PICK l \in Nat : l = Len(ends) /\ DOMAIN ends = 1..l BY <1>1, LenProperties
<1>3. PICK S : S = [k \in 1..l |-> StartAt(ends, Base, k)] OBVIOUS
<1>4. ASSUME NEW j \in 1..l, NEW k \in 1..l, j <= k
      PROVE  S[j] \in Nat /\ S[k] \in Nat /\ S[j] <= S[k]
  <2>1. j \in 1..Len(ends) + 1 /\ k \in 1..Len(ends) + 1 BY <1>2
  <2>2. StartAt(ends, Base, j) \in Nat /\ StartAt(ends, Base, k) \in Nat /\ Base <= StartAt(ends, Base, k)
    BY <1>1, <2>1, Starts
  <2>3. CASE j = 1 BY <1>3, <2>2, <2>3 DEF StartAt
  <2>4. CASE j # 1
    <3>1. j - 1 \in 1..Len(ends) /\ k - 1 \in 1..Len(ends) /\ j - 1 <= k - 1 /\ k # 1
      BY <1>2, <1>4, <2>4
    <3>2. ends[j - 1] <= ends[k - 1] BY <1>1, <3>1, LaterEnds
    <3>3. QED BY <1>3, <2>2, <2>4, <3>1, <3>2 DEF StartAt
  <2>5. QED BY <2>3, <2>4
<1>5. ASSUME NEW k \in 1..l PROVE S[k] < n <=> k <= q
  <2>1. CASE k <= q BY <1>2, <2>1, <1>3, <1>4
  <2>2. CASE ~ k <= q BY <1>2, <2>2, <1>3, <1>4
  <2>3. QED BY <2>1, <2>2
<1>6. {k \in DOMAIN ends : (IF k = 1 THEN FileHeaderLen ELSE ends[k - 1]) < n} = 1..q
  BY <1>3, <1>2, <1>5 DEF StartAt
<1>7. Cardinality(1..q) = q BY <1>2, FS_Interval
<1>8. QED BY <1>6, <1>7 DEF FramesBefore

\* What the property says follows.
LEMMA ScreenIs ==
  ASSUME WriterInv, ScreenInv, ShownTypes, ShowInv
  PROVE  ScreenShowsTheRun
<1>1. SUFFICES ASSUME reader = "dashboard", Sound
               PROVE  LET With(k) == shown[k].observable_flips # << >>
                      IN  /\ total_frames = FramesBefore(stream_at)
                          /\ \E m \in Lost(total_frames) : ShownAre(CutRounds(total_frames, m))
                          /\ obs_total = Cardinality({k \in DOMAIN shown : With(k)})
                          /\ obs_errors = Cardinality({k \in DOMAIN shown :
                                                         With(k) /\ shown[k].observable_flips # <<{}>>})
                          /\ screen = "error" => stim = "failed"
                          /\ screen # "adrift" BY Zenon DEF ScreenShowsTheRun
<1>2. ReadOK /\ \E m : Shows(total_frames, m) BY <1>1, Zenon DEF ShowInv
<1>3. DOMAIN shown = 1..Len(shown) BY LenProperties DEF ShownTypes
<1>4. PICK m : Shows(total_frames, m) BY <1>2
<1>5. PICK read : read = CutRounds(total_frames, m) OBVIOUS
<1>6. /\ m \in Lost(total_frames) /\ Len(shown) = Len(KeptRounds(read))
      /\ \A k \in 1..Len(shown) : shown[k] = Showing(KeptRounds(read)[k])
      /\ \A b \in 1..4 : cluster_sizes[b] = Cardinality(OfSize(read, b))
      /\ obs_total = Cardinality(WithTruth) /\ obs_errors = Cardinality(WithError)
  BY <1>4, <1>5, Zenon DEF Shows, AllShown, Counted
<1>7. ShownAre(read)
  <2>1. PICK some : some = KeptRounds(read) OBVIOUS
  <2>2. /\ Len(shown) = Len(some)
        /\ \A k \in DOMAIN shown :
             /\ shown[k].events = some[k].events /\ shown[k].frame_id = some[k].frame_id
             /\ shown[k].observable_flips = some[k].observable_flips BY <1>3, <1>6, <2>1 DEF Showing
  <2>3. QED BY <1>6, <2>1, <2>2, Zenon DEF ShownAre, KeptRounds, OfSize
<1>8. /\ obs_total = Cardinality({k \in DOMAIN shown : shown[k].observable_flips # << >>})
      /\ obs_errors = Cardinality({k \in DOMAIN shown : /\ shown[k].observable_flips # << >>
                                                        /\ shown[k].observable_flips # <<{}>>})
  BY <1>3, <1>6, Zenon DEF WithTruth, WithError
<1>9. total_frames = FramesBefore(stream_at)
  <2>1. /\ ends \in Seq(Nat) /\ Base \in Nat /\ Ascend(ends, Base) /\ Len(ends) \in Nat
        /\ Base = FileHeaderLen /\ stream_at \in 0..Len(file) /\ Len(file) \in Nat
    BY <1>1, EndsAscend DEF ScreenInv, Base
  <2>2. PICK n \in Nat, p \in Nat : n = total_frames /\ n \in 0..Len(ends) /\ p = stream_at
    BY <2>1 DEF ScreenInv
  <2>3. PICK a, b : a = StartAt(ends, Base, n) /\ b = StartAt(ends, Base, n + 1) OBVIOUS
  <2>4. n + 1 \in 1..Len(ends) + 1 /\ (n # 0 => n \in 1..Len(ends) /\ n + 1 # 1 /\ n \in 1..Len(ends) + 1)
    BY <2>1, <2>2
  <2>5. b \in Nat /\ (n # 0 => a < b /\ a \in Nat) BY <2>1, <2>3, <2>4, Starts DEF StartAt
  <2>6. n = 0 \/ a < p BY <1>2, <2>2, <2>3, <2>5, Zenon DEF ReadOK
  <2>7. n < Len(ends) => p <= b BY <1>2, <2>1, <2>2, <2>3, <2>5 DEF ReadOK
  <2>8. QED BY <2>1, <2>2, <2>3, <2>6, <2>7, BeforeAt
<1>10. (screen = "error" => stim = "failed") /\ screen # "adrift" BY <1>2, Zenon DEF ReadOK
<1>11. QED BY <1>5, <1>6, <1>7, <1>8, <1>9, <1>10, Zenon

-----------------------------------------------------------------------------
(* The invariant *)

IInv == WriterInv /\ SayInv /\ AnalysisInv /\ ScreenInv /\ ShownInv /\ ShowInv

\* At first nothing was written, and nothing read.
LEMMA InitHolds == Init => IInv
<1> SUFFICES ASSUME Init PROVE IInv OBVIOUS
<1>1. WriterInv /\ SayInv /\ file = << >> /\ ends = << >> /\ job \in Jobs
  BY WriterStarts, SayStarts DEF Init, WriterInit
<1>2. AnalysisInv
  <2>1. /\ analysis = "none" /\ at = 0 /\ frames_processed = 0 /\ cut = 0 /\ window = << >> /\ report = NoReport
    BY DEF Init, ReplayInit
  <2>2. Len(file) = 0 /\ Len(ends) = 0 BY <1>1
  <2>3. cut \in 0..Len(file) /\ at \in 0..cut /\ frames_processed <= Len(ends) /\ frames_processed \in Nat
        /\ ~ frames_processed > 0 BY <2>1, <2>2
  <2>4. analysis # "frames" /\ analysis # "done" /\ analysis # "error" /\ analysis # "adrift"
        /\ analysis \in {"none", "frames", "done", "error", "adrift"} BY <2>1
  <2>5. AnalysisTypes BY <2>1, <2>3, <2>4, Zenon DEF AnalysisTypes
  <2>6. ReadInv BY <2>1, <2>3, <2>4, Zenon DEF ReadInv
  <2>7. QED BY <2>5, <2>6 DEF AnalysisInv
<1>3. ScreenInv BY <1>1 DEF Init, DashboardInit, ScreenInv
<1>4. ShownInv
  <2>1. shown = << >> /\ export_buf = << >> /\ per_ancilla_fires = << >> /\ heatmap_frames = 0
    BY DEF Init, DashboardInit
  <2>2. EXPORT_WINDOW \in Nat \ {0} BY DashboardAssumption
  <2>3. ShownTypes BY <2>1 DEF ShownTypes
  <2>4. KeepsTail BY <2>1, <2>2 DEF KeepsTail
  <2>5. HeatmapIsExact BY <2>1 DEF HeatmapIsExact, Mapped
  <2>6. QED BY <2>3, <2>4, <2>5 DEF ShownInv
<1>5. ShowInv
  <2>1. /\ screen = "off" /\ stream_at = 0 /\ total_frames = 0 /\ shown = << >> /\ obs_total = 0 /\ obs_errors = 0
        /\ cluster_sizes = [b \in 1..4 |-> 0] BY DEF Init, DashboardInit
  <2>2. PICK rounds \in Seq(Rounds), l \in Nat : rounds = Described /\ l = Len(rounds)
    BY <1>1, DescribedIs
  <2>3. ReadOK BY <2>1, <2>2 DEF ReadOK
  <2>4. PICK none : none = CutRounds(0, 0) /\ none = << >> BY DEF CutRounds
  <2>5. AllShown(none)
    <3>1. PICK texts : texts = [k \in DOMAIN none |-> none[k].events] OBVIOUS
    <3>2. none \in Seq(Rounds) /\ Len(none) = 0
      <4>1. << >> \in Seq(Rounds) /\ Len(<< >>) = 0 OBVIOUS
      <4>2. QED BY <2>4, <4>1, Zenon
    <3>3. NotBlank(none, texts) = << >> BY <3>2, KeptIs
    <3>4. Len(shown) = 0 /\ KeptRounds(none) = shown /\ \A k \in 1..Len(shown) : FALSE
      BY <2>1, <3>1, <3>3 DEF KeptRounds
    <3>5. QED BY <3>4, Zenon DEF AllShown
  <2>6. Counted(none)
    <3>1. \A b : OfSize(none, b) = {} BY <2>4 DEF OfSize
    <3>2. WithTruth = {} /\ WithError = {} BY <2>1 DEF WithTruth, WithError
    <3>3. Cardinality({}) = 0 BY FS_EmptySet
    <3>4. \A b \in 1..4 : cluster_sizes[b] = 0 BY <2>1
    <3>5. QED BY <2>1, <3>1, <3>2, <3>3, <3>4, Zenon DEF Counted
  <2>7. 0 \in Lost(0) BY Lengths DEF Lost
  <2>8. Shows(total_frames, 0) BY <2>1, <2>4, <2>5, <2>6, <2>7, Zenon DEF Shows
  <2>9. QED BY <2>3, <2>8, Zenon DEF ShowInv
<1>6. QED BY <1>1, <1>2, <1>3, <1>4, <1>5 DEF IInv

\* Every step keeps the invariant.
LEMMA NextHolds == IInv /\ [Next]_vars => IInv'
<1> SUFFICES ASSUME IInv, [Next]_vars PROVE IInv' OBVIOUS
<1>1. WriterInv /\ SayInv /\ AnalysisInv /\ ScreenInv /\ ShownInv /\ ShowInv /\ ShownTypes
  BY DEF IInv, ShownInv
<1>2. CASE Write
  <2>1. /\ WriterNext /\ UNCHANGED <<replay, reader, cut>> /\ UNCHANGED <<total_frames, reader, screen, stream_at>>
        /\ UNCHANGED <<dashboard, reader, screen, stream_at>> /\ Kept
    BY <1>2 DEF Write, dashboard, aggregator, Kept
  <2>2. WriterInv' /\ SayInv' BY <1>1, <2>1, WriterKeeps, WriterSays
  <2>3. AnalysisInv' BY <1>1, <2>1, <2>2, WritingKeeps
  <2>4. ScreenInv' BY <1>1, <2>1, <2>2, ScreenWaits
  <2>5. ShownInv' BY <1>1, <2>1, ShownRests
  <2>6. ShowInv' BY <1>1, <2>1, <2>2, ShowWaits
  <2>7. QED BY <2>2, <2>3, <2>4, <2>5, <2>6 DEF IInv
<1>3. ASSUME UNCHANGED writer PROVE WriterInv' /\ SayInv' BY <1>1, <1>3, WriterRests, SayRests
<1>4. CASE OpenRecording \/ AnalyzeTurn
  <2>1. /\ UNCHANGED writer /\ UNCHANGED <<writer, total_frames, reader, stream_at>> /\ screen' = screen
        /\ UNCHANGED <<aggregator, shown, reader, stream_at>> /\ Kept
    BY <1>4 DEF OpenRecording, AnalyzeTurn, dashboard, aggregator, Kept
  <2>2. WriterInv' /\ SayInv' BY <1>3, <2>1
  <2>3. AnalysisInv' BY <1>1, <1>4, OpenKeeps, TurnKeeps
  <2>4. ScreenInv' BY <1>1, <2>1, ScreenRests
  <2>5. ShownInv' BY <1>1, <2>1, ShownRests
  <2>6. ShowInv' BY <1>1, <2>1, ShowRests
  <2>7. QED BY <2>2, <2>3, <2>4, <2>5, <2>6 DEF IInv
<1>5. CASE OpenScreen \/ ScreenTurn
  <2>1. UNCHANGED writer /\ UNCHANGED <<writer, replay, reader, cut>>
    BY <1>5 DEF OpenScreen, ScreenTurn
  <2>2. WriterInv' /\ SayInv' /\ AnalysisInv' BY <1>1, <1>3, <2>1, AnalysisRests
  <2>3. CASE OpenScreen
    <3>1. Kept BY <2>3 DEF OpenScreen, dashboard, aggregator, Kept
    <3>2. ScreenInv' /\ ShownInv' /\ ShowInv'
      BY <1>1, <2>3, <3>1, OpenScreenKeeps, ShownRests, ShowOpens
    <3>3. QED BY <2>2, <3>2 DEF IInv
  <2>4. CASE ScreenTurn
    <3>1. /\ ScreenInv'
          /\ \/ UNCHANGED dashboard
             \/ \E frame \in WireFrames : ShowFrame(frame) BY <1>1, <2>4, ScreenNext
    <3>2. UNCHANGED dashboard => Kept BY DEF dashboard, aggregator, Kept
    <3>3. ShownInv' BY <1>1, <3>1, <3>2, ShownRests, ShownKeeps
    <3>4. ShowInv' BY <1>1, <2>4, ShowTurns
    <3>5. QED BY <2>2, <3>1, <3>3, <3>4 DEF IInv
  <2>5. QED BY <1>5, <2>3, <2>4
<1>6. CASE StartLoader \/ TurnLoader \/ PressExport \/ PressQuit \/ UNCHANGED vars
  <2>1. /\ UNCHANGED writer /\ UNCHANGED <<writer, replay, reader, cut>>
        /\ UNCHANGED <<writer, total_frames, reader, stream_at>>
        /\ UNCHANGED <<aggregator, shown, reader, stream_at>>
        /\ screen' = screen \/ (screen = "on" /\ screen' = "closed")
        /\ Kept
    BY <1>6 DEF StartLoader, TurnLoader, PressExport, PressQuit, Export, vars, dashboard, aggregator, Kept
  <2>2. WriterInv' /\ SayInv' /\ AnalysisInv' BY <1>1, <1>3, <2>1, AnalysisRests
  <2>3. ScreenInv' BY <1>1, <2>1, ScreenRests
  <2>4. ShownInv' BY <1>1, <2>1, ShownRests
  <2>5. ShowInv' BY <1>1, <2>1, ShowRests
  <2>6. QED BY <2>2, <2>3, <2>4, <2>5 DEF IInv
<1>7. QED BY <1>2, <1>4, <1>5, <1>6, Zenon DEF Next

\* The types follow.
LEMMA TypesHold ==
  ASSUME IInv
  PROVE  TypeOK
<1>1. WriterInv /\ AnalysisInv /\ ScreenInv BY DEF IInv
<1>2. Len(ends) = frame_id BY <1>1, EndsAscend
<1>3. phase \in {"start", "write", "done", "failed"} /\ stim \in {"well", "failed"}
  BY <1>1, Zenon DEF WriterInv, WriterTypes
<1>4. /\ analysis \in {"none", "frames", "done", "error", "adrift"}
      /\ cut \in 0..Len(file) /\ at \in 0..cut
      /\ window # << >> <=> frames_processed > 0
      /\ report # NoReport => analysis = "done" BY <1>1, Zenon DEF AnalysisInv, AnalysisTypes
<1>5. /\ screen \in {"off", "on", "closed", "error", "adrift"} /\ stream_at \in 0..Len(file) /\ total_frames <= Len(ends)
  BY <1>1, Zenon DEF ScreenInv
<1>6. QED BY <1>2, <1>3, <1>4, <1>5, Zenon DEF TypeOK

-----------------------------------------------------------------------------
(* Theorems *)

\* The invariant holds in every state that a writer and a reader reach.
THEOREM InvariantHolds == Spec => []IInv
<1>1. Init => IInv BY InitHolds
<1>2. IInv /\ [Next]_vars => IInv' BY NextHolds
<1>3. QED BY <1>1, <1>2, PTL DEF Spec

\* What a run keeps has its types; the dashboard counts no more frames than were written.
THEOREM TypesAreRight == Spec => []TypeOK
<1>1. IInv => TypeOK BY TypesHold
<1>2. QED BY <1>1, InvariantHolds, PTL

\* Of a recording of any program, cut anywhere, the analysis reads the whole frames and no other.
THEOREM CutsAreRead == Spec => []ReadsAPrefix
<1>1. IInv => ReadsAPrefix BY ReadingIs DEF IInv
<1>2. QED BY <1>1, InvariantHolds, PTL

\* What the dashboard shows of a file, read while it is written, is what the job described: every
\* round with events once and in its order, with its truth, and the counters add up to them; only of
\* the round in which stim died, and only if it is the last, may the last events be missing, no more
\* than a terminator has bytes.  The stream ends in an error only if stim died.
THEOREM ScreenIsTheRun == Spec => []ScreenShowsTheRun
<1>1. IInv => ScreenShowsTheRun BY ScreenIs DEF IInv, ShownInv
<1>2. QED BY <1>1, InvariantHolds, PTL

\* An export holds the tail of what was shown, for every length of the window and every stream.
THEOREM ExportHoldsTheTail == Spec => []ExportIsTheTail
<1>1. IInv => ExportIsTheTail BY TailIsTheTail DEF IInv, ShownInv
<1>2. QED BY <1>1, InvariantHolds, PTL

\* The heatmap counts every event of the latest frames of one width, and of no other frames.
THEOREM HeatmapCountsAll == Spec => []HeatmapIsExact
<1>1. IInv => HeatmapIsExact BY DEF IInv, ShownInv
<1>2. QED BY <1>1, InvariantHolds, PTL
=============================================================================

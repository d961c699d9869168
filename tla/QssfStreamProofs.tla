------------------------- MODULE QssfStreamProofs -------------------------
(***************************************************************************)
(* Proofs about QssfStream, for every set of streams, every size of the    *)
(* ring, of a read and of the fixed-size parts of the format.              *)
(***************************************************************************)
EXTENDS QssfStream, FiniteSetTheorems, SequenceTheorems, WellFoundedInduction, TLAPS

-----------------------------------------------------------------------------
(* Sequences of sequences.  What holds of all n is shown by looking at the   *)
(* least n it fails for, as a set, so no induction rule is needed.           *)

\* A set of naturals that is not empty has a least element.
LEMMA LeastOf ==
  ASSUME NEW T, T \subseteq Nat, T # {}
  PROVE  \E x \in T : \A y \in T : x <= y
<1>1. PICK R : R = {p \in Nat \X Nat : p[1] < p[2]}
  OBVIOUS
<1>2. IsWellFoundedOn(R, Nat)
  BY <1>1, NatLessThanWellFounded, Zenon DEF OpToRel
<1>3. PICK x \in T : \A y \in T : ~ (<<y, x>> \in R)
  BY <1>2, WFMin
<1>4. ASSUME NEW y \in T PROVE x <= y
  <2>1. <<y, x>> \in Nat \X Nat /\ <<y, x>> \notin R
    BY <1>3
  <2>2. ~ (y < x)
    BY <1>1, <2>1
  <2>3. QED
    BY <2>2
<1>5. QED
  BY <1>4

\* Step by step up to n.
UpTo(ss, g, n) ==
  g = [i \in 1..n |-> IF i = 1 THEN ss[i] ELSE g[i - 1] \o ss[i]]

\* The running concatenations of a sequence of sequences exist.
LEMMA RunningExists ==
  ASSUME NEW ss, NEW n \in Nat
  PROVE  \E g : UpTo(ss, g, n)
<1> DEFINE Bad == {m \in Nat : ~ \E g : UpTo(ss, g, m)}
<1>1. SUFFICES ASSUME Bad # {} PROVE FALSE
  OBVIOUS
<1>2. PICK m \in Bad : \A y \in Bad : m <= y
  BY <1>1, LeastOf
<1>3. m \in Nat /\ ~ \E g : UpTo(ss, g, m)
  OBVIOUS
<1>4. CASE m = 0
  <2>1. UpTo(ss, [i \in 1..0 |-> 0], 0)
    BY DEF UpTo
  <2>2. QED
    BY <1>3, <1>4, <2>1
<1>5. CASE m # 0
  <2>1. m - 1 \in Nat /\ m - 1 \notin Bad
    BY <1>2, <1>3, <1>5
  <2>2. PICK g : UpTo(ss, g, m - 1)
    BY <2>1
  <2>3. PICK h : h = [i \in 1..m |-> IF i = 1 THEN ss[i] ELSE g[i - 1] \o ss[i]]
    OBVIOUS
  <2>4. ASSUME NEW i \in 1 .. (m - 1) PROVE h[i] = g[i]
    <3>1. g[i] = IF i = 1 THEN ss[i] ELSE g[i - 1] \o ss[i]
      BY <2>2 DEF UpTo
    <3>2. i \in 1..m
      BY <1>3
    <3>3. QED
      BY <2>3, <3>1, <3>2
  <2>5. ASSUME NEW i \in 1..m, i # 1 PROVE h[i - 1] = g[i - 1]
    BY <1>3, <2>4, <2>5
  <2>6. UpTo(ss, h, m)
    BY <2>3, <2>5 DEF UpTo
  <2>7. QED
    BY <1>3, <2>6
<1>6. QED
  BY <1>4, <1>5

\* FlattenSeq returns the last of them.
LEMMA FlattenRuns ==
  ASSUME NEW ss, Len(ss) \in Nat \ {0}
  PROVE  \E g : UpTo(ss, g, Len(ss)) /\ FlattenSeq(ss) = g[Len(ss)]
<1> DEFINE g == CHOOSE g : UpTo(ss, g, Len(ss))
<1>1. UpTo(ss, g, Len(ss))
  BY RunningExists
<1>2. FlattenSeq(ss) = g[Len(ss)]
  BY DEF FlattenSeq, UpTo
<1>3. QED
  BY <1>1, <1>2

\* Where each sequence of ss ends in their concatenation.
Ends(ss, off) ==
  /\ off \in [0 .. Len(ss) -> Nat]
  /\ off[0] = 0
  /\ \A j \in 1 .. Len(ss) : off[j] = off[j - 1] + Len(ss[j])

\* t is the sequences of ss, one after the other.
Placed(ss, off, t) ==
  /\ Ends(ss, off)
  /\ Len(t) = off[Len(ss)]
  /\ \A j \in 1 .. Len(ss) : \A i \in 1 .. Len(ss[j]) : t[off[j - 1] + i] = ss[j][i]

\* FlattenSeq puts the sequences one after the other.
LEMMA FlattenPlaces ==
  ASSUME NEW S, NEW ss \in Seq(Seq(S))
  PROVE  FlattenSeq(ss) \in Seq(S) /\ \E off : Placed(ss, off, FlattenSeq(ss))
<1> DEFINE N == Len(ss)
<1>1. N \in Nat /\ \A j \in 1..N : ss[j] \in Seq(S) /\ Len(ss[j]) \in Nat
  BY LenProperties, ElementOfSeq
<1>2. CASE N = 0
  <2>1. ss = << >> /\ FlattenSeq(ss) = ss
    BY <1>2, EmptySeq DEF FlattenSeq
  <2>2. PICK off : off = [j \in 0..0 |-> 0]
    OBVIOUS
  <2>3. Ends(ss, off) /\ Len(FlattenSeq(ss)) = off[Len(ss)]
    BY <1>2, <2>1, <2>2 DEF Ends
  <2>4. FlattenSeq(ss) \in Seq(S)
    BY <2>1, EmptySeq
  <2>5. \A j \in 1 .. Len(ss) : \A i \in 1 .. Len(ss[j]) :
           FlattenSeq(ss)[off[j - 1] + i] = ss[j][i]
    BY <1>2
  <2>6. QED
    BY <2>3, <2>4, <2>5, Zenon DEF Placed
<1>3. CASE N # 0
  <2>1. PICK g : UpTo(ss, g, N) /\ FlattenSeq(ss) = g[N]
    BY <1>1, <1>3, FlattenRuns
  <2>2. ASSUME NEW i \in 1..N PROVE g[i] = IF i = 1 THEN ss[i] ELSE g[i - 1] \o ss[i]
    BY <2>1 DEF UpTo
  <2> HIDE DEF N
  <2>3. \A i \in 1..N : g[i] \in Seq(S)
    <3> DEFINE Bad == {i \in 1..N : g[i] \notin Seq(S)}
    <3>1. SUFFICES ASSUME Bad # {} PROVE FALSE
      OBVIOUS
    <3>2. PICK i \in Bad : \A y \in Bad : i <= y
      <4>1. Bad \subseteq Nat
        OBVIOUS
      <4>2. QED
        BY <3>1, <4>1, LeastOf
    <3>3. i \in 1..N /\ g[i] \notin Seq(S)
      OBVIOUS
    <3>4. CASE i = 1
      BY <1>1, <2>2, <3>3, <3>4
    <3>5. CASE i # 1
      <4>1. i - 1 \in 1..N /\ i - 1 \notin Bad
        BY <1>1, <3>2, <3>3, <3>5
      <4>2. g[i - 1] \in Seq(S)
        BY <4>1
      <4>3. g[i] \in Seq(S)
        <5>1. g[i] = g[i - 1] \o ss[i] /\ ss[i] \in Seq(S)
          BY <1>1, <2>2, <3>3, <3>5
        <5>2. g[i - 1] \o ss[i] \in Seq(S)
          BY <4>2, <5>1, ConcatProperties
        <5>3. QED
          BY <5>1, <5>2
      <4>4. QED
        BY <3>3, <4>3
    <3>6. QED
      BY <3>4, <3>5
  <2>4. PICK off : off = [j \in 0..N |-> IF j = 0 THEN 0 ELSE Len(g[j])]
    OBVIOUS
  <2>5. ASSUME NEW j \in 1..N
        PROVE  /\ off[j] \in Nat /\ off[j] = Len(g[j]) /\ off[j] = off[j - 1] + Len(ss[j])
               /\ off[j - 1] \in Nat
               /\ \A i \in 1 .. Len(ss[j]) : g[j][off[j - 1] + i] = ss[j][i]
               /\ j > 1 => \A i \in 1 .. off[j - 1] : g[j][i] = g[j - 1][i]
    <3>1. off[j] = Len(g[j]) /\ off[j] \in Nat
      BY <1>1, <2>3, <2>4, LenProperties
    <3>2. CASE j = 1
      BY <1>1, <2>2, <2>4, <3>1, <3>2
    <3>3. CASE j # 1
      <4>1. j - 1 \in 1..N /\ off[j - 1] = Len(g[j - 1]) /\ g[j - 1] \in Seq(S)
        BY <1>1, <2>3, <2>4, <3>3
      <4>2. off[j - 1] \in Nat
        BY <4>1, LenProperties
      <4>3. g[j] = g[j - 1] \o ss[j]
        BY <2>2, <3>3
      <4>4. /\ Len(g[j]) = off[j - 1] + Len(ss[j])
            /\ \A i \in 1 .. off[j - 1] + Len(ss[j]) : g[j][i] =
                 IF i <= off[j - 1] THEN g[j - 1][i] ELSE ss[j][i - off[j - 1]]
        <5>1. ss[j] \in Seq(S)
          BY <1>1
        <5>2. /\ Len(g[j - 1] \o ss[j]) = Len(g[j - 1]) + Len(ss[j])
              /\ \A i \in 1 .. Len(g[j - 1]) + Len(ss[j]) : (g[j - 1] \o ss[j])[i] =
                   IF i <= Len(g[j - 1]) THEN g[j - 1][i] ELSE ss[j][i - Len(g[j - 1])]
          BY <4>1, <5>1, ConcatProperties
        <5>3. QED
          BY <4>1, <4>3, <5>2
      <4>5. ASSUME NEW i \in 1 .. Len(ss[j]) PROVE g[j][off[j - 1] + i] = ss[j][i]
        <5>1. /\ off[j - 1] + i \in 1 .. off[j - 1] + Len(ss[j])
              /\ ~ (off[j - 1] + i <= off[j - 1]) /\ (off[j - 1] + i) - off[j - 1] = i
          BY SMTT(30), <1>1, <4>2
        <5>2. PICK x : x = off[j - 1] + i
          OBVIOUS
        <5>3. x \in 1 .. off[j - 1] + Len(ss[j]) /\ ~ (x <= off[j - 1]) /\ x - off[j - 1] = i
          BY <5>1, <5>2
        <5>4. g[j][x] = ss[j][x - off[j - 1]]
          BY <4>4, <5>3, Zenon
        <5>5. QED
          BY <5>2, <5>3, <5>4, Zenon
      <4>6. ASSUME NEW i \in 1 .. off[j - 1] PROVE g[j][i] = g[j - 1][i]
        <5>1. i \in 1 .. off[j - 1] + Len(ss[j]) /\ i <= off[j - 1]
          BY <1>1, <4>2, LenProperties
        <5>2. g[j][i] = IF i <= off[j - 1] THEN g[j - 1][i] ELSE ss[j][i - off[j - 1]]
          BY <4>4, <5>1, Zenon
        <5>3. QED
          BY <5>1, <5>2, Zenon
      <4>7. off[j] = off[j - 1] + Len(ss[j])
        BY <3>1, <4>4
      <4>8. QED
        BY <3>1, <4>2, <4>5, <4>6, <4>7, Zenon
    <3>4. QED
      BY <3>2, <3>3
  <2>6. ASSUME NEW j \in 1..N, NEW i \in 1 .. Len(ss[j])
        PROVE  \A m \in j..N : off[j - 1] + i <= off[m] /\ g[m][off[j - 1] + i] = ss[j][i]
    <3>0. off[j - 1] \in Nat /\ i \in Nat \ {0}
      BY <1>1, <2>5
    <3> DEFINE Holds(m) == off[j - 1] + i <= off[m] /\ g[m][off[j - 1] + i] = ss[j][i]
               Bad == {m \in j..N : ~ Holds(m)}
    <3>1. SUFFICES ASSUME Bad # {} PROVE FALSE
      OBVIOUS
    <3>2. PICK m \in Bad : \A y \in Bad : m <= y
      <4>1. Bad \subseteq Nat
        BY <1>1
      <4>2. QED
        BY <3>1, <4>1, LeastOf
    <3>3. m \in j..N /\ ~ Holds(m)
      OBVIOUS
    <3>4. CASE m = j
      BY <1>1, <2>5, <3>3, <3>4
    <3>5. CASE m # j
      <4>1. m - 1 \in j..N /\ m - 1 \in 1..N /\ m \in 1..N /\ m > 1 /\ m - 1 \notin Bad
        BY <1>1, <3>2, <3>3, <3>5
      <4>2. off[j - 1] + i <= off[m - 1] /\ g[m - 1][off[j - 1] + i] = ss[j][i]
        BY <4>1
      <4>3. off[m] = off[m - 1] + Len(ss[m]) /\ off[m - 1] \in Nat /\ Len(ss[m]) \in Nat
            /\ \A k \in 1 .. off[m - 1] : g[m][k] = g[m - 1][k]
        BY <1>1, <2>5, <4>1
      <4>4. off[j - 1] + i \in 1 .. off[m - 1]
        BY SMTT(30), <3>0, <4>2, <4>3
      <4>5. g[m][off[j - 1] + i] = ss[j][i]
        BY <4>2, <4>3, <4>4
      <4>6. off[j - 1] + i <= off[m]
        <5>1. PICK x : x = off[j - 1] + i
          OBVIOUS
        <5>2. PICK y, z, l : y = off[m - 1] /\ z = off[m] /\ l = Len(ss[m])
          OBVIOUS
        <5>3. y \in Nat /\ l \in Nat /\ z = y + l /\ x <= y
          BY <4>2, <4>3, <5>1, <5>2, Zenon
        <5>4. x \in Nat
          BY <3>0, <5>1
        <5>5. x <= z
          BY <5>3, <5>4
        <5>6. QED
          BY <5>1, <5>2, <5>5, Zenon
      <4>7. QED
        BY <3>3, <4>5, <4>6
    <3>6. QED
      BY <3>4, <3>5
  <2>7. N \in 1..N /\ g[N] \in Seq(S) /\ off[N] = Len(g[N])
    BY SMTT(30), <1>1, <1>3, <2>3, <2>5
  <2>8. Ends(ss, off)
    <3>1. \A j \in 0..N : off[j] \in Nat
      BY <1>1, <2>4, <2>5
    <3>2. off \in [0..N -> Nat] /\ off[0] = 0
      BY <1>1, <2>4, <3>1
    <3>3. \A j \in 1..N : off[j] = off[j - 1] + Len(ss[j])
      BY <2>5
    <3>4. QED
      BY <3>2, <3>3 DEF Ends, N
  <2>9. \A j \in 1..N : \A i \in 1 .. Len(ss[j]) : g[N][off[j - 1] + i] = ss[j][i]
    <3> SUFFICES ASSUME NEW j \in 1..N, NEW i \in 1 .. Len(ss[j])
                 PROVE  g[N][off[j - 1] + i] = ss[j][i]
      OBVIOUS
    <3>1. N \in j..N
      BY <1>1
    <3>2. QED
      BY <2>6, <3>1
  <2>10. /\ FlattenSeq(ss) \in Seq(S)
         /\ Len(FlattenSeq(ss)) = off[Len(ss)]
         /\ \A j \in 1 .. Len(ss) : \A i \in 1 .. Len(ss[j]) :
              FlattenSeq(ss)[off[j - 1] + i] = ss[j][i]
    BY <2>1, <2>7, <2>9 DEF N
  <2>11. QED
    BY <2>8, <2>10, Zenon DEF Placed
<1>4. QED
  BY <1>2, <1>3

\* No sequence ends before an earlier one.
LEMMA EndsGrow ==
  ASSUME NEW S, NEW ss \in Seq(Seq(S)), NEW off, Ends(ss, off), NEW j \in 0 .. Len(ss)
  PROVE  \A k \in j .. Len(ss) : off[j] <= off[k]
<1>1. Len(ss) \in Nat /\ \A k \in 1 .. Len(ss) : Len(ss[k]) \in Nat
  BY LenProperties, ElementOfSeq
<1>2. \A k \in 0 .. Len(ss) : off[k] \in Nat
  BY DEF Ends
<1> DEFINE Bad == {k \in j .. Len(ss) : ~ (off[j] <= off[k])}
<1>3. SUFFICES ASSUME Bad # {} PROVE FALSE
  OBVIOUS
<1>4. PICK k \in Bad : \A y \in Bad : k <= y
  <2>1. Bad \subseteq Nat
    BY <1>1
  <2>2. QED
    BY <1>3, <2>1, LeastOf
<1>5. k \in j .. Len(ss) /\ ~ (off[j] <= off[k]) /\ k # j
  BY <1>2
<1>6. k - 1 \in j .. Len(ss) /\ k \in 1 .. Len(ss) /\ k - 1 \notin Bad
  BY <1>1, <1>4, <1>5
<1>7. off[j] <= off[k - 1]
  BY <1>6
<1>8. off[k] = off[k - 1] + Len(ss[k]) /\ off[k - 1] \in Nat /\ Len(ss[k]) \in Nat
      /\ off[j] \in Nat
  BY <1>1, <1>2, <1>6 DEF Ends
<1>9. QED
  BY <1>5, <1>7, <1>8

\* Every place in the concatenation is in one of the sequences.
LEMMA EndsCover ==
  ASSUME NEW S, NEW ss \in Seq(Seq(S)), NEW off, Ends(ss, off), NEW q \in 1 .. off[Len(ss)]
  PROVE  \E j \in 1 .. Len(ss) : off[j - 1] < q /\ q <= off[j]
<1> DEFINE T == {k \in 0 .. Len(ss) : q <= off[k]}
<1>1. Len(ss) \in Nat /\ \A k \in 0 .. Len(ss) : off[k] \in Nat
  BY LenProperties DEF Ends
<1>2. Len(ss) \in T /\ T \subseteq Nat
  BY <1>1
<1>3. PICK k \in T : \A y \in T : k <= y
  BY <1>2, LeastOf
<1>4. k \in 0 .. Len(ss) /\ q <= off[k] /\ k # 0
  BY <1>1 DEF Ends
<1>5. k - 1 \in 0 .. Len(ss) /\ k - 1 \notin T
  BY <1>1, <1>3, <1>4
<1>6. ~ (q <= off[k - 1])
  BY <1>5
<1>7. off[k - 1] \in Nat /\ q \in Nat
  <2>1. Len(ss) \in 0 .. Len(ss)
    BY <1>1
  <2>2. off[Len(ss)] \in Nat
    BY <1>1, <2>1
  <2>3. QED
    BY <1>1, <1>5, <2>2
<1>8. k \in 1 .. Len(ss) /\ off[k - 1] < q
  BY <1>1, <1>4, <1>6, <1>7
<1>9. QED
  BY <1>4, <1>8

-----------------------------------------------------------------------------
(* The bytes of a stream *)

Parts == {"zero", "file_header", "header", "de_len", "de", "meas", "timing", "parity",
          "tag_count", "tag", "value", "count", "annotations", "terminator"}

AnyByte == Nat \X Parts \X Nat \X Nat

\* The fixed parts have bytes.
LEMMA WireLengths ==
  /\ FileHeaderLen \in Nat \ {0} /\ FrameHeaderLen \in Nat \ {0} /\ PrefixLen \in Nat \ {0}
  /\ TagHeaderLen \in Nat \ {0} /\ AnnotationLen \in Nat \ {0} /\ TerminatorLen \in Nat \ {0}
BY WireAssumption

\* A run of bytes: its length, its bytes, and of what kind they are.
LEMMA BytesAre ==
  ASSUME NEW f, NEW part, NEW j, NEW n \in Nat
  PROVE  /\ Len(Bytes(f, part, j, n)) = n
         /\ \A k \in 1..n : Bytes(f, part, j, n)[k] = <<f, part, j, k>>
         /\ \A S : (\A k \in 1..n : <<f, part, j, k>> \in S) => Bytes(f, part, j, n) \in Seq(S)
<1>1. Bytes(f, part, j, n) = [k \in 1..n |-> <<f, part, j, k>>]
  BY DEF Bytes
<1>2. \A k \in 1..n : Bytes(f, part, j, n)[k] = <<f, part, j, k>>
  BY <1>1
<1>3. ASSUME NEW S, \A k \in 1..n : <<f, part, j, k>> \in S
      PROVE  Bytes(f, part, j, n) \in Seq(S) /\ Len(Bytes(f, part, j, n)) = n
  BY <1>1, <1>3
<1>4. Len(Bytes(f, part, j, n)) = n
  BY <1>1
<1>5. QED
  BY <1>2, <1>3, <1>4

\* What a byte of frame f can be: a tag's byte names a tag that the frame has.
FrameByte(f, fr) ==
  {b \in AnyByte : b[1] = f /\ b[2] # "file_header" /\ (b[2] = "tag" => b[3] \in DOMAIN fr.tags)}

\* A byte of the frame that is not of its header.
BodyByte(f, fr) == {b \in FrameByte(f, fr) : b[2] # "header"}

\* The parts of a frame from its payload on.
Annotated(f, fr) == AnnotationBlock(f, fr) \o Bytes(f, "terminator", 0, TerminatorLen)

Described(f, fr) == MetadataBlock(f, fr) \o Annotated(f, fr)

FourFields(f, fr) ==
  Bytes(f, "de", 0, Len(fr.detector_events)) \o
  (Bytes(f, "meas", 0, fr.ancilla_count) \o
  (Bytes(f, "timing", 0, TimingLen(fr)) \o
  Bytes(f, "parity", 0, ParityLen(fr))))

\* The frame after its header.
Body(f, fr) ==
  Bytes(f, "de_len", 0, PrefixLen) \o (FourFields(f, fr) \o Described(f, fr))

\* The lengths in a frame are numbers.
LEMMA FrameLengths ==
  ASSUME NEW fr \in Frame
  PROVE  /\ fr.id \in Nat
         /\ Len(fr.detector_events) \in Nat
         /\ fr.ancilla_count \in Nat
         /\ TimingLen(fr) \in Nat
         /\ ParityLen(fr) \in Nat
         /\ fr.tags \in Seq(Nat)
         /\ fr.annotations \in Nat
         /\ fr.annotations * AnnotationLen \in Nat
<1>1. fr.id \in Nat /\ fr.ancilla_count \in Nat /\ fr.tags \in Seq(Nat) /\ fr.annotations \in Nat
      /\ fr.detector_events \in Seq([mode : BOOLEAN, run : Nat])
  BY DEF Frame
<1>2. TimingLen(fr) \in Nat
  BY <1>1 DEF TimingLen
<1>3. ParityLen(fr) \in Nat
  BY <1>1 DEF ParityLen
<1>4. fr.annotations * AnnotationLen \in Nat
  BY <1>1, WireLengths
<1>5. Len(fr.detector_events) \in Nat
  BY <1>1, LenProperties
<1>6. QED
  BY <1>1, <1>2, <1>3, <1>4, <1>5

\* The bytes of a part of the body that is not its tags are bytes of the body.
LEMMA PartBytes ==
  ASSUME NEW f \in Nat, NEW fr, NEW part \in Parts, NEW j \in Nat, NEW n \in Nat,
         part \notin {"file_header", "header"}, part = "tag" => j \in DOMAIN fr.tags
  PROVE  Bytes(f, part, j, n) \in Seq(BodyByte(f, fr))
<1>1. \A k \in 1..n : <<f, part, j, k>> \in BodyByte(f, fr)
  BY DEF BodyByte, FrameByte, AnyByte
<1>2. QED
  BY <1>1, BytesAre

\* The header and the value of each tag.
TagBytes(f, fr) ==
  [j \in DOMAIN fr.tags |->
     Bytes(f, "tag", j, TagHeaderLen) \o Bytes(f, "value", j, fr.tags[j])]

\* They are as many as the frame has tags.
LEMMA TagBytesAre ==
  ASSUME NEW f \in Nat, NEW fr \in Frame
  PROVE  /\ TagBytes(f, fr) \in Seq(Seq(BodyByte(f, fr)))
         /\ Len(TagBytes(f, fr)) = Len(fr.tags)
         /\ \A j \in 1 .. Len(fr.tags) :
              /\ TagBytes(f, fr)[j] = Bytes(f, "tag", j, TagHeaderLen) \o Bytes(f, "value", j, fr.tags[j])
              /\ Len(TagBytes(f, fr)[j]) = TagHeaderLen + fr.tags[j]
<1> DEFINE N == Len(fr.tags)
           Item(j) == Bytes(f, "tag", j, TagHeaderLen) \o Bytes(f, "value", j, fr.tags[j])
<1>1. fr.tags \in Seq(Nat) /\ N \in Nat /\ DOMAIN fr.tags = 1..N /\ \A j \in 1..N : fr.tags[j] \in Nat
  BY FrameLengths, LenProperties, ElementOfSeq
<1>2. ASSUME NEW j \in 1..N
      PROVE  Item(j) \in Seq(BodyByte(f, fr)) /\ Len(Item(j)) = TagHeaderLen + fr.tags[j]
  <2>1. /\ Bytes(f, "tag", j, TagHeaderLen) \in Seq(BodyByte(f, fr))
        /\ Bytes(f, "value", j, fr.tags[j]) \in Seq(BodyByte(f, fr))
    <3>1. j \in Nat /\ j \in DOMAIN fr.tags /\ fr.tags[j] \in Nat /\ TagHeaderLen \in Nat
      BY <1>1, WireLengths
    <3>2. Bytes(f, "tag", j, TagHeaderLen) \in Seq(BodyByte(f, fr))
      BY <3>1, PartBytes DEF Parts
    <3>3. Bytes(f, "value", j, fr.tags[j]) \in Seq(BodyByte(f, fr))
      BY <3>1, PartBytes DEF Parts
    <3>4. QED
      BY <3>2, <3>3
  <2>2. /\ Len(Bytes(f, "tag", j, TagHeaderLen)) = TagHeaderLen
        /\ Len(Bytes(f, "value", j, fr.tags[j])) = fr.tags[j]
    BY <1>1, BytesAre, WireLengths
  <2>3. \A s, t \in Seq(BodyByte(f, fr)) :
           s \o t \in Seq(BodyByte(f, fr)) /\ Len(s \o t) = Len(s) + Len(t)
    BY ConcatProperties
  <2>4. QED
    BY <2>1, <2>2, <2>3
<1>3. TagBytes(f, fr) = [j \in 1..N |-> Item(j)]
  BY <1>1 DEF TagBytes
<1> HIDE DEF Item
<1>4. TagBytes(f, fr) \in Seq(Seq(BodyByte(f, fr))) /\ Len(TagBytes(f, fr)) = N
  BY <1>1, <1>2, <1>3
<1>5. \A j \in 1..N : TagBytes(f, fr)[j] = Item(j) /\ Len(Item(j)) = TagHeaderLen + fr.tags[j]
  BY <1>2, <1>3
<1>6. QED
  BY <1>4, <1>5 DEF Item


\* The tags of a frame, one after the other.
Tags(f, fr) == FlattenSeq(TagBytes(f, fr))

\* Each part of a frame is a sequence of bytes of its body.
LEMMA BodyBytes ==
  ASSUME NEW f \in Nat, NEW fr \in Frame
  PROVE  /\ MetadataBlock(f, fr) \in Seq(BodyByte(f, fr))
         /\ AnnotationBlock(f, fr) \in Seq(BodyByte(f, fr))
         /\ Annotated(f, fr) \in Seq(BodyByte(f, fr))
         /\ Described(f, fr) \in Seq(BodyByte(f, fr))
         /\ FourFields(f, fr) \in Seq(BodyByte(f, fr))
         /\ Body(f, fr) \in Seq(BodyByte(f, fr))
<1> DEFINE B == Seq(BodyByte(f, fr))
<1>1. \A s, t \in B : s \o t \in B
  BY ConcatProperties
<1>2. << >> \in B
  BY EmptySeq
<1>3. /\ Len(fr.detector_events) \in Nat /\ fr.ancilla_count \in Nat /\ TimingLen(fr) \in Nat
      /\ ParityLen(fr) \in Nat /\ fr.annotations * AnnotationLen \in Nat
      /\ PrefixLen \in Nat /\ TerminatorLen \in Nat
  BY FrameLengths, WireLengths
<1>4. \A part \in Parts \ {"file_header", "header", "tag"} : \A n \in Nat : Bytes(f, part, 0, n) \in B
  BY PartBytes
<1> HIDE DEF B
<1>5. MetadataBlock(f, fr) \in B
  <2>1. Tags(f, fr) \in B
    BY TagBytesAre, FlattenPlaces DEF B, Tags
  <2>2. Bytes(f, "tag_count", 0, PrefixLen) \in B
    BY <1>3, <1>4 DEF Parts
  <2>3. QED
    BY <1>1, <1>2, <2>1, <2>2 DEF MetadataBlock, Tags, TagBytes
<1>6. AnnotationBlock(f, fr) \in B
  <2>1. /\ Bytes(f, "count", 0, 1) \in B
        /\ Bytes(f, "annotations", 0, fr.annotations * AnnotationLen) \in B
    BY <1>3, <1>4 DEF Parts
  <2>2. QED
    BY <1>1, <1>2, <2>1 DEF AnnotationBlock
<1>7. Annotated(f, fr) \in B
  <2>1. Bytes(f, "terminator", 0, TerminatorLen) \in B
    BY <1>3, <1>4 DEF Parts
  <2>2. QED
    BY <1>1, <1>6, <2>1 DEF Annotated
<1>8. Described(f, fr) \in B
  BY <1>1, <1>5, <1>7 DEF Described
<1>9. FourFields(f, fr) \in B
  <2>1. /\ Bytes(f, "de", 0, Len(fr.detector_events)) \in B
        /\ Bytes(f, "meas", 0, fr.ancilla_count) \in B
        /\ Bytes(f, "timing", 0, TimingLen(fr)) \in B
        /\ Bytes(f, "parity", 0, ParityLen(fr)) \in B
    BY <1>3, <1>4 DEF Parts
  <2>2. QED
    BY <1>1, <2>1 DEF FourFields
<1>10. Body(f, fr) \in B
  <2>1. Bytes(f, "de_len", 0, PrefixLen) \in B
    BY <1>3, <1>4 DEF Parts
  <2>2. QED
    BY <1>1, <1>8, <1>9, <2>1 DEF Body
<1>11. QED
  BY <1>5, <1>6, <1>7, <1>8, <1>9, <1>10 DEF B

\* A frame is its header and then its body.
LEMMA FrameParts ==
  ASSUME NEW f \in Nat, NEW fr \in Frame
  PROVE  /\ FrameBytes(f, fr) = Bytes(f, "header", 0, FrameHeaderLen) \o Body(f, fr)
         /\ Bytes(f, "header", 0, FrameHeaderLen) \in Seq(FrameByte(f, fr))
         /\ Body(f, fr) \in Seq(FrameByte(f, fr))
         /\ FrameBytes(f, fr) \in Seq(FrameByte(f, fr))
<1> DEFINE S == Seq(FrameByte(f, fr))
           h == Bytes(f, "header", 0, FrameHeaderLen)
           b == Bytes(f, "de_len", 0, PrefixLen)
           c == Bytes(f, "de", 0, Len(fr.detector_events))
           d == Bytes(f, "meas", 0, fr.ancilla_count)
           e == Bytes(f, "timing", 0, TimingLen(fr))
           g == Bytes(f, "parity", 0, ParityLen(fr))
           m == MetadataBlock(f, fr)
           n == AnnotationBlock(f, fr)
           t == Bytes(f, "terminator", 0, TerminatorLen)
<1>1. h \in S
  <2>1. \A k \in 1 .. FrameHeaderLen : <<f, "header", 0, k>> \in FrameByte(f, fr)
    BY WireLengths DEF FrameByte, AnyByte, Parts
  <2>2. QED
    BY <2>1, BytesAre, WireLengths
<1>2. \A s \in Seq(BodyByte(f, fr)) : s \in S
  BY SeqMonotonic DEF BodyByte
<1>3. b \in S /\ c \in S /\ d \in S /\ e \in S /\ g \in S /\ t \in S
  <2>1. /\ Len(fr.detector_events) \in Nat /\ fr.ancilla_count \in Nat /\ TimingLen(fr) \in Nat
        /\ ParityLen(fr) \in Nat /\ PrefixLen \in Nat /\ TerminatorLen \in Nat
    BY FrameLengths, WireLengths
  <2>2. \A part \in Parts \ {"file_header", "header", "tag"} : \A i \in Nat :
           Bytes(f, part, 0, i) \in Seq(BodyByte(f, fr))
    BY PartBytes
  <2>3. QED
    BY <1>2, <2>1, <2>2 DEF Parts
<1>4. m \in S /\ n \in S
  BY <1>2, BodyBytes
<1>5. \A s1, s2 \in S : s1 \o s2 \in S
  BY ConcatProperties
<1>6. \A s1, s2, s3 \in S : \A x, y : x = s1 \o s2 /\ y = s2 \o s3 => x \o s3 = s1 \o y
  BY SMTT(30), ConcatAssociative
<1>7. FrameBytes(f, fr) = (((((((h \o b) \o c) \o d) \o e) \o g) \o m) \o n) \o t
  BY DEF FrameBytes
<1>8. Body(f, fr) = b \o ((c \o (d \o (e \o g))) \o (m \o (n \o t)))
  BY DEF Body, FourFields, Described, Annotated
<1> HIDE DEF S, h, b, c, d, e, g, m, n, t
<1>9. PICK p1 : p1 = h \o b
  OBVIOUS
<1>10. PICK p2 : p2 = p1 \o c
  OBVIOUS
<1>11. PICK p3 : p3 = p2 \o d
  OBVIOUS
<1>12. PICK p4 : p4 = p3 \o e
  OBVIOUS
<1>13. PICK p5 : p5 = p4 \o g
  OBVIOUS
<1>14. PICK p6 : p6 = p5 \o m
  OBVIOUS
<1>15. p1 \in S /\ p2 \in S /\ p3 \in S /\ p4 \in S /\ p5 \in S /\ p6 \in S
  BY <1>1, <1>3, <1>4, <1>5, <1>9, <1>10, <1>11, <1>12, <1>13, <1>14, Zenon
<1>16. PICK q1 : q1 = n \o t
  OBVIOUS
<1>17. PICK q2 : q2 = m \o q1
  OBVIOUS
<1>18. PICK r1 : r1 = e \o g
  OBVIOUS
<1>19. PICK r2 : r2 = d \o r1
  OBVIOUS
<1>20. PICK r3 : r3 = c \o r2
  OBVIOUS
<1>21. q1 \in S /\ q2 \in S /\ r1 \in S /\ r2 \in S /\ r3 \in S
  BY <1>3, <1>4, <1>5, <1>16, <1>17, <1>18, <1>19, <1>20, Zenon
<1>22. FrameBytes(f, fr) = p5 \o q2
  <2>1. PICK p7 : p7 = p6 \o n
    OBVIOUS
  <2>2. FrameBytes(f, fr) = p7 \o t /\ p7 \o t = p6 \o q1
    <3>1. FrameBytes(f, fr) = p7 \o t
      BY <1>7, <1>9, <1>10, <1>11, <1>12, <1>13, <1>14, <2>1, Zenon
    <3>2. p7 \o t = p6 \o q1
      BY SMTT(30), <1>3, <1>4, <1>6, <1>15, <1>16, <2>1
    <3>3. QED
      BY <3>1, <3>2
  <2>3. p6 \o q1 = p5 \o q2
    BY SMTT(30), <1>4, <1>6, <1>14, <1>15, <1>17, <1>21
  <2>4. QED
    BY <2>2, <2>3, Zenon
<1>23. p5 = p1 \o r3
  <2>1. p5 = p3 \o r1
    BY SMTT(30), <1>3, <1>6, <1>12, <1>13, <1>15, <1>18
  <2>2. p3 \o r1 = p2 \o r2
    <3>1. p2 \in S /\ d \in S /\ r1 \in S
      BY <1>3, <1>15, <1>21
    <3>2. QED
      BY <1>6, <1>11, <1>19, <3>1
  <2>3. p2 \o r2 = p1 \o r3
    <3>1. p1 \in S /\ c \in S /\ r2 \in S
      BY <1>3, <1>15, <1>21
    <3>2. QED
      BY <1>6, <1>10, <1>20, <3>1
  <2>4. QED
    BY <2>1, <2>2, <2>3, Zenon
<1>24. PICK z : z = r3 \o q2
  OBVIOUS
<1>25. z \in S /\ p5 \o q2 = p1 \o z
  BY SMTT(30), <1>5, <1>6, <1>15, <1>21, <1>23, <1>24
<1>26. p1 \o z = h \o (b \o z)
  BY SMTT(30), <1>1, <1>3, <1>6, <1>9, <1>25
<1>27. Body(f, fr) = b \o z
  BY <1>8, <1>16, <1>17, <1>18, <1>19, <1>20, <1>24, Zenon
<1>28. FrameBytes(f, fr) = h \o Body(f, fr)
  BY <1>22, <1>25, <1>26, <1>27, Zenon
<1>29. Body(f, fr) \in S /\ h \o Body(f, fr) \in S
  BY <1>1, <1>3, <1>5, <1>25, <1>27, Zenon
<1>30. QED
  BY <1>1, <1>28, <1>29, Zenon DEF S, h

\* What a byte of a stream can be.
StreamByte(fs) ==
  {b \in AnyByte : /\ b[1] \in {0} \cup DOMAIN fs
                   /\ b[1] # 0 /\ b[2] = "tag" => b[3] \in DOMAIN fs[b[1]].tags}

\* s stands in the stream after its first q bytes.
Stands(stream, q, s) ==
  /\ q \in Nat
  /\ q + Len(s) <= Len(stream)
  /\ \A k \in 1 .. Len(s) : stream[q + k] = s[k]

\* A stream is the file header, and then the frames in order; every byte after
\* the file header is in one of them.
LEMMA StreamPlaces ==
  ASSUME NEW fs \in Seq(Frame)
  PROVE  /\ StreamBytes(fs) \in Seq(StreamByte(fs))
         /\ \A p \in 1 .. FileHeaderLen : p <= Len(StreamBytes(fs))
                                           /\ StreamBytes(fs)[p] = <<0, "file_header", 0, p>>
         /\ \E at \in [1 .. Len(fs) -> Nat] :
              /\ \A j \in 1 .. Len(fs) : Stands(StreamBytes(fs), at[j], FrameBytes(j, fs[j]))
              /\ \A p \in 1 .. Len(StreamBytes(fs)) : p > FileHeaderLen =>
                   \E j \in 1 .. Len(fs) : p - at[j] \in 1 .. Len(FrameBytes(j, fs[j]))
<1> DEFINE N == Len(fs)
           S == StreamByte(fs)
           h == Bytes(0, "file_header", 0, FileHeaderLen)
           ss == [j \in DOMAIN fs |-> FrameBytes(j, fs[j])]
           t == FlattenSeq(ss)
<1>1. N \in Nat /\ DOMAIN fs = 1..N /\ \A j \in 1..N : fs[j] \in Frame
  BY LenProperties, ElementOfSeq
<1>2. ASSUME NEW j \in 1..N
      PROVE  FrameBytes(j, fs[j]) \in Seq(S) /\ Len(FrameBytes(j, fs[j])) \in Nat
  <2>1. FrameBytes(j, fs[j]) \in Seq(FrameByte(j, fs[j]))
    BY <1>1, FrameParts
  <2>2. FrameByte(j, fs[j]) \subseteq S
    BY <1>1 DEF FrameByte, StreamByte
  <2>3. QED
    BY <2>1, <2>2, SeqMonotonic, LenProperties
<1>3. ss = [j \in 1..N |-> FrameBytes(j, fs[j])]
  BY <1>1
<1>4. ss \in Seq(Seq(S)) /\ Len(ss) = N /\ \A j \in 1..N : ss[j] = FrameBytes(j, fs[j])
  BY <1>1, <1>2, <1>3
<1>5. /\ h \in Seq(S) /\ Len(h) = FileHeaderLen /\ FileHeaderLen \in Nat
      /\ \A p \in 1 .. FileHeaderLen : h[p] = <<0, "file_header", 0, p>>
  <2>1. \A k \in 1 .. FileHeaderLen : <<0, "file_header", 0, k>> \in S
    BY WireLengths DEF StreamByte, AnyByte, Parts
  <2>2. QED
    BY <2>1, BytesAre, WireLengths
<1>6. StreamBytes(fs) = h \o t
  BY DEF StreamBytes
<1> HIDE DEF S, h, ss
<1>7. t \in Seq(S)
  BY <1>4, FlattenPlaces
<1>8. PICK off : /\ Ends(ss, off)
                 /\ Len(t) = off[N]
                 /\ \A j \in 1..N : \A i \in 1 .. Len(ss[j]) : t[off[j - 1] + i] = ss[j][i]
  <2>1. PICK off : Placed(ss, off, t)
    BY <1>4, FlattenPlaces
  <2>2. Len(ss) = N
    BY <1>4
  <2>3. QED
    BY <2>1, <2>2 DEF Placed
<1>9. /\ off \in [0..N -> Nat]
      /\ \A j \in 1..N : off[j] = off[j - 1] + Len(ss[j])
  BY <1>4, <1>8 DEF Ends
<1>10. ASSUME NEW j \in 1..N PROVE off[j] <= off[N] /\ off[j - 1] \in Nat
  <2>1. \A i \in 0..N : \A k \in i..N : off[i] <= off[k]
    BY <1>4, <1>8, EndsGrow
  <2>2. j \in 0..N /\ j - 1 \in 0..N /\ N \in j..N
    BY <1>1
  <2>3. QED
    BY <1>9, <2>1, <2>2
<1> HIDE DEF t
<1>11. /\ h \o t \in Seq(S) /\ Len(h \o t) = FileHeaderLen + off[N]
       /\ \A i \in 1 .. FileHeaderLen + off[N] :
             (h \o t)[i] = IF i <= FileHeaderLen THEN h[i] ELSE t[i - FileHeaderLen]
  <2>1. /\ h \o t \in Seq(S) /\ Len(h \o t) = Len(h) + Len(t)
        /\ \A i \in 1 .. Len(h) + Len(t) : (h \o t)[i] = IF i <= Len(h) THEN h[i] ELSE t[i - Len(h)]
    BY <1>5, <1>7, ConcatProperties
  <2>2. Len(h) = FileHeaderLen /\ Len(t) = off[N]
    BY <1>5, <1>8
  <2>3. QED
    BY <2>1, <2>2
<1>12. off[N] \in Nat
  BY <1>1, <1>9
<1>13. PICK at : at = [j \in 1..N |-> FileHeaderLen + off[j - 1]]
  OBVIOUS
<1>14. at \in [1..N -> Nat] /\ \A j \in 1..N : at[j] = FileHeaderLen + off[j - 1]
  BY <1>5, <1>10, <1>13
<1>15. ASSUME NEW j \in 1..N PROVE Stands(h \o t, at[j], FrameBytes(j, fs[j]))
  <2>1. FrameBytes(j, fs[j]) = ss[j] /\ Len(ss[j]) \in Nat
    BY <1>2, <1>4
  <2>2. at[j] + Len(ss[j]) <= Len(h \o t)
    BY <1>5, <1>9, <1>10, <1>11, <1>12, <1>14, <2>1
  <2>3. ASSUME NEW k \in 1 .. Len(ss[j]) PROVE (h \o t)[at[j] + k] = ss[j][k]
    <3>1. /\ at[j] + k \in 1 .. FileHeaderLen + off[N] /\ ~ (at[j] + k <= FileHeaderLen)
          /\ (at[j] + k) - FileHeaderLen = off[j - 1] + k
      <4>1. /\ at[j] = FileHeaderLen + off[j - 1] /\ off[j] = off[j - 1] + Len(ss[j])
            /\ off[j] <= off[N] /\ off[j - 1] \in Nat /\ off[N] \in Nat /\ Len(ss[j]) \in Nat
            /\ FileHeaderLen \in Nat
        BY <1>5, <1>9, <1>10, <1>12, <1>14, <2>1
      <4>2. PICK x, y, z, w, v : x = at[j] /\ y = off[j - 1] /\ z = off[N] /\ w = off[j] /\ v = Len(ss[j])
        OBVIOUS
      <4>3. k \in 1 .. v
        BY <4>2
      <4>4. /\ x = FileHeaderLen + y /\ w = y + v /\ w <= z /\ y \in Nat /\ z \in Nat /\ v \in Nat
            /\ FileHeaderLen \in Nat
        BY <4>1, <4>2
      <4>5. x + k \in 1 .. FileHeaderLen + z /\ ~ (x + k <= FileHeaderLen) /\ (x + k) - FileHeaderLen = y + k
        BY <4>3, <4>4
      <4>6. QED
        BY <4>2, <4>5
    <3>2. t[off[j - 1] + k] = ss[j][k]
      BY <1>8
    <3>3. PICK x : x = at[j] + k
      OBVIOUS
    <3>4. (h \o t)[x] = t[x - FileHeaderLen]
      BY <1>11, <3>1, <3>3
    <3>5. x - FileHeaderLen = off[j - 1] + k
      BY <3>1, <3>3
    <3>6. (h \o t)[x] = ss[j][k]
      BY <3>2, <3>4, <3>5, Zenon
    <3>7. QED
      BY <3>3, <3>6, Zenon
  <2>4. QED
    BY <1>14, <2>1, <2>2, <2>3 DEF Stands
<1>16. ASSUME NEW p \in 1 .. Len(h \o t), p > FileHeaderLen
       PROVE  \E j \in 1..N : p - at[j] \in 1 .. Len(FrameBytes(j, fs[j]))
  <2>1. p - FileHeaderLen \in 1 .. off[N]
    BY <1>5, <1>11, <1>12, <1>16
  <2>2. PICK j \in 1..N : off[j - 1] < p - FileHeaderLen /\ p - FileHeaderLen <= off[j]
    BY <1>4, <1>8, <2>1, EndsCover
  <2>3. p - at[j] \in 1 .. Len(ss[j])
    BY SMTT(30), <1>2, <1>4, <1>5, <1>9, <1>10, <1>14, <2>1, <2>2
  <2>4. QED
    BY <1>4, <2>3
<1>17. \A p \in 1 .. FileHeaderLen : p <= Len(h \o t) /\ (h \o t)[p] = <<0, "file_header", 0, p>>
  BY <1>5, <1>11, <1>12
<1>18. /\ \A j \in 1..N : Stands(h \o t, at[j], FrameBytes(j, fs[j]))
       /\ \A p \in 1 .. Len(h \o t) : p > FileHeaderLen =>
            \E j \in 1..N : p - at[j] \in 1 .. Len(FrameBytes(j, fs[j]))
  BY <1>15, <1>16
<1>19. QED
  BY <1>6, <1>11, <1>14, <1>17, <1>18, Zenon DEF S

\* The first byte of a frame's header is nowhere but at the start of the frame.
LEMMA HeaderPlace ==
  ASSUME NEW fs \in Seq(Frame), NEW p \in 1 .. Len(StreamBytes(fs)),
         NEW f, NEW j, StreamBytes(fs)[p] = <<f, "header", j, 1>>
  PROVE  f \in 1 .. Len(fs) /\ Stands(StreamBytes(fs), p - 1, FrameBytes(f, fs[f]))
<1>1. PICK at \in [1 .. Len(fs) -> Nat] :
        /\ \A i \in 1 .. Len(fs) : Stands(StreamBytes(fs), at[i], FrameBytes(i, fs[i]))
        /\ \A q \in 1 .. Len(StreamBytes(fs)) : q > FileHeaderLen =>
             \E i \in 1 .. Len(fs) : q - at[i] \in 1 .. Len(FrameBytes(i, fs[i]))
  BY StreamPlaces
<1>2. p > FileHeaderLen
  <2>1. SUFFICES ASSUME p <= FileHeaderLen PROVE FALSE
    BY WireLengths, LenProperties, StreamPlaces
  <2>2. StreamBytes(fs)[p] = <<0, "file_header", 0, p>>
    BY <2>1, StreamPlaces, WireLengths
  <2>3. QED
    BY <2>2
<1>3. PICK i \in 1 .. Len(fs) : p - at[i] \in 1 .. Len(FrameBytes(i, fs[i]))
  BY <1>1, <1>2
<1> DEFINE b == FrameBytes(i, fs[i])
           h == Bytes(i, "header", 0, FrameHeaderLen)
           d == Body(i, fs[i])
           k == p - at[i]
<1>4. i \in Nat /\ fs[i] \in Frame /\ at[i] \in Nat
  BY <1>3, ElementOfSeq
<1>5. /\ h \in Seq(FrameByte(i, fs[i])) /\ d \in Seq(FrameByte(i, fs[i])) /\ b = h \o d
      /\ Len(h) = FrameHeaderLen /\ FrameHeaderLen \in Nat
      /\ d \in Seq(BodyByte(i, fs[i]))
      /\ \A x \in 1 .. FrameHeaderLen : h[x] = <<i, "header", 0, x>>
  <2>1. /\ h \in Seq(FrameByte(i, fs[i])) /\ d \in Seq(FrameByte(i, fs[i])) /\ b = h \o d
        /\ d \in Seq(BodyByte(i, fs[i]))
    BY <1>4, FrameParts, BodyBytes
  <2>2. /\ Len(h) = FrameHeaderLen /\ FrameHeaderLen \in Nat
        /\ \A x \in 1 .. FrameHeaderLen : h[x] = <<i, "header", 0, x>>
    BY BytesAre, WireLengths
  <2>3. QED
    BY <2>1, <2>2
<1>6. b[k] = <<f, "header", j, 1>> /\ k \in 1 .. Len(b) /\ p = at[i] + k
  <2>1. p = at[i] + k
    BY <1>4
  <2>2. StreamBytes(fs)[at[i] + k] = b[k]
    BY <1>1, <1>3 DEF Stands
  <2>3. QED
    BY <1>3, <2>1, <2>2
<1>7. /\ Len(b) = FrameHeaderLen + Len(d) /\ Len(d) \in Nat
      /\ \A x \in 1 .. Len(b) : b[x] = IF x <= FrameHeaderLen THEN h[x] ELSE d[x - FrameHeaderLen]
  BY <1>5, ConcatProperties, LenProperties
<1> HIDE DEF b, h, d, k
<1>8. k <= FrameHeaderLen
  <2>1. SUFFICES ASSUME ~ (k <= FrameHeaderLen) PROVE FALSE
    OBVIOUS
  <2>2. b[k] = d[k - FrameHeaderLen] /\ k - FrameHeaderLen \in 1 .. Len(d)
    BY SMTT(30), <1>5, <1>6, <1>7, <2>1
  <2>3. d[k - FrameHeaderLen] \in BodyByte(i, fs[i])
    BY <1>5, <2>2, ElementOfSeq
  <2>4. QED
    BY <1>6, <2>2, <2>3 DEF BodyByte
<1>9. b[k] = <<i, "header", 0, k>>
  BY <1>5, <1>6, <1>7, <1>8
<1>10. k = 1 /\ f = i
  BY <1>6, <1>9
<1>11. p - 1 = at[i]
  BY <1>4, <1>6, <1>10
<1>12. QED
  BY <1>1, <1>3, <1>10, <1>11

-----------------------------------------------------------------------------
(* The ring, of which RingBufferProofs speaks for bytes of any kind *)

RP == INSTANCE RingBufferProofs WITH Byte <- AnyByte, Chunks <- {}

\* What its proofs assume holds here.
LEMMA RingAssumed == RP!RingAssumption
<1>1. Zero \in AnyByte
  BY DEF Zero, AnyByte, Parts
<1>2. QED
  BY <1>1, StreamAssumption DEF RP!RingAssumption

\* The ring's module says the same of any kind of byte.
LEMMA SameRing ==
  /\ Ring!available_read = RP!available_read
  /\ Ring!Contents = RP!Contents
  /\ Ring!CapacityInvariant <=> RP!CapacityInvariant
  /\ \A data : Ring!Accepted(data) = RP!Accepted(data)
  /\ \A n : Ring!Peekable(n) <=> RP!Peekable(n)
  /\ \A n : Ring!Peek(n) = RP!Peek(n)
  /\ \A p : Ring!IndexOf(p) = RP!IndexOf(p)
BY DEF Ring!available_read, RP!available_read, Ring!WrappingSub, RP!WrappingSub,
       Ring!Contents, RP!Contents, Ring!IndexOf, RP!IndexOf, Ring!WrappingAdd, RP!WrappingAdd,
       Ring!CapacityInvariant, RP!CapacityInvariant, Ring!Accepted, RP!Accepted,
       Ring!Least, RP!Least, Ring!available_write, RP!available_write,
       Ring!Peekable, RP!Peekable, Ring!Contiguous, RP!Contiguous, Ring!Peek, RP!Peek

\* And in the next state.
LEMMA SameRingNext ==
  Ring!available_read' = RP!available_read' /\ Ring!Contents' = RP!Contents'
BY DEF Ring!available_read, RP!available_read, Ring!WrappingSub, RP!WrappingSub,
       Ring!Contents, RP!Contents, Ring!IndexOf, RP!IndexOf, Ring!WrappingAdd, RP!WrappingAdd

\* So do its operations.
LEMMA SameOperations ==
  /\ \A data : Ring!Write(data) <=> RP!Write(data)
  /\ \A n : Ring!Consume(n) <=> RP!Consume(n)
BY DEF Ring!available_read, RP!available_read, Ring!WrappingSub, RP!WrappingSub,
       Ring!IndexOf, RP!IndexOf, Ring!WrappingAdd, RP!WrappingAdd, Ring!Accepted, RP!Accepted,
       Ring!Least, RP!Least, Ring!available_write, RP!available_write,
       Ring!Write, RP!Write, Ring!Index, RP!Index, Ring!Consume, RP!Consume

\* What the ring's invariant says of this ring.
LEMMA RingIs ==
  ASSUME RP!IndInv
  PROVE  /\ Ring!available_read \in 0 .. Cap
         /\ Cap \in Nat \ {0}
         /\ read_pos \in 0 .. (Modulus - 1) /\ write_pos \in 0 .. (Modulus - 1)
         /\ buf \in [0 .. (Cap - 1) -> AnyByte]
         /\ Ring!IndexOf(read_pos) \in 0 .. (Cap - 1)
<1>1. RP!TypeOK /\ RP!CapacityInvariant
  BY DEF RP!IndInv
<1>2. << >> \in Seq(AnyByte)
  BY EmptySeq
<1>3. RP!available_read \in 0 .. Cap
  BY <1>1, <1>2, RingAssumed, RP!AcceptedFits
<1>4. read_pos \in RP!Position
  BY <1>1 DEF RP!TypeOK, RP!Position
<1>5. RP!IndexOf(read_pos) \in 0 .. (Cap - 1)
  BY <1>4, RingAssumed, RP!IndexInStore DEF RP!Index
<1>6. QED
  BY <1>1, <1>3, <1>5, SameRing, StreamAssumption DEF RP!TypeOK, RP!Index

\* A write keeps the ring in order and adds what was accepted.
LEMMA RingWrites ==
  ASSUME RP!IndInv, NEW data \in Seq(AnyByte), Ring!Write(data)
  PROVE  /\ RP!IndInv'
         /\ Ring!available_read' = Ring!available_read + Ring!Accepted(data)
         /\ Ring!Accepted(data) \in 0 .. Len(data)
         /\ Ring!available_read + Len(data) <= Cap => Ring!Accepted(data) = Len(data)
         /\ \A i \in 0 .. (Cap - 1) :
              buf'[i] = buf[i] \/ \E n \in 1 .. Len(data) : buf'[i] = data[n]
<1>1. RP!TypeOK /\ RP!CapacityInvariant
  BY DEF RP!IndInv
<1>2. RP!Write(data)
  BY SameOperations
<1>3. /\ RP!available_read \in 0 .. Cap
      /\ RP!Accepted(data) \in 0 .. Cap
      /\ RP!Accepted(data) <= Len(data)
      /\ RP!available_read + RP!Accepted(data) <= Cap
  BY <1>1, RingAssumed, RP!AcceptedFits
<1>4. /\ write_pos' \in RP!Position
      /\ RP!available_read' = RP!available_read + RP!Accepted(data)
  BY <1>1, <1>2, RingAssumed, RP!WriteGrows
<1>5. buf' \in [RP!Index -> AnyByte]
  BY <1>1, <1>2, RingAssumed, RP!WriteTypes
<1>6. \A i \in RP!Index : buf'[i] = buf[i] \/ \E n \in 1 .. Len(data) : buf'[i] = data[n]
  BY <1>1, <1>2, RingAssumed, RP!WriteCopies
<1>7. RP!IndInv'
  <2>1. RP!TypeOK'
    BY <1>1, <1>2, <1>4, <1>5 DEF RP!TypeOK, RP!Position, RP!Write
  <2>2. RP!available_read' <= Cap
    BY <1>3, <1>4
  <2>3. QED
    BY <2>1, <2>2 DEF RP!IndInv, RP!CapacityInvariant
<1>8. Len(data) \in Nat /\ Cap \in Nat
  BY LenProperties, StreamAssumption
<1>9. RP!Accepted(data) \in 0 .. Len(data)
  BY <1>3, <1>8
<1>10. RP!available_read + Len(data) <= Cap => RP!Accepted(data) = Len(data)
  BY <1>3, <1>8 DEF RP!Accepted, RP!Least, RP!available_write
<1>11. QED
  BY <1>4, <1>6, <1>7, <1>9, <1>10, SameRing, SameRingNext DEF RP!Index

\* A consume of bytes that are there keeps it too.
LEMMA RingReleases ==
  ASSUME RP!IndInv, NEW n \in Nat, n <= Ring!available_read, Ring!Consume(n)
  PROVE  RP!IndInv' /\ Ring!available_read' = Ring!available_read - n /\ buf' = buf
<1>1. RP!TypeOK /\ RP!CapacityInvariant
  BY DEF RP!IndInv
<1>2. RP!Consume(n) /\ n \in 0 .. Cap /\ n <= RP!available_read /\ RP!available_read \in 0 .. Cap
  BY RingIs, SameRing, SameOperations
<1>3. read_pos' \in RP!Position /\ RP!available_read' = RP!available_read - n
  BY <1>1, <1>2, RingAssumed, RP!ConsumeShrinks
<1>4. RP!IndInv'
  <2>1. RP!TypeOK'
    BY <1>1, <1>2, <1>3 DEF RP!TypeOK, RP!Position, RP!Consume
  <2>2. RP!available_read' <= Cap
    BY <1>2, <1>3, StreamAssumption
  <2>3. QED
    BY <2>1, <2>2 DEF RP!IndInv, RP!CapacityInvariant
<1>5. QED
  BY <1>2, <1>3, <1>4, SameRing, SameRingNext DEF RP!Consume

\* And so does a step that leaves the ring alone.
LEMMA RingRests ==
  ASSUME RP!IndInv, UNCHANGED ring
  PROVE  RP!IndInv' /\ Ring!available_read' = Ring!available_read /\ Ring!Contents' = Ring!Contents
<1>1. buf' = buf /\ read_pos' = read_pos /\ write_pos' = write_pos
  BY DEF ring
<1>2. Ring!available_read' = Ring!available_read
  BY <1>1 DEF Ring!available_read, Ring!WrappingSub
<1>3. Ring!Contents' = Ring!Contents
  BY <1>1, <1>2 DEF Ring!Contents, Ring!IndexOf, Ring!WrappingAdd
<1>4. RP!available_read' = RP!available_read
  BY <1>2, SameRing, SameRingNext
<1>5. RP!IndInv'
  BY <1>1, <1>4 DEF RP!IndInv, RP!TypeOK, RP!Index, RP!CapacityInvariant
<1>6. QED
  BY <1>2, <1>3, <1>5

\* What peek returns, when it returns anything, is a stretch of the store.
LEMMA PeekIs ==
  ASSUME RP!IndInv, NEW n \in Nat, Ring!Peekable(n) \/ n <= 1
  PROVE  /\ Ring!Peek(n) \in Seq(AnyByte)
         /\ Len(Ring!Peek(n)) = n
         /\ \A i \in 1..n : /\ Ring!IndexOf(read_pos) + (i - 1) \in 0 .. (Cap - 1)
                            /\ Ring!Peek(n)[i] = buf[Ring!IndexOf(read_pos) + (i - 1)]
<1>1. PICK r : r = Ring!IndexOf(read_pos)
  OBVIOUS
<1>2. r \in 0 .. (Cap - 1) /\ Cap \in Nat \ {0} /\ buf \in [0 .. (Cap - 1) -> AnyByte]
  BY <1>1, RingIs
<1>3. r + n <= Cap
  BY <1>1, <1>2 DEF Ring!Peekable, Ring!Contiguous
<1>4. \A i \in 1..n : r + (i - 1) \in 0 .. (Cap - 1) /\ r + i - 1 = r + (i - 1)
  BY <1>2, <1>3
<1>5. Ring!Peek(n) = [i \in 1..n |-> buf[r + (i - 1)]]
  BY <1>1, <1>4 DEF Ring!Peek
<1>6. \A i \in 1..n : buf[r + (i - 1)] \in AnyByte
  BY <1>2, <1>4
<1>7. Ring!Peek(n) \in Seq(AnyByte) /\ Len(Ring!Peek(n)) = n
  BY <1>5, <1>6
<1>8. QED
  BY <1>1, <1>4, <1>5, <1>7

-----------------------------------------------------------------------------
(* Types *)

BodySites == Sites \ {"file_header", "header"}

Slice == [at : {"static", "ring", "scratch"}, idx : Nat, len : Nat]

Locals ==
  [f : Nat, de : Slice, meas : Slice, timing : Slice, parity : Slice,
   values : Seq(Seq(AnyByte)), annotations : Seq(AnyByte), left : Int, len : Nat,
   verified : BOOLEAN]

\* What the peer sends is the stream, perhaps not all of it.
PeerOK ==
  /\ [frames |-> frames, schema |-> schema] \in Streams
  /\ frames \in Seq(Frame)
  /\ wire \in Seq(StreamByte(frames))
  /\ Len(wire) <= Len(StreamBytes(frames))
  /\ \A k \in 1 .. Len(wire) : wire[k] = StreamBytes(frames)[k]

\* The ring is in order and has bytes of the stream only.
RingOK ==
  /\ pos \in 0 .. Len(wire)
  /\ RP!IndInv
  /\ \A i \in 0 .. (Cap - 1) : buf[i] = Zero \/ \E k \in 1 .. Len(wire) : buf[i] = wire[k]

\* A call has the locals of its site.
CallOK ==
  /\ scratch \in Seq(AnyByte)
  /\ Len(scratch) <= Cap
  /\ header_consumed \in BOOLEAN
  /\ last_frame_id \in {-1} \cup {frames[f].id : f \in DOMAIN frames}
  /\ pc \in {"idle"} \cup Sites
  /\ cur \in Locals
  /\ cur.f \in {0} \cup DOMAIN frames
  /\ pc \in BodySites <=> cur.f # 0
  /\ pc # "idle" => result = "none"
  /\ result \in {"none", "frame", "end", "error", "cancelled"}
  /\ out.f # 0 <=> result = "frame"

\* The streams are what they are assumed to be.
LEMMA StreamsAre ==
  ASSUME NEW s \in Streams
  PROVE  /\ s.frames \in Seq(Frame) /\ s.schema \in Seq(Schema)
         /\ [frames |-> s.frames, schema |-> s.schema] \in Streams
<1>1. s \in [frames : Seq(Frame), schema : Seq(Schema)]
  BY StreamAssumption
<1>2. s = [frames |-> s.frames, schema |-> s.schema]
  BY <1>1
<1>3. QED
  BY <1>1, <1>2

\* At the start.
LEMMA TypesInit == Init => PeerOK /\ RingOK /\ CallOK
<1> SUFFICES ASSUME Init PROVE PeerOK /\ RingOK /\ CallOK
  OBVIOUS
<1>1. PICK s \in Streams : frames = s.frames /\ schema = s.schema
  BY DEF Init
<1>2. frames \in Seq(Frame) /\ [frames |-> frames, schema |-> schema] \in Streams
  BY <1>1, StreamsAre
<1>3. PICK n \in 0 .. Len(StreamBytes(frames)) : wire = SubSeq(StreamBytes(frames), 1, n)
  BY DEF Init
<1>4. StreamBytes(frames) \in Seq(StreamByte(frames)) /\ Len(StreamBytes(frames)) \in Nat
  BY <1>2, StreamPlaces, LenProperties
<1>5. /\ wire \in Seq(StreamByte(frames)) /\ Len(wire) = n
      /\ \A k \in 1..n : wire[k] = StreamBytes(frames)[k]
  <2>1. \A k \in 1..n : StreamBytes(frames)[k] \in StreamByte(frames)
    BY <1>4, ElementOfSeq
  <2>2. n \in Nat
    BY <1>4
  <2>3. /\ wire \in Seq(StreamByte(frames))
        /\ Len(wire) = IF 1 <= n THEN n - 1 + 1 ELSE 0
        /\ \A k \in 1 .. n - 1 + 1 : wire[k] = StreamBytes(frames)[1 + k - 1]
    BY <1>3, <2>1, <2>2, SubSeqProperties
  <2>4. (IF 1 <= n THEN n - 1 + 1 ELSE 0) = n /\ \A k \in 1..n : k \in 1 .. n - 1 + 1 /\ 1 + k - 1 = k
    BY <2>2
  <2>5. QED
    BY <2>3, <2>4
<1>6. PeerOK
  BY <1>2, <1>3, <1>4, <1>5 DEF PeerOK
<1>7. RP!Init
  BY DEF Init, RP!Init, RP!Index
<1>8. RP!IndInv
  BY <1>7, RingAssumed, RP!IndInvInit
<1>9. RingOK
  BY <1>4, <1>5, <1>8 DEF Init, RingOK
<1>10. CallOK
  <2>1. NoLocals \in Locals
    BY EmptySeq DEF NoLocals, Locals, NoSlice, Slice
  <2>2. scratch \in Seq(AnyByte) /\ Len(scratch) = 0
    BY EmptySeq DEF Init
  <2>3. cur.f = 0 /\ out.f = 0
    BY DEF Init, NoLocals, NoOut
  <2>4. cur \in Locals /\ Len(scratch) <= Cap
    BY <2>1, <2>2, StreamAssumption DEF Init
  <2>5. pc = "idle" /\ result = "none" /\ header_consumed = FALSE /\ last_frame_id = -1
    BY DEF Init
  <2>6. header_consumed \in BOOLEAN /\ "idle" \notin BodySites
    BY <2>5, Zenon DEF BodySites, Sites
  <2>7. QED
    BY <2>2, <2>3, <2>4, <2>5, <2>6 DEF CallOK
<1>11. QED
  BY <1>6, <1>9, <1>10

\* What a step does to the ring: a read writes to it, a site consumes from it,
\* or it is left alone.
Feeds ==
  \E n \in 1 .. (Len(wire) - pos) :
     pos' = pos + n /\ Ring!Write(SubSeq(wire, pos + 1, pos + n))

Releases == pos' = pos /\ \E n \in Nat : n <= Ring!available_read /\ Ring!Consume(n)

Rests == pos' = pos /\ UNCHANGED ring

\* The locals and the frame of a call are of their types.
LEMMA LocalsAre ==
  ASSUME PeerOK, CallOK
  PROVE  /\ cur.f \in Nat /\ cur.len \in Nat /\ cur.left \in Int /\ cur.verified \in BOOLEAN
         /\ cur.de \in Slice /\ cur.meas \in Slice /\ cur.timing \in Slice /\ cur.parity \in Slice
         /\ cur.values \in Seq(Seq(AnyByte)) /\ cur.annotations \in Seq(AnyByte)
         /\ cur.f # 0 => /\ cur.f \in DOMAIN frames
                         /\ cur.f \in 1 .. Len(frames)
                         /\ CurFrame \in Frame
                         /\ PayloadLen \in Nat
<1>1. cur \in Locals
  BY DEF CallOK
<1>2. ASSUME cur.f # 0
      PROVE  /\ cur.f \in DOMAIN frames
             /\ cur.f \in 1 .. Len(frames)
             /\ CurFrame \in Frame
             /\ PayloadLen \in Nat
  <2>1. cur.f \in DOMAIN frames
    BY <1>2 DEF CallOK
  <2>2. cur.f \in 1 .. Len(frames)
    BY <2>1, LenProperties DEF PeerOK
  <2>3. CurFrame \in Frame
    BY <2>2, ElementOfSeq DEF PeerOK, CurFrame
  <2>4. CurFrame.ancilla_count \in Nat /\ TimingLen(CurFrame) \in Nat /\ ParityLen(CurFrame) \in Nat
    BY <2>3, FrameLengths
  <2>5. cur.len \in Nat
    BY <1>1 DEF Locals
  <2>6. QED
    BY <2>1, <2>2, <2>3, <2>4, <2>5 DEF PayloadLen
<1>3. /\ cur.f \in Nat /\ cur.len \in Nat /\ cur.left \in Int /\ cur.verified \in BOOLEAN
      /\ cur.de \in Slice /\ cur.meas \in Slice /\ cur.timing \in Slice /\ cur.parity \in Slice
      /\ cur.values \in Seq(Seq(AnyByte)) /\ cur.annotations \in Seq(AnyByte)
  BY <1>1 DEF Locals
<1>4. QED
  BY <1>2, <1>3

\* Each site asks for a number of bytes, and consumes no more than it asked for.
LEMMA StepOfRing ==
  ASSUME PeerOK, RingOK, CallOK, Next
  PROVE  UNCHANGED peer /\ (Feeds \/ Releases \/ Rests)
<1>1. Ring!available_read \in 0 .. Cap /\ Cap \in Nat
  BY RingIs, StreamAssumption DEF RingOK
<1>2. CASE Call
  BY <1>2 DEF Call, Rests
<1>3. CASE Read
  <2>1. PICK n \in 1 .. Ring!Least(Chunk, Len(wire) - pos) :
           pos' = pos + n /\ Ring!Write(SubSeq(wire, pos + 1, pos + n))
    BY <1>3 DEF Read
  <2>2. n \in 1 .. (Len(wire) - pos)
    <3>1. Len(wire) \in Nat /\ pos \in Nat /\ Chunk \in Nat
      BY LenProperties, StreamAssumption DEF PeerOK, RingOK
    <3>2. QED
      BY <2>1, <3>1 DEF Ring!Least
  <2>3. QED
    BY <1>3, <2>1, <2>2 DEF Feeds, Read
<1>4. CASE EndOfStream
  BY <1>4 DEF EndOfStream, Rests
<1>5. CASE ReadError
  BY <1>5 DEF ReadError, FailUntouched, Rests
<1>6. CASE Cancel
  BY <1>6 DEF Cancel, Rests
<1>7. CASE FileHeader
  <2>1. FileHeaderLen \in Nat /\ FileHeaderLen <= Ring!available_read
    BY <1>7, WireLengths DEF FileHeader, Filled, Needed
  <2>2. QED
    BY <1>7, <2>1 DEF FileHeader, FailUntouched, Releases, Rests
<1>8. CASE FrameHeader
  <2>1. FrameHeaderLen \in Nat /\ FrameHeaderLen <= Ring!available_read
    BY <1>8, WireLengths DEF FrameHeader, Filled, Needed
  <2>2. QED
    BY <1>8, <2>1 DEF FrameHeader, FailUntouched, Releases, Rests
<1>9. CASE DeLen \/ TagCount
  <2>1. PrefixLen \in Nat /\ PrefixLen <= Ring!available_read
    BY <1>9, WireLengths DEF DeLen, TagCount, Filled, Needed
  <2>2. QED
    BY <1>9, <2>1 DEF DeLen, TagCount, FailUntouched, Releases, Rests
<1>10. CASE Payload
  <2>1. pc = "payload" /\ PayloadLen <= Ring!available_read
    BY <1>10 DEF Payload, Filled, Needed
  <2>2. PayloadLen \in Nat
    BY <2>1, LocalsAre DEF CallOK, BodySites, Sites
  <2>3. QED
    BY <1>10, <2>1, <2>2 DEF Payload, Releases
<1>11. CASE Tag
  <2>1. TagHeaderLen \in Nat /\ TagHeaderLen <= Ring!available_read
    BY <1>11, WireLengths DEF Tag, Filled, Needed
  <2>2. QED
    BY <1>11, <2>1 DEF Tag, FailUntouched, Releases, Rests
<1>12. CASE Value \/ Annotations
  <2>1. cur.len \in Nat /\ cur.len <= Ring!available_read
    BY <1>12, LocalsAre DEF Value, Annotations, Filled, Needed
  <2>2. QED
    BY <1>12, <2>1 DEF Value, Annotations, FailUntouched, Releases, Rests
<1>13. CASE Count
  <2>1. 1 <= Ring!available_read
    BY <1>13 DEF Count, Filled, Needed
  <2>2. QED
    BY <1>13, <2>1 DEF Count, Releases
<1>14. CASE Terminator
  <2>1. TerminatorLen \in Nat /\ TerminatorLen <= Ring!available_read
    BY <1>14, WireLengths DEF Terminator, Filled, Needed
  <2>2. QED
    BY <1>14, <2>1 DEF Terminator, Releases, Rests
<1>15. QED
  BY <1>2, <1>3, <1>4, <1>5, <1>6, <1>7, <1>8, <1>9, <1>10, <1>11, <1>12, <1>13, <1>14
     DEF Next, Parse

\* The part of the wire that a read of n bytes brings.
LEMMA ReadBrings ==
  ASSUME PeerOK, RingOK, NEW n \in 1 .. (Len(wire) - pos)
  PROVE  /\ SubSeq(wire, pos + 1, pos + n) \in Seq(AnyByte)
         /\ Len(SubSeq(wire, pos + 1, pos + n)) = n
         /\ \A i \in 1..n : /\ pos + i \in 1 .. Len(wire)
                            /\ SubSeq(wire, pos + 1, pos + n)[i] = wire[pos + i]
<1>1. pos \in Nat /\ n \in Nat /\ Len(wire) \in Nat /\ pos + n <= Len(wire)
  BY LenProperties DEF PeerOK, RingOK
<1>2. \A i \in 1 .. Len(wire) : wire[i] \in AnyByte
  <2>1. \A i \in 1 .. Len(wire) : wire[i] \in StreamByte(frames)
    BY ElementOfSeq DEF PeerOK
  <2>2. QED
    BY <2>1 DEF StreamByte
<1>3. \A i \in (pos + 1) .. (pos + n) : wire[i] \in AnyByte
  BY <1>1, <1>2
<1>4. PICK a, b : a = pos + 1 /\ b = pos + n
  OBVIOUS
<1>5. a \in Int /\ b \in Int /\ \A i \in a..b : wire[i] \in AnyByte
  BY <1>1, <1>3, <1>4
<1>6. /\ SubSeq(wire, a, b) \in Seq(AnyByte)
      /\ Len(SubSeq(wire, a, b)) = IF a <= b THEN b - a + 1 ELSE 0
      /\ \A i \in 1 .. b - a + 1 : SubSeq(wire, a, b)[i] = wire[a + i - 1]
  BY <1>5, SubSeqProperties
<1>7. a <= b /\ b - a + 1 = n /\ \A i \in 1..n : a + i - 1 = pos + i
  BY <1>1, <1>4
<1>8. \A i \in 1..n : pos + i \in 1 .. Len(wire)
  BY <1>1
<1>9. QED
  BY <1>4, <1>6, <1>7, <1>8

\* A step keeps the ring in order.
LEMMA RingOKNext ==
  ASSUME PeerOK, RingOK, UNCHANGED peer, Feeds \/ Releases \/ Rests
  PROVE  RingOK'
<1>1. wire' = wire /\ RP!IndInv /\ pos \in 0 .. Len(wire) /\ Len(wire) \in Nat
  BY LenProperties DEF peer, PeerOK, RingOK
<1>2. CASE Feeds
  <2>1. PICK n \in 1 .. (Len(wire) - pos) :
           pos' = pos + n /\ Ring!Write(SubSeq(wire, pos + 1, pos + n))
    BY <1>2 DEF Feeds
  <2>2. /\ SubSeq(wire, pos + 1, pos + n) \in Seq(AnyByte)
        /\ Len(SubSeq(wire, pos + 1, pos + n)) = n
        /\ \A i \in 1..n : /\ pos + i \in 1 .. Len(wire)
                           /\ SubSeq(wire, pos + 1, pos + n)[i] = wire[pos + i]
    BY ReadBrings
  <2>3. /\ RP!IndInv'
        /\ \A i \in 0 .. (Cap - 1) :
              buf'[i] = buf[i] \/ \E k \in 1..n : buf'[i] = SubSeq(wire, pos + 1, pos + n)[k]
    BY <1>1, <2>1, <2>2, RingWrites
  <2>4. \A i \in 0 .. (Cap - 1) : buf'[i] = Zero \/ \E k \in 1 .. Len(wire) : buf'[i] = wire[k]
    <3> SUFFICES ASSUME NEW i \in 0 .. (Cap - 1)
                 PROVE  buf'[i] = Zero \/ \E k \in 1 .. Len(wire) : buf'[i] = wire[k]
      OBVIOUS
    <3>1. CASE buf'[i] = buf[i]
      BY <3>1 DEF RingOK
    <3>2. CASE \E k \in 1..n : buf'[i] = SubSeq(wire, pos + 1, pos + n)[k]
      <4>1. PICK k \in 1..n : buf'[i] = wire[pos + k]
        BY <2>2, <3>2
      <4>2. pos + k \in 1 .. Len(wire)
        BY <2>2
      <4>3. QED
        BY <4>1, <4>2
    <3>3. QED
      BY <2>3, <3>1, <3>2
  <2>5. pos' \in 0 .. Len(wire)
    BY <1>1, <2>1
  <2>6. QED
    BY <1>1, <2>3, <2>4, <2>5 DEF RingOK
<1>3. CASE Releases
  <2>1. PICK n \in Nat : n <= Ring!available_read /\ Ring!Consume(n)
    BY <1>3 DEF Releases
  <2>2. RP!IndInv' /\ buf' = buf
    BY <1>1, <2>1, RingReleases
  <2>3. QED
    BY <1>1, <1>3, <2>2 DEF Releases, RingOK
<1>4. CASE Rests
  <2>1. RP!IndInv' /\ buf' = buf
    BY <1>1, <1>4, RingRests DEF Rests, ring
  <2>2. QED
    BY <1>1, <1>4, <2>1 DEF Rests, RingOK
<1>5. QED
  BY <1>2, <1>3, <1>4

\* A byte of the store is of frame 0 or of a frame of the stream; if it is a
\* tag's, the frame has that tag.
LEMMA StoredByte ==
  ASSUME PeerOK, RingOK, NEW i \in 0 .. (Cap - 1)
  PROVE  /\ buf[i][1] \in {0} \cup DOMAIN frames
         /\ buf[i][1] # 0 /\ buf[i][2] = "tag" => buf[i][3] \in DOMAIN frames[buf[i][1]].tags
<1>1. CASE buf[i] = Zero
  BY <1>1 DEF Zero
<1>2. CASE \E k \in 1 .. Len(wire) : buf[i] = wire[k]
  <2>1. buf[i] \in StreamByte(frames)
    BY <1>2, ElementOfSeq DEF PeerOK
  <2>2. QED
    BY <2>1 DEF StreamByte
<1>3. QED
  BY <1>1, <1>2 DEF RingOK

\* What a run of bytes that peek returned decodes to is 0 or a frame of the
\* stream, and a length field reads as a number.
LEMMA Decoded ==
  ASSUME PeerOK, RingOK, NEW n \in Nat \ {0}, Ring!Peekable(n) \/ n = 1, NEW part
  PROVE  /\ FieldOf(Ring!Peek(n), part) \in {0} \cup DOMAIN frames
         /\ part \in {"de_len", "tag_count", "tag", "count"} => LengthIn(Ring!Peek(n), part) \subseteq Nat
<1> DEFINE b == Ring!Peek(n)
<1>1. PICK i \in 0 .. (Cap - 1) : b[1] = buf[i]
  <2>1. 1 \in 1..n
    OBVIOUS
  <2>2. QED
    BY SMTT(30), <2>1, PeekIs DEF RingOK
<1>2. /\ b[1][1] \in {0} \cup DOMAIN frames
      /\ b[1][1] # 0 /\ b[1][2] = "tag" => b[1][3] \in DOMAIN frames[b[1][1]].tags
  BY <1>1, StoredByte
<1>3. FieldOf(b, part) \in {0} \cup DOMAIN frames
  BY <1>2 DEF FieldOf
<1>4. ASSUME part \in {"de_len", "tag_count", "tag", "count"}
      PROVE  LengthIn(b, part) \subseteq Nat
  <2>1. CASE FieldOf(b, part) = 0
    <3>1. LengthIn(b, part) = Garbage
      BY <2>1 DEF LengthIn
    <3>2. QED
      BY <3>1, StreamAssumption
  <2>2. CASE FieldOf(b, part) # 0
    <3>1. /\ FieldOf(b, part) = b[1][1] /\ b[1][1] \in DOMAIN frames /\ b[1][1] # 0
          /\ b = Bytes(b[1][1], part, b[1][3], Len(b))
      BY <1>2, <2>2 DEF FieldOf
    <3>2. b[1][2] = part
      <4>1. Len(b) = n
        BY PeekIs DEF RingOK
      <4>2. Bytes(b[1][1], part, b[1][3], n)[1] = <<b[1][1], part, b[1][3], 1>>
        BY BytesAre
      <4>3. QED
        BY <3>1, <4>1, <4>2
    <3>3. frames[b[1][1]] \in Frame
      BY <3>1, ElementOfSeq, LenProperties DEF PeerOK
    <3>4. /\ Len(frames[b[1][1]].detector_events) \in Nat
          /\ frames[b[1][1]].tags \in Seq(Nat) /\ frames[b[1][1]].annotations \in Nat
      BY <3>3, FrameLengths
    <3>5. Len(frames[b[1][1]].tags) \in Nat
      BY <3>4, LenProperties
    <3>6. part = "tag" => frames[b[1][1]].tags[b[1][3]] \in Nat
      <4>1. \A t \in Seq(Nat) : \A j \in DOMAIN t : t[j] \in Nat
        BY LenProperties, ElementOfSeq
      <4>2. QED
        BY <1>2, <3>1, <3>2, <3>4, <4>1
    <3>7. Announced(b[1][1], part, b[1][3]) \in Nat
      BY <1>4, <3>4, <3>5, <3>6 DEF Announced
    <3>8. LengthIn(b, part) = {Announced(b[1][1], part, b[1][3])}
      BY <2>2, <3>1 DEF LengthIn
    <3>9. QED
      BY <3>7, <3>8
  <2>3. QED
    BY <2>1, <2>2
<1>5. QED
  BY <1>3, <1>4

\* A call that ends without a frame.
LEMMA EndsWithoutFrame ==
  ASSUME CallOK, pc # "idle",
         pc' = "idle", cur' = NoLocals, result' \in {"end", "error", "cancelled"},
         UNCHANGED <<frames, scratch, header_consumed, last_frame_id, out>>
  PROVE  CallOK'
<1>1. NoLocals \in Locals /\ NoLocals.f = 0
  BY EmptySeq DEF NoLocals, Locals, NoSlice, Slice
<1>2. out.f = 0
  BY DEF CallOK
<1>3. "idle" \notin BodySites
  BY DEF BodySites, Sites
<1>4. result' # "frame"
  OBVIOUS
<1>5. QED
  BY <1>1, <1>2, <1>3, <1>4 DEF CallOK

\* A frame is handed out, or rejected.
LEMMA EndsWithFrame ==
  ASSUME CallOK, pc \in BodySites, NEW locals, locals.f = cur.f, Yield(locals),
         UNCHANGED <<frames, scratch, header_consumed, last_frame_id>>
  PROVE  CallOK'
<1>1. NoLocals \in Locals /\ NoLocals.f = 0
  BY EmptySeq DEF NoLocals, Locals, NoSlice, Slice
<1>2. pc # "idle" /\ "idle" \notin BodySites
  BY DEF BodySites, Sites
<1>3. CASE Rejected(locals.f)
  <2>1. Fail
    BY <1>3 DEF Yield
  <2>2. QED
    BY <1>2, <2>1, EndsWithoutFrame DEF Fail, Return
<1>4. CASE ~ Rejected(locals.f)
  <2>1. Return("frame") /\ out'.f = locals.f
    BY <1>4 DEF Yield
  <2>2. cur.f # 0
    BY DEF CallOK
  <2>3. QED
    BY <1>1, <1>2, <2>1, <2>2 DEF CallOK, Return
<1>5. QED
  BY <1>3, <1>4

\* The call goes on in the same frame.
LEMMA GoesOn ==
  ASSUME CallOK, pc \in BodySites, pc' \in BodySites, cur' \in Locals, cur'.f = cur.f,
         scratch' \in Seq(AnyByte), Len(scratch') <= Cap,
         UNCHANGED <<frames, header_consumed, last_frame_id, result, out>>
  PROVE  CallOK'
<1>1. pc # "idle" /\ pc' \in Sites
  BY DEF BodySites, Sites
<1>2. QED
  BY <1>1 DEF CallOK

\* A borrowed field and the scratch buffer after it.
LEMMA BorrowedIs ==
  ASSUME RP!IndInv, NEW p \in Int, NEW n \in 0 .. Cap, NEW s \in Seq(AnyByte), Len(s) <= Cap
  PROVE  /\ SliceAt(p, n) \in Slice
         /\ ScratchAfter(s, p, n) \in Seq(AnyByte)
         /\ Len(ScratchAfter(s, p, n)) <= Cap
<1>1. PICK r : r = p % Cap
  OBVIOUS
<1>2. Cap \in Nat \ {0} /\ r \in 0 .. (Cap - 1) /\ buf \in [0 .. (Cap - 1) -> AnyByte] /\ n \in Nat
  <2>1. Cap \in Nat \ {0} /\ buf \in [0 .. (Cap - 1) -> AnyByte]
    BY RingIs
  <2>2. (p % Cap) \in 0 .. (Cap - 1)
    BY <2>1, RP!ModBounds, RingAssumed
  <2>3. n \in Nat
    BY <2>1
  <2>4. QED
    BY <1>1, <2>1, <2>2, <2>3
<1>3. RingAt(p)!Contiguous(n) <=> r + n <= Cap
  BY <1>1 DEF RingAt!Contiguous, RingAt!IndexOf
<1>4. SliceAt(p, n) \in Slice
  <2>1. Ring!IndexOf(p) \in Nat
    BY <1>1, <1>2 DEF Ring!IndexOf
  <2>2. CASE n = 0
    BY <2>2 DEF SliceAt, NoSlice, Slice
  <2>3. CASE n > 0 /\ RingAt(p)!Contiguous(n)
    BY <1>2, <2>1, <2>3 DEF SliceAt, Slice
  <2>4. CASE n > 0 /\ ~ RingAt(p)!Contiguous(n)
    BY <1>2, <2>4 DEF SliceAt, Slice
  <2>5. QED
    BY <1>2, <2>2, <2>3, <2>4
<1>5. CASE RingAt(p)!Contiguous(n)
  BY <1>4, <1>5 DEF ScratchAfter
<1>6. CASE ~ RingAt(p)!Contiguous(n)
  <2>1. PICK w : w = [i \in 1..n |-> IF i <= Cap - r THEN buf[r + i - 1] ELSE buf[i - (Cap - r) - 1]]
    OBVIOUS
  <2>2. ScratchAfter(s, p, n) = w
    BY <1>1, <1>6, <2>1 DEF ScratchAfter, RingAt!PeekWrapped, RingAt!Contiguous, RingAt!IndexOf
  <2>3. \A i \in 1..n : (i <= Cap - r => r + i - 1 \in 0 .. (Cap - 1))
                        /\ (~ (i <= Cap - r) => i - (Cap - r) - 1 \in 0 .. (Cap - 1))
    BY <1>2
  <2>4. \A i \in 1..n : (IF i <= Cap - r THEN buf[r + i - 1] ELSE buf[i - (Cap - r) - 1]) \in AnyByte
    BY <1>2, <2>3
  <2>5. w \in Seq(AnyByte) /\ Len(w) = n
    BY <1>2, <2>1, <2>4
  <2>6. QED
    BY <1>4, <2>2, <2>5
<1>7. QED
  BY <1>5, <1>6

\* The payload's fields are slices.
LEMMA PayloadTypes ==
  ASSUME PeerOK, RingOK, CallOK, Payload
  PROVE  cur' \in Locals /\ cur'.f = cur.f /\ scratch' \in Seq(AnyByte) /\ Len(scratch') <= Cap
<1> DEFINE n2 == CurFrame.ancilla_count
           n3 == TimingLen(CurFrame)
           n4 == ParityLen(CurFrame)
           p2 == Ring!WrappingAdd(read_pos, cur.len)
           p3 == Ring!WrappingAdd(p2, n2)
           p4 == Ring!WrappingAdd(p3, n3)
           s1 == ScratchAfter(scratch, read_pos, cur.len)
           s2 == ScratchAfter(s1, p2, n2)
           s3 == ScratchAfter(s2, p3, n3)
           s4 == ScratchAfter(s3, p4, n4)
<1>1. /\ cur' = [cur EXCEPT !.de = SliceAt(read_pos, cur.len), !.meas = SliceAt(p2, n2),
                            !.timing = SliceAt(p3, n3), !.parity = SliceAt(p4, n4)]
      /\ scratch' = s4
  BY DEF Payload
<1>2. cur.f # 0 /\ pc = "payload" /\ PayloadLen <= Ring!available_read
  BY DEF CallOK, BodySites, Sites, Payload, Filled, Needed
<1>3. cur.len \in 0 .. Cap /\ n2 \in 0 .. Cap /\ n3 \in 0 .. Cap /\ n4 \in 0 .. Cap
  <2>1. cur.len \in Nat /\ CurFrame \in Frame
    BY <1>2, LocalsAre
  <2>2. n2 \in Nat /\ n3 \in Nat /\ n4 \in Nat
    BY <2>1, FrameLengths
  <2>3. Ring!available_read \in 0 .. Cap /\ Cap \in Nat
    BY RingIs DEF RingOK
  <2>4. PayloadLen = cur.len + n2 + n3 + n4
    BY DEF PayloadLen
  <2> HIDE DEF n2, n3, n4
  <2>5. QED
    BY <1>2, <2>1, <2>2, <2>3, <2>4
<1>4. read_pos \in Int /\ p2 \in Int /\ p3 \in Int /\ p4 \in Int
  <2>1. \A p, n \in Int : Ring!WrappingAdd(p, n) \in Int
    <3>1. Modulus \in Nat \ {0}
      BY StreamAssumption
    <3>2. QED
      BY <3>1, RP!ModBounds, RingAssumed DEF Ring!WrappingAdd
  <2>2. read_pos \in Int
    BY RingIs, StreamAssumption DEF RingOK
  <2>3. cur.len \in Int /\ n2 \in Int /\ n3 \in Int
    BY <1>3, StreamAssumption
  <2>4. QED
    BY <2>1, <2>2, <2>3
<1>5. RP!IndInv /\ scratch \in Seq(AnyByte) /\ Len(scratch) <= Cap
  BY DEF RingOK, CallOK
<1> HIDE DEF n2, n3, n4, p2, p3, p4
<1>6. SliceAt(read_pos, cur.len) \in Slice /\ s1 \in Seq(AnyByte) /\ Len(s1) <= Cap
  BY <1>3, <1>4, <1>5, BorrowedIs
<1> HIDE DEF s1
<1>7. SliceAt(p2, n2) \in Slice /\ s2 \in Seq(AnyByte) /\ Len(s2) <= Cap
  BY <1>3, <1>4, <1>5, <1>6, BorrowedIs
<1> HIDE DEF s2
<1>8. SliceAt(p3, n3) \in Slice /\ s3 \in Seq(AnyByte) /\ Len(s3) <= Cap
  BY <1>3, <1>4, <1>5, <1>7, BorrowedIs
<1> HIDE DEF s3
<1>9. SliceAt(p4, n4) \in Slice /\ s4 \in Seq(AnyByte) /\ Len(s4) <= Cap
  BY <1>3, <1>4, <1>5, <1>8, BorrowedIs
<1> HIDE DEF s4
<1>10. cur \in Locals
  BY DEF CallOK
<1>11. QED
  BY <1>1, <1>6, <1>7, <1>8, <1>9, <1>10 DEF Locals

\* A step leaves the call with the locals of its site.
LEMMA CallOKNext ==
  ASSUME PeerOK, RingOK, CallOK, Next
  PROVE  CallOK'
<1>1. UNCHANGED frames
  BY StepOfRing DEF peer
<1>2. pc \in BodySites <=> pc \in {"de_len", "payload", "tag_count", "tag", "value", "count",
                                          "annotations", "terminator"}
  BY DEF CallOK, BodySites, Sites
<1>3. AfterPayload(cur.f) \in BodySites /\ AfterMetadata(cur.f) \in BodySites
  BY DEF AfterPayload, AfterMetadata, BodySites, Sites
<1>4. cur \in Locals /\ scratch \in Seq(AnyByte) /\ Len(scratch) <= Cap
  BY DEF CallOK
<1>5. ASSUME FailUntouched, pc # "idle" PROVE CallOK'
  BY <1>1, <1>5, EndsWithoutFrame DEF FailUntouched, Fail, Return
<1>6. CASE Call
  <2>1. NoOut.f = 0 /\ "none" # "frame"
    BY DEF NoOut
  <2>2. pc' \in {"file_header", "header"} /\ pc' \in Sites /\ pc' \notin BodySites /\ pc \notin BodySites
    BY <1>6 DEF Call, BodySites, Sites
  <2>3. QED
    BY <1>1, <1>6, <2>1, <2>2 DEF Call, CallOK
<1>7. CASE Read
  <2>1. pc # "idle" /\ UNCHANGED <<scratch, header_consumed, last_frame_id>>
    BY <1>7 DEF Read, Waiting
  <2>2. Fail \/ UNCHANGED <<pc, cur, result, out, returned>>
    BY <1>7 DEF Read
  <2>3. QED
    BY <1>1, <2>1, <2>2, EndsWithoutFrame DEF Fail, Return, CallOK
<1>8. CASE EndOfStream
  <2>1. pc # "idle" /\ UNCHANGED <<scratch, header_consumed, last_frame_id>>
    BY <1>8 DEF EndOfStream, Waiting
  <2>2. CASE pc \in {"file_header", "header"} /\ Return("end") /\ UNCHANGED <<out, returned>>
    BY <1>1, <2>1, <2>2, EndsWithoutFrame DEF Return
  <2>3. CASE Fail
    BY <1>1, <2>1, <2>3, EndsWithoutFrame DEF Fail, Return
  <2>4. CASE pc \in {"tag", "value"} /\ pc' = AfterMetadata(cur.f) /\ UNCHANGED <<cur, result, out, returned>>
    BY <1>1, <1>2, <1>3, <1>4, <2>1, <2>4, GoesOn
  <2>5. CASE pc = "terminator" /\ Yield(cur)
    BY <1>1, <1>2, <2>1, <2>5, EndsWithFrame
  <2>6. QED
    BY <1>8, <2>2, <2>3, <2>4, <2>5 DEF EndOfStream
<1>9. CASE ReadError
  BY <1>5, <1>9 DEF ReadError, Waiting
<1>10. CASE Cancel
  BY <1>1, <1>10, EndsWithoutFrame DEF Cancel, Waiting, Return
<1>11. CASE FileHeader
  <2>1. pc = "file_header"
    BY <1>11 DEF FileHeader, Filled
  <2>2. CASE FailUntouched
    BY <1>5, <2>1, <2>2
  <2>3. CASE header_consumed' = TRUE /\ pc' = "header"
             /\ UNCHANGED <<scratch, last_frame_id, cur, result, out, returned>>
    <3>1. pc \notin BodySites /\ pc' \notin BodySites /\ pc' \in Sites
      BY <2>1, <2>3 DEF BodySites, Sites
    <3>2. QED
      BY <1>1, <2>1, <2>3, <3>1 DEF CallOK
  <2>4. QED
    BY <1>11, <2>2, <2>3 DEF FileHeader
<1>12. CASE FrameHeader
  <2> DEFINE f == FieldOf(Ring!Peek(FrameHeaderLen), "header")
  <2>1. pc = "header" /\ pc # "idle" /\ pc \notin BodySites
    BY <1>12 DEF FrameHeader, Filled, BodySites, Sites
  <2>2. CASE FailUntouched
    BY <1>5, <2>1, <2>2
  <2>3. CASE Fail /\ UNCHANGED <<last_frame_id, scratch, header_consumed>>
    BY <1>1, <2>1, <2>3, EndsWithoutFrame DEF Fail, Return
  <2>4. CASE /\ Ring!Peekable(FrameHeaderLen) /\ f # 0
             /\ last_frame_id' = frames[f].id
             /\ cur' = [NoLocals EXCEPT !.f = f]
             /\ pc' = "de_len"
             /\ UNCHANGED <<scratch, header_consumed, result, out, returned>>
    <3>1. f \in DOMAIN frames
      BY <2>4, Decoded, WireLengths
    <3>2. f \in Nat
      BY <3>1, LenProperties DEF PeerOK
    <3>3. cur' \in Locals /\ cur'.f = f
      <4>1. NoLocals \in Locals
        BY EmptySeq DEF NoLocals, Locals, NoSlice, Slice
      <4> HIDE DEF f
      <4>2. QED
        BY <2>4, <3>2, <4>1 DEF Locals
    <3>4. pc' \in Sites /\ pc' \in BodySites /\ pc' # "idle"
      BY <2>4 DEF BodySites, Sites
    <3>5. result = "none"
      BY <2>1 DEF CallOK
    <3> HIDE DEF f
    <3>6. QED
      BY <1>1, <2>4, <3>1, <3>3, <3>4, <3>5 DEF CallOK
  <2>5. QED
    BY <1>12, <2>2, <2>3, <2>4 DEF FrameHeader
<1>13. CASE DeLen
  <2>1. pc = "de_len"
    BY <1>13 DEF DeLen, Filled
  <2>2. CASE FailUntouched
    BY <1>5, <2>1, <2>2
  <2>3. CASE ~ FailUntouched
    <3>1. PICK n \in LengthIn(Ring!Peek(PrefixLen), "de_len") : cur' = [cur EXCEPT !.len = n]
      BY <1>13, <2>3 DEF DeLen
    <3>2. Ring!Peekable(PrefixLen) /\ pc' = "payload"
          /\ UNCHANGED <<scratch, header_consumed, last_frame_id, result, out, returned>>
      BY <1>13, <2>3 DEF DeLen
    <3>3. n \in Nat
      BY <3>1, <3>2, Decoded, WireLengths
    <3>4. cur' \in Locals /\ cur'.f = cur.f
      BY <1>4, <3>1, <3>3 DEF Locals
    <3>5. pc' \in BodySites
      BY <3>2 DEF BodySites, Sites
    <3>6. QED
      BY <1>1, <1>2, <1>4, <2>1, <3>2, <3>4, <3>5, GoesOn
  <2>4. QED
    BY <2>2, <2>3
<1>14. CASE Payload
  <2>1. pc = "payload" /\ pc' = AfterPayload(cur.f)
        /\ UNCHANGED <<header_consumed, last_frame_id, result, out, returned>>
    BY <1>14 DEF Payload, Filled
  <2>2. cur' \in Locals /\ cur'.f = cur.f /\ scratch' \in Seq(AnyByte) /\ Len(scratch') <= Cap
    BY <1>14, PayloadTypes
  <2>3. QED
    BY <1>1, <1>2, <1>3, <2>1, <2>2, GoesOn
<1>15. CASE TagCount
  <2>1. pc = "tag_count"
    BY <1>15 DEF TagCount, Filled
  <2>2. CASE FailUntouched
    BY <1>5, <2>1, <2>2
  <2>3. CASE ~ FailUntouched
    <3>1. PICK n \in LengthIn(Ring!Peek(PrefixLen), "tag_count") :
             cur' = [cur EXCEPT !.left = n] /\ pc' = IF n > 0 THEN "tag" ELSE AfterMetadata(cur.f)
      BY <1>15, <2>3 DEF TagCount
    <3>2. Ring!Peekable(PrefixLen)
          /\ UNCHANGED <<scratch, header_consumed, last_frame_id, result, out, returned>>
      BY <1>15, <2>3 DEF TagCount
    <3>3. n \in Int
      BY <3>1, <3>2, Decoded, WireLengths
    <3>4. cur' \in Locals /\ cur'.f = cur.f
      BY <1>4, <3>1, <3>3 DEF Locals
    <3>5. pc' \in BodySites
      BY <1>3, <3>1 DEF BodySites, Sites
    <3>6. QED
      BY <1>1, <1>2, <1>4, <2>1, <3>2, <3>4, <3>5, GoesOn
  <2>4. QED
    BY <2>2, <2>3
<1>16. CASE Tag
  <2>1. pc = "tag"
    BY <1>16 DEF Tag, Filled
  <2>2. CASE FailUntouched
    BY <1>5, <2>1, <2>2
  <2>3. CASE ~ FailUntouched
    <3>1. PICK n \in LengthIn(Ring!Peek(TagHeaderLen), "tag") : cur' = [cur EXCEPT !.len = n]
      BY <1>16, <2>3 DEF Tag
    <3>2. Ring!Peekable(TagHeaderLen) /\ pc' = "value"
          /\ UNCHANGED <<scratch, header_consumed, last_frame_id, result, out, returned>>
      BY <1>16, <2>3 DEF Tag
    <3>3. n \in Nat
      BY <3>1, <3>2, Decoded, WireLengths
    <3>4. cur' \in Locals /\ cur'.f = cur.f
      BY <1>4, <3>1, <3>3 DEF Locals
    <3>5. pc' \in BodySites
      BY <3>2 DEF BodySites, Sites
    <3>6. QED
      BY <1>1, <1>2, <1>4, <2>1, <3>2, <3>4, <3>5, GoesOn
  <2>4. QED
    BY <2>2, <2>3
<1>17. CASE Value
  <2>1. pc = "value"
    BY <1>17 DEF Value, Filled
  <2>2. CASE FailUntouched
    BY <1>5, <2>1, <2>2
  <2>3. CASE ~ FailUntouched
    <3>1. /\ Ring!Peekable(cur.len)
          /\ cur' = [cur EXCEPT !.values = Append(@, Ring!Peek(cur.len)), !.left = @ - 1]
          /\ pc' = IF TagsToCome(cur.left) THEN "tag" ELSE AfterMetadata(cur.f)
          /\ UNCHANGED <<scratch, header_consumed, last_frame_id, result, out, returned>>
      BY <1>17, <2>3 DEF Value
    <3>2. Ring!Peek(cur.len) \in Seq(AnyByte)
      BY <3>1, PeekIs, LocalsAre DEF RingOK
    <3>3. Append(cur.values, Ring!Peek(cur.len)) \in Seq(Seq(AnyByte)) /\ cur.left - 1 \in Int
      BY <3>2, LocalsAre, AppendProperties
    <3>4. cur' \in Locals /\ cur'.f = cur.f
      BY <1>4, <3>1, <3>3 DEF Locals
    <3>5. pc' \in BodySites
      BY <1>3, <3>1 DEF BodySites, Sites
    <3>6. QED
      BY <1>1, <1>2, <1>4, <2>1, <3>1, <3>4, <3>5, GoesOn
  <2>4. QED
    BY <2>2, <2>3
<1>18. CASE Count
  <2>1. pc = "count" /\ UNCHANGED <<scratch, header_consumed, last_frame_id, result, out, returned>>
    BY <1>18 DEF Count, Filled
  <2>2. PICK n \in LengthIn(Ring!Peek(1), "count") :
           cur' = [cur EXCEPT !.len = n * AnnotationLen]
           /\ pc' = IF n > 0 THEN "annotations" ELSE "terminator"
    BY <1>18 DEF Count
  <2>3. n \in Nat /\ AnnotationLen \in Nat
    BY <2>2, Decoded, WireLengths
  <2>4. n * AnnotationLen \in Nat
    BY <2>3
  <2>5. cur' \in Locals /\ cur'.f = cur.f
    BY <1>4, <2>2, <2>4 DEF Locals
  <2>6. pc' \in BodySites
    BY <2>2 DEF BodySites, Sites
  <2>7. QED
    BY <1>1, <1>2, <1>4, <2>1, <2>5, <2>6, GoesOn
<1>19. CASE Annotations
  <2>1. pc = "annotations"
    BY <1>19 DEF Annotations, Filled
  <2>2. CASE FailUntouched
    BY <1>5, <2>1, <2>2
  <2>3. CASE ~ FailUntouched
    <3>1. /\ Ring!Peekable(cur.len)
          /\ cur' = [cur EXCEPT !.annotations = Ring!Peek(cur.len)]
          /\ pc' = "terminator"
          /\ UNCHANGED <<scratch, header_consumed, last_frame_id, result, out, returned>>
      BY <1>19, <2>3 DEF Annotations
    <3>2. Ring!Peek(cur.len) \in Seq(AnyByte)
      BY <3>1, PeekIs, LocalsAre DEF RingOK
    <3>3. cur' \in Locals /\ cur'.f = cur.f
      BY <1>4, <3>1, <3>2 DEF Locals
    <3>4. pc' \in BodySites
      BY <3>1 DEF BodySites, Sites
    <3>5. QED
      BY <1>1, <1>2, <1>4, <2>1, <3>1, <3>3, <3>4, GoesOn
  <2>4. QED
    BY <2>2, <2>3
<1>20. CASE Terminator
  <2>1. pc = "terminator" /\ pc # "idle" /\ UNCHANGED <<scratch, header_consumed, last_frame_id>>
    BY <1>20 DEF Terminator, Filled
  <2>2. CASE Fail
    BY <1>1, <2>1, <2>2, EndsWithoutFrame DEF Fail, Return
  <2>3. CASE ~ Fail
    <3>1. Yield([cur EXCEPT !.verified = Ring!Peekable(TerminatorLen)])
      BY <1>20, <2>3 DEF Terminator
    <3>2. [cur EXCEPT !.verified = Ring!Peekable(TerminatorLen)].f = cur.f
      BY <1>4 DEF Locals
    <3>3. QED
      BY <1>1, <1>2, <2>1, <3>1, <3>2, EndsWithFrame
  <2>4. QED
    BY <2>2, <2>3
<1>21. QED
  BY <1>6, <1>7, <1>8, <1>9, <1>10, <1>11, <1>12, <1>13, <1>14, <1>15, <1>16, <1>17, <1>18,
     <1>19, <1>20 DEF Next, Parse

\* The types, for every state.
TypeInv == PeerOK /\ RingOK /\ CallOK

\* They are kept by every step.
LEMMA TypesNext == TypeInv /\ [Next]_vars => TypeInv'
<1> SUFFICES ASSUME TypeInv, [Next]_vars PROVE TypeInv'
  OBVIOUS
<1>1. PeerOK /\ RingOK /\ CallOK
  BY DEF TypeInv
<1>2. CASE Next
  <2>1. UNCHANGED peer /\ (Feeds \/ Releases \/ Rests)
    BY <1>1, <1>2, StepOfRing
  <2>2. RingOK'
    BY <1>1, <2>1, RingOKNext
  <2>3. CallOK'
    BY <1>1, <1>2, CallOKNext
  <2>4. PeerOK'
    BY <1>1, <2>1 DEF peer, PeerOK
  <2>5. QED
    BY <2>2, <2>3, <2>4 DEF TypeInv
<1>3. CASE UNCHANGED vars
  <2>1. UNCHANGED peer /\ Rests
    BY <1>3 DEF vars, peer, ring, Rests
  <2>2. RingOK'
    BY <1>1, <2>1, RingOKNext
  <2>3. CallOK'
    BY <1>1, <1>3 DEF vars, CallOK
  <2>4. PeerOK'
    BY <1>1, <2>1 DEF peer, PeerOK
  <2>5. QED
    BY <2>2, <2>3, <2>4 DEF TypeInv
<1>4. QED
  BY <1>2, <1>3

\* The type invariant: whatever bytes a stream has and however calls end, the
\* locals that a call goes by are those of the frame whose header it consumed,
\* and the ring and the scratch buffer hold no more than they can.
THEOREM TypeCorrect == Spec => []TypeOK
<1>1. Init => TypeInv
  BY TypesInit DEF TypeInv
<1>2. TypeInv => TypeOK
  <2> SUFFICES ASSUME TypeInv PROVE TypeOK
    OBVIOUS
  <2>1. PeerOK /\ RingOK /\ CallOK
    BY DEF TypeInv
  <2>2. /\ DOMAIN buf = 0 .. (Cap - 1)
        /\ {read_pos, write_pos} \subseteq 0 .. (Modulus - 1)
    BY <2>1, RingIs DEF RingOK
  <2>3. Range(buf) \subseteq {Zero} \cup Range(wire)
    <3>1. \A i \in 0 .. (Cap - 1) : buf[i] \in {Zero} \cup Range(wire)
      <4> SUFFICES ASSUME NEW i \in 0 .. (Cap - 1) PROVE buf[i] \in {Zero} \cup Range(wire)
        OBVIOUS
      <4>1. CASE buf[i] = Zero
        BY <4>1
      <4>2. CASE \E k \in 1 .. Len(wire) : buf[i] = wire[k]
        BY <2>1, <4>2, LenProperties DEF Range, PeerOK
      <4>3. QED
        BY <2>1, <4>1, <4>2 DEF RingOK
    <3>2. QED
      BY <2>2, <3>1 DEF Range
  <2>4. QED
    BY <2>1, <2>2, <2>3 DEF TypeOK, PeerOK, RingOK, CallOK, BodySites
<1>3. QED
  BY <1>1, <1>2, TypesNext, PTL DEF Spec

-----------------------------------------------------------------------------
(* The order of the frames *)

\* What a step does to the history: it starts a frame of a higher id, returns
\* the frame it has, or leaves the history alone and at most gives the frame up.
Starts ==
  \E f \in DOMAIN frames :
     /\ frames[f].id > last_frame_id
     /\ last_frame_id' = frames[f].id
     /\ cur'.f = f
     /\ returned' = returned

Returns ==
  /\ cur.f # 0
  /\ cur'.f = 0
  /\ returned' = Append(returned, cur.f)
  /\ last_frame_id' = last_frame_id

Keeps ==
  /\ cur'.f \in {0, cur.f}
  /\ returned' = returned
  /\ last_frame_id' = last_frame_id

\* A frame handed out is returned, a rejected one given up.
LEMMA YieldReturns ==
  ASSUME CallOK, pc \in BodySites, NEW locals, locals.f = cur.f, Yield(locals),
         last_frame_id' = last_frame_id
  PROVE  Returns \/ Keeps
<1>1. NoLocals.f = 0 /\ cur.f # 0
  BY DEF NoLocals, CallOK
<1>2. CASE Rejected(locals.f)
  BY <1>1, <1>2 DEF Yield, Fail, Return, Keeps
<1>3. CASE ~ Rejected(locals.f)
  BY <1>1, <1>3 DEF Yield, Return, Returns
<1>4. QED
  BY <1>2, <1>3

\* Every step is one of the three.
LEMMA StepOfIds ==
  ASSUME PeerOK, RingOK, CallOK, Next
  PROVE  Starts \/ Returns \/ Keeps
<1>1. NoLocals.f = 0
  BY DEF NoLocals
<1>2. cur \in Locals
  BY DEF CallOK
<1>3. pc = "terminator" => pc \in BodySites
  BY DEF BodySites, Sites
<1>4. CASE Call
  BY <1>4 DEF Call, Keeps
<1>5. CASE Read
  BY <1>1, <1>5 DEF Read, Fail, Return, Keeps
<1>6. CASE EndOfStream
  <2>1. CASE pc = "terminator" /\ Yield(cur)
    BY <1>3, <1>6, <2>1, YieldReturns DEF EndOfStream
  <2>2. CASE ~ (pc = "terminator" /\ Yield(cur))
    BY <1>1, <1>6, <2>2 DEF EndOfStream, Fail, Return, Keeps
  <2>3. QED
    BY <2>1, <2>2
<1>7. CASE ReadError
  BY <1>1, <1>7 DEF ReadError, FailUntouched, Fail, Return, Keeps
<1>8. CASE Cancel
  BY <1>1, <1>8 DEF Cancel, Return, Keeps
<1>9. CASE FileHeader
  BY <1>1, <1>9 DEF FileHeader, FailUntouched, Fail, Return, Keeps
<1>10. CASE FrameHeader
  <2> DEFINE f == FieldOf(Ring!Peek(FrameHeaderLen), "header")
  <2>1. CASE Fail
    <3>1. last_frame_id' = last_frame_id
      BY <1>10, <2>1 DEF FrameHeader, FailUntouched, Fail, Return
    <3>2. QED
      BY <1>1, <2>1, <3>1 DEF Fail, Return, Keeps
  <2>2. CASE ~ Fail
    <3>1. /\ Ring!Peekable(FrameHeaderLen) /\ f # 0 /\ ~ OutOfOrder(f)
          /\ last_frame_id' = frames[f].id
          /\ cur' = [NoLocals EXCEPT !.f = f]
          /\ returned' = returned
      BY <1>10, <2>2 DEF FrameHeader, FailUntouched
    <3>2. f \in DOMAIN frames
      BY <3>1, Decoded, WireLengths
    <3>3. cur'.f = f
      BY <3>1 DEF NoLocals
    <3>4. frames[f].id \in Nat /\ last_frame_id \in Int
      <4>1. \A g \in DOMAIN frames : frames[g] \in Frame
        BY ElementOfSeq, LenProperties DEF PeerOK
      <4>2. \A g \in DOMAIN frames : frames[g].id \in Nat
        BY <4>1, FrameLengths
      <4>3. last_frame_id \in Int
        BY <4>2 DEF CallOK
      <4>4. QED
        BY <3>2, <4>2, <4>3
    <3>5. frames[f].id > last_frame_id
      BY <3>1, <3>4 DEF OutOfOrder
    <3>6. QED
      BY <3>1, <3>2, <3>3, <3>5 DEF Starts
  <2>3. QED
    BY <2>1, <2>2
<1>11. CASE DeLen \/ Payload \/ TagCount \/ Tag \/ Value \/ Count \/ Annotations
  <2>1. returned' = returned /\ last_frame_id' = last_frame_id
    BY <1>11 DEF DeLen, Payload, TagCount, Tag, Value, Count, Annotations, FailUntouched, Fail
  <2>2. cur'.f \in {0, cur.f}
    BY <1>1, <1>2, <1>11 DEF DeLen, Payload, TagCount, Tag, Value, Count, Annotations,
                             FailUntouched, Fail, Return, Locals
  <2>3. QED
    BY <2>1, <2>2 DEF Keeps
<1>12. CASE Terminator
  <2>1. pc \in BodySites /\ last_frame_id' = last_frame_id
    BY <1>3, <1>12 DEF Terminator, Filled
  <2>2. CASE Fail
    BY <1>1, <2>1, <2>2 DEF Fail, Return, Keeps
  <2>3. CASE ~ Fail
    <3>1. Yield([cur EXCEPT !.verified = Ring!Peekable(TerminatorLen)])
      BY <1>12, <2>3 DEF Terminator
    <3>2. [cur EXCEPT !.verified = Ring!Peekable(TerminatorLen)].f = cur.f
      BY <1>2 DEF Locals
    <3>3. QED
      BY <2>1, <3>1, <3>2, YieldReturns
  <2>4. QED
    BY <2>2, <2>3
<1>13. QED
  BY <1>4, <1>5, <1>6, <1>7, <1>8, <1>9, <1>10, <1>11, <1>12 DEF Next, Parse

\* IdsIncrease is not inductive: what is returned is the frame at hand, and that
\* its id is above all the returned ones is known since its header was read.
IdsInv ==
  /\ returned \in Seq(DOMAIN frames)
  /\ \A i \in DOMAIN returned : frames[returned[i]].id <= last_frame_id
  /\ cur.f # 0 => /\ frames[cur.f].id = last_frame_id
                  /\ \A i \in DOMAIN returned : frames[returned[i]].id < last_frame_id
  /\ IdsIncrease

\* It is kept by every step.
LEMMA IdsInvNext == TypeInv /\ IdsInv /\ [Next]_vars => IdsInv'
<1> SUFFICES ASSUME TypeInv, IdsInv, [Next]_vars PROVE IdsInv'
  OBVIOUS
<1>1. PeerOK /\ RingOK /\ CallOK
  BY DEF TypeInv
<1>2. /\ \A f \in DOMAIN frames : frames[f].id \in Nat
      /\ last_frame_id \in Int
  <2>1. \A g \in DOMAIN frames : frames[g] \in Frame
    BY <1>1, ElementOfSeq, LenProperties DEF PeerOK
  <2>2. \A g \in DOMAIN frames : frames[g].id \in Nat
    BY <2>1, FrameLengths
  <2>3. last_frame_id \in Int
    BY <1>1, <2>2 DEF CallOK
  <2>4. QED
    BY <2>2, <2>3
<1>3. /\ returned \in Seq(DOMAIN frames) /\ Len(returned) \in Nat
      /\ DOMAIN returned = 1 .. Len(returned)
      /\ \A i \in DOMAIN returned : returned[i] \in DOMAIN frames
  <2>1. returned \in Seq(DOMAIN frames)
    BY DEF IdsInv
  <2>2. QED
    BY <2>1, LenProperties, ElementOfSeq
<1>4. CASE UNCHANGED vars
  BY <1>4 DEF vars, IdsInv, IdsIncrease
<1>5. CASE Next
  <2>1. frames' = frames
    BY <1>1, <1>5, StepOfRing DEF peer
  <2>2. CASE Keeps
    BY <2>1, <2>2 DEF Keeps, IdsInv, IdsIncrease
  <2>3. CASE Starts
    <3>1. PICK f \in DOMAIN frames : /\ frames[f].id > last_frame_id
                                     /\ last_frame_id' = frames[f].id
                                     /\ cur'.f = f
                                     /\ returned' = returned
      BY <2>3 DEF Starts
    <3>2. \A i \in DOMAIN returned : frames[returned[i]].id < frames[f].id
      <4> SUFFICES ASSUME NEW i \in DOMAIN returned
                   PROVE  frames[returned[i]].id < frames[f].id
        OBVIOUS
      <4>1. frames[returned[i]].id <= last_frame_id
        BY DEF IdsInv
      <4>2. frames[returned[i]].id \in Nat /\ frames[f].id \in Nat
        BY <1>2, <1>3
      <4>3. QED
        BY <1>2, <3>1, <4>1, <4>2
    <3>3. \A i \in DOMAIN returned : frames[returned[i]].id <= frames[f].id
      BY <1>2, <1>3, <3>2
    <3>4. QED
      BY <2>1, <3>1, <3>2, <3>3 DEF IdsInv, IdsIncrease
  <2>4. CASE Returns
    <3>1. /\ cur.f # 0 /\ cur.f \in DOMAIN frames /\ cur'.f = 0
          /\ returned' = Append(returned, cur.f) /\ last_frame_id' = last_frame_id
      BY <1>1, <2>4 DEF Returns, CallOK
    <3>2. /\ returned' \in Seq(DOMAIN frames)
          /\ Len(returned') = Len(returned) + 1
          /\ DOMAIN returned' = 1 .. Len(returned) + 1
          /\ \A i \in DOMAIN returned : returned'[i] = returned[i]
          /\ returned'[Len(returned) + 1] = cur.f
      <4>1. /\ Append(returned, cur.f) \in Seq(DOMAIN frames)
            /\ Len(Append(returned, cur.f)) = Len(returned) + 1
            /\ \A i \in 1 .. Len(returned) : Append(returned, cur.f)[i] = returned[i]
            /\ Append(returned, cur.f)[Len(returned) + 1] = cur.f
        BY <1>3, <3>1, AppendProperties
      <4>2. QED
        BY <1>3, <3>1, <4>1, LenProperties
    <3>3. /\ frames[cur.f].id = last_frame_id
          /\ \A i \in DOMAIN returned : frames[returned[i]].id < last_frame_id
      BY <3>1 DEF IdsInv
    <3>4. ASSUME NEW i \in DOMAIN returned'
          PROVE  /\ i \in DOMAIN returned \/ i = Len(returned) + 1
                 /\ frames[returned'[i]].id <= last_frame_id
      <4>1. i \in DOMAIN returned \/ i = Len(returned) + 1
        BY <1>3, <3>2
      <4>2. CASE i \in DOMAIN returned
        BY <3>2, <4>1, <4>2 DEF IdsInv
      <4>3. CASE i = Len(returned) + 1
        BY <1>2, <3>2, <3>3, <4>1, <4>3
      <4>4. QED
        BY <4>1, <4>2, <4>3
    <3>5. ASSUME NEW i \in DOMAIN returned', NEW j \in DOMAIN returned', i < j
          PROVE  frames[returned'[i]].id < frames[returned'[j]].id
      <4>1. i \in DOMAIN returned
        BY <1>3, <3>2, <3>5
      <4>2. CASE j \in DOMAIN returned
        BY <3>2, <3>5, <4>1, <4>2 DEF IdsInv, IdsIncrease
      <4>3. CASE j = Len(returned) + 1
        BY <3>2, <3>3, <4>1, <4>3
      <4>4. QED
        BY <3>4, <4>2, <4>3
    <3>6. QED
      BY <2>1, <3>1, <3>2, <3>4, <3>5 DEF IdsInv, IdsIncrease
  <2>5. QED
    BY <1>1, <1>5, <2>2, <2>3, <2>4, StepOfIds
<1>6. QED
  BY <1>4, <1>5

\* The ids of the frames returned over the life of a stream strictly increase,
\* though calls fail and are dropped in between, with bytes out of step after.
THEOREM IdsAlwaysIncrease == Spec => []IdsIncrease
<1>1. Init => TypeInv
  BY TypesInit DEF TypeInv
<1>2. Init => IdsInv
  <2> SUFFICES ASSUME Init PROVE IdsInv
    OBVIOUS
  <2>1. returned = << >> /\ cur.f = 0
    BY DEF Init, NoLocals
  <2>2. returned \in Seq(DOMAIN frames) /\ DOMAIN returned = {}
    BY <2>1, EmptySeq
  <2>3. QED
    BY <2>1, <2>2 DEF IdsInv, IdsIncrease
<1>3. IdsInv => IdsIncrease
  BY DEF IdsInv
<1>4. QED
  BY <1>1, <1>2, <1>3, TypesNext, IdsInvNext, PTL DEF Spec

-----------------------------------------------------------------------------
(* The place in the stream *)

\* The store is a whole number of times in the range of the counters.
Aligned == Modulus % Cap = 0

\* How many bytes of the stream were consumed.
Place == pos - Ring!available_read

\* The ring holds the bytes between the parser and the reader.
FlowOK ==
  /\ Ring!available_read <= pos
  /\ \A k \in 1 .. Ring!available_read : Ring!Contents[k] = wire[Place + k]

\* The numbers involved.
LEMMA PlaceIs ==
  ASSUME PeerOK, RingOK, FlowOK
  PROVE  /\ pos \in Nat /\ Len(wire) \in Nat /\ Len(StreamBytes(frames)) \in Nat
         /\ pos <= Len(wire) /\ Len(wire) <= Len(StreamBytes(frames))
         /\ Ring!available_read \in 0 .. Cap /\ Cap \in Nat \ {0}
         /\ Place \in Nat /\ Place + Ring!available_read = pos
<1>1. Len(wire) \in Nat /\ pos \in 0 .. Len(wire)
  BY LenProperties DEF PeerOK, RingOK
<1>2. Len(StreamBytes(frames)) \in Nat /\ Len(wire) <= Len(StreamBytes(frames))
  BY StreamPlaces, LenProperties DEF PeerOK
<1>3. Ring!available_read \in 0 .. Cap /\ Cap \in Nat \ {0}
  BY RingIs DEF RingOK
<1>4. Ring!available_read \in Nat /\ pos \in Nat /\ pos <= Len(wire)
  BY <1>1, <1>3
<1>5. Place \in Nat /\ Place + Ring!available_read = pos
  BY <1>4 DEF FlowOK, Place
<1>6. QED
  BY <1>1, <1>2, <1>3, <1>4, <1>5

\* What peek returns is the stream from the place on.
LEMMA PeekedStands ==
  ASSUME Aligned, PeerOK, RingOK, FlowOK, NEW n \in Nat, Ring!Peekable(n)
  PROVE  /\ n <= Ring!available_read
         /\ Place + n <= Len(StreamBytes(frames))
         /\ Ring!Peek(n) \in Seq(AnyByte) /\ Len(Ring!Peek(n)) = n
         /\ \A k \in 1..n : Ring!Peek(n)[k] = StreamBytes(frames)[Place + k]
<1>1. n <= Ring!available_read
  BY DEF Ring!Peekable
<1>2. Place + n <= Len(StreamBytes(frames)) /\ n \in 0 .. Ring!available_read
  BY <1>1, PlaceIs
<1>3. RP!PeeksReadTheFront /\ RP!Aligned
  BY RingAssumed, RP!PeeksAreFront DEF RingOK, Aligned, RP!Aligned
<1>4. Ring!Peek(n) = SubSeq(Ring!Contents, 1, n)
  BY <1>2, <1>3, SameRing DEF RP!PeeksReadTheFront
<1>5. /\ Ring!Contents \in Seq(AnyByte) /\ Len(Ring!Contents) = Ring!available_read
  BY <1>3, RingAssumed, RP!ContentsAt, SameRing DEF RingOK
<1>6. \A k \in 1..n : SubSeq(Ring!Contents, 1, n)[k] = Ring!Contents[k]
  BY <1>2, <1>5
<1>7. ASSUME NEW k \in 1..n PROVE Ring!Peek(n)[k] = StreamBytes(frames)[Place + k]
  <2>1. k \in 1 .. Ring!available_read /\ Place + k \in 1 .. Len(wire)
    BY <1>1, PlaceIs
  <2>2. Ring!Peek(n)[k] = Ring!Contents[k]
    BY <1>4, <1>6
  <2>3. Ring!Contents[k] = wire[Place + k]
    BY <2>1 DEF FlowOK
  <2>4. wire[Place + k] = StreamBytes(frames)[Place + k]
    BY <2>1 DEF PeerOK
  <2>5. QED
    BY <2>2, <2>3, <2>4
<1>8. Ring!Peek(n) \in Seq(AnyByte) /\ Len(Ring!Peek(n)) = n
  <2>1. RP!IndInv
    BY DEF RingOK
  <2>2. QED
    BY <2>1, PeekIs
<1>9. QED
  BY <1>1, <1>2, <1>7, <1>8

\* A read whose bytes the ring has room for, and a consume, keep the ring in
\* step; the place moves with what is consumed.
LEMMA FlowNext ==
  ASSUME Aligned, PeerOK, RingOK, FlowOK, UNCHANGED peer
  PROVE  /\ \A n \in 1 .. (Len(wire) - pos) :
              /\ pos' = pos + n /\ Ring!Write(SubSeq(wire, pos + 1, pos + n))
              /\ Ring!available_read + n <= Cap
              => FlowOK' /\ Place' = Place
         /\ \A n \in Nat :
              pos' = pos /\ n <= Ring!available_read /\ Ring!Consume(n)
              => FlowOK' /\ Place' = Place + n
         /\ pos' = pos /\ UNCHANGED ring => FlowOK' /\ Place' = Place
<1>1. /\ wire' = wire /\ RP!IndInv /\ RP!Aligned
  BY DEF RingOK, Aligned, RP!Aligned, peer
<1>2. PICK a, c : a = Ring!available_read /\ c = Ring!Contents
  OBVIOUS
<1>3. /\ pos \in Nat /\ Len(wire) \in Nat /\ a \in 0 .. Cap /\ Cap \in Nat \ {0}
      /\ Place \in Nat /\ Place = pos - a /\ a <= pos
      /\ \A k \in 1..a : c[k] = wire[Place + k]
  BY <1>2, PlaceIs DEF FlowOK, Place
<1>4. c \in Seq(AnyByte) /\ Len(c) = a
  BY <1>1, <1>2, RingAssumed, RP!ContentsAt, SameRing
<1>5. ASSUME NEW n \in 1 .. (Len(wire) - pos),
             pos' = pos + n, Ring!Write(SubSeq(wire, pos + 1, pos + n)), a + n <= Cap
      PROVE  FlowOK' /\ Place' = Place
  <2>1. PICK d : d = SubSeq(wire, pos + 1, pos + n)
    OBVIOUS
  <2>2. d \in Seq(AnyByte) /\ Len(d) = n /\ \A i \in 1..n : d[i] = wire[pos + i]
    BY <2>1, ReadBrings
  <2>3. /\ RP!IndInv' /\ Ring!Accepted(d) = n
        /\ Ring!available_read' = a + n
    BY <1>1, <1>2, <1>5, <2>1, <2>2, RingWrites
  <2>4. Ring!Contents' = c \o SubSeq(d, 1, n)
    <3>1. RP!Write(d) /\ RP!Accepted(d) = n
      BY <1>5, <2>1, <2>3, SameRing, SameOperations
    <3>2. RP!Contents' = RP!Contents \o SubSeq(d, 1, RP!Accepted(d))
      BY <1>1, <2>2, <2>3, <3>1, RingAssumed, RP!WriteEnqueues
    <3>3. QED
      BY <1>2, <3>1, <3>2, SameRing, SameRingNext
  <2>5. SubSeq(d, 1, n) = d
    BY <2>2, SubSeqFull
  <2>6. \A k \in 1 .. a + n : (c \o d)[k] = IF k <= a THEN c[k] ELSE d[k - a]
    BY <1>4, <2>2, ConcatProperties
  <2>7. \A k \in 1 .. a + n : (c \o d)[k] = wire[Place + k]
    <3> SUFFICES ASSUME NEW k \in 1 .. a + n PROVE (c \o d)[k] = wire[Place + k]
      OBVIOUS
    <3>1. CASE k <= a
      <4>1. k \in 1..a
        BY <1>3, <3>1
      <4>2. QED
        BY <1>3, <2>6, <3>1, <4>1
    <3>2. CASE ~ (k <= a)
      <4>1. k - a \in 1..n /\ pos + (k - a) = Place + k
        BY <1>3, <3>2
      <4>2. (c \o d)[k] = d[k - a]
        BY <2>6, <3>2
      <4>3. d[k - a] = wire[pos + (k - a)]
        BY <2>2, <4>1
      <4>4. QED
        BY <4>1, <4>2, <4>3
    <3>3. QED
      BY <3>1, <3>2
  <2>8. pos' - Ring!available_read' = Place /\ a + n <= pos'
    BY <1>3, <1>5, <2>3
  <2>9. Place' = Place
    BY <2>8 DEF Place
  <2>10. Ring!Contents' = c \o d
    BY <2>4, <2>5
  <2>11. QED
    BY <1>1, <2>3, <2>7, <2>8, <2>9, <2>10 DEF FlowOK
<1>6. ASSUME NEW n \in Nat, pos' = pos, n <= a, Ring!Consume(n)
      PROVE  FlowOK' /\ Place' = Place + n
  <2>1. RP!IndInv' /\ Ring!available_read' = a - n
    BY <1>1, <1>2, <1>6, RingReleases
  <2>2. Ring!Contents' = SubSeq(c, n + 1, a)
    <3>1. RP!Consume(n) /\ n \in 0 .. Cap /\ n <= RP!available_read
      BY <1>2, <1>3, <1>6, SameRing, SameOperations
    <3>2. RP!Contents' = SubSeq(RP!Contents, n + 1, Len(RP!Contents))
      BY <1>1, <2>1, <3>1, RingAssumed, RP!ConsumeDequeues
    <3>3. QED
      BY <1>2, <1>4, <3>2, SameRing, SameRingNext
  <2>3. \A k \in 1 .. a - n : SubSeq(c, n + 1, a)[k] = c[n + k]
    BY <1>3, <1>4, <1>6
  <2>4. pos' - Ring!available_read' = Place + n /\ a - n <= pos'
    BY <1>3, <1>6, <2>1
  <2>5. Place' = Place + n
    BY <2>4 DEF Place
  <2>6. ASSUME NEW k \in 1 .. a - n PROVE SubSeq(c, n + 1, a)[k] = wire[(Place + n) + k]
    <3>1. n + k \in 1..a /\ Place + (n + k) = (Place + n) + k
      BY <1>3, <1>6
    <3>2. c[n + k] = wire[Place + (n + k)]
      BY <1>3, <3>1
    <3>3. QED
      BY <2>3, <3>1, <3>2
  <2>7. QED
    BY <1>1, <2>1, <2>2, <2>4, <2>5, <2>6 DEF FlowOK
<1>7. ASSUME pos' = pos, UNCHANGED ring PROVE FlowOK' /\ Place' = Place
  <2>1. Ring!available_read' = Ring!available_read /\ Ring!Contents' = Ring!Contents
    BY <1>1, <1>7, RingRests
  <2>2. QED
    BY <1>1, <1>7, <2>1 DEF FlowOK, Place
<1>8. QED
  BY <1>2, <1>5, <1>6, <1>7

-----------------------------------------------------------------------------
(* The place in the frame *)

\* What is left of the concatenation from the j-th sequence on.
From(ss, j) ==
  LET off == CHOOSE off : Placed(ss, off, FlattenSeq(ss))
  IN  SubSeq(FlattenSeq(ss), off[j - 1] + 1, Len(FlattenSeq(ss)))

\* It is the j-th sequence and then what is left from the next one on.
LEMMA FlattenFrom ==
  ASSUME NEW S, NEW ss \in Seq(Seq(S))
  PROVE  /\ From(ss, 1) = FlattenSeq(ss)
         /\ From(ss, Len(ss) + 1) = << >>
         /\ \A j \in 1 .. Len(ss) + 1 : From(ss, j) \in Seq(S)
         /\ \A j \in 1 .. Len(ss) : From(ss, j) = ss[j] \o From(ss, j + 1)
<1>1. PICK N : N = Len(ss)
  OBVIOUS
<1>2. N \in Nat /\ \A j \in 1..N : ss[j] \in Seq(S) /\ Len(ss[j]) \in Nat
  BY <1>1, LenProperties, ElementOfSeq
<1>3. PICK t : t = FlattenSeq(ss)
  OBVIOUS
<1>4. PICK off : off = CHOOSE x : Placed(ss, x, FlattenSeq(ss))
  OBVIOUS
<1>5. Placed(ss, off, t) /\ t \in Seq(S)
  <2>1. FlattenSeq(ss) \in Seq(S) /\ \E x : Placed(ss, x, FlattenSeq(ss))
    BY FlattenPlaces
  <2>2. QED
    BY <1>3, <1>4, <2>1
<1>6. /\ off \in [0..N -> Nat] /\ off[0] = 0 /\ Len(t) = off[N] /\ Ends(ss, off)
      /\ \A j \in 1..N : off[j] = off[j - 1] + Len(ss[j])
      /\ \A j \in 1..N : \A i \in 1 .. Len(ss[j]) : t[off[j - 1] + i] = ss[j][i]
  BY <1>1, <1>5 DEF Placed, Ends
<1>7. \A j \in 1 .. N + 1 : From(ss, j) = SubSeq(t, off[j - 1] + 1, Len(t))
  BY <1>3, <1>4 DEF From
<1>8. ASSUME NEW j \in 1 .. N + 1
      PROVE  /\ off[j - 1] \in Nat /\ off[j - 1] <= Len(t)
             /\ From(ss, j) \in Seq(S) /\ Len(From(ss, j)) = Len(t) - off[j - 1]
             /\ \A i \in 1 .. Len(t) - off[j - 1] : From(ss, j)[i] = t[off[j - 1] + i]
  <2>1. off[j - 1] \in Nat /\ Len(t) \in Nat
    BY <1>2, <1>6
  <2>2. off[j - 1] <= Len(t)
    <3>1. j - 1 \in 0 .. Len(ss) /\ N \in (j - 1) .. Len(ss)
      BY <1>1, <1>2
    <3>2. \A i \in 0 .. Len(ss) : \A k \in i .. Len(ss) : off[i] <= off[k]
      BY <1>6, EndsGrow
    <3>3. QED
      BY <1>6, <3>1, <3>2
  <2>3. PICK m : m = off[j - 1] + 1
    OBVIOUS
  <2>4. m \in Int /\ Len(t) \in Int /\ \A i \in m .. Len(t) : t[i] \in S
    <3>1. \A i \in m .. Len(t) : i \in 1 .. Len(t)
      BY <2>1, <2>3
    <3>2. QED
      BY <1>5, <2>1, <2>3, <3>1, ElementOfSeq
  <2>5. /\ SubSeq(t, m, Len(t)) \in Seq(S)
        /\ Len(SubSeq(t, m, Len(t))) = IF m <= Len(t) THEN Len(t) - m + 1 ELSE 0
        /\ \A i \in 1 .. Len(t) - m + 1 : SubSeq(t, m, Len(t))[i] = t[m + i - 1]
    BY <2>4, SubSeqProperties
  <2>6. From(ss, j) = SubSeq(t, m, Len(t))
    BY <1>7, <2>3
  <2>7. Len(From(ss, j)) = Len(t) - off[j - 1]
    BY <2>1, <2>2, <2>3, <2>5, <2>6
  <2>8. ASSUME NEW i \in 1 .. Len(t) - off[j - 1] PROVE From(ss, j)[i] = t[off[j - 1] + i]
    <3>1. i \in 1 .. Len(t) - m + 1 /\ m + i - 1 = off[j - 1] + i
      <4>1. PICK x : x = off[j - 1]
        OBVIOUS
      <4>2. x \in Nat /\ m = x + 1 /\ i \in 1 .. Len(t) - x /\ Len(t) \in Nat
        BY <2>1, <2>3, <4>1
      <4>3. i \in 1 .. Len(t) - m + 1 /\ m + i - 1 = x + i
        BY <4>2
      <4>4. QED
        BY <4>1, <4>3
    <3>2. From(ss, j)[i] = t[m + i - 1]
      BY <2>5, <2>6, <3>1
    <3>3. QED
      BY <3>1, <3>2
  <2>9. QED
    BY <2>1, <2>2, <2>5, <2>6, <2>7, <2>8
<1>9. From(ss, 1) = t
  <2>1. 1 \in 1 .. N + 1 /\ 1 - 1 = 0
    BY <1>2
  <2>2. From(ss, 1) = SubSeq(t, 1, Len(t))
    <3>1. From(ss, 1) = SubSeq(t, off[1 - 1] + 1, Len(t))
      BY <1>7, <2>1
    <3>2. off[1 - 1] + 1 = 1
      BY <1>6, <2>1
    <3>3. QED
      BY <3>1, <3>2
  <2>3. QED
    BY <1>5, <2>2, SubSeqFull
<1>10. From(ss, N + 1) = << >>
  <2>1. N + 1 \in 1 .. N + 1 /\ (N + 1) - 1 = N /\ off[N] = Len(t) /\ Len(t) \in Nat
    BY <1>2, <1>6
  <2>2. From(ss, N + 1) \in Seq(S) /\ Len(From(ss, N + 1)) = 0
    BY <1>8, <2>1
  <2>3. QED
    BY <2>2, EmptySeq
<1>11. ASSUME NEW j \in 1..N PROVE From(ss, j) = ss[j] \o From(ss, j + 1)
  <2>1. j \in 1 .. N + 1 /\ j + 1 \in 1 .. N + 1 /\ (j + 1) - 1 = j
    BY <1>2
  <2>2. PICK a, b, x, l : a = From(ss, j) /\ b = From(ss, j + 1) /\ x = off[j - 1] /\ l = Len(ss[j])
    OBVIOUS
  <2>3. /\ x \in Nat /\ x <= Len(t) /\ a \in Seq(S) /\ Len(a) = Len(t) - x
        /\ \A i \in 1 .. Len(t) - x : a[i] = t[x + i]
    BY <1>8, <2>1, <2>2
  <2>4. /\ off[j] \in Nat /\ off[j] <= Len(t) /\ b \in Seq(S) /\ Len(b) = Len(t) - off[j]
        /\ \A i \in 1 .. Len(t) - off[j] : b[i] = t[off[j] + i]
    BY <1>8, <2>1, <2>2
  <2>5. off[j] = x + l /\ l \in Nat /\ Len(t) \in Nat /\ \A i \in 1..l : ss[j][i] = t[x + i]
    BY <1>2, <1>5, <1>6, <2>2, LenProperties
  <2>6. /\ ss[j] \o b \in Seq(S) /\ Len(ss[j] \o b) = l + Len(b)
        /\ \A i \in 1 .. l + Len(b) : (ss[j] \o b)[i] = IF i <= l THEN ss[j][i] ELSE b[i - l]
    <3>1. ss[j] \in Seq(S) /\ b \in Seq(S)
      BY <1>2, <2>4
    <3>2. QED
      BY <2>2, <3>1, ConcatProperties
  <2>7. Len(ss[j] \o b) = Len(a) /\ Len(a) = l + Len(b)
    BY SMTT(30), <2>3, <2>4, <2>5, <2>6
  <2>8. ASSUME NEW i \in 1 .. Len(a) PROVE a[i] = (ss[j] \o b)[i]
    <3>1. a[i] = t[x + i]
      BY <2>3
    <3>2. i \in 1 .. l + Len(b)
      BY <2>7
    <3>3. CASE i <= l
      <4>1. i \in 1..l
        BY <2>5, <3>3
      <4>2. QED
        BY <2>5, <2>6, <3>1, <3>2, <3>3, <4>1
    <3>4. CASE ~ (i <= l)
      <4>1. i - l \in 1 .. Len(t) - off[j] /\ off[j] + (i - l) = x + i
        BY <2>3, <2>4, <2>5, <3>2, <3>4
      <4>2. (ss[j] \o b)[i] = b[i - l]
        BY <2>6, <3>2, <3>4
      <4>3. b[i - l] = t[off[j] + (i - l)]
        BY <2>4, <4>1
      <4>4. QED
        BY <3>1, <4>1, <4>2, <4>3
    <3>5. QED
      BY <3>3, <3>4
  <2>9. a = ss[j] \o b
    BY <2>3, <2>6, <2>7, <2>8, SeqEqual
  <2>10. QED
    BY <2>2, <2>9
<1>12. QED
  BY <1>1, <1>3, <1>8, <1>9, <1>10, <1>11

\* Of two runs that stand in the stream together, each does.
LEMMA StandsConcat ==
  ASSUME NEW stream, Len(stream) \in Nat, NEW q \in Nat, NEW S, NEW s \in Seq(S), NEW t \in Seq(S),
         Stands(stream, q, s \o t)
  PROVE  /\ Len(s) \in Nat /\ Len(t) \in Nat /\ q + Len(s) <= Len(stream)
         /\ Stands(stream, q, s) /\ Stands(stream, q + Len(s), t)
<1>1. /\ Len(s) \in Nat /\ Len(t) \in Nat
      /\ Len(s \o t) = Len(s) + Len(t)
      /\ \A i \in 1 .. Len(s) + Len(t) : (s \o t)[i] = IF i <= Len(s) THEN s[i] ELSE t[i - Len(s)]
  BY ConcatProperties, LenProperties
<1>2. /\ q + (Len(s) + Len(t)) <= Len(stream)
      /\ \A k \in 1 .. Len(s) + Len(t) : stream[q + k] = (s \o t)[k]
  BY <1>1 DEF Stands
<1>3. q + Len(s) <= Len(stream) /\ q + Len(s) \in Nat /\ (q + Len(s)) + Len(t) <= Len(stream)
  BY <1>1, <1>2
<1>4. ASSUME NEW k \in 1 .. Len(s) PROVE stream[q + k] = s[k]
  <2>1. k \in 1 .. Len(s) + Len(t) /\ k <= Len(s)
    BY <1>1
  <2>2. QED
    BY <1>1, <1>2, <2>1
<1>5. ASSUME NEW k \in 1 .. Len(t) PROVE stream[(q + Len(s)) + k] = t[k]
  <2>1. /\ Len(s) + k \in 1 .. Len(s) + Len(t) /\ ~ (Len(s) + k <= Len(s))
        /\ (Len(s) + k) - Len(s) = k /\ q + (Len(s) + k) = (q + Len(s)) + k
    BY <1>1
  <2>2. stream[q + (Len(s) + k)] = (s \o t)[Len(s) + k]
    BY <1>2, <2>1
  <2>3. (s \o t)[Len(s) + k] = t[(Len(s) + k) - Len(s)]
    BY <1>1, <2>1
  <2>4. QED
    BY <2>1, <2>2, <2>3
<1>6. QED
  BY <1>1, <1>3, <1>4, <1>5 DEF Stands

\* The tags of a frame from the j-th on.
TagsFrom(f, fr, j) == From(TagBytes(f, fr), j)

\* How the blocks of a frame follow on each other.
LEMMA BlocksFollow ==
  ASSUME NEW f \in Nat, NEW fr \in Frame
  PROVE  /\ fr.metadata => /\ Described(f, fr) = Bytes(f, "tag_count", 0, PrefixLen) \o
                                                 (TagsFrom(f, fr, 1) \o Annotated(f, fr))
                           /\ TagsFrom(f, fr, 1) \in Seq(BodyByte(f, fr))
         /\ TagsFrom(f, fr, Len(fr.tags) + 1) = << >>
         /\ \A j \in 1 .. Len(fr.tags) :
               /\ TagsFrom(f, fr, j) \o Annotated(f, fr)
                    = Bytes(f, "tag", j, TagHeaderLen) \o
                      (Bytes(f, "value", j, fr.tags[j]) \o
                       (TagsFrom(f, fr, j + 1) \o Annotated(f, fr)))
               /\ TagsFrom(f, fr, j + 1) \in Seq(BodyByte(f, fr))
         /\ ~ fr.metadata => Described(f, fr) = Annotated(f, fr) /\ Len(fr.tags) = 0
         /\ fr.annotated => Annotated(f, fr) = Bytes(f, "count", 0, 1) \o
                              (Bytes(f, "annotations", 0, fr.annotations * AnnotationLen) \o
                               Bytes(f, "terminator", 0, TerminatorLen))
         /\ ~ fr.annotated => /\ Annotated(f, fr) = Bytes(f, "terminator", 0, TerminatorLen)
                              /\ fr.annotations = 0
<1>1. PICK S, A, N : S = BodyByte(f, fr) /\ A = Annotated(f, fr) /\ N = Len(fr.tags)
  OBVIOUS
<1>2. /\ N \in Nat /\ fr.tags \in Seq(Nat) /\ DOMAIN fr.tags = 1..N
      /\ \A j \in 1..N : fr.tags[j] \in Nat
      /\ fr.annotations * AnnotationLen \in Nat
      /\ PrefixLen \in Nat /\ TagHeaderLen \in Nat /\ TerminatorLen \in Nat
  BY <1>1, FrameLengths, WireLengths, LenProperties, ElementOfSeq
<1>3. A \in Seq(S) /\ AnnotationBlock(f, fr) \in Seq(S) /\ MetadataBlock(f, fr) \in Seq(S)
  BY <1>1, BodyBytes
<1>4. /\ Bytes(f, "tag_count", 0, PrefixLen) \in Seq(S)
      /\ Bytes(f, "count", 0, 1) \in Seq(S)
      /\ Bytes(f, "annotations", 0, fr.annotations * AnnotationLen) \in Seq(S)
      /\ Bytes(f, "terminator", 0, TerminatorLen) \in Seq(S)
  <2>1. \A part \in Parts \ {"file_header", "header", "tag"} : \A n \in Nat :
           Bytes(f, part, 0, n) \in Seq(S)
    BY <1>1, PartBytes
  <2>2. QED
    BY <1>2, <2>1 DEF Parts
<1>5. \A j \in 1..N : /\ Bytes(f, "tag", j, TagHeaderLen) \in Seq(S)
                      /\ Bytes(f, "value", j, fr.tags[j]) \in Seq(S)
  <2> SUFFICES ASSUME NEW j \in 1..N
               PROVE  /\ Bytes(f, "tag", j, TagHeaderLen) \in Seq(S)
                      /\ Bytes(f, "value", j, fr.tags[j]) \in Seq(S)
    OBVIOUS
  <2>1. j \in Nat /\ j \in DOMAIN fr.tags /\ fr.tags[j] \in Nat
    BY <1>2
  <2>2. Bytes(f, "tag", j, TagHeaderLen) \in Seq(S)
    BY <1>1, <1>2, <2>1, PartBytes DEF Parts
  <2>3. Bytes(f, "value", j, fr.tags[j]) \in Seq(S)
    BY <1>1, <2>1, PartBytes DEF Parts
  <2>4. QED
    BY <2>2, <2>3
<1>6. PICK T : T = TagBytes(f, fr)
  OBVIOUS
<1>7. /\ T \in Seq(Seq(S)) /\ Len(T) = N
      /\ \A j \in 1..N : T[j] = Bytes(f, "tag", j, TagHeaderLen) \o Bytes(f, "value", j, fr.tags[j])
  BY <1>1, <1>6, TagBytesAre
<1>8. /\ From(T, 1) = FlattenSeq(T)
      /\ From(T, N + 1) = << >>
      /\ \A j \in 1 .. N + 1 : From(T, j) \in Seq(S)
      /\ \A j \in 1..N : From(T, j) = T[j] \o From(T, j + 1)
  BY <1>7, FlattenFrom
<1>9. \A s, t, u \in Seq(S) : (s \o t) \o u = s \o (t \o u)
  BY ConcatAssociative
<1>10. \A s, t \in Seq(S) : s \o t \in Seq(S)
  BY ConcatProperties
<1>11. \A j : TagsFrom(f, fr, j) = From(T, j)
  BY <1>6 DEF TagsFrom
<1>12. ASSUME fr.metadata
       PROVE  Described(f, fr) = Bytes(f, "tag_count", 0, PrefixLen) \o (TagsFrom(f, fr, 1) \o A)
  <2>1. MetadataBlock(f, fr) = Bytes(f, "tag_count", 0, PrefixLen) \o FlattenSeq(T)
    BY <1>6, <1>12 DEF MetadataBlock, TagBytes
  <2>2. Described(f, fr) = (Bytes(f, "tag_count", 0, PrefixLen) \o From(T, 1)) \o A
    BY <1>1, <1>8, <2>1 DEF Described
  <2>3. 1 \in 1 .. N + 1
    BY <1>2
  <2>4. From(T, 1) \in Seq(S)
    BY <1>8, <2>3
  <2>5. PICK c, t : c = Bytes(f, "tag_count", 0, PrefixLen) /\ t = From(T, 1)
    OBVIOUS
  <2>6. c \in Seq(S) /\ t \in Seq(S)
    BY <1>4, <2>4, <2>5
  <2>7. (c \o t) \o A = c \o (t \o A)
    BY SMTT(30), <1>3, <2>6, ConcatAssociative
  <2>8. QED
    BY <1>11, <2>2, <2>5, <2>7, Zenon
<1>13. ASSUME NEW j \in 1..N
       PROVE  /\ TagsFrom(f, fr, j) \o A
                    = Bytes(f, "tag", j, TagHeaderLen) \o
                      (Bytes(f, "value", j, fr.tags[j]) \o (TagsFrom(f, fr, j + 1) \o A))
              /\ TagsFrom(f, fr, j + 1) \in Seq(S)
  <2>1. PICK x, y, z : /\ x = Bytes(f, "tag", j, TagHeaderLen)
                       /\ y = Bytes(f, "value", j, fr.tags[j])
                       /\ z = From(T, j + 1)
    OBVIOUS
  <2>2. x \in Seq(S) /\ y \in Seq(S) /\ z \in Seq(S)
    <3>1. j + 1 \in 1 .. N + 1
      BY <1>2
    <3>2. QED
      BY <1>5, <1>8, <2>1, <3>1
  <2>3. From(T, j) = (x \o y) \o z
    BY <1>7, <1>8, <2>1
  <2>4. ((x \o y) \o z) \o A = (x \o y) \o (z \o A) /\ (x \o y) \o (z \o A) = x \o (y \o (z \o A))
    <3>1. x \o y \in Seq(S) /\ z \o A \in Seq(S)
      BY <1>3, <1>10, <2>2
    <3>2. PICK u, v : u = x \o y /\ v = z \o A
      OBVIOUS
    <3>3. u \in Seq(S) /\ v \in Seq(S)
      BY <3>1, <3>2
    <3>4. (u \o z) \o A = u \o (z \o A)
      <4>1. u \in Seq(S) /\ z \in Seq(S) /\ A \in Seq(S)
        BY <1>3, <2>2, <3>3
      <4>2. QED
        BY <1>9, <4>1, Zenon
    <3>5. (x \o y) \o v = x \o (y \o v)
      BY <1>9, <2>2, <3>3, Zenon
    <3>6. QED
      BY <3>2, <3>4, <3>5, Zenon
  <2>5. QED
    BY <1>11, <2>1, <2>2, <2>3, <2>4
<1>14. ASSUME ~ fr.metadata PROVE Described(f, fr) = A /\ N = 0
  <2>1. fr.tags = << >>
    BY <1>14 DEF Frame
  <2>2. Described(f, fr) = << >> \o A
    BY <1>1, <1>14 DEF Described, MetadataBlock
  <2>3. << >> \o A = A
    BY <1>3, ConcatEmptySeq
  <2>4. QED
    BY <1>1, <2>1, <2>2, <2>3, EmptySeq
<1>15. ASSUME fr.annotated
       PROVE  A = Bytes(f, "count", 0, 1) \o
                  (Bytes(f, "annotations", 0, fr.annotations * AnnotationLen) \o
                   Bytes(f, "terminator", 0, TerminatorLen))
  <2>1. A = (Bytes(f, "count", 0, 1) \o Bytes(f, "annotations", 0, fr.annotations * AnnotationLen))
            \o Bytes(f, "terminator", 0, TerminatorLen)
    BY <1>1, <1>15 DEF Annotated, AnnotationBlock
  <2>2. QED
    BY <1>4, <1>9, <2>1
<1>16. ASSUME ~ fr.annotated
       PROVE  A = Bytes(f, "terminator", 0, TerminatorLen) /\ fr.annotations = 0
  <2>1. A = << >> \o Bytes(f, "terminator", 0, TerminatorLen)
    BY <1>1, <1>16 DEF Annotated, AnnotationBlock
  <2>2. << >> \o Bytes(f, "terminator", 0, TerminatorLen) = Bytes(f, "terminator", 0, TerminatorLen)
    BY <1>4, ConcatEmptySeq
  <2>3. fr.annotations = 0
    BY <1>16 DEF Frame
  <2>4. QED
    BY <2>1, <2>2, <2>3
<1>17. TagsFrom(f, fr, 1) \in Seq(S) /\ TagsFrom(f, fr, N + 1) = << >>
  <2>1. 1 \in 1 .. N + 1
    BY <1>2
  <2>2. QED
    BY <1>8, <1>11, <2>1
<1>18. QED
  BY <1>1, <1>12, <1>13, <1>14, <1>15, <1>16, <1>17, Zenon

\* A field that stands at the place is read as that field, and a length field
\* as the length.
LEMMA FieldRead ==
  ASSUME Aligned, PeerOK, RingOK, FlowOK,
         NEW f \in Nat, NEW part \in Parts, NEW j \in Nat, NEW n \in Nat,
         Stands(StreamBytes(frames), Place, Bytes(f, part, j, n)), Ring!Peekable(n)
  PROVE  /\ Ring!Peek(n) = Bytes(f, part, j, n)
         /\ f # 0 /\ n # 0 => LengthIn(Ring!Peek(n), part) = {Announced(f, part, j)}
<1>1. PICK b : b = Ring!Peek(n)
  OBVIOUS
<1>2. b \in Seq(AnyByte) /\ Len(b) = n /\ \A k \in 1..n : b[k] = StreamBytes(frames)[Place + k]
  BY <1>1, PeekedStands
<1>3. PICK c : c = Bytes(f, part, j, n)
  OBVIOUS
<1>4. c \in Seq(AnyByte) /\ Len(c) = n /\ \A k \in 1..n : c[k] = <<f, part, j, k>>
  <2>1. \A k \in 1..n : <<f, part, j, k>> \in AnyByte
    BY DEF AnyByte
  <2>2. QED
    BY <1>3, <2>1, BytesAre
<1>5. \A k \in 1..n : b[k] = c[k]
  BY <1>2, <1>3, <1>4 DEF Stands
<1>6. b = c
  BY <1>2, <1>4, <1>5, SeqEqual
<1>7. ASSUME f # 0, n # 0 PROVE LengthIn(b, part) = {Announced(f, part, j)}
  <2>1. b[1] = <<f, part, j, 1>>
    <3>1. 1 \in 1..n
      BY <1>7
    <3>2. QED
      BY <1>4, <1>6, <3>1
  <2>2. b[1][1] = f /\ b[1][3] = j
    BY <2>1
  <2>3. FieldOf(b, part) = f
    BY <1>2, <1>3, <1>6, <2>2 DEF FieldOf
  <2>4. QED
    BY <1>7, <2>2, <2>3 DEF LengthIn
<1>8. QED
  BY <1>1, <1>3, <1>6, <1>7

\* A header that was found is the header of the frame that stands at the place.
LEMMA HeaderRead ==
  ASSUME Aligned, PeerOK, RingOK, FlowOK, Ring!Peekable(FrameHeaderLen),
         NEW f, f = FieldOf(Ring!Peek(FrameHeaderLen), "header"), f # 0
  PROVE  f \in 1 .. Len(frames) /\ Stands(StreamBytes(frames), Place, FrameBytes(f, frames[f]))
<1>1. PICK b : b = Ring!Peek(FrameHeaderLen)
  OBVIOUS
<1>2. /\ FrameHeaderLen \in Nat \ {0} /\ Len(b) = FrameHeaderLen
      /\ Place + FrameHeaderLen <= Len(StreamBytes(frames))
      /\ \A k \in 1 .. FrameHeaderLen : b[k] = StreamBytes(frames)[Place + k]
  BY <1>1, WireLengths, PeekedStands
<1>3. Place \in Nat /\ Len(StreamBytes(frames)) \in Nat
  BY PlaceIs
<1>4. b = Bytes(f, "header", b[1][3], FrameHeaderLen)
  BY <1>1, <1>2 DEF FieldOf
<1>5. b[1] = <<f, "header", b[1][3], 1>>
  <2>1. 1 \in 1 .. FrameHeaderLen
    BY <1>2
  <2>2. Bytes(f, "header", b[1][3], FrameHeaderLen)[1] = <<f, "header", b[1][3], 1>>
    BY <1>2, <2>1, BytesAre
  <2>3. QED
    BY <1>4, <2>2, Zenon
<1>6. PICK p : p = Place + 1
  OBVIOUS
<1>7. p \in 1 .. Len(StreamBytes(frames)) /\ p - 1 = Place
  BY <1>2, <1>3, <1>6
<1>8. StreamBytes(frames)[p] = <<f, "header", b[1][3], 1>>
  <2>1. 1 \in 1 .. FrameHeaderLen
    BY <1>2
  <2>2. QED
    BY <1>2, <1>5, <1>6, <2>1
<1>9. frames \in Seq(Frame)
  BY DEF PeerOK
<1>10. f \in 1 .. Len(frames) /\ Stands(StreamBytes(frames), p - 1, FrameBytes(f, frames[f]))
  BY <1>7, <1>8, <1>9, HeaderPlace
<1>11. QED
  BY <1>7, <1>10

\* The metadata values of the first n tags.
ValuesTo(f, fr, n) == [j \in 1..n |-> Bytes(f, "value", j, fr.tags[j])]

\* What is to come of its frame for a call with locals c at a site.
DueAt(site, c) ==
  LET f == c.f
      fr == frames[c.f]
      n == Len(c.values)
  IN  CASE site = "de_len"      -> Body(f, fr)
        [] site = "payload"     -> FourFields(f, fr) \o Described(f, fr)
        [] site = "tag_count"   -> Described(f, fr)
        [] site = "tag"         -> TagsFrom(f, fr, n + 1) \o Annotated(f, fr)
        [] site = "value"       -> Bytes(f, "value", n + 1, c.len) \o
                                   (TagsFrom(f, fr, n + 2) \o Annotated(f, fr))
        [] site = "count"       -> Annotated(f, fr)
        [] site = "annotations" -> Bytes(f, "annotations", 0, c.len) \o
                                   Bytes(f, "terminator", 0, TerminatorLen)
        [] site = "terminator"  -> Bytes(f, "terminator", 0, TerminatorLen)

\* What such a call knows of its frame.
KnowsAt(site, c) ==
  LET f == c.f
      fr == frames[c.f]
      n == Len(c.values)
  IN  /\ site = "payload" => c.len = Len(fr.detector_events)
      /\ site \in {"tag_count", "tag", "value"} => fr.metadata
      /\ site \in {"count", "annotations"} => fr.annotated
      /\ n <= Len(fr.tags) /\ c.values = ValuesTo(f, fr, n)
      /\ site \in {"de_len", "payload", "tag_count"} => n = 0
      /\ site \in {"tag", "value"} => n < Len(fr.tags) /\ c.left = Len(fr.tags) - n
      /\ site \in {"count", "annotations", "terminator"} => n = Len(fr.tags)
      /\ site = "value" => c.len = fr.tags[n + 1]
      /\ site = "annotations" => c.len = fr.annotations * AnnotationLen
      /\ c.annotations = IF site = "terminator"
                         THEN Bytes(f, "annotations", 0, fr.annotations * AnnotationLen)
                         ELSE << >>

\* The call stands where its site says.
OnTrackAt(q, site, c) == Stands(StreamBytes(frames), q, DueAt(site, c)) /\ KnowsAt(site, c)

\* Where in the stream its frame ends.
EndAt(q, site, c) == q + Len(DueAt(site, c))

\* The peer closed in the middle of a stream, and everything sent was read.
Cut == pos = Len(wire) /\ Len(wire) < Len(StreamBytes(frames))

\* The sites after the payload.
Later == {"tag_count", "tag", "value", "count", "annotations", "terminator"}

\* A call that has a frame's header is where its site says in that frame, unless
\* the stream was cut short: then a tag's block may be left for the next one.
InStep == pc \in BodySites => OnTrackAt(Place, pc, cur) \/ (Cut /\ pc \in Later)

Here == Aligned /\ PeerOK /\ RingOK /\ CallOK /\ FlowOK

\* The frame of a call in its body.
LEMMA FrameAtHand ==
  ASSUME PeerOK, CallOK, pc \in BodySites
  PROVE  /\ cur.f \in Nat \ {0} /\ cur.f \in 1 .. Len(frames) /\ frames[cur.f] \in Frame
         /\ cur \in Locals /\ cur.len \in Nat /\ cur.left \in Int
         /\ cur.values \in Seq(Seq(AnyByte)) /\ Len(cur.values) \in Nat
<1>1. cur.f # 0 /\ cur \in Locals
  BY DEF CallOK
<1>2. /\ cur.f \in Nat /\ cur.f \in 1 .. Len(frames) /\ frames[cur.f] \in Frame
      /\ cur.len \in Nat /\ cur.left \in Int /\ cur.values \in Seq(Seq(AnyByte))
  BY <1>1, LocalsAre DEF CurFrame
<1>3. Len(cur.values) \in Nat
  BY <1>2, LenProperties
<1>4. QED
  BY <1>1, <1>2, <1>3

\* The length of the payload.
LEMMA PayloadIs ==
  ASSUME NEW f \in Nat, NEW fr \in Frame
  PROVE  Len(FourFields(f, fr))
           = Len(fr.detector_events) + fr.ancilla_count + TimingLen(fr) + ParityLen(fr)
<1>1. PICK S, a, b, c, d : /\ S = BodyByte(f, fr)
                           /\ a = Bytes(f, "de", 0, Len(fr.detector_events))
                           /\ b = Bytes(f, "meas", 0, fr.ancilla_count)
                           /\ c = Bytes(f, "timing", 0, TimingLen(fr))
                           /\ d = Bytes(f, "parity", 0, ParityLen(fr))
  OBVIOUS
<1>2. /\ Len(fr.detector_events) \in Nat /\ fr.ancilla_count \in Nat
      /\ TimingLen(fr) \in Nat /\ ParityLen(fr) \in Nat
  BY FrameLengths
<1>3. a \in Seq(S) /\ b \in Seq(S) /\ c \in Seq(S) /\ d \in Seq(S)
  <2>1. \A part \in Parts \ {"file_header", "header", "tag"} : \A n \in Nat :
           Bytes(f, part, 0, n) \in Seq(S)
    BY <1>1, PartBytes
  <2>2. QED
    BY <1>1, <1>2, <2>1 DEF Parts
<1>4. /\ Len(a) = Len(fr.detector_events) /\ Len(b) = fr.ancilla_count
      /\ Len(c) = TimingLen(fr) /\ Len(d) = ParityLen(fr)
  BY <1>1, <1>2, BytesAre
<1>5. \A s, t \in Seq(S) : s \o t \in Seq(S) /\ Len(s \o t) = Len(s) + Len(t)
  BY ConcatProperties
<1>6. FourFields(f, fr) = a \o (b \o (c \o d))
  BY <1>1 DEF FourFields
<1>7. PICK x, y : x = c \o d /\ y = b \o x
  OBVIOUS
<1>8. x \in Seq(S) /\ Len(x) = Len(c) + Len(d)
  BY <1>3, <1>5, <1>7
<1>9. y \in Seq(S) /\ Len(y) = Len(b) + Len(x)
  BY <1>3, <1>5, <1>7, <1>8
<1>10. Len(a \o y) = Len(a) + Len(y)
  BY <1>3, <1>5, <1>9
<1>11. Len(FourFields(f, fr)) = Len(a \o y)
  BY <1>6, <1>7
<1>12. Len(FourFields(f, fr)) = Len(a) + (Len(b) + (Len(c) + Len(d)))
  BY <1>8, <1>9, <1>10, <1>11, Zenon
<1>13. QED
  BY <1>2, <1>4, <1>12

\* A site that consumes what it read stands before what comes next.
LEMMA Takes ==
  ASSUME Here, UNCHANGED peer, pos' = pos,
         NEW S, NEW s \in Seq(S), NEW t \in Seq(S), Stands(StreamBytes(frames), Place, s \o t),
         NEW n, n = Len(s), n <= Ring!available_read, Ring!Consume(n)
  PROVE  /\ Stands(StreamBytes(frames), Place, s)
         /\ Stands(StreamBytes(frames), Place', t)
         /\ Place' + Len(t) = Place + Len(s \o t)
<1>1. Place \in Nat /\ Len(StreamBytes(frames)) \in Nat
  BY PlaceIs DEF Here
<1>2. /\ Len(s) \in Nat /\ Len(t) \in Nat /\ Stands(StreamBytes(frames), Place, s)
      /\ Stands(StreamBytes(frames), Place + Len(s), t)
  BY <1>1, StandsConcat, LenProperties
<1>3. Place' = Place + n
  BY <1>2, FlowNext DEF Here
<1>4. Len(s \o t) = Len(s) + Len(t)
  BY ConcatProperties
<1>5. Place' + Len(t) = Place + Len(s \o t)
  BY <1>1, <1>2, <1>3, <1>4
<1>6. QED
  BY <1>2, <1>3, <1>5

\* Once the metadata is read.
LEMMA MetadataDone ==
  ASSUME NEW q, NEW c \in Locals, c.f \in Nat, frames[c.f] \in Frame,
         Stands(StreamBytes(frames), q, Annotated(c.f, frames[c.f])),
         Len(c.values) = Len(frames[c.f].tags),
         c.values = ValuesTo(c.f, frames[c.f], Len(frames[c.f].tags)), c.annotations = << >>
  PROVE  /\ OnTrackAt(q, AfterMetadata(c.f), c)
         /\ DueAt(AfterMetadata(c.f), c) = Annotated(c.f, frames[c.f])
<1>1. PICK f, fr : f = c.f /\ fr = frames[c.f]
  OBVIOUS
<1>2. f \in Nat /\ fr \in Frame /\ Len(fr.tags) \in Nat
  BY <1>1, FrameLengths, LenProperties
<1>3. CASE fr.annotated
  <2>1. AfterMetadata(c.f) = "count"
    BY <1>1, <1>3 DEF AfterMetadata
  <2>2. DueAt("count", c) = Annotated(f, fr)
    BY <1>1 DEF DueAt
  <2>3. KnowsAt("count", c)
    BY <1>1, <1>2, <1>3 DEF KnowsAt
  <2>4. QED
    BY <1>1, <2>1, <2>2, <2>3 DEF OnTrackAt
<1>4. CASE ~ fr.annotated
  <2>1. AfterMetadata(c.f) = "terminator"
    BY <1>1, <1>4 DEF AfterMetadata
  <2>2. /\ Annotated(f, fr) = Bytes(f, "terminator", 0, TerminatorLen)
        /\ fr.annotations = 0
    BY <1>2, <1>4, BlocksFollow
  <2>3. DueAt("terminator", c) = Annotated(f, fr)
    BY <1>1, <2>2 DEF DueAt
  <2>4. Bytes(f, "annotations", 0, fr.annotations * AnnotationLen) = << >>
    <3>1. fr.annotations * AnnotationLen = 0
      BY <2>2, WireLengths
    <3>2. Bytes(f, "annotations", 0, 0) \in Seq(Nat) /\ Len(Bytes(f, "annotations", 0, 0)) = 0
      BY BytesAre
    <3>3. QED
      BY <3>1, <3>2, EmptySeq
  <2>5. KnowsAt("terminator", c)
    BY <1>1, <1>2, <2>4 DEF KnowsAt
  <2>6. QED
    BY <1>1, <2>1, <2>3, <2>5 DEF OnTrackAt
<1>5. QED
  BY <1>3, <1>4

\* Before a tag.
LEMMA TagAhead ==
  ASSUME NEW q, NEW c \in Locals, NEW n \in Nat, c.f \in Nat, frames[c.f] \in Frame,
         frames[c.f].metadata, n < Len(frames[c.f].tags),
         Stands(StreamBytes(frames), q,
                TagsFrom(c.f, frames[c.f], n + 1) \o Annotated(c.f, frames[c.f])),
         Len(c.values) = n, c.left = Len(frames[c.f].tags) - n,
         c.values = ValuesTo(c.f, frames[c.f], n), c.annotations = << >>
  PROVE  /\ OnTrackAt(q, "tag", c)
         /\ DueAt("tag", c) = TagsFrom(c.f, frames[c.f], n + 1) \o Annotated(c.f, frames[c.f])
<1>1. DueAt("tag", c) = TagsFrom(c.f, frames[c.f], n + 1) \o Annotated(c.f, frames[c.f])
  BY DEF DueAt
<1>2. Len(frames[c.f].tags) \in Nat
  BY FrameLengths, LenProperties
<1>3. KnowsAt("tag", c)
  BY <1>2 DEF KnowsAt
<1>4. QED
  BY <1>1, <1>3 DEF OnTrackAt

\* The header of a frame.
LEMMA FrameHeaderTracks ==
  ASSUME Here, FrameHeader, pc' \in BodySites
  PROVE  OnTrackAt(Place', pc', cur')
<1>1. PICK f : f = FieldOf(Ring!Peek(FrameHeaderLen), "header")
  OBVIOUS
<1>2. "idle" \notin BodySites
  BY DEF BodySites, Sites
<1>3. /\ Ring!Peekable(FrameHeaderLen) /\ f # 0
      /\ Ring!Consume(FrameHeaderLen)
      /\ cur' = [NoLocals EXCEPT !.f = f]
      /\ pc' = "de_len"
      /\ UNCHANGED peer /\ pos' = pos
      /\ FrameHeaderLen <= Ring!available_read
  <2>1. UNCHANGED peer /\ pos' = pos /\ pc = "header" /\ FrameHeaderLen <= Ring!available_read
    <3>1. Needed = FrameHeaderLen
      BY DEF FrameHeader, Filled, Needed
    <3>2. Ring!available_read \in Nat
      BY PlaceIs DEF Here
    <3>3. QED
      BY <3>1, <3>2, WireLengths DEF FrameHeader, Filled
  <2>2. QED
    BY <1>1, <1>2, <2>1 DEF FrameHeader, FailUntouched, Fail, Return
<1>4. f \in 1 .. Len(frames) /\ Stands(StreamBytes(frames), Place, FrameBytes(f, frames[f]))
  BY <1>1, <1>3, HeaderRead DEF Here
<1>5. f \in Nat /\ frames[f] \in Frame
  BY <1>4, ElementOfSeq DEF Here, PeerOK
<1>6. PICK S, s, t : /\ S = FrameByte(f, frames[f]) /\ s = Bytes(f, "header", 0, FrameHeaderLen)
                     /\ t = Body(f, frames[f])
  OBVIOUS
<1>7. s \in Seq(S) /\ t \in Seq(S) /\ FrameBytes(f, frames[f]) = s \o t
  BY <1>5, <1>6, FrameParts
<1>8. FrameHeaderLen = Len(s)
  BY <1>6, BytesAre, WireLengths
<1>9. Stands(StreamBytes(frames), Place', t)
  BY <1>3, <1>4, <1>7, <1>8, Takes
<1>10. /\ cur'.f = f /\ cur'.values = << >> /\ cur'.annotations = << >>
  BY <1>3 DEF NoLocals
<1>11. DueAt("de_len", cur') = t
  BY <1>6, <1>10 DEF DueAt
<1>12. KnowsAt("de_len", cur')
  <2>1. Len(cur'.values) = 0 /\ Len(frames[f].tags) \in Nat
    BY <1>5, <1>10, FrameLengths, LenProperties, EmptySeq
  <2>2. ValuesTo(f, frames[f], 0) = << >>
    BY DEF ValuesTo
  <2>3. QED
    BY <1>10, <2>1, <2>2 DEF KnowsAt
<1>13. QED
  BY <1>3, <1>9, <1>11, <1>12 DEF OnTrackAt

\* The length of the detector events.
LEMMA DeLenTracks ==
  ASSUME Here, OnTrackAt(Place, pc, cur), DeLen, pc' \in BodySites
  PROVE  OnTrackAt(Place', pc', cur')
<1>1. PICK f, fr : f = cur.f /\ fr = frames[cur.f]
  OBVIOUS
<1>2. pc = "de_len" /\ pc \in BodySites /\ "idle" \notin BodySites
  BY DEF DeLen, Filled, BodySites, Sites
<1>3. f \in Nat \ {0} /\ f \in Nat /\ fr \in Frame /\ cur \in Locals /\ Len(cur.values) \in Nat
  BY <1>1, <1>2, FrameAtHand DEF Here
<1>4. /\ Ring!Peekable(PrefixLen) /\ Ring!Consume(PrefixLen)
      /\ \E n \in LengthIn(Ring!Peek(PrefixLen), "de_len") : cur' = [cur EXCEPT !.len = n]
      /\ pc' = "payload"
      /\ UNCHANGED peer /\ pos' = pos
      /\ PrefixLen <= Ring!available_read
  <2>1. PrefixLen <= Ring!available_read
    <3>1. Needed = PrefixLen
      BY <1>2 DEF Needed
    <3>2. Ring!available_read \in Nat
      BY PlaceIs DEF Here
    <3>3. QED
      BY <3>1, <3>2, WireLengths DEF DeLen, Filled
  <2>2. QED
    BY <1>2, <2>1 DEF DeLen, FailUntouched, Fail, Return
<1>5. PICK S, s, t : /\ S = BodyByte(f, fr) /\ s = Bytes(f, "de_len", 0, PrefixLen)
                     /\ t = FourFields(f, fr) \o Described(f, fr)
  OBVIOUS
<1>6. s \in Seq(S) /\ t \in Seq(S) /\ PrefixLen = Len(s)
  <2>1. s \in Seq(S)
    BY <1>3, <1>5, PartBytes, WireLengths DEF Parts
  <2>2. FourFields(f, fr) \in Seq(S) /\ Described(f, fr) \in Seq(S)
    BY <1>3, <1>5, BodyBytes
  <2>3. t \in Seq(S)
    BY <1>5, <2>2, ConcatProperties
  <2>4. QED
    BY <1>5, <2>1, <2>3, BytesAre, WireLengths
<1>7. Stands(StreamBytes(frames), Place, s \o t) /\ KnowsAt("de_len", cur)
  <2>1. DueAt("de_len", cur) = s \o t
    BY <1>1, <1>5 DEF DueAt, Body
  <2>2. QED
    BY <1>2, <2>1 DEF OnTrackAt
<1>8. Stands(StreamBytes(frames), Place, s) /\ Stands(StreamBytes(frames), Place', t)
  BY <1>4, <1>6, <1>7, Takes
<1>9. LengthIn(Ring!Peek(PrefixLen), "de_len") = {Announced(f, "de_len", 0)}
  <2>1. "de_len" \in Parts /\ PrefixLen \in Nat /\ PrefixLen # 0 /\ f # 0 /\ f \in Nat /\ 0 \in Nat
    BY <1>3, WireLengths DEF Parts
  <2>2. Stands(StreamBytes(frames), Place, Bytes(f, "de_len", 0, PrefixLen))
    BY <1>5, <1>8
  <2>3. Aligned /\ PeerOK /\ RingOK /\ FlowOK /\ Ring!Peekable(PrefixLen)
    BY <1>4 DEF Here
  <2>4. QED
    BY <2>1, <2>2, <2>3, FieldRead
<1>10. cur' = [cur EXCEPT !.len = Len(fr.detector_events)]
  BY <1>1, <1>4, <1>9 DEF Announced
<1>11. /\ cur'.f = f /\ cur'.values = cur.values /\ cur'.annotations = cur.annotations
       /\ cur'.len = Len(fr.detector_events)
  BY <1>1, <1>3, <1>10 DEF Locals
<1>12. DueAt("payload", cur') = t
  BY <1>1, <1>5, <1>11 DEF DueAt
<1>13. KnowsAt("payload", cur')
  BY <1>1, <1>7, <1>11 DEF KnowsAt
<1>14. QED
  BY <1>4, <1>8, <1>12, <1>13 DEF OnTrackAt

\* The payload.
LEMMA PayloadTracks ==
  ASSUME Here, OnTrackAt(Place, pc, cur), Payload
  PROVE  OnTrackAt(Place', pc', cur') /\ EndAt(Place', pc', cur') = EndAt(Place, pc, cur)
<1>1. PICK f, fr : f = cur.f /\ fr = frames[cur.f]
  OBVIOUS
<1>2. pc = "payload" /\ pc \in BodySites
  BY DEF Payload, Filled, BodySites, Sites
<1>3. f \in Nat /\ fr \in Frame /\ cur \in Locals
  BY <1>1, <1>2, FrameAtHand DEF Here
<1>4. /\ Ring!Consume(PayloadLen) /\ pc' = AfterPayload(f) /\ UNCHANGED peer /\ pos' = pos
      /\ PayloadLen <= Ring!available_read
      /\ cur'.f = f /\ cur'.values = cur.values /\ cur'.annotations = cur.annotations
      /\ cur' \in Locals
  <2>1. PayloadLen <= Ring!available_read
    BY <1>2 DEF Payload, Filled, Needed
  <2>2. cur' \in Locals
    BY PayloadTypes DEF Here
  <2>3. cur'.f = f /\ cur'.values = cur.values /\ cur'.annotations = cur.annotations
    BY <1>1, <1>3 DEF Payload, Locals
  <2>4. QED
    BY <1>1, <2>1, <2>2, <2>3 DEF Payload
<1>5. PICK S, s, t : S = BodyByte(f, fr) /\ s = FourFields(f, fr) /\ t = Described(f, fr)
  OBVIOUS
<1>6. s \in Seq(S) /\ t \in Seq(S)
  BY <1>3, <1>5, BodyBytes
<1>7. /\ Stands(StreamBytes(frames), Place, s \o t) /\ KnowsAt("payload", cur)
      /\ DueAt(pc, cur) = s \o t
  <2>1. DueAt("payload", cur) = s \o t
    BY <1>1, <1>5 DEF DueAt
  <2>2. QED
    BY <1>2, <2>1 DEF OnTrackAt
<1>8. PayloadLen = Len(s)
  BY <1>1, <1>3, <1>5, <1>7, PayloadIs DEF PayloadLen, CurFrame, KnowsAt
<1>9. Stands(StreamBytes(frames), Place', t) /\ Place' + Len(t) = Place + Len(s \o t)
  BY <1>4, <1>6, <1>7, <1>8, Takes
<1>10. /\ Len(cur.values) = 0 /\ cur.values = ValuesTo(f, fr, 0) /\ cur.annotations = << >>
  BY <1>1, <1>7 DEF KnowsAt
<1>11. ASSUME fr.metadata PROVE OnTrackAt(Place', pc', cur') /\ DueAt(pc', cur') = t
  <2>1. pc' = "tag_count"
    BY <1>1, <1>4, <1>11 DEF AfterPayload
  <2>2. DueAt("tag_count", cur') = t
    BY <1>1, <1>4, <1>5 DEF DueAt
  <2>3. KnowsAt("tag_count", cur')
    <3>1. Len(fr.tags) \in Nat
      BY <1>3, FrameLengths, LenProperties
    <3>2. QED
      BY <1>1, <1>4, <1>10, <1>11, <3>1 DEF KnowsAt
  <2>4. QED
    BY <1>9, <2>1, <2>2, <2>3 DEF OnTrackAt
<1>12. ASSUME ~ fr.metadata PROVE OnTrackAt(Place', pc', cur') /\ DueAt(pc', cur') = t
  <2>1. pc' = AfterMetadata(cur'.f)
    BY <1>1, <1>4, <1>12 DEF AfterPayload, AfterMetadata
  <2>2. t = Annotated(f, fr) /\ Len(fr.tags) = 0
    BY <1>3, <1>5, <1>12, BlocksFollow
  <2>3. /\ OnTrackAt(Place', AfterMetadata(cur'.f), cur')
        /\ DueAt(AfterMetadata(cur'.f), cur') = t
    <3>1. PICK q, c : q = Place' /\ c = cur'
      OBVIOUS
    <3>2. /\ c \in Locals /\ c.f \in Nat /\ frames[c.f] \in Frame
          /\ Stands(StreamBytes(frames), q, Annotated(c.f, frames[c.f]))
          /\ Len(c.values) = Len(frames[c.f].tags)
          /\ c.values = ValuesTo(c.f, frames[c.f], Len(frames[c.f].tags))
          /\ c.annotations = << >>
      BY <1>1, <1>3, <1>4, <1>9, <1>10, <2>2, <3>1
    <3>3. OnTrackAt(q, AfterMetadata(c.f), c) /\ DueAt(AfterMetadata(c.f), c) = Annotated(c.f, frames[c.f])
      BY <3>2, MetadataDone
    <3>4. QED
      BY <1>1, <1>4, <2>2, <3>1, <3>3
  <2>4. QED
    BY <2>1, <2>3
<1>13. OnTrackAt(Place', pc', cur') /\ DueAt(pc', cur') = t
  BY <1>11, <1>12
<1>14. QED
  BY <1>7, <1>9, <1>13 DEF EndAt

\* The number of tags.
LEMMA TagCountTracks ==
  ASSUME Here, OnTrackAt(Place, pc, cur), TagCount, pc' \in BodySites
  PROVE  OnTrackAt(Place', pc', cur') /\ EndAt(Place', pc', cur') = EndAt(Place, pc, cur)
<1>1. PICK f, fr : f = cur.f /\ fr = frames[cur.f]
  OBVIOUS
<1>2. pc = "tag_count" /\ pc \in BodySites /\ "idle" \notin BodySites
  BY DEF TagCount, Filled, BodySites, Sites
<1>3. f \in Nat \ {0} /\ f \in Nat /\ fr \in Frame /\ cur \in Locals
  BY <1>1, <1>2, FrameAtHand DEF Here
<1>4. /\ Ring!Peekable(PrefixLen) /\ Ring!Consume(PrefixLen)
      /\ \E n \in LengthIn(Ring!Peek(PrefixLen), "tag_count") :
            cur' = [cur EXCEPT !.left = n] /\ pc' = IF n > 0 THEN "tag" ELSE AfterMetadata(f)
      /\ UNCHANGED peer /\ pos' = pos
      /\ PrefixLen <= Ring!available_read
  <2>1. PrefixLen <= Ring!available_read
    <3>1. Needed = PrefixLen
      BY <1>2 DEF Needed
    <3>2. Ring!available_read \in Nat
      BY PlaceIs DEF Here
    <3>3. QED
      BY <3>1, <3>2, WireLengths DEF TagCount, Filled
  <2>2. QED
    BY <1>1, <1>2, <2>1 DEF TagCount, FailUntouched, Fail, Return
<1>5. DueAt("tag_count", cur) = Described(f, fr) /\ KnowsAt("tag_count", cur)
      /\ Stands(StreamBytes(frames), Place, Described(f, fr))
  <2>1. DueAt("tag_count", cur) = Described(f, fr)
    BY <1>1 DEF DueAt
  <2>2. QED
    BY <1>2, <2>1 DEF OnTrackAt
<1>6. /\ fr.metadata /\ Len(cur.values) = 0 /\ cur.values = ValuesTo(f, fr, 0)
      /\ cur.annotations = << >>
  BY <1>1, <1>5 DEF KnowsAt
<1>7. PICK S, s, t : /\ S = BodyByte(f, fr) /\ s = Bytes(f, "tag_count", 0, PrefixLen)
                     /\ t = TagsFrom(f, fr, 1) \o Annotated(f, fr)
  OBVIOUS
<1>8. s \in Seq(S) /\ t \in Seq(S) /\ PrefixLen = Len(s) /\ Described(f, fr) = s \o t
  <2>1. s \in Seq(S)
    BY <1>3, <1>7, PartBytes, WireLengths DEF Parts
  <2>2. /\ Described(f, fr) = Bytes(f, "tag_count", 0, PrefixLen) \o
                              (TagsFrom(f, fr, 1) \o Annotated(f, fr))
        /\ TagsFrom(f, fr, 1) \in Seq(BodyByte(f, fr))
    BY <1>3, <1>6, BlocksFollow
  <2>3. Annotated(f, fr) \in Seq(S) /\ TagsFrom(f, fr, 1) \in Seq(S)
    BY <1>3, <1>7, <2>2, BodyBytes
  <2>4. t \in Seq(S)
    BY <1>7, <2>3, ConcatProperties
  <2>5. Described(f, fr) = s \o t
    BY <1>7, <2>2
  <2>6. QED
    BY <1>7, <2>1, <2>4, <2>5, BytesAre, WireLengths
<1>9. /\ Stands(StreamBytes(frames), Place, s) /\ Stands(StreamBytes(frames), Place', t)
      /\ Place' + Len(t) = Place + Len(s \o t)
  <2>1. Stands(StreamBytes(frames), Place, s \o t)
    BY <1>5, <1>8
  <2>2. QED
    BY <1>4, <1>8, <2>1, Takes
<1>10. LengthIn(Ring!Peek(PrefixLen), "tag_count") = {Announced(f, "tag_count", 0)}
  <2>1. "tag_count" \in Parts /\ PrefixLen \in Nat /\ PrefixLen # 0 /\ f # 0 /\ f \in Nat /\ 0 \in Nat
    BY <1>3, WireLengths DEF Parts
  <2>2. Stands(StreamBytes(frames), Place, Bytes(f, "tag_count", 0, PrefixLen))
    BY <1>7, <1>9
  <2>3. Aligned /\ PeerOK /\ RingOK /\ FlowOK /\ Ring!Peekable(PrefixLen)
    BY <1>4 DEF Here
  <2>4. QED
    BY <2>1, <2>2, <2>3, FieldRead
<1>11. PICK N : N = Len(fr.tags)
  OBVIOUS
<1>12. N \in Nat /\ cur' = [cur EXCEPT !.left = N] /\ pc' = IF N > 0 THEN "tag" ELSE AfterMetadata(f)
  <2>1. N \in Nat
    BY <1>3, <1>11, FrameLengths, LenProperties
  <2>2. Announced(f, "tag_count", 0) = N
    BY <1>1, <1>11 DEF Announced
  <2>3. QED
    BY <1>4, <1>10, <2>1, <2>2
<1>13. PICK q, c : q = Place' /\ c = cur'
  OBVIOUS
<1>14. /\ c \in Locals /\ c.f = f /\ c.left = N /\ c.values = cur.values /\ c.annotations = << >>
  BY <1>1, <1>3, <1>6, <1>12, <1>13 DEF Locals
<1>15. ASSUME N > 0 PROVE OnTrackAt(Place', pc', cur') /\ DueAt(pc', cur') = t
  <2>1. PICK z \in Nat : z = 0
    OBVIOUS
  <2>2. /\ c.f \in Nat /\ frames[c.f] \in Frame
        /\ frames[c.f].metadata /\ z < Len(frames[c.f].tags)
        /\ Len(c.values) = z /\ c.left = Len(frames[c.f].tags) - z
        /\ c.values = ValuesTo(c.f, frames[c.f], z)
    BY <1>1, <1>3, <1>6, <1>11, <1>12, <1>14, <1>15, <2>1
  <2>3. t = TagsFrom(c.f, frames[c.f], z + 1) \o Annotated(c.f, frames[c.f])
    <3>1. z + 1 = 1
      BY <2>1
    <3>2. QED
      BY <1>1, <1>7, <1>14, <3>1
  <2>4. Stands(StreamBytes(frames), q,
               TagsFrom(c.f, frames[c.f], z + 1) \o Annotated(c.f, frames[c.f]))
    BY <1>9, <1>13, <2>3
  <2>5. /\ OnTrackAt(q, "tag", c)
        /\ DueAt("tag", c) = TagsFrom(c.f, frames[c.f], z + 1) \o Annotated(c.f, frames[c.f])
    BY <1>14, <2>1, <2>2, <2>4, TagAhead
  <2>6. QED
    BY <1>12, <1>13, <1>15, <2>3, <2>5
<1>16. ASSUME N = 0 PROVE OnTrackAt(Place', pc', cur') /\ DueAt(pc', cur') = t
  <2>1. t = Annotated(f, fr)
    <3>1. N + 1 = 1 /\ TagsFrom(f, fr, N + 1) = << >>
      <4>1. TagsFrom(f, fr, Len(fr.tags) + 1) = << >>
        BY <1>3, BlocksFollow
      <4>2. QED
        BY <1>11, <1>16, <4>1
    <3>2. t = << >> \o Annotated(f, fr)
      BY <1>7, <3>1
    <3>3. Annotated(f, fr) \in Seq(S)
      BY <1>3, <1>7, BodyBytes
    <3>4. QED
      BY <3>2, <3>3, ConcatEmptySeq
  <2>2. /\ c.f \in Nat /\ frames[c.f] \in Frame
        /\ Stands(StreamBytes(frames), q, Annotated(c.f, frames[c.f]))
        /\ Len(c.values) = Len(frames[c.f].tags)
        /\ c.values = ValuesTo(c.f, frames[c.f], Len(frames[c.f].tags))
    BY <1>1, <1>3, <1>6, <1>9, <1>11, <1>13, <1>14, <1>16, <2>1
  <2>3. /\ OnTrackAt(q, AfterMetadata(c.f), c)
        /\ DueAt(AfterMetadata(c.f), c) = Annotated(c.f, frames[c.f])
    BY <1>14, <2>2, MetadataDone
  <2>4. QED
    BY <1>1, <1>12, <1>13, <1>14, <1>16, <2>1, <2>3
<1>17. OnTrackAt(Place', pc', cur') /\ DueAt(pc', cur') = t
  BY <1>12, <1>15, <1>16
<1>18. DueAt(pc, cur) = s \o t
  BY <1>2, <1>5, <1>8
<1>19. QED
  BY <1>9, <1>17, <1>18 DEF EndAt

\* A tag's header.
LEMMA TagTracks ==
  ASSUME Here, OnTrackAt(Place, pc, cur), Tag, pc' \in BodySites
  PROVE  OnTrackAt(Place', pc', cur') /\ EndAt(Place', pc', cur') = EndAt(Place, pc, cur)
<1>1. PICK f, fr, j : f = cur.f /\ fr = frames[cur.f] /\ j = Len(cur.values) + 1
  OBVIOUS
<1>2. pc = "tag" /\ pc \in BodySites /\ "idle" \notin BodySites
  BY DEF Tag, Filled, BodySites, Sites
<1>3. /\ f \in Nat \ {0} /\ f \in Nat /\ fr \in Frame /\ cur \in Locals
      /\ j \in Nat /\ Len(cur.values) = j - 1 /\ Len(cur.values) \in Nat
  BY <1>1, <1>2, FrameAtHand DEF Here
<1>4. /\ Ring!Peekable(TagHeaderLen) /\ Ring!Consume(TagHeaderLen)
      /\ \E n \in LengthIn(Ring!Peek(TagHeaderLen), "tag") : cur' = [cur EXCEPT !.len = n]
      /\ pc' = "value"
      /\ UNCHANGED peer /\ pos' = pos
      /\ TagHeaderLen <= Ring!available_read
  <2>1. TagHeaderLen <= Ring!available_read
    <3>1. Needed = TagHeaderLen
      BY <1>2 DEF Needed
    <3>2. Ring!available_read \in Nat
      BY PlaceIs DEF Here
    <3>3. QED
      BY <3>1, <3>2, WireLengths DEF Tag, Filled
  <2>2. QED
    BY <1>2, <2>1 DEF Tag, FailUntouched, Fail, Return
<1>5. /\ Stands(StreamBytes(frames), Place, TagsFrom(f, fr, j) \o Annotated(f, fr))
      /\ KnowsAt("tag", cur)
      /\ DueAt(pc, cur) = TagsFrom(f, fr, j) \o Annotated(f, fr)
  <2>1. DueAt("tag", cur) = TagsFrom(f, fr, j) \o Annotated(f, fr)
    BY <1>1 DEF DueAt
  <2>2. QED
    BY <1>2, <2>1 DEF OnTrackAt
<1>6. /\ fr.metadata /\ Len(cur.values) < Len(fr.tags)
      /\ cur.left = Len(fr.tags) - Len(cur.values)
      /\ cur.values = ValuesTo(f, fr, Len(cur.values)) /\ cur.annotations = << >>
  BY <1>1, <1>5 DEF KnowsAt
<1>7. /\ Len(fr.tags) \in Nat /\ j \in 1 .. Len(fr.tags) /\ j \in DOMAIN fr.tags
      /\ fr.tags[j] \in Nat
  <2>1. fr.tags \in Seq(Nat) /\ Len(fr.tags) \in Nat
    BY <1>3, FrameLengths, LenProperties
  <2>2. j \in 1 .. Len(fr.tags)
    BY <1>3, <1>6, <2>1
  <2>3. QED
    BY <2>1, <2>2, ElementOfSeq, LenProperties
<1>8. PICK S, s, t : /\ S = BodyByte(f, fr) /\ s = Bytes(f, "tag", j, TagHeaderLen)
                     /\ t = Bytes(f, "value", j, fr.tags[j]) \o
                            (TagsFrom(f, fr, j + 1) \o Annotated(f, fr))
  OBVIOUS
<1>9. /\ s \in Seq(S) /\ t \in Seq(S) /\ TagHeaderLen = Len(s)
      /\ TagsFrom(f, fr, j) \o Annotated(f, fr) = s \o t
  <2>1. s \in Seq(S)
    BY <1>3, <1>7, <1>8, PartBytes, WireLengths DEF Parts
  <2>2. /\ TagsFrom(f, fr, j) \o Annotated(f, fr) = s \o t
        /\ TagsFrom(f, fr, j + 1) \in Seq(S)
    BY <1>3, <1>7, <1>8, BlocksFollow
  <2>3. Annotated(f, fr) \in Seq(S) /\ Bytes(f, "value", j, fr.tags[j]) \in Seq(S)
    BY <1>3, <1>7, <1>8, BodyBytes, PartBytes DEF Parts
  <2>4. TagsFrom(f, fr, j + 1) \o Annotated(f, fr) \in Seq(S)
    BY <2>2, <2>3, ConcatProperties
  <2>5. t \in Seq(S)
    BY <1>8, <2>3, <2>4, ConcatProperties
  <2>6. QED
    BY <1>8, <2>1, <2>2, <2>5, BytesAre, WireLengths
<1>10. /\ Stands(StreamBytes(frames), Place, s) /\ Stands(StreamBytes(frames), Place', t)
       /\ Place' + Len(t) = Place + Len(s \o t)
  <2>1. Stands(StreamBytes(frames), Place, s \o t)
    BY <1>5, <1>9
  <2>2. QED
    BY <1>4, <1>9, <2>1, Takes
<1>11. LengthIn(Ring!Peek(TagHeaderLen), "tag") = {Announced(f, "tag", j)}
  <2>1. "tag" \in Parts /\ TagHeaderLen \in Nat /\ TagHeaderLen # 0 /\ f # 0 /\ f \in Nat /\ j \in Nat
    BY <1>3, WireLengths DEF Parts
  <2>2. Stands(StreamBytes(frames), Place, Bytes(f, "tag", j, TagHeaderLen))
    BY <1>8, <1>10
  <2>3. Aligned /\ PeerOK /\ RingOK /\ FlowOK /\ Ring!Peekable(TagHeaderLen)
    BY <1>4 DEF Here
  <2>4. QED
    BY <2>1, <2>2, <2>3, FieldRead
<1>12. cur' = [cur EXCEPT !.len = fr.tags[j]]
  BY <1>1, <1>4, <1>11 DEF Announced
<1>13. /\ cur'.f = f /\ cur'.values = cur.values /\ cur'.annotations = cur.annotations
       /\ cur'.len = fr.tags[j] /\ cur'.left = cur.left
  BY <1>1, <1>3, <1>12 DEF Locals
<1>14. DueAt("value", cur') = t
  <2>1. Len(cur'.values) + 1 = j /\ Len(cur'.values) + 2 = j + 1
    BY <1>3, <1>13
  <2>2. QED
    BY <1>1, <1>8, <1>13, <2>1 DEF DueAt
<1>15. KnowsAt("value", cur')
  <2>1. Len(cur'.values) + 1 = j
    BY <1>3, <1>13
  <2>2. QED
    BY <1>1, <1>6, <1>7, <1>13, <2>1 DEF KnowsAt
<1>16. OnTrackAt(Place', pc', cur')
  BY <1>4, <1>10, <1>14, <1>15 DEF OnTrackAt
<1>17. DueAt(pc, cur) = s \o t /\ DueAt(pc', cur') = t
  BY <1>4, <1>5, <1>9, <1>14
<1>18. QED
  BY <1>10, <1>16, <1>17 DEF EndAt

\* A value that is read joins the values.
LEMMA ValuesGrow ==
  ASSUME NEW f \in Nat, NEW fr \in Frame, NEW n \in Nat, n < Len(fr.tags),
         NEW v \in Seq(Seq(AnyByte)), Len(v) = n, v = ValuesTo(f, fr, n)
  PROVE  /\ Append(v, Bytes(f, "value", n + 1, fr.tags[n + 1])) = ValuesTo(f, fr, n + 1)
         /\ Len(Append(v, Bytes(f, "value", n + 1, fr.tags[n + 1]))) = n + 1
<1>1. PICK x, w : x = Bytes(f, "value", n + 1, fr.tags[n + 1]) /\ w = ValuesTo(f, fr, n + 1)
  OBVIOUS
<1>2. fr.tags \in Seq(Nat) /\ Len(fr.tags) \in Nat
  BY FrameLengths, LenProperties
<1>3. ASSUME NEW i \in 1 .. n + 1 PROVE Bytes(f, "value", i, fr.tags[i]) \in Seq(AnyByte)
  <2>1. i \in Nat /\ i \in 1 .. Len(fr.tags)
    BY <1>2
  <2>2. fr.tags[i] \in Nat
    BY <1>2, <2>1, ElementOfSeq
  <2>3. \A k \in 1 .. fr.tags[i] : <<f, "value", i, k>> \in AnyByte
    BY <2>1, <2>2 DEF AnyByte, Parts
  <2>4. QED
    BY <2>2, <2>3, BytesAre
<1>4. x \in Seq(AnyByte)
  <2>1. n + 1 \in 1 .. n + 1
    OBVIOUS
  <2>2. QED
    BY <1>1, <1>3, <2>1
<1>5. /\ Append(v, x) \in Seq(Seq(AnyByte)) /\ Len(Append(v, x)) = n + 1
      /\ \A i \in 1..n : Append(v, x)[i] = v[i]
      /\ Append(v, x)[n + 1] = x
  BY <1>4, AppendProperties
<1>6. /\ w \in Seq(Seq(AnyByte)) /\ Len(w) = n + 1
      /\ \A i \in 1 .. n + 1 : w[i] = Bytes(f, "value", i, fr.tags[i])
  <2>1. w = [i \in 1 .. n + 1 |-> Bytes(f, "value", i, fr.tags[i])]
    BY <1>1 DEF ValuesTo
  <2>2. QED
    BY <1>3, <2>1
<1>7. \A i \in 1..n : v[i] = Bytes(f, "value", i, fr.tags[i])
  BY DEF ValuesTo
<1>8. \A i \in 1 .. n + 1 : Append(v, x)[i] = w[i]
  <2> SUFFICES ASSUME NEW i \in 1 .. n + 1 PROVE Append(v, x)[i] = w[i]
    OBVIOUS
  <2>1. CASE i \in 1..n
    BY <1>5, <1>6, <1>7, <2>1
  <2>2. CASE i = n + 1
    BY <1>1, <1>5, <1>6, <2>2
  <2>3. QED
    BY <2>1, <2>2
<1>9. Append(v, x) = w
  BY <1>5, <1>6, <1>8, SeqEqual
<1>10. QED
  BY <1>1, <1>5, <1>9

\* A tag's value.
LEMMA ValueTracks ==
  ASSUME Here, OnTrackAt(Place, pc, cur), Value, pc' \in BodySites
  PROVE  OnTrackAt(Place', pc', cur') /\ EndAt(Place', pc', cur') = EndAt(Place, pc, cur)
<1>1. PICK f, fr, n, j : /\ f = cur.f /\ fr = frames[cur.f]
                         /\ n = Len(cur.values) /\ j = Len(cur.values) + 1
  OBVIOUS
<1>2. pc = "value" /\ pc \in BodySites /\ "idle" \notin BodySites
  BY DEF Value, Filled, BodySites, Sites
<1>3. /\ f \in Nat /\ fr \in Frame /\ cur \in Locals /\ n \in Nat /\ j \in Nat /\ j = n + 1
      /\ cur.len \in Nat /\ cur.left \in Int /\ cur.values \in Seq(Seq(AnyByte))
  BY <1>1, <1>2, FrameAtHand DEF Here
<1>4. PICK b : b = Ring!Peek(cur.len)
  OBVIOUS
<1>5. /\ Ring!Peekable(cur.len) /\ Ring!Consume(cur.len)
      /\ cur' = [cur EXCEPT !.values = Append(@, b), !.left = @ - 1]
      /\ pc' = IF cur.left > 1 THEN "tag" ELSE AfterMetadata(f)
      /\ UNCHANGED peer /\ pos' = pos
      /\ cur.len <= Ring!available_read
  <2>1. cur.len <= Ring!available_read
    <3>1. Needed = cur.len
      BY <1>2 DEF Needed
    <3>2. Ring!available_read \in Nat
      BY PlaceIs DEF Here
    <3>3. QED
      BY <1>3, <3>1, <3>2 DEF Value, Filled
  <2>2. QED
    BY <1>1, <1>2, <1>4, <2>1 DEF Value, FailUntouched, Fail, Return, TagsToCome
<1>6. KnowsAt("value", cur) /\ Stands(StreamBytes(frames), Place, DueAt("value", cur))
  BY <1>2 DEF OnTrackAt
<1>7. /\ fr.metadata /\ n < Len(fr.tags) /\ cur.left = Len(fr.tags) - n
      /\ cur.values = ValuesTo(f, fr, n) /\ cur.annotations = << >>
      /\ cur.len = fr.tags[n + 1]
  BY <1>1, <1>6 DEF KnowsAt
<1>8. Len(fr.tags) \in Nat /\ j \in 1 .. Len(fr.tags) /\ j \in DOMAIN fr.tags /\ fr.tags[j] = cur.len
  <2>1. fr.tags \in Seq(Nat) /\ Len(fr.tags) \in Nat
    BY <1>3, FrameLengths, LenProperties
  <2>2. j \in 1 .. Len(fr.tags)
    BY <1>3, <1>7, <2>1
  <2>3. QED
    BY <1>3, <1>7, <2>1, <2>2, LenProperties
<1>9. PICK S, s, t : /\ S = BodyByte(f, fr) /\ s = Bytes(f, "value", j, cur.len)
                     /\ t = TagsFrom(f, fr, j + 1) \o Annotated(f, fr)
  OBVIOUS
<1>10. s \in Seq(S) /\ t \in Seq(S) /\ cur.len = Len(s)
  <2>1. s \in Seq(S)
    BY <1>3, <1>9, PartBytes DEF Parts
  <2>2. TagsFrom(f, fr, j + 1) \in Seq(S)
    BY <1>3, <1>8, <1>9, BlocksFollow
  <2>3. Annotated(f, fr) \in Seq(S)
    BY <1>3, <1>9, BodyBytes
  <2>4. t \in Seq(S)
    BY <1>9, <2>2, <2>3, ConcatProperties
  <2>5. QED
    BY <1>3, <1>9, <2>1, <2>4, BytesAre
<1>11. /\ Stands(StreamBytes(frames), Place, s) /\ Stands(StreamBytes(frames), Place', t)
       /\ Place' + Len(t) = Place + Len(s \o t) /\ DueAt("value", cur) = s \o t
  <2>1. n + 2 = j + 1
    BY <1>3
  <2>2. DueAt("value", cur) = s \o t
    BY <1>1, <1>9, <2>1 DEF DueAt
  <2>3. Stands(StreamBytes(frames), Place, s \o t)
    BY <1>6, <2>2
  <2>4. QED
    BY <1>5, <1>10, <2>2, <2>3, Takes
<1>12. b = s
  <2>1. "value" \in Parts
    BY DEF Parts
  <2>2. Stands(StreamBytes(frames), Place, Bytes(f, "value", j, cur.len))
    BY <1>9, <1>11
  <2>3. Aligned /\ PeerOK /\ RingOK /\ FlowOK
    BY DEF Here
  <2>4. Ring!Peek(cur.len) = Bytes(f, "value", j, cur.len)
    BY <1>3, <1>5, <2>1, <2>2, <2>3, FieldRead
  <2>5. QED
    BY <1>4, <1>9, <2>4
<1>13. PICK v : v = Append(cur.values, s)
  OBVIOUS
<1>14. v = ValuesTo(f, fr, j) /\ Len(v) = j
  <2>1. /\ Append(cur.values, Bytes(f, "value", n + 1, fr.tags[n + 1])) = ValuesTo(f, fr, n + 1)
        /\ Len(Append(cur.values, Bytes(f, "value", n + 1, fr.tags[n + 1]))) = n + 1
    BY SMTT(30), <1>1, <1>3, <1>7, ValuesGrow
  <2>2. s = Bytes(f, "value", n + 1, fr.tags[n + 1])
    BY <1>3, <1>7, <1>9
  <2>3. QED
    BY <1>3, <1>13, <2>1, <2>2
<1>15. PICK q, c : q = Place' /\ c = cur'
  OBVIOUS
<1>16. /\ c.f = f /\ c.left = cur.left - 1 /\ c.values = v /\ c.annotations = << >>
       /\ c \in Locals
  <2>1. c = [cur EXCEPT !.values = v, !.left = cur.left - 1]
    BY <1>3, <1>5, <1>12, <1>13, <1>15 DEF Locals
  <2>2. v \in Seq(Seq(AnyByte))
    <3>1. b \in Seq(AnyByte)
      BY <1>3, <1>4, <1>5, PeekedStands DEF Here
    <3>2. QED
      BY <1>3, <1>12, <1>13, <3>1, AppendProperties
  <2>3. c.f = cur.f /\ c.left = cur.left - 1 /\ c.values = v /\ c.annotations = cur.annotations
    BY <1>3, <2>1 DEF Locals
  <2>4. cur.left - 1 \in Int
    BY <1>3
  <2>5. c \in Locals
    BY <1>3, <2>1, <2>2, <2>4 DEF Locals
  <2>6. cur.annotations = << >>
    BY <1>7
  <2>7. QED
    BY <1>1, <2>3, <2>5, <2>6
<1>17. ASSUME j < Len(fr.tags) PROVE OnTrackAt(Place', pc', cur') /\ DueAt(pc', cur') = t
  <2> DEFINE N == Len(fr.tags)
  <2>0. c.left = N - j
    <3>1. N \in Nat /\ cur.left = N - n
      BY <1>7, <1>8
    <3>2. c.left = cur.left - 1
      BY <1>16
    <3> HIDE DEF N
    <3>3. QED
      BY <1>3, <3>1, <3>2
  <2>1. /\ c.f \in Nat /\ frames[c.f] \in Frame /\ j \in Nat
        /\ frames[c.f].metadata /\ j < Len(frames[c.f].tags)
        /\ Len(c.values) = j /\ c.left = Len(frames[c.f].tags) - j
        /\ c.values = ValuesTo(c.f, frames[c.f], j)
    <3>1. c.f = f /\ frames[c.f] = fr /\ c.values = v
      BY <1>1, <1>16
    <3>2. fr.metadata
      BY <1>7
    <3>3. QED
      BY <1>3, <1>14, <1>17, <2>0, <3>1, <3>2
  <2>2. Stands(StreamBytes(frames), q,
               TagsFrom(c.f, frames[c.f], j + 1) \o Annotated(c.f, frames[c.f]))
    BY <1>1, <1>9, <1>11, <1>15, <1>16
  <2>3. /\ OnTrackAt(q, "tag", c)
        /\ DueAt("tag", c) = TagsFrom(c.f, frames[c.f], j + 1) \o Annotated(c.f, frames[c.f])
    BY <1>16, <2>1, <2>2, TagAhead
  <2>4. cur.left > 1
    BY <1>3, <1>7, <1>8, <1>17
  <2>5. DueAt("tag", c) = t
    BY <1>1, <1>9, <1>16, <2>3
  <2>6. QED
    BY <1>5, <1>15, <2>3, <2>4, <2>5
<1>18. ASSUME j = Len(fr.tags) PROVE OnTrackAt(Place', pc', cur') /\ DueAt(pc', cur') = t
  <2>1. t = Annotated(f, fr)
    <3>1. TagsFrom(f, fr, j + 1) = << >>
      <4>1. TagsFrom(f, fr, Len(fr.tags) + 1) = << >>
        BY <1>3, BlocksFollow
      <4>2. QED
        BY <1>18, <4>1
    <3>2. t = << >> \o Annotated(f, fr)
      BY <1>9, <3>1
    <3>3. Annotated(f, fr) \in Seq(S)
      BY <1>3, <1>9, BodyBytes
    <3>4. QED
      BY <3>2, <3>3, ConcatEmptySeq
  <2>2. /\ c.f \in Nat /\ frames[c.f] \in Frame
        /\ Stands(StreamBytes(frames), q, Annotated(c.f, frames[c.f]))
        /\ Len(c.values) = Len(frames[c.f].tags)
        /\ c.values = ValuesTo(c.f, frames[c.f], Len(frames[c.f].tags))
    BY <1>1, <1>3, <1>11, <1>14, <1>15, <1>16, <1>18, <2>1
  <2>3. /\ OnTrackAt(q, AfterMetadata(c.f), c)
        /\ DueAt(AfterMetadata(c.f), c) = Annotated(c.f, frames[c.f])
    BY <1>16, <2>2, MetadataDone
  <2>4. ~ (cur.left > 1)
    BY <1>3, <1>7, <1>8, <1>18
  <2>5. DueAt(AfterMetadata(c.f), c) = t
    BY <1>1, <1>16, <2>1, <2>3
  <2>6. QED
    BY <1>5, <1>15, <1>16, <2>3, <2>4, <2>5
<1>19. OnTrackAt(Place', pc', cur') /\ DueAt(pc', cur') = t
  BY <1>8, <1>17, <1>18
<1>20. QED
  BY <1>2, <1>11, <1>19 DEF EndAt

\* The number of annotations.
LEMMA CountTracks ==
  ASSUME Here, OnTrackAt(Place, pc, cur), Count
  PROVE  OnTrackAt(Place', pc', cur') /\ EndAt(Place', pc', cur') = EndAt(Place, pc, cur)
<1>1. PICK f, fr, l : f = cur.f /\ fr = frames[cur.f] /\ l = fr.annotations * AnnotationLen
  OBVIOUS
<1>2. pc = "count" /\ pc \in BodySites
  BY DEF Count, Filled, BodySites, Sites
<1>3. /\ f \in Nat \ {0} /\ f \in Nat /\ fr \in Frame /\ cur \in Locals
      /\ fr.annotations \in Nat /\ l \in Nat
  BY <1>1, <1>2, FrameAtHand, FrameLengths DEF Here
<1>4. /\ Ring!Consume(1) /\ UNCHANGED peer /\ pos' = pos
      /\ \E n \in LengthIn(Ring!Peek(1), "count") :
            /\ cur' = [cur EXCEPT !.len = n * AnnotationLen]
            /\ pc' = IF n > 0 THEN "annotations" ELSE "terminator"
      /\ 1 <= Ring!available_read
  BY <1>2 DEF Count, Filled, Needed
<1>5. Ring!Peekable(1)
  <2>1. RP!IndInv
    BY DEF Here, RingOK
  <2>2. Ring!IndexOf(read_pos) \in 0 .. (Cap - 1) /\ Cap \in Nat
    BY <2>1, RingIs
  <2>3. Ring!IndexOf(read_pos) + 1 <= Cap
    BY <2>2
  <2>4. QED
    BY <1>4, <2>3 DEF Ring!Peekable, Ring!Contiguous
<1>6. /\ Stands(StreamBytes(frames), Place, Annotated(f, fr)) /\ KnowsAt("count", cur)
      /\ DueAt(pc, cur) = Annotated(f, fr)
  <2>1. DueAt("count", cur) = Annotated(f, fr)
    BY <1>1 DEF DueAt
  <2>2. QED
    BY <1>2, <2>1 DEF OnTrackAt
<1>7. /\ fr.annotated /\ Len(cur.values) = Len(fr.tags)
      /\ cur.values = ValuesTo(f, fr, Len(cur.values)) /\ cur.annotations = << >>
  BY <1>1, <1>6 DEF KnowsAt
<1>8. PICK S, s, t, e : /\ S = BodyByte(f, fr) /\ s = Bytes(f, "count", 0, 1)
                        /\ e = Bytes(f, "terminator", 0, TerminatorLen)
                        /\ t = Bytes(f, "annotations", 0, l) \o e
  OBVIOUS
<1>9. /\ s \in Seq(S) /\ t \in Seq(S) /\ e \in Seq(S) /\ 1 = Len(s)
      /\ Annotated(f, fr) = s \o t
  <2>1. s \in Seq(S) /\ e \in Seq(S) /\ Bytes(f, "annotations", 0, l) \in Seq(S)
    <3>1. \A part \in Parts \ {"file_header", "header", "tag"} : \A n \in Nat :
             Bytes(f, part, 0, n) \in Seq(S)
      BY <1>3, <1>8, PartBytes
    <3>2. QED
      BY <1>3, <1>8, <3>1, WireLengths DEF Parts
  <2>2. t \in Seq(S)
    BY <1>8, <2>1, ConcatProperties
  <2>3. Annotated(f, fr) = s \o t
    BY <1>1, <1>3, <1>7, <1>8, BlocksFollow
  <2>4. Len(Bytes(f, "count", 0, 1)) = 1
    <3>1. \A n \in Nat : Len(Bytes(f, "count", 0, n)) = n
      BY BytesAre
    <3>2. QED
      BY <3>1
  <2>5. QED
    BY <1>8, <2>1, <2>2, <2>3, <2>4
<1>10. /\ Stands(StreamBytes(frames), Place, s) /\ Stands(StreamBytes(frames), Place', t)
       /\ Place' + Len(t) = Place + Len(s \o t)
  <2>1. Stands(StreamBytes(frames), Place, s \o t)
    BY <1>6, <1>9
  <2>2. QED
    BY <1>4, <1>9, <2>1, Takes
<1>11. LengthIn(Ring!Peek(1), "count") = {Announced(f, "count", 0)}
  <2>1. "count" \in Parts /\ 1 \in Nat /\ 1 # 0 /\ f # 0 /\ f \in Nat /\ 0 \in Nat
    BY <1>3 DEF Parts
  <2>2. Stands(StreamBytes(frames), Place, Bytes(f, "count", 0, 1))
    BY <1>8, <1>10
  <2>3. Aligned /\ PeerOK /\ RingOK /\ FlowOK
    BY DEF Here
  <2>4. QED
    BY <1>5, <2>1, <2>2, <2>3, FieldRead
<1>12. /\ cur' = [cur EXCEPT !.len = l]
       /\ pc' = IF fr.annotations > 0 THEN "annotations" ELSE "terminator"
  <2>1. Announced(f, "count", 0) = fr.annotations
    BY <1>1 DEF Announced
  <2>2. QED
    BY <1>1, <1>4, <1>11, <2>1
<1>13. /\ cur'.f = f /\ cur'.values = cur.values /\ cur'.annotations = << >> /\ cur'.len = l
  <2>1. cur'.f = cur.f /\ cur'.values = cur.values /\ cur'.annotations = cur.annotations
        /\ cur'.len = l
    BY <1>3, <1>12 DEF Locals
  <2>2. QED
    BY <1>1, <1>7, <2>1
<1>14. ASSUME fr.annotations > 0 PROVE OnTrackAt(Place', pc', cur') /\ DueAt(pc', cur') = t
  <2>1. DueAt("annotations", cur') = t
    BY <1>1, <1>8, <1>13 DEF DueAt
  <2>2. KnowsAt("annotations", cur')
    <3>1. Len(fr.tags) \in Nat
      BY <1>3, FrameLengths, LenProperties
    <3>2. QED
      BY <1>1, <1>7, <1>13, <3>1 DEF KnowsAt
  <2>3. QED
    BY <1>10, <1>12, <1>14, <2>1, <2>2 DEF OnTrackAt
<1>15. ASSUME fr.annotations = 0 PROVE OnTrackAt(Place', pc', cur') /\ DueAt(pc', cur') = t
  <2>1. l = 0
    BY <1>1, <1>15, WireLengths
  <2>2. Bytes(f, "annotations", 0, l) = << >>
    <3>1. Bytes(f, "annotations", 0, 0) \in Seq(Nat) /\ Len(Bytes(f, "annotations", 0, 0)) = 0
      BY BytesAre
    <3>2. QED
      BY <2>1, <3>1, EmptySeq
  <2>3. t = e
    BY <1>8, <1>9, <2>2, ConcatEmptySeq
  <2>4. DueAt("terminator", cur') = t
    BY <1>1, <1>8, <1>13, <2>3 DEF DueAt
  <2>5. KnowsAt("terminator", cur')
    <3>1. Len(fr.tags) \in Nat
      BY <1>3, FrameLengths, LenProperties
    <3>2. QED
      BY <1>1, <1>7, <1>13, <2>2, <3>1 DEF KnowsAt
  <2>6. QED
    BY <1>10, <1>12, <1>15, <2>4, <2>5 DEF OnTrackAt
<1>16. OnTrackAt(Place', pc', cur') /\ DueAt(pc', cur') = t
  BY <1>3, <1>14, <1>15
<1>17. QED
  BY <1>6, <1>9, <1>10, <1>16 DEF EndAt

\* The annotations.
LEMMA AnnotationsTrack ==
  ASSUME Here, OnTrackAt(Place, pc, cur), Annotations, pc' \in BodySites
  PROVE  OnTrackAt(Place', pc', cur') /\ EndAt(Place', pc', cur') = EndAt(Place, pc, cur)
<1>1. PICK f, fr : f = cur.f /\ fr = frames[cur.f]
  OBVIOUS
<1>2. pc = "annotations" /\ pc \in BodySites /\ "idle" \notin BodySites
  BY DEF Annotations, Filled, BodySites, Sites
<1>3. f \in Nat /\ fr \in Frame /\ cur \in Locals /\ cur.len \in Nat
  BY <1>1, <1>2, FrameAtHand DEF Here
<1>4. /\ Ring!Peekable(cur.len) /\ Ring!Consume(cur.len)
      /\ cur' = [cur EXCEPT !.annotations = Ring!Peek(cur.len)]
      /\ pc' = "terminator"
      /\ UNCHANGED peer /\ pos' = pos
      /\ cur.len <= Ring!available_read
  <2>1. cur.len <= Ring!available_read
    <3>1. Needed = cur.len
      BY <1>2 DEF Needed
    <3>2. Ring!available_read \in Nat
      BY PlaceIs DEF Here
    <3>3. QED
      BY <1>3, <3>1, <3>2 DEF Annotations, Filled
  <2>2. QED
    BY <1>2, <2>1 DEF Annotations, FailUntouched, Fail, Return
<1>5. PICK S, s, t : /\ S = BodyByte(f, fr) /\ s = Bytes(f, "annotations", 0, cur.len)
                     /\ t = Bytes(f, "terminator", 0, TerminatorLen)
  OBVIOUS
<1>6. s \in Seq(S) /\ t \in Seq(S) /\ cur.len = Len(s)
  <2>1. \A part \in Parts \ {"file_header", "header", "tag"} : \A n \in Nat :
           Bytes(f, part, 0, n) \in Seq(S)
    BY <1>3, <1>5, PartBytes
  <2>2. s \in Seq(S) /\ t \in Seq(S)
    BY <1>3, <1>5, <2>1, WireLengths DEF Parts
  <2>3. QED
    BY <1>3, <1>5, <2>2, BytesAre
<1>7. /\ Stands(StreamBytes(frames), Place, s \o t) /\ KnowsAt("annotations", cur)
      /\ DueAt(pc, cur) = s \o t
  <2>1. DueAt("annotations", cur) = s \o t
    BY <1>1, <1>5 DEF DueAt
  <2>2. QED
    BY <1>2, <2>1 DEF OnTrackAt
<1>8. /\ Stands(StreamBytes(frames), Place, s) /\ Stands(StreamBytes(frames), Place', t)
      /\ Place' + Len(t) = Place + Len(s \o t)
  BY <1>4, <1>6, <1>7, Takes
<1>9. Ring!Peek(cur.len) = s
  <2>1. "annotations" \in Parts /\ 0 \in Nat
    BY DEF Parts
  <2>2. Stands(StreamBytes(frames), Place, Bytes(f, "annotations", 0, cur.len))
    BY <1>5, <1>8
  <2>3. Aligned /\ PeerOK /\ RingOK /\ FlowOK
    BY DEF Here
  <2>4. Ring!Peek(cur.len) = Bytes(f, "annotations", 0, cur.len)
    BY <1>3, <1>4, <2>1, <2>2, <2>3, FieldRead
  <2>5. QED
    BY <1>5, <2>4
<1>10. /\ cur'.f = f /\ cur'.values = cur.values /\ cur'.annotations = s
  BY <1>1, <1>3, <1>4, <1>9 DEF Locals
<1>11. DueAt("terminator", cur') = t
  BY <1>1, <1>5, <1>10 DEF DueAt
<1>12. KnowsAt("terminator", cur')
  <2>1. /\ Len(cur.values) = Len(fr.tags) /\ cur.values = ValuesTo(f, fr, Len(cur.values))
        /\ cur.len = fr.annotations * AnnotationLen
    BY <1>1, <1>7 DEF KnowsAt
  <2>2. Len(fr.tags) \in Nat
    BY <1>3, FrameLengths, LenProperties
  <2>3. QED
    BY <1>1, <1>5, <1>10, <2>1, <2>2 DEF KnowsAt
<1>13. OnTrackAt(Place', pc', cur')
  BY <1>4, <1>8, <1>11, <1>12 DEF OnTrackAt
<1>14. QED
  BY <1>4, <1>7, <1>8, <1>11, <1>13 DEF EndAt

\* What a step says of the next state's call, with the frames as they are.
LEMMA TrackNext ==
  ASSUME UNCHANGED peer, OnTrackAt(Place', pc', cur')
  PROVE  OnTrackAt(Place, pc, cur)'
<1>1. frames' = frames
  BY DEF peer
<1>2. DueAt(pc, cur)' = DueAt(pc', cur')
  BY <1>1 DEF DueAt
<1>3. KnowsAt(pc, cur)' = KnowsAt(pc', cur')
  BY <1>1 DEF KnowsAt
<1>4. StreamBytes(frames)' = StreamBytes(frames)
  BY <1>1
<1>5. QED
  BY <1>2, <1>3, <1>4 DEF OnTrackAt, Stands

-----------------------------------------------------------------------------
(* The ring holds the stream *)

\* The ring has room for a read when it holds less than n bytes.
Fits(n) == n + Chunk <= Cap + 1

\* It has for whatever a site asks for: the longest payload, value and run of
\* annotations of the streams among it.
Roomy ==
  /\ \A n \in {1, FileHeaderLen, FrameHeaderLen, PrefixLen, TagHeaderLen, TerminatorLen} : Fits(n)
  /\ \A s \in Streams : \A f \in DOMAIN s.frames :
       LET fr == s.frames[f]
       IN  /\ Fits(Len(FourFields(f, fr)))
           /\ \A j \in DOMAIN fr.tags : Fits(fr.tags[j])
           /\ Fits(fr.annotations * AnnotationLen)

\* What a site past the payload asks for is the next part of what is to come.
LEMMA NeededIsDue ==
  ASSUME PeerOK, CallOK, pc \in Later, OnTrackAt(Place, pc, cur)
  PROVE  /\ Needed \in Nat /\ Len(DueAt(pc, cur)) \in Nat
         /\ Needed <= Len(DueAt(pc, cur))
<1>1. PICK f, fr, n, j : f = cur.f /\ fr = frames[cur.f] /\ n = Len(cur.values) /\ j = n + 1
  OBVIOUS
<1>2. pc \in BodySites
  BY DEF Later, BodySites, Sites
<1>3. /\ f \in Nat /\ fr \in Frame /\ cur.len \in Nat /\ n \in Nat /\ j \in Nat
  BY <1>1, <1>2, FrameAtHand
<1>4. KnowsAt(pc, cur)
  BY DEF OnTrackAt
<1>5. PICK S : S = BodyByte(f, fr)
  OBVIOUS
<1>6. ASSUME NEW s \in Seq(S), NEW t \in Seq(S), DueAt(pc, cur) = s \o t, Needed = Len(s)
      PROVE  /\ Needed \in Nat /\ Len(DueAt(pc, cur)) \in Nat
             /\ Needed <= Len(DueAt(pc, cur))
  <2>1. Len(s) \in Nat /\ Len(t) \in Nat /\ Len(s \o t) = Len(s) + Len(t)
    BY ConcatProperties, LenProperties
  <2>2. QED
    BY <1>6, <2>1
<1>7. ASSUME NEW part \in Parts \ {"file_header", "header", "tag"}, NEW i \in Nat, NEW k \in Nat
      PROVE  Bytes(f, part, i, k) \in Seq(S) /\ Len(Bytes(f, part, i, k)) = k
  <2>1. Bytes(f, part, i, k) \in Seq(S)
    BY <1>3, <1>5, <1>7, PartBytes
  <2>2. QED
    BY <2>1, BytesAre
<1>8. Annotated(f, fr) \in Seq(S) /\ \A i \in 1 .. Len(fr.tags) : TagsFrom(f, fr, i + 1) \in Seq(S)
  BY <1>3, <1>5, BodyBytes, BlocksFollow
<1>9. CASE pc = "tag_count"
  <2>1. PICK s, u : s = Bytes(f, "tag_count", 0, PrefixLen) /\ u = TagsFrom(f, fr, 1)
    OBVIOUS
  <2>2. fr.metadata
    BY <1>1, <1>4, <1>9 DEF KnowsAt
  <2>3. u \in Seq(S) /\ DueAt(pc, cur) = s \o (u \o Annotated(f, fr))
    <3>1. u \in Seq(S) /\ Described(f, fr) = s \o (u \o Annotated(f, fr))
      BY <1>3, <1>5, <2>1, <2>2, BlocksFollow
    <3>2. DueAt(pc, cur) = Described(f, fr)
      BY <1>1, <1>9 DEF DueAt
    <3>3. QED
      BY <3>1, <3>2
  <2>4. s \in Seq(S) /\ Len(s) = PrefixLen
    BY <1>7, <2>1, WireLengths DEF Parts
  <2>5. u \o Annotated(f, fr) \in Seq(S)
    BY <1>8, <2>3, ConcatProperties
  <2>6. Needed = Len(s)
    BY <1>9, <2>4 DEF Needed
  <2>7. QED
    BY <1>6, <2>3, <2>4, <2>5, <2>6
<1>10. CASE pc \in {"tag", "value"}
  <2>1. n < Len(fr.tags) /\ (pc = "value" => cur.len = fr.tags[n + 1])
    BY <1>1, <1>4, <1>10 DEF KnowsAt
  <2>2. j \in 1 .. Len(fr.tags) /\ j \in DOMAIN fr.tags /\ fr.tags[j] \in Nat
    <3>1. fr.tags \in Seq(Nat) /\ Len(fr.tags) \in Nat
      BY <1>3, FrameLengths, LenProperties
    <3>2. j \in 1 .. Len(fr.tags)
      BY <1>1, <1>3, <2>1, <3>1
    <3>3. QED
      BY <3>1, <3>2, ElementOfSeq, LenProperties
  <2>3. PICK x, y, z : /\ x = Bytes(f, "tag", j, TagHeaderLen)
                       /\ y = Bytes(f, "value", j, fr.tags[j])
                       /\ z = TagsFrom(f, fr, j + 1) \o Annotated(f, fr)
    OBVIOUS
  <2>4. x \in Seq(S) /\ Len(x) = TagHeaderLen
    <3>1. x \in Seq(S)
      BY <1>3, <1>5, <2>2, <2>3, PartBytes, WireLengths DEF Parts
    <3>2. QED
      BY <2>3, <3>1, BytesAre, WireLengths
  <2>5. y \in Seq(S) /\ Len(y) = fr.tags[j]
    BY <1>3, <1>7, <2>2, <2>3 DEF Parts
  <2>6. z \in Seq(S)
    BY <1>8, <2>2, <2>3, ConcatProperties
  <2>7. CASE pc = "tag"
    <3>1. y \o z \in Seq(S)
      BY <2>5, <2>6, ConcatProperties
    <3>2. DueAt(pc, cur) = TagsFrom(f, fr, j) \o Annotated(f, fr)
      BY <1>1, <2>7 DEF DueAt
    <3>3. TagsFrom(f, fr, j) \o Annotated(f, fr) = x \o (y \o z)
      BY <1>3, <2>2, <2>3, BlocksFollow
    <3>4. Needed = Len(x)
      BY <2>4, <2>7 DEF Needed
    <3>5. QED
      BY <1>6, <2>4, <3>1, <3>2, <3>3, <3>4
  <2>8. CASE pc = "value"
    <3>1. n + 2 = j + 1
      BY <1>1, <1>3
    <3>2. fr.tags[j] = cur.len
      BY <1>1, <2>1, <2>8
    <3>3. DueAt(pc, cur) = y \o z
      BY <1>1, <2>3, <2>8, <3>1, <3>2 DEF DueAt
    <3>4. Needed = Len(y)
      BY <2>5, <2>8, <3>2 DEF Needed
    <3>5. QED
      BY <1>6, <2>5, <2>6, <3>3, <3>4
  <2>9. QED
    BY <1>10, <2>7, <2>8
<1>11. CASE pc = "count"
  <2>1. PICK s, u, v : /\ s = Bytes(f, "count", 0, 1)
                       /\ u = Bytes(f, "annotations", 0, fr.annotations * AnnotationLen)
                       /\ v = Bytes(f, "terminator", 0, TerminatorLen)
    OBVIOUS
  <2>2. fr.annotated
    BY <1>1, <1>4, <1>11 DEF KnowsAt
  <2>3. DueAt(pc, cur) = s \o (u \o v)
    BY <1>1, <1>3, <1>11, <2>1, <2>2, BlocksFollow DEF DueAt
  <2>4. s \in Seq(S) /\ Len(s) = 1
    BY <1>7, <2>1 DEF Parts
  <2>5. u \in Seq(S) /\ v \in Seq(S)
    <3>1. fr.annotations * AnnotationLen \in Nat
      BY <1>3, FrameLengths
    <3>2. \A k \in Nat : /\ Bytes(f, "annotations", 0, k) \in Seq(S)
                         /\ Bytes(f, "terminator", 0, k) \in Seq(S)
      BY <1>7 DEF Parts
    <3>3. QED
      BY <2>1, <3>1, <3>2, WireLengths
  <2>6. u \o v \in Seq(S)
    BY <2>5, ConcatProperties
  <2>7. Needed = Len(s)
    BY <1>11, <2>4 DEF Needed
  <2>8. QED
    BY <1>6, <2>3, <2>4, <2>6, <2>7
<1>12. CASE pc = "annotations"
  <2>1. PICK s, v : /\ s = Bytes(f, "annotations", 0, cur.len)
                    /\ v = Bytes(f, "terminator", 0, TerminatorLen)
    OBVIOUS
  <2>2. DueAt(pc, cur) = s \o v
    BY <1>1, <1>12, <2>1 DEF DueAt
  <2>3. s \in Seq(S) /\ Len(s) = cur.len /\ v \in Seq(S)
    BY <1>3, <1>7, <2>1, WireLengths DEF Parts
  <2>4. Needed = Len(s)
    BY <1>12, <2>3 DEF Needed
  <2>5. QED
    BY <1>6, <2>2, <2>3, <2>4
<1>13. CASE pc = "terminator"
  <2>1. DueAt(pc, cur) = Bytes(f, "terminator", 0, TerminatorLen)
    BY <1>1, <1>13 DEF DueAt
  <2>2. Len(DueAt(pc, cur)) = TerminatorLen
    BY <2>1, BytesAre, WireLengths
  <2>3. QED
    BY <1>13, <2>2, WireLengths DEF Needed
<1>14. QED
  BY <1>9, <1>10, <1>11, <1>12, <1>13 DEF Later

\* What a site asks for fits, and the frame has it.
LEMMA NeededFits ==
  ASSUME Roomy, PeerOK, CallOK, pc # "idle", pc \in BodySites => OnTrackAt(Place, pc, cur)
  PROVE  /\ Needed \in Nat /\ Fits(Needed)
         /\ pc \in {"tag", "value"} => /\ Place \in Nat
                                       /\ Place + Needed <= Len(StreamBytes(frames))
<1>1. CASE pc \notin BodySites
  <2>1. pc \in {"file_header", "header"}
    BY <1>1 DEF CallOK, BodySites
  <2>2. QED
    BY <2>1, WireLengths DEF Needed, Roomy
<1>2. CASE pc \in BodySites
  <2>1. PICK f, fr, n : f = cur.f /\ fr = frames[cur.f] /\ n = Len(cur.values)
    OBVIOUS
  <2>2. /\ f \in Nat /\ f \in 1 .. Len(frames) /\ fr \in Frame /\ cur.len \in Nat /\ n \in Nat
    BY <1>2, <2>1, FrameAtHand
  <2>3. KnowsAt(pc, cur) /\ Stands(StreamBytes(frames), Place, DueAt(pc, cur))
    BY <1>2 DEF OnTrackAt
  <2>4. /\ Fits(Len(FourFields(f, fr)))
        /\ \A j \in DOMAIN fr.tags : Fits(fr.tags[j])
        /\ Fits(fr.annotations * AnnotationLen)
    <3>1. PICK s : s = [frames |-> frames, schema |-> schema]
      OBVIOUS
    <3>2. s \in Streams /\ s.frames = frames /\ f \in DOMAIN s.frames /\ s.frames[f] = fr
      BY <2>1, <2>2, <3>1, LenProperties DEF PeerOK
    <3>3. QED
      BY <3>2 DEF Roomy
  <2>5. CASE pc \in {"de_len", "tag_count", "count", "terminator"}
    BY <2>5, WireLengths DEF Needed, Roomy
  <2>6. CASE pc = "payload"
    <3>1. cur.len = Len(fr.detector_events)
      BY <2>1, <2>3, <2>6 DEF KnowsAt
    <3>2. PayloadLen = Len(FourFields(f, fr))
      BY <2>1, <2>2, <3>1, PayloadIs DEF PayloadLen, CurFrame
    <3>3. PayloadLen \in Nat
      <4>1. cur.f # 0
        BY <1>2 DEF CallOK
      <4>2. QED
        BY <4>1, LocalsAre
    <3>4. QED
      BY <2>4, <2>6, <3>2, <3>3 DEF Needed
  <2>7. CASE pc = "annotations"
    <3>1. cur.len = fr.annotations * AnnotationLen
      BY <2>1, <2>3, <2>7 DEF KnowsAt
    <3>2. QED
      BY <2>2, <2>4, <2>7, <3>1 DEF Needed
  <2>8. CASE pc \in {"tag", "value"}
    <3>1. n < Len(fr.tags) /\ (pc = "value" => cur.len = fr.tags[n + 1])
      BY <2>1, <2>3, <2>8 DEF KnowsAt
    <3>2. fr.tags \in Seq(Nat) /\ Len(fr.tags) \in Nat
      BY <2>2, FrameLengths, LenProperties
    <3>3. PICK j : j = n + 1
      OBVIOUS
    <3>4. j \in DOMAIN fr.tags
      BY <2>2, <3>1, <3>2, <3>3, LenProperties
    <3>5. Fits(Needed)
      <4>1. pc = "value" => Needed = fr.tags[j]
        BY <3>1, <3>3 DEF Needed
      <4>2. pc = "tag" => Needed = TagHeaderLen
        BY DEF Needed
      <4>3. Fits(TagHeaderLen)
        BY DEF Roomy
      <4>4. QED
        BY <2>4, <2>8, <3>4, <4>1, <4>2, <4>3, Zenon
    <3>6. pc \in Later
      BY <2>8 DEF Later
    <3>7. /\ Needed \in Nat /\ Len(DueAt(pc, cur)) \in Nat /\ Needed <= Len(DueAt(pc, cur))
      BY <1>2, <3>6, NeededIsDue
    <3>8. /\ Place \in Nat /\ Place + Len(DueAt(pc, cur)) <= Len(StreamBytes(frames))
          /\ Len(StreamBytes(frames)) \in Nat
      BY <2>3, StreamPlaces, LenProperties DEF PeerOK, Stands
    <3>9. QED
      BY <3>5, <3>7, <3>8
  <2>9. QED
    BY <1>2, <2>5, <2>6, <2>7, <2>8 DEF BodySites, Sites
<1>3. QED
  BY <1>1, <1>2

\* A read brings what the ring has room for.
LEMMA ReadKeeps ==
  ASSUME Roomy, Here, InStep, Read
  PROVE  /\ FlowOK' /\ InStep'
         /\ Place' = Place /\ pos' \in Nat /\ pos <= pos' /\ pos' <= pos + Chunk
         /\ Ring!available_read < Needed /\ ~ Cut
<1>1. PICK n \in 1 .. Ring!Least(Chunk, Len(wire) - pos) :
        /\ pos' = pos + n
        /\ Ring!Write(SubSeq(wire, pos + 1, pos + n))
        /\ Fail \/ UNCHANGED <<pc, cur, result, out, returned>>
  BY DEF Read
<1>2. /\ pos \in Nat /\ Len(wire) \in Nat /\ Chunk \in Nat /\ Cap \in Nat
      /\ Ring!available_read \in Nat /\ n \in Nat /\ n <= Chunk /\ n \in 1 .. (Len(wire) - pos)
  <2>1. pos \in Nat /\ Len(wire) \in Nat /\ Ring!available_read \in 0 .. Cap
    BY PlaceIs DEF Here
  <2>2. Chunk \in Nat /\ Cap \in Nat
    BY StreamAssumption
  <2>3. QED
    BY <1>1, <2>1, <2>2 DEF Ring!Least
<1>3. ~ Cut
  BY <1>2 DEF Cut
<1>4. pc # "idle" /\ Ring!available_read < Needed /\ UNCHANGED peer
  BY DEF Read, Waiting
<1>5. pc \in BodySites => OnTrackAt(Place, pc, cur)
  BY <1>3 DEF InStep
<1>6. Needed \in Nat /\ Needed + Chunk <= Cap + 1
  BY <1>4, <1>5, NeededFits DEF Here, Fits
<1>7. Ring!available_read + n <= Cap
  BY <1>2, <1>4, <1>6
<1>8. FlowOK' /\ Place' = Place
  BY <1>1, <1>2, <1>4, <1>7, FlowNext DEF Here
<1>9. InStep'
  <2>1. CASE Fail
    BY <2>1 DEF Fail, Return, InStep, BodySites, Sites
  <2>2. CASE UNCHANGED <<pc, cur, result, out, returned>>
    <3>1. pc' \in BodySites => OnTrackAt(Place', pc', cur')
      BY <1>5, <1>8, <2>2
    <3>2. pc' \in BodySites => OnTrackAt(Place, pc, cur)'
      BY <1>4, <3>1, TrackNext
    <3>3. QED
      BY <3>2 DEF InStep
  <2>3. QED
    BY <1>1, <2>1, <2>2
<1>10. pos' \in Nat /\ pos <= pos' /\ pos' <= pos + Chunk
  BY <1>1, <1>2
<1>11. QED
  BY <1>3, <1>4, <1>8, <1>9, <1>10

\* The slices of a call and its frame.
SameSlices ==
  /\ cur'.f = cur.f /\ cur'.de = cur.de /\ cur'.meas = cur.meas
  /\ cur'.timing = cur.timing /\ cur'.parity = cur.parity

\* Once the payload is read a call keeps its slices and the scratch buffer, until
\* it ends.
LEMMA StaysLater ==
  ASSUME CallOK, Next, pc \in Later
  PROVE  /\ pc' = "idle" \/ (pc' \in Later /\ SameSlices)
         /\ scratch' = scratch
         /\ Read \/ (pos' = pos /\ buf' = buf)
<1>1. cur \in Locals
  BY DEF CallOK
<1>2. AfterMetadata(cur.f) \in Later
  BY DEF AfterMetadata, Later
<1>3. CASE Call \/ FileHeader \/ FrameHeader \/ DeLen \/ Payload
  BY <1>3 DEF Call, FileHeader, FrameHeader, DeLen, Payload, Filled, Later
<1>4. CASE Read
  BY <1>4 DEF Read, Fail, Return, SameSlices
<1>5. CASE EndOfStream
  BY <1>2, <1>5 DEF EndOfStream, Fail, Return, Yield, SameSlices, ring
<1>6. CASE ReadError \/ Cancel
  BY <1>6 DEF ReadError, Cancel, FailUntouched, Fail, Return, ring
<1>7. CASE TagCount
  <2>1. CASE Ring!Peekable(PrefixLen)
    BY <1>1, <1>2, <1>7, <2>1 DEF TagCount, Ring!Consume, SameSlices, Later, Locals
  <2>2. CASE ~ Ring!Peekable(PrefixLen)
    BY <1>7, <2>2 DEF TagCount, FailUntouched, Fail, Return, ring
  <2>3. QED
    BY <2>1, <2>2
<1>8. CASE Tag
  <2>1. CASE Ring!Peekable(TagHeaderLen)
    BY <1>1, <1>8, <2>1 DEF Tag, Ring!Consume, SameSlices, Later, Locals
  <2>2. CASE ~ Ring!Peekable(TagHeaderLen)
    BY <1>8, <2>2 DEF Tag, FailUntouched, Fail, Return, ring
  <2>3. QED
    BY <2>1, <2>2
<1>9. CASE Value
  <2>1. CASE Ring!Peekable(cur.len)
    BY <1>1, <1>2, <1>9, <2>1 DEF Value, Ring!Consume, SameSlices, Later, Locals
  <2>2. CASE ~ Ring!Peekable(cur.len)
    BY <1>9, <2>2 DEF Value, FailUntouched, Fail, Return, ring
  <2>3. QED
    BY <2>1, <2>2
<1>10. CASE Count
  BY <1>1, <1>10 DEF Count, Ring!Consume, SameSlices, Later, Locals
<1>11. CASE Annotations
  <2>1. CASE Ring!Peekable(cur.len)
    BY <1>1, <1>11, <2>1 DEF Annotations, Ring!Consume, SameSlices, Later, Locals
  <2>2. CASE ~ Ring!Peekable(cur.len)
    BY <1>11, <2>2 DEF Annotations, FailUntouched, Fail, Return, ring
  <2>3. QED
    BY <2>1, <2>2
<1>12. CASE Terminator
  BY <1>12 DEF Terminator, Ring!Consume, Yield, Fail, Return, ring
<1>13. QED
  BY <1>3, <1>4, <1>5, <1>6, <1>7, <1>8, <1>9, <1>10, <1>11, <1>12 DEF Next, Parse

\* The stream that ends inside a block of tags was cut short.
LEMMA OutOfStream ==
  ASSUME Roomy, Here, InStep, EndOfStream, pc \in {"tag", "value"}
  PROVE  Cut
<1>1. pc \in BodySites /\ pc # "idle"
  BY DEF BodySites, Sites
<1>2. Ring!available_read < Needed /\ pos = Len(wire)
  BY DEF EndOfStream, Waiting
<1>3. CASE OnTrackAt(Place, pc, cur)
  <2>1. Needed \in Nat /\ Place \in Nat /\ Place + Needed <= Len(StreamBytes(frames))
    BY <1>1, <1>3, NeededFits DEF Here
  <2>2. /\ Ring!available_read \in Nat /\ Place + Ring!available_read = pos
        /\ Len(StreamBytes(frames)) \in Nat
    BY PlaceIs DEF Here
  <2>3. QED
    BY <1>2, <2>1, <2>2 DEF Cut
<1>4. QED
  BY <1>1, <1>3 DEF InStep

\* So does every other step.
LEMMA InStepNext ==
  ASSUME Roomy, Here, InStep, Next
  PROVE  FlowOK' /\ InStep'
<1>1. UNCHANGED peer
  BY StepOfRing DEF Here
<1>2. "idle" \notin BodySites /\ "header" \notin BodySites /\ "file_header" \notin BodySites
  BY DEF BodySites, Sites
<1>3. CASE Read
  BY <1>3, ReadKeeps
<1>4. CASE ~ Read
  <2>1. FlowOK' /\ pos' = pos /\ (UNCHANGED ring => Place' = Place)
    <3>1. Feeds \/ Releases \/ Rests
      BY StepOfRing DEF Here
    <3>2. pos' = pos /\ (Releases \/ Rests)
      <4>1. pos' = pos
        BY <1>4 DEF Next, Parse, Call, EndOfStream, ReadError, Cancel, FileHeader, FrameHeader, DeLen,
                    Payload, TagCount, Tag, Value, Count, Annotations, Terminator
      <4>2. ~ Feeds
        <5>1. pos \in Nat
          BY PlaceIs DEF Here
        <5>2. QED
          BY <4>1, <5>1 DEF Feeds
      <4>3. QED
        BY <3>1, <4>1, <4>2
    <3>3. FlowOK'
      BY <1>1, <3>2, FlowNext DEF Releases, Rests, Here
    <3>4. UNCHANGED ring => Place' = Place
      BY <1>1, <3>2, FlowNext DEF Here
    <3>5. QED
      BY <3>2, <3>3, <3>4
  <2>2. ASSUME Cut, pc \in Later, pc' \in BodySites PROVE InStep'
    <3>1. Cut'
      BY <1>1, <2>1, <2>2 DEF Cut, peer
    <3>2. pc' \in Later
      BY <1>2, <2>2, StaysLater DEF Here
    <3>3. QED
      BY <3>1, <3>2 DEF InStep
  <2>3. ASSUME pc \in BodySites => OnTrackAt(Place, pc, cur), pc' \in BodySites PROVE InStep'
    <3>1. pc \in BodySites => OnTrackAt(Place, pc, cur)
      BY <2>3
    <3>2. CASE EndOfStream
      <4>1. pc \in {"tag", "value"}
        BY <1>2, <2>3, <3>2 DEF EndOfStream, Return, Fail, Yield
      <4>2. pc \in Later
        BY <4>1 DEF Later
      <4>3. Cut
        BY <3>2, <4>1, OutOfStream
      <4>4. QED
        BY <2>2, <2>3, <4>2, <4>3
    <3>3. CASE Parse
      <4>1. OnTrackAt(Place', pc', cur')
        <5>1. CASE FrameHeader
          BY <2>3, <5>1, FrameHeaderTracks
        <5>2. CASE DeLen \/ TagCount \/ Tag \/ Value \/ Annotations
          <6>1. OnTrackAt(Place, pc, cur)
            <7>1. pc \in BodySites
              BY <5>2 DEF DeLen, TagCount, Tag, Value, Annotations, Filled, BodySites, Sites
            <7>2. QED
              BY <3>1, <7>1
          <6>2. QED
            BY <2>3, <5>2, <6>1, DeLenTracks, TagCountTracks, TagTracks, ValueTracks, AnnotationsTrack
        <5>3. CASE Payload \/ Count
          <6>1. OnTrackAt(Place, pc, cur)
            <7>1. pc \in BodySites
              BY <5>3 DEF Payload, Count, Filled, BodySites, Sites
            <7>2. QED
              BY <3>1, <7>1
          <6>2. QED
            BY <5>3, <6>1, PayloadTracks, CountTracks
        <5>4. CASE FileHeader
          BY <1>2, <2>3, <5>4 DEF FileHeader, FailUntouched, Fail, Return
        <5>5. CASE Terminator
          BY <1>2, <2>3, <5>5 DEF Terminator, Yield, Fail, Return
        <5>6. QED
          BY <3>3, <5>1, <5>2, <5>3, <5>4, <5>5 DEF Parse
      <4>2. OnTrackAt(Place, pc, cur)'
        BY <1>1, <4>1, TrackNext
      <4>3. QED
        BY <2>1, <4>2 DEF InStep
    <3>4. CASE Call \/ ReadError \/ Cancel
      BY <1>2, <2>3, <3>4 DEF Call, ReadError, Cancel, FailUntouched, Fail, Return
    <3>5. QED
      BY <1>4, <3>2, <3>3, <3>4 DEF Next
  <2>4. CASE pc' \notin BodySites
    BY <2>1, <2>4 DEF InStep
  <2>5. QED
    <3>1. (pc \in BodySites => OnTrackAt(Place, pc, cur)) \/ (Cut /\ pc \in Later)
      BY DEF InStep
    <3>2. InStep'
      BY <2>2, <2>3, <2>4, <3>1
    <3>3. QED
      BY <2>1, <3>2
<1>5. QED
  BY <1>3, <1>4

\* With the types, the parser's place is an inductive invariant.
PlaceInv == TypeInv /\ FlowOK /\ InStep

\* Every step keeps the parser's place in the stream.
LEMMA PlaceNext == Aligned /\ Roomy /\ PlaceInv /\ [Next]_vars => PlaceInv'
<1>1. SUFFICES ASSUME Aligned, Roomy, PlaceInv, [Next]_vars PROVE PlaceInv'
  OBVIOUS
<1>2. TypeInv'
  BY <1>1, TypesNext DEF PlaceInv
<1>3. Here
  BY <1>1 DEF Here, PlaceInv, TypeInv
<1>4. CASE Next
  BY <1>1, <1>2, <1>3, <1>4, InStepNext DEF PlaceInv
<1>5. CASE UNCHANGED vars
  <2>1. UNCHANGED peer /\ pos' = pos /\ UNCHANGED ring /\ pc' = pc /\ cur' = cur
    BY <1>5 DEF vars, peer, ring
  <2>2. FlowOK' /\ Place' = Place
    BY <1>3, <2>1, FlowNext DEF Here
  <2>3. CASE pc \in BodySites /\ Cut /\ pc \in Later
    <3>1. Cut'
      BY <2>1, <2>3 DEF Cut, peer
    <3>2. QED
      BY <1>2, <2>1, <2>2, <2>3, <3>1 DEF PlaceInv, InStep
  <2>4. CASE pc \in BodySites /\ ~ (Cut /\ pc \in Later)
    <3>1. OnTrackAt(Place', pc', cur')
      BY <1>1, <2>1, <2>2, <2>4 DEF PlaceInv, InStep
    <3>2. OnTrackAt(Place, pc, cur)'
      BY <2>1, <3>1, TrackNext
    <3>3. QED
      BY <1>2, <2>2, <3>2 DEF PlaceInv, InStep
  <2>5. CASE pc \notin BodySites
    BY <1>2, <2>1, <2>2, <2>5 DEF PlaceInv, InStep
  <2>6. QED
    BY <2>3, <2>4, <2>5
<1>6. QED
  BY <1>1, <1>4, <1>5

\* Before the first byte the parser is at the start of the stream.
LEMMA PlaceInit == Init => PlaceInv
<1>1. SUFFICES ASSUME Init PROVE PlaceInv
  OBVIOUS
<1>2. TypeInv
  BY <1>1, TypesInit DEF TypeInv
<1>3. pos = 0 /\ read_pos = 0 /\ write_pos = 0 /\ pc = "idle"
  BY <1>1 DEF Init
<1>4. Ring!available_read = 0
  <2>1. Modulus \in Nat \ {0}
    BY StreamAssumption
  <2>2. 0 % Modulus = 0
    BY <2>1
  <2>3. QED
    BY <1>3, <2>2 DEF Ring!available_read, Ring!WrappingSub
<1>5. FlowOK
  BY <1>3, <1>4 DEF FlowOK
<1>6. InStep
  BY <1>3 DEF InStep, BodySites, Sites
<1>7. QED
  BY <1>2, <1>5, <1>6 DEF PlaceInv

\* The ring holds the latest bytes of the stream, in order, and never more than
\* it has room for, however calls end, if its size divides the range of its
\* counters and it has room for what the sites ask for and a read.
THEOREM RingKeepsTheStream == Aligned /\ Roomy => (Spec => []RingHoldsTheStream)
<1>1. SUFFICES ASSUME Aligned, Roomy PROVE Spec => []RingHoldsTheStream
  OBVIOUS
<1>2. PlaceInv => RingHoldsTheStream
  <2>1. SUFFICES ASSUME PlaceInv PROVE RingHoldsTheStream
    OBVIOUS
  <2>2. PeerOK /\ RingOK /\ FlowOK /\ RP!IndInv
    BY <2>1 DEF PlaceInv, TypeInv, RingOK
  <2>3. PICK a, c : a = Ring!available_read /\ c = Ring!Contents
    OBVIOUS
  <2>4. /\ pos \in Nat /\ Len(wire) \in Nat /\ a \in 0 .. Cap /\ Cap \in Nat
        /\ pos <= Len(wire) /\ Place \in Nat /\ Place + a = pos /\ a \in Nat
    BY <2>2, <2>3, PlaceIs
  <2>5. /\ c \in Seq(AnyByte) /\ Len(c) = a
        /\ \A k \in 1..a : c[k] = wire[Place + k]
    <3>1. RP!Aligned
      BY <1>1 DEF Aligned, RP!Aligned
    <3>2. c \in Seq(AnyByte) /\ Len(c) = a
      BY <2>2, <2>3, <3>1, RingAssumed, RP!ContentsAt, SameRing
    <3>3. QED
      BY <2>2, <2>3, <3>2 DEF FlowOK
  <2>6. PICK d : d = SubSeq(wire, Place + 1, pos)
    OBVIOUS
  <2>7. d \in Seq(AnyByte) /\ Len(d) = a /\ \A k \in 1..a : d[k] = wire[Place + k]
    <3>1. PICK m : m = Place + 1
      OBVIOUS
    <3>2. m \in Int /\ pos \in Int /\ \A i \in m .. pos : wire[i] \in AnyByte
      <4>1. \A i \in m .. pos : i \in 1 .. Len(wire)
        BY <2>4, <3>1
      <4>2. \A i \in 1 .. Len(wire) : wire[i] \in AnyByte
        <5>1. \A i \in 1 .. Len(wire) : wire[i] \in StreamByte(frames)
          BY <2>2, ElementOfSeq DEF PeerOK
        <5>2. QED
          BY <5>1 DEF StreamByte
      <4>3. QED
        BY <2>4, <3>1, <4>1, <4>2
    <3>3. /\ SubSeq(wire, m, pos) \in Seq(AnyByte)
          /\ Len(SubSeq(wire, m, pos)) = IF m <= pos THEN pos - m + 1 ELSE 0
          /\ \A i \in 1 .. pos - m + 1 : SubSeq(wire, m, pos)[i] = wire[m + i - 1]
      BY <3>2, SubSeqProperties
    <3>4. pos - m + 1 = a /\ (m <= pos \/ a = 0) /\ \A i \in 1..a : m + i - 1 = Place + i
      BY <2>4, <3>1
    <3>5. QED
      BY <2>6, <3>1, <3>3, <3>4
  <2>8. c = d
    BY <2>5, <2>7, SeqEqual
  <2>9. pos - Ring!available_read + 1 = Place + 1
    BY <2>3, <2>4
  <2>10. Ring!CapacityInvariant
    BY <2>2, SameRing DEF RP!IndInv
  <2>11. QED
    BY <2>3, <2>6, <2>8, <2>9, <2>10 DEF RingHoldsTheStream
<1>3. PlaceInv /\ [Next]_vars => PlaceInv'
  BY <1>1, PlaceNext
<1>4. QED
  BY <1>2, <1>3, PlaceInit, PTL DEF Spec

-----------------------------------------------------------------------------
(* The store *)

\* Where in the store the byte after the first q of the stream goes.
Slot(q) == q % Cap

\* The store holds the last bytes that were read, as many as it has room for,
\* also those that were consumed: that is what a borrowed slice lives on.
StoreOK ==
  /\ Ring!IndexOf(read_pos) = Slot(Place)
  /\ \A q \in Nat : q < pos /\ pos <= q + Cap => buf[Slot(q)] = wire[q + 1]

\* Slots go around the store.
LEMMA SlotAdd ==
  ASSUME NEW q \in Nat, NEW k \in 0 .. Cap
  PROVE  /\ Slot(q) \in 0 .. (Cap - 1)
         /\ Slot(q + k) = IF Slot(q) + k < Cap THEN Slot(q) + k ELSE (Slot(q) + k) - Cap
         /\ Slot(q + k) = RP!Around(Slot(q), k)
<1>1. Cap \in Nat \ {0} /\ q \in Int
  BY StreamAssumption
<1>2. (q % Cap) \in 0 .. (Cap - 1)
  BY <1>1, RP!ModBounds, RingAssumed
<1>3. (q + k) % Cap = IF (q % Cap) + k < Cap THEN (q % Cap) + k ELSE (q % Cap) + k - Cap
  BY <1>1, RP!ModAdd, RingAssumed
<1>4. PICK r, t : r = q % Cap /\ t = (q + k) % Cap
  OBVIOUS
<1>5. r + k - Cap = (r + k) - Cap
  BY <1>1, <1>2, <1>4
<1>6. Slot(q) = r /\ Slot(q + k) = t
  BY <1>4 DEF Slot
<1>7. QED
  BY <1>2, <1>3, <1>4, <1>5, <1>6 DEF RP!Around

\* The next byte goes to the slot of its place in the stream.
LEMMA WritesAtPos ==
  ASSUME Aligned, PeerOK, RingOK, FlowOK, StoreOK
  PROVE  RP!IndexOf(write_pos) = Slot(pos)
<1>1. RP!IndInv /\ RP!Aligned
  BY DEF RingOK, Aligned, RP!Aligned
<1>2. RP!IndexOf(write_pos) = RP!Around(RP!IndexOf(read_pos), RP!available_read)
  BY <1>1, RingAssumed, RP!WriteIndex
<1>3. /\ Place \in Nat /\ Ring!available_read \in 0 .. Cap
      /\ Place + Ring!available_read = pos
  BY PlaceIs
<1>4. Slot(pos) = RP!Around(Slot(Place), Ring!available_read)
  BY <1>3, SlotAdd, Zenon
<1>5. QED
  BY <1>2, <1>4, SameRing DEF StoreOK

\* What is read overwrites the oldest bytes of the store, and nothing else does.
LEMMA StoreNext ==
  ASSUME Aligned, PeerOK, RingOK, FlowOK, StoreOK, UNCHANGED peer
  PROVE  /\ \A n \in 1 .. (Len(wire) - pos) :
              /\ pos' = pos + n /\ Ring!Write(SubSeq(wire, pos + 1, pos + n))
              /\ Ring!available_read + n <= Cap
              => StoreOK'
         /\ \A n \in Nat :
              pos' = pos /\ n <= Ring!available_read /\ Ring!Consume(n) => StoreOK'
         /\ pos' = pos /\ UNCHANGED ring => StoreOK'
<1>1. /\ wire' = wire /\ RP!IndInv /\ RP!Aligned
  BY DEF RingOK, Aligned, RP!Aligned, peer
<1>2. PICK a : a = Ring!available_read
  OBVIOUS
<1>3. /\ pos \in Nat /\ Len(wire) \in Nat /\ a \in 0 .. Cap /\ Cap \in Nat \ {0}
      /\ Place \in Nat
  BY <1>2, PlaceIs
<1>4. /\ Ring!IndexOf(read_pos) = Slot(Place)
      /\ \A q \in Nat : q < pos /\ pos <= q + Cap => buf[Slot(q)] = wire[q + 1]
  BY DEF StoreOK
<1>5. ASSUME NEW n \in 1 .. (Len(wire) - pos),
             pos' = pos + n, Ring!Write(SubSeq(wire, pos + 1, pos + n)), a + n <= Cap
      PROVE  StoreOK'
  <2>1. PICK d : d = SubSeq(wire, pos + 1, pos + n)
    OBVIOUS
  <2>2. d \in Seq(AnyByte) /\ Len(d) = n /\ \A i \in 1..n : d[i] = wire[pos + i]
    BY <2>1, ReadBrings
  <2>3. n \in Nat /\ n <= Cap
    BY <1>3, <1>5
  <2>4. RP!Accepted(d) = n
    BY <1>1, <1>2, <1>5, <2>1, <2>2, RingWrites, SameRing
  <2>5. RP!Write(d)
    BY <1>5, <2>1, SameOperations
  <2>6. \A i \in 0 .. (Cap - 1) :
           buf'[RP!Around(Slot(pos), i)] = IF i < n THEN d[i + 1] ELSE buf[RP!Around(Slot(pos), i)]
    <3>1. RP!IndexOf(write_pos) = Slot(pos)
      BY WritesAtPos
    <3>2. \A i \in 0 .. (Cap - 1) :
             buf'[RP!Around(RP!IndexOf(write_pos), i)]
               = IF i < RP!Accepted(d) THEN d[i + 1] ELSE buf[RP!Around(RP!IndexOf(write_pos), i)]
      BY <1>1, <2>2, <2>5, RingAssumed, RP!WriteLays
    <3>3. QED
      BY <2>4, <3>1, <3>2, Zenon
  <2>7. \A i \in 0 .. (Cap - 1) :
           buf'[Slot(pos + i)] = IF i < n THEN d[i + 1] ELSE buf[Slot(pos + i)]
    <3>1. SUFFICES ASSUME NEW i \in 0 .. (Cap - 1)
                   PROVE  buf'[Slot(pos + i)] = IF i < n THEN d[i + 1] ELSE buf[Slot(pos + i)]
      OBVIOUS
    <3>2. i \in 0 .. Cap
      BY <1>3, <3>1
    <3>3. Slot(pos + i) = RP!Around(Slot(pos), i)
      BY <1>3, <3>2, SlotAdd, Zenon
    <3>4. QED
      BY <2>6, <3>1, <3>3, Zenon
  <2>8. ASSUME NEW q \in Nat, q < pos + n, pos + n <= q + Cap
        PROVE  buf'[Slot(q)] = wire[q + 1]
    <3>1. CASE pos <= q
      <4>1. PICK i \in 0 .. (Cap - 1) : i = q - pos /\ i < n
        BY <1>3, <2>3, <2>8, <3>1
      <4>2. pos + i = q /\ i + 1 \in 1..n /\ pos + (i + 1) = q + 1
        BY <1>3, <2>3, <2>8, <4>1
      <4>3. buf'[Slot(q)] = d[i + 1]
        BY <2>7, <4>1, <4>2
      <4>4. QED
        BY <2>2, <4>2, <4>3
    <3>2. CASE q < pos
      <4>1. PICK i \in 0 .. (Cap - 1) : i = (q + Cap) - pos /\ ~ (i < n)
        BY <1>3, <2>3, <2>8, <3>2
      <4>2. pos + i = q + Cap /\ pos <= q + Cap
        BY <1>3, <2>3, <2>8, <4>1
      <4>3. Slot(q + Cap) = Slot(q)
        <5>1. PICK r, t : r = Slot(q) /\ t = Slot(q + Cap)
          OBVIOUS
        <5>2. Cap \in 0 .. Cap
          BY <1>3
        <5>3. r \in 0 .. (Cap - 1) /\ t = IF r + Cap < Cap THEN r + Cap ELSE (r + Cap) - Cap
          BY <5>1, <5>2, SlotAdd
        <5>4. QED
          BY <1>3, <5>1, <5>3
      <4>4. buf'[Slot(q)] = buf[Slot(q)]
        BY <2>7, <4>1, <4>2, <4>3
      <4>5. QED
        BY <1>4, <3>2, <4>2, <4>4
    <3>3. QED
      BY <1>3, <2>8, <3>1, <3>2
  <2>9. Ring!IndexOf(read_pos)' = Slot(Place')
    <3>1. Place' = Place
      BY <1>2, <1>5, FlowNext
    <3>2. read_pos' = read_pos
      BY <1>5 DEF Ring!Write
    <3>3. QED
      BY <1>4, <3>1, <3>2 DEF Ring!IndexOf
  <2>10. QED
    BY <1>1, <1>5, <2>8, <2>9 DEF StoreOK, Slot
<1>6. ASSUME NEW n \in Nat, pos' = pos, n <= a, Ring!Consume(n)
      PROVE  StoreOK'
  <2>1. Place' = Place + n /\ n \in 0 .. Cap
    BY <1>2, <1>3, <1>6, FlowNext
  <2>2. read_pos \in RP!Position
    BY <1>1, RingIs DEF RP!Position
  <2>3. Ring!IndexOf(read_pos') = RP!Around(Ring!IndexOf(read_pos), n)
    <3>1. read_pos' = RP!WrappingAdd(read_pos, n)
      BY <1>6, SameOperations DEF RP!Consume
    <3>2. RP!IndexOf(RP!WrappingAdd(read_pos, n)) = RP!Around(RP!IndexOf(read_pos), n)
      BY <1>1, <2>1, <2>2, RingAssumed, RP!IndexAdd DEF RP!Around
    <3>3. QED
      BY <3>1, <3>2, SameRing
  <2>4. Slot(Place + n) = RP!Around(Slot(Place), n)
    BY <1>3, <2>1, SlotAdd, Zenon
  <2>5. Ring!IndexOf(read_pos)' = Slot(Place')
    BY <1>4, <2>1, <2>3, <2>4 DEF Ring!IndexOf
  <2>6. buf' = buf
    BY <1>6 DEF Ring!Consume
  <2>7. QED
    BY <1>1, <1>4, <1>6, <2>5, <2>6 DEF StoreOK, Slot
<1>7. ASSUME pos' = pos, UNCHANGED ring PROVE StoreOK'
  <2>1. Place' = Place
    BY <1>7, FlowNext
  <2>2. buf' = buf /\ read_pos' = read_pos
    BY <1>7 DEF ring
  <2>3. QED
    BY <1>1, <1>4, <1>7, <2>1, <2>2 DEF StoreOK, Slot, Ring!IndexOf
<1>8. QED
  BY <1>2, <1>5, <1>6, <1>7

-----------------------------------------------------------------------------
(* The slices *)

\* The four fields of a payload: how long each is, after how many bytes of the
\* payload it starts, and which slice of a call is for it.
Fields == {"de", "meas", "timing", "parity"}

FieldLen(fr, x) ==
  CASE x = "de"     -> Len(fr.detector_events)
    [] x = "meas"   -> fr.ancilla_count
    [] x = "timing" -> TimingLen(fr)
    [] x = "parity" -> ParityLen(fr)

FieldStart(fr, x) ==
  CASE x = "de"     -> 0
    [] x = "meas"   -> FieldLen(fr, "de")
    [] x = "timing" -> FieldLen(fr, "de") + FieldLen(fr, "meas")
    [] x = "parity" -> (FieldLen(fr, "de") + FieldLen(fr, "meas")) + FieldLen(fr, "timing")

FieldSlice(c, x) ==
  CASE x = "de"     -> c.de
    [] x = "meas"   -> c.meas
    [] x = "timing" -> c.timing
    [] x = "parity" -> c.parity

\* The slice for the n bytes of the stream after its first q.
SliceOf(q, n) ==
  IF n = 0 THEN NoSlice
  ELSE IF Slot(q) + n <= Cap THEN [at |-> "ring", idx |-> Slot(q), len |-> n]
  ELSE [at |-> "scratch", idx |-> 0, len |-> n]

\* The slice is that one, and if it is of the scratch buffer, which crossing the
\* end of the store makes it, the bytes are there.
HeldAt(q, n, s, sc) ==
  /\ s = SliceOf(q, n)
  /\ Slot(q) + n > Cap => n <= Len(sc) /\ \A i \in 1..n : sc[i] = wire[q + i]

\* The payload of the frame at hand stands after the first q bytes of the stream,
\* the store has room for it still, its slices are right, and the frame ends where
\* it should unless the stream does.
PayloadAt(q) ==
  LET f == cur.f
      fr == frames[cur.f]
  IN  /\ Stands(StreamBytes(frames), q, FourFields(f, fr))
      /\ q + Len(FourFields(f, fr)) <= pos /\ pos <= q + Cap
      /\ \A x \in Fields :
            HeldAt(q + FieldStart(fr, x), FieldLen(fr, x), FieldSlice(cur, x), scratch)
      /\ Cut \/ EndAt(Place, pc, cur) = q + Len(FourFields(f, fr) \o Described(f, fr))

\* A call past the payload has its slices.
SlicesOK == pc \in Later => \E q \in Nat : PayloadAt(q)

\* The fields are laid one after the other.
LEMMA FieldsFollow ==
  ASSUME NEW f \in Nat, NEW fr \in Frame
  PROVE  /\ \A x \in Fields : FieldLen(fr, x) \in Nat /\ FieldStart(fr, x) \in Nat
         /\ \A x \in Fields : FieldStart(fr, x) + FieldLen(fr, x) <= Len(FourFields(f, fr))
         /\ Len(FourFields(f, fr)) \in Nat
         /\ \A stream, q : Len(stream) \in Nat /\ Stands(stream, q, FourFields(f, fr)) =>
              \A x \in Fields :
                 Stands(stream, q + FieldStart(fr, x), Bytes(f, x, 0, FieldLen(fr, x)))
<1>1. PICK n1, n2, n3, n4 : /\ n1 = Len(fr.detector_events) /\ n2 = fr.ancilla_count
                            /\ n3 = TimingLen(fr) /\ n4 = ParityLen(fr)
  OBVIOUS
<1>2. n1 \in Nat /\ n2 \in Nat /\ n3 \in Nat /\ n4 \in Nat
  BY <1>1, FrameLengths
<1>3. /\ FieldLen(fr, "de") = n1 /\ FieldLen(fr, "meas") = n2
      /\ FieldLen(fr, "timing") = n3 /\ FieldLen(fr, "parity") = n4
      /\ FieldStart(fr, "de") = 0 /\ FieldStart(fr, "meas") = n1
      /\ FieldStart(fr, "timing") = n1 + n2 /\ FieldStart(fr, "parity") = (n1 + n2) + n3
  BY <1>1 DEF FieldLen, FieldStart
<1>4. Len(FourFields(f, fr)) = ((n1 + n2) + n3) + n4
  BY <1>1, <1>2, PayloadIs
<1>5. \A x \in Fields : FieldLen(fr, x) \in Nat /\ FieldStart(fr, x) \in Nat
  BY <1>2, <1>3 DEF Fields
<1>6. \A x \in Fields : FieldStart(fr, x) + FieldLen(fr, x) <= Len(FourFields(f, fr))
  BY <1>2, <1>3, <1>4 DEF Fields
<1>7. ASSUME NEW stream, NEW q, Len(stream) \in Nat, Stands(stream, q, FourFields(f, fr)),
             NEW x \in Fields
      PROVE  Stands(stream, q + FieldStart(fr, x), Bytes(f, x, 0, FieldLen(fr, x)))
  <2>1. PICK S, a, b, c, d : /\ S = BodyByte(f, fr)
                             /\ a = Bytes(f, "de", 0, n1) /\ b = Bytes(f, "meas", 0, n2)
                             /\ c = Bytes(f, "timing", 0, n3) /\ d = Bytes(f, "parity", 0, n4)
    OBVIOUS
  <2>2. a \in Seq(S) /\ b \in Seq(S) /\ c \in Seq(S) /\ d \in Seq(S)
    <3>1. \A part \in Parts \ {"file_header", "header", "tag"} : \A n \in Nat :
             Bytes(f, part, 0, n) \in Seq(S)
      BY <2>1, PartBytes
    <3>2. QED
      BY <1>2, <2>1, <3>1 DEF Parts
  <2>3. Len(a) = n1 /\ Len(b) = n2 /\ Len(c) = n3
    BY <1>2, <2>1, BytesAre
  <2>4. PICK y, z : z = c \o d /\ y = b \o z
    OBVIOUS
  <2>5. z \in Seq(S) /\ y \in Seq(S)
    <3>1. z \in Seq(S)
      BY <2>2, <2>4, ConcatProperties
    <3>2. QED
      BY <2>2, <2>4, <3>1, ConcatProperties
  <2>6. FourFields(f, fr) = a \o y
    BY <1>1, <2>1, <2>4 DEF FourFields
  <2>7. q \in Nat
    BY <1>7 DEF Stands
  <2>8. Stands(stream, q, a) /\ Stands(stream, q + n1, y)
    <3>1. Stands(stream, q, a \o y)
      BY <1>7, <2>6
    <3>2. QED
      BY <1>7, <2>2, <2>3, <2>5, <2>7, <3>1, StandsConcat
  <2>9. Stands(stream, q + n1, b) /\ Stands(stream, (q + n1) + n2, z)
    <3>1. q + n1 \in Nat
      BY <1>2, <2>7
    <3>2. Stands(stream, q + n1, b \o z)
      BY <2>4, <2>8
    <3>3. QED
      BY <1>7, <2>2, <2>3, <2>5, <3>1, <3>2, StandsConcat
  <2>10. Stands(stream, (q + n1) + n2, c) /\ Stands(stream, ((q + n1) + n2) + n3, d)
    <3>1. (q + n1) + n2 \in Nat
      BY <1>2, <2>7
    <3>2. Stands(stream, (q + n1) + n2, c \o d)
      BY <2>4, <2>9
    <3>3. QED
      BY <1>7, <2>2, <2>3, <3>1, <3>2, StandsConcat
  <2>11. /\ q + 0 = q /\ q + (n1 + n2) = (q + n1) + n2
         /\ q + ((n1 + n2) + n3) = ((q + n1) + n2) + n3
    BY <1>2, <2>7
  <2>12. CASE x = "de"
    BY <1>3, <2>1, <2>8, <2>11, <2>12
  <2>13. CASE x = "meas"
    BY <1>3, <2>1, <2>9, <2>13
  <2>14. CASE x = "timing"
    BY <1>3, <2>1, <2>10, <2>11, <2>14
  <2>15. CASE x = "parity"
    BY <1>3, <2>1, <2>10, <2>11, <2>15
  <2>16. QED
    BY <2>12, <2>13, <2>14, <2>15 DEF Fields
<1>8. Len(FourFields(f, fr)) \in Nat
  BY <1>2, <1>4
<1>9. QED
  BY <1>5, <1>6, <1>7, <1>8

\* What a slice reads as.
LEMMA DerefIs ==
  ASSUME PeerOK, RingOK, StoreOK, buf' = buf, scratch' = scratch, scratch \in Seq(AnyByte),
         NEW q \in Nat, NEW n \in Nat, q + n <= pos, pos <= q + Cap,
         NEW s, HeldAt(q, n, s, scratch)
  PROVE  Deref(s) = [i \in 1..n |-> wire[q + i]]
<1>1. Cap \in Nat \ {0} /\ Slot(q) \in 0 .. (Cap - 1) /\ pos \in Nat /\ n <= Cap
  <2>1. Cap \in Nat \ {0} /\ 0 \in 0 .. Cap
    BY StreamAssumption
  <2>2. Slot(q) \in 0 .. (Cap - 1)
    BY <2>1, SlotAdd
  <2>3. pos \in Nat
    BY LenProperties DEF RingOK
  <2>4. QED
    BY <2>1, <2>2, <2>3
<1>2. CASE n = 0
  <2>1. s.at = "static"
    BY <1>2 DEF HeldAt, SliceOf, NoSlice
  <2>2. Deref(s) = << >>
    BY <2>1 DEF Deref
  <2>3. [i \in 1..n |-> wire[q + i]] = << >>
    BY <1>2
  <2>4. QED
    BY <2>2, <2>3
<1>3. CASE n # 0 /\ Slot(q) + n <= Cap
  <2>1. s = [at |-> "ring", idx |-> Slot(q), len |-> n]
    BY <1>3 DEF HeldAt, SliceOf
  <2>2. Deref(s) = [i \in 1..n |-> buf[Slot(q) + i - 1]]
    BY <2>1 DEF Deref
  <2>3. ASSUME NEW i \in 1..n PROVE buf[Slot(q) + i - 1] = wire[q + i]
    <3>1. PICK r, k : r = Slot(q) /\ k = i - 1
      OBVIOUS
    <3>2. k \in 0 .. Cap /\ r + k < Cap /\ Slot(q) + i - 1 = r + k /\ (q + k) + 1 = q + i
      BY <1>1, <1>3, <2>3, <3>1
    <3>3. Slot(q + k) = r + k
      BY <3>1, <3>2, SlotAdd
    <3>4. q + k \in Nat /\ q + k < pos /\ pos <= (q + k) + Cap
      BY <1>1, <2>3, <3>1
    <3>5. buf[Slot(q + k)] = wire[(q + k) + 1]
      BY <3>4 DEF StoreOK
    <3>6. QED
      BY <3>2, <3>3, <3>5
  <2>4. QED
    BY <2>2, <2>3, Zenon
<1>4. CASE n # 0 /\ Slot(q) + n > Cap
  <2>1. s = [at |-> "scratch", idx |-> 0, len |-> n]
    BY <1>1, <1>4 DEF HeldAt, SliceOf
  <2>2. Deref(s) = SubSeq(scratch, 1, n)
    BY <2>1 DEF Deref
  <2>3. n <= Len(scratch) /\ \A i \in 1..n : scratch[i] = wire[q + i]
    BY <1>4 DEF HeldAt
  <2>4. SubSeq(scratch, 1, n) = [i \in 1..n |-> scratch[i]]
    BY <2>3
  <2>5. QED
    BY <2>2, <2>3, <2>4, Zenon
<1>5. QED
  BY <1>1, <1>2, <1>3, <1>4

\* A field is borrowed from where it stands.
LEMMA FieldBorrowed ==
  ASSUME Aligned, PeerOK, RingOK, StoreOK,
         NEW p \in 0 .. (Modulus - 1), NEW q \in Nat, Ring!IndexOf(p) = Slot(q),
         NEW n \in Nat, q + n <= pos, pos <= q + Cap, NEW s \in Seq(AnyByte), Len(s) <= Cap
  PROVE  /\ HeldAt(q, n, SliceAt(p, n), ScratchAfter(s, p, n))
         /\ Slot(q) + n <= Cap => ScratchAfter(s, p, n) = s
         /\ ScratchAfter(s, p, n) \in Seq(AnyByte) /\ Len(ScratchAfter(s, p, n)) <= Cap
         /\ Ring!WrappingAdd(p, n) \in 0 .. (Modulus - 1)
         /\ Ring!IndexOf(Ring!WrappingAdd(p, n)) = Slot(q + n)
<1>1. PICK r : r = Slot(q)
  OBVIOUS
<1>2. /\ Cap \in Nat \ {0} /\ r \in 0 .. (Cap - 1) /\ pos \in Nat /\ n <= Cap /\ n \in 0 .. Cap
      /\ Modulus \in Nat /\ p \in Int
  <2>1. Cap \in Nat \ {0} /\ 0 \in 0 .. Cap /\ Modulus \in Nat
    BY StreamAssumption
  <2>2. r \in 0 .. (Cap - 1)
    BY <1>1, <2>1, SlotAdd
  <2>3. pos \in Nat
    BY LenProperties DEF RingOK
  <2>4. QED
    BY <2>1, <2>2, <2>3
<1>3. RP!IndInv /\ RP!Aligned
  BY DEF RingOK, Aligned, RP!Aligned
<1>4. Ring!IndexOf(p) = r /\ p % Cap = r /\ (RingAt(p)!Contiguous(n) <=> r + n <= Cap)
  BY <1>1 DEF RingAt!Contiguous, RingAt!IndexOf, Ring!IndexOf
<1>5. SliceAt(p, n) = SliceOf(q, n)
  <2>1. CASE n = 0
    BY <1>2, <2>1 DEF SliceAt, SliceOf
  <2>2. CASE n > 0 /\ r + n <= Cap
    BY <1>1, <1>2, <1>4, <2>2 DEF SliceAt, SliceOf
  <2>3. CASE n > 0 /\ ~ (r + n <= Cap)
    BY <1>1, <1>2, <1>4, <2>3 DEF SliceAt, SliceOf
  <2>4. QED
    BY <1>2, <2>1, <2>2, <2>3
<1>6. r + n <= Cap => ScratchAfter(s, p, n) = s
  BY <1>4 DEF ScratchAfter
<1>7. ASSUME r + n > Cap
      PROVE  /\ n <= Len(ScratchAfter(s, p, n))
             /\ \A i \in 1..n : ScratchAfter(s, p, n)[i] = wire[q + i]
  <2>1. PICK w : w = [i \in 1..n |-> IF i <= Cap - r THEN buf[r + i - 1] ELSE buf[i - (Cap - r) - 1]]
    OBVIOUS
  <2>2. ScratchAfter(s, p, n) = w
    <3>1. ~ RingAt(p)!Contiguous(n)
      BY <1>2, <1>4, <1>7
    <3>2. QED
      BY <1>4, <2>1, <3>1 DEF ScratchAfter, RingAt!PeekWrapped, RingAt!IndexOf
  <2>3. ASSUME NEW i \in 1..n PROVE w[i] = wire[q + i]
    <3>1. PICK k : k = i - 1
      OBVIOUS
    <3>2. k \in 0 .. Cap /\ (q + k) + 1 = q + i /\ q + k \in Nat /\ q + k < pos /\ pos <= (q + k) + Cap
      BY <1>2, <2>3, <3>1
    <3>3. Slot(q + k) = IF r + k < Cap THEN r + k ELSE (r + k) - Cap
      BY <1>1, <3>2, SlotAdd
    <3>4. buf[Slot(q + k)] = wire[q + i]
      BY <3>2 DEF StoreOK
    <3>5. CASE i <= Cap - r
      <4>1. r + i - 1 = r + k /\ r + k < Cap
        BY <1>2, <3>1, <3>5
      <4>2. QED
        BY <2>1, <3>3, <3>4, <3>5, <4>1
    <3>6. CASE ~ (i <= Cap - r)
      <4>1. i - (Cap - r) - 1 = (r + k) - Cap /\ ~ (r + k < Cap)
        BY <1>2, <3>1, <3>6
      <4>2. QED
        BY <2>1, <3>3, <3>4, <3>6, <4>1
    <3>7. QED
      BY <3>5, <3>6
  <2>4. Len(w) = n
    BY <1>2, <2>1
  <2>5. QED
    BY <1>2, <2>2, <2>3, <2>4
<1>8. HeldAt(q, n, SliceAt(p, n), ScratchAfter(s, p, n))
  BY <1>1, <1>5, <1>7 DEF HeldAt
<1>9. ScratchAfter(s, p, n) \in Seq(AnyByte) /\ Len(ScratchAfter(s, p, n)) <= Cap
  BY <1>2, <1>3, BorrowedIs
<1>10. p \in RP!Position
  BY DEF RP!Position
<1>11. Ring!WrappingAdd(p, n) \in 0 .. (Modulus - 1)
  <2>1. RP!WrappingAdd(p, n) \in RP!Position
    BY <1>2, <1>10, RingAssumed, RP!AddPosition
  <2>2. QED
    BY <2>1 DEF RP!Position, RP!WrappingAdd, Ring!WrappingAdd
<1>12. Ring!IndexOf(Ring!WrappingAdd(p, n)) = Slot(q + n)
  <2>1. RP!IndexOf(RP!WrappingAdd(p, n)) = RP!Around(RP!IndexOf(p), n)
    BY <1>2, <1>3, <1>10, RingAssumed, RP!IndexAdd DEF RP!Around
  <2>2. Slot(q + n) = RP!Around(Slot(q), n)
    BY <1>2, SlotAdd, Zenon
  <2>3. RP!WrappingAdd(p, n) = Ring!WrappingAdd(p, n)
    BY DEF RP!WrappingAdd, Ring!WrappingAdd
  <2>4. QED
    BY <2>1, <2>2, <2>3, SameRing
<1>13. QED
  BY <1>1, <1>6, <1>8, <1>9, <1>11, <1>12

\* Of the fields of a payload one at most crosses the end of the store, so the one
\* scratch buffer is enough for them.
LEMMA HeldOn ==
  ASSUME NEW q \in Nat, NEW n \in Nat, NEW s, NEW sc, HeldAt(q, n, s, sc),
         NEW q2 \in Nat, NEW n2 \in Nat, q + n <= q2, q2 + n2 <= q + Cap,
         NEW sc2, Slot(q2) + n2 <= Cap => sc2 = sc
  PROVE  HeldAt(q, n, s, sc2)
<1>1. PICK r, k : r = Slot(q) /\ k = q2 - q
  OBVIOUS
<1>2. Cap \in Nat \ {0} /\ k \in 0 .. Cap /\ n <= k /\ k + n2 <= Cap /\ q + k = q2
  <2>1. Cap \in Nat \ {0}
    BY StreamAssumption
  <2>2. QED
    BY <1>1, <2>1
<1>3. r \in 0 .. (Cap - 1) /\ Slot(q2) = IF r + k < Cap THEN r + k ELSE (r + k) - Cap
  BY <1>1, <1>2, SlotAdd
<1>4. CASE r + n > Cap
  <2>1. Slot(q2) + n2 <= Cap
    BY <1>2, <1>3, <1>4
  <2>2. QED
    BY <2>1
<1>5. CASE ~ (r + n > Cap)
  BY <1>1, <1>5 DEF HeldAt
<1>6. QED
  BY <1>4, <1>5

\* What a step has to leave for the next call's slices to be right.
LEMMA PayloadMoves ==
  ASSUME UNCHANGED peer, NEW q \in Nat, NEW f, NEW fr, f = cur'.f, fr = frames[f],
         Stands(StreamBytes(frames), q, FourFields(f, fr)),
         q + Len(FourFields(f, fr)) <= pos', pos' <= q + Cap,
         \A x \in Fields :
            HeldAt(q + FieldStart(fr, x), FieldLen(fr, x), FieldSlice(cur', x), scratch'),
         Cut' \/ EndAt(Place', pc', cur') = q + Len(FourFields(f, fr) \o Described(f, fr))
  PROVE  PayloadAt(q)'
<1>1. frames' = frames /\ wire' = wire /\ frames'[cur'.f] = fr
  BY DEF peer
<1>2. EndAt(Place, pc, cur)' = EndAt(Place', pc', cur')
  BY <1>1 DEF EndAt, DueAt
<1>3. \A s : \A x \in Fields :
         HeldAt(q + FieldStart(fr, x), FieldLen(fr, x), s, scratch')
           => HeldAt(q + FieldStart(fr, x), FieldLen(fr, x), s, scratch)'
  BY <1>1 DEF HeldAt
<1>4. QED
  BY <1>1, <1>2, <1>3 DEF PayloadAt, HeldAt, Stands

\* The payload is borrowed as it stands.
LEMMA PayloadSlices ==
  ASSUME Here, StoreOK, OnTrackAt(Place, pc, cur), Payload
  PROVE  \E q \in Nat : PayloadAt(q)'
<1>1. PICK f, fr, q : f = cur.f /\ fr = frames[cur.f] /\ q = Place
  OBVIOUS
<1>2. pc = "payload" /\ pc \in BodySites
  BY DEF Payload, Filled, BodySites, Sites
<1>3. f \in Nat /\ fr \in Frame /\ cur \in Locals /\ CurFrame = fr
  BY <1>1, <1>2, FrameAtHand DEF Here, CurFrame
<1>4. cur.len = Len(fr.detector_events)
  BY <1>1, <1>2 DEF OnTrackAt, KnowsAt
<1>5. PICK n1, n2, n3, n4 : /\ n1 = cur.len /\ n2 = CurFrame.ancilla_count
                            /\ n3 = TimingLen(CurFrame) /\ n4 = ParityLen(CurFrame)
  OBVIOUS
<1> DEFINE p1 == read_pos
           p2 == Ring!WrappingAdd(p1, n1)
           p3 == Ring!WrappingAdd(p2, n2)
           p4 == Ring!WrappingAdd(p3, n3)
           s1 == ScratchAfter(scratch, p1, n1)
           s2 == ScratchAfter(s1, p2, n2)
           s3 == ScratchAfter(s2, p3, n3)
           s4 == ScratchAfter(s3, p4, n4)
<1>6. /\ n1 \in Nat /\ n2 \in Nat /\ n3 \in Nat /\ n4 \in Nat
      /\ PayloadLen = ((n1 + n2) + n3) + n4
      /\ Len(FourFields(f, fr)) = ((n1 + n2) + n3) + n4
  <2>1. n1 \in Nat /\ n2 \in Nat /\ n3 \in Nat /\ n4 \in Nat
    BY <1>3, <1>4, <1>5, FrameLengths
  <2>2. Len(FourFields(f, fr)) = ((n1 + n2) + n3) + n4
    BY <1>3, <1>4, <1>5, <2>1, PayloadIs
  <2>3. PayloadLen = ((n1 + n2) + n3) + n4
    BY <1>5, <2>1 DEF PayloadLen
  <2>4. QED
    BY <2>1, <2>2, <2>3
<1>7. /\ cur' = [cur EXCEPT !.de = SliceAt(p1, n1), !.meas = SliceAt(p2, n2),
                            !.timing = SliceAt(p3, n3), !.parity = SliceAt(p4, n4)]
      /\ scratch' = s4
      /\ UNCHANGED peer /\ pos' = pos
  BY <1>5 DEF Payload
<1>8. /\ q \in Nat /\ pos \in Nat /\ Cap \in Nat /\ pos <= q + Cap
      /\ q + (((n1 + n2) + n3) + n4) <= pos
  <2>1. /\ pos \in Nat /\ Place \in Nat /\ Ring!available_read \in 0 .. Cap /\ Cap \in Nat
        /\ Place + Ring!available_read = pos
    BY PlaceIs DEF Here
  <2>2. PayloadLen <= Ring!available_read
    BY <1>2 DEF Payload, Filled, Needed
  <2>3. QED
    BY <1>1, <1>6, <2>1, <2>2
<1>9. PICK q2, q3, q4 : q2 = q + n1 /\ q3 = q2 + n2 /\ q4 = q3 + n3
  OBVIOUS
<1>10. /\ q2 \in Nat /\ q3 \in Nat /\ q4 \in Nat
       /\ q + n1 <= pos /\ q2 + n2 <= pos /\ q3 + n3 <= pos /\ q4 + n4 <= pos
       /\ pos <= q2 + Cap /\ pos <= q3 + Cap /\ pos <= q4 + Cap
  BY <1>6, <1>8, <1>9
<1>11. /\ p1 \in 0 .. (Modulus - 1) /\ Ring!IndexOf(p1) = Slot(q)
       /\ scratch \in Seq(AnyByte) /\ Len(scratch) <= Cap
  BY <1>1, RingIs DEF Here, RingOK, CallOK, StoreOK
<1>12. Aligned /\ PeerOK /\ RingOK
  BY DEF Here
<1>13. /\ HeldAt(q, n1, SliceAt(p1, n1), s1)
       /\ s1 \in Seq(AnyByte) /\ Len(s1) <= Cap
       /\ p2 \in 0 .. (Modulus - 1) /\ Ring!IndexOf(p2) = Slot(q2)
  <2>1. /\ HeldAt(q, n1, SliceAt(p1, n1), s1)
        /\ s1 \in Seq(AnyByte) /\ Len(s1) <= Cap
        /\ p2 \in 0 .. (Modulus - 1) /\ Ring!IndexOf(p2) = Slot(q + n1)
    BY <1>6, <1>8, <1>10, <1>11, <1>12, FieldBorrowed
  <2>2. QED
    BY <1>9, <2>1
<1> HIDE DEF s1, p2
<1>14. /\ HeldAt(q2, n2, SliceAt(p2, n2), s2)
       /\ Slot(q2) + n2 <= Cap => s2 = s1
       /\ s2 \in Seq(AnyByte) /\ Len(s2) <= Cap
       /\ p3 \in 0 .. (Modulus - 1) /\ Ring!IndexOf(p3) = Slot(q3)
  <2>1. /\ HeldAt(q2, n2, SliceAt(p2, n2), s2)
        /\ Slot(q2) + n2 <= Cap => s2 = s1
        /\ s2 \in Seq(AnyByte) /\ Len(s2) <= Cap
        /\ p3 \in 0 .. (Modulus - 1) /\ Ring!IndexOf(p3) = Slot(q2 + n2)
    BY <1>6, <1>10, <1>12, <1>13, FieldBorrowed
  <2>2. QED
    BY <1>9, <2>1
<1> HIDE DEF s2, p3
<1>15. /\ HeldAt(q3, n3, SliceAt(p3, n3), s3)
       /\ Slot(q3) + n3 <= Cap => s3 = s2
       /\ s3 \in Seq(AnyByte) /\ Len(s3) <= Cap
       /\ p4 \in 0 .. (Modulus - 1) /\ Ring!IndexOf(p4) = Slot(q4)
  <2>1. /\ HeldAt(q3, n3, SliceAt(p3, n3), s3)
        /\ Slot(q3) + n3 <= Cap => s3 = s2
        /\ s3 \in Seq(AnyByte) /\ Len(s3) <= Cap
        /\ p4 \in 0 .. (Modulus - 1) /\ Ring!IndexOf(p4) = Slot(q3 + n3)
    BY <1>6, <1>10, <1>12, <1>14, FieldBorrowed
  <2>2. QED
    BY <1>9, <2>1
<1> HIDE DEF s3, p4
<1>16. /\ HeldAt(q4, n4, SliceAt(p4, n4), s4)
       /\ Slot(q4) + n4 <= Cap => s4 = s3
  BY <1>6, <1>10, <1>12, <1>15, FieldBorrowed
<1> HIDE DEF s4
<1>17. /\ q + n1 <= q2 /\ q2 + n2 <= q3 /\ q3 + n3 <= q4
       /\ q + n1 <= q3 /\ q + n1 <= q4 /\ q2 + n2 <= q4
       /\ q2 + n2 <= q + Cap /\ q3 + n3 <= q + Cap /\ q4 + n4 <= q + Cap
       /\ q3 + n3 <= q2 + Cap /\ q4 + n4 <= q2 + Cap /\ q4 + n4 <= q3 + Cap
  BY <1>6, <1>8, <1>9, <1>10
<1>18. HeldAt(q, n1, SliceAt(p1, n1), s4)
  <2>1. HeldAt(q, n1, SliceAt(p1, n1), s2)
    BY <1>6, <1>8, <1>10, <1>13, <1>14, <1>17, HeldOn
  <2>2. HeldAt(q, n1, SliceAt(p1, n1), s3)
    BY <1>6, <1>8, <1>10, <1>15, <1>17, <2>1, HeldOn
  <2>3. QED
    BY <1>6, <1>8, <1>10, <1>16, <1>17, <2>2, HeldOn
<1>19. HeldAt(q2, n2, SliceAt(p2, n2), s4)
  <2>1. HeldAt(q2, n2, SliceAt(p2, n2), s3)
    BY <1>6, <1>10, <1>14, <1>15, <1>17, HeldOn
  <2>2. QED
    BY <1>6, <1>10, <1>16, <1>17, <2>1, HeldOn
<1>20. HeldAt(q3, n3, SliceAt(p3, n3), s4)
  BY <1>6, <1>10, <1>15, <1>16, <1>17, HeldOn
<1>21. /\ cur'.f = f /\ cur'.de = SliceAt(p1, n1) /\ cur'.meas = SliceAt(p2, n2)
       /\ cur'.timing = SliceAt(p3, n3) /\ cur'.parity = SliceAt(p4, n4)
  BY <1>1, <1>3, <1>7 DEF Locals
<1>22. ASSUME NEW x \in Fields
       PROVE  HeldAt(q + FieldStart(fr, x), FieldLen(fr, x), FieldSlice(cur', x), s4)
  <2>1. /\ FieldLen(fr, "de") = n1 /\ FieldLen(fr, "meas") = n2
        /\ FieldLen(fr, "timing") = n3 /\ FieldLen(fr, "parity") = n4
    BY <1>3, <1>4, <1>5 DEF FieldLen
  <2>2. /\ q + FieldStart(fr, "de") = q /\ q + FieldStart(fr, "meas") = q2
        /\ q + FieldStart(fr, "timing") = q3 /\ q + FieldStart(fr, "parity") = q4
    <3>1. /\ FieldStart(fr, "de") = 0 /\ FieldStart(fr, "meas") = n1
          /\ FieldStart(fr, "timing") = n1 + n2 /\ FieldStart(fr, "parity") = (n1 + n2) + n3
      BY <2>1 DEF FieldStart
    <3>2. QED
      BY <1>6, <1>8, <1>9, <3>1
  <2>3. /\ FieldSlice(cur', "de") = SliceAt(p1, n1) /\ FieldSlice(cur', "meas") = SliceAt(p2, n2)
        /\ FieldSlice(cur', "timing") = SliceAt(p3, n3)
        /\ FieldSlice(cur', "parity") = SliceAt(p4, n4)
    BY <1>21 DEF FieldSlice
  <2>4. x \in {"de", "meas", "timing", "parity"}
    BY DEF Fields
  <2>5. QED
    BY <1>16, <1>18, <1>19, <1>20, <2>1, <2>2, <2>3, <2>4
<1>23. /\ Stands(StreamBytes(frames), q, FourFields(f, fr))
       /\ EndAt(Place', pc', cur') = q + Len(FourFields(f, fr) \o Described(f, fr))
  <2>1. DueAt(pc, cur) = FourFields(f, fr) \o Described(f, fr)
    BY <1>1, <1>2 DEF DueAt
  <2>2. EndAt(Place', pc', cur') = q + Len(FourFields(f, fr) \o Described(f, fr))
    BY <1>1, <2>1, PayloadTracks DEF EndAt
  <2>3. PICK S, a, b : S = BodyByte(f, fr) /\ a = FourFields(f, fr) /\ b = Described(f, fr)
    OBVIOUS
  <2>4. a \in Seq(S) /\ b \in Seq(S)
    BY <1>3, <2>3, BodyBytes
  <2>5. Len(StreamBytes(frames)) \in Nat /\ Stands(StreamBytes(frames), q, a \o b)
    BY <1>1, <2>1, <2>3, PlaceIs DEF Here, OnTrackAt
  <2>6. Stands(StreamBytes(frames), q, a)
    BY <1>8, <2>4, <2>5, StandsConcat
  <2>7. QED
    BY <2>2, <2>3, <2>6
<1>24. q + Len(FourFields(f, fr)) <= pos' /\ pos' <= q + Cap
  BY <1>6, <1>7, <1>8
<1>25. f = cur'.f /\ fr = frames[f] /\ scratch' = s4
  BY <1>1, <1>7, <1>21
<1>26. PayloadAt(q)'
  BY <1>7, <1>8, <1>22, <1>23, <1>24, <1>25, PayloadMoves
<1>27. QED
  BY <1>8, <1>26

\* A payload and what follows it in its frame fit in the store with a read on top,
\* for every frame: while a call waits for the last of them, the first stays.
Short ==
  \A s \in Streams : \A f \in DOMAIN s.frames :
     Fits(Len(FourFields(f, s.frames[f]) \o Described(f, s.frames[f])))

\* The payload's place stays the same until the call ends.
LEMMA PayloadStays ==
  ASSUME Here, UNCHANGED peer, SameSlices, scratch' = scratch, pc \in Later,
         NEW q \in Nat, PayloadAt(q), pos' \in Nat, pos <= pos', pos' <= q + Cap,
         Cut' \/ (~ Cut /\ EndAt(Place', pc', cur') = EndAt(Place, pc, cur))
  PROVE  PayloadAt(q)'
<1>1. PICK f, fr : f = cur.f /\ fr = frames[cur.f]
  OBVIOUS
<1>2. pc \in BodySites
  BY DEF Later, BodySites, Sites
<1>3. f \in Nat /\ fr \in Frame
  BY <1>1, <1>2, FrameAtHand DEF Here
<1>4. Len(FourFields(f, fr)) \in Nat /\ pos \in Nat
  BY <1>3, FieldsFollow, PlaceIs DEF Here
<1>5. /\ Stands(StreamBytes(frames), q, FourFields(f, fr))
      /\ q + Len(FourFields(f, fr)) <= pos
      /\ \A x \in Fields :
            HeldAt(q + FieldStart(fr, x), FieldLen(fr, x), FieldSlice(cur, x), scratch)
      /\ Cut \/ EndAt(Place, pc, cur) = q + Len(FourFields(f, fr) \o Described(f, fr))
  BY <1>1 DEF PayloadAt
<1>6. q + Len(FourFields(f, fr)) <= pos'
  BY <1>4, <1>5
<1>7. \A x \in Fields : FieldSlice(cur', x) = FieldSlice(cur, x)
  BY DEF SameSlices, FieldSlice
<1>8. \A x \in Fields :
         HeldAt(q + FieldStart(fr, x), FieldLen(fr, x), FieldSlice(cur', x), scratch')
  BY <1>5, <1>7
<1>9. f = cur'.f /\ fr = frames[f]
  BY <1>1 DEF SameSlices
<1>10. Cut' \/ EndAt(Place', pc', cur') = q + Len(FourFields(f, fr) \o Described(f, fr))
  BY <1>5
<1>11. QED
  BY <1>5, <1>6, <1>8, <1>9, <1>10, PayloadMoves

\* No read overwrites a payload that is borrowed.
LEMMA ReadSpares ==
  ASSUME Roomy, Short, Here, InStep, Read, pc \in Later, pc' \in Later,
         NEW q \in Nat, PayloadAt(q)
  PROVE  PayloadAt(q)'
<1>1. PICK f, fr, L : /\ f = cur.f /\ fr = frames[cur.f]
                      /\ L = Len(FourFields(f, fr) \o Described(f, fr))
  OBVIOUS
<1>2. pc \in BodySites
  BY DEF Later, BodySites, Sites
<1>3. f \in Nat /\ f \in 1 .. Len(frames) /\ fr \in Frame
  BY <1>1, <1>2, FrameAtHand DEF Here
<1>4. /\ Place' = Place /\ pos' \in Nat /\ pos <= pos' /\ pos' <= pos + Chunk
      /\ Ring!available_read < Needed /\ ~ Cut
  BY ReadKeeps
<1>5. UNCHANGED peer /\ pc' = pc /\ cur' = cur /\ scratch' = scratch /\ SameSlices
  <2>1. ~ Fail
    BY DEF Fail, Return, Later
  <2>2. UNCHANGED peer /\ pc' = pc /\ cur' = cur /\ scratch' = scratch
    BY <2>1 DEF Read
  <2>3. QED
    BY <2>2 DEF SameSlices
<1>6. OnTrackAt(Place, pc, cur)
  BY <1>2, <1>4 DEF InStep
<1>7. Needed \in Nat /\ Len(DueAt(pc, cur)) \in Nat /\ Needed <= Len(DueAt(pc, cur))
  BY <1>6, NeededIsDue DEF Here
<1>8. /\ Place \in Nat /\ Ring!available_read \in Nat /\ pos \in Nat
      /\ Place + Ring!available_read = pos
  BY PlaceIs DEF Here
<1>9. EndAt(Place, pc, cur) = q + L /\ EndAt(Place, pc, cur) = Place + Len(DueAt(pc, cur))
  BY <1>1, <1>4 DEF PayloadAt, EndAt
<1>10. L \in Nat
  <2>1. PICK S, a, b : S = BodyByte(f, fr) /\ a = FourFields(f, fr) /\ b = Described(f, fr)
    OBVIOUS
  <2>2. a \in Seq(S) /\ b \in Seq(S)
    BY <1>3, <2>1, BodyBytes
  <2>3. a \o b \in Seq(S)
    BY <2>2, ConcatProperties
  <2>4. QED
    BY <1>1, <2>1, <2>3, LenProperties
<1>11. L + Chunk <= Cap + 1 /\ Chunk \in Nat /\ Cap \in Nat
  <2>1. PICK s : s = [frames |-> frames, schema |-> schema]
    OBVIOUS
  <2>2. s \in Streams /\ s.frames = frames /\ f \in DOMAIN s.frames /\ s.frames[f] = fr
    BY <1>1, <1>3, <2>1, LenProperties DEF Here, PeerOK
  <2>3. Fits(L)
    BY <1>1, <2>2 DEF Short
  <2>4. QED
    BY <2>3, StreamAssumption DEF Fits
<1>12. pos' <= q + Cap
  BY <1>4, <1>7, <1>8, <1>9, <1>10, <1>11
<1>13. EndAt(Place', pc', cur') = EndAt(Place, pc, cur)
  BY <1>4, <1>5
<1>14. QED
  BY <1>4, <1>5, <1>12, <1>13, PayloadStays

\* The slices of a call are right as long as it has them.
LEMMA SlicesNext ==
  ASSUME Roomy, Short, Here, InStep, StoreOK, SlicesOK, Next
  PROVE  SlicesOK'
<1>1. SUFFICES ASSUME pc' \in Later PROVE \E q \in Nat : PayloadAt(q)'
  BY DEF SlicesOK
<1>2. UNCHANGED peer
  BY StepOfRing DEF Here
<1>3. "idle" \notin Later /\ Later \subseteq BodySites
  BY DEF Later, BodySites, Sites
<1>4. CASE pc \in Later
  <2>1. PICK q \in Nat : PayloadAt(q)
    BY <1>4 DEF SlicesOK
  <2>2. SameSlices /\ scratch' = scratch /\ (Read \/ (pos' = pos /\ buf' = buf))
    BY <1>1, <1>3, <1>4, StaysLater DEF Here
  <2>3. CASE Read
    BY <1>1, <1>4, <2>1, <2>3, ReadSpares
  <2>4. CASE ~ Read
    <3>1. pos' = pos /\ pos' \in Nat /\ pos <= pos' /\ pos' <= q + Cap
      <4>1. pos' = pos /\ pos \in Nat
        BY <2>2, <2>4, PlaceIs DEF Here
      <4>2. QED
        BY <2>1, <4>1 DEF PayloadAt
    <3>2. ASSUME Cut PROVE Cut'
      BY <1>2, <3>1, <3>2 DEF Cut, peer
    <3>3. ASSUME ~ Cut PROVE EndAt(Place', pc', cur') = EndAt(Place, pc, cur)
      <4>1. OnTrackAt(Place, pc, cur) /\ pc' \in BodySites
        BY <1>1, <1>3, <1>4, <3>3 DEF InStep
      <4>2. CASE TagCount \/ Tag \/ Value \/ Annotations
        BY <4>1, <4>2, TagCountTracks, TagTracks, ValueTracks, AnnotationsTrack
      <4>3. CASE Count
        BY <4>1, <4>3, CountTracks
      <4>4. CASE EndOfStream
        <5>1. pc \in {"tag", "value"}
          BY <1>1, <1>3, <4>4 DEF EndOfStream, Return, Fail, Yield
        <5>2. QED
          BY <3>3, <4>4, <5>1, OutOfStream
      <4>5. CASE Call \/ ReadError \/ Cancel
        BY <1>1, <1>3, <1>4, <4>5 DEF Call, ReadError, Cancel, FailUntouched, Fail, Return
      <4>6. CASE FileHeader \/ FrameHeader \/ DeLen \/ Payload
        BY <1>4, <4>6 DEF FileHeader, FrameHeader, DeLen, Payload, Filled, Later
      <4>7. CASE Terminator
        BY <1>1, <1>3, <4>7 DEF Terminator, Yield, Fail, Return
      <4>8. QED
        BY <2>4, <4>2, <4>3, <4>4, <4>5, <4>6, <4>7 DEF Next, Parse
    <3>4. PayloadAt(q)'
      BY <1>2, <1>4, <2>1, <2>2, <3>1, <3>2, <3>3, PayloadStays
    <3>5. QED
      BY <3>4
  <2>5. QED
    BY <2>3, <2>4
<1>5. CASE pc \notin Later
  <2>1. Payload
    <3>1. CASE Call \/ Read \/ EndOfStream \/ ReadError \/ Cancel
      BY <1>1, <1>5, <3>1 DEF Call, Read, EndOfStream, ReadError, Cancel, FailUntouched, Fail, Return,
                              Yield, Later
    <3>2. CASE FileHeader \/ FrameHeader \/ DeLen
      BY <1>1, <3>2 DEF FileHeader, FrameHeader, DeLen, FailUntouched, Fail, Return, Filled, Later
    <3>3. CASE TagCount \/ Tag \/ Value \/ Count \/ Annotations \/ Terminator
      BY <1>5, <3>3 DEF TagCount, Tag, Value, Count, Annotations, Terminator, Filled, Later
    <3>4. QED
      BY <3>1, <3>2, <3>3 DEF Next, Parse
  <2>2. pc = "payload" /\ pc \in BodySites
    BY <2>1 DEF Payload, Filled, BodySites, Sites
  <2>3. OnTrackAt(Place, pc, cur)
    BY <1>5, <2>2 DEF InStep
  <2>4. QED
    BY <2>1, <2>3, PayloadSlices
<1>6. QED
  BY <1>4, <1>5

-----------------------------------------------------------------------------
(* The frames are as they were sent *)

\* A frame is handed out from before its terminator only, and the ring and the
\* scratch buffer are then as they were.
LEMMA StepOfFrames ==
  ASSUME CallOK, Next, result' = "frame"
  PROVE  /\ pc = "terminator" /\ buf' = buf /\ scratch' = scratch
         /\ \/ Yield(cur)
            \/ Yield([cur EXCEPT !.verified = Ring!Peekable(TerminatorLen)])
<1>1. pc # "idle" => result # "frame"
  BY DEF CallOK
<1>2. CASE Call
  BY <1>2 DEF Call
<1>3. CASE Read
  BY <1>1, <1>3 DEF Read, Waiting, Fail, Return
<1>4. CASE EndOfStream
  BY <1>1, <1>4 DEF EndOfStream, Waiting, Fail, Return, ring
<1>5. CASE ReadError \/ Cancel
  BY <1>5 DEF ReadError, Cancel, FailUntouched, Fail, Return
<1>6. CASE FileHeader \/ FrameHeader \/ DeLen
  BY <1>1, <1>6 DEF FileHeader, FrameHeader, DeLen, Filled, FailUntouched, Fail, Return
<1>7. CASE Payload \/ Count
  BY <1>1, <1>7 DEF Payload, Count, Filled
<1>8. CASE TagCount \/ Tag \/ Value \/ Annotations
  BY <1>1, <1>8 DEF TagCount, Tag, Value, Annotations, Filled, FailUntouched, Fail, Return
<1>9. CASE Terminator
  BY <1>9 DEF Terminator, Filled, Fail, Return, Ring!Consume
<1>10. QED
  BY <1>2, <1>3, <1>4, <1>5, <1>6, <1>7, <1>8, <1>9 DEF Next, Parse

\* What is handed out is what was sent: the fields of the payload by the slices,
\* the rest, if the stream is whole, by what the call knows.
LEMMA HandsOut ==
  ASSUME Here, StoreOK, InStep, SlicesOK, UNCHANGED peer,
         pc = "terminator", buf' = buf, scratch' = scratch, result' = "frame",
         NEW locals, Yield(locals),
         locals.f = cur.f, locals.de = cur.de, locals.meas = cur.meas,
         locals.timing = cur.timing, locals.parity = cur.parity,
         locals.values = cur.values, locals.annotations = cur.annotations
  PROVE  FrameAsSent'
<1>1. PICK f, fr : f = cur.f /\ fr = frames[cur.f]
  OBVIOUS
<1>2. pc \in BodySites /\ pc \in Later
  BY DEF Later, BodySites, Sites
<1>3. f \in Nat /\ fr \in Frame
  BY <1>1, <1>2, FrameAtHand DEF Here
<1>4. /\ out'.f = f
      /\ out'.de = Deref(cur.de) /\ out'.meas = Deref(cur.meas)
      /\ out'.timing = Deref(cur.timing) /\ out'.parity = Deref(cur.parity)
      /\ out'.values = cur.values /\ out'.annotations = cur.annotations
  <2>1. ~ Rejected(locals.f)
    BY DEF Yield, Fail, Return
  <2>2. out' = [f |-> locals.f,
                de |-> Deref(locals.de), meas |-> Deref(locals.meas),
                timing |-> Deref(locals.timing), parity |-> Deref(locals.parity),
                values |-> locals.values, annotations |-> locals.annotations,
                verified |-> locals.verified]
    BY <2>1 DEF Yield
  <2>3. /\ out'.f = locals.f
        /\ out'.de = Deref(locals.de) /\ out'.meas = Deref(locals.meas)
        /\ out'.timing = Deref(locals.timing) /\ out'.parity = Deref(locals.parity)
        /\ out'.values = locals.values /\ out'.annotations = locals.annotations
    BY <2>2
  <2>4. QED
    BY <1>1, <2>3
<1>5. PICK q \in Nat : PayloadAt(q)
  BY <1>2 DEF SlicesOK
<1>6. ASSUME NEW x \in Fields
      PROVE  Deref(FieldSlice(cur, x)) = Bytes(f, x, 0, FieldLen(fr, x))
  <2>1. PICK n, p, s : n = FieldLen(fr, x) /\ p = q + FieldStart(fr, x) /\ s = FieldSlice(cur, x)
    OBVIOUS
  <2>2. PICK L, k : L = Len(FourFields(f, fr)) /\ k = FieldStart(fr, x)
    OBVIOUS
  <2>3. n \in Nat /\ k \in Nat /\ L \in Nat /\ k + n <= L
    BY <1>3, <2>1, <2>2, FieldsFollow
  <2>4. q + L <= pos /\ pos <= q + Cap /\ HeldAt(p, n, s, scratch)
    BY <1>1, <1>5, <2>1, <2>2 DEF PayloadAt
  <2>5. pos \in Nat /\ Cap \in Nat /\ Len(StreamBytes(frames)) \in Nat /\ pos <= Len(wire)
        /\ Len(wire) \in Nat
    BY PlaceIs DEF Here
  <2>6. p \in Nat /\ p + n <= pos /\ pos <= p + Cap
    BY <2>1, <2>2, <2>3, <2>4, <2>5
  <2>7. Deref(s) = [i \in 1..n |-> wire[p + i]]
    BY <2>3, <2>4, <2>6, DerefIs DEF Here, CallOK
  <2>8. Stands(StreamBytes(frames), p, Bytes(f, x, 0, n))
    <3>1. Stands(StreamBytes(frames), q, FourFields(f, fr))
      BY <1>1, <1>5 DEF PayloadAt
    <3>2. QED
      BY <1>3, <2>1, <2>5, <3>1, FieldsFollow
  <2>9. ASSUME NEW i \in 1..n PROVE wire[p + i] = <<f, x, 0, i>>
    <3>1. p + i \in 1 .. Len(wire)
      BY <2>3, <2>5, <2>6
    <3>2. wire[p + i] = StreamBytes(frames)[p + i]
      BY <3>1 DEF Here, PeerOK
    <3>3. Len(Bytes(f, x, 0, n)) = n /\ Bytes(f, x, 0, n)[i] = <<f, x, 0, i>>
      BY <2>3, BytesAre
    <3>4. StreamBytes(frames)[p + i] = Bytes(f, x, 0, n)[i]
      BY <2>8, <3>3 DEF Stands
    <3>5. QED
      BY <3>2, <3>3, <3>4
  <2>10. Bytes(f, x, 0, n) = [i \in 1..n |-> <<f, x, 0, i>>]
    BY DEF Bytes
  <2>11. Deref(s) = Bytes(f, x, 0, n)
    BY <2>7, <2>9, <2>10, Zenon
  <2>12. QED
    BY <2>1, <2>11
<1>7. /\ out'.de = Bytes(f, "de", 0, Len(fr.detector_events))
      /\ out'.meas = Bytes(f, "meas", 0, fr.ancilla_count)
      /\ out'.timing = Bytes(f, "timing", 0, TimingLen(fr))
      /\ out'.parity = Bytes(f, "parity", 0, ParityLen(fr))
  <2>1. "de" \in Fields /\ "meas" \in Fields /\ "timing" \in Fields /\ "parity" \in Fields
    BY DEF Fields
  <2>2. /\ FieldLen(fr, "de") = Len(fr.detector_events) /\ FieldLen(fr, "meas") = fr.ancilla_count
        /\ FieldLen(fr, "timing") = TimingLen(fr) /\ FieldLen(fr, "parity") = ParityLen(fr)
    BY DEF FieldLen
  <2>3. /\ FieldSlice(cur, "de") = cur.de /\ FieldSlice(cur, "meas") = cur.meas
        /\ FieldSlice(cur, "timing") = cur.timing /\ FieldSlice(cur, "parity") = cur.parity
    BY DEF FieldSlice
  <2>4. /\ Deref(cur.de) = Bytes(f, "de", 0, FieldLen(fr, "de"))
        /\ Deref(cur.meas) = Bytes(f, "meas", 0, FieldLen(fr, "meas"))
        /\ Deref(cur.timing) = Bytes(f, "timing", 0, FieldLen(fr, "timing"))
        /\ Deref(cur.parity) = Bytes(f, "parity", 0, FieldLen(fr, "parity"))
    BY <1>6, <2>1, <2>3
  <2>5. QED
    BY <1>4, <2>2, <2>4
<1>8. ASSUME wire = StreamBytes(frames)
      PROVE  /\ out'.values = [j \in DOMAIN fr.tags |-> Bytes(f, "value", j, fr.tags[j])]
             /\ out'.annotations = Bytes(f, "annotations", 0, fr.annotations * AnnotationLen)
  <2>1. ~ Cut
    <3>1. Len(wire) = Len(StreamBytes(frames)) /\ Len(wire) \in Nat
      BY <1>8, PlaceIs DEF Here
    <3>2. QED
      BY <3>1 DEF Cut
  <2>2. KnowsAt("terminator", cur)
    BY <1>2, <2>1 DEF InStep, OnTrackAt
  <2>3. /\ Len(cur.values) = Len(fr.tags) /\ cur.values = ValuesTo(f, fr, Len(cur.values))
        /\ cur.annotations = Bytes(f, "annotations", 0, fr.annotations * AnnotationLen)
    BY <1>1, <2>2 DEF KnowsAt
  <2>4. DOMAIN fr.tags = 1 .. Len(fr.tags)
    BY <1>3, FrameLengths, LenProperties
  <2>5. QED
    BY <1>4, <2>3, <2>4 DEF ValuesTo
<1>9. frames' = frames /\ wire' = wire
  BY DEF peer
<1>10. QED
  BY <1>1, <1>4, <1>7, <1>8, <1>9 DEF FrameAsSent

\* So is every frame a step leaves.
LEMMA SentNext ==
  ASSUME Here, StoreOK, InStep, SlicesOK, Next
  PROVE  FrameAsSent'
<1>1. CASE result' # "frame"
  BY <1>1 DEF FrameAsSent
<1>2. CASE result' = "frame"
  <2>1. /\ pc = "terminator" /\ buf' = buf /\ scratch' = scratch
        /\ \/ Yield(cur)
           \/ Yield([cur EXCEPT !.verified = Ring!Peekable(TerminatorLen)])
    BY <1>2, StepOfFrames DEF Here
  <2>2. UNCHANGED peer /\ cur \in Locals
    BY StepOfRing DEF Here, CallOK
  <2>3. CASE Yield(cur)
    BY <1>2, <2>1, <2>2, <2>3, HandsOut
  <2>4. CASE Yield([cur EXCEPT !.verified = Ring!Peekable(TerminatorLen)])
    <3>1. PICK c : c = [cur EXCEPT !.verified = Ring!Peekable(TerminatorLen)]
      OBVIOUS
    <3>2. /\ c.f = cur.f /\ c.de = cur.de /\ c.meas = cur.meas
          /\ c.timing = cur.timing /\ c.parity = cur.parity
          /\ c.values = cur.values /\ c.annotations = cur.annotations
      BY <2>2, <3>1 DEF Locals
    <3>3. Yield(c)
      BY <2>4, <3>1
    <3>4. QED
      BY <1>2, <2>1, <2>2, <3>2, <3>3, HandsOut
  <2>5. QED
    BY <2>1, <2>3, <2>4
<1>3. QED
  BY <1>1, <1>2

\* A read brings what the ring has room for, so the store is kept.
LEMMA ReadStores ==
  ASSUME Roomy, Here, InStep, StoreOK, Read
  PROVE  StoreOK'
<1>1. PICK n \in 1 .. Ring!Least(Chunk, Len(wire) - pos) :
        pos' = pos + n /\ Ring!Write(SubSeq(wire, pos + 1, pos + n))
  BY DEF Read
<1>2. /\ pos \in Nat /\ Len(wire) \in Nat /\ Chunk \in Nat /\ Cap \in Nat
      /\ Ring!available_read \in Nat
  BY PlaceIs, StreamAssumption DEF Here
<1>3. n \in Nat /\ n <= Chunk /\ n \in 1 .. (Len(wire) - pos)
  BY <1>1, <1>2 DEF Ring!Least
<1>4. Ring!available_read < Needed /\ ~ Cut
  BY ReadKeeps
<1>5. UNCHANGED peer /\ pc # "idle" /\ (pc \in BodySites => OnTrackAt(Place, pc, cur))
  BY <1>4 DEF Read, Waiting, InStep
<1>6. Needed \in Nat /\ Needed + Chunk <= Cap + 1
  BY <1>5, NeededFits DEF Here, Fits
<1>7. Ring!available_read + n <= Cap
  BY <1>2, <1>3, <1>4, <1>6
<1>8. QED
  BY <1>1, <1>3, <1>5, <1>7, StoreNext DEF Here

\* With the place, the store and the slices, FrameAsSent is inductive.
SentInv == PlaceInv /\ StoreOK /\ SlicesOK /\ FrameAsSent

\* Every step keeps it.
LEMMA SentInvNext == Aligned /\ Roomy /\ Short /\ SentInv /\ [Next]_vars => SentInv'
<1>1. SUFFICES ASSUME Aligned, Roomy, Short, SentInv, [Next]_vars PROVE SentInv'
  OBVIOUS
<1>2. PlaceInv'
  BY <1>1, PlaceNext DEF SentInv
<1>3. Here /\ InStep /\ StoreOK /\ SlicesOK /\ FrameAsSent
  BY <1>1 DEF SentInv, Here, PlaceInv, TypeInv
<1>4. CASE Next
  <2>1. UNCHANGED peer /\ (Feeds \/ Releases \/ Rests)
    BY <1>3, <1>4, StepOfRing DEF Here
  <2>2. StoreOK'
    <3>1. CASE Releases \/ Rests
      BY <1>3, <2>1, <3>1, StoreNext DEF Releases, Rests, Here
    <3>2. CASE Read
      BY <1>1, <1>3, <3>2, ReadStores
    <3>3. CASE ~ Read
      <4>1. pos' = pos
        BY <1>4, <3>3 DEF Next, Parse, Call, EndOfStream, ReadError, Cancel, FileHeader, FrameHeader,
                          DeLen, Payload, TagCount, Tag, Value, Count, Annotations, Terminator
      <4>2. ~ Feeds
        <5>1. pos \in Nat
          BY <1>3, PlaceIs DEF Here
        <5>2. QED
          BY <4>1, <5>1 DEF Feeds
      <4>3. QED
        BY <2>1, <3>1, <4>2
    <3>4. QED
      BY <3>2, <3>3
  <2>3. SlicesOK'
    BY <1>1, <1>3, <1>4, SlicesNext
  <2>4. FrameAsSent'
    BY <1>3, <1>4, SentNext
  <2>5. QED
    BY <1>2, <2>2, <2>3, <2>4 DEF SentInv
<1>5. CASE UNCHANGED vars
  <2>1. UNCHANGED peer /\ UNCHANGED ring /\ pos' = pos /\ scratch' = scratch /\ pc' = pc
        /\ cur' = cur /\ result' = result /\ out' = out /\ frames' = frames /\ wire' = wire
    BY <1>5 DEF vars, peer, ring
  <2>2. StoreOK'
    BY <1>3, <2>1, StoreNext DEF Here
  <2>3. FrameAsSent'
    BY <1>3, <2>1 DEF FrameAsSent
  <2>4. SlicesOK'
    <3>1. SUFFICES ASSUME pc \in Later PROVE \E q \in Nat : PayloadAt(q)'
      BY <2>1 DEF SlicesOK
    <3>2. PICK q \in Nat : PayloadAt(q)
      BY <1>3, <3>1 DEF SlicesOK
    <3>3. pos' \in Nat /\ pos <= pos' /\ pos' <= q + Cap
      <4>1. pos \in Nat
        BY <1>3, PlaceIs DEF Here
      <4>2. QED
        BY <2>1, <3>2, <4>1 DEF PayloadAt
    <3>4. Place' = Place
      BY <1>3, <2>1, FlowNext DEF Here
    <3>5. (Cut' <=> Cut) /\ EndAt(Place', pc', cur') = EndAt(Place, pc, cur)
      BY <2>1, <3>4 DEF Cut
    <3>6. SameSlices
      BY <2>1 DEF SameSlices
    <3>7. PayloadAt(q)'
      BY <1>3, <2>1, <3>1, <3>2, <3>3, <3>5, <3>6, PayloadStays
    <3>8. QED
      BY <3>7
  <2>5. QED
    BY <1>2, <2>2, <2>3, <2>4 DEF SentInv
<1>6. QED
  BY <1>1, <1>4, <1>5

\* A frame that is returned is the frame its header announced, byte for byte,
\* however the bytes arrived, whichever of its fields cross the end of the ring
\* and whatever calls failed or were dropped before.
THEOREM FramesAreAsSent == Aligned /\ Roomy /\ Short => (Spec => []FrameAsSent)
<1>1. SUFFICES ASSUME Aligned, Roomy, Short PROVE Spec => []FrameAsSent
  OBVIOUS
<1>2. Init => SentInv
  <2>1. SUFFICES ASSUME Init PROVE SentInv
    OBVIOUS
  <2>2. PlaceInv
    BY <2>1, PlaceInit
  <2>3. pos = 0 /\ read_pos = 0 /\ pc = "idle" /\ result = "none"
    BY <2>1 DEF Init
  <2>4. Place = 0
    <3>1. PeerOK /\ RingOK /\ FlowOK
      BY <2>2 DEF PlaceInv, TypeInv
    <3>2. QED
      BY <2>3, <3>1, PlaceIs
  <2>5. StoreOK
    BY <2>3, <2>4 DEF StoreOK, Slot, Ring!IndexOf
  <2>6. SlicesOK
    BY <2>3 DEF SlicesOK, Later
  <2>7. FrameAsSent
    BY <2>3 DEF FrameAsSent
  <2>8. QED
    BY <2>2, <2>5, <2>6, <2>7 DEF SentInv
<1>3. SentInv /\ [Next]_vars => SentInv'
  BY <1>1, SentInvNext
<1>4. SentInv => FrameAsSent
  BY DEF SentInv
<1>5. QED
  BY <1>2, <1>3, <1>4, PTL DEF Spec

-----------------------------------------------------------------------------
(* What the validators pass *)

\* The ancillas among the first n of a stabilizer that were measured as -1.
DownUpTo(meas, qubits, n) ==
  {k \in 1 .. n : qubits[k] < Len(meas) /\ meas[qubits[k] + 1] <= 0}

\* Whether it is odd, 0 or 1.
OddUpTo(meas, qubits, n) == Cardinality(DownUpTo(meas, qubits, n)) % 2

\* One more of them changes the parity of their number.
LEMMA OneMoreDown ==
  ASSUME NEW meas, NEW qubits, NEW n \in Nat \ {0}
  PROVE  /\ OddUpTo(meas, qubits, n - 1) \in {0, 1}
         /\ OddUpTo(meas, qubits, n) =
              IF qubits[n] < Len(meas) /\ meas[qubits[n] + 1] <= 0
              THEN 1 - OddUpTo(meas, qubits, n - 1) ELSE OddUpTo(meas, qubits, n - 1)
<1> DEFINE before == DownUpTo(meas, qubits, n - 1)
           after == DownUpTo(meas, qubits, n)
           down == qubits[n] < Len(meas) /\ meas[qubits[n] + 1] <= 0
<1>1. IsFiniteSet(before)
  <2>1. IsFiniteSet(1 .. (n - 1)) /\ before \subseteq 1 .. (n - 1)
    BY FS_Interval DEF DownUpTo
  <2>2. QED
    BY <2>1, FS_Subset
<1>2. PICK c \in Nat : c = Cardinality(before)
  BY <1>1, FS_CardinalityType
<1>3. c % 2 \in {0, 1} /\ (c + 1) % 2 = 1 - (c % 2)
  BY <1>2
<1>4. CASE down
  <2>1. after = before \cup {n} /\ n \notin before
    BY <1>4 DEF DownUpTo
  <2>2. Cardinality(after) = c + 1
    BY <1>1, <1>2, <2>1, FS_AddElement
  <2>3. QED
    BY <1>2, <1>3, <1>4, <2>2 DEF OddUpTo
<1>5. CASE ~ down
  <2>1. after = before
    BY <1>5 DEF DownUpTo
  <2>2. QED
    BY <1>2, <1>3, <1>5, <2>1 DEF OddUpTo
<1>6. QED
  BY <1>4, <1>5

\* The combined outcome is whether an odd number of ancillas were measured as -1.
LEMMA ParityCounts ==
  ASSUME NEW meas, NEW qubits \in Seq(Nat)
  PROVE  Parity(meas, qubits) = OddUpTo(meas, qubits, Len(qubits))
<1> DEFINE Step(p, i) ==
             IF i = 0 THEN 0
             ELSE IF qubits[i] < Len(meas) /\ meas[qubits[i] + 1] <= 0 THEN 1 - p[i - 1]
             ELSE p[i - 1]
           Runs(p) == p = [i \in 0 .. Len(qubits) |-> Step(p, i)]
<1>1. PICK n \in Nat : n = Len(qubits)
  BY LenProperties
<1>2. OddUpTo(meas, qubits, 0) = 0
  <2>1. DownUpTo(meas, qubits, 0) = {}
    BY DEF DownUpTo
  <2>2. Cardinality(DownUpTo(meas, qubits, 0)) = 0
    BY <2>1, FS_EmptySet
  <2>3. QED
    BY <2>2 DEF OddUpTo
<1>3. \E p : Runs(p)
  <2>1. PICK h : h = [i \in 0 .. n |-> OddUpTo(meas, qubits, i)]
    OBVIOUS
  <2>2. ASSUME NEW i \in 0 .. n PROVE h[i] = Step(h, i)
    <3>1. h[i] = OddUpTo(meas, qubits, i)
      BY <2>1
    <3>2. CASE i = 0
      BY <1>2, <3>1, <3>2
    <3>3. CASE i # 0
      <4>1. h[i - 1] = OddUpTo(meas, qubits, i - 1) /\ i \in Nat \ {0}
        BY <1>1, <2>1, <3>3
      <4>2. QED
        BY <3>1, <3>3, <4>1, OneMoreDown
    <3>4. QED
      BY <3>2, <3>3
  <2>3. h = [i \in 0 .. n |-> h[i]]
    BY <2>1
  <2>4. Runs(h)
    BY <1>1, <2>2, <2>3
  <2>5. QED
    BY <2>4
<1>4. PICK p : Runs(p) /\ Parity(meas, qubits) = p[n]
  <2>1. Parity(meas, qubits) = (CHOOSE p : Runs(p))[n]
    BY <1>1 DEF Parity
  <2>2. Runs(CHOOSE p : Runs(p))
    BY <1>3
  <2>3. QED
    BY <2>1, <2>2
<1>5. ASSUME NEW i \in 0 .. n PROVE p[i] = Step(p, i)
  BY <1>1, <1>4
<1> HIDE DEF Runs
<1> DEFINE Bad == {i \in 0 .. n : p[i] # OddUpTo(meas, qubits, i)}
<1>6. Bad = {}
  <2>1. SUFFICES ASSUME Bad # {} PROVE FALSE
    OBVIOUS
  <2>2. PICK i \in Bad : \A y \in Bad : i <= y
    <3>1. Bad \subseteq Nat
      BY <1>1
    <3>2. QED
      BY <2>1, <3>1, LeastOf
  <2>3. i \in 0 .. n /\ p[i] # OddUpTo(meas, qubits, i)
    OBVIOUS
  <2>4. CASE i = 0
    BY <1>2, <1>5, <2>3, <2>4
  <2>5. CASE i # 0
    <3>1. i - 1 \in 0 .. n /\ i \in Nat \ {0} /\ i - 1 \notin Bad
      BY <1>1, <2>2, <2>3, <2>5
    <3>2. p[i - 1] = OddUpTo(meas, qubits, i - 1)
      BY <3>1
    <3>3. p[i] = Step(p, i)
      BY <1>5, <2>3
    <3>4. QED
      BY <2>3, <2>5, <3>1, <3>2, <3>3, OneMoreDown
  <2>6. QED
    BY <2>4, <2>5
<1>7. n \notin Bad /\ n \in 0 .. n
  BY <1>1, <1>6
<1>8. QED
  BY <1>1, <1>4, <1>7

\* The runs of a list of tokens.
RunsOf(tokens) == [k \in DOMAIN tokens |-> Run(tokens[k])]

\* A run has as many events as it says, all the same.
LEMMA RunsAre ==
  ASSUME NEW tokens \in Seq([mode : BOOLEAN, run : Nat])
  PROVE  /\ RunsOf(tokens) \in Seq(Seq(BOOLEAN))
         /\ Len(RunsOf(tokens)) = Len(tokens)
         /\ \A k \in 1 .. Len(tokens) :
              /\ tokens[k].run \in Nat
              /\ Len(RunsOf(tokens)[k]) = tokens[k].run
              /\ \A i \in 1 .. tokens[k].run : RunsOf(tokens)[k][i] = tokens[k].mode
<1>1. Len(tokens) \in Nat /\ DOMAIN tokens = 1 .. Len(tokens)
  BY LenProperties
<1>2. ASSUME NEW k \in 1 .. Len(tokens)
      PROVE  /\ tokens[k].run \in Nat
             /\ Run(tokens[k]) \in Seq(BOOLEAN)
             /\ Len(Run(tokens[k])) = tokens[k].run
             /\ \A i \in 1 .. tokens[k].run : Run(tokens[k])[i] = tokens[k].mode
  <2>1. tokens[k] \in [mode : BOOLEAN, run : Nat]
    BY ElementOfSeq
  <2>2. PICK m, n : m = tokens[k].mode /\ n = tokens[k].run
    OBVIOUS
  <2>2a. m \in BOOLEAN /\ n \in Nat
    BY <2>1, <2>2
  <2>3. Run(tokens[k]) = [i \in 1 .. n |-> m]
    BY <2>2 DEF Run
  <2>4. [i \in 1 .. n |-> m] \in Seq(BOOLEAN) /\ Len([i \in 1 .. n |-> m]) = n
    BY <2>2a
  <2>5. QED
    BY <2>2, <2>2a, <2>3, <2>4
<1>3. RunsOf(tokens) = [k \in 1 .. Len(tokens) |-> Run(tokens[k])]
  BY <1>1 DEF RunsOf
<1>4. RunsOf(tokens) \in Seq(Seq(BOOLEAN)) /\ Len(RunsOf(tokens)) = Len(tokens)
  BY <1>1, <1>2, <1>3
<1>5. QED
  BY <1>2, <1>3, <1>4

\* The events before a token are those of the runs before it.
LEMMA BeforeIs ==
  ASSUME NEW tokens \in Seq([mode : BOOLEAN, run : Nat]), NEW off, Ends(RunsOf(tokens), off),
         NEW k \in 1 .. Len(tokens)
  PROVE  Before(tokens, k) = off[k - 1]
<1> DEFINE Sums(sum) == sum = [n \in 0 .. k - 1 |->
                                 IF n = 0 THEN 0 ELSE sum[n - 1] + tokens[n].run]
<1>1. Len(tokens) \in Nat /\ k \in Nat \ {0} /\ k <= Len(tokens)
  BY LenProperties
<1>2. /\ off[0] = 0
      /\ \A n \in 1 .. k - 1 : off[n] = off[n - 1] + tokens[n].run
  <2>1. /\ Len(RunsOf(tokens)) = Len(tokens)
        /\ \A n \in 1 .. Len(tokens) : Len(RunsOf(tokens)[n]) = tokens[n].run
    BY RunsAre
  <2>2. /\ off[0] = 0
        /\ \A n \in 1 .. Len(RunsOf(tokens)) :
             off[n] = off[n - 1] + Len(RunsOf(tokens)[n])
    BY DEF Ends
  <2>3. \A n \in 1 .. k - 1 : n \in 1 .. Len(tokens)
    BY <1>1
  <2>4. QED
    BY <2>1, <2>2, <2>3
<1>3. \E sum : Sums(sum)
  <2>1. PICK h : h = [n \in 0 .. k - 1 |-> off[n]]
    OBVIOUS
  <2>2. ASSUME NEW n \in 0 .. k - 1
        PROVE  h[n] = IF n = 0 THEN 0 ELSE h[n - 1] + tokens[n].run
    <3>1. CASE n = 0
      BY <1>2, <2>1, <3>1
    <3>2. CASE n # 0
      <4>1. n - 1 \in 0 .. k - 1 /\ n \in 1 .. k - 1
        BY <1>1, <3>2
      <4>2. h[n] = off[n] /\ h[n - 1] = off[n - 1]
        BY <2>1, <4>1
      <4>3. QED
        BY <1>2, <3>2, <4>1, <4>2
    <3>3. QED
      BY <3>1, <3>2
  <2>3. h = [n \in 0 .. k - 1 |-> h[n]]
    BY <2>1
  <2>4. QED
    BY <2>2, <2>3
<1>4. PICK sum : Sums(sum) /\ Before(tokens, k) = sum[k - 1]
  <2>1. Before(tokens, k) = (CHOOSE sum : Sums(sum))[k - 1]
    BY DEF Before
  <2>2. Sums(CHOOSE sum : Sums(sum))
    BY <1>3
  <2>3. QED
    BY <2>1, <2>2
<1>5. ASSUME NEW n \in 0 .. k - 1
      PROVE  sum[n] = IF n = 0 THEN 0 ELSE sum[n - 1] + tokens[n].run
  BY <1>4
<1> HIDE DEF Sums
<1> DEFINE Bad == {n \in 0 .. k - 1 : sum[n] # off[n]}
<1>6. Bad = {}
  <2>1. SUFFICES ASSUME Bad # {} PROVE FALSE
    OBVIOUS
  <2>2. PICK n \in Bad : \A y \in Bad : n <= y
    <3>1. Bad \subseteq Nat
      BY <1>1
    <3>2. QED
      BY <2>1, <3>1, LeastOf
  <2>3. n \in 0 .. k - 1 /\ sum[n] # off[n]
    OBVIOUS
  <2>4. CASE n = 0
    BY <1>2, <1>5, <2>3, <2>4
  <2>5. CASE n # 0
    <3>1. n - 1 \in 0 .. k - 1 /\ n \in 1 .. k - 1 /\ n - 1 \notin Bad
      <4>1. n - 1 \in 0 .. k - 1 /\ n \in 1 .. k - 1 /\ ~ (n <= n - 1)
        BY <1>1, <2>3, <2>5
      <4>2. QED
        BY <2>2, <4>1
    <3>2. sum[n - 1] = off[n - 1]
      BY <3>1
    <3>3. QED
      BY <1>2, <1>5, <2>3, <2>5, <3>1, <3>2
  <2>6. QED
    BY <2>4, <2>5
<1>7. k - 1 \notin Bad /\ k - 1 \in 0 .. k - 1
  BY <1>1, <1>6
<1>8. QED
  BY <1>4, <1>7

\* Looking an event up in the runs finds the one that decoding them gives, and
\* none past the end.
LEMMA EventsAre ==
  ASSUME NEW tokens \in Seq([mode : BOOLEAN, run : Nat]), NEW s \in Nat \ {0}
  PROVE  LET events == DecodeDetectorEvents(tokens)
         IN  EventAt(tokens, s - 1) <=> (s <= Len(events) /\ events[s])
<1>1. PICK runs, events : runs = RunsOf(tokens) /\ events = DecodeDetectorEvents(tokens)
  OBVIOUS
<1>2. /\ runs \in Seq(Seq(BOOLEAN)) /\ Len(runs) = Len(tokens) /\ Len(tokens) \in Nat
      /\ \A k \in 1 .. Len(tokens) :
              /\ tokens[k].run \in Nat
              /\ Len(runs[k]) = tokens[k].run
              /\ \A i \in 1 .. tokens[k].run : runs[k][i] = tokens[k].mode
  BY <1>1, RunsAre, LenProperties
<1>3. events = FlattenSeq(runs)
  BY <1>1 DEF DecodeDetectorEvents, RunsOf
<1>4. PICK off : Placed(runs, off, events)
  BY <1>2, <1>3, FlattenPlaces
<1>5. /\ Ends(runs, off) /\ Len(events) = off[Len(tokens)]
      /\ \A k \in 1 .. Len(tokens) : \A i \in 1 .. tokens[k].run :
            events[off[k - 1] + i] = tokens[k].mode
  <2>1. /\ Ends(runs, off) /\ Len(events) = off[Len(runs)]
        /\ \A k \in 1 .. Len(runs) : \A i \in 1 .. Len(runs[k]) :
              events[off[k - 1] + i] = runs[k][i]
    BY <1>4 DEF Placed
  <2>2. ASSUME NEW k \in 1 .. Len(tokens), NEW i \in 1 .. tokens[k].run
        PROVE  events[off[k - 1] + i] = tokens[k].mode
    <3>1. k \in 1 .. Len(runs) /\ i \in 1 .. Len(runs[k]) /\ runs[k][i] = tokens[k].mode
      BY <1>2
    <3>2. QED
      BY <2>1, <3>1
  <2>3. QED
    BY <1>2, <2>1, <2>2
<1>6. \A k \in 1 .. Len(tokens) :
        /\ off[k - 1] \in Nat /\ off[k] \in Nat
        /\ off[k] = off[k - 1] + tokens[k].run /\ off[k] <= Len(events)
  <2>1. SUFFICES ASSUME NEW k \in 1 .. Len(tokens)
                 PROVE  /\ off[k - 1] \in Nat /\ off[k] \in Nat
                        /\ off[k] = off[k - 1] + tokens[k].run /\ off[k] <= Len(events)
    OBVIOUS
  <2>2. k \in 0 .. Len(runs) /\ k - 1 \in 0 .. Len(runs) /\ Len(runs) \in k .. Len(runs)
    BY <1>2
  <2>3. off[k] <= off[Len(runs)]
    BY <1>2, <1>5, <2>2, EndsGrow
  <2>4. QED
    BY <1>2, <1>5, <2>2, <2>3 DEF Ends
<1>7. \A k \in 1 .. Len(tokens) : Before(tokens, k) = off[k - 1]
  BY <1>1, <1>5, BeforeIs
<1>8. ASSUME NEW k \in 1 .. Len(tokens), off[k - 1] < s, s <= off[k]
      PROVE  events[s] = tokens[k].mode
  <2>1. PICK a, b, n : a = off[k - 1] /\ b = off[k] /\ n = tokens[k].run
    OBVIOUS
  <2>2. a \in Nat /\ n \in Nat /\ b = a + n /\ a < s /\ s <= b
    BY <1>2, <1>6, <1>8, <2>1
  <2>3. PICK i : i = s - a
    OBVIOUS
  <2>4. i \in 1 .. n /\ a + i = s
    BY <2>2, <2>3
  <2>5. events[off[k - 1] + i] = tokens[k].mode
    BY <1>5, <2>1, <2>4
  <2>6. QED
    BY <2>1, <2>4, <2>5
<1>9. ASSUME NEW k \in 1 .. Len(tokens)
      PROVE  (off[k - 1] <= s - 1 /\ s - 1 < off[k - 1] + tokens[k].run)
               <=> (off[k - 1] < s /\ s <= off[k])
  <2>1. PICK a, b, n : a = off[k - 1] /\ b = off[k] /\ n = tokens[k].run
    OBVIOUS
  <2>2. a \in Nat /\ b \in Nat /\ n \in Nat /\ b = a + n
    BY <1>2, <1>6, <2>1
  <2>3. (a <= s - 1 /\ s - 1 < a + n) <=> (a < s /\ s <= b)
    BY <2>2
  <2>4. QED
    BY <2>1, <2>3
<1>10. EventAt(tokens, s - 1) <=>
         \E k \in 1 .. Len(tokens) : off[k - 1] < s /\ s <= off[k] /\ tokens[k].mode
  <2>1. DOMAIN tokens = 1 .. Len(tokens)
    BY LenProperties
  <2>2. QED
    BY <1>7, <1>9, <2>1 DEF EventAt
<1>11. ASSUME s <= Len(events)
       PROVE  \E k \in 1 .. Len(tokens) : off[k - 1] < s /\ s <= off[k]
  <2>1. s \in 1 .. off[Len(runs)]
    <3>1. Len(runs) \in 0 .. Len(runs)
      BY <1>2
    <3>2. off[Len(runs)] \in Nat
      BY <1>5, <3>1 DEF Ends
    <3>3. QED
      BY <1>2, <1>5, <1>11, <3>2
  <2>2. \E k \in 1 .. Len(runs) : off[k - 1] < s /\ s <= off[k]
    BY <1>2, <1>5, <2>1, EndsCover
  <2>3. QED
    BY <1>2, <2>2
<1>12. ASSUME EventAt(tokens, s - 1) PROVE s <= Len(events) /\ events[s]
  <2>1. PICK k \in 1 .. Len(tokens) : off[k - 1] < s /\ s <= off[k] /\ tokens[k].mode
    BY <1>10, <1>12
  <2>2. events[s] = tokens[k].mode
    BY <1>8, <2>1
  <2>3. off[k] <= Len(events) /\ off[k] \in Nat /\ Len(events) \in Nat
    <3>1. Len(runs) \in 0 .. Len(runs)
      BY <1>2
    <3>2. QED
      BY <1>2, <1>5, <1>6, <3>1 DEF Ends
  <2>4. s <= Len(events)
    BY <2>1, <2>3
  <2>5. QED
    BY <2>1, <2>2, <2>4
<1>13. ASSUME s <= Len(events), events[s] PROVE EventAt(tokens, s - 1)
  <2>1. PICK k \in 1 .. Len(tokens) : off[k - 1] < s /\ s <= off[k]
    BY <1>11, <1>13
  <2>2. events[s] = tokens[k].mode
    BY <1>8, <2>1
  <2>3. QED
    BY <1>10, <1>13, <2>1, <2>2
<1>14. QED
  BY <1>1, <1>12, <1>13

\* What StrictParity accepts is consistent.
LEMMA AcceptedIsConsistent ==
  ASSUME NEW registered \in Seq(Schema), NEW frame \in Frame, Accepts(registered, frame)
  PROVE  Consistent(registered, frame)
<1>1. PICK tokens, meas, events : /\ tokens = frame.detector_events /\ meas = frame.meas_results
                                  /\ events = DecodeDetectorEvents(frame.detector_events)
  OBVIOUS
<1>2. /\ tokens \in Seq([mode : BOOLEAN, run : Nat])
      /\ frame.timing_offsets \in Seq(Nat)
  BY <1>1 DEF Frame
<1>3. Range(frame.timing_offsets) \subseteq 0 .. MAX_TIMING_OFFSET_NS
  <2>1. \A i \in DOMAIN frame.timing_offsets :
          /\ frame.timing_offsets[i] \in Nat
          /\ frame.timing_offsets[i] <= MAX_TIMING_OFFSET_NS
    BY <1>2, ElementOfSeq DEF Accepts, CheckTiming
  <2>2. QED
    BY <2>1, ValidateAssumption DEF Range
<1>4. ASSUME registered # << >>
      PROVE  /\ frame.ancilla_count = registered[1].ancilla_count
             /\ \A s \in DOMAIN registered[1].stabilizers :
                  (s <= Len(events) /\ events[s]) <=>
                     OddUpTo(meas, registered[1].stabilizers[s],
                             Len(registered[1].stabilizers[s])) = 1
  <2>1. PICK known : known = registered[1]
    OBVIOUS
  <2>2. known \in Schema
    <3>1. Len(registered) \in Nat /\ Len(registered) # 0
      BY <1>4, EmptySeq, LenProperties
    <3>2. QED
      BY <2>1, <3>1, ElementOfSeq
  <2>3. CheckSchemaConsistency(frame, known) /\ CheckParity(frame, known)
    BY <1>4, <2>1 DEF Accepts
  <2>4. known.stabilizers \in Seq(Seq(Nat))
    BY <2>2 DEF Schema
  <2>5. ASSUME NEW s \in DOMAIN known.stabilizers
        PROVE  (s <= Len(events) /\ events[s]) <=>
                  OddUpTo(meas, known.stabilizers[s], Len(known.stabilizers[s])) = 1
    <3>1. s \in Nat \ {0} /\ known.stabilizers[s] \in Seq(Nat)
      BY <2>4, LenProperties, ElementOfSeq
    <3>2. EventAt(tokens, s - 1) <=> (s <= Len(events) /\ events[s])
      BY <1>1, <1>2, <3>1, EventsAre
    <3>3. Parity(meas, known.stabilizers[s])
            = OddUpTo(meas, known.stabilizers[s], Len(known.stabilizers[s]))
      BY <3>1, ParityCounts
    <3>4. (Parity(meas, known.stabilizers[s]) = 1) <=> EventAt(tokens, s - 1)
      BY <1>1, <2>3 DEF CheckParity
    <3>5. QED
      BY <3>2, <3>3, <3>4
  <2>6. frame.ancilla_count = known.ancilla_count
    BY <2>3 DEF CheckSchemaConsistency
  <2>7. QED
    BY <2>1, <2>5, <2>6
<1>5. ASSUME registered # << >>, NEW s \in DOMAIN registered[1].stabilizers
      PROVE  DownUpTo(meas, registered[1].stabilizers[s], Len(registered[1].stabilizers[s]))
               = {k \in DOMAIN registered[1].stabilizers[s] :
                    /\ registered[1].stabilizers[s][k] < Len(meas)
                    /\ meas[registered[1].stabilizers[s][k] + 1] <= 0}
  <2>1. PICK known : known = registered[1]
    OBVIOUS
  <2>2. known \in Schema
    <3>1. Len(registered) \in Nat /\ Len(registered) # 0
      BY <1>5, EmptySeq, LenProperties
    <3>2. QED
      BY <2>1, <3>1, ElementOfSeq
  <2>3. known.stabilizers[s] \in Seq(Nat)
    <3>1. known.stabilizers \in Seq(Seq(Nat))
      BY <2>2 DEF Schema
    <3>2. QED
      BY <1>5, <2>1, <3>1, LenProperties, ElementOfSeq
  <2>4. DOMAIN known.stabilizers[s] = 1 .. Len(known.stabilizers[s])
    BY <2>3, LenProperties
  <2>5. QED
    BY <2>1, <2>4 DEF DownUpTo
<1>6. QED
  BY <1>1, <1>3, <1>4, <1>5 DEF Consistent, OddUpTo

\* A call hands out a frame only if the validators pass it.
ValidInv ==
  /\ TypeInv
  /\ schema \in Seq(Schema)
  /\ result = "frame" => /\ out.f \in DOMAIN frames
                         /\ Strict => Accepts(schema, frames[out.f])

\* Every step that makes result "frame" yields a frame; the others leave result and
\* out as they are, or end the call in another way.
LEMMA YieldsOrNot ==
  ASSUME TypeInv, Next, result' = "frame"
  PROVE  \/ UNCHANGED <<result, out>>
         \/ pc \in BodySites /\ out'.f = cur.f /\ ~ Rejected(cur.f)
<1>0. CallOK /\ cur \in Locals
  BY DEF TypeInv, CallOK
<1>1. ASSUME NEW locals, locals.f = cur.f, Yield(locals)
      PROVE  out'.f = cur.f /\ ~ Rejected(cur.f)
  BY <1>1 DEF Yield, Fail, Return
<1>2. pc = "terminator" => pc \in BodySites
  BY DEF BodySites, Sites
<1>3. CASE Call
  BY <1>3 DEF Call
<1>4. CASE Read
  BY <1>4 DEF Read, Fail, Return
<1>5. CASE EndOfStream
  <2>1. CASE pc = "terminator" /\ Yield(cur)
    BY <1>1, <1>2, <2>1
  <2>2. CASE ~ (pc = "terminator" /\ Yield(cur))
    BY <1>5, <2>2 DEF EndOfStream, Fail, Return
  <2>3. QED
    BY <2>1, <2>2
<1>6. CASE ReadError
  BY <1>6 DEF ReadError, FailUntouched, Fail, Return
<1>7. CASE Cancel
  BY <1>7 DEF Cancel, Return
<1>8. CASE FileHeader \/ FrameHeader
  BY <1>8 DEF FileHeader, FrameHeader, FailUntouched, Fail, Return
<1>9. CASE DeLen \/ Payload \/ TagCount \/ Tag \/ Value \/ Count \/ Annotations
  BY <1>9 DEF DeLen, Payload, TagCount, Tag, Value, Count, Annotations, FailUntouched,
              Fail, Return
<1>10. CASE Terminator
  <2>1. CASE Fail
    BY <2>1 DEF Fail, Return
  <2>2. CASE ~ Fail
    <3>1. Yield([cur EXCEPT !.verified = Ring!Peekable(TerminatorLen)])
      BY <1>10, <2>2 DEF Terminator
    <3>2. [cur EXCEPT !.verified = Ring!Peekable(TerminatorLen)].f = cur.f
      BY <1>0 DEF Locals
    <3>3. QED
      BY <1>1, <1>2, <1>10, <3>1, <3>2 DEF Terminator, Filled
  <2>3. QED
    BY <2>1, <2>2
<1>11. QED
  BY <1>3, <1>4, <1>5, <1>6, <1>7, <1>8, <1>9, <1>10 DEF Next, Parse

\* With the types, that is inductive.
LEMMA ValidInvNext == ValidInv /\ [Next]_vars => ValidInv'
<1>1. SUFFICES ASSUME ValidInv, [Next]_vars PROVE ValidInv'
  OBVIOUS
<1>2. TypeInv /\ TypeInv'
  BY <1>1, TypesNext DEF ValidInv
<1>3. UNCHANGED <<frames, schema>>
  <2>1. CASE Next
    BY <1>2, <2>1, StepOfRing DEF TypeInv, peer
  <2>2. CASE UNCHANGED vars
    BY <2>2 DEF vars
  <2>3. QED
    BY <1>1, <2>1, <2>2
<1>4. ASSUME result' = "frame"
      PROVE  out'.f \in DOMAIN frames /\ (Strict => Accepts(schema, frames[out'.f]))
  <2>1. CASE UNCHANGED <<result, out>>
    BY <1>1, <1>4, <2>1 DEF ValidInv
  <2>2. CASE ~ UNCHANGED <<result, out>>
    <3>1. Next
      BY <1>1, <2>2 DEF vars
    <3>2. pc \in BodySites /\ out'.f = cur.f /\ ~ Rejected(cur.f)
      BY <1>2, <1>4, <2>2, <3>1, YieldsOrNot
    <3>3. cur.f \in DOMAIN frames
      BY <1>2, <3>2 DEF TypeInv, CallOK
    <3>4. QED
      BY <3>2, <3>3 DEF Rejected
  <2>3. QED
    BY <2>1, <2>2
<1>5. QED
  BY <1>1, <1>2, <1>3, <1>4 DEF ValidInv

\* What StrictParity hands out is consistent: its decoded events are, for every
\* stabilizer of the stream's schema, what the measured outcomes call for, whatever
\* calls failed or were dropped before (timing.rs, schema.rs, parity.rs and
\* next_frame of stream.rs).
THEOREM FramesAreValid == Spec => []OnlyValidFrames
<1>1. Init => ValidInv
  <2>1. SUFFICES ASSUME Init PROVE ValidInv
    OBVIOUS
  <2>2. TypeInv
    BY <2>1, TypesInit DEF TypeInv
  <2>3. schema \in Seq(Schema)
    BY <2>1, StreamsAre DEF Init
  <2>4. QED
    BY <2>1, <2>2, <2>3 DEF Init, ValidInv
<1>2. ValidInv => OnlyValidFrames
  <2>1. SUFFICES ASSUME ValidInv, Strict, result = "frame"
                 PROVE  Consistent(schema, frames[out.f])
    BY DEF OnlyValidFrames
  <2>2. frames \in Seq(Frame) /\ schema \in Seq(Schema)
    BY <2>1 DEF ValidInv, TypeInv, PeerOK
  <2>3. frames[out.f] \in Frame /\ Accepts(schema, frames[out.f])
    BY <2>1, <2>2, LenProperties, ElementOfSeq DEF ValidInv
  <2>4. QED
    BY <2>2, <2>3, AcceptedIsConsistent
<1>3. QED
  BY <1>1, <1>2, ValidInvNext, PTL DEF Spec
=============================================================================

----------------------------- MODULE CApiProofs -----------------------------
(***************************************************************************)
(* Proofs about CApi, for every set of frames, of error models and of      *)
(* depths: the window of a handle holds the last frames its caller was     *)
(* given since it set the decoder; the decoder's arrays, in whatever state *)
(* an earlier decode left them, give the answer that a partition of the    *)
(* graph's nodes gives, which is what decode_frame promises; and where the *)
(* depth is inferred no decode ends the process.                           *)
(*                                                                         *)
(* The union-find part goes from find up: what a forest of parents and     *)
(* ranks is (Forest, Ranked), what find, union and the counts do to it     *)
(* (Stands), that an edge joins the two trees that the partition joins     *)
(* (JoinEdge), that a pass, and then as many passes as there are nodes, do *)
(* the same (GrowStands), that nothing is left to grow then, and that      *)
(* reading off the flips agrees (DecodeIsPartition).                       *)
(***************************************************************************)
EXTENDS CApi, FiniteSetTheorems, SequenceTheorems, WellFoundedInduction, TLAPS

\* The rounds frames decode to, and the entries of given.
Round == [frame_id : Nat, detector_events : {DecodeRle(f.rle, f.ancilla_count) : f \in Frames}]

Given == [frame : Frames, data : Round]

\* The inductive invariant.  A window is as deep as the first frame it was made
\* for asks for, and how deep that is does not change under it: a new model
\* takes the window away.
WindowInv ==
  /\ read \in Nat
  /\ window_depth_hint \in Nat
  /\ dem_detector_count \in Nat
  /\ decoder \in Models \cup {Unset}
  /\ given \in Seq(Given)
  /\ mark \in 0 .. Len(given)
  /\ decoder # Unset /\ SinceCount # 0 => window.window_depth = Depth(First)
  /\ WindowIsTheTail

-----------------------------------------------------------------------------
\* The greater of two numbers.
LEMMA MaxOfTwo ==
  ASSUME NEW a \in Int, NEW b \in Int
  PROVE  Max({a, b}) = IF a >= b THEN a ELSE b
BY DEF Max

\* The lesser of two numbers.
LEMMA MinOfTwo ==
  ASSUME NEW a \in Int, NEW b \in Int
  PROVE  Min({a, b}) = IF a <= b THEN a ELSE b
BY DEF Min

\* A quotient is an integer.
LEMMA QuotientType ==
  ASSUME NEW a \in Nat, NEW b \in Nat \ {0}
  PROVE  a \div b \in Int
OBVIOUS

\* Every window is at least one round deep.
LEMMA DepthPositive ==
  ASSUME window_depth_hint \in Nat, dem_detector_count \in Nat,
         NEW frame \in Frames
  PROVE  Depth(frame) \in Nat \ {0}
<1> DEFINE width == Max({frame.ancilla_count, 1})
<1>1. frame.ancilla_count \in Nat
  BY CApiAssumption
<1>2. width \in Nat \ {0}
  BY <1>1, MaxOfTwo
<1>3. PICK inferred \in Int : inferred = dem_detector_count \div width
  BY <1>2, QuotientType
<1>4. Max({inferred, 1}) \in Nat \ {0}
  BY MaxOfTwo
<1>5. Depth(frame) = IF window_depth_hint > 0 THEN window_depth_hint ELSE Max({inferred, 1})
  BY <1>3 DEF Depth
<1>6. QED
  BY <1>4, <1>5

\* What sliding a sequence of at most depth rounds gives.
Slid(old, new, depth, last) ==
  LET len == IF Len(old) = depth THEN depth ELSE Len(old) + 1
  IN  /\ Len(new) = len
      /\ new[len] = last
      /\ \A k \in 1 .. len - 1 : new[k] = old[k + Len(old) + 1 - len]

\* Sliding keeps the last rounds: the new one is the last, the others move on
\* by one place if the window was full.
LEMMA SlideKeepsTheTail ==
  ASSUME NEW D, NEW old \in Seq(D), NEW last \in D,
         NEW depth \in Nat \ {0}, Len(old) <= depth
  PROVE  /\ Slide(old, depth, last) \in Seq(D)
         /\ Slid(old, Slide(old, depth, last), depth, last)
<1> DEFINE new == Slide(old, depth, last)
<1>1. CASE Len(old) = depth
  <2>1. SubSeq(old, 2, Len(old)) \in Seq(D) /\ Len(SubSeq(old, 2, Len(old))) = depth - 1
    BY <1>1
  <2>2. \A k \in 1 .. depth - 1 : SubSeq(old, 2, Len(old))[k] = old[k + 1]
    BY <1>1
  <2>3. new = Append(SubSeq(old, 2, Len(old)), last)
    BY <1>1 DEF Slide
  <2>4. /\ new \in Seq(D) /\ Len(new) = depth /\ new[depth] = last
        /\ \A k \in 1 .. depth - 1 : new[k] = old[k + 1]
    BY <2>1, <2>2, <2>3
  <2>5. \A k \in 1 .. depth - 1 : k + Len(old) + 1 - depth = k + 1
    BY <1>1
  <2> HIDE DEF new
  <2>6. new \in Seq(D) /\ Slid(old, new, depth, last)
    BY <1>1, <2>4, <2>5 DEF Slid
  <2>7. QED
    BY <2>6 DEF new
<1>2. CASE Len(old) # depth
  <2>1. new = Append(old, last)
    BY <1>2 DEF Slide
  <2>2. /\ new \in Seq(D) /\ Len(new) = Len(old) + 1 /\ new[Len(old) + 1] = last
        /\ \A k \in 1 .. Len(old) : new[k] = old[k]
    BY <2>1
  <2>3. /\ Len(old) \in Nat /\ Len(old) + 1 - 1 = Len(old)
        /\ \A k \in 1 .. Len(old) : k + Len(old) + 1 - (Len(old) + 1) = k
    OBVIOUS
  <2> HIDE DEF new
  <2>4. \A k \in 1 .. (Len(old) + 1) - 1 :
          new[k] = old[k + Len(old) + 1 - (Len(old) + 1)]
    BY <2>2, <2>3
  <2>5. new \in Seq(D) /\ Slid(old, new, depth, last)
    BY <1>2, <2>2, <2>4, Zenon DEF Slid
  <2>6. QED
    BY <2>5 DEF new
<1>3. QED
  BY <1>1, <1>2

\* A push slides the rounds and leaves the window's measures.
LEMMA PushOwnedFields ==
  ASSUME NEW w, NEW d
  PROVE  /\ PushOwned(w, d).frames = Slide(w.frames, w.window_depth, d)
         /\ PushOwned(w, d).window_depth = w.window_depth
         /\ PushOwned(w, d).ancilla_count = w.ancilla_count
BY DEF PushOwned

\* A new frame becomes the last of those held; of the others, the last stay.
LEMMA HeldGrows ==
  ASSUME WindowInv, NEW frame \in Frames, NextFrame(frame)
  PROVE  /\ given' \in Seq(Given)
         /\ Len(given') = Len(given) + 1
         /\ given'[Len(given) + 1] = [frame |-> frame, data |-> Owned(frame)]
         /\ \A k \in 1 .. Len(given) : given'[k] = given[k]
         /\ Owned(frame) \in Round
<1>1. Owned(frame) \in Round
  BY DEF WindowInv, Owned, Round
<1>2. [frame |-> frame, data |-> Owned(frame)] \in Given
  BY <1>1 DEF Given
<1>3. given' = Append(given, [frame |-> frame, data |-> Owned(frame)])
  BY DEF NextFrame
<1>4. given \in Seq(Given)
  BY DEF WindowInv
<1>5. QED
  BY <1>1, <1>2, <1>3, <1>4

\* A frame that is given makes the window, or slides it.
LEMMA NextFrameKeeps ==
  ASSUME WindowInv, NEW frame \in Frames, NextFrame(frame)
  PROVE  WindowInv'
<1> DEFINE data == Owned(frame)
<1> DEFINE n == Len(given)
<1>1. /\ given' \in Seq(Given)
      /\ Len(given') = n + 1
      /\ given'[n + 1] = [frame |-> frame, data |-> data]
      /\ \A k \in 1 .. n : given'[k] = given[k]
      /\ data \in Round
  BY HeldGrows
<1>2. /\ UNCHANGED <<mark, decoder, window_depth_hint, dem_detector_count>>
      /\ read' = read + 1
  BY DEF NextFrame
<1>3. /\ read' \in Nat
      /\ (window_depth_hint \in Nat)' /\ (dem_detector_count \in Nat)'
      /\ (decoder \in Models \cup {Unset})'
      /\ mark' \in 0 .. Len(given')
      /\ mark \in 0 .. n /\ n \in Nat
      /\ SinceCount' # 0 /\ SinceCount' = SinceCount + 1
  BY <1>1, <1>2 DEF WindowInv, SinceCount
<1>4. Depth(First)' = Depth(First')
  BY <1>2 DEF Depth
<1>5. CASE decoder = Unset
  <2>1. window' = window /\ window = NoWindow
    BY <1>5 DEF NextFrame, PushFrameToWindow, WindowInv, WindowIsTheTail
  <2>2. NoWindow' = NoWindow
    BY DEF NoWindow
  <2>3. WindowIsTheTail'
    BY <1>2, <1>5, <2>1, <2>2 DEF WindowIsTheTail
  <2>4. QED
    BY <1>1, <1>2, <1>3, <1>5, <2>3 DEF WindowInv
<1>6. CASE decoder # Unset /\ SinceCount = 0
  <2>1. mark = n /\ First' = frame
    BY <1>1, <1>2, <1>3, <1>6 DEF SinceCount, First
  <2> DEFINE w == NewWindow(frame.ancilla_count, Depth(frame))
  <2>2. window' = PushOwned(w, data)
    BY <1>6 DEF NextFrame, PushFrameToWindow, WindowInv, WindowIsTheTail
  <2>3. /\ window'.window_depth = Depth(frame)
        /\ window'.ancilla_count = frame.ancilla_count
        /\ window'.frames = Slide(<< >>, Depth(frame), data)
    BY <2>2, PushOwnedFields DEF NewWindow
  <2>4. Depth(frame) \in Nat \ {0}
    BY DepthPositive DEF WindowInv
  <2>5. Slide(<< >>, Depth(frame), data) = <<data>>
    <3>1. Len(<< >>) # Depth(frame)
      BY <2>4
    <3>2. Slide(<< >>, Depth(frame), data) = Append(<< >>, data)
      BY <3>1 DEF Slide
    <3>3. QED
      BY <3>2
  <2>6. HeldCount' = 1
    <3>1. HeldCount' = Min({Depth(frame), 1})
      BY <1>3, <1>4, <1>6, <2>1 DEF HeldCount
    <3>2. QED
      BY <2>4, <3>1, MinOfTwo
  <2>7. Held' = [k \in 1 .. 1 |-> given'[n + 1]]
    <3>1. Held' = [k \in 1 .. 1 |-> given'[n + 1 - 1 + k]]
      BY <1>1, <2>6 DEF Held
    <3>2. QED
      BY <1>3, <3>1
  <2>8. [k \in 1 .. HeldCount' |-> Held'[k].data] = <<data>>
    BY <1>1, <2>6, <2>7
  <2>9. WindowIsTheTail'
    BY <1>2, <1>3, <1>6, <2>1, <2>3, <2>5, <2>8 DEF WindowIsTheTail
  <2>10. QED
    BY <1>1, <1>3, <1>4, <2>1, <2>3, <2>9 DEF WindowInv
<1>7. CASE decoder # Unset /\ SinceCount # 0
  <2>1. /\ window.window_depth = Depth(First)
        /\ window.ancilla_count = First.ancilla_count
        /\ window.frames = [k \in 1 .. HeldCount |-> Held[k].data]
    BY <1>7 DEF WindowInv, WindowIsTheTail
  <2>2. First \in Frames /\ First' = First
    <3>1. mark + 1 \in 1 .. n
      BY <1>3, <1>7 DEF SinceCount
    <3>2. given[mark + 1] \in Given
      BY <3>1 DEF WindowInv
    <3>3. QED
      BY <1>1, <1>2, <3>1, <3>2 DEF First, Given
  <2>3. Depth(First) \in Nat \ {0}
    BY <2>2, DepthPositive DEF WindowInv
  <2>4. SinceCount \in Nat \ {0} /\ SinceCount <= n
    BY <1>3, <1>7 DEF SinceCount
  <2> DEFINE depth == Depth(First)
  <2> DEFINE m == HeldCount
  <2>5. /\ m = (IF depth <= SinceCount THEN depth ELSE SinceCount)
        /\ HeldCount' = (IF depth <= SinceCount + 1 THEN depth ELSE SinceCount + 1)
    <3>1. /\ HeldCount = Min({depth, SinceCount})
          /\ HeldCount' = Min({depth, SinceCount + 1})
      BY <1>3, <1>4, <2>2 DEF HeldCount
    <3>2. QED
      BY <2>3, <2>4, <3>1, MinOfTwo
  <2> DEFINE f == window.frames
  <2>6. f \in Seq(Round) /\ Len(f) = m /\ m \in 1 .. n
        /\ \A k \in 1 .. m : f[k] = given[n - m + k].data
    <3>1. m \in 1 .. n
      BY <1>3, <2>3, <2>4, <2>5
    <3>2. \A k \in 1 .. m : Held[k] = given[n - m + k] /\ n - m + k \in 1 .. n
      BY <1>3, <3>1 DEF Held
    <3>3. \A k \in 1 .. m : Held[k].data \in Round
      <4>1. \A k \in 1 .. n : given[k] \in Given
        BY DEF WindowInv
      <4>2. \A k \in 1 .. n : given[k].data \in Round
        BY <4>1 DEF Given
      <4>3. QED
        BY <3>2, <4>2
    <3>4. QED
      BY <2>1, <3>1, <3>2, <3>3
  <2> DEFINE g == Slide(f, depth, data)
  <2>7. window' = PushOwned(window, data)
    <3>1. window # NoWindow
      <4>1. NoWindow.frames = << >> /\ Len(f) # 0
        BY <2>6 DEF NoWindow, NewWindow
      <4>2. QED
        BY <4>1
    <3>2. QED
      BY <1>7, <3>1 DEF NextFrame, PushFrameToWindow
  <2>8. /\ window'.frames = g
        /\ window'.window_depth = depth
        /\ window'.ancilla_count = First.ancilla_count
    BY <2>1, <2>7, PushOwnedFields
  <2> DEFINE m2 == IF m = depth THEN depth ELSE m + 1
  <2>9. m <= depth /\ m2 = HeldCount' /\ m2 \in 1 .. n + 1 /\ m2 <= m + 1
    BY <1>3, <2>3, <2>4, <2>5
  <2>10. /\ g \in Seq(Round) /\ Len(g) = m2 /\ g[m2] = data
         /\ \A k \in 1 .. m2 - 1 : g[k] = f[k + m + 1 - m2]
    <3>1. Len(f) <= depth
      BY <2>6, <2>9
    <3>2. g \in Seq(Round) /\ Slid(f, g, depth, data)
      BY <1>1, <2>3, <2>6, <3>1, SlideKeepsTheTail
    <3> HIDE DEF f, g, depth, data
    <3>3. QED
      BY <2>6, <3>2 DEF Slid
  <2> HIDE DEF m2, m
  <2>11. \A k \in 1 .. m2 : g[k] = given'[n + 1 - m2 + k].data
    <3>1. SUFFICES ASSUME NEW k \in 1 .. m2
                   PROVE  g[k] = given'[n + 1 - m2 + k].data
      OBVIOUS
    <3>2. CASE k = m2
      <4>1. g[m2] = data /\ given'[n + 1].data = data /\ (n + 1 - m2) + m2 = n + 1
        BY SMTT(30), <1>1, <1>3, <2>9, <2>10
      <4>2. QED
        BY <3>2, <4>1
    <3>3. CASE k # m2
      <4>1. k + m + 1 - m2 \in 1 .. m /\ k \in 1 .. m2 - 1
        <5>1. /\ m \in Nat /\ m2 \in Nat /\ k \in Nat
              /\ m2 <= m + 1 /\ 1 <= k /\ k <= m2
          BY SMTT(30), <2>6, <2>9
        <5>2. QED
          BY <3>3, <5>1
      <4>2. g[k] = given[n - m + (k + m + 1 - m2)].data
        BY <2>6, <2>10, <4>1
      <4>3. n - m + (k + m + 1 - m2) = n + 1 - m2 + k /\ n + 1 - m2 + k \in 1 .. n
        <5>1. /\ n \in Int /\ m \in Int /\ m2 \in Int /\ k \in Int
              /\ m2 <= n + 1 /\ 1 <= k /\ k <= m2 - 1
          <6>1. n \in Nat /\ m \in 1 .. n /\ m2 \in 1 .. n + 1
            BY <1>3, <2>6, <2>9
          <6>2. k \in 1 .. m2 - 1
            BY <4>1
          <6> HIDE DEF n
          <6>3. QED
            BY <6>1, <6>2
        <5> HIDE DEF n
        <5>2. QED
          BY <5>1
      <4>4. QED
        BY <1>1, <4>2, <4>3
    <3>4. QED
      BY <3>2, <3>3
  <2>12. [k \in 1 .. HeldCount' |-> Held'[k].data] = g
    <3>1. \A k \in 1 .. m2 : Held'[k] = given'[n + 1 - m2 + k]
      BY <1>1, <2>9 DEF Held
    <3>2. g = [k \in 1 .. m2 |-> g[k]]
      BY <2>10
    <3>3. QED
      BY <2>9, <2>11, <3>1, <3>2
  <2>13. WindowIsTheTail'
    BY <1>2, <1>3, <1>7, <2>2, <2>8, <2>12 DEF WindowIsTheTail
  <2>14. QED
    BY <1>1, <1>3, <1>4, <2>2, <2>8, <2>13 DEF WindowInv
<1>8. QED
  BY <1>5, <1>6, <1>7

-----------------------------------------------------------------------------
\* A handle that was just opened has no window.
LEMMA WindowInvInit == Init => WindowInv
BY CApiAssumption DEF Init, InnerInit, WindowInv, WindowIsTheTail, SinceCount, NoWindow, Given

\* Actions that leave all of this alone, or start afresh.
LEMMA UnchangedKeeps ==
  ASSUME WindowInv,
         UNCHANGED <<decoder, window, window_depth_hint, dem_detector_count, given, mark>>,
         read' \in Nat
  PROVE  WindowInv'
BY DEF WindowInv, WindowIsTheTail, SinceCount, First, HeldCount, Held, Depth, NoWindow

\* A handle that starts afresh has none either.
LEMMA FreshKeeps == Fresh => WindowInv'
BY DEF Fresh, WindowInv, WindowIsTheTail, SinceCount, NoWindow, Given

\* A new decoder has seen no frame, and has no window.
LEMMA SetDecoderDemKeeps ==
  ASSUME WindowInv, NEW dem \in Models, NEW depth \in Depths, SetDecoderDem(dem, depth)
  PROVE  WindowInv'
<1>0. dem.detector_count \in Nat /\ depth \in Nat
  BY CApiAssumption
<1>1. /\ read' \in Nat
      /\ window_depth_hint' \in Nat
      /\ dem_detector_count' \in Nat
      /\ decoder' \in Models \cup {Unset}
      /\ given' \in Seq(Given)
      /\ mark' = Len(given') /\ Len(given') \in Nat
      /\ window' = NoWindow'
  BY <1>0 DEF SetDecoderDem, WindowInv, NoWindow
<1>2. SinceCount' = 0 /\ mark' \in 0 .. Len(given')
  BY <1>1 DEF SinceCount
<1>3. QED
  BY <1>1, <1>2 DEF WindowInv, WindowIsTheTail

\* Every step keeps the invariant of the window.
LEMMA WindowInvStep == WindowInv /\ [Next]_vars => WindowInv'
<1> SUFFICES ASSUME WindowInv, [Next]_vars
             PROVE  WindowInv'
  OBVIOUS
<1> USE DEF inner, history
<1>1. CASE Open
  BY <1>1, FreshKeeps DEF Open
<1>2. CASE OpenFails
  BY <1>2, UnchangedKeeps DEF OpenFails, WindowInv
<1>3. CASE Close
  BY <1>3, FreshKeeps DEF Close
<1>4. ASSUME NEW frame \in Frames, NextFrame(frame)
      PROVE  WindowInv'
  BY <1>4, NextFrameKeeps
<1>5. CASE BufferTooSmall
  BY <1>5, UnchangedKeeps DEF BufferTooSmall, WindowInv
<1>6. CASE NextFrameFails
  BY <1>6, UnchangedKeeps DEF NextFrameFails, WindowInv
<1>7. ASSUME NEW dem \in Models, NEW depth \in Depths, SetDecoderDem(dem, depth)
      PROVE  WindowInv'
  BY <1>7, SetDecoderDemKeeps
<1>8. CASE SetDecoderDemFails
  BY <1>8, UnchangedKeeps DEF SetDecoderDemFails, WindowInv
<1>9. CASE NoDecoder
  BY <1>9, UnchangedKeeps DEF NoDecoder, WindowInv
<1>10. CASE DecodeWindow
  BY <1>10, UnchangedKeeps DEF DecodeWindow, WindowInv
<1>11. CASE UNCHANGED vars
  BY <1>11, UnchangedKeeps DEF vars, WindowInv
<1>12. QED
  BY <1>1, <1>2, <1>3, <1>4, <1>5, <1>6, <1>7, <1>8, <1>9, <1>10, <1>11 DEF Next, DecodeFrame

\* Whatever a caller does with a handle, its window holds the last frames it was
\* given since it set the decoder, in order (push_frame_to_window, inner.rs).
THEOREM WindowCorrect == Spec => []WindowIsTheTail
<1>1. WindowInv => WindowIsTheTail
  BY DEF WindowInv
<1>2. QED
  BY <1>1, WindowInvInit, WindowInvStep, PTL DEF Spec
-----------------------------------------------------------------------------
(* The matrix of a window.  What holds of all n is shown by looking at the   *)
(* least n it fails for.                                                     *)

\* A set of naturals that is not empty has a least element.
LEMMA LeastOf ==
  ASSUME NEW T, T \subseteq Nat, T # {}
  PROVE  \E x \in T : \A y \in T : x <= y
<1>1. PICK R : R = {p \in Nat \X Nat : p[1] < p[2]}
  OBVIOUS
<1>2. IsWellFoundedOn(R, Nat)
  BY <1>1, NatLessThanWellFounded, Zenon DEF OpToRel
<1>3. PICK x \in T : \A y \in T : ~ (<<y, x>> \in R)
  BY <1>2, WFMin
<1>4. ASSUME NEW y \in T PROVE x <= y
  <2>1. <<y, x>> \in Nat \X Nat /\ <<y, x>> \notin R
    BY <1>3
  <2>2. ~ (y < x)
    BY <1>1, <2>1
  <2>3. QED
    BY <2>2
<1>5. QED
  BY <1>4

\* What holds of 0, and of a number when it holds of the one before, holds up to n.
LEMMA UpTo ==
  ASSUME NEW P, NEW n \in Nat, 0 \in P,
         \A i \in 1 .. n : i - 1 \in P => i \in P
  PROVE  0 .. n \subseteq P
<1> DEFINE Bad == {i \in 0 .. n : i \notin P}
<1>1. SUFFICES ASSUME Bad # {} PROVE FALSE
  OBVIOUS
<1>2. PICK i \in Bad : \A y \in Bad : i <= y
  <2>1. Bad \subseteq Nat
    OBVIOUS
  <2>2. QED
    BY <1>1, <2>1, LeastOf
<1>3. i \in 1 .. n /\ i - 1 \in 0 .. n /\ ~ (i <= i - 1)
  OBVIOUS
<1>4. i - 1 \in P
  BY <1>2, <1>3
<1>5. QED
  BY <1>2, <1>3, <1>4

\* A recursion over 0..n, with a step for each number, and values in S.
Recursion(f, n, S, base, step) ==
  /\ f \in [0 .. n -> S]
  /\ f[0] = base
  /\ \A i \in 1 .. n : f[i] = step[i][f[i - 1]]

\* A recursion whose every step stays in a set has a solution.
LEMMA RecursionExists ==
  ASSUME NEW S, NEW n \in Nat, NEW base \in S, NEW step \in [1 .. n -> [S -> S]]
  PROVE  \E f : Recursion(f, n, S, base, step)
<1> DEFINE P == {m \in 0 .. n : \E f : Recursion(f, m, S, base, step)}
<1>1. 0 \in P
  <2>1. PICK f : f = [i \in 0 .. 0 |-> base]
    OBVIOUS
  <2>2. Recursion(f, 0, S, base, step)
    BY <2>1 DEF Recursion
  <2>3. QED
    BY <2>2
<1>2. ASSUME NEW m \in 1 .. n, m - 1 \in P
      PROVE  m \in P
  <2>1. PICK f : Recursion(f, m - 1, S, base, step)
    BY <1>2
  <2>2. step[m][f[m - 1]] \in S
    <3>1. f[m - 1] \in S /\ step[m] \in [S -> S]
      BY <2>1 DEF Recursion
    <3>2. QED
      BY <3>1
  <2>3. PICK g : g = [i \in 0 .. m |-> IF i = m THEN step[m][f[m - 1]] ELSE f[i]]
    OBVIOUS
  <2>4. \A i \in 0 .. m - 1 : g[i] = f[i]
    BY <2>3
  <2>5. g \in [0 .. m -> S]
    BY <2>1, <2>2, <2>3 DEF Recursion
  <2>6. ASSUME NEW i \in 1 .. m
        PROVE  g[i] = step[i][g[i - 1]]
    <3>1. g[i - 1] = f[i - 1]
      BY <2>4
    <3>2. CASE i = m
      BY <2>3, <3>1, <3>2
    <3>3. CASE i # m
      BY <2>1, <2>4, <3>1, <3>3 DEF Recursion
    <3>4. QED
      BY <3>2, <3>3
  <2>7. g[0] = base
    BY <2>1, <2>4 DEF Recursion
  <2>8. Recursion(g, m, S, base, step)
    BY <2>5, <2>6, <2>7 DEF Recursion
  <2>9. QED
    BY <2>8
<1>3. n \in P
  <2> HIDE DEF P
  <2>1. 0 .. n \subseteq P
    BY <1>1, <1>2, UpTo
  <2>2. QED
    BY <2>1
<1>4. QED
  BY <1>3

\* The concatenations of the first rows, up to n of them.
RowsUpTo(rows, g, n) ==
  g = [i \in 1 .. n |-> IF i = 1 THEN rows[i] ELSE g[i - 1] \o rows[i]]

\* They exist.
LEMMA RowsExist ==
  ASSUME NEW rows, NEW n \in Nat
  PROVE  \E g : RowsUpTo(rows, g, n)
<1> DEFINE Bad == {m \in Nat : ~ \E g : RowsUpTo(rows, g, m)}
<1>1. SUFFICES ASSUME Bad # {} PROVE FALSE
  OBVIOUS
<1>2. PICK m \in Bad : \A y \in Bad : m <= y
  BY <1>1, LeastOf
<1>3. m \in Nat /\ ~ \E g : RowsUpTo(rows, g, m)
  OBVIOUS
<1>4. m # 0
  <2>1. RowsUpTo(rows, [i \in 1 .. 0 |-> 0], 0)
    BY DEF RowsUpTo
  <2>2. QED
    BY <1>3, <2>1
<1>5. m - 1 \in Nat /\ m - 1 \notin Bad
  BY <1>2, <1>3, <1>4
<1>6. PICK g : RowsUpTo(rows, g, m - 1)
  BY <1>5
<1>7. PICK h : h = [i \in 1 .. m |-> IF i = 1 THEN rows[i] ELSE g[i - 1] \o rows[i]]
  OBVIOUS
<1>8. ASSUME NEW i \in 1 .. (m - 1) PROVE h[i] = g[i]
  <2>1. g[i] = IF i = 1 THEN rows[i] ELSE g[i - 1] \o rows[i]
    BY <1>6 DEF RowsUpTo
  <2>2. i \in 1 .. m
    BY <1>3
  <2>3. QED
    BY <1>7, <2>1, <2>2
<1>9. ASSUME NEW i \in 1 .. m
      PROVE  h[i] = IF i = 1 THEN rows[i] ELSE h[i - 1] \o rows[i]
  <2>1. h[i] = IF i = 1 THEN rows[i] ELSE g[i - 1] \o rows[i]
    BY <1>7
  <2>2. CASE i = 1
    BY <2>1, <2>2
  <2>3. CASE i # 1
    <3>1. i - 1 \in 1 .. (m - 1)
      BY <1>3, <2>3
    <3>2. h[i - 1] = g[i - 1]
      BY <1>8, <3>1
    <3>3. QED
      BY <2>1, <2>3, <3>2
  <2>4. QED
    BY <2>2, <2>3
<1>10. h = [i \in 1 .. m |-> IF i = 1 THEN rows[i] ELSE h[i - 1] \o rows[i]]
  BY <1>7, <1>9
<1>11. RowsUpTo(rows, h, m)
  BY <1>10 DEF RowsUpTo
<1>12. QED
  BY <1>3, <1>11

\* The next multiple.
LEMMA NextMultiple ==
  ASSUME NEW k \in Nat, NEW width \in Nat
  PROVE  k * width \in Nat /\ (k + 1) * width = k * width + width
OBVIOUS

\* Rows of one width make a sequence of their number times that width.
LEMMA FlatLength ==
  ASSUME NEW S, NEW rows \in Seq(Seq(S)), NEW width \in Nat,
         \A j \in 1 .. Len(rows) : Len(rows[j]) = width
  PROVE  FlattenSeq(rows) \in Seq(S) /\ Len(FlattenSeq(rows)) = Len(rows) * width
<1>1. PICK n \in Nat : n = Len(rows)
  OBVIOUS
<1>2. CASE n = 0
  <2>1. rows = << >> /\ FlattenSeq(rows) = rows
    BY <1>1, <1>2, EmptySeq DEF FlattenSeq
  <2>2. Len(rows) * width = 0
    BY <1>1, <1>2
  <2>3. << >> \in Seq(S) /\ Len(<< >>) = 0
    OBVIOUS
  <2>4. FlattenSeq(rows) \in Seq(S) /\ Len(FlattenSeq(rows)) = 0
    BY <2>1, <2>3
  <2>5. QED
    BY <2>2, <2>4
<1>3. CASE n # 0
  <2> DEFINE g == CHOOSE g : RowsUpTo(rows, g, n)
  <2>1. RowsUpTo(rows, g, n)
    BY RowsExist
  <2>2. FlattenSeq(rows) = g[n]
    BY <1>1, <1>3 DEF FlattenSeq, RowsUpTo
  <2> HIDE DEF g
  <2> DEFINE Bad == {i \in 1 .. n : ~ (g[i] \in Seq(S) /\ Len(g[i]) = i * width)}
  <2>3. Bad = {}
    <3>1. SUFFICES ASSUME Bad # {} PROVE FALSE
      OBVIOUS
    <3>2. PICK i \in Bad : \A y \in Bad : i <= y
      <4>1. Bad \subseteq Nat
        OBVIOUS
      <4>2. QED
        BY <3>1, <4>1, LeastOf
    <3>3. i \in 1 .. n /\ ~ (g[i] \in Seq(S) /\ Len(g[i]) = i * width)
      OBVIOUS
    <3>4. rows[i] \in Seq(S) /\ Len(rows[i]) = width
      BY <1>1, <3>3
    <3>5. CASE i = 1
      <4>1. g[i] = rows[i]
        BY <2>1, <3>3, <3>5 DEF RowsUpTo
      <4>2. i * width = width
        BY <3>5
      <4>3. QED
        BY <3>3, <3>4, <4>1, <4>2
    <3>6. CASE i # 1
      <4>1. PICK k \in 1 .. n : k = i - 1
        BY <3>3, <3>6
      <4>2. k \notin Bad
        BY <3>2, <4>1
      <4>3. g[k] \in Seq(S) /\ Len(g[k]) = k * width
        BY <4>2
      <4>4. g[i] = g[k] \o rows[i]
        BY <2>1, <3>3, <3>6, <4>1 DEF RowsUpTo
      <4>5. k * width \in Nat /\ i * width = k * width + width
        <5>1. k \in Nat /\ i = k + 1
          BY <4>1, <3>3
        <5>2. QED
          BY <5>1, NextMultiple
      <4>6. g[i] \in Seq(S) /\ Len(g[i]) = Len(g[k]) + Len(rows[i])
        <5>1. PICK a, b : a = g[k] /\ b = rows[i]
          OBVIOUS
        <5>2. a \o b \in Seq(S) /\ Len(a \o b) = Len(a) + Len(b)
          BY <3>4, <4>3, <5>1, ConcatProperties
        <5>3. QED
          BY <4>4, <5>1, <5>2
      <4>7. QED
        BY <3>3, <3>4, <4>3, <4>5, <4>6
    <3>7. QED
      BY <3>5, <3>6
  <2>4. n \notin Bad /\ n \in 1 .. n
    <3>1. n \in 1 .. n
      BY <1>3
    <3>2. n \notin Bad
      BY ONLY <2>3
    <3>3. QED
      BY <3>1, <3>2
  <2>5. QED
    BY <1>1, <2>2, <2>4
<1>4. QED
  BY <1>2, <1>3

\* The fired entries among the first n of a matrix.
FiredUpTo(matrix, g, n) ==
  g = [i \in 0 .. n |->
         IF i = 0 THEN << >>
         ELSE IF matrix[i] THEN Append(g[i - 1], i - 1) ELSE g[i - 1]]

\* They exist.
LEMMA FiredExist ==
  ASSUME NEW matrix, NEW n \in Nat
  PROVE  \E g : FiredUpTo(matrix, g, n)
<1> DEFINE Bad == {m \in Nat : ~ \E g : FiredUpTo(matrix, g, m)}
<1>1. SUFFICES ASSUME Bad # {} PROVE FALSE
  OBVIOUS
<1>2. PICK m \in Bad : \A y \in Bad : m <= y
  BY <1>1, LeastOf
<1>3. m \in Nat /\ ~ \E g : FiredUpTo(matrix, g, m)
  OBVIOUS
<1>4. m # 0
  <2>1. FiredUpTo(matrix, [i \in 0 .. 0 |-> << >>], 0)
    BY DEF FiredUpTo
  <2>2. QED
    BY <1>3, <2>1
<1>5. m - 1 \in Nat /\ m - 1 \notin Bad
  BY <1>2, <1>3, <1>4
<1>6. PICK g : FiredUpTo(matrix, g, m - 1)
  BY <1>5
<1>7. PICK h : h = [i \in 0 .. m |->
                      IF i = 0 THEN << >>
                      ELSE IF matrix[i] THEN Append(g[i - 1], i - 1) ELSE g[i - 1]]
  OBVIOUS
<1>8. ASSUME NEW i \in 0 .. (m - 1) PROVE h[i] = g[i]
  <2>1. g[i] = IF i = 0 THEN << >>
               ELSE IF matrix[i] THEN Append(g[i - 1], i - 1) ELSE g[i - 1]
    BY <1>6 DEF FiredUpTo
  <2>2. i \in 0 .. m
    BY <1>3
  <2>3. QED
    BY <1>7, <2>1, <2>2
<1>9. ASSUME NEW i \in 0 .. m
      PROVE  h[i] = IF i = 0 THEN << >>
                    ELSE IF matrix[i] THEN Append(h[i - 1], i - 1) ELSE h[i - 1]
  <2>1. h[i] = IF i = 0 THEN << >>
               ELSE IF matrix[i] THEN Append(g[i - 1], i - 1) ELSE g[i - 1]
    BY <1>7
  <2>2. CASE i = 0
    BY <2>1, <2>2
  <2>3. CASE i # 0
    <3>1. i - 1 \in 0 .. (m - 1)
      BY <1>3, <2>3
    <3>2. h[i - 1] = g[i - 1]
      BY <1>8, <3>1
    <3>3. QED
      BY <2>1, <2>3, <3>2
  <2>4. QED
    BY <2>2, <2>3
<1>10. h = [i \in 0 .. m |->
              IF i = 0 THEN << >>
              ELSE IF matrix[i] THEN Append(h[i - 1], i - 1) ELSE h[i - 1]]
  BY <1>7, <1>9
<1>11. QED
  BY <1>3, <1>10 DEF FiredUpTo

\* What fires is an index into the matrix.
LEMMA ActiveAreIndices ==
  ASSUME NEW w, NEW n \in Nat, Len(w.detector_matrix) = n
  PROVE  \A k \in DOMAIN ActiveDetectors(w) : ActiveDetectors(w)[k] \in 0 .. n - 1
<1> DEFINE matrix == w.detector_matrix
           g == CHOOSE g : FiredUpTo(matrix, g, n)
<1>1. FiredUpTo(matrix, g, n)
  BY FiredExist
<1>2. ActiveDetectors(w) = g[n]
  BY DEF ActiveDetectors, FiredUpTo
<1> HIDE DEF g
<1> DEFINE Bad == {i \in 0 .. n : g[i] \notin Seq(0 .. i - 1)}
<1>3. Bad = {}
  <2>1. SUFFICES ASSUME Bad # {} PROVE FALSE
    OBVIOUS
  <2>2. PICK i \in Bad : \A y \in Bad : i <= y
    <3>1. Bad \subseteq Nat
      OBVIOUS
    <3>2. QED
      BY <2>1, <3>1, LeastOf
  <2>3. i \in 0 .. n /\ g[i] \notin Seq(0 .. i - 1)
    OBVIOUS
  <2>4. CASE i = 0
    <3>1. g[i] = << >>
      BY <1>1, <2>3, <2>4 DEF FiredUpTo
    <3>2. QED
      BY <2>3, <3>1
  <2>5. CASE i # 0
    <3>1. PICK k \in 0 .. n : k = i - 1
      BY <2>3, <2>5
    <3>2. k \notin Bad
      BY <2>2, <3>1
    <3>3. g[k] \in Seq(0 .. k - 1)
      BY <3>2
    <3>4. 0 .. k - 1 \subseteq 0 .. i - 1 /\ k \in 0 .. i - 1
      BY <3>1, <2>3
    <3>5. g[k] \in Seq(0 .. i - 1)
      BY <3>3, <3>4
    <3>6. g[i] = (IF matrix[i] THEN Append(g[k], k) ELSE g[k])
      BY <1>1, <2>3, <2>5, <3>1 DEF FiredUpTo
    <3>7. Append(g[k], k) \in Seq(0 .. i - 1)
      BY <3>4, <3>5, AppendProperties
    <3>8. g[i] \in Seq(0 .. i - 1)
      BY <3>5, <3>6, <3>7
    <3>9. QED
      BY <2>3, <3>8
  <2>6. QED
    BY <2>4, <2>5
<1>4. n \notin Bad
  BY <1>3
<1>5. g[n] \in Seq(0 .. n - 1)
  BY <1>4
<1>6. QED
  BY <1>2, <1>5, ElementOfSeq

\* The matrix has a row for every round, of one entry for every ancilla.
LEMMA MatrixLength ==
  ASSUME NEW D, NEW rounds \in Seq(D), NEW width \in Nat
  PROVE  Len(RebuildMatrix(rounds, width)) = Len(rounds) * width
<1> DEFINE row(k) == Row(rounds[k].detector_events, width)
           rows == [k \in DOMAIN rounds |-> row(k)]
           S == {row(k)[i] : k \in DOMAIN rounds, i \in 1 .. width}
<1>1. ASSUME NEW k \in DOMAIN rounds
      PROVE  row(k) \in Seq(S) /\ Len(row(k)) = width
  <2>1. row(k) = [i \in 1 .. width |-> row(k)[i]]
    BY DEF Row
  <2>2. \A i \in 1 .. width : row(k)[i] \in S
    BY <1>1
  <2> HIDE DEF row, S
  <2>3. QED
    BY <2>1, <2>2
<1>2. RebuildMatrix(rounds, width) = FlattenSeq(rows)
  BY DEF RebuildMatrix
<1>3. Len(rounds) \in Nat /\ DOMAIN rounds = 1 .. Len(rounds)
  BY LenProperties
<1> HIDE DEF row, S
<1>4. rows \in Seq(Seq(S)) /\ Len(rows) = Len(rounds)
      /\ \A j \in 1 .. Len(rows) : Len(rows[j]) = width
  BY <1>1, <1>3
<1> HIDE DEF rows
<1>5. Len(FlattenSeq(rows)) = Len(rows) * width
  BY <1>4, FlatLength
<1>6. QED
  BY <1>2, <1>4, <1>5

-----------------------------------------------------------------------------
(* What fires in a window of inferred depth is a detector of the model. *)

\* The matrix is always that of the rounds held.
MatrixIsCurrent ==
  window # NoWindow =>
    window.detector_matrix = RebuildMatrix(window.frames, window.ancilla_count)

\* The depth is inferred, and a round has no more ancillas than the model detectors.
Fitting ==
  /\ window # NoWindow
  /\ window_depth_hint = 0
  /\ window.ancilla_count <= decoder.detector_count

\* The inductive invariant: the depth was inferred from the model that is set, and
\* no decode with it ended the process.
FitInv ==
  /\ WindowInv
  /\ handle \in {"null", "open", "aborted"}
  /\ window_depth_hint \in Depths \cup {0}
  /\ read \in 0 .. MaxFrames
  /\ Len(given) <= read
  /\ MatrixIsCurrent
  /\ decoder # Unset => dem_detector_count = decoder.detector_count
  /\ Fitting => handle # "aborted"

\* A window holds at least one round and at most its depth.
LEMMA WindowShape ==
  ASSUME WindowInv, MatrixIsCurrent, window # NoWindow
  PROVE  /\ decoder \in Models
         /\ First \in Frames
         /\ window.ancilla_count = First.ancilla_count /\ window.ancilla_count \in Nat
         /\ window.window_depth = Depth(First) /\ Depth(First) \in Nat \ {0}
         /\ Len(window.frames) \in 1 .. window.window_depth
         /\ Len(window.detector_matrix) = Len(window.frames) * window.ancilla_count
<1>1. decoder # Unset /\ SinceCount # 0 /\ decoder \in Models
  BY DEF WindowInv, WindowIsTheTail
<1>2. /\ given \in Seq(Given) /\ mark \in 0 .. Len(given)
      /\ window.window_depth = Depth(First)
      /\ window.ancilla_count = First.ancilla_count
      /\ window.frames = [k \in 1 .. HeldCount |-> Held[k].data]
  BY <1>1 DEF WindowInv, WindowIsTheTail
<1>3. Len(given) \in Nat /\ mark + 1 \in 1 .. Len(given)
  BY <1>1, <1>2 DEF SinceCount
<1>4. First \in Frames
  <2>1. given[mark + 1] \in Given
    BY <1>2, <1>3
  <2>2. QED
    BY <2>1 DEF First, Given
<1>5. First.ancilla_count \in Nat
  BY <1>4, CApiAssumption
<1>6. Depth(First) \in Nat \ {0}
  BY <1>4, DepthPositive DEF WindowInv
<1>7. SinceCount \in Nat \ {0} /\ SinceCount <= Len(given)
  BY <1>1, <1>2, <1>3 DEF SinceCount
<1>8. HeldCount \in 1 .. Depth(First) /\ HeldCount <= Len(given)
  <2>1. HeldCount = IF Depth(First) <= SinceCount THEN Depth(First) ELSE SinceCount
    BY <1>6, <1>7, MinOfTwo DEF HeldCount
  <2>2. QED
    BY <1>3, <1>6, <1>7, <2>1
<1>9. window.frames \in Seq({Held[k].data : k \in 1 .. HeldCount}) /\ Len(window.frames) = HeldCount
  <2>1. HeldCount \in Nat
    BY <1>6, <1>8
  <2>2. QED
    BY <1>2, <2>1
<1>10. Len(window.detector_matrix) = Len(window.frames) * window.ancilla_count
  BY <1>2, <1>5, <1>9, MatrixLength DEF MatrixIsCurrent
<1>11. QED
  BY <1>1, <1>2, <1>4, <1>5, <1>6, <1>8, <1>9, <1>10

\* A product is no greater than that of a greater factor.
LEMMA ProductGrows ==
  ASSUME NEW a \in Nat, NEW b \in Nat, NEW c \in Nat, a <= b
  PROVE  a * c <= b * c /\ a * c \in Nat
OBVIOUS

\* The whole part of a quotient, times the divisor, is no more than what was divided.
LEMMA QuotientBound ==
  ASSUME NEW a \in Nat, NEW b \in Nat \ {0}
  PROVE  a \div b \in Nat /\ (a \div b) * b <= a /\ (b <= a => a \div b >= 1)
<1>1. PICK q \in Int, r \in 0 .. b - 1 : q = a \div b /\ a = b * q + r
  OBVIOUS
<1>2. q \in Nat
  <2>1. q >= 0
    BY <1>1
  <2>2. QED
    BY <2>1
<1>3. q * b <= a
  BY <1>1
<1>4. b <= a => q >= 1
  BY <1>1
<1>5. QED
  BY <1>1, <1>2, <1>3, <1>4

\* The rounds of a window of inferred depth have no more ancillas, all of them
\* together, than the model has detectors.
LEMMA RoundsFit ==
  ASSUME WindowInv, MatrixIsCurrent, Fitting, dem_detector_count = decoder.detector_count
  PROVE  /\ decoder.detector_count \in Nat
         /\ Len(window.detector_matrix) \in Nat
         /\ Len(window.detector_matrix) <= decoder.detector_count
<1>1. PICK n, width, held : /\ n = decoder.detector_count
                            /\ width = window.ancilla_count
                            /\ held = Len(window.frames)
  OBVIOUS
<1>2. /\ decoder \in Models
      /\ width = First.ancilla_count /\ width \in Nat
      /\ held \in 1 .. Depth(First) /\ Depth(First) \in Nat \ {0}
      /\ Len(window.detector_matrix) = held * width
  BY <1>1, WindowShape DEF Fitting
<1>3. n \in Nat
  BY <1>1, <1>2, CApiAssumption
<1>4. held \in Nat /\ held * width \in Nat
  BY <1>2, ProductGrows
<1>5. width <= n
  BY <1>1 DEF Fitting
<1>6. CASE width = 0
  <2>1. held * width = 0
    BY <1>4, <1>6
  <2>2. QED
    BY <1>1, <1>2, <1>3, <2>1
<1>7. CASE width # 0
  <2>1. Max({width, 1}) = width
    BY <1>2, <1>7, MaxOfTwo
  <2>2. PICK q \in Nat : q = n \div width /\ q * width <= n /\ q >= 1
    BY <1>2, <1>3, <1>5, <1>7, QuotientBound
  <2>3. Depth(First) = Max({q, 1})
    BY <1>1, <1>2, <2>1, <2>2 DEF Depth, Fitting
  <2>4. Depth(First) = q
    BY <2>2, <2>3, MaxOfTwo
  <2>5. held <= q
    BY <1>2, <2>4
  <2>6. held * width <= q * width
    BY <1>2, <1>4, <2>2, <2>5, ProductGrows
  <2>7. q * width \in Nat
    BY <1>2, <2>2, ProductGrows
  <2>8. held * width <= n
    BY <1>3, <1>4, <2>2, <2>6, <2>7
  <2>9. QED
    BY <1>1, <1>2, <1>3, <1>4, <2>8
<1>8. QED
  BY <1>6, <1>7

\* So what fires is a detector of the model, and a node of its graph.
LEMMA FiredAreDetectors ==
  ASSUME WindowInv, MatrixIsCurrent, Fitting, dem_detector_count = decoder.detector_count
  PROVE  /\ \A k \in DOMAIN ActiveDetectors(window) :
              /\ ActiveDetectors(window)[k] < decoder.detector_count
              /\ ActiveDetectors(window)[k] \in NodesOf(FromDem(decoder))
<1>1. PICK n, d : n = Len(window.detector_matrix) /\ d = decoder.detector_count
  OBVIOUS
<1>2. n \in Nat /\ d \in Nat /\ n <= d
  BY <1>1, RoundsFit
<1>3. \A k \in DOMAIN ActiveDetectors(window) : ActiveDetectors(window)[k] \in 0 .. n - 1
  BY <1>1, <1>2, ActiveAreIndices
<1>4. NodesOf(FromDem(decoder)) = 0 .. d
  <2>1. FromDem(decoder).nodes = d + 1
    BY <1>1 DEF FromDem
  <2>2. QED
    BY <1>2, <2>1 DEF NodesOf, Boundary
<1>5. ASSUME NEW k \in DOMAIN ActiveDetectors(window)
      PROVE  ActiveDetectors(window)[k] < d /\ ActiveDetectors(window)[k] \in 0 .. d
  <2>1. ActiveDetectors(window)[k] \in 0 .. n - 1
    BY <1>3
  <2>2. QED
    BY <1>2, <2>1
<1>6. QED
  BY <1>1, <1>4, <1>5

\* The invariant says so.
LEMMA FitInvFits == FitInv => InferredDepthFits
<1>1. SUFFICES ASSUME FitInv, Fitting
               PROVE  /\ handle # "aborted"
                      /\ \A node \in Range(ActiveDetectors(window)) : node < decoder.detector_count
  BY DEF InferredDepthFits, Fitting
<1>2. WindowInv /\ MatrixIsCurrent /\ window # NoWindow
  BY <1>1 DEF FitInv, Fitting
<1>3. dem_detector_count = decoder.detector_count
  <2>1. decoder \in Models
    BY <1>2, WindowShape
  <2>2. decoder # Unset
    BY <2>1, CApiAssumption
  <2>3. QED
    BY <1>1, <2>2 DEF FitInv
<1>4. \A k \in DOMAIN ActiveDetectors(window) :
        ActiveDetectors(window)[k] < decoder.detector_count
  BY <1>1, <1>2, <1>3, FiredAreDetectors
<1>5. handle # "aborted"
  BY <1>1 DEF FitInv
<1>6. QED
  BY <1>4, <1>5 DEF Range

\* At the start.
LEMMA FitInvInit == Init => FitInv
<1>1. SUFFICES ASSUME Init PROVE FitInv
  OBVIOUS
<1>2. WindowInv
  BY <1>1, WindowInvInit
<1>3. window = NoWindow /\ decoder = Unset
  BY <1>1 DEF Init, InnerInit
<1>4. /\ handle \in {"null", "open", "aborted"}
      /\ window_depth_hint \in Depths \cup {0}
      /\ read \in 0 .. MaxFrames
      /\ Len(given) <= read
  BY <1>1, CApiAssumption DEF Init, InnerInit
<1>5. QED
  BY <1>2, <1>3, <1>4 DEF FitInv, MatrixIsCurrent, Fitting

\* The types follow.
LEMMA FitInvTypes == FitInv => TypeOK
<1>1. SUFFICES ASSUME FitInv PROVE TypeOK
  OBVIOUS
<1>2. ASSUME window # NoWindow
      PROVE  /\ Len(window.frames) \in 1 .. window.window_depth
             /\ Len(window.detector_matrix) = Len(window.frames) * window.ancilla_count
  BY <1>1, <1>2, WindowShape DEF FitInv
<1>3. QED
  BY <1>1, <1>2 DEF FitInv, WindowInv, TypeOK

\* A handle that starts afresh has no window.
LEMMA FreshFits ==
  ASSUME Fresh, handle' \in {"null", "open"}
  PROVE  FitInv'
<1>1. WindowInv'
  BY FreshKeeps
<1>2. window' = NoWindow' /\ decoder' = Unset
  BY DEF Fresh, NoWindow
<1>3. window_depth_hint' = 0 /\ read' \in 0 .. MaxFrames /\ Len(given') <= read'
  BY CApiAssumption DEF Fresh
<1>4. QED
  BY <1>1, <1>2, <1>3 DEF FitInv, MatrixIsCurrent, Fitting

\* Steps that leave the window and the model alone, and the process alive.
LEMMA OthersFit ==
  ASSUME FitInv, WindowInv', read' \in 0 .. MaxFrames, Len(given') <= read',
         UNCHANGED <<decoder, window, window_depth_hint, dem_detector_count>>,
         handle' = handle
  PROVE  FitInv'
<1>1. MatrixIsCurrent' /\ Fitting' = Fitting
  BY DEF FitInv, MatrixIsCurrent, Fitting, NoWindow
<1>2. QED
  BY <1>1 DEF FitInv

\* The matrix is made anew with every push.
LEMMA NextFrameFits ==
  ASSUME FitInv, NEW frame \in Frames, NextFrame(frame)
  PROVE  FitInv'
<1>1. WindowInv'
  BY NextFrameKeeps DEF FitInv
<1>2. /\ handle' = "open" /\ read' = read + 1 /\ read < MaxFrames
      /\ Len(given') = Len(given) + 1
      /\ UNCHANGED <<decoder, window_depth_hint, dem_detector_count>>
  BY HeldGrows DEF FitInv, NextFrame
<1>3. read' \in 0 .. MaxFrames /\ Len(given') <= read'
  <2>1. Len(given) \in Nat
    BY DEF FitInv, WindowInv
  <2>2. QED
    BY <1>2, <2>1, CApiAssumption DEF FitInv
<1>4. MatrixIsCurrent'
  <2>1. CASE decoder = Unset
    <3>1. window' = window /\ NoWindow' = NoWindow
      BY <2>1 DEF NextFrame, PushFrameToWindow, NoWindow
    <3>2. QED
      BY <3>1 DEF FitInv, MatrixIsCurrent
  <2>2. CASE decoder # Unset
    <3>1. PICK w : window' = PushOwned(w, Owned(frame))
      BY <2>2 DEF NextFrame, PushFrameToWindow
    <3>2. window'.detector_matrix = RebuildMatrix(window'.frames, window'.ancilla_count)
      BY <3>1 DEF PushOwned
    <3>3. QED
      BY <3>2 DEF MatrixIsCurrent
  <2>3. QED
    BY <2>1, <2>2
<1>5. QED
  BY <1>1, <1>2, <1>3, <1>4 DEF FitInv

\* A new model is counted, and takes the window away.
LEMMA SetDecoderDemFits ==
  ASSUME FitInv, NEW dem \in Models, NEW depth \in Depths, SetDecoderDem(dem, depth)
  PROVE  FitInv'
<1>1. WindowInv'
  BY SetDecoderDemKeeps DEF FitInv
<1>2. /\ handle' = "open" /\ window' = NoWindow'
      /\ decoder' = dem /\ dem_detector_count' = dem.detector_count
      /\ window_depth_hint' = depth /\ UNCHANGED <<read, given>>
  BY DEF SetDecoderDem, NoWindow
<1>3. QED
  BY <1>1, <1>2 DEF FitInv, MatrixIsCurrent, Fitting

\* A decode leaves the window alone, and ends the process only if something
\* fired that is no node of the graph.
LEMMA DecodeWindowFits ==
  ASSUME FitInv, DecodeWindow
  PROVE  FitInv'
<1>1. /\ UNCHANGED <<decoder, window, window_depth_hint, dem_detector_count, read, given, mark>>
      /\ handle = "open" /\ decoder # Unset
  BY DEF DecodeWindow, history
<1>2. WindowInv'
  BY <1>1, UnchangedKeeps DEF FitInv, WindowInv
<1>3. CASE handle' = handle
  BY <1>1, <1>2, <1>3, OthersFit DEF FitInv
<1>4. CASE handle' # handle
  <2>1. /\ handle' = "aborted"
        /\ \E k \in DOMAIN ActiveDetectors(window) :
             ActiveDetectors(window)[k] \notin NodesOf(FromDem(decoder))
    BY <1>4 DEF DecodeWindow
  <2>2. ~ Fitting
    BY <1>1, <2>1, FiredAreDetectors DEF FitInv
  <2>3. ~ Fitting' /\ MatrixIsCurrent'
    BY <1>1, <2>2 DEF FitInv, Fitting, MatrixIsCurrent, NoWindow
  <2>4. QED
    BY <1>1, <1>2, <2>1, <2>3 DEF FitInv
<1>5. QED
  BY <1>3, <1>4

\* Every step keeps the invariant.
LEMMA FitInvStep == FitInv /\ [Next]_vars => FitInv'
<1> SUFFICES ASSUME FitInv, [Next]_vars
             PROVE  FitInv'
  OBVIOUS
<1>0. WindowInv' /\ Len(given) \in Nat
  BY WindowInvStep DEF FitInv, WindowInv
<1> USE DEF inner, history
<1>1. CASE Open
  BY <1>1, FreshFits DEF Open
<1>2. CASE OpenFails
  BY <1>0, <1>2, OthersFit DEF OpenFails, FitInv
<1>3. CASE Close
  BY <1>3, FreshFits DEF Close
<1>4. ASSUME NEW frame \in Frames, NextFrame(frame)
      PROVE  FitInv'
  BY <1>4, NextFrameFits
<1>5. CASE BufferTooSmall
  <2>1. read' \in 0 .. MaxFrames /\ Len(given') <= read'
    BY <1>0, <1>5, CApiAssumption DEF BufferTooSmall, FitInv
  <2>2. QED
    BY <1>0, <1>5, <2>1, OthersFit DEF BufferTooSmall, FitInv
<1>6. CASE NextFrameFails
  BY <1>0, <1>6, OthersFit DEF NextFrameFails, FitInv
<1>7. ASSUME NEW dem \in Models, NEW depth \in Depths, SetDecoderDem(dem, depth)
      PROVE  FitInv'
  BY <1>7, SetDecoderDemFits
<1>8. CASE SetDecoderDemFails
  BY <1>0, <1>8, OthersFit DEF SetDecoderDemFails, FitInv
<1>9. CASE NoDecoder
  BY <1>0, <1>9, OthersFit DEF NoDecoder, FitInv
<1>10. CASE DecodeWindow
  BY <1>10, DecodeWindowFits
<1>11. CASE UNCHANGED vars
  BY <1>0, <1>11, OthersFit DEF vars, FitInv
<1>12. QED
  BY <1>1, <1>2, <1>3, <1>4, <1>5, <1>6, <1>7, <1>8, <1>9, <1>10, <1>11 DEF Next, DecodeFrame

\* The fields of a handle keep their types, and the matrix of its window always
\* has a row for every round held (inner.rs, window.rs).
THEOREM TypeCorrect == Spec => []TypeOK
BY FitInvInit, FitInvStep, FitInvTypes, PTL DEF Spec

\* Where a caller lets the depth be inferred, no decode ends the process: what
\* fires in the window is a detector of the model that is set, whatever widths
\* the frames have and however often the model is replaced, unless one round
\* alone has more ancillas than the model detectors (stabstream_decode_frame,
\* c_api.rs; decode_active, union_find.rs).
THEOREM InferredDepthsFit == Spec => []InferredDepthFits
BY FitInvInit, FitInvStep, FitInvFits, PTL DEF Spec
-----------------------------------------------------------------------------
(* The forest of the union-find decoder.  root is what each node's path      *)
(* leads to; ranks grow along it, so that there is no way back.              *)

Forest(V, parent, rank, root) ==
  /\ parent \in [V -> V]
  /\ rank \in [V -> Nat]
  /\ root \in [V -> V]
  /\ \A x \in V : root[root[x]] = root[x]
  /\ \A x \in V : root[parent[x]] = root[x]
  /\ \A x \in V : root[x] = x <=> parent[x] = x
  /\ \A x \in V : parent[x] # x => rank[x] < rank[parent[x]]

\* A turn of find stays in the tree and, unless it is there, comes nearer the root.
LEMMA HalveClimbs ==
  ASSUME NEW V, NEW rank, NEW root, NEW parent, Forest(V, parent, rank, root), NEW x \in V,
         NEW at, at = Halve([x |-> x, parent |-> parent])
  PROVE  /\ at.x \in V /\ at = [x |-> at.x, parent |-> at.parent]
         /\ root[at.x] = root[x]
         /\ Forest(V, at.parent, rank, root)
         /\ parent[x] = x => at.x = x
         /\ parent[x] # x => rank[at.x] > rank[x]
<1>1. PICK p, g : p = parent[x] /\ g = parent[p]
  OBVIOUS
<1>2. p \in V /\ g \in V /\ root[g] = root[x] /\ rank \in [V -> Nat]
  BY <1>1 DEF Forest
<1>3. CASE p = x
  <2>1. at = [x |-> x, parent |-> parent]
    BY <1>1, <1>3 DEF Halve
  <2>2. QED
    BY <1>1, <1>3, <2>1
<1>4. CASE p # x
  <2>1. at = [x |-> g, parent |-> [parent EXCEPT ![x] = g]]
    BY <1>1, <1>4 DEF Halve
  <2>2. rank[x] < rank[g]
    <3>1. rank[x] < rank[p]
      BY <1>1, <1>4 DEF Forest
    <3>2. rank[p] <= rank[g]
      BY <1>1, <1>2 DEF Forest
    <3>3. rank[x] \in Nat /\ rank[p] \in Nat /\ rank[g] \in Nat
      BY <1>2
    <3>4. QED
      BY <3>1, <3>2, <3>3
  <2>3. PICK q : q = at.parent
    OBVIOUS
  <2>4. q \in [V -> V] /\ q[x] = g /\ \A y \in V : y # x => q[y] = parent[y]
    BY <1>2, <2>1, <2>3 DEF Forest
  <2>5. g # x /\ root[x] # x
    BY <1>1, <1>2, <1>4, <2>2 DEF Forest
  <2>6. Forest(V, q, rank, root)
    <3>1. \A y \in V : root[q[y]] = root[y]
      BY <1>2, <2>4 DEF Forest
    <3>2. \A y \in V : root[y] = y <=> q[y] = y
      BY <2>4, <2>5 DEF Forest
    <3>3. \A y \in V : q[y] # y => rank[y] < rank[q[y]]
      BY <2>2, <2>4 DEF Forest
    <3>4. QED
      BY <2>4, <3>1, <3>2, <3>3 DEF Forest
  <2>7. at.x = g /\ at = [x |-> at.x, parent |-> at.parent]
    <3>1. PICK e : e = [parent EXCEPT ![x] = g]
      OBVIOUS
    <3>2. at = [x |-> g, parent |-> e]
      BY <2>1, <3>1
    <3>3. QED
      BY <3>2
  <2>8. QED
    BY <1>1, <1>2, <1>4, <2>2, <2>3, <2>6, <2>7
<1>5. QED
  BY <1>3, <1>4

\* The turns of find.
Turns(t, n, parent, x) ==
  t = [i \in 0 .. n |-> IF i = 0 THEN [x |-> x, parent |-> parent] ELSE Halve(t[i - 1])]

\* find finds the root, however long the path is, and the forest stays one.
LEMMA FindFinds ==
  ASSUME NEW V, IsFiniteSet(V), NEW rank, NEW root, NEW parent,
         Forest(V, parent, rank, root), \A y \in V : rank[y] < Cardinality(V),
         NEW x \in V
  PROVE  /\ Find(parent, x).x = root[x]
         /\ Forest(V, Find(parent, x).parent, rank, root)
<1> DEFINE S == {at \in [x : V, parent : [V -> V]] :
                   root[at.x] = root[x] /\ Forest(V, at.parent, rank, root)}
           base == [x |-> x, parent |-> parent]
<1>1. PICK n : n = Cardinality(V)
  OBVIOUS
<1>2. n \in Nat
  BY <1>1, FS_CardinalityType
<1>3. base \in S
  BY DEF Forest
<1>4. ASSUME NEW at \in S
      PROVE  /\ Halve(at) \in S
             /\ at.parent[at.x] = at.x => Halve(at).x = at.x
             /\ at.parent[at.x] # at.x => rank[Halve(at).x] > rank[at.x]
  <2>1. at = [x |-> at.x, parent |-> at.parent] /\ at.x \in V /\ root[at.x] = root[x]
        /\ Forest(V, at.parent, rank, root)
    OBVIOUS
  <2>2. PICK next : next = Halve(at)
    OBVIOUS
  <2>3. /\ next.x \in V /\ next = [x |-> next.x, parent |-> next.parent]
        /\ root[next.x] = root[x]
        /\ Forest(V, next.parent, rank, root)
        /\ at.parent[at.x] = at.x => next.x = at.x
        /\ at.parent[at.x] # at.x => rank[next.x] > rank[at.x]
    BY <2>1, <2>2, HalveClimbs
  <2>4. next.parent \in [V -> V]
    BY <2>3 DEF Forest
  <2>5. next \in S
    BY <2>3, <2>4
  <2>6. QED
    BY <2>2, <2>3, <2>5
<1>5. \E t : Turns(t, n, parent, x)
  <2>1. PICK step : step = [i \in 1 .. n |-> [at \in S |-> Halve(at)]]
    OBVIOUS
  <2> HIDE DEF S, base
  <2>8. step \in [1 .. n -> [S -> S]]
    BY <1>4, <2>1
  <2>2. \A i \in 1 .. n : \A at \in S : step[i][at] = Halve(at)
    BY <2>1
  <2>3. PICK f : Recursion(f, n, S, base, step)
    BY <1>2, <1>3, <2>8, RecursionExists
  <2>4. ASSUME NEW i \in 1 .. n PROVE f[i] = Halve(f[i - 1])
    <3>1. f[i - 1] \in S
      BY <1>2, <2>3 DEF Recursion
    <3>2. QED
      BY <2>2, <2>3, <3>1 DEF Recursion
  <2>5. \A i \in 0 .. n : f[i] = IF i = 0 THEN base ELSE Halve(f[i - 1])
    BY <1>2, <2>3, <2>4 DEF Recursion
  <2>6. f = [i \in 0 .. n |-> IF i = 0 THEN base ELSE Halve(f[i - 1])]
    BY <2>3, <2>5 DEF Recursion
  <2>7. QED
    BY <2>6 DEF Turns, base
<1> DEFINE t == CHOOSE t : Turns(t, n, parent, x)
<1>6. Turns(t, n, parent, x)
  BY <1>5
<1>7. Find(parent, x) = t[n]
  <2>1. DOMAIN parent = V
    BY DEF Forest
  <2>2. QED
    BY <1>1, <2>1 DEF Find, Turns
<1> HIDE DEF t
<1> DEFINE P == {i \in 0 .. n : t[i] \in S
                                /\ (t[i].parent[t[i].x] = t[i].x \/ rank[t[i].x] >= i)}
<1>8. t[0] = base /\ \A i \in 1 .. n : t[i] = Halve(t[i - 1])
  BY <1>2, <1>6 DEF Turns
<1>9. rank \in [V -> Nat]
  BY DEF Forest
<1>10. 0 \in P
  <2>1. t[0] \in S /\ rank[t[0].x] >= 0
    BY <1>3, <1>8, <1>9
  <2>2. QED
    BY <1>2, <2>1
<1>11. ASSUME NEW i \in 1 .. n, i - 1 \in P
       PROVE  i \in P
  <2> DEFINE at == t[i - 1]
  <2>1. at \in S /\ t[i] = Halve(at) /\ (at.parent[at.x] = at.x \/ rank[at.x] >= i - 1)
    BY <1>8, <1>11
  <2>2. t[i] \in S
    BY <1>4, <2>1
  <2>3. t[i].parent[t[i].x] = t[i].x \/ rank[t[i].x] >= i
    <3>1. CASE at.parent[at.x] = at.x
      <4>1. t[i].x = at.x
        BY <1>4, <2>1, <3>1
      <4>2. at.x \in V /\ root[at.x] = at.x
        BY <2>1, <3>1 DEF Forest
      <4>3. QED
        BY <2>2, <4>1, <4>2 DEF Forest
    <3>2. CASE at.parent[at.x] # at.x
      <4>1. rank[t[i].x] > rank[at.x] /\ rank[at.x] >= i - 1
        BY <1>4, <2>1, <3>2
      <4>2. rank[t[i].x] \in Nat /\ rank[at.x] \in Nat
        BY <1>9, <2>1, <2>2
      <4>3. QED
        BY <4>1, <4>2
    <3>3. QED
      BY <3>1, <3>2
  <2>4. QED
    BY <2>2, <2>3
<1>12. n \in P
  <2> HIDE DEF P
  <2>1. 0 .. n \subseteq P
    BY <1>2, <1>10, <1>11, UpTo
  <2>2. QED
    BY <1>2, <2>1
<1>13. t[n] \in S /\ t[n].parent[t[n].x] = t[n].x
  <2>1. t[n] \in S /\ t[n].x \in V
    BY <1>12
  <2>2. rank[t[n].x] < n /\ rank[t[n].x] \in Nat
    BY <1>1, <1>9, <2>1
  <2>3. QED
    BY <1>2, <1>12, <2>1, <2>2
<1>14. root[t[n].x] = t[n].x /\ root[t[n].x] = root[x] /\ Forest(V, t[n].parent, rank, root)
  BY <1>13 DEF Forest
<1>15. QED
  BY <1>7, <1>14

-----------------------------------------------------------------------------
(* Trees, and what is counted at their roots.                                *)

Tree(V, root, r) == {x \in V : root[x] = r}

\* A node has no higher a rank than its root, and a root a lower one than its
\* tree has nodes: no path is longer than that.
Ranked(V, rank, root) ==
  \A x \in V : /\ rank[x] <= rank[root[x]]
               /\ rank[root[x]] < Cardinality(Tree(V, root, root[x]))

Counted(V, count, root, active) ==
  /\ count \in [V -> Nat]
  /\ \A r \in V : root[r] = r => count[r] = Cardinality(Tree(V, root, r) \cap active)

\* The arrays stand for the trees of root, with the active detectors in them.
Stands(V, uf, root, active) ==
  /\ uf = [parent |-> uf.parent, rank |-> uf.rank, count |-> uf.count]
  /\ Forest(V, uf.parent, uf.rank, root)
  /\ Ranked(V, uf.rank, root)
  /\ Counted(V, uf.count, root, active)

\* Trees are finite, and no larger than the graph.
LEMMA TreesAreFinite ==
  ASSUME NEW V, IsFiniteSet(V), NEW root, NEW r
  PROVE  /\ Tree(V, root, r) \subseteq V
         /\ IsFiniteSet(Tree(V, root, r))
         /\ Cardinality(Tree(V, root, r)) \in Nat /\ Cardinality(V) \in Nat
         /\ Cardinality(Tree(V, root, r)) <= Cardinality(V)
<1>1. Tree(V, root, r) \in SUBSET V
  BY DEF Tree
<1>2. QED
  BY <1>1, FS_Subset, FS_CardinalityType

\* No rank is as high as there are nodes.
LEMMA RanksAreLow ==
  ASSUME NEW V, IsFiniteSet(V), NEW parent, NEW rank, NEW root,
         Forest(V, parent, rank, root), Ranked(V, rank, root)
  PROVE  \A x \in V : rank[x] < Cardinality(V)
<1>1. SUFFICES ASSUME NEW x \in V PROVE rank[x] < Cardinality(V)
  OBVIOUS
<1>2. PICK c, n : c = Cardinality(Tree(V, root, root[x])) /\ n = Cardinality(V)
  OBVIOUS
<1>3. c \in Nat /\ n \in Nat /\ c <= n
  BY <1>2, TreesAreFinite
<1>4. rank[x] \in Nat /\ rank[root[x]] \in Nat
  BY DEF Forest
<1>5. rank[x] <= rank[root[x]] /\ rank[root[x]] < c
  BY <1>2 DEF Ranked
<1>6. QED
  BY <1>2, <1>3, <1>4, <1>5

\* Finding a root leaves all of this alone.
LEMMA FindStands ==
  ASSUME NEW V, IsFiniteSet(V), NEW uf, NEW root, NEW active, Stands(V, uf, root, active),
         NEW x \in V, NEW f, f = Find(uf.parent, x)
  PROVE  /\ f.x = root[x]
         /\ Stands(V, [uf EXCEPT !.parent = f.parent], root, active)
<1>1. \A y \in V : uf.rank[y] < Cardinality(V)
  BY RanksAreLow DEF Stands
<1>2. f.x = root[x] /\ Forest(V, f.parent, uf.rank, root)
  BY <1>1, FindFinds DEF Stands
<1>3. PICK new : new = [uf EXCEPT !.parent = f.parent]
  OBVIOUS
<1>4. new = [parent |-> f.parent, rank |-> uf.rank, count |-> uf.count]
  BY <1>3 DEF Stands
<1>5. /\ new.parent = f.parent /\ new.rank = uf.rank /\ new.count = uf.count
      /\ new = [parent |-> new.parent, rank |-> new.rank, count |-> new.count]
  BY <1>4
<1>6. QED
  BY <1>2, <1>3, <1>5 DEF Stands

\* After a reset every node is a tree, and none counts.
LEMMA ResetStands ==
  ASSUME NEW V, NEW uf, DOMAIN uf.parent = V, DOMAIN uf.rank = V, DOMAIN uf.count = V
  PROVE  Stands(V, Reset(uf), [x \in V |-> x], {})
<1>1. PICK new, root : new = Reset(uf) /\ root = [x \in V |-> x]
  OBVIOUS
<1>2. PICK zero : zero = [x \in V |-> 0]
  OBVIOUS
<1>3. new = [parent |-> root, rank |-> zero, count |-> zero]
  BY <1>1, <1>2 DEF Reset
<1>4. /\ new.parent = root /\ new.rank = zero /\ new.count = zero
      /\ new = [parent |-> new.parent, rank |-> new.rank, count |-> new.count]
  BY <1>3
<1>5. Forest(V, root, zero, root)
  BY <1>1, <1>2 DEF Forest
<1>6. ASSUME NEW r \in V
      PROVE  Cardinality(Tree(V, root, r)) = 1 /\ Cardinality(Tree(V, root, r) \cap {}) = 0
  <2>1. Tree(V, root, r) = {r} /\ Tree(V, root, r) \cap {} = {}
    BY <1>1 DEF Tree
  <2>2. QED
    BY <2>1, FS_Singleton, FS_EmptySet
<1>7. Ranked(V, zero, root)
  BY <1>1, <1>2, <1>6 DEF Ranked
<1>8. Counted(V, zero, root, {})
  BY <1>1, <1>2, <1>6 DEF Counted
<1>9. QED
  BY <1>1, <1>4, <1>5, <1>7, <1>8 DEF Stands

\* A seed counts one more active detector at the root of its tree.
LEMMA SeedStands ==
  ASSUME NEW V, IsFiniteSet(V), NEW uf, NEW root, NEW active, Stands(V, uf, root, active),
         NEW det \in V, det \notin active
  PROVE  Stands(V, Seed(uf, det), root, active \cup {det})
<1>1. PICK f : f = Find(uf.parent, det)
  OBVIOUS
<1>2. PICK found : found = [uf EXCEPT !.parent = f.parent]
  OBVIOUS
<1>3. f.x = root[det] /\ Stands(V, found, root, active)
  BY <1>1, <1>2, FindStands
<1>4. PICK r : r = root[det]
  OBVIOUS
<1>5. r \in V /\ root[r] = r
  BY <1>3, <1>4 DEF Stands, Forest
<1>6. PICK count : count = [uf.count EXCEPT ![r] = @ + 1]
  OBVIOUS
<1>7. uf = [parent |-> uf.parent, rank |-> uf.rank, count |-> uf.count]
  BY DEF Stands
<1>8. Seed(uf, det) = [parent |-> f.parent, rank |-> uf.rank, count |-> count]
  <2>1. Seed(uf, det) = [found EXCEPT !.count[r] = @ + 1]
    BY <1>1, <1>2, <1>3, <1>4 DEF Seed
  <2>2. found = [parent |-> f.parent, rank |-> uf.rank, count |-> uf.count]
    BY <1>2, <1>7
  <2>3. [found EXCEPT !.count[r] = @ + 1] = [found EXCEPT !.count = count]
    BY <1>6, <2>2
  <2>4. [found EXCEPT !.count = count]
          = [parent |-> f.parent, rank |-> uf.rank, count |-> count]
    BY <2>2
  <2>5. QED
    BY <2>1, <2>3, <2>4
<1>9. found.parent = f.parent /\ found.rank = uf.rank
  BY <1>2, <1>7
<1>10. Counted(V, count, root, active \cup {det})
  <2>1. uf.count \in [V -> Nat]
    BY DEF Stands, Counted
  <2>2. count \in [V -> Nat] /\ count[r] = uf.count[r] + 1
        /\ \A y \in V : y # r => count[y] = uf.count[y]
    BY <1>5, <1>6, <2>1
  <2>3. ASSUME NEW y \in V, root[y] = y
        PROVE  count[y] = Cardinality(Tree(V, root, y) \cap (active \cup {det}))
    <3>1. uf.count[y] = Cardinality(Tree(V, root, y) \cap active)
      BY <2>3 DEF Stands, Counted
    <3>2. CASE y = r
      <4>1. Tree(V, root, y) \cap (active \cup {det}) = (Tree(V, root, y) \cap active) \cup {det}
        BY <1>4, <3>2 DEF Tree
      <4>2. IsFiniteSet(Tree(V, root, y) \cap active) /\ det \notin Tree(V, root, y) \cap active
        BY TreesAreFinite, FS_Intersection
      <4>3. PICK T : T = Tree(V, root, y) \cap active
        OBVIOUS
      <4>4. Cardinality(T \cup {det}) = Cardinality(T) + 1
        BY <4>2, <4>3, FS_AddElement
      <4>5. count[y] = uf.count[y] + 1
        BY <2>2, <3>2
      <4>6. QED
        BY <3>1, <4>1, <4>3, <4>4, <4>5
    <3>3. CASE y # r
      <4>1. Tree(V, root, y) \cap (active \cup {det}) = Tree(V, root, y) \cap active
        BY <1>4, <3>3 DEF Tree
      <4>2. QED
        BY <2>2, <3>1, <3>3, <4>1
    <3>4. QED
      BY <3>2, <3>3
  <2>4. QED
    BY <2>2, <2>3 DEF Counted
<1>11. PICK new : new = Seed(uf, det)
  OBVIOUS
<1>12. /\ new.parent = f.parent /\ new.rank = uf.rank /\ new.count = count
       /\ new = [parent |-> new.parent, rank |-> new.rank, count |-> new.count]
  BY <1>8, <1>11
<1>13. QED
  BY <1>3, <1>9, <1>10, <1>11, <1>12 DEF Stands

-----------------------------------------------------------------------------
(* Two trees become one: the root l hangs under the root w.                  *)

IsRootOf(V, root) ==
  root \in [V -> V] /\ \A x \in V : root[root[x]] = root[x]

Hung(V, root, l, w) == [x \in V |-> IF root[x] = l THEN w ELSE root[x]]

\* The tree of w gets the nodes of the tree of l, and the other trees stay.
LEMMA HungTrees ==
  ASSUME NEW V, NEW root, IsRootOf(V, root),
         NEW l \in V, NEW w \in V, root[l] = l, root[w] = w, l # w
  PROVE  /\ IsRootOf(V, Hung(V, root, l, w))
         /\ \A r \in V : Hung(V, root, l, w)[r] = r <=> root[r] = r /\ r # l
         /\ Tree(V, Hung(V, root, l, w), w) = Tree(V, root, l) \cup Tree(V, root, w)
         /\ \A r \in V : r # l /\ r # w => Tree(V, Hung(V, root, l, w), r) = Tree(V, root, r)
         /\ Tree(V, root, l) \cap Tree(V, root, w) = {}
         /\ l \in Tree(V, root, l) /\ w \in Tree(V, root, w)
<1>1. PICK new : new = Hung(V, root, l, w)
  OBVIOUS
<1>2. /\ new \in [V -> V] /\ root \in [V -> V]
      /\ \A x \in V : new[x] = IF root[x] = l THEN w ELSE root[x]
  BY <1>1 DEF Hung, IsRootOf
<1>3. \A x \in V : root[root[x]] = root[x]
  BY DEF IsRootOf
<1>4. IsRootOf(V, new)
  BY <1>2, <1>3 DEF IsRootOf
<1>5. \A r \in V : new[r] = r <=> root[r] = r /\ r # l
  BY <1>2, <1>3
<1>6. Tree(V, new, w) = Tree(V, root, l) \cup Tree(V, root, w)
  BY <1>2 DEF Tree
<1>7. \A r \in V : r # l /\ r # w => Tree(V, new, r) = Tree(V, root, r)
  BY <1>2 DEF Tree
<1>8. /\ Tree(V, root, l) \cap Tree(V, root, w) = {}
      /\ l \in Tree(V, root, l) /\ w \in Tree(V, root, w)
  BY DEF Tree
<1>9. QED
  BY <1>1, <1>4, <1>5, <1>6, <1>7, <1>8

\* Sets of nodes that do not meet: their union has as many as they have together.
LEMMA CardinalitiesAdd ==
  ASSUME NEW A, NEW B, IsFiniteSet(A), IsFiniteSet(B), A \cap B = {}
  PROVE  /\ IsFiniteSet(A \cup B)
         /\ Cardinality(A) \in Nat /\ Cardinality(B) \in Nat
         /\ Cardinality(A \cup B) = Cardinality(A) + Cardinality(B)
<1>1. Cardinality(A \cap B) = 0
  BY FS_EmptySet
<1>2. /\ IsFiniteSet(A \cup B)
      /\ Cardinality(A \cup B) = Cardinality(A) + Cardinality(B) - Cardinality(A \cap B)
  BY FS_Union
<1>3. Cardinality(A) \in Nat /\ Cardinality(B) \in Nat
  BY FS_CardinalityType
<1>4. QED
  BY <1>1, <1>2, <1>3

\* A rank for w that is above that of l, and no higher than it has to be.
RankFor(V, rank, l, w, rank2) ==
  /\ rank2 \in [V -> Nat]
  /\ \A x \in V : x # w => rank2[x] = rank[x]
  /\ rank2[w] >= rank[w] /\ rank2[w] > rank[l]
  /\ rank2[w] = rank[w] \/ rank2[w] = rank[l] + 1

\* The forest stays one.
LEMMA HungForest ==
  ASSUME NEW V, NEW parent, NEW rank, NEW root, Forest(V, parent, rank, root),
         NEW l \in V, NEW w \in V, root[l] = l, root[w] = w, l # w,
         NEW rank2, RankFor(V, rank, l, w, rank2)
  PROVE  Forest(V, [parent EXCEPT ![l] = w], rank2, Hung(V, root, l, w))
<1>1. PICK p, new : p = [parent EXCEPT ![l] = w] /\ new = Hung(V, root, l, w)
  OBVIOUS
<1>2. parent \in [V -> V] /\ rank \in [V -> Nat] /\ root \in [V -> V]
  BY DEF Forest
<1>3. p \in [V -> V] /\ p[l] = w /\ \A x \in V : x # l => p[x] = parent[x]
  BY <1>1, <1>2
<1>4. /\ IsRootOf(V, new)
      /\ \A r \in V : new[r] = r <=> root[r] = r /\ r # l
  <2>1. IsRootOf(V, root)
    BY DEF Forest, IsRootOf
  <2>2. QED
    BY <1>1, <2>1, HungTrees
<1>5. \A x \in V : new[x] = IF root[x] = l THEN w ELSE root[x]
  BY <1>1 DEF Hung
<1>6. \A x \in V : new[p[x]] = new[x]
  <2>1. SUFFICES ASSUME NEW x \in V PROVE new[p[x]] = new[x]
    OBVIOUS
  <2>2. CASE x = l
    BY <1>3, <1>5, <2>2
  <2>3. CASE x # l
    BY <1>2, <1>3, <1>5, <2>3 DEF Forest
  <2>4. QED
    BY <2>2, <2>3
<1>7. \A x \in V : new[x] = x <=> p[x] = x
  BY <1>3, <1>4 DEF Forest
<1>8. \A x \in V : p[x] # x => rank2[x] < rank2[p[x]]
  <2>1. SUFFICES ASSUME NEW x \in V, p[x] # x PROVE rank2[x] < rank2[p[x]]
    OBVIOUS
  <2>2. rank2 \in [V -> Nat] /\ \A y \in V : y # w => rank2[y] = rank[y]
    BY DEF RankFor
  <2>3. rank2[w] >= rank[w] /\ rank2[w] > rank[l]
    BY DEF RankFor
  <2>4. x # w
    BY <1>3, <2>1 DEF Forest
  <2>5. CASE x = l
    BY <1>3, <2>2, <2>3, <2>4, <2>5
  <2>6. CASE x # l
    <3>1. p[x] = parent[x] /\ rank[x] < rank[parent[x]] /\ parent[x] \in V
      BY <1>2, <1>3, <2>1, <2>6 DEF Forest
    <3>2. rank2[parent[x]] >= rank[parent[x]]
      BY <1>2, <2>2, <2>3, <3>1
    <3>3. rank[x] \in Nat /\ rank[parent[x]] \in Nat /\ rank2[parent[x]] \in Nat
      BY <1>2, <2>2, <3>1
    <3>4. QED
      BY <2>2, <2>4, <3>1, <3>2, <3>3
  <2>7. QED
    BY <2>5, <2>6
<1>9. rank2 \in [V -> Nat]
  BY DEF RankFor
<1>10. QED
  BY <1>1, <1>3, <1>4, <1>6, <1>7, <1>8, <1>9 DEF Forest, IsRootOf

\* Its ranks stay below the sizes of its trees.
LEMMA HungRanked ==
  ASSUME NEW V, IsFiniteSet(V), NEW parent, NEW rank, NEW root,
         Forest(V, parent, rank, root), Ranked(V, rank, root),
         NEW l \in V, NEW w \in V, root[l] = l, root[w] = w, l # w,
         NEW rank2, RankFor(V, rank, l, w, rank2)
  PROVE  Ranked(V, rank2, Hung(V, root, l, w))
<1>1. PICK new : new = Hung(V, root, l, w)
  OBVIOUS
<1>2. /\ IsRootOf(V, root) /\ rank \in [V -> Nat]
      /\ rank2 \in [V -> Nat] /\ \A y \in V : y # w => rank2[y] = rank[y]
      /\ rank2[w] >= rank[w] /\ rank2[w] > rank[l]
      /\ rank2[w] = rank[w] \/ rank2[w] = rank[l] + 1
  BY DEF Forest, IsRootOf, RankFor
<1>3. /\ Tree(V, new, w) = Tree(V, root, l) \cup Tree(V, root, w)
      /\ \A r \in V : r # l /\ r # w => Tree(V, new, r) = Tree(V, root, r)
      /\ Tree(V, root, l) \cap Tree(V, root, w) = {}
  BY <1>1, <1>2, HungTrees
<1>4. \A x \in V : new[x] = IF root[x] = l THEN w ELSE root[x]
  BY <1>1 DEF Hung
<1>5. PICK a, b, c : /\ a = Cardinality(Tree(V, root, l)) /\ b = Cardinality(Tree(V, root, w))
                     /\ c = Cardinality(Tree(V, new, w))
  OBVIOUS
<1>6. a \in Nat /\ b \in Nat /\ c = a + b
  BY <1>3, <1>5, TreesAreFinite, CardinalitiesAdd
<1>7. rank[l] < a /\ rank[w] < b
  BY <1>5 DEF Ranked
<1>8. rank2[w] < c
  <2>1. rank[l] \in Nat /\ rank[w] \in Nat /\ rank2[w] \in Nat
    BY <1>2
  <2>2. QED
    BY <1>2, <1>6, <1>7, <2>1
<1>9. SUFFICES ASSUME NEW x \in V
               PROVE  /\ rank2[x] <= rank2[new[x]]
                      /\ rank2[new[x]] < Cardinality(Tree(V, new, new[x]))
  BY <1>1 DEF Ranked
<1>10. PICK r : r = root[x]
  OBVIOUS
<1>11. /\ r \in V /\ rank[x] <= rank[r] /\ rank[r] < Cardinality(Tree(V, root, r))
       /\ rank[x] \in Nat /\ rank[r] \in Nat /\ rank2[x] \in Nat /\ rank2[w] \in Nat
       /\ rank[l] \in Nat /\ rank[w] \in Nat
  BY <1>2, <1>10 DEF IsRootOf, Ranked
<1>12. CASE r \in {l, w}
  <2>1. new[x] = w
    BY <1>4, <1>10, <1>12
  <2>2. rank2[x] <= rank2[w]
    <3>1. CASE x = w
      BY <1>11, <3>1
    <3>2. CASE x # w
      <4>1. rank2[x] = rank[x] /\ (rank[x] <= rank[l] \/ rank[x] <= rank[w])
        BY <1>2, <1>11, <1>12, <3>2
      <4>2. QED
        BY <1>2, <1>11, <4>1
    <3>3. QED
      BY <3>1, <3>2
  <2>3. QED
    BY <1>5, <1>8, <2>1, <2>2
<1>13. CASE r \notin {l, w}
  <2>1. new[x] = r /\ x # w /\ rank2[r] = rank[r] /\ rank2[x] = rank[x]
    BY <1>2, <1>4, <1>10, <1>11, <1>13
  <2>2. Tree(V, new, r) = Tree(V, root, r)
    BY <1>3, <1>11, <1>13
  <2>3. QED
    BY <1>11, <2>1, <2>2
<1>14. QED
  BY <1>12, <1>13

\* Of two roots a and b, l hangs under w.
HangsBelow(V, uf, a, b, joined, l, w) ==
  /\ {l, w} = {a, b} /\ l # w
  /\ joined.parent = [uf.parent EXCEPT ![l] = w]
  /\ RankFor(V, uf.rank, l, w, joined.rank)
  /\ joined.count = uf.count
  /\ joined = [parent |-> joined.parent, rank |-> joined.rank, count |-> joined.count]

\* union: the root of lower rank hangs under the other one.
LEMMA UnionHangs ==
  ASSUME NEW V, NEW uf, NEW root, uf = [parent |-> uf.parent, rank |-> uf.rank, count |-> uf.count],
         Forest(V, uf.parent, uf.rank, root),
         NEW a \in V, NEW b \in V, root[a] = a, root[b] = b, a # b
  PROVE  \E l, w : HangsBelow(V, uf, a, b, Union(uf, a, b), l, w)
<1>1. PICK p, r, c : p = uf.parent /\ r = uf.rank /\ c = uf.count
  OBVIOUS
<1>2. PICK new : new = Union(uf, a, b)
  OBVIOUS
<1>3. uf = [parent |-> p, rank |-> r, count |-> c] /\ r \in [V -> Nat]
  BY <1>1 DEF Forest
<1>4. PICK pa, pb, ra : /\ pa = [p EXCEPT ![a] = b] /\ pb = [p EXCEPT ![b] = a]
                        /\ ra = [r EXCEPT ![a] = @ + 1]
  OBVIOUS
<1>5. CASE r[a] < r[b]
  <2>1. new = [uf EXCEPT !.parent[a] = b]
    <3>1. ~ (r[a] > r[b])
      BY <1>3, <1>5
    <3>2. QED
      BY <1>1, <1>2, <1>5, <3>1 DEF Union
  <2>2. new = [parent |-> pa, rank |-> r, count |-> c]
    BY <1>3, <1>4, <2>1
  <2>3. RankFor(V, r, a, b, r)
    BY <1>3, <1>5 DEF RankFor
  <2>4. HangsBelow(V, uf, a, b, new, a, b)
    BY <1>1, <1>2, <1>4, <2>2, <2>3 DEF HangsBelow
  <2>5. QED
    BY <1>2, <2>4
<1>6. CASE r[a] > r[b]
  <2>1. new = [uf EXCEPT !.parent[b] = a]
    <3>1. ~ (r[a] < r[b])
      BY <1>3, <1>6
    <3>2. QED
      BY <1>1, <1>2, <1>6, <3>1 DEF Union
  <2>2. new = [parent |-> pb, rank |-> r, count |-> c]
    BY <1>3, <1>4, <2>1
  <2>3. RankFor(V, r, b, a, r)
    BY <1>3, <1>6 DEF RankFor
  <2>4. HangsBelow(V, uf, a, b, new, b, a)
    BY <1>1, <1>2, <1>4, <2>2, <2>3 DEF HangsBelow
  <2>5. QED
    BY <1>2, <2>4
<1>7. CASE ~ (r[a] < r[b]) /\ ~ (r[a] > r[b])
  <2>1. new = [uf EXCEPT !.parent[b] = a, !.rank[a] = @ + 1]
    BY <1>1, <1>2, <1>7 DEF Union
  <2>2. PICK hung : hung = [uf EXCEPT !.parent[b] = a]
    OBVIOUS
  <2>3. hung = [parent |-> pb, rank |-> r, count |-> c]
    BY <1>3, <1>4, <2>2
  <2>4. new = [hung EXCEPT !.rank[a] = @ + 1]
    BY <2>1, <2>2
  <2>5. new = [parent |-> pb, rank |-> ra, count |-> c]
    BY <1>4, <2>3, <2>4
  <2>6. RankFor(V, r, b, a, ra)
    BY <1>3, <1>4, <1>7 DEF RankFor
  <2>7. HangsBelow(V, uf, a, b, new, b, a)
    BY <1>1, <1>2, <1>4, <2>5, <2>6 DEF HangsBelow
  <2>8. QED
    BY <1>2, <2>7
<1>8. QED
  BY <1>5, <1>6, <1>7

-----------------------------------------------------------------------------
(* The trees are the clusters of the partition.                              *)

Clusters(V, root) == {Tree(V, root, root[x]) : x \in V}

\* The cluster of a node is its tree.
LEMMA ClusterIsTree ==
  ASSUME NEW V, NEW root, IsRootOf(V, root), NEW x \in V
  PROVE  ClusterOf(Clusters(V, root), x) = Tree(V, root, root[x])
<1>1. PICK c : c = Tree(V, root, root[x])
  OBVIOUS
<1>2. c \in Clusters(V, root) /\ x \in c
  BY <1>1 DEF Clusters, Tree
<1>3. ASSUME NEW d \in Clusters(V, root), x \in d
      PROVE  d = c
  <2>1. PICK y \in V : d = Tree(V, root, root[y])
    BY DEF Clusters
  <2>2. root[x] = root[y]
    BY <1>3, <2>1 DEF Tree
  <2>3. QED
    BY <1>1, <2>1, <2>2
<1>4. QED
  BY <1>1, <1>2, <1>3 DEF ClusterOf

\* Nodes by themselves.
LEMMA ClustersAtFirst ==
  ASSUME NEW V
  PROVE  Clusters(V, [x \in V |-> x]) = {{x} : x \in V}
<1>1. PICK root : root = [x \in V |-> x]
  OBVIOUS
<1>2. \A x \in V : root[x] = x /\ Tree(V, root, root[x]) = {x}
  BY <1>1 DEF Tree
<1>3. Clusters(V, root) = {{x} : x \in V}
  <2>1. Clusters(V, root) = {Tree(V, root, root[x]) : x \in V}
    BY DEF Clusters
  <2>2. ASSUME NEW x \in V PROVE {x} \in Clusters(V, root) /\ Tree(V, root, root[x]) \in {{y} : y \in V}
    BY <1>2, <2>1
  <2>3. QED
    BY <2>1, <2>2
<1>4. QED
  BY <1>1, <1>3

\* Where one root hangs under another one their clusters are joined.
LEMMA ClustersJoin ==
  ASSUME NEW V, NEW root, IsRootOf(V, root),
         NEW l \in V, NEW w \in V, root[l] = l, root[w] = w, l # w
  PROVE  Clusters(V, Hung(V, root, l, w))
           = (Clusters(V, root) \ {Tree(V, root, l), Tree(V, root, w)})
               \cup {Tree(V, root, l) \cup Tree(V, root, w)}
<1>1. PICK new, a, b : /\ new = Hung(V, root, l, w)
                       /\ a = Tree(V, root, l) /\ b = Tree(V, root, w)
  OBVIOUS
<1>2. /\ Tree(V, new, w) = a \cup b
      /\ \A r \in V : r # l /\ r # w => Tree(V, new, r) = Tree(V, root, r)
      /\ l \in a /\ w \in b
  BY <1>1, HungTrees
<1>3. root \in [V -> V] /\ \A x \in V : root[root[x]] = root[x]
  BY DEF IsRootOf
<1>4. \A x \in V : new[x] = IF root[x] = l THEN w ELSE root[x]
  BY <1>1 DEF Hung
<1>5. ASSUME NEW x \in V, root[x] # l, root[x] # w
      PROVE  /\ Tree(V, root, root[x]) \in Clusters(V, root) \ {a, b}
             /\ Tree(V, new, new[x]) = Tree(V, root, root[x])
  <2>1. Tree(V, root, root[x]) \in Clusters(V, root)
    BY DEF Clusters
  <2>2. x \in Tree(V, root, root[x]) /\ x \notin a /\ x \notin b
    BY <1>1, <1>5 DEF Tree
  <2>3. Tree(V, new, new[x]) = Tree(V, root, root[x])
    BY <1>2, <1>3, <1>4, <1>5
  <2>4. QED
    BY <2>1, <2>2, <2>3
<1>6. ASSUME NEW x \in V, root[x] = l \/ root[x] = w
      PROVE  Tree(V, new, new[x]) = a \cup b /\ Tree(V, root, root[x]) \in {a, b}
  BY <1>1, <1>2, <1>4, <1>6
<1>7. Clusters(V, new) \subseteq (Clusters(V, root) \ {a, b}) \cup {a \cup b}
  <2>1. SUFFICES ASSUME NEW c \in Clusters(V, new)
                 PROVE  c \in (Clusters(V, root) \ {a, b}) \cup {a \cup b}
    OBVIOUS
  <2>2. PICK x \in V : c = Tree(V, new, new[x])
    BY DEF Clusters
  <2>3. QED
    BY <1>5, <1>6, <2>2
<1>8. (Clusters(V, root) \ {a, b}) \cup {a \cup b} \subseteq Clusters(V, new)
  <2>1. a \cup b \in Clusters(V, new)
    <3>1. Tree(V, new, new[w]) \in Clusters(V, new)
      BY DEF Clusters
    <3>2. QED
      BY <1>6, <3>1
  <2>2. ASSUME NEW c \in Clusters(V, root), c \notin {a, b}
        PROVE  c \in Clusters(V, new)
    <3>1. PICK x \in V : c = Tree(V, root, root[x])
      BY DEF Clusters
    <3>2. root[x] # l /\ root[x] # w
      BY <1>6, <2>2, <3>1
    <3>3. c = Tree(V, new, new[x])
      BY <1>5, <3>1, <3>2
    <3>4. QED
      BY <3>3 DEF Clusters
  <2>3. QED
    BY <2>1, <2>2
<1>9. QED
  BY <1>1, <1>7, <1>8

\* An edge that meets no odd cluster, and one that there is nothing to do for.
Quiet(V, root, active, edge) ==
  /\ ~ IsOdd(Tree(V, root, root[edge.u]), active)
  /\ ~ IsOdd(Tree(V, root, root[edge.v]), active)

Settled(V, root, active, edge) ==
  root[edge.u] = root[edge.v] \/ Quiet(V, root, active, edge)

RootsIn(V, root) == {r \in V : root[r] = r}

\* Joining along an edge, on the roots.
LEMMA JoinEdgeOfTrees ==
  ASSUME NEW V, NEW root, IsRootOf(V, root), NEW active,
         NEW edge, edge.u \in V, edge.v \in V
  PROVE  /\ Settled(V, root, active, edge) =>
              JoinEdge(Clusters(V, root), edge, active) = Clusters(V, root)
         /\ ~ Quiet(V, root, active, edge) =>
              JoinEdge(Clusters(V, root), edge, active)
                = (Clusters(V, root) \ {Tree(V, root, root[edge.u]), Tree(V, root, root[edge.v])})
                    \cup {Tree(V, root, root[edge.u]) \cup Tree(V, root, root[edge.v])}
<1>1. PICK clusters, a, b : /\ clusters = Clusters(V, root)
                            /\ a = Tree(V, root, root[edge.u]) /\ b = Tree(V, root, root[edge.v])
  OBVIOUS
<1>2. ClusterOf(clusters, edge.u) = a /\ ClusterOf(clusters, edge.v) = b
  BY <1>1, ClusterIsTree
<1>3. JoinEdge(clusters, edge, active)
        = IF IsOdd(a, active) \/ IsOdd(b, active)
          THEN (clusters \ {a, b}) \cup {a \cup b} ELSE clusters
  BY <1>2 DEF JoinEdge
<1>4. a \in clusters
  BY <1>1 DEF Clusters
<1>5. root[edge.u] = root[edge.v] => a = b
  BY <1>1
<1>6. a = b => (clusters \ {a, b}) \cup {a \cup b} = clusters
  BY <1>4
<1>7. Quiet(V, root, active, edge) <=> ~ (IsOdd(a, active) \/ IsOdd(b, active))
  BY <1>1 DEF Quiet
<1>8. QED
  BY <1>1, <1>3, <1>5, <1>6, <1>7 DEF Settled

\* One of the roots a and b hangs under the other in what the arrays stand for.
JoinedStands(V, uf, root, active, a, b, l, w) ==
  {l, w} = {a, b} /\ l # w /\ Stands(V, uf, Hung(V, root, l, w), active)

\* Two roots joined: the arrays stand for the forest with one under the other,
\* and the count of both is at the root of the two.
LEMMA UnionStands ==
  ASSUME NEW V, IsFiniteSet(V), NEW uf, NEW root, NEW active, Stands(V, uf, root, active),
         NEW a \in V, NEW b \in V, root[a] = a, root[b] = b, a # b,
         NEW joined, joined = Union(uf, a, b), NEW f, f = Find(joined.parent, a),
         NEW both, both = uf.count[a] + uf.count[b],
         NEW next, next = [parent |-> f.parent, rank |-> joined.rank,
                           count |-> [uf.count EXCEPT ![f.x] = both]]
  PROVE  \E l, w : JoinedStands(V, next, root, active, a, b, l, w)
<1>1. PICK l, w : HangsBelow(V, uf, a, b, joined, l, w)
  <2>1. /\ uf = [parent |-> uf.parent, rank |-> uf.rank, count |-> uf.count]
        /\ Forest(V, uf.parent, uf.rank, root)
    BY DEF Stands
  <2>2. QED
    BY <2>1, UnionHangs
<1>2. /\ {l, w} = {a, b} /\ l # w
      /\ joined.parent = [uf.parent EXCEPT ![l] = w]
      /\ RankFor(V, uf.rank, l, w, joined.rank)
      /\ joined.count = uf.count
      /\ joined = [parent |-> joined.parent, rank |-> joined.rank, count |-> joined.count]
      /\ (l = a /\ w = b) \/ (l = b /\ w = a)
      /\ l \in V /\ w \in V /\ root[l] = l /\ root[w] = w
  <2>1. {l, w} = {a, b} /\ l # w
    BY <1>1 DEF HangsBelow
  <2>2. (l = a /\ w = b) \/ (l = b /\ w = a)
    BY <2>1
  <2>3. QED
    BY <1>1, <2>1, <2>2 DEF HangsBelow
<1>3. PICK new : new = Hung(V, root, l, w)
  OBVIOUS
<1>4. Forest(V, joined.parent, joined.rank, new)
  BY <1>2, <1>3, HungForest DEF Stands
<1>5. Ranked(V, joined.rank, new)
  BY <1>2, <1>3, HungRanked DEF Stands
<1>6. f.x = w /\ Forest(V, f.parent, joined.rank, new)
  <2>1. \A y \in V : joined.rank[y] < Cardinality(V)
    BY <1>4, <1>5, RanksAreLow
  <2>2. f.x = new[a] /\ Forest(V, f.parent, joined.rank, new)
    BY <1>4, <2>1, FindFinds
  <2>3. new[a] = w
    BY <1>2, <1>3 DEF Hung
  <2>4. QED
    BY <2>2, <2>3
<1>7. PICK count : count = [uf.count EXCEPT ![w] = both]
  OBVIOUS
<1>8. PICK made : /\ made = next
                  /\ made = [parent |-> f.parent, rank |-> joined.rank, count |-> count]
  BY <1>6, <1>7
<1>9. Counted(V, count, new, active)
  <2>1. uf.count \in [V -> Nat] /\ \A r \in V : root[r] = r =>
          uf.count[r] = Cardinality(Tree(V, root, r) \cap active)
    BY DEF Stands, Counted
  <2>2. both = uf.count[l] + uf.count[w] /\ both \in Nat
    BY <1>2, <2>1
  <2>3. count \in [V -> Nat] /\ count[w] = both /\ \A r \in V : r # w => count[r] = uf.count[r]
    BY <1>2, <1>7, <2>1, <2>2
  <2>4. IsRootOf(V, root)
    BY DEF Stands, Forest, IsRootOf
  <2>5. /\ \A r \in V : new[r] = r <=> root[r] = r /\ r # l
        /\ Tree(V, new, w) = Tree(V, root, l) \cup Tree(V, root, w)
        /\ \A r \in V : r # l /\ r # w => Tree(V, new, r) = Tree(V, root, r)
        /\ Tree(V, root, l) \cap Tree(V, root, w) = {}
    BY <1>2, <1>3, <2>4, HungTrees
  <2>6. PICK A, B : A = Tree(V, root, l) \cap active /\ B = Tree(V, root, w) \cap active
    OBVIOUS
  <2>7. Cardinality(A \cup B) = Cardinality(A) + Cardinality(B)
    <3>1. IsFiniteSet(A) /\ IsFiniteSet(B)
      BY <2>6, TreesAreFinite, FS_Intersection
    <3>2. A \cap B = {}
      BY <2>5, <2>6
    <3>3. QED
      BY <3>1, <3>2, CardinalitiesAdd
  <2>8. count[w] = Cardinality(Tree(V, new, w) \cap active)
    <3>1. Tree(V, new, w) \cap active = A \cup B
      BY <2>5, <2>6
    <3>2. QED
      BY <1>2, <2>1, <2>2, <2>3, <2>6, <2>7, <3>1
  <2>9. ASSUME NEW r \in V, new[r] = r, r # w
        PROVE  count[r] = Cardinality(Tree(V, new, r) \cap active)
    BY <2>1, <2>3, <2>5, <2>9
  <2>10. QED
    BY <2>3, <2>8, <2>9 DEF Counted
<1>10. Stands(V, made, new, active)
  <2>1. /\ made.parent = f.parent /\ made.rank = joined.rank /\ made.count = count
        /\ made = [parent |-> made.parent, rank |-> made.rank, count |-> made.count]
    <3>1. PICK p, r : p = f.parent /\ r = joined.rank
      OBVIOUS
    <3>2. made = [parent |-> p, rank |-> r, count |-> count]
      BY <1>8, <3>1
    <3>3. QED
      BY <3>1, <3>2
  <2>2. QED
    BY <1>5, <1>6, <1>9, <2>1 DEF Stands
<1>11. JoinedStands(V, made, root, active, a, b, l, w)
  BY <1>2, <1>3, <1>10 DEF JoinedStands
<1>12. QED
  BY <1>8, <1>11

\* There is one root less.
LEMMA HungHasFewerRoots ==
  ASSUME NEW V, IsFiniteSet(V), NEW root, IsRootOf(V, root),
         NEW l \in V, NEW w \in V, root[l] = l, root[w] = w, l # w
  PROVE  Cardinality(RootsIn(V, Hung(V, root, l, w))) < Cardinality(RootsIn(V, root))
<1>1. PICK R, new : R = RootsIn(V, root) /\ new = Hung(V, root, l, w)
  OBVIOUS
<1>2. R \in SUBSET V /\ l \in R
  BY <1>1 DEF RootsIn
<1>3. RootsIn(V, new) = R \ {l}
  <2>1. \A r \in V : new[r] = r <=> root[r] = r /\ r # l
    BY <1>1, HungTrees
  <2>2. QED
    BY <1>1, <2>1 DEF RootsIn
<1>4. IsFiniteSet(R)
  BY <1>2, FS_Subset
<1>5. Cardinality(R \ {l}) = Cardinality(R) - 1
  BY <1>2, <1>4, FS_RemoveElement
<1>6. Cardinality(R) \in Nat
  BY <1>4, FS_CardinalityType
<1>7. QED
  BY <1>1, <1>3, <1>5, <1>6

\* What one edge of a pass does, on the roots: nothing, where there is nothing
\* to do, or there are fewer of them.
EdgeGrown(V, active, s, root, edge, next, new) ==
  /\ next = [uf |-> next.uf, any_odd |-> next.any_odd] /\ next.any_odd \in BOOLEAN
  /\ Stands(V, next.uf, new, active)
  /\ Clusters(V, new) = JoinEdge(Clusters(V, root), edge, active)
  /\ Settled(V, root, active, edge) => new = root
  /\ ~ Settled(V, root, active, edge) =>
       Cardinality(RootsIn(V, new)) < Cardinality(RootsIn(V, root))
  /\ next.any_odd = FALSE =>
       s.any_odd = FALSE /\ new = root /\ Quiet(V, root, active, edge)

\* One edge of a pass.
LEMMA GrowEdgeStands ==
  ASSUME NEW V, IsFiniteSet(V), NEW root, NEW active, NEW s,
         s = [uf |-> s.uf, any_odd |-> s.any_odd], s.any_odd \in BOOLEAN,
         Stands(V, s.uf, root, active), NEW edge, edge.u \in V, edge.v \in V,
         NEW next, next = GrowEdge(s, edge)
  PROVE  \E new : EdgeGrown(V, active, s, root, edge, next, new)
<1>1. PICK fu, fv, found : /\ fu = Find(s.uf.parent, edge.u)
                           /\ fv = Find(fu.parent, edge.v)
                           /\ found = [s.uf EXCEPT !.parent = fv.parent]
  OBVIOUS
<1>2. PICK a, b : a = root[edge.u] /\ b = root[edge.v]
  OBVIOUS
<1>3. fu.x = a /\ fv.x = b /\ Stands(V, found, root, active)
  <2>1. PICK first : first = [s.uf EXCEPT !.parent = fu.parent]
    OBVIOUS
  <2>2. fu.x = a /\ Stands(V, first, root, active)
    BY <1>1, <1>2, <2>1, FindStands
  <2>3. PICK uf, p, q : uf = s.uf /\ p = fu.parent /\ q = fv.parent
    OBVIOUS
  <2>4. uf = [parent |-> uf.parent, rank |-> uf.rank, count |-> uf.count]
    BY <2>3 DEF Stands
  <2>5. first = [parent |-> p, rank |-> uf.rank, count |-> uf.count]
    BY <2>1, <2>3, <2>4
  <2>6. fv = Find(first.parent, edge.v)
    BY <1>1, <2>3, <2>5
  <2>7. PICK second : second = [first EXCEPT !.parent = q]
    OBVIOUS
  <2>8. fv.x = b /\ Stands(V, second, root, active)
    BY <1>2, <2>2, <2>3, <2>6, <2>7, FindStands
  <2>9. second = [parent |-> q, rank |-> uf.rank, count |-> uf.count]
    BY <2>5, <2>7
  <2>10. found = [parent |-> q, rank |-> uf.rank, count |-> uf.count]
    BY <1>1, <2>3, <2>4
  <2>11. QED
    BY <2>2, <2>8, <2>9, <2>10
<1>4. IsRootOf(V, root)
  BY DEF Stands, Forest, IsRootOf
<1>5. a \in V /\ b \in V /\ root[a] = a /\ root[b] = b
  BY <1>2, <1>4 DEF IsRootOf
<1>6. /\ found.count[a] % 2 = 1 <=> IsOdd(Tree(V, root, a), active)
      /\ found.count[b] % 2 = 1 <=> IsOdd(Tree(V, root, b), active)
  BY <1>3, <1>5 DEF Stands, Counted, IsOdd
<1>7. PICK odd : odd = (found.count[a] % 2 = 1 \/ found.count[b] % 2 = 1)
  OBVIOUS
<1>8. odd <=> ~ Quiet(V, root, active, edge)
  BY <1>2, <1>6, <1>7 DEF Quiet
<1>9. CASE ~ odd
  <2>1. next = [s EXCEPT !.uf = found]
    BY <1>1, <1>3, <1>7, <1>9 DEF GrowEdge
  <2>2. next = [uf |-> found, any_odd |-> s.any_odd]
    BY <2>1
  <2>3. Settled(V, root, active, edge)
    BY <1>8, <1>9 DEF Settled
  <2>4. Clusters(V, root) = JoinEdge(Clusters(V, root), edge, active)
    BY <1>4, <2>3, JoinEdgeOfTrees
  <2>5. next.uf = found /\ next.any_odd = s.any_odd
        /\ next = [uf |-> next.uf, any_odd |-> next.any_odd]
    BY <2>2
  <2>6. EdgeGrown(V, active, s, root, edge, next, root)
    BY <1>3, <1>8, <1>9, <2>3, <2>4, <2>5 DEF EdgeGrown
  <2>7. QED
    BY <2>6
<1>10. CASE odd /\ a = b
  <2>1. next = [uf |-> found, any_odd |-> TRUE]
    BY <1>1, <1>3, <1>7, <1>10 DEF GrowEdge
  <2>2. Settled(V, root, active, edge)
    BY <1>2, <1>10 DEF Settled
  <2>3. Clusters(V, root) = JoinEdge(Clusters(V, root), edge, active)
    BY <1>4, <2>2, JoinEdgeOfTrees
  <2>4. next.uf = found /\ next.any_odd = TRUE
        /\ next = [uf |-> next.uf, any_odd |-> next.any_odd]
    BY <2>1
  <2>5. EdgeGrown(V, active, s, root, edge, next, root)
    BY <1>3, <2>2, <2>3, <2>4 DEF EdgeGrown
  <2>6. QED
    BY <2>5
<1>11. CASE odd /\ a # b
  <2>1. PICK joined, f, both, uf2 :
          /\ joined = Union(found, a, b) /\ f = Find(joined.parent, a)
          /\ both = found.count[a] + found.count[b]
          /\ uf2 = [joined EXCEPT !.parent = f.parent, !.count[f.x] = both]
    OBVIOUS
  <2>2. next = [uf |-> uf2, any_odd |-> TRUE]
    BY <1>1, <1>3, <1>7, <1>11, <2>1 DEF GrowEdge
  <2>3. PICK l, w : {l, w} = {a, b} /\ l # w /\ Stands(V, uf2, Hung(V, root, l, w), active)
    <3>1. PICK count : count = [found.count EXCEPT ![f.x] = both]
      OBVIOUS
    <3>2. \E l, w : HangsBelow(V, found, a, b, joined, l, w)
      <4>1. /\ found = [parent |-> found.parent, rank |-> found.rank, count |-> found.count]
            /\ Forest(V, found.parent, found.rank, root)
        BY <1>3 DEF Stands
      <4>2. QED
        BY <1>5, <1>11, <2>1, <4>1, UnionHangs
    <3>3. /\ joined = [parent |-> joined.parent, rank |-> joined.rank, count |-> joined.count]
          /\ joined.count = found.count
      BY <3>2 DEF HangsBelow
    <3>4. uf2 = [parent |-> f.parent, rank |-> joined.rank, count |-> count]
      <4>1. PICK p, q, r, c : p = joined.parent /\ q = f.parent /\ r = joined.rank /\ c = found.count
        OBVIOUS
      <4>2. joined = [parent |-> p, rank |-> r, count |-> c]
        BY <3>3, <4>1
      <4>3. PICK lifted : lifted = [joined EXCEPT !.parent = q]
        OBVIOUS
      <4>4. lifted = [parent |-> q, rank |-> r, count |-> c]
        BY <4>2, <4>3
      <4>5. uf2 = [lifted EXCEPT !.count[f.x] = both]
        BY <2>1, <4>1, <4>3
      <4>6. uf2 = [parent |-> q, rank |-> r, count |-> count]
        BY <3>1, <4>1, <4>4, <4>5
      <4>7. QED
        BY <4>1, <4>6
    <3>5. \E l, w : JoinedStands(V, uf2, root, active, a, b, l, w)
      <4>1. joined = Union(found, a, b) /\ f = Find(joined.parent, a)
            /\ both = found.count[a] + found.count[b]
        BY <2>1
      <4>2. uf2 = [parent |-> f.parent, rank |-> joined.rank,
                   count |-> [found.count EXCEPT ![f.x] = both]]
        BY <3>1, <3>4
      <4>3. a # b /\ Stands(V, found, root, active)
        BY <1>3, <1>11
      <4>4. QED
        BY <1>5, <4>1, <4>2, <4>3, UnionStands
    <3>6. QED
      BY <3>5 DEF JoinedStands
  <2>4. PICK new : new = Hung(V, root, l, w)
    OBVIOUS
  <2>5. l \in V /\ w \in V /\ root[l] = l /\ root[w] = w
    BY <1>5, <2>3
  <2>6. Clusters(V, new) = JoinEdge(Clusters(V, root), edge, active)
    <3>1. Clusters(V, new)
            = (Clusters(V, root) \ {Tree(V, root, l), Tree(V, root, w)})
                 \cup {Tree(V, root, l) \cup Tree(V, root, w)}
      BY <1>4, <2>3, <2>4, <2>5, ClustersJoin
    <3>2. JoinEdge(Clusters(V, root), edge, active)
            = (Clusters(V, root) \ {Tree(V, root, a), Tree(V, root, b)})
                 \cup {Tree(V, root, a) \cup Tree(V, root, b)}
      BY <1>2, <1>4, <1>8, <1>11, JoinEdgeOfTrees
    <3>3. (l = a /\ w = b) \/ (l = b /\ w = a)
      BY <2>3
    <3>4. PICK ta, tb : ta = Tree(V, root, a) /\ tb = Tree(V, root, b)
      OBVIOUS
    <3>5. {ta, tb} = {tb, ta} /\ ta \cup tb = tb \cup ta
      OBVIOUS
    <3>6. QED
      BY <3>1, <3>2, <3>3, <3>4, <3>5
  <2>7. Cardinality(RootsIn(V, new)) < Cardinality(RootsIn(V, root))
    BY <1>4, <2>3, <2>4, <2>5, HungHasFewerRoots
  <2>8. next.uf = uf2 /\ next.any_odd = TRUE
        /\ next = [uf |-> next.uf, any_odd |-> next.any_odd]
    BY <2>2
  <2>9. ~ Settled(V, root, active, edge)
    BY <1>2, <1>8, <1>11 DEF Settled
  <2>10. EdgeGrown(V, active, s, root, edge, next, new)
    BY <2>3, <2>4, <2>6, <2>7, <2>8, <2>9 DEF EdgeGrown
  <2>11. QED
    BY <2>10
<1>12. QED
  BY <1>9, <1>10, <1>11

-----------------------------------------------------------------------------
(* Passes over the edges of a graph, and rounds of them.                     *)

OnNodes(V, graph) ==
  /\ Len(graph.edges) \in Nat
  /\ \A k \in 1 .. Len(graph.edges) : graph.edges[k].u \in V /\ graph.edges[k].v \in V

\* What clusters are joined into are clusters again.
LEMMA JoinEdgeStays ==
  ASSUME NEW V, NEW root, IsRootOf(V, root), NEW active,
         NEW edge, edge.u \in V, edge.v \in V
  PROVE  \E new : /\ IsRootOf(V, new)
                  /\ JoinEdge(Clusters(V, root), edge, active) = Clusters(V, new)
<1>1. CASE Settled(V, root, active, edge)
  BY <1>1, JoinEdgeOfTrees
<1>2. CASE ~ Settled(V, root, active, edge)
  <2>1. PICK a, b : a = root[edge.u] /\ b = root[edge.v]
    OBVIOUS
  <2>2. a \in V /\ b \in V /\ root[a] = a /\ root[b] = b /\ a # b
        /\ ~ Quiet(V, root, active, edge)
    BY <1>2, <2>1 DEF Settled, IsRootOf
  <2>3. IsRootOf(V, Hung(V, root, a, b))
    BY <2>2, HungTrees
  <2>4. JoinEdge(Clusters(V, root), edge, active) = Clusters(V, Hung(V, root, a, b))
    <3>1. JoinEdge(Clusters(V, root), edge, active)
            = (Clusters(V, root) \ {Tree(V, root, a), Tree(V, root, b)})
                 \cup {Tree(V, root, a) \cup Tree(V, root, b)}
      BY <2>1, <2>2, JoinEdgeOfTrees
    <3>2. QED
      BY <2>2, <3>1, ClustersJoin
  <2>5. QED
    BY <2>3, <2>4
<1>3. QED
  BY <1>1, <1>2

\* The clusters after each edge of a pass.
Joins(g, n, clusters, graph, active) ==
  g = [i \in 0 .. n |-> IF i = 0 THEN clusters ELSE JoinEdge(g[i - 1], graph.edges[i], active)]

RootsOn(V) == {root \in [V -> V] : IsRootOf(V, root)}

\* There are such clusters.
LEMMA JoinsExist ==
  ASSUME NEW V, NEW root, IsRootOf(V, root), NEW active, NEW graph, OnNodes(V, graph),
         NEW n, n = Len(graph.edges)
  PROVE  \E g : /\ Joins(g, n, Clusters(V, root), graph, active)
                /\ \A i \in 0 .. n : g[i] \in {Clusters(V, r) : r \in RootsOn(V)}
<1> DEFINE S == {Clusters(V, r) : r \in RootsOn(V)}
           base == Clusters(V, root)
<1>1. n \in Nat /\ \A k \in 1 .. n : graph.edges[k].u \in V /\ graph.edges[k].v \in V
  BY DEF OnNodes
<1>2. base \in S
  BY DEF RootsOn, IsRootOf
<1>3. ASSUME NEW k \in 1 .. n, NEW c \in S PROVE JoinEdge(c, graph.edges[k], active) \in S
  <2>1. PICK r \in RootsOn(V) : c = Clusters(V, r)
    OBVIOUS
  <2>2. PICK new : IsRootOf(V, new) /\ JoinEdge(c, graph.edges[k], active) = Clusters(V, new)
    BY <1>1, <2>1, JoinEdgeStays DEF RootsOn
  <2>3. new \in RootsOn(V)
    BY <2>2 DEF RootsOn, IsRootOf
  <2>4. QED
    BY <2>2, <2>3
<1>4. PICK step : step = [k \in 1 .. n |-> [c \in S |-> JoinEdge(c, graph.edges[k], active)]]
  OBVIOUS
<1> HIDE DEF S, base
<1>5. step \in [1 .. n -> [S -> S]]
  BY <1>3, <1>4
<1>6. PICK f : Recursion(f, n, S, base, step)
  BY <1>1, <1>2, <1>5, RecursionExists
<1>7. ASSUME NEW i \in 1 .. n PROVE f[i] = JoinEdge(f[i - 1], graph.edges[i], active)
  <2>1. f[i - 1] \in S
    BY <1>1, <1>6 DEF Recursion
  <2>2. QED
    BY <1>4, <1>6, <2>1 DEF Recursion
<1>8. \A i \in 0 .. n :
        f[i] = IF i = 0 THEN base ELSE JoinEdge(f[i - 1], graph.edges[i], active)
  BY <1>1, <1>6, <1>7 DEF Recursion
<1>9. Joins(f, n, base, graph, active)
  BY <1>6, <1>8 DEF Recursion, Joins
<1>10. \A i \in 0 .. n : f[i] \in S
  BY <1>6 DEF Recursion
<1>11. QED
  BY <1>9, <1>10 DEF S, base

\* A pass over clusters, edge by edge.
JoinedUpTo(g, n, all, clusters, graph, active) ==
  /\ all = g[n] /\ g[0] = clusters
  /\ \A i \in 1 .. n : g[i] = JoinEdge(g[i - 1], graph.edges[i], active)

\* A pass has its clusters after each edge.
LEMMA JoinAllJoins ==
  ASSUME NEW V, NEW root, IsRootOf(V, root), NEW active, NEW graph, OnNodes(V, graph),
         NEW n, n = Len(graph.edges)
  PROVE  \E g : JoinedUpTo(g, n, JoinAll(Clusters(V, root), graph, active),
                          Clusters(V, root), graph, active)
<1> DEFINE g == CHOOSE g : Joins(g, n, Clusters(V, root), graph, active)
<1>1. Joins(g, n, Clusters(V, root), graph, active)
  BY JoinsExist
<1>2. JoinAll(Clusters(V, root), graph, active) = g[n]
  BY DEF JoinAll, Joins
<1> HIDE DEF g
<1>3. n \in Nat
  BY DEF OnNodes
<1>4. g[0] = Clusters(V, root) /\ \A i \in 1 .. n : g[i] = JoinEdge(g[i - 1], graph.edges[i], active)
  BY <1>1, <1>3 DEF Joins
<1>5. JoinedUpTo(g, n, JoinAll(Clusters(V, root), graph, active), Clusters(V, root), graph, active)
  BY <1>2, <1>4 DEF JoinedUpTo
<1>6. QED
  BY <1>5

\* A pass with nothing to do.
LEMMA JoinAllSettled ==
  ASSUME NEW V, NEW root, IsRootOf(V, root), NEW active, NEW graph, OnNodes(V, graph),
         \A k \in 1 .. Len(graph.edges) : Settled(V, root, active, graph.edges[k])
  PROVE  JoinAll(Clusters(V, root), graph, active) = Clusters(V, root)
<1>1. PICK n : n = Len(graph.edges)
  OBVIOUS
<1>8. PICK g : JoinedUpTo(g, n, JoinAll(Clusters(V, root), graph, active),
                          Clusters(V, root), graph, active)
  BY <1>1, JoinAllJoins
<1>2. /\ JoinAll(Clusters(V, root), graph, active) = g[n]
      /\ g[0] = Clusters(V, root)
      /\ \A i \in 1 .. n : g[i] = JoinEdge(g[i - 1], graph.edges[i], active)
  BY <1>8 DEF JoinedUpTo
<1>3. n \in Nat
  BY <1>1 DEF OnNodes
<1> DEFINE P == {i \in 0 .. n : g[i] = Clusters(V, root)}
<1>4. 0 \in P
  BY <1>2, <1>3
<1>5. ASSUME NEW i \in 1 .. n, i - 1 \in P PROVE i \in P
  <2>1. /\ Settled(V, root, active, graph.edges[i])
        /\ graph.edges[i].u \in V /\ graph.edges[i].v \in V
    BY <1>1 DEF OnNodes
  <2>2. JoinEdge(Clusters(V, root), graph.edges[i], active) = Clusters(V, root)
    BY <2>1, JoinEdgeOfTrees
  <2>3. QED
    BY <1>2, <1>5, <2>2
<1> HIDE DEF P
<1>6. 0 .. n \subseteq P
  BY <1>3, <1>4, <1>5, UpTo
<1>7. QED
  BY <1>2, <1>3, <1>6 DEF P

\* The roots are finitely many.
LEMMA RootsAreFinite ==
  ASSUME NEW V, IsFiniteSet(V), NEW root
  PROVE  /\ IsFiniteSet(RootsIn(V, root)) /\ Cardinality(RootsIn(V, root)) \in Nat
         /\ Cardinality(RootsIn(V, root)) <= Cardinality(V) /\ Cardinality(V) \in Nat
<1>1. RootsIn(V, root) \in SUBSET V
  BY DEF RootsIn
<1>2. QED
  BY <1>1, FS_Subset, FS_CardinalityType

\* What k edges of a pass do, on the roots.
PassGrown(V, active, graph, k, root, s, new, clusters) ==
  /\ s = [uf |-> s.uf, any_odd |-> s.any_odd] /\ s.any_odd \in BOOLEAN
  /\ Stands(V, s.uf, new, active)
  /\ Clusters(V, new) = clusters
  /\ (\A j \in 1 .. k : Settled(V, root, active, graph.edges[j])) => new = root
  /\ (\E j \in 1 .. k : ~ Settled(V, root, active, graph.edges[j])) =>
       Cardinality(RootsIn(V, new)) < Cardinality(RootsIn(V, root))
  /\ s.any_odd = FALSE =>
       new = root /\ \A j \in 1 .. k : Quiet(V, root, active, graph.edges[j])

\* One more edge of a pass.
LEMMA PassGrows ==
  ASSUME NEW V, IsFiniteSet(V), NEW active, NEW graph, NEW k \in Nat \ {0},
         graph.edges[k].u \in V, graph.edges[k].v \in V,
         NEW root, NEW s, NEW mid, NEW clusters,
         PassGrown(V, active, graph, k - 1, root, s, mid, clusters)
  PROVE  \E new : PassGrown(V, active, graph, k, root, GrowEdge(s, graph.edges[k]), new,
                            JoinEdge(clusters, graph.edges[k], active))
<1>1. PICK edge, next : edge = graph.edges[k] /\ next = GrowEdge(s, edge)
  OBVIOUS
<1>2. PICK new : EdgeGrown(V, active, s, mid, edge, next, new)
  <2>1. /\ s = [uf |-> s.uf, any_odd |-> s.any_odd] /\ s.any_odd \in BOOLEAN
        /\ Stands(V, s.uf, mid, active)
    BY DEF PassGrown
  <2>2. QED
    BY <1>1, <2>1, GrowEdgeStands
<1>3. \A j \in 1 .. k : j \in 1 .. k - 1 \/ j = k
  OBVIOUS
<1>4. 1 .. k - 1 \subseteq 1 .. k /\ k \in 1 .. k
  OBVIOUS
<1>5. PICK a, b, c : /\ a = Cardinality(RootsIn(V, root)) /\ b = Cardinality(RootsIn(V, mid))
                     /\ c = Cardinality(RootsIn(V, new))
  OBVIOUS
<1>6. a \in Nat /\ b \in Nat /\ c \in Nat
  BY <1>5, RootsAreFinite
<1>7. /\ Settled(V, mid, active, edge) => new = mid
      /\ ~ Settled(V, mid, active, edge) => c < b
      /\ (\A j \in 1 .. k - 1 : Settled(V, root, active, graph.edges[j])) => mid = root
      /\ (\E j \in 1 .. k - 1 : ~ Settled(V, root, active, graph.edges[j])) => b < a
  BY <1>2, <1>5 DEF EdgeGrown, PassGrown
<1>8. (\A j \in 1 .. k : Settled(V, root, active, graph.edges[j])) => new = root
  BY <1>1, <1>4, <1>7
<1>9. (\E j \in 1 .. k : ~ Settled(V, root, active, graph.edges[j])) => c < a
  <2>1. CASE \E j \in 1 .. k - 1 : ~ Settled(V, root, active, graph.edges[j])
    <3>1. b < a /\ (c < b \/ c = b)
      BY <1>5, <1>7, <2>1
    <3>2. QED
      BY <1>6, <3>1
  <2>2. CASE \A j \in 1 .. k - 1 : Settled(V, root, active, graph.edges[j])
    BY <1>1, <1>3, <1>5, <1>7, <2>2
  <2>3. QED
    BY <2>1, <2>2
<1>10. next.any_odd = FALSE =>
         new = root /\ \A j \in 1 .. k : Quiet(V, root, active, graph.edges[j])
  BY <1>1, <1>2, <1>3 DEF EdgeGrown, PassGrown
<1>11. PassGrown(V, active, graph, k, root, next, new, JoinEdge(clusters, edge, active))
  <2>1. /\ next = [uf |-> next.uf, any_odd |-> next.any_odd] /\ next.any_odd \in BOOLEAN
        /\ Stands(V, next.uf, new, active)
        /\ Clusters(V, new) = JoinEdge(clusters, edge, active)
    BY <1>2 DEF EdgeGrown, PassGrown
  <2>2. QED
    BY <1>5, <1>8, <1>9, <1>10, <2>1 DEF PassGrown
<1>12. QED
  BY <1>1, <1>11

\* The arrays as they may be when a pass or a round is over.
StatesOn(V, active) ==
  {s \in [uf : [parent : [V -> V], rank : [V -> Nat], count : [V -> Nat]], any_odd : BOOLEAN] :
     \E root \in RootsOn(V) : Stands(V, s.uf, root, active)}

\* What stands for trees is such a state.
LEMMA StandingStates ==
  ASSUME NEW V, NEW active, NEW s, s = [uf |-> s.uf, any_odd |-> s.any_odd],
         s.any_odd \in BOOLEAN, NEW root, Stands(V, s.uf, root, active)
  PROVE  s \in StatesOn(V, active)
<1>1. root \in RootsOn(V)
  BY DEF Stands, Forest, RootsOn, IsRootOf
<1>2. s.uf \in [parent : [V -> V], rank : [V -> Nat], count : [V -> Nat]]
  <2>1. PICK uf : uf = s.uf
    OBVIOUS
  <2>2. /\ uf = [parent |-> uf.parent, rank |-> uf.rank, count |-> uf.count]
        /\ uf.parent \in [V -> V] /\ uf.rank \in [V -> Nat] /\ uf.count \in [V -> Nat]
    BY <2>1 DEF Stands, Forest, Counted
  <2>3. uf \in [parent : [V -> V], rank : [V -> Nat], count : [V -> Nat]]
    BY <2>2
  <2>4. QED
    BY <2>1, <2>3
<1>3. s \in [uf : [parent : [V -> V], rank : [V -> Nat], count : [V -> Nat]], any_odd : BOOLEAN]
  BY <1>2
<1>4. QED
  BY <1>1, <1>3 DEF StatesOn

\* The states after each edge of a pass.
Passes(t, n, uf, graph) ==
  t = [i \in 0 .. n |-> IF i = 0 THEN [uf |-> uf, any_odd |-> FALSE]
                        ELSE GrowEdge(t[i - 1], graph.edges[i])]

\* There are such states.
LEMMA PassesExist ==
  ASSUME NEW V, IsFiniteSet(V), NEW root, NEW active, NEW graph, OnNodes(V, graph),
         NEW uf, Stands(V, uf, root, active), NEW n, n = Len(graph.edges)
  PROVE  \E t : Passes(t, n, uf, graph)
<1> DEFINE S == StatesOn(V, active)
           base == [uf |-> uf, any_odd |-> FALSE]
<1>1. n \in Nat /\ \A k \in 1 .. n : graph.edges[k].u \in V /\ graph.edges[k].v \in V
  BY DEF OnNodes
<1>2. base \in S
  <2>1. PICK s : s = base
    OBVIOUS
  <2>2. s = [uf |-> s.uf, any_odd |-> s.any_odd] /\ s.any_odd \in BOOLEAN /\ s.uf = uf
    BY <2>1
  <2>3. s \in S
    BY <2>2, StandingStates
  <2>4. QED
    BY <2>1, <2>3
<1>3. ASSUME NEW k \in 1 .. n, NEW s \in S PROVE GrowEdge(s, graph.edges[k]) \in S
  <2>1. PICK r : Stands(V, s.uf, r, active)
    BY DEF StatesOn
  <2>2. s = [uf |-> s.uf, any_odd |-> s.any_odd] /\ s.any_odd \in BOOLEAN
    BY DEF StatesOn
  <2>3. PICK edge, next : edge = graph.edges[k] /\ next = GrowEdge(s, edge)
    OBVIOUS
  <2>4. PICK new : EdgeGrown(V, active, s, r, edge, next, new)
    BY <1>1, <2>1, <2>2, <2>3, GrowEdgeStands
  <2>5. next \in S
    BY <2>4, StandingStates DEF EdgeGrown
  <2>6. QED
    BY <2>3, <2>5
<1>4. PICK step : step = [k \in 1 .. n |-> [s \in S |-> GrowEdge(s, graph.edges[k])]]
  OBVIOUS
<1> HIDE DEF S, base
<1>5. step \in [1 .. n -> [S -> S]]
  BY <1>3, <1>4
<1>6. PICK f : Recursion(f, n, S, base, step)
  BY <1>1, <1>2, <1>5, RecursionExists
<1>7. ASSUME NEW i \in 1 .. n PROVE f[i] = GrowEdge(f[i - 1], graph.edges[i])
  <2>1. f[i - 1] \in S
    BY <1>1, <1>6 DEF Recursion
  <2>2. QED
    BY <1>4, <1>6, <2>1 DEF Recursion
<1>8. \A i \in 0 .. n : f[i] = IF i = 0 THEN base ELSE GrowEdge(f[i - 1], graph.edges[i])
  BY <1>1, <1>6, <1>7 DEF Recursion
<1>9. Passes(f, n, uf, graph)
  BY <1>6, <1>8 DEF Recursion, Passes, base
<1>10. QED
  BY <1>9

\* A pass over the arrays is a pass over the clusters they stand for.  Where
\* anything is left to do there are fewer of them after it.
LEMMA GrowAllStands ==
  ASSUME NEW V, IsFiniteSet(V), NEW root, NEW active, NEW graph, OnNodes(V, graph),
         NEW uf, Stands(V, uf, root, active), NEW n, n = Len(graph.edges)
  PROVE  \E new : PassGrown(V, active, graph, n, root, GrowAll(uf, graph), new,
                            JoinAll(Clusters(V, root), graph, active))
<1>1. n \in Nat /\ \A k \in 1 .. n : graph.edges[k].u \in V /\ graph.edges[k].v \in V
  BY DEF OnNodes
<1> DEFINE t == CHOOSE t : Passes(t, n, uf, graph)
<1>2. Passes(t, n, uf, graph)
  BY PassesExist
<1>3. GrowAll(uf, graph) = t[n]
  BY DEF GrowAll, Passes
<1> HIDE DEF t
<1>4. /\ t[0] = [uf |-> uf, any_odd |-> FALSE]
      /\ \A i \in 1 .. n : t[i] = GrowEdge(t[i - 1], graph.edges[i])
  <2>1. \A i \in 0 .. n : t[i] = IF i = 0 THEN [uf |-> uf, any_odd |-> FALSE]
                                 ELSE GrowEdge(t[i - 1], graph.edges[i])
    BY <1>2, Zenon DEF Passes
  <2>2. 0 \in 0 .. n /\ 1 .. n \subseteq 0 .. n /\ 0 \notin 1 .. n
    BY <1>1
  <2>3. t[0] = [uf |-> uf, any_odd |-> FALSE]
    BY <2>1, <2>2, Zenon
  <2>4. ASSUME NEW i \in 1 .. n
        PROVE  t[i] = GrowEdge(t[i - 1], graph.edges[i])
    <3>1. i \in 0 .. n /\ i # 0
      BY <1>1
    <3>2. QED
      BY <2>1, <3>1, Zenon
  <2>5. QED
    BY <2>3, <2>4
<1>5. PICK g : JoinedUpTo(g, n, JoinAll(Clusters(V, root), graph, active),
                          Clusters(V, root), graph, active)
  <2>1. IsRootOf(V, root)
    BY DEF Stands, Forest, IsRootOf
  <2>2. QED
    BY <2>1, JoinAllJoins
<1>6. /\ JoinAll(Clusters(V, root), graph, active) = g[n]
      /\ g[0] = Clusters(V, root)
      /\ \A i \in 1 .. n : g[i] = JoinEdge(g[i - 1], graph.edges[i], active)
  BY <1>5 DEF JoinedUpTo
<1> DEFINE P == {i \in 0 .. n : \E new : PassGrown(V, active, graph, i, root, t[i], new, g[i])}
<1>7. 0 \in P
  <2>1. PICK s : s = t[0]
    OBVIOUS
  <2>2. s = [uf |-> s.uf, any_odd |-> s.any_odd] /\ s.any_odd \in BOOLEAN /\ s.uf = uf
    BY <1>4, <2>1
  <2>3. 1 .. 0 = {}
    OBVIOUS
  <2>4. PassGrown(V, active, graph, 0, root, s, root, g[0])
    BY <1>6, <2>2, <2>3 DEF PassGrown
  <2>5. QED
    BY <1>1, <2>1, <2>4
<1>8. ASSUME NEW i \in 1 .. n, i - 1 \in P PROVE i \in P
  <2>1. PICK mid : PassGrown(V, active, graph, i - 1, root, t[i - 1], mid, g[i - 1])
    BY <1>8
  <2>2. i \in Nat \ {0} /\ graph.edges[i].u \in V /\ graph.edges[i].v \in V
    BY <1>1
  <2>3. \E new : PassGrown(V, active, graph, i, root, GrowEdge(t[i - 1], graph.edges[i]), new,
                           JoinEdge(g[i - 1], graph.edges[i], active))
    BY <2>1, <2>2, PassGrows
  <2>4. \E new : PassGrown(V, active, graph, i, root, t[i], new, g[i])
    BY <1>4, <1>6, <2>3
  <2>5. QED
    BY <2>4
<1> HIDE DEF P
<1>9. 0 .. n \subseteq P
  BY <1>1, <1>7, <1>8, UpTo
<1>10. n \in P
  BY <1>1, <1>9
<1>11. \E new : PassGrown(V, active, graph, n, root, t[n], new, g[n])
  BY <1>10 DEF P
<1>12. QED
  BY <1>3, <1>6, <1>11

\* A round: a pass, unless the last one met no odd cluster.
GrowRound(s, graph) == IF s.any_odd THEN GrowAll(s.uf, graph) ELSE s

\* After i rounds there is nothing left to join, or there are i clusters less.
RoundGrown(V, active, graph, i, s, root, clusters) ==
  /\ s = [uf |-> s.uf, any_odd |-> s.any_odd] /\ s.any_odd \in BOOLEAN
  /\ Stands(V, s.uf, root, active)
  /\ Clusters(V, root) = clusters
  /\ (\E k \in 1 .. Len(graph.edges) : ~ Settled(V, root, active, graph.edges[k])) =>
       Cardinality(RootsIn(V, root)) + i <= Cardinality(V)
  /\ s.any_odd = FALSE =>
       \A k \in 1 .. Len(graph.edges) : Quiet(V, root, active, graph.edges[k])

\* One more round.
LEMMA RoundGrows ==
  ASSUME NEW V, IsFiniteSet(V), NEW active, NEW graph, OnNodes(V, graph),
         NEW i \in Nat \ {0}, NEW s, NEW root, NEW clusters,
         RoundGrown(V, active, graph, i - 1, s, root, clusters)
  PROVE  \E new : RoundGrown(V, active, graph, i, GrowRound(s, graph), new,
                             JoinAll(clusters, graph, active))
<1>1. PICK n, next : n = Len(graph.edges) /\ next = GrowRound(s, graph)
  OBVIOUS
<1>2. /\ s = [uf |-> s.uf, any_odd |-> s.any_odd] /\ s.any_odd \in BOOLEAN
      /\ Stands(V, s.uf, root, active) /\ Clusters(V, root) = clusters
  BY DEF RoundGrown
<1>3. CASE s.any_odd = TRUE
  <2>1. next = GrowAll(s.uf, graph)
    BY <1>1, <1>3 DEF GrowRound
  <2>2. \E new : PassGrown(V, active, graph, n, root, GrowAll(s.uf, graph), new,
                           JoinAll(Clusters(V, root), graph, active))
    BY <1>1, <1>2, GrowAllStands
  <2>3. PICK new : PassGrown(V, active, graph, n, root, next, new,
                             JoinAll(clusters, graph, active))
    BY <1>2, <2>1, <2>2
  <2>4. PICK a, b, m : /\ a = Cardinality(RootsIn(V, root)) /\ b = Cardinality(RootsIn(V, new))
                       /\ m = Cardinality(V)
    OBVIOUS
  <2>5. a \in Nat /\ b \in Nat /\ m \in Nat
    BY <2>4, RootsAreFinite
  <2>6. (\E k \in 1 .. n : ~ Settled(V, new, active, graph.edges[k])) => b + i <= m
    <3>1. HAVE \E k \in 1 .. n : ~ Settled(V, new, active, graph.edges[k])
    <3>2. \E k \in 1 .. n : ~ Settled(V, root, active, graph.edges[k])
      BY <2>3, <3>1 DEF PassGrown
    <3>3. a + (i - 1) <= m
      BY <1>1, <2>4, <3>2 DEF RoundGrown
    <3>4. b < a
      BY <2>3, <2>4, <3>2 DEF PassGrown
    <3>5. QED
      BY <2>5, <3>3, <3>4
  <2>7. RoundGrown(V, active, graph, i, next, new, JoinAll(clusters, graph, active))
    BY <1>1, <2>3, <2>4, <2>6 DEF RoundGrown, PassGrown
  <2>8. QED
    BY <1>1, <2>7
<1>4. CASE s.any_odd = FALSE
  <2>1. next = s
    BY <1>1, <1>4 DEF GrowRound
  <2>2. \A k \in 1 .. Len(graph.edges) : Settled(V, root, active, graph.edges[k])
    BY <1>4 DEF RoundGrown, Settled
  <2>3. JoinAll(clusters, graph, active) = clusters
    <3>1. IsRootOf(V, root)
      BY <1>2 DEF Stands, Forest, IsRootOf
    <3>2. QED
      BY <1>2, <2>2, <3>1, JoinAllSettled
  <2>4. RoundGrown(V, active, graph, i, next, root, JoinAll(clusters, graph, active))
    BY <2>1, <2>2, <2>3 DEF RoundGrown
  <2>5. QED
    BY <1>1, <2>4
<1>5. QED
  BY <1>2, <1>3, <1>4

\* The states after each round.
Rounds(t, n, uf, graph) ==
  t = [i \in 0 .. n |-> IF i = 0 THEN [uf |-> uf, any_odd |-> TRUE]
                        ELSE IF t[i - 1].any_odd THEN GrowAll(t[i - 1].uf, graph)
                             ELSE t[i - 1]]

\* There are such states.
LEMMA RoundsExist ==
  ASSUME NEW V, IsFiniteSet(V), NEW root, NEW active, NEW graph, OnNodes(V, graph),
         NEW uf, Stands(V, uf, root, active), NEW n \in Nat
  PROVE  \E t : Rounds(t, n, uf, graph)
<1> DEFINE S == StatesOn(V, active)
           base == [uf |-> uf, any_odd |-> TRUE]
<1>1. base \in S
  <2>1. PICK s : s = base
    OBVIOUS
  <2>2. s = [uf |-> s.uf, any_odd |-> s.any_odd] /\ s.any_odd \in BOOLEAN /\ s.uf = uf
    BY <2>1
  <2>3. s \in S
    BY <2>2, StandingStates
  <2>4. QED
    BY <2>1, <2>3
<1>2. ASSUME NEW s \in S PROVE GrowRound(s, graph) \in S
  <2>1. PICK r : Stands(V, s.uf, r, active)
    BY DEF StatesOn
  <2>2. CASE s.any_odd
    <3>1. PICK next, k : next = GrowAll(s.uf, graph) /\ k = Len(graph.edges)
      OBVIOUS
    <3>2. PICK new : PassGrown(V, active, graph, k, r, next, new,
                               JoinAll(Clusters(V, r), graph, active))
      BY <2>1, <3>1, GrowAllStands
    <3>3. next \in S
      BY <3>2, StandingStates DEF PassGrown
    <3>4. QED
      BY <2>2, <3>1, <3>3 DEF GrowRound
  <2>3. CASE ~ s.any_odd
    BY <2>3 DEF GrowRound
  <2>4. QED
    BY <2>2, <2>3
<1>3. PICK step : step = [k \in 1 .. n |-> [s \in S |-> GrowRound(s, graph)]]
  OBVIOUS
<1> HIDE DEF S, base
<1>4. step \in [1 .. n -> [S -> S]]
  BY <1>2, <1>3
<1>5. PICK f : Recursion(f, n, S, base, step)
  BY <1>1, <1>4, RecursionExists
<1>6. ASSUME NEW i \in 1 .. n PROVE f[i] = GrowRound(f[i - 1], graph)
  <2>1. f[i - 1] \in S
    BY <1>5 DEF Recursion
  <2>2. QED
    BY <1>3, <1>5, <2>1 DEF Recursion
<1>7. \A i \in 0 .. n : f[i] = IF i = 0 THEN base ELSE GrowRound(f[i - 1], graph)
  BY <1>5, <1>6 DEF Recursion
<1>8. f = [i \in 0 .. n |-> IF i = 0 THEN base ELSE GrowRound(f[i - 1], graph)]
  BY <1>5, <1>7 DEF Recursion
<1>9. Rounds(f, n, uf, graph)
  BY <1>8, Zenon DEF Rounds, GrowRound, base
<1>10. QED
  BY <1>9

\* The clusters after each round.
JoinRounds(g, n, clusters, graph, active) ==
  g = [i \in 0 .. n |-> IF i = 0 THEN clusters ELSE JoinAll(g[i - 1], graph, active)]

\* There are such clusters.
LEMMA JoinRoundsExist ==
  ASSUME NEW V, NEW root, IsRootOf(V, root), NEW active, NEW graph, OnNodes(V, graph),
         NEW n \in Nat
  PROVE  \E g : JoinRounds(g, n, Clusters(V, root), graph, active)
<1> DEFINE S == {Clusters(V, r) : r \in RootsOn(V)}
           base == Clusters(V, root)
<1>1. base \in S
  BY DEF RootsOn, IsRootOf
<1>2. ASSUME NEW c \in S PROVE JoinAll(c, graph, active) \in S
  <2>1. PICK r \in RootsOn(V) : c = Clusters(V, r)
    OBVIOUS
  <2>2. PICK k : k = Len(graph.edges)
    OBVIOUS
  <2>3. k \in Nat
    BY <2>2 DEF OnNodes
  <2> DEFINE g == CHOOSE g : Joins(g, k, Clusters(V, r), graph, active)
  <2>4. \E g1 : /\ Joins(g1, k, Clusters(V, r), graph, active)
                /\ \A i \in 0 .. k : g1[i] \in S
    BY <2>1, <2>2, JoinsExist DEF RootsOn
  <2>5. JoinAll(c, graph, active) = g[k]
    BY <2>1, <2>2 DEF JoinAll, Joins
  <2>6. Joins(g, k, Clusters(V, r), graph, active)
    BY <2>4
  <2> HIDE DEF g, S
  <2>7. /\ g[0] = c
        /\ \A i \in 1 .. k : g[i] = JoinEdge(g[i - 1], graph.edges[i], active)
    BY <2>1, <2>3, <2>6 DEF Joins
  <2>8. PICK h : /\ Joins(h, k, Clusters(V, r), graph, active)
                 /\ \A i \in 0 .. k : h[i] \in S
    BY <2>4
  <2>9. /\ h[0] = c
        /\ \A i \in 1 .. k : h[i] = JoinEdge(h[i - 1], graph.edges[i], active)
    BY <2>1, <2>3, <2>8 DEF Joins
  <2> DEFINE P == {i \in 0 .. k : g[i] = h[i]}
  <2>10. 0 \in P
    BY <2>3, <2>7, <2>9
  <2>11. ASSUME NEW i \in 1 .. k, i - 1 \in P PROVE i \in P
    BY <2>7, <2>9, <2>11
  <2> HIDE DEF P
  <2>12. 0 .. k \subseteq P
    BY <2>3, <2>10, <2>11, UpTo
  <2>13. QED
    BY <2>3, <2>5, <2>8, <2>12 DEF P
<1>3. PICK step : step = [k \in 1 .. n |-> [c \in S |-> JoinAll(c, graph, active)]]
  OBVIOUS
<1> HIDE DEF S, base
<1>4. step \in [1 .. n -> [S -> S]]
  BY <1>2, <1>3
<1>5. PICK f : Recursion(f, n, S, base, step)
  BY <1>1, <1>4, RecursionExists
<1>6. ASSUME NEW i \in 1 .. n PROVE f[i] = JoinAll(f[i - 1], graph, active)
  <2>1. f[i - 1] \in S
    BY <1>5 DEF Recursion
  <2>2. QED
    BY <1>3, <1>5, <2>1 DEF Recursion
<1>7. \A i \in 0 .. n : f[i] = IF i = 0 THEN base ELSE JoinAll(f[i - 1], graph, active)
  BY <1>5, <1>6 DEF Recursion
<1>8. JoinRounds(f, n, base, graph, active)
  BY <1>5, <1>7 DEF Recursion, JoinRounds
<1>9. QED
  BY <1>8 DEF base

\* What is grown: the clusters of the partition, with nothing left to join.
GrownTo(V, graph, active, uf, root) ==
  /\ Stands(V, uf, root, active)
  /\ Clusters(V, root) = Partition(graph, active)
  /\ \A k \in 1 .. Len(graph.edges) : Settled(V, root, active, graph.edges[k])

\* The rounds end with the clusters of the partition, and there are enough of them.
LEMMA GrowStands ==
  ASSUME NEW graph, graph.nodes \in Nat \ {0}, NEW V, V = NodesOf(graph), OnNodes(V, graph),
         NEW active, NEW uf, NEW root0, root0 = [x \in V |-> x], Stands(V, uf, root0, active)
  PROVE  \E root : GrownTo(V, graph, active, Grow(uf, graph), root)
<1>1. PICK n : n = graph.nodes
  OBVIOUS
<1>2. n \in Nat /\ n >= 1
  BY <1>1
<1>3. IsFiniteSet(V) /\ Cardinality(V) = n /\ V # {}
  <2>1. V = 0 .. n - 1 /\ n - 1 \in Int /\ 0 <= n - 1
    BY <1>1, <1>2 DEF NodesOf, Boundary
  <2>2. Cardinality(V) = (n - 1) - 0 + 1 /\ IsFiniteSet(V)
    BY <1>2, <2>1, FS_Interval
  <2>3. 0 \in V
    BY <2>1
  <2>4. QED
    BY <1>2, <2>2, <2>3
<1>4. IsRootOf(V, root0)
  BY DEF IsRootOf
<1> DEFINE t == CHOOSE t : Rounds(t, n, uf, graph)
           g == CHOOSE g : JoinRounds(g, n, Clusters(V, root0), graph, active)
<1>5. Rounds(t, n, uf, graph)
  BY <1>2, <1>3, RoundsExist
<1>6. Grow(uf, graph) = t[n].uf
  BY <1>1 DEF Grow, Rounds
<1>7. JoinRounds(g, n, Clusters(V, root0), graph, active)
  BY <1>2, <1>4, JoinRoundsExist
<1>8. Partition(graph, active) = g[n]
  <2>1. Clusters(V, root0) = {{x} : x \in NodesOf(graph)}
    BY ClustersAtFirst
  <2>2. QED
    BY <1>1, <2>1 DEF Partition, JoinRounds
<1> HIDE DEF t, g
<1>9. /\ t[0] = [uf |-> uf, any_odd |-> TRUE]
      /\ \A i \in 1 .. n : t[i] = GrowRound(t[i - 1], graph)
  <2>1. \A i \in 0 .. n : t[i] = IF i = 0 THEN [uf |-> uf, any_odd |-> TRUE]
                                 ELSE GrowRound(t[i - 1], graph)
    BY <1>5, Zenon DEF Rounds, GrowRound
  <2>2. 0 \in 0 .. n /\ 1 .. n \subseteq 0 .. n /\ 0 \notin 1 .. n
    BY <1>2
  <2>3. t[0] = [uf |-> uf, any_odd |-> TRUE]
    BY <2>1, <2>2, Zenon
  <2>4. ASSUME NEW i \in 1 .. n
        PROVE  t[i] = GrowRound(t[i - 1], graph)
    <3>1. i \in 0 .. n /\ i # 0
      BY <1>2
    <3>2. QED
      BY <2>1, <3>1, Zenon
  <2>5. QED
    BY <2>3, <2>4
<1>10. /\ g[0] = Clusters(V, root0)
       /\ \A i \in 1 .. n : g[i] = JoinAll(g[i - 1], graph, active)
  BY <1>2, <1>7 DEF JoinRounds
<1> DEFINE P == {i \in 0 .. n : \E root : RoundGrown(V, active, graph, i, t[i], root, g[i])}
<1>11. 0 \in P
  <2>1. PICK s : s = t[0]
    OBVIOUS
  <2>2. s = [uf |-> s.uf, any_odd |-> s.any_odd] /\ s.any_odd = TRUE /\ s.uf = uf
    BY <1>9, <2>1
  <2>3. Cardinality(RootsIn(V, root0)) + 0 <= Cardinality(V)
    BY <1>3, RootsAreFinite
  <2>4. RoundGrown(V, active, graph, 0, s, root0, g[0])
    BY <1>10, <2>2, <2>3 DEF RoundGrown
  <2>5. QED
    BY <1>2, <2>1, <2>4
<1>12. ASSUME NEW i \in 1 .. n, i - 1 \in P PROVE i \in P
  <2>1. PICK root : RoundGrown(V, active, graph, i - 1, t[i - 1], root, g[i - 1])
    BY <1>12
  <2>2. i \in Nat \ {0} /\ i \in 0 .. n
    BY <1>2
  <2>3. \E new : RoundGrown(V, active, graph, i, GrowRound(t[i - 1], graph), new,
                            JoinAll(g[i - 1], graph, active))
    BY <1>3, <2>1, <2>2, RoundGrows
  <2>4. \E new : RoundGrown(V, active, graph, i, t[i], new, g[i])
    BY <1>9, <1>10, <2>3
  <2>5. QED
    BY <2>2, <2>4
<1> HIDE DEF P
<1>13. 0 .. n \subseteq P
  BY <1>2, <1>11, <1>12, UpTo
<1>14. n \in P
  BY <1>2, <1>13
<1>15. PICK root : RoundGrown(V, active, graph, n, t[n], root, g[n])
  BY <1>14 DEF P
<1>16. \A k \in 1 .. Len(graph.edges) : Settled(V, root, active, graph.edges[k])
  <2>1. PICK m : m = Cardinality(RootsIn(V, root))
    OBVIOUS
  <2>2. IsFiniteSet(RootsIn(V, root)) /\ m \in Nat
    BY <1>3, <2>1, RootsAreFinite
  <2>3. m # 0
    <3>1. PICK x : x \in V
      BY <1>3
    <3>2. root[x] \in RootsIn(V, root)
      BY <1>15, <3>1 DEF RoundGrown, Stands, Forest, RootsIn
    <3>3. QED
      BY <2>1, <2>2, <3>2, FS_EmptySet
  <2>4. ~ (m + n <= n)
    BY <1>2, <2>2, <2>3
  <2>5. QED
    BY <1>3, <1>15, <2>1, <2>4 DEF RoundGrown
<1>17. GrownTo(V, graph, active, Grow(uf, graph), root)
  BY <1>6, <1>8, <1>15, <1>16 DEF RoundGrown, GrownTo
<1>18. QED
  BY <1>17

-----------------------------------------------------------------------------
(* Seeds.                                                                    *)

\* Arrays that hold a forest, whatever is counted in it.
Arrays(V, root) ==
  {uf \in [parent : [V -> V], rank : [V -> Nat], count : [V -> Nat]] :
     Forest(V, uf.parent, uf.rank, root) /\ Ranked(V, uf.rank, root)}

\* A seed leaves them such arrays.
LEMMA SeedKeeps ==
  ASSUME NEW V, IsFiniteSet(V), NEW root, NEW uf \in Arrays(V, root), NEW det \in V
  PROVE  Seed(uf, det) \in Arrays(V, root)
<1>1. /\ uf = [parent |-> uf.parent, rank |-> uf.rank, count |-> uf.count]
      /\ uf.count \in [V -> Nat]
      /\ Forest(V, uf.parent, uf.rank, root) /\ Ranked(V, uf.rank, root)
  BY DEF Arrays
<1>2. PICK f, p, k, c : f = Find(uf.parent, det) /\ p = uf.parent /\ k = uf.rank /\ c = uf.count
  OBVIOUS
<1>3. f.x = root[det] /\ Forest(V, f.parent, k, root)
  <2>1. \A y \in V : uf.rank[y] < Cardinality(V)
    BY <1>1, RanksAreLow
  <2>2. QED
    BY <1>1, <1>2, <2>1, FindFinds
<1>4. PICK q, r : q = f.parent /\ r = root[det]
  OBVIOUS
<1>5. r \in V /\ q \in [V -> V] /\ k \in [V -> Nat]
  BY <1>3, <1>4 DEF Forest
<1>6. PICK count : count = [c EXCEPT ![r] = @ + 1]
  OBVIOUS
<1>7. count \in [V -> Nat]
  BY <1>1, <1>2, <1>5, <1>6
<1>8. PICK new : new = Seed(uf, det)
  OBVIOUS
<1>9. new = [parent |-> q, rank |-> k, count |-> count]
  <2>1. PICK found : found = [uf EXCEPT !.parent = q]
    OBVIOUS
  <2>2. new = [found EXCEPT !.count[r] = @ + 1]
    BY <1>2, <1>3, <1>4, <1>8, <2>1 DEF Seed
  <2>3. uf = [parent |-> p, rank |-> k, count |-> c]
    BY <1>1, <1>2
  <2>4. found = [parent |-> q, rank |-> k, count |-> c]
    BY <2>1, <2>3
  <2>5. QED
    BY <1>6, <2>2, <2>4
<1>10. new \in [parent : [V -> V], rank : [V -> Nat], count : [V -> Nat]]
       /\ new.parent = q /\ new.rank = k
  BY <1>5, <1>7, <1>9
<1>11. QED
  BY <1>1, <1>2, <1>3, <1>4, <1>8, <1>10 DEF Arrays

\* The arrays after each seed.
Seeds(t, n, uf, active) ==
  t = [i \in 0 .. n |-> IF i = 0 THEN uf ELSE Seed(t[i - 1], active[i])]

\* Detectors of the graph, none of them twice.
Distinct(V, active) ==
  /\ Len(active) \in Nat /\ DOMAIN active = 1 .. Len(active)
  /\ \A i \in 1 .. Len(active) : active[i] \in V
  /\ \A i, j \in 1 .. Len(active) : active[i] = active[j] => i = j

\* Seeds count the active detectors.
LEMMA SeedAllStands ==
  ASSUME NEW V, IsFiniteSet(V), NEW root, NEW uf, Stands(V, uf, root, {}),
         NEW active, Distinct(V, active)
  PROVE  Stands(V, SeedAll(uf, active), root, Range(active))
<1>1. PICK n : n = Len(active)
  OBVIOUS
<1>2. /\ n \in Nat /\ \A i \in 1 .. n : active[i] \in V
      /\ \A i, j \in 1 .. n : active[i] = active[j] => i = j
  BY <1>1 DEF Distinct
<1> DEFINE t == CHOOSE t : Seeds(t, n, uf, active)
<1>3. \E t1 : Seeds(t1, n, uf, active)
  <2> DEFINE S == Arrays(V, root)
  <2>1. uf \in S
    <3>1. /\ uf = [parent |-> uf.parent, rank |-> uf.rank, count |-> uf.count]
          /\ uf.parent \in [V -> V] /\ uf.rank \in [V -> Nat] /\ uf.count \in [V -> Nat]
      BY DEF Stands, Forest, Counted
    <3>2. uf \in [parent : [V -> V], rank : [V -> Nat], count : [V -> Nat]]
      BY <3>1
    <3>3. QED
      BY <3>2 DEF Stands, Arrays
  <2>2. \A i \in 1 .. n : \A s \in S : Seed(s, active[i]) \in S
    BY <1>2, SeedKeeps
  <2>3. PICK step : step = [i \in 1 .. n |-> [s \in S |-> Seed(s, active[i])]]
    OBVIOUS
  <2> HIDE DEF S
  <2>4. step \in [1 .. n -> [S -> S]]
    BY <2>2, <2>3
  <2>5. PICK f : Recursion(f, n, S, uf, step)
    BY <1>2, <2>1, <2>4, RecursionExists
  <2>6. ASSUME NEW i \in 1 .. n PROVE f[i] = Seed(f[i - 1], active[i])
    <3>1. f[i - 1] \in S
      BY <1>2, <2>5 DEF Recursion
    <3>2. QED
      BY <2>3, <2>5, <3>1 DEF Recursion
  <2>7. \A i \in 0 .. n : f[i] = IF i = 0 THEN uf ELSE Seed(f[i - 1], active[i])
    BY <1>2, <2>5, <2>6 DEF Recursion
  <2>8. Seeds(f, n, uf, active)
    BY <2>5, <2>7 DEF Recursion, Seeds
  <2>9. QED
    BY <2>8
<1>4. Seeds(t, n, uf, active)
  BY <1>3
<1>5. SeedAll(uf, active) = t[n]
  BY <1>1 DEF SeedAll, Seeds
<1> HIDE DEF t
<1>6. t[0] = uf /\ \A i \in 1 .. n : t[i] = Seed(t[i - 1], active[i])
  BY <1>2, <1>4 DEF Seeds
<1> DEFINE P == {i \in 0 .. n : Stands(V, t[i], root, {active[j] : j \in 1 .. i})}
<1>7. 0 \in P
  <2>1. {active[j] : j \in 1 .. 0} = {}
    OBVIOUS
  <2>2. QED
    BY <1>2, <1>6, <2>1
<1>8. ASSUME NEW i \in 1 .. n, i - 1 \in P PROVE i \in P
  <2>1. PICK A : A = {active[j] : j \in 1 .. i - 1}
    OBVIOUS
  <2>2. active[i] \in V /\ active[i] \notin A
    BY <1>2, <2>1
  <2>3. Stands(V, t[i], root, A \cup {active[i]})
    BY <1>6, <1>8, <2>1, <2>2, SeedStands
  <2>4. {active[j] : j \in 1 .. i} = A \cup {active[i]}
    <3>1. \A j \in 1 .. i : j \in 1 .. i - 1 \/ j = i
      OBVIOUS
    <3>2. 1 .. i - 1 \subseteq 1 .. i /\ i \in 1 .. i
      OBVIOUS
    <3>3. QED
      BY <2>1, <3>1, <3>2
  <2>5. QED
    BY <2>3, <2>4
<1> HIDE DEF P
<1>9. 0 .. n \subseteq P
  BY <1>2, <1>7, <1>8, UpTo
<1>10. Stands(V, t[n], root, {active[j] : j \in 1 .. n})
  BY <1>2, <1>9 DEF P
<1>11. Range(active) = {active[j] : j \in 1 .. n}
  BY <1>1 DEF Range, Distinct
<1>12. QED
  BY <1>5, <1>10, <1>11

-----------------------------------------------------------------------------
(* What is read off the edges, and the whole of a decode.                    *)

\* What is read after each edge.
Reads(t, n, parent, graph) ==
  t = [i \in 0 .. n |-> IF i = 0 THEN [parent |-> parent, flips |-> {}]
                        ELSE Extract(t[i - 1], graph.edges[i])]

\* The observables of the edges.
FaultsOf(graph) == UNION {Range(graph.edges[k].fault_ids) : k \in 1 .. Len(graph.edges)}

ReadStates(V, rank, root, graph) ==
  {s \in [parent : [V -> V], flips : SUBSET FaultsOf(graph)] : Forest(V, s.parent, rank, root)}

\* Flipping observables of the edges leaves observables of the edges.
LEMMA FlipsStay ==
  ASSUME NEW graph, NEW flips \in SUBSET FaultsOf(graph), NEW k \in 1 .. Len(graph.edges)
  PROVE  FlipAll(flips, graph.edges[k].fault_ids) \in SUBSET FaultsOf(graph)
<1>1. PICK ids, T : /\ ids = graph.edges[k].fault_ids
                    /\ T = {obs \in Range(ids) :
                              Cardinality({j \in DOMAIN ids : ids[j] = obs}) % 2 = 1}
  OBVIOUS
<1>2. FlipAll(flips, ids) = (flips \ T) \cup (T \ flips)
  BY <1>1 DEF FlipAll, SymDiff
<1>3. T \subseteq Range(ids) /\ Range(ids) \subseteq FaultsOf(graph)
  BY <1>1 DEF FaultsOf
<1>4. QED
  BY <1>1, <1>2, <1>3

\* One edge: it counts if its ends are in one tree, and the forest stays.
LEMMA ExtractReads ==
  ASSUME NEW V, IsFiniteSet(V), NEW rank, NEW root, NEW graph, OnNodes(V, graph),
         Ranked(V, rank, root), NEW k \in 1 .. Len(graph.edges),
         NEW s \in ReadStates(V, rank, root, graph),
         NEW edge, edge = graph.edges[k], NEW next, next = Extract(s, edge)
  PROVE  /\ next \in ReadStates(V, rank, root, graph)
         /\ next.flips = IF edge.v \in ClusterOf(Clusters(V, root), edge.u)
                         THEN FlipAll(s.flips, edge.fault_ids) ELSE s.flips
<1>1. edge.u \in V /\ edge.v \in V
  BY DEF OnNodes
<1>2. Forest(V, s.parent, rank, root) /\ s.flips \in SUBSET FaultsOf(graph)
  BY DEF ReadStates
<1>3. \A y \in V : rank[y] < Cardinality(V)
  BY <1>2, RanksAreLow
<1>4. PICK fu, fv : fu = Find(s.parent, edge.u) /\ fv = Find(fu.parent, edge.v)
  OBVIOUS
<1>5. fu.x = root[edge.u] /\ Forest(V, fu.parent, rank, root)
  BY <1>1, <1>2, <1>3, <1>4, FindFinds
<1>6. fv.x = root[edge.v] /\ Forest(V, fv.parent, rank, root)
  BY <1>1, <1>3, <1>4, <1>5, FindFinds
<1>7. fu.x = fv.x <=> edge.v \in ClusterOf(Clusters(V, root), edge.u)
  <2>1. IsRootOf(V, root)
    BY <1>2 DEF Forest, IsRootOf
  <2>2. ClusterOf(Clusters(V, root), edge.u) = Tree(V, root, root[edge.u])
    BY <1>1, <2>1, ClusterIsTree
  <2>3. QED
    BY <1>1, <1>5, <1>6, <2>2 DEF Tree
<1>8. PICK flips : flips = IF fu.x = fv.x THEN FlipAll(s.flips, edge.fault_ids) ELSE s.flips
  OBVIOUS
<1>9. flips \in SUBSET FaultsOf(graph)
  BY <1>2, <1>8, FlipsStay
<1>10. next = [parent |-> fv.parent, flips |-> flips]
  BY <1>4, <1>8 DEF Extract
<1>11. fv.parent \in [V -> V]
  BY <1>6 DEF Forest
<1>12. next.parent = fv.parent /\ next.flips = flips
       /\ next \in [parent : [V -> V], flips : SUBSET FaultsOf(graph)]
  BY <1>9, <1>10, <1>11
<1>13. QED
  BY <1>6, <1>7, <1>8, <1>12 DEF ReadStates

\* What FlipsOf has after each edge.
FlipReads(g, n, clusters, graph) ==
  g = [i \in 0 .. n |->
         IF i = 0 THEN {}
         ELSE LET edge == graph.edges[i]
              IN  IF edge.v \in ClusterOf(clusters, edge.u)
                  THEN FlipAll(g[i - 1], edge.fault_ids)
                  ELSE g[i - 1]]

\* What is read off the arrays is what is read off the clusters they stand for.
LEMMA ExtractAllReads ==
  ASSUME NEW V, IsFiniteSet(V), NEW parent, NEW rank, NEW root, Forest(V, parent, rank, root),
         Ranked(V, rank, root), NEW graph, OnNodes(V, graph)
  PROVE  /\ ExtractAll(parent, graph).flips = FlipsOf(Clusters(V, root), graph)
         /\ Forest(V, ExtractAll(parent, graph).parent, rank, root)
<1>1. PICK n, clusters : n = Len(graph.edges) /\ clusters = Clusters(V, root)
  OBVIOUS
<1>2. n \in Nat
  BY <1>1 DEF OnNodes
<1> DEFINE S == ReadStates(V, rank, root, graph)
           base == [parent |-> parent, flips |-> {}]
           O == SUBSET FaultsOf(graph)
           Flip(i, flips) ==
             IF graph.edges[i].v \in ClusterOf(clusters, graph.edges[i].u)
             THEN FlipAll(flips, graph.edges[i].fault_ids) ELSE flips
           t == CHOOSE t : Reads(t, n, parent, graph)
           g == CHOOSE g : FlipReads(g, n, clusters, graph)
<1>3. base \in S
  BY DEF Forest, ReadStates
<1>4. \A i \in 1 .. n : \A s \in S :
        Extract(s, graph.edges[i]) \in S /\ Extract(s, graph.edges[i]).flips = Flip(i, s.flips)
  BY <1>1, ExtractReads
<1>5. \A i \in 1 .. n : \A flips \in O : Flip(i, flips) \in O
  BY <1>1, FlipsStay
<1>6. Reads(t, n, parent, graph)
  <2>1. \E f : Reads(f, n, parent, graph)
    <3>1. PICK step : step = [i \in 1 .. n |-> [s \in S |-> Extract(s, graph.edges[i])]]
      OBVIOUS
    <3> HIDE DEF S, base, Flip
    <3>2. step \in [1 .. n -> [S -> S]]
      BY <1>4, <3>1
    <3>3. PICK f : Recursion(f, n, S, base, step)
      BY <1>2, <1>3, <3>2, RecursionExists
    <3>4. ASSUME NEW i \in 1 .. n PROVE f[i] = Extract(f[i - 1], graph.edges[i])
      <4>1. f[i - 1] \in S
        BY <1>2, <3>3 DEF Recursion
      <4>2. QED
        BY <3>1, <3>3, <4>1 DEF Recursion
    <3>5. \A i \in 0 .. n : f[i] = IF i = 0 THEN base ELSE Extract(f[i - 1], graph.edges[i])
      BY <1>2, <3>3, <3>4 DEF Recursion
    <3>6. Reads(f, n, parent, graph)
      BY <3>3, <3>5 DEF Recursion, Reads, base
    <3>7. QED
      BY <3>6
  <2>2. QED
    BY <2>1
<1>7. FlipReads(g, n, clusters, graph)
  <2>1. \E f : FlipReads(f, n, clusters, graph)
    <3>1. PICK step : step = [i \in 1 .. n |-> [flips \in O |-> Flip(i, flips)]]
      OBVIOUS
    <3>2. {} \in O
      OBVIOUS
    <3> HIDE DEF O, Flip
    <3>3. step \in [1 .. n -> [O -> O]]
      BY <1>5, <3>1
    <3>4. PICK f : Recursion(f, n, O, {}, step)
      BY <1>2, <3>2, <3>3, RecursionExists
    <3>5. ASSUME NEW i \in 1 .. n PROVE f[i] = Flip(i, f[i - 1])
      <4>1. f[i - 1] \in O
        BY <1>2, <3>4 DEF Recursion
      <4>2. QED
        BY <3>1, <3>4, <4>1 DEF Recursion
    <3>6. \A i \in 0 .. n : f[i] = IF i = 0 THEN {} ELSE Flip(i, f[i - 1])
      BY <1>2, <3>4, <3>5 DEF Recursion
    <3>7. f = [i \in 0 .. n |-> IF i = 0 THEN {} ELSE Flip(i, f[i - 1])]
      BY <3>4, <3>6 DEF Recursion
    <3>8. FlipReads(f, n, clusters, graph)
      BY <3>7, Zenon DEF FlipReads, Flip
    <3>9. QED
      BY <3>8
  <2>2. QED
    BY <2>1
<1>8. ExtractAll(parent, graph) = t[n] /\ FlipsOf(Clusters(V, root), graph) = g[n]
  BY <1>1 DEF ExtractAll, Reads, FlipsOf, FlipReads
<1> HIDE DEF t, g
<1>9. 0 \in 0 .. n /\ 1 .. n \subseteq 0 .. n /\ 0 \notin 1 .. n
  BY <1>2
<1>10. t[0] = base /\ \A i \in 1 .. n : t[i] = Extract(t[i - 1], graph.edges[i])
  BY <1>6, <1>9 DEF Reads
<1>11. g[0] = {} /\ \A i \in 1 .. n : g[i] = Flip(i, g[i - 1])
  <2>1. g = [i \in 0 .. n |-> IF i = 0 THEN {} ELSE Flip(i, g[i - 1])]
    BY <1>7, Zenon DEF FlipReads
  <2> HIDE DEF Flip
  <2>2. \A i \in 0 .. n : g[i] = IF i = 0 THEN {} ELSE Flip(i, g[i - 1])
    BY <2>1, Zenon
  <2>3. QED
    BY <1>9, <2>2
<1> DEFINE P == {i \in 0 .. n : t[i] \in S /\ t[i].flips = g[i]}
<1>12. 0 \in P
  <2>1. base.flips = {}
    OBVIOUS
  <2> HIDE DEF S, base, Flip
  <2>2. t[0] \in S /\ t[0].flips = g[0]
    BY <1>3, <1>10, <1>11, <2>1
  <2>3. QED
    BY <1>9, <2>2
<1>13. ASSUME NEW i \in 1 .. n, i - 1 \in P PROVE i \in P
  <2> HIDE DEF S, Flip
  <2>1. t[i] \in S /\ t[i].flips = Flip(i, t[i - 1].flips)
    BY <1>4, <1>10, <1>13
  <2>2. QED
    BY <1>9, <1>11, <1>13, <2>1
<1> HIDE DEF P
<1>14. 0 .. n \subseteq P
  BY <1>2, <1>12, <1>13, UpTo
<1>15. n \in P
  BY <1>2, <1>14
<1>16. t[n].flips = g[n] /\ t[n] \in ReadStates(V, rank, root, graph)
  BY <1>15 DEF P
<1>17. Forest(V, t[n].parent, rank, root)
  BY <1>16 DEF ReadStates
<1>18. QED
  BY <1>8, <1>16, <1>17

\* The graph of a decoder, and arrays for it.
GraphOf(V, graph) ==
  /\ graph.nodes \in Nat \ {0} /\ V = NodesOf(graph)
  /\ OnNodes(V, graph) /\ DOMAIN graph.edges = 1 .. Len(graph.edges)

ArraysFor(V, uf) == DOMAIN uf.parent = V /\ DOMAIN uf.rank = V /\ DOMAIN uf.count = V

\* A decode answers what the clusters of the partition say, leaves the arrays
\* grown, and whatever was in them before makes no difference.
LEMMA DecodeIsPartition ==
  ASSUME NEW V, NEW graph, GraphOf(V, graph), NEW uf, ArraysFor(V, uf),
         NEW active, Distinct(V, active), NEW d, d = DecodeActive(graph, uf, active)
  PROVE  /\ d.flips = PartitionFlips(graph, Range(active))
         /\ IsGrown(graph, d.uf, Range(active))
         /\ ArraysFor(V, d.uf)
<1>1. /\ graph.nodes \in Nat \ {0} /\ V = NodesOf(graph) /\ OnNodes(V, graph)
      /\ DOMAIN graph.edges = 1 .. Len(graph.edges)
  BY DEF GraphOf
<1>2. IsFiniteSet(V)
  <2>1. V = 0 .. graph.nodes - 1 /\ 0 \in Int /\ graph.nodes - 1 \in Int
    BY <1>1 DEF NodesOf, Boundary
  <2>2. QED
    BY <2>1, FS_Interval
<1>3. PICK A, root0, seeded, grown, got :
        /\ A = Range(active) /\ root0 = [x \in V |-> x]
        /\ seeded = SeedAll(Reset(uf), active) /\ grown = Grow(seeded, graph)
        /\ got = ExtractAll(grown.parent, graph)
  OBVIOUS
<1>4. Stands(V, seeded, root0, A)
  <2>1. Stands(V, Reset(uf), root0, {})
    BY <1>3, ResetStands DEF ArraysFor
  <2>2. QED
    BY <1>2, <1>3, <2>1, SeedAllStands
<1>5. PICK root : GrownTo(V, graph, A, grown, root)
  BY <1>1, <1>3, <1>4, GrowStands
<1>6. /\ Stands(V, grown, root, A) /\ Clusters(V, root) = Partition(graph, A)
      /\ \A k \in 1 .. Len(graph.edges) : Settled(V, root, A, graph.edges[k])
  BY <1>5 DEF GrownTo
<1>7. got.flips = PartitionFlips(graph, A) /\ Forest(V, got.parent, grown.rank, root)
  BY <1>1, <1>2, <1>3, <1>6, ExtractAllReads DEF Stands, PartitionFlips
<1>8. PICK left : left = [parent |-> got.parent, rank |-> grown.rank, count |-> grown.count]
  OBVIOUS
<1>9. d = [uf |-> left, flips |-> got.flips]
  <2>1. grown = [parent |-> grown.parent, rank |-> grown.rank, count |-> grown.count]
    BY <1>6 DEF Stands
  <2>2. [grown EXCEPT !.parent = got.parent] = left
    <3>1. PICK e, p, k, c, q : /\ e = grown /\ p = grown.parent /\ k = grown.rank
                               /\ c = grown.count /\ q = got.parent
      OBVIOUS
    <3>2. e = [parent |-> p, rank |-> k, count |-> c]
      BY <2>1, <3>1
    <3>3. [e EXCEPT !.parent = q] = [parent |-> q, rank |-> k, count |-> c]
      BY <3>2
    <3>4. QED
      BY <1>8, <3>1, <3>3
  <2>3. d = [uf |-> [grown EXCEPT !.parent = got.parent], flips |-> got.flips]
    BY <1>3 DEF DecodeActive
  <2>4. QED
    BY <2>2, <2>3
<1>10. d.flips = PartitionFlips(graph, A) /\ d.uf = left
  BY <1>7, <1>9
<1>11. left.parent = got.parent /\ left.rank = grown.rank /\ left.count = grown.count
  BY <1>8
<1>12. /\ left.parent \in [V -> V] /\ left.rank \in [V -> Nat] /\ left.count \in [V -> Nat]
       /\ Forest(V, left.parent, left.rank, root)
       /\ \A r \in V : root[r] = r => left.count[r] = Cardinality(Tree(V, root, r) \cap A)
  BY <1>6, <1>7, <1>11 DEF Forest, Stands, Counted
<1>13. ArraysFor(V, left)
  BY <1>12 DEF ArraysFor
<1>14. \A x \in V : Find(left.parent, x).x = root[x]
  <2>1. Ranked(V, left.rank, root)
    BY <1>6, <1>11 DEF Stands
  <2>2. \A y \in V : left.rank[y] < Cardinality(V)
    BY <1>2, <1>12, <2>1, RanksAreLow
  <2>3. QED
    BY <1>2, <1>12, <2>2, FindFinds
<1>15. A \subseteq V
  BY <1>3 DEF Range, Distinct
<1>16. IsGrown(graph, left, A)
  <2>1. ASSUME NEW x \in V PROVE left.parent[Find(left.parent, x).x] = Find(left.parent, x).x
    BY <1>12, <1>14 DEF Forest
  <2>2. ASSUME NEW x \in V, left.parent[x] = x
        PROVE  left.count[x] = Cardinality({a \in A : Find(left.parent, a).x = x})
    <3>1. root[x] = x
      BY <1>12, <2>2 DEF Forest
    <3>2. {a \in A : Find(left.parent, a).x = x} = Tree(V, root, x) \cap A
      BY <1>14, <1>15 DEF Tree
    <3>3. QED
      BY <1>12, <3>1, <3>2
  <2>3. ASSUME NEW k \in DOMAIN graph.edges,
               Find(left.parent, graph.edges[k].u).x # Find(left.parent, graph.edges[k].v).x
        PROVE  /\ left.count[Find(left.parent, graph.edges[k].u).x] % 2 = 0
               /\ left.count[Find(left.parent, graph.edges[k].v).x] % 2 = 0
    <3>1. PICK u, v : u = graph.edges[k].u /\ v = graph.edges[k].v
      OBVIOUS
    <3>2. u \in V /\ v \in V /\ k \in 1 .. Len(graph.edges)
      BY <1>1, <3>1 DEF OnNodes
    <3>3. Quiet(V, root, A, graph.edges[k])
      BY <1>6, <1>14, <2>3, <3>1, <3>2 DEF Settled
    <3>4. root[u] \in V /\ root[v] \in V /\ root[root[u]] = root[u] /\ root[root[v]] = root[v]
      BY <1>12, <3>2 DEF Forest
    <3>5. PICK m, n : m = left.count[root[u]] /\ n = left.count[root[v]]
      OBVIOUS
    <3>6. m \in Nat /\ n \in Nat /\ ~ (m % 2 = 1) /\ ~ (n % 2 = 1)
      BY <1>12, <3>1, <3>3, <3>4, <3>5 DEF Quiet, IsOdd
    <3>7. m % 2 = 0 /\ n % 2 = 0
      BY <3>6
    <3>8. QED
      BY <1>14, <3>1, <3>2, <3>5, <3>7
  <2>4. QED
    BY <1>1, <2>1, <2>2, <2>3 DEF IsGrown
<1>17. QED
  BY <1>3, <1>10, <1>13, <1>16

-----------------------------------------------------------------------------
(* What the matrix of a window has where, and what fires in it.              *)

\* Where each of n rows begins in the sequence of all of them.
Starts(rows, n, before) ==
  before = [k \in 1 .. n |-> IF k = 1 THEN 0 ELSE before[k - 1] + Len(rows[k - 1])]

\* Rows begin somewhere.
LEMMA StartsExist ==
  ASSUME NEW rows, NEW n \in Nat, \A k \in 1 .. n : Len(rows[k]) \in Nat
  PROVE  \E before : Starts(rows, n, before) /\ before \in [1 .. n -> Nat]
<1>1. PICK step : step = [k \in 1 .. n |-> [m \in Nat |-> m + Len(rows[k])]]
  OBVIOUS
<1>2. step \in [1 .. n -> [Nat -> Nat]]
  BY <1>1
<1>3. PICK f : Recursion(f, n, Nat, 0, step)
  BY <1>2, RecursionExists
<1>4. /\ f \in [0 .. n -> Nat] /\ f[0] = 0
      /\ \A k \in 1 .. n : f[k] = f[k - 1] + Len(rows[k])
  <2>1. /\ f \in [0 .. n -> Nat] /\ f[0] = 0
        /\ \A k \in 1 .. n : f[k] = step[k][f[k - 1]]
    BY <1>3 DEF Recursion
  <2>2. ASSUME NEW k \in 1 .. n PROVE f[k] = f[k - 1] + Len(rows[k])
    <3>1. f[k - 1] \in Nat
      BY <2>1
    <3>2. step[k] = [m \in Nat |-> m + Len(rows[k])]
      BY <1>1
    <3>3. QED
      BY <2>1, <3>1, <3>2
  <2>3. QED
    BY <2>1, <2>2
<1>5. PICK before : before = [k \in 1 .. n |-> f[k - 1]]
  OBVIOUS
<1>6. before \in [1 .. n -> Nat]
  BY <1>4, <1>5
<1>7. ASSUME NEW k \in 1 .. n
      PROVE  before[k] = IF k = 1 THEN 0 ELSE before[k - 1] + Len(rows[k - 1])
  <2>1. before[k] = f[k - 1]
    BY <1>5
  <2>2. CASE k = 1
    BY <1>4, <2>1, <2>2
  <2>3. CASE k # 1
    <3>1. PICK j \in 1 .. n : j = k - 1
      BY <2>3
    <3>2. before[j] = f[j - 1] /\ f[j] = f[j - 1] + Len(rows[j])
      BY <1>4, <1>5
    <3>3. QED
      BY <2>1, <2>3, <3>1, <3>2
  <2>4. QED
    BY <2>2, <2>3
<1>8. Starts(rows, n, before)
  BY <1>6, <1>7 DEF Starts
<1>9. QED
  BY <1>6, <1>8

\* The first m of some rows are one after the other in t, and nothing else is.
LaidOut(S, rows, before, m, t) ==
  /\ t \in Seq(S) /\ Len(t) = before[m] + Len(rows[m])
  /\ \A k \in 1 .. m : \A i \in 1 .. Len(rows[k]) :
       before[k] + i \in 1 .. Len(t) /\ t[before[k] + i] = rows[k][i]
  /\ \A j \in 1 .. Len(t) : \E k \in 1 .. m : \E i \in 1 .. Len(rows[k]) : j = before[k] + i

\* FlattenSeq lays rows out.
LEMMA FlatLaysOut ==
  ASSUME NEW S, NEW rows \in Seq(Seq(S)), NEW n \in Nat \ {0}, n = Len(rows),
         NEW before \in [1 .. n -> Nat], Starts(rows, n, before)
  PROVE  LaidOut(S, rows, before, n, FlattenSeq(rows))
<1> DEFINE g == CHOOSE g : RowsUpTo(rows, g, n)
<1>1. RowsUpTo(rows, g, n)
  BY RowsExist
<1>2. FlattenSeq(rows) = g[n]
  BY DEF FlattenSeq, RowsUpTo
<1> HIDE DEF g
<1>3. \A k \in 1 .. n : g[k] = IF k = 1 THEN rows[k] ELSE g[k - 1] \o rows[k]
  BY <1>1 DEF RowsUpTo
<1>4. \A k \in 1 .. n : before[k] = IF k = 1 THEN 0 ELSE before[k - 1] + Len(rows[k - 1])
  BY DEF Starts
<1>5. \A k \in 1 .. n : rows[k] \in Seq(S) /\ Len(rows[k]) \in Nat /\ before[k] \in Nat
  BY LenProperties
<1> DEFINE P == {m \in 0 .. n : m # 0 => LaidOut(S, rows, before, m, g[m])}
<1>6. 0 \in P
  OBVIOUS
<1>7. ASSUME NEW m \in 1 .. n, m - 1 \in P PROVE m \in P
  <2>1. PICK row : row = rows[m]
    OBVIOUS
  <2>2. row \in Seq(S) /\ Len(row) \in Nat /\ before[m] \in Nat
    BY <1>5, <2>1
  <2>3. PICK t : t = g[m]
    OBVIOUS
  <2>4. CASE m = 1
    <3>1. t = row /\ before[1] = 0
      BY <1>3, <1>4, <2>1, <2>3, <2>4
    <3>2. \A k \in 1 .. m : k = 1
      BY <2>4
    <3>3. LaidOut(S, rows, before, m, t)
      BY <2>1, <2>2, <2>4, <3>1, <3>2 DEF LaidOut
    <3>4. QED
      BY <2>3, <3>3
  <2>5. CASE m # 1
    <3>1. PICK l \in 1 .. n : l = m - 1
      BY <2>5
    <3>2. PICK u : u = g[l]
      OBVIOUS
    <3>3. LaidOut(S, rows, before, l, u)
      BY <1>7, <3>1, <3>2
    <3>4. t = u \o row /\ before[m] = before[l] + Len(rows[l])
      BY <1>3, <1>4, <2>1, <2>3, <2>5, <3>1, <3>2
    <3>5. u \in Seq(S) /\ Len(u) = before[m]
      BY <3>3, <3>4 DEF LaidOut
    <3>6. /\ t \in Seq(S) /\ Len(t) = before[m] + Len(row)
          /\ \A j \in 1 .. Len(u) : t[j] = u[j]
          /\ \A i \in 1 .. Len(row) : t[before[m] + i] = row[i]
      <4>1. PICK b : b = before[m]
        OBVIOUS
      <4>2. /\ u \in Seq(S) /\ row \in Seq(S) /\ t = u \o row /\ Len(u) = b
            /\ b \in Nat /\ Len(row) \in Nat
        BY <2>2, <3>4, <3>5, <4>1
      <4>3. /\ t \in Seq(S) /\ Len(t) = Len(u) + Len(row)
            /\ \A j \in 1 .. Len(u) + Len(row) :
                 t[j] = IF j <= Len(u) THEN u[j] ELSE row[j - Len(u)]
        BY <4>2, ConcatProperties
      <4>4. ASSUME NEW j \in 1 .. Len(u) PROVE t[j] = u[j]
        BY <4>2, <4>3
      <4>5. ASSUME NEW i \in 1 .. Len(row) PROVE t[b + i] = row[i]
        <5>1. b + i \in 1 .. Len(u) + Len(row) /\ ~ (b + i <= Len(u)) /\ (b + i) - Len(u) = i
          BY <4>2
        <5>2. QED
          BY <4>3, <5>1
      <4>6. QED
        BY <4>1, <4>2, <4>3, <4>4, <4>5
    <3>7. \A k \in 1 .. m : k \in 1 .. l \/ k = m
      BY <3>1
    <3>8. 1 .. l \subseteq 1 .. m /\ m \in 1 .. m
      BY <3>1
    <3>9. 1 .. Len(u) \subseteq 1 .. Len(t)
      BY <2>2, <3>5, <3>6
    <3>10. ASSUME NEW k \in 1 .. m, NEW i \in 1 .. Len(rows[k])
           PROVE  before[k] + i \in 1 .. Len(t) /\ t[before[k] + i] = rows[k][i]
      <4>1. CASE k \in 1 .. l
        <5>1. PICK j : j = before[k] + i
          OBVIOUS
        <5>2. j \in 1 .. Len(u) /\ u[j] = rows[k][i]
          BY <3>3, <4>1, <5>1 DEF LaidOut
        <5>3. QED
          BY <3>6, <3>9, <5>1, <5>2
      <4>2. CASE k = m
        <5>1. PICK b \in Nat, len \in Nat : b = before[m] /\ len = Len(row)
          BY <2>2
        <5>2. before[k] = b /\ rows[k] = row /\ i \in 1 .. len
          BY <2>1, <4>2, <5>1
        <5>3. Len(t) = b + len /\ t[b + i] = row[i]
          BY <3>6, <5>1, <5>2
        <5>4. b + i \in 1 .. b + len
          BY <5>2
        <5>5. QED
          BY <5>2, <5>3, <5>4
      <4>3. QED
        BY <3>7, <4>1, <4>2
    <3>11. ASSUME NEW j \in 1 .. Len(t)
           PROVE  \E k \in 1 .. m : \E i \in 1 .. Len(rows[k]) : j = before[k] + i
      <4>1. CASE j \in 1 .. Len(u)
        BY <3>3, <3>8, <4>1 DEF LaidOut
      <4>2. CASE j \notin 1 .. Len(u)
        <5>1. PICK i : i = j - before[m]
          OBVIOUS
        <5>2. i \in 1 .. Len(row) /\ j = before[m] + i
          BY <2>2, <3>5, <3>6, <4>2, <5>1
        <5>3. QED
          BY <2>1, <3>8, <5>2
      <4>3. QED
        BY <4>1, <4>2
    <3>12. LaidOut(S, rows, before, m, t)
      BY <2>1, <3>6, <3>10, <3>11 DEF LaidOut
    <3>13. QED
      BY <2>3, <3>12
  <2>6. QED
    BY <2>4, <2>5
<1> HIDE DEF P
<1>8. 0 .. n \subseteq P
  BY <1>6, <1>7, UpTo
<1>9. n \in P
  <2>1. n \in 0 .. n
    OBVIOUS
  <2>2. QED
    BY <1>8, <2>1, Zenon
<1>10. QED
  BY <1>2, <1>9 DEF P

\* FlattenSeq stays in a set.
LEMMA FlatType ==
  ASSUME NEW S, NEW rows \in Seq(Seq(S))
  PROVE  FlattenSeq(rows) \in Seq(S)
<1>1. PICK n \in Nat : n = Len(rows)
  OBVIOUS
<1>2. CASE n = 0
  <2>1. rows = << >> /\ FlattenSeq(rows) = rows
    BY <1>1, <1>2, EmptySeq DEF FlattenSeq
  <2>2. << >> \in Seq(S)
    OBVIOUS
  <2>3. QED
    BY <2>1, <2>2
<1>3. CASE n # 0
  <2>1. \A k \in 1 .. n : rows[k] \in Seq(S)
    BY <1>1
  <2>2. PICK before : Starts(rows, n, before) /\ before \in [1 .. n -> Nat]
    <3>1. \A k \in 1 .. n : Len(rows[k]) \in Nat
      BY <2>1, LenProperties
    <3>2. QED
      BY <3>1, StartsExist
  <2>3. LaidOut(S, rows, before, n, FlattenSeq(rows))
    BY <1>1, <1>3, <2>2, FlatLaysOut
  <2>4. QED
    BY <2>3 DEF LaidOut
<1>4. QED
  BY <1>2, <1>3

\* A remainder and a quotient are put together again.
LEMMA DivisionOf ==
  ASSUME NEW a \in Nat, NEW w \in Nat \ {0}, NEW r \in 0 .. w - 1
  PROVE  /\ a * w + r \in Nat
         /\ (a * w + r) \div w = a /\ (a * w + r) % w = r
<1>1. a * w \in Nat
  BY ProductGrows
<1>2. PICK x \in Nat : x = a * w + r
  BY <1>1
<1>3. PICK q \in Int, s \in 0 .. w - 1 : q = x \div w /\ s = x % w /\ x = w * q + s
  BY <1>2
<1>4. q = a
  <2>1. CASE q < a
    <3>1. PICK d \in Nat : a = q + 1 + d
      <4>1. a - q - 1 \in Nat
        BY <2>1
      <4>2. a = q + 1 + (a - q - 1)
        OBVIOUS
      <4>3. QED
        BY <4>1, <4>2
    <3>2. a * w = w * q + w + d * w
      BY <3>1
    <3>3. d * w \in Nat
      BY <3>1, ProductGrows
    <3>4. QED
      BY <1>2, <1>3, <3>2, <3>3
  <2>2. CASE q > a
    <3>1. PICK d \in Nat : q = a + 1 + d
      <4>1. q - a - 1 \in Nat
        BY <2>2
      <4>2. q = a + 1 + (q - a - 1)
        OBVIOUS
      <4>3. QED
        BY <4>1, <4>2
    <3>2. w * q = a * w + w + d * w
      BY <3>1
    <3>3. d * w \in Nat
      BY <3>1, ProductGrows
    <3>4. QED
      BY <1>1, <1>2, <1>3, <3>2, <3>3
  <2>3. QED
    BY <2>1, <2>2
<1>5. s = r
  <2>1. w * q = a * w
    BY <1>4
  <2>2. QED
    BY <1>1, <1>2, <1>3, <2>1
<1>6. QED
  BY <1>2, <1>3, <1>4, <1>5

\* Whether a decoded frame has its event at i set is whether ancilla i - 1 fires.
LEMMA DecodeRleFires ==
  ASSUME NEW f \in Frames, NEW i \in Nat \ {0}
  PROVE  /\ DecodeRle(f.rle, f.ancilla_count) \in Seq(BOOLEAN)
         /\ Len(DecodeRle(f.rle, f.ancilla_count)) = f.ancilla_count
         /\ (i <= f.ancilla_count /\ DecodeRle(f.rle, f.ancilla_count)[i] = TRUE)
              <=> Fires(f, i - 1)
<1>1. PICK rle, c, n : rle = f.rle /\ c = f.ancilla_count /\ n = Len(f.rle)
  OBVIOUS
<1>2. /\ c \in Nat /\ rle \in Seq([mode : BOOLEAN, run : Nat])
      /\ n \in Nat /\ n = Len(rle) /\ DOMAIN rle = 1 .. n
  <2>1. c \in Nat /\ rle \in Seq([mode : BOOLEAN, run : Nat])
    BY <1>1, CApiAssumption
  <2>2. QED
    BY <1>1, <2>1
<1>3. PICK rows : rows = [k \in DOMAIN rle |-> Run(rle[k])]
  OBVIOUS
<1>4. ASSUME NEW k \in 1 .. n
      PROVE  /\ rle[k].mode \in BOOLEAN /\ rle[k].run \in Nat
             /\ rows[k] = [j \in 1 .. rle[k].run |-> rle[k].mode]
             /\ rows[k] \in Seq(BOOLEAN) /\ Len(rows[k]) = rle[k].run
  <2>1. rle[k].mode \in BOOLEAN /\ rle[k].run \in Nat
    <3>1. rle[k] \in [mode : BOOLEAN, run : Nat]
      <4>1. PICK T : T = [mode : BOOLEAN, run : Nat]
        OBVIOUS
      <4>2. rle \in Seq(T) /\ k \in 1 .. Len(rle)
        BY <1>2, <4>1
      <4>3. rle[k] \in T
        BY <4>2, ElementOfSeq
      <4>4. QED
        BY <4>1, <4>3
    <3>2. QED
      BY <3>1
  <2>2. rows[k] = [j \in 1 .. rle[k].run |-> rle[k].mode]
    BY <1>2, <1>3 DEF Run
  <2>3. QED
    BY <2>1, <2>2
<1>5. rows \in Seq(Seq(BOOLEAN)) /\ Len(rows) = n
  <2>1. rows = [k \in 1 .. n |-> rows[k]]
    BY <1>2, <1>3
  <2>2. QED
    BY <1>2, <1>4, <2>1
<1>6. PICK out : out = FlattenSeq(rows)
  OBVIOUS
<1>7. out \in Seq(BOOLEAN) /\ Len(out) \in Nat
  BY <1>5, <1>6, FlatType
<1>8. PICK events : events = DecodeRle(f.rle, f.ancilla_count)
  OBVIOUS
<1>9. events = [j \in 1 .. c |-> IF j <= Len(out) THEN out[j] ELSE FALSE]
  BY <1>1, <1>3, <1>6, <1>8 DEF DecodeRle
<1>10. events \in Seq(BOOLEAN) /\ Len(events) = c
  <2>1. ASSUME NEW j \in 1 .. c PROVE events[j] \in BOOLEAN
    <3>1. events[j] = IF j <= Len(out) THEN out[j] ELSE FALSE
      BY <1>9
    <3>2. CASE j <= Len(out)
      <4>1. j \in 1 .. Len(out)
        BY <1>2, <1>7, <3>2
      <4>2. out[j] \in BOOLEAN
        BY <1>7, <4>1, ElementOfSeq
      <4>3. QED
        BY <3>1, <3>2, <4>2
    <3>3. CASE ~ (j <= Len(out))
      BY <3>1, <3>3
    <3>4. QED
      BY <3>2, <3>3
  <2>2. events = [j \in 1 .. c |-> events[j]]
    BY <1>9
  <2>3. QED
    BY <1>2, <2>1, <2>2
<1>11. (i <= c /\ events[i] = TRUE) <=> (i <= c /\ i <= Len(out) /\ out[i] = TRUE)
  BY <1>2, <1>9
<1>12. PICK before : Starts(rows, n, before) /\ before \in [1 .. n -> Nat]
  <2>1. \A k \in 1 .. n : Len(rows[k]) \in Nat
    BY <1>4
  <2>2. QED
    BY <1>2, <2>1, StartsExist
<1> DEFINE b == CHOOSE b : b = [k \in 1 .. n |-> IF k = 1 THEN 0 ELSE b[k - 1] + rle[k - 1].run]
<1>13. b = [k \in 1 .. n |-> IF k = 1 THEN 0 ELSE b[k - 1] + rle[k - 1].run]
  <2>1. before = [k \in 1 .. n |-> IF k = 1 THEN 0 ELSE before[k - 1] + rle[k - 1].run]
    <3>1. \A k \in 1 .. n : before[k] = IF k = 1 THEN 0 ELSE before[k - 1] + Len(rows[k - 1])
      BY <1>12 DEF Starts
    <3>2. ASSUME NEW k \in 1 .. n
          PROVE  before[k] = IF k = 1 THEN 0 ELSE before[k - 1] + rle[k - 1].run
      <4>1. CASE k = 1
        BY <3>1, <4>1
      <4>2. CASE k # 1
        <5>1. k - 1 \in 1 .. n
          BY <1>2, <4>2
        <5>2. QED
          BY <1>4, <3>1, <4>2, <5>1
      <4>3. QED
        BY <4>1, <4>2
    <3>3. QED
      BY <1>12, <3>2
  <2>2. QED
    BY <2>1
<1>14. Fires(f, i - 1) <=> \E k \in 1 .. n : /\ i - 1 < c /\ rle[k].mode
                                             /\ i - 1 \in b[k] .. b[k] + rle[k].run - 1
  BY <1>1, <1>2 DEF Fires
<1> HIDE DEF b
<1>15. Starts(rows, n, b)
  <2>1. ASSUME NEW k \in 1 .. n
        PROVE  b[k] = IF k = 1 THEN 0 ELSE b[k - 1] + Len(rows[k - 1])
    <3>1. b[k] = IF k = 1 THEN 0 ELSE b[k - 1] + rle[k - 1].run
      BY <1>13
    <3>2. CASE k = 1
      BY <3>1, <3>2
    <3>3. CASE k # 1
      <4>1. k - 1 \in 1 .. n
        BY <1>2, <3>3
      <4>2. QED
        BY <1>4, <3>1, <3>3, <4>1
    <3>4. QED
      BY <3>2, <3>3
  <2>2. QED
    BY <1>13, <2>1 DEF Starts
<1>16. b \in [1 .. n -> Nat]
  <2> DEFINE P == {k \in 0 .. n : k # 0 => b[k] \in Nat}
  <2>1. 0 \in P
    BY <1>2
  <2>2. ASSUME NEW k \in 1 .. n, k - 1 \in P PROVE k \in P
    <3>1. b[k] = IF k = 1 THEN 0 ELSE b[k - 1] + rle[k - 1].run
      BY <1>13
    <3>2. CASE k = 1
      BY <1>2, <3>1, <3>2
    <3>3. CASE k # 1
      <4>1. PICK j \in 1 .. n : j = k - 1
        BY <1>2, <3>3
      <4>5. j \in P /\ j # 0
        BY <2>2, <4>1
      <4>6. b[j] \in Nat
        BY <4>5
      <4>2. b[j] \in Nat /\ rle[j].run \in Nat
        BY <1>4, <4>6
      <4>3. b[k] = b[j] + rle[j].run
        BY <3>1, <3>3, <4>1
      <4>4. QED
        BY <1>2, <4>2, <4>3
    <3>4. QED
      BY <3>2, <3>3
  <2> HIDE DEF P
  <2>3. 0 .. n \subseteq P
    BY <1>2, <2>1, <2>2, UpTo
  <2>4. \A k \in 1 .. n : b[k] \in Nat
    BY <1>2, <2>3 DEF P
  <2>5. QED
    BY <1>13, <2>4
<1>17. Fires(f, i - 1) <=> i <= c /\ i <= Len(out) /\ out[i] = TRUE
  <2>1. CASE n = 0
    <3>1. rows = << >> /\ out = rows
      BY <1>5, <1>6, <2>1, EmptySeq DEF FlattenSeq
    <3>2. Len(out) = 0
      BY <3>1
    <3>3. QED
      BY <1>14, <2>1, <3>2
  <2>2. CASE n # 0
    <3>1. LaidOut(BOOLEAN, rows, b, n, out)
      BY <1>2, <1>5, <1>6, <1>15, <1>16, <2>2, FlatLaysOut
    <3>2. ASSUME NEW k \in 1 .. n, i - 1 < c, rle[k].mode, i - 1 \in b[k] .. b[k] + rle[k].run - 1
          PROVE  i <= c /\ i <= Len(out) /\ out[i] = TRUE
      <4>1. PICK j : j = i - b[k]
        OBVIOUS
      <4>2. b[k] \in Nat /\ rle[k].run \in Nat
        BY <1>4, <1>16
      <4>3. j \in 1 .. Len(rows[k]) /\ b[k] + j = i
        <5>1. PICK s, r : s = b[k] /\ r = rle[k].run
          OBVIOUS
        <5>2. s \in Nat /\ r \in Nat /\ i - 1 \in s .. s + r - 1 /\ j = i - s
          BY <3>2, <4>1, <4>2, <5>1
        <5>3. j \in 1 .. r /\ s + j = i
          BY <5>2
        <5>4. QED
          BY <1>4, <5>1, <5>3
      <4>4. i \in 1 .. Len(out) /\ out[i] = rows[k][j]
        BY <3>1, <4>3 DEF LaidOut
      <4>5. rows[k][j] = rle[k].mode /\ rle[k].mode = TRUE
        BY <1>4, <3>2, <4>3
      <4>6. QED
        BY <1>2, <3>2, <4>4, <4>5
    <3>3. ASSUME i <= c, i <= Len(out), out[i] = TRUE
          PROVE  \E k \in 1 .. n : /\ i - 1 < c /\ rle[k].mode
                                   /\ i - 1 \in b[k] .. b[k] + rle[k].run - 1
      <4>1. i \in 1 .. Len(out)
        BY <1>7, <3>3
      <4>8. PICK k \in 1 .. n : \E j \in 1 .. Len(rows[k]) : i = b[k] + j
        BY <3>1, <4>1 DEF LaidOut
      <4>2. PICK j \in 1 .. Len(rows[k]) : i = b[k] + j
        BY <4>8
      <4>3. out[b[k] + j] = rows[k][j] /\ rows[k][j] = rle[k].mode
        BY <1>4, <3>1, <4>2 DEF LaidOut
      <4>4. rle[k].mode
        BY <3>3, <4>2, <4>3
      <4>5. b[k] \in Nat /\ rle[k].run \in Nat /\ Len(rows[k]) = rle[k].run
        BY <1>4, <1>16
      <4>6. i - 1 < c /\ i - 1 \in b[k] .. b[k] + rle[k].run - 1
        <5>1. PICK s, r : s = b[k] /\ r = rle[k].run
          OBVIOUS
        <5>2. s \in Nat /\ r \in Nat /\ j \in 1 .. r /\ i = s + j
          BY <4>2, <4>5, <5>1
        <5>3. i - 1 \in s .. s + r - 1
          BY <5>2
        <5>4. i - 1 < c
          BY <1>2, <3>3
        <5>5. QED
          BY <5>1, <5>3, <5>4
      <4>7. QED
        BY <4>4, <4>6
    <3>4. QED
      BY <1>14, <3>2, <3>3
  <2>3. QED
    BY <2>1, <2>2
<1>18. QED
  BY <1>1, <1>8, <1>10, <1>11, <1>17

\* What a matrix of held rounds has where.
HasRounds(matrix, rounds, held, width) ==
  /\ matrix \in Seq(BOOLEAN) /\ Len(matrix) = held * width
  /\ \A k \in 1 .. held : \A i \in 1 .. width :
       /\ (k - 1) * width + i \in 1 .. Len(matrix)
       /\ matrix[(k - 1) * width + i] = TRUE
            <=> /\ i <= Len(rounds[k].detector_events)
                /\ rounds[k].detector_events[i] = TRUE
  /\ \A j \in 1 .. Len(matrix) : \E k \in 1 .. held : \E i \in 1 .. width :
       j = (k - 1) * width + i

\* The matrix of rounds, entry by entry.
LEMMA MatrixEntries ==
  ASSUME NEW rounds, NEW held \in Nat \ {0}, NEW width \in Nat,
         rounds = [k \in 1 .. held |-> rounds[k]],
         \A k \in 1 .. held : rounds[k].detector_events \in Seq(BOOLEAN),
         NEW matrix, matrix = RebuildMatrix(rounds, width)
  PROVE  HasRounds(matrix, rounds, held, width)
<1>1. PICK rows : rows = [k \in DOMAIN rounds |-> Row(rounds[k].detector_events, width)]
  OBVIOUS
<1>2. matrix = FlattenSeq(rows)
  BY <1>1 DEF RebuildMatrix
<1>3. ASSUME NEW k \in 1 .. held
      PROVE  /\ rows[k] \in Seq(BOOLEAN) /\ Len(rows[k]) = width
             /\ \A i \in 1 .. width : rows[k][i] = TRUE
                  <=> /\ i <= Len(rounds[k].detector_events)
                      /\ rounds[k].detector_events[i] = TRUE
  <2>1. PICK e, row : e = rounds[k].detector_events /\ row = rows[k]
    OBVIOUS
  <2>2. row = [i \in 1 .. width |-> IF i <= Len(e) THEN e[i] ELSE FALSE]
    BY <1>1, <2>1 DEF Row
  <2>3. e \in Seq(BOOLEAN) /\ Len(e) \in Nat
    BY <2>1, LenProperties
  <2>4. ASSUME NEW i \in 1 .. width
        PROVE  row[i] \in BOOLEAN /\ (row[i] = TRUE <=> i <= Len(e) /\ e[i] = TRUE)
    <3>1. row[i] = IF i <= Len(e) THEN e[i] ELSE FALSE
      BY <2>2
    <3>2. CASE i <= Len(e)
      <4>1. i \in 1 .. Len(e)
        BY <2>3, <3>2
      <4>2. e[i] \in BOOLEAN
        BY <2>3, <4>1, ElementOfSeq
      <4>3. QED
        BY <3>1, <3>2, <4>2
    <3>3. CASE ~ (i <= Len(e))
      BY <3>1, <3>3
    <3>4. QED
      BY <3>2, <3>3
  <2>5. row = [i \in 1 .. width |-> row[i]]
    BY <2>2
  <2>6. row \in Seq(BOOLEAN) /\ Len(row) = width
    <3>1. PICK T : T = BOOLEAN
      OBVIOUS
    <3>2. \A i \in 1 .. width : row[i] \in T
      BY <2>4, <3>1
    <3>3. row \in Seq(T) /\ Len(row) = width
      BY <2>5, <3>2
    <3>4. QED
      BY <3>1, <3>3
  <2>7. QED
    BY <2>1, <2>4, <2>6
<1>4. rows \in Seq(Seq(BOOLEAN)) /\ Len(rows) = held
  <2>1. rows = [k \in 1 .. held |-> rows[k]]
    BY <1>1
  <2>2. PICK T : T = Seq(BOOLEAN)
    OBVIOUS
  <2>3. \A k \in 1 .. held : rows[k] \in T
    BY <1>3, <2>2
  <2>4. rows \in Seq(T) /\ Len(rows) = held
    BY <2>1, <2>3
  <2>5. QED
    BY <2>2, <2>4
<1>5. PICK before : before = [k \in 1 .. held |-> (k - 1) * width]
  OBVIOUS
<1>6. before \in [1 .. held -> Nat]
  <2>1. ASSUME NEW k \in 1 .. held PROVE (k - 1) * width \in Nat
    <3>1. PICK j \in Nat : j = k - 1
      OBVIOUS
    <3>2. j * width \in Nat
      BY ProductGrows
    <3>3. QED
      BY <3>1, <3>2
  <2>2. QED
    BY <1>5, <2>1
<1>7. Starts(rows, held, before)
  <2>1. ASSUME NEW k \in 1 .. held
        PROVE  before[k] = IF k = 1 THEN 0 ELSE before[k - 1] + Len(rows[k - 1])
    <3>1. CASE k = 1
      <4>1. (k - 1) * width = 0
        BY <3>1
      <4>2. QED
        BY <1>5, <3>1, <4>1
    <3>2. CASE k # 1
      <4>1. PICK j \in 1 .. held : j = k - 1
        BY <3>2
      <4>2. PICK l \in Nat : l = j - 1
        OBVIOUS
      <4>3. before[k] = (l + 1) * width /\ before[j] = l * width
        BY <1>5, <4>1, <4>2
      <4>4. (l + 1) * width = l * width + width
        BY NextMultiple
      <4>5. QED
        BY <1>3, <3>2, <4>1, <4>3, <4>4
    <3>3. QED
      BY <3>1, <3>2
  <2>2. QED
    BY <1>5, <2>1 DEF Starts
<1>8. LaidOut(BOOLEAN, rows, before, held, matrix)
  BY <1>2, <1>4, <1>6, <1>7, FlatLaysOut
<1>9. matrix \in Seq(BOOLEAN) /\ Len(matrix) = held * width
  <2>1. \A k \in 1 .. Len(rows) : Len(rows[k]) = width
    BY <1>3, <1>4
  <2>2. FlattenSeq(rows) \in Seq(BOOLEAN) /\ Len(FlattenSeq(rows)) = Len(rows) * width
    BY <1>4, <2>1, FlatLength
  <2>3. QED
    BY <1>2, <1>4, <2>2
<1>10. ASSUME NEW k \in 1 .. held, NEW i \in 1 .. width
       PROVE  /\ (k - 1) * width + i \in 1 .. Len(matrix)
              /\ matrix[(k - 1) * width + i] = TRUE
                   <=> /\ i <= Len(rounds[k].detector_events)
                       /\ rounds[k].detector_events[i] = TRUE
  <2>1. i \in 1 .. Len(rows[k])
    BY <1>3
  <2>2. before[k] + i \in 1 .. Len(matrix) /\ matrix[before[k] + i] = rows[k][i]
    BY <1>8, <2>1 DEF LaidOut
  <2>3. before[k] = (k - 1) * width
    BY <1>5
  <2>4. rows[k][i] = TRUE <=> /\ i <= Len(rounds[k].detector_events)
                              /\ rounds[k].detector_events[i] = TRUE
    BY <1>3
  <2>5. QED
    BY <2>2, <2>3, <2>4
<1>11. ASSUME NEW j \in 1 .. Len(matrix)
       PROVE  \E k \in 1 .. held : \E i \in 1 .. width : j = (k - 1) * width + i
  <2>1. PICK k \in 1 .. held : \E i \in 1 .. Len(rows[k]) : j = before[k] + i
    BY <1>8 DEF LaidOut
  <2>2. PICK i \in 1 .. width : j = before[k] + i
    BY <1>3, <2>1
  <2>3. j = (k - 1) * width + i
    BY <1>5, <2>2
  <2>4. QED
    BY <2>3
<1>12. QED
  BY <1>9, <1>10, <1>11, Zenon DEF HasRounds

\* The sequence of the places before m, from 0, where the matrix is set.
FiredAre(matrix, m, s) ==
  /\ s \in Seq(0 .. m - 1)
  /\ \A i, j \in 1 .. Len(s) : s[i] = s[j] => i = j
  /\ \A x \in 0 .. m - 1 : matrix[x + 1] = TRUE <=> \E i \in 1 .. Len(s) : s[i] = x

\* One entry more, that is set.
LEMMA FiredOneMore ==
  ASSUME NEW matrix, NEW l \in Nat, NEW old, FiredAre(matrix, l, old), matrix[l + 1] = TRUE
  PROVE  FiredAre(matrix, l + 1, Append(old, l))
<1>1. PICK new, len : new = Append(old, l) /\ len = Len(old)
  OBVIOUS
<1>2. /\ old \in Seq(0 .. l - 1) /\ len \in Nat /\ DOMAIN old = 1 .. len
      /\ \A i, j \in 1 .. len : old[i] = old[j] => i = j
      /\ \A x \in 0 .. l - 1 : matrix[x + 1] = TRUE <=> \E i \in 1 .. len : old[i] = x
  BY <1>1, LenProperties DEF FiredAre
<1>3. \A i \in 1 .. len : old[i] \in 0 .. l - 1
  BY <1>1, <1>2, ElementOfSeq
<1>4. /\ 0 .. l - 1 \subseteq 0 .. l /\ l \in 0 .. l /\ 0 .. l + 1 - 1 = 0 .. l
      /\ \A x \in 0 .. l : x \in 0 .. l - 1 \/ x = l
  OBVIOUS
<1>5. PICK T : T = 0 .. l
  OBVIOUS
<1>6. old \in Seq(T) /\ l \in T
  <2>1. \A i \in 1 .. len : old[i] \in T
    BY <1>3, <1>4, <1>5
  <2>2. old = [i \in 1 .. len |-> old[i]]
    BY <1>2
  <2>3. QED
    BY <1>2, <1>4, <1>5, <2>1, <2>2
<1>7. /\ new \in Seq(T) /\ Len(new) = len + 1 /\ new[len + 1] = l
      /\ \A i \in 1 .. len : new[i] = old[i]
  BY <1>1, <1>6, AppendProperties
<1>8. /\ \A i \in 1 .. len + 1 : i \in 1 .. len \/ i = len + 1
      /\ 1 .. len \subseteq 1 .. len + 1 /\ len + 1 \in 1 .. len + 1
  BY <1>2
<1>9. \A i \in 1 .. len : new[i] # l
  BY <1>3, <1>7
<1>10. ASSUME NEW i \in 1 .. len + 1, NEW j \in 1 .. len + 1, new[i] = new[j] PROVE i = j
  <2>1. CASE i \in 1 .. len /\ j \in 1 .. len
    <3>1. old[i] = old[j]
      BY <1>7, <1>10, <2>1
    <3>2. QED
      BY <1>2, <2>1, <3>1
  <2>2. CASE i = len + 1 /\ j \in 1 .. len
    BY <1>7, <1>9, <1>10, <2>2
  <2>3. CASE i \in 1 .. len /\ j = len + 1
    BY <1>7, <1>9, <1>10, <2>3
  <2>4. QED
    BY <1>8, <2>1, <2>2, <2>3
<1>11. ASSUME NEW x \in 0 .. l
       PROVE  matrix[x + 1] = TRUE <=> \E i \in 1 .. len + 1 : new[i] = x
  <2>1. CASE x = l
    BY <1>7, <1>8, <2>1
  <2>2. CASE x # l
    <3>1. x \in 0 .. l - 1
      BY <1>4, <2>2
    <3>2. ASSUME NEW i \in 1 .. len + 1, new[i] = x PROVE \E k \in 1 .. len : old[k] = x
      <4>1. i \in 1 .. len
        BY <1>7, <1>8, <2>2, <3>2
      <4>2. QED
        BY <1>7, <3>2, <4>1
    <3>3. ASSUME NEW i \in 1 .. len, old[i] = x PROVE \E k \in 1 .. len + 1 : new[k] = x
      BY <1>7, <1>8, <3>3
    <3>4. matrix[x + 1] = TRUE <=> \E i \in 1 .. len : old[i] = x
      BY <1>2, <3>1
    <3>5. QED
      BY <3>2, <3>3, <3>4, Zenon
  <2>3. QED
    BY <2>1, <2>2
<1>12. FiredAre(matrix, l + 1, new)
  <2>1. new \in Seq(0 .. l + 1 - 1)
    BY <1>4, <1>5, <1>7
  <2>2. \A i, j \in 1 .. Len(new) : new[i] = new[j] => i = j
    BY <1>7, <1>10
  <2>3. \A x \in 0 .. l + 1 - 1 : matrix[x + 1] = TRUE <=> \E i \in 1 .. Len(new) : new[i] = x
    <3>1. ASSUME NEW x \in 0 .. l + 1 - 1
          PROVE  matrix[x + 1] = TRUE <=> \E i \in 1 .. Len(new) : new[i] = x
      <4>1. x \in 0 .. l
        BY <1>4
      <4>2. QED
        BY <1>7, <1>11, <4>1, Zenon
    <3>2. QED
      BY <3>1
  <2>4. QED
    <3>1. PICK m : m = l + 1
      OBVIOUS
    <3>2. /\ new \in Seq(0 .. m - 1)
          /\ \A x \in 0 .. m - 1 : matrix[x + 1] = TRUE <=> \E i \in 1 .. Len(new) : new[i] = x
      BY <2>1, <2>3, <3>1
    <3>3. FiredAre(matrix, m, new)
      BY <2>2, <3>2, Zenon DEF FiredAre
    <3>4. QED
      BY <3>1, <3>3
<1>13. QED
  BY <1>1, <1>12

\* One entry more, that is not set.
LEMMA FiredNoneMore ==
  ASSUME NEW matrix, NEW l \in Nat, NEW old, FiredAre(matrix, l, old), matrix[l + 1] # TRUE
  PROVE  FiredAre(matrix, l + 1, old)
<1>1. PICK len : len = Len(old)
  OBVIOUS
<1>2. /\ old \in Seq(0 .. l - 1) /\ len \in Nat /\ DOMAIN old = 1 .. len
      /\ \A i, j \in 1 .. len : old[i] = old[j] => i = j
      /\ \A x \in 0 .. l - 1 : matrix[x + 1] = TRUE <=> \E i \in 1 .. len : old[i] = x
  BY <1>1, LenProperties DEF FiredAre
<1>3. \A i \in 1 .. len : old[i] \in 0 .. l - 1
  BY <1>1, <1>2, ElementOfSeq
<1>4. /\ 0 .. l - 1 \subseteq 0 .. l /\ l \in 0 .. l /\ 0 .. l + 1 - 1 = 0 .. l
      /\ \A x \in 0 .. l : x \in 0 .. l - 1 \/ x = l
  OBVIOUS
<1>5. PICK T : T = 0 .. l
  OBVIOUS
<1>6. old \in Seq(T)
  <2>1. \A i \in 1 .. len : old[i] \in T
    BY <1>3, <1>4, <1>5
  <2>2. old = [i \in 1 .. len |-> old[i]]
    BY <1>2
  <2>3. QED
    BY <1>2, <2>1, <2>2
<1>7. ASSUME NEW x \in 0 .. l
      PROVE  matrix[x + 1] = TRUE <=> \E i \in 1 .. len : old[i] = x
  <2>1. CASE x = l
    <3>1. \A i \in 1 .. len : old[i] # x
      BY <1>3, <2>1
    <3>2. QED
      BY <2>1, <3>1
  <2>2. CASE x # l
    BY <1>2, <1>4, <2>2
  <2>3. QED
    BY <2>1, <2>2
<1>8. old \in Seq(0 .. l + 1 - 1)
  BY <1>4, <1>5, <1>6
<1>9. \A x \in 0 .. l + 1 - 1 : matrix[x + 1] = TRUE <=> \E i \in 1 .. len : old[i] = x
  <2>1. ASSUME NEW x \in 0 .. l + 1 - 1
        PROVE  matrix[x + 1] = TRUE <=> \E i \in 1 .. len : old[i] = x
    <3>1. x \in 0 .. l
      BY <1>4
    <3>2. QED
      BY <1>7, <3>1, Zenon
  <2>2. QED
    BY <2>1
<1>10. QED
  <2>1. PICK m : m = l + 1
    OBVIOUS
  <2>2. old \in Seq(0 .. m - 1)
    BY <1>8, <2>1
  <2>3. \A x \in 0 .. m - 1 : matrix[x + 1] = TRUE <=> \E i \in 1 .. Len(old) : old[i] = x
    BY <1>1, <1>9, <2>1
  <2>4. FiredAre(matrix, m, old)
    BY <1>1, <1>2, <2>2, <2>3, Zenon DEF FiredAre
  <2>5. QED
    BY <2>1, <2>4

\* The active detectors are the places, from 0, of what is set, none twice.
LEMMA ActiveAre ==
  ASSUME NEW w, NEW n \in Nat, w.detector_matrix \in Seq(BOOLEAN), Len(w.detector_matrix) = n
  PROVE  FiredAre(w.detector_matrix, n, ActiveDetectors(w))
<1> DEFINE matrix == w.detector_matrix
           g == CHOOSE g : FiredUpTo(matrix, g, n)
<1>1. FiredUpTo(matrix, g, n)
  BY FiredExist
<1>2. ActiveDetectors(w) = g[n]
  BY DEF ActiveDetectors, FiredUpTo
<1> HIDE DEF g
<1>3. \A k \in 1 .. n : matrix[k] \in BOOLEAN
  BY ElementOfSeq
<1> HIDE DEF matrix
<1>4. \A k \in 0 .. n : g[k] = IF k = 0 THEN << >>
                               ELSE IF matrix[k] THEN Append(g[k - 1], k - 1) ELSE g[k - 1]
  BY <1>1, Zenon DEF FiredUpTo
<1>5. 0 \in 0 .. n /\ 1 .. n \subseteq 0 .. n /\ 0 \notin 1 .. n
  OBVIOUS
<1>6. g[0] = << >>
  BY <1>4, <1>5, Zenon
<1>7. \A k \in 1 .. n : g[k] = IF matrix[k] THEN Append(g[k - 1], k - 1) ELSE g[k - 1]
  BY <1>4, <1>5, Zenon
<1> DEFINE P == {m \in 0 .. n : FiredAre(matrix, m, g[m])}
<1>8. 0 \in P
  <2>1. << >> \in Seq(0 .. 0 - 1) /\ Len(<< >>) = 0
    OBVIOUS
  <2>2. 1 .. 0 = {} /\ 0 .. 0 - 1 = {}
    OBVIOUS
  <2>3. FiredAre(matrix, 0, << >>)
    BY <2>1, <2>2, Zenon DEF FiredAre
  <2>4. QED
    BY <1>5, <1>6, <2>3
<1>9. ASSUME NEW m \in 1 .. n, m - 1 \in P PROVE m \in P
  <2>1. PICK l \in Nat : l = m - 1 /\ l + 1 = m
    OBVIOUS
  <2>2. FiredAre(matrix, l, g[l])
    BY <1>9, <2>1
  <2>3. FiredAre(matrix, m, g[m])
    <3>1. CASE matrix[m] = TRUE
      <4>1. g[m] = Append(g[l], l)
        BY <1>7, <2>1, <3>1
      <4>2. QED
        BY <2>1, <2>2, <3>1, <4>1, FiredOneMore
    <3>2. CASE matrix[m] # TRUE
      <4>1. ~ matrix[m]
        BY <1>3, <3>2
      <4>2. g[m] = g[l]
        BY <1>7, <2>1, <4>1
      <4>3. QED
        BY <2>1, <2>2, <3>2, <4>2, FiredNoneMore
    <3>3. QED
      BY <3>1, <3>2
  <2>4. QED
    BY <1>5, <2>3
<1> HIDE DEF P
<1>10. 0 .. n \subseteq P
  BY <1>8, <1>9, UpTo
<1>11. n \in P
  BY <1>10
<1>12. FiredAre(matrix, n, g[n])
  BY <1>11 DEF P
<1>13. QED
  BY <1>2, <1>12 DEF matrix

\* One less on both sides.
LEMMA Shifted ==
  ASSUME NEW a \in Int, NEW b \in Int, NEW c \in Int, a + 1 = b + c
  PROVE  a = b + (c - 1)
OBVIOUS

\* What a matrix of held frames has where.
HasFrames(matrix, frames, held, width) ==
  /\ matrix \in Seq(BOOLEAN) /\ Len(matrix) = held * width
  /\ \A x \in 0 .. held * width - 1 :
       /\ matrix[x + 1] = TRUE <=> Fires(frames[(x \div width) + 1], x % width)
       /\ (x \div width) + 1 \in 1 .. held

\* The matrix of rounds that frames decode to, entry by entry.
LEMMA MatrixOfFrames ==
  ASSUME NEW held \in Nat \ {0}, NEW width \in Nat,
         NEW frames, \A k \in 1 .. held : frames[k] \in Frames,
         NEW rounds, rounds = [k \in 1 .. held |-> rounds[k]],
         \A k \in 1 .. held : rounds[k].detector_events
                                = DecodeRle(frames[k].rle, frames[k].ancilla_count),
         NEW matrix, matrix = RebuildMatrix(rounds, width)
  PROVE  HasFrames(matrix, frames, held, width)
<1>1. \A k \in 1 .. held : rounds[k].detector_events \in Seq(BOOLEAN)
  <2>1. ASSUME NEW k \in 1 .. held PROVE rounds[k].detector_events \in Seq(BOOLEAN)
    <3>1. 1 \in Nat \ {0}
      OBVIOUS
    <3>2. QED
      BY <3>1, DecodeRleFires
  <2>2. QED
    BY <2>1
<1>2. /\ matrix \in Seq(BOOLEAN) /\ Len(matrix) = held * width
      /\ \A k \in 1 .. held : \A i \in 1 .. width :
           /\ (k - 1) * width + i \in 1 .. Len(matrix)
           /\ matrix[(k - 1) * width + i] = TRUE
                <=> /\ i <= Len(rounds[k].detector_events)
                    /\ rounds[k].detector_events[i] = TRUE
      /\ \A j \in 1 .. Len(matrix) : \E k \in 1 .. held : \E i \in 1 .. width :
           j = (k - 1) * width + i
  <2>1. HasRounds(matrix, rounds, held, width)
    BY <1>1, MatrixEntries
  <2>2. QED
    BY <2>1, Zenon DEF HasRounds
<1>3. ASSUME NEW x \in 0 .. held * width - 1
      PROVE  /\ matrix[x + 1] = TRUE <=> Fires(frames[(x \div width) + 1], x % width)
             /\ (x \div width) + 1 \in 1 .. held
  <2>1. x + 1 \in 1 .. Len(matrix)
    <3>1. PICK len : len = Len(matrix) /\ len = held * width
      BY <1>2
    <3>2. len \in Nat
      BY <1>2, <3>1, LenProperties
    <3>3. QED
      BY <3>1, <3>2
  <2>2. PICK k \in 1 .. held : \E i \in 1 .. width : x + 1 = (k - 1) * width + i
    BY <1>2, <2>1
  <2>3. PICK i \in 1 .. width : x + 1 = (k - 1) * width + i
    BY <2>2
  <2>4. PICK a \in Nat, r \in 0 .. width - 1 : a = k - 1 /\ r = i - 1 /\ a + 1 = k
    OBVIOUS
  <2>5. width \in Nat \ {0} /\ i \in Nat \ {0}
    OBVIOUS
  <2>6. a * width + r \in Nat /\ (a * width + r) \div width = a /\ (a * width + r) % width = r
    BY <2>4, <2>5, DivisionOf
  <2>7. x = a * width + r
    <3>1. PICK y \in Int : y = a * width
      BY <2>6
    <3>2. x + 1 = y + i
      BY <2>3, <2>4, <3>1
    <3>3. PICK n, z : n = held * width - 1 /\ z = x
      OBVIOUS
    <3>4. n \in Int
      <4>1. PICK len \in Nat : len = held * width
        BY <1>2, LenProperties
      <4>2. QED
        BY <3>3, <4>1
    <3>5. z \in Int
      <4>1. z \in 0 .. n
        BY <3>3
      <4>2. QED
        BY <3>4, <4>1
    <3>6. z + 1 = y + i
      BY <3>2, <3>3
    <3>7. z = y + r
      <4>1. r = i - 1 /\ i \in Int
        BY <2>4
      <4>2. QED
        BY <3>5, <3>6, <4>1, Shifted
    <3>8. QED
      BY <3>1, <3>3, <3>7
  <2>8. (x \div width) + 1 = k /\ x % width = i - 1
    BY <2>4, <2>6, <2>7
  <2>9. matrix[x + 1] = TRUE <=> /\ i <= Len(rounds[k].detector_events)
                                 /\ rounds[k].detector_events[i] = TRUE
    BY <1>2, <2>3
  <2>10. PICK f \in Frames : f = frames[k]
    OBVIOUS
  <2>11. (/\ i <= Len(rounds[k].detector_events)
          /\ rounds[k].detector_events[i] = TRUE) <=> Fires(f, i - 1)
    <3>1. rounds[k].detector_events = DecodeRle(f.rle, f.ancilla_count)
      BY <2>10
    <3>2. Len(DecodeRle(f.rle, f.ancilla_count)) = f.ancilla_count
      BY <2>5, DecodeRleFires
    <3>3. (i <= f.ancilla_count /\ DecodeRle(f.rle, f.ancilla_count)[i] = TRUE) <=> Fires(f, i - 1)
      BY <2>5, DecodeRleFires
    <3>4. QED
      BY <3>1, <3>2, <3>3, Zenon
  <2>12. matrix[x + 1] = TRUE <=> Fires(f, i - 1)
    BY <2>9, <2>11, Zenon
  <2>13. Fires(f, i - 1) <=> Fires(frames[(x \div width) + 1], x % width)
    <3>1. PICK y, z : y = (x \div width) + 1 /\ z = x % width
      OBVIOUS
    <3>2. y = k /\ z = i - 1
      BY <2>8, <3>1
    <3>3. Fires(f, i - 1) <=> Fires(frames[y], z)
      BY <2>10, <3>2, Zenon
    <3>4. QED
      BY <3>1, <3>3, Zenon
  <2>14. QED
    BY <2>8, <2>12, <2>13, Zenon
<1>4. QED
  BY <1>2, <1>3, Zenon DEF HasFrames

\* The rounds in the history are what their frames decode to.
RoundsAreDecoded ==
  \A k \in 1 .. Len(given) :
    given[k].data.detector_events = DecodeRle(given[k].frame.rle, given[k].frame.ancilla_count)

\* A sequence that lists a set, nothing twice.
Lists(active, A) ==
  /\ Len(active) \in Nat /\ DOMAIN active = 1 .. Len(active)
  /\ \A i, j \in 1 .. Len(active) : active[i] = active[j] => i = j
  /\ Range(active) = A
  /\ active = << >> <=> A = {}

\* The active detectors of the window are the detectors that fire in the frames held.
LEMMA WindowFires ==
  ASSUME WindowInv, MatrixIsCurrent, RoundsAreDecoded, window # NoWindow
  PROVE  Lists(ActiveDetectors(window), FiredNodes)
<1>1. PICK held, width, frames, rounds, matrix :
        /\ held = HeldCount /\ width = First.ancilla_count
        /\ frames = [k \in 1 .. HeldCount |-> Held[k].frame]
        /\ rounds = window.frames /\ matrix = window.detector_matrix
  OBVIOUS
<1>2. /\ decoder # Unset /\ SinceCount # 0
      /\ given \in Seq(Given) /\ mark \in 0 .. Len(given) /\ Len(given) \in Nat
      /\ First \in Frames /\ width = window.ancilla_count /\ width \in Nat
      /\ Depth(First) \in Nat \ {0}
      /\ rounds = [k \in 1 .. held |-> Held[k].data]
  <2>1. decoder # Unset /\ SinceCount # 0
    BY DEF WindowInv, WindowIsTheTail
  <2>2. window.frames = [k \in 1 .. HeldCount |-> Held[k].data]
    BY <2>1 DEF WindowInv, WindowIsTheTail
  <2>3. QED
    BY <1>1, <2>1, <2>2, WindowShape DEF WindowInv
<1>3. held \in Nat \ {0} /\ held <= Len(given)
  <2>1. SinceCount \in Nat \ {0} /\ SinceCount <= Len(given)
    BY <1>2 DEF SinceCount
  <2>2. HeldCount = IF Depth(First) <= SinceCount THEN Depth(First) ELSE SinceCount
    BY <1>2, <2>1, MinOfTwo DEF HeldCount
  <2>3. QED
    BY <1>1, <1>2, <2>1, <2>2
<1>4. ASSUME NEW k \in 1 .. held
      PROVE  /\ frames[k] = Held[k].frame /\ frames[k] \in Frames
             /\ rounds[k].detector_events = DecodeRle(frames[k].rle, frames[k].ancilla_count)
  <2>1. PICK at : at = Len(given) - held + k
    OBVIOUS
  <2>2. at \in 1 .. Len(given)
    BY <1>2, <1>3, <2>1
  <2>3. Held[k] = given[at]
    BY <1>1, <2>1 DEF Held
  <2>4. given[at] \in Given
    BY <1>2, <2>2, ElementOfSeq
  <2>5. frames[k] = given[at].frame /\ rounds[k] = given[at].data
    BY <1>1, <1>2, <2>3
  <2>6. QED
    BY <1>1, <2>2, <2>3, <2>4, <2>5 DEF Given, RoundsAreDecoded
<1>5. rounds = [k \in 1 .. held |-> rounds[k]]
  BY <1>2
<1>6. matrix = RebuildMatrix(rounds, width)
  BY <1>1, <1>2 DEF MatrixIsCurrent
<1>7. /\ matrix \in Seq(BOOLEAN) /\ Len(matrix) = held * width
      /\ \A x \in 0 .. held * width - 1 :
           /\ matrix[x + 1] = TRUE <=> Fires(frames[(x \div width) + 1], x % width)
           /\ (x \div width) + 1 \in 1 .. held
  <2>1. \A k \in 1 .. held : /\ frames[k] \in Frames
                             /\ rounds[k].detector_events
                                  = DecodeRle(frames[k].rle, frames[k].ancilla_count)
    BY <1>4
  <2>2. QED
    <3>1. HasFrames(matrix, frames, held, width)
      BY <1>2, <1>3, <1>5, <1>6, <2>1, MatrixOfFrames
    <3>2. QED
      BY <3>1, Zenon DEF HasFrames
<1>8. PICK n : n = held * width
  OBVIOUS
<1>9. n \in Nat /\ Len(matrix) = n
  BY <1>7, <1>8, LenProperties
<1>10. PICK active : active = ActiveDetectors(window)
  OBVIOUS
<1>11. FiredAre(matrix, n, active)
  BY <1>1, <1>7, <1>9, <1>10, ActiveAre
<1>12. /\ active \in Seq(0 .. n - 1) /\ Len(active) \in Nat /\ DOMAIN active = 1 .. Len(active)
       /\ \A i, j \in 1 .. Len(active) : active[i] = active[j] => i = j
       /\ \A x \in 0 .. n - 1 : matrix[x + 1] = TRUE <=> \E i \in 1 .. Len(active) : active[i] = x
  BY <1>11, LenProperties DEF FiredAre
<1>13. \A i \in 1 .. Len(active) : active[i] \in 0 .. n - 1
  BY <1>12, ElementOfSeq
<1>14. ASSUME NEW x \in 0 .. n - 1
       PROVE  Fires(Held[(x \div width) + 1].frame, x % width)
                <=> \E i \in 1 .. Len(active) : active[i] = x
  <2>1. PICK k : k = (x \div width) + 1
    OBVIOUS
  <2>2. x \in 0 .. held * width - 1
    BY <1>8
  <2>3. k \in 1 .. held /\ (matrix[x + 1] = TRUE <=> Fires(frames[k], x % width))
    BY <1>7, <2>1, <2>2
  <2>4. frames[k] = Held[k].frame
    BY <1>4, <2>3
  <2>5. Fires(Held[k].frame, x % width) <=> \E i \in 1 .. Len(active) : active[i] = x
    BY <1>12, <2>3, <2>4, Zenon
  <2>6. QED
    BY <2>1, <2>5, Zenon
<1>15. FiredNodes = {x \in 0 .. n - 1 : Fires(Held[(x \div width) + 1].frame, x % width)}
  BY <1>1, <1>8, Zenon DEF FiredNodes
<1>16. Range(active) = {active[i] : i \in 1 .. Len(active)}
  BY <1>12 DEF Range
<1>17. Range(active) = FiredNodes
  <2>1. ASSUME NEW x \in Range(active) PROVE x \in FiredNodes
    <3>1. PICK i \in 1 .. Len(active) : active[i] = x
      BY <1>16, <2>1
    <3>2. x \in 0 .. n - 1
      BY <1>13, <3>1
    <3>3. QED
      BY <1>14, <1>15, <3>1, <3>2, Zenon
  <2>2. ASSUME NEW x \in FiredNodes PROVE x \in Range(active)
    <3>1. x \in 0 .. n - 1 /\ Fires(Held[(x \div width) + 1].frame, x % width)
      BY <1>15, <2>2, Zenon
    <3>2. PICK i \in 1 .. Len(active) : active[i] = x
      BY <1>14, <3>1, Zenon
    <3>3. QED
      BY <1>16, <3>2
  <2>3. QED
    BY <2>1, <2>2
<1>18. active = << >> <=> FiredNodes = {}
  <2>1. active = << >> => FiredNodes = {}
    BY <1>16, <1>17
  <2>2. FiredNodes = {} => active = << >>
    <3>1. ASSUME FiredNodes = {}, Len(active) # 0 PROVE FALSE
      <4>1. 1 \in 1 .. Len(active)
        BY <1>12, <3>1
      <4>2. QED
        BY <1>16, <1>17, <3>1, <4>1
    <3>2. Len(active) = 0 => active = << >>
      BY <1>12, EmptySeq
    <3>3. QED
      BY <3>1, <3>2
  <2>3. QED
    BY <2>1, <2>2
<1>19. Lists(active, FiredNodes)
  BY <1>12, <1>17, <1>18, Zenon DEF Lists
<1>20. QED
  BY <1>10, <1>19

\* The graph of a model has the model's detectors and one node more, and its
\* edges join nodes of it.
LEMMA ModelGraph ==
  ASSUME NEW dem \in Models
  PROVE  GraphOf(NodesOf(FromDem(dem)), FromDem(dem))
<1>1. PICK n, errors, graph : /\ n = dem.detector_count /\ errors = dem.errors
                              /\ graph = FromDem(dem)
  OBVIOUS
<1>2. /\ n \in Nat
      /\ errors \in Seq([p : {"zero", "some", "one"}, detectors : Seq(0 .. n - 1),
                         observables : Seq(Nat)])
  BY <1>1, CApiAssumption
<1>3. PICK V : V = 0 .. n
  OBVIOUS
<1>4. PICK E : E = [u : V, v : V, fault_ids : Seq(Nat)]
  OBVIOUS
<1>5. 0 .. n - 1 \subseteq V /\ n \in V
  BY <1>2, <1>3
<1>6. PICK rows : rows = [k \in DOMAIN errors |-> IF errors[k].p = "some"
                                                  THEN EdgesOf(errors[k], n) ELSE << >>]
  OBVIOUS
<1>7. graph = [nodes |-> n + 1, edges |-> FlattenSeq(rows)]
  BY <1>1, <1>6, Zenon DEF FromDem
<1>8. ASSUME NEW e, NEW D, e.detectors \in Seq(D), D \subseteq V, e.observables \in Seq(Nat)
      PROVE  EdgesOf(e, n) \in Seq(E)
  <2>1. PICK ds, obs, len : ds = e.detectors /\ obs = e.observables /\ len = Len(e.detectors)
    OBVIOUS
  <2>2. ds \in Seq(D) /\ len = Len(ds) /\ len \in Nat
    BY <1>8, <2>1, LenProperties
  <2>3. \A i \in 1 .. len : ds[i] \in V
    BY <1>8, <2>2, ElementOfSeq
  <2>4. CASE len = 0
    <3>1. EdgesOf(e, n) = << >>
      BY <2>1, <2>4 DEF EdgesOf
    <3>2. << >> \in Seq(E)
      OBVIOUS
    <3>3. QED
      BY <3>1, <3>2
  <2>5. CASE len = 1
    <3>1. PICK edge : edge = [u |-> ds[1], v |-> n, fault_ids |-> obs]
      OBVIOUS
    <3>2. edge \in E
      <4>1. ds[1] \in V
        BY <2>3, <2>5
      <4>2. obs \in Seq(Nat)
        BY <1>8, <2>1
      <4>3. QED
        BY <1>4, <1>5, <3>1, <4>1, <4>2
    <3>3. EdgesOf(e, n) = << edge >>
      BY <2>1, <2>5, <3>1 DEF EdgesOf
    <3>4. << edge >> \in Seq(E)
      BY <3>2
    <3>5. QED
      BY <3>3, <3>4
  <2>6. CASE len \notin {0, 1}
    <3>1. PICK m \in Nat : m = len - 1 /\ \A k \in 1 .. m : k \in 1 .. len /\ k + 1 \in 1 .. len
      BY <2>2, <2>6
    <3>2. EdgesOf(e, n) = [k \in 1 .. m |-> [u |-> ds[k], v |-> ds[k + 1], fault_ids |-> obs]]
      BY <2>1, <2>6, <3>1 DEF EdgesOf
    <3>3. ASSUME NEW k \in 1 .. m
          PROVE  [u |-> ds[k], v |-> ds[k + 1], fault_ids |-> obs] \in E
      <4>1. ds[k] \in V /\ ds[k + 1] \in V
        BY <2>3, <3>1
      <4>2. obs \in Seq(Nat)
        BY <1>8, <2>1
      <4>3. QED
        BY <1>4, <4>1, <4>2
    <3>4. PICK s : s = [k \in 1 .. m |-> [u |-> ds[k], v |-> ds[k + 1], fault_ids |-> obs]]
      OBVIOUS
    <3>5. \A k \in 1 .. m : s[k] \in E
      BY <3>3, <3>4
    <3>6. s = [k \in 1 .. m |-> s[k]]
      BY <3>4
    <3>7. s \in Seq(E)
      BY <3>5, <3>6
    <3>8. QED
      BY <3>2, <3>4, <3>7
  <2>7. QED
    BY <2>4, <2>5, <2>6
<1>9. rows \in Seq(Seq(E))
  <2>1. PICK len \in Nat : len = Len(errors) /\ DOMAIN errors = 1 .. len
    BY <1>2, LenProperties
  <2>2. PICK T : T = Seq(E)
    OBVIOUS
  <2>3. ASSUME NEW k \in 1 .. len PROVE rows[k] \in T
    <3>1. errors[k] \in [p : {"zero", "some", "one"}, detectors : Seq(0 .. n - 1),
                         observables : Seq(Nat)]
      BY <1>2, <2>1, ElementOfSeq
    <3>2. errors[k].detectors \in Seq(0 .. n - 1) /\ errors[k].observables \in Seq(Nat)
      BY <3>1
    <3>3. EdgesOf(errors[k], n) \in T
      BY <1>5, <1>8, <2>2, <3>2
    <3>4. << >> \in T
      BY <2>2
    <3>5. QED
      BY <1>6, <2>1, <3>3, <3>4
  <2>4. rows = [k \in 1 .. len |-> rows[k]]
    BY <1>6, <2>1
  <2>5. rows \in Seq(T)
    BY <2>3, <2>4
  <2>6. QED
    BY <2>2, <2>5
<1>10. graph.edges \in Seq(E) /\ graph.nodes = n + 1
  BY <1>7, <1>9, FlatType
<1>11. NodesOf(graph) = V
  BY <1>2, <1>3, <1>10 DEF NodesOf, Boundary
<1>12. Len(graph.edges) \in Nat /\ DOMAIN graph.edges = 1 .. Len(graph.edges)
  BY <1>10, LenProperties
<1>13. ASSUME NEW k \in 1 .. Len(graph.edges)
       PROVE  graph.edges[k].u \in V /\ graph.edges[k].v \in V
  <2>1. graph.edges[k] \in E
    BY <1>10, ElementOfSeq
  <2>2. QED
    BY <1>4, <2>1
<1>14. OnNodes(V, graph)
  BY <1>12, <1>13 DEF OnNodes
<1>15. n + 1 \in Nat \ {0}
  BY <1>2
<1>16. GraphOf(V, graph)
  BY <1>10, <1>11, <1>12, <1>14, <1>15, Zenon DEF GraphOf
<1>17. QED
  BY <1>1, <1>11, <1>16

\* The tag that decode_frame falls back to.
TagIsTheLast ==
  last_observable_flips
    = IF given = << >> THEN NoTag ELSE given[Len(given)].frame.observable_flips

\* The arrays are those of the model that is set.
ScratchFits == decoder # Unset => ArraysFor(NodesOf(FromDem(decoder)), scratch)

\* The inductive invariant of the answers.
AnswerInv ==
  /\ FitInv
  /\ RoundsAreDecoded
  /\ TagIsTheLast
  /\ ScratchFits
  /\ AnswersFromTheFrames
  /\ GrowthIsComplete

\* Calls that are no decode say nothing of decodes.
LEMMA NoAnswer ==
  ASSUME result.call # "decode_frame"
  PROVE  AnswersFromTheFrames /\ GrowthIsComplete
BY DEF AnswersFromTheFrames, GrowthIsComplete

\* At first nothing was decoded.
LEMMA AnswerInvInit == Init => AnswerInv
<1>1. SUFFICES ASSUME Init PROVE AnswerInv
  OBVIOUS
<1>2. FitInv
  BY <1>1, FitInvInit
<1>3. given = << >> /\ last_observable_flips = NoTag /\ decoder = Unset
      /\ result.call # "decode_frame"
  BY <1>1 DEF Init, InnerInit, Returns
<1>4. RoundsAreDecoded /\ TagIsTheLast /\ ScratchFits
  BY <1>3 DEF RoundsAreDecoded, TagIsTheLast, ScratchFits
<1>5. QED
  BY <1>2, <1>3, <1>4, NoAnswer DEF AnswerInv

\* A handle that is made or freed has given nothing.
LEMMA FreshAnswers ==
  ASSUME Fresh
  PROVE  RoundsAreDecoded' /\ TagIsTheLast' /\ ScratchFits'
<1>1. given' = << >> /\ last_observable_flips' = NoTag /\ decoder' = Unset
  BY DEF Fresh
<1>2. QED
  BY <1>1 DEF RoundsAreDecoded, TagIsTheLast, ScratchFits

\* What leaves the handle and its history alone.
LEMMA OthersAnswer ==
  ASSUME AnswerInv, UNCHANGED <<given, last_observable_flips, decoder, scratch>>
  PROVE  RoundsAreDecoded' /\ TagIsTheLast' /\ ScratchFits'
BY DEF AnswerInv, RoundsAreDecoded, TagIsTheLast, ScratchFits

\* A frame that is given is the last, with its tag.
LEMMA NextFrameAnswers ==
  ASSUME AnswerInv, NEW frame \in Frames, NextFrame(frame)
  PROVE  RoundsAreDecoded' /\ TagIsTheLast' /\ ScratchFits'
<1>1. PICK n : n = Len(given)
  OBVIOUS
<1>2. /\ given' \in Seq(Given) /\ Len(given') = n + 1
      /\ given'[n + 1] = [frame |-> frame, data |-> Owned(frame)]
      /\ \A k \in 1 .. n : given'[k] = given[k]
  BY <1>1, HeldGrows DEF AnswerInv, FitInv
<1>3. n \in Nat
  BY <1>1, LenProperties DEF AnswerInv, FitInv, WindowInv
<1>4. RoundsAreDecoded'
  <2>1. ASSUME NEW k \in 1 .. n + 1
        PROVE  given'[k].data.detector_events
                 = DecodeRle(given'[k].frame.rle, given'[k].frame.ancilla_count)
    <3>1. CASE k = n + 1
      BY <1>2, <3>1 DEF Owned
    <3>2. CASE k # n + 1
      <4>1. k \in 1 .. n
        BY <1>3, <3>2
      <4>2. QED
        BY <1>1, <1>2, <4>1 DEF AnswerInv, RoundsAreDecoded
    <3>3. QED
      BY <3>1, <3>2
  <2>2. QED
    BY <1>2, <2>1 DEF RoundsAreDecoded
<1>5. TagIsTheLast'
  <2>1. given' # << >>
    BY <1>2, <1>3
  <2>2. given'[Len(given')].frame = frame
    BY <1>2
  <2>3. last_observable_flips' = frame.observable_flips
    BY DEF NextFrame
  <2>4. QED
    BY <2>1, <2>2, <2>3 DEF TagIsTheLast
<1>6. ScratchFits'
  BY DEF NextFrame, AnswerInv, ScratchFits
<1>7. QED
  BY <1>4, <1>5, <1>6

\* A new decoder has arrays of its own.
LEMMA SetDecoderDemAnswers ==
  ASSUME AnswerInv, NEW dem \in Models, NEW depth \in Depths, SetDecoderDem(dem, depth)
  PROVE  RoundsAreDecoded' /\ TagIsTheLast' /\ ScratchFits'
<1>1. decoder' = dem /\ scratch' = NewDecoder(FromDem(dem))
      /\ given' = given /\ last_observable_flips' = last_observable_flips
  BY DEF SetDecoderDem
<1>2. RoundsAreDecoded' /\ TagIsTheLast'
  BY <1>1 DEF AnswerInv, RoundsAreDecoded, TagIsTheLast
<1>3. ArraysFor(NodesOf(FromDem(dem)), NewDecoder(FromDem(dem)))
  BY DEF ArraysFor, NewDecoder
<1>4. QED
  BY <1>1, <1>2, <1>3 DEF ScratchFits

\* The frames that fire do not change while the history and the model stay.
LEMMA SameNodes ==
  ASSUME UNCHANGED <<given, mark, window_depth_hint, dem_detector_count>>
  PROVE  FiredNodes' = FiredNodes /\ SinceCount' = SinceCount
<1>1. SinceCount' = SinceCount /\ First' = First
  BY DEF SinceCount, First
<1>2. Depth(First)' = Depth(First)
  BY <1>1 DEF Depth
<1>3. HeldCount' = HeldCount
  BY <1>1, <1>2 DEF HeldCount
<1>4. Held' = Held
  BY <1>3 DEF Held
<1>5. FiredNodes' = FiredNodes
  BY <1>1, <1>3, <1>4 DEF FiredNodes
<1>6. QED
  BY <1>1, <1>5

\* Nothing was given since the decoder was set, or there is none: the tag.
LEMMA NoDecoderAnswers ==
  ASSUME AnswerInv, NoDecoder
  PROVE  AnswersFromTheFrames' /\ GrowthIsComplete'
<1>1. UNCHANGED <<given, mark, window_depth_hint, dem_detector_count, decoder, window,
                  last_observable_flips, scratch>>
  BY DEF NoDecoder, inner, history
<1>2. decoder = Unset \/ SinceCount = 0
  <2>1. CASE decoder # Unset /\ SinceCount # 0
    <3>1. window = NoWindow /\ window.window_depth = Depth(First)
      BY <2>1 DEF AnswerInv, FitInv, WindowInv, NoDecoder
    <3>2. Depth(First) = 0
      BY <3>1 DEF NoWindow, NewWindow
    <3>3. First \in Frames
      <4>1. given \in Seq(Given) /\ mark \in 0 .. Len(given) /\ Len(given) \in Nat
        BY LenProperties DEF AnswerInv, FitInv, WindowInv
      <4>2. mark + 1 \in 1 .. Len(given)
        BY <2>1, <4>1 DEF SinceCount
      <4>3. given[mark + 1] \in Given
        BY <4>1, <4>2, ElementOfSeq
      <4>4. QED
        BY <4>3 DEF First, Given
    <3>4. Depth(First) \in Nat \ {0}
      BY <3>3, DepthPositive DEF AnswerInv, FitInv, WindowInv
    <3>5. QED
      BY <3>2, <3>4
  <2>2. QED
    BY <2>1
<1>3. window = NoWindow
  BY <1>2 DEF AnswerInv, FitInv, WindowInv, WindowIsTheTail
<1>4. GrowthIsComplete'
  BY <1>1, <1>3 DEF GrowthIsComplete, NoWindow
<1>5. result' = [call |-> "decode_frame",
                 value |-> IF last_observable_flips = NoTag THEN {} ELSE last_observable_flips]
  BY DEF NoDecoder, Returns
<1>6. decoder' = Unset \/ SinceCount' = 0
  BY <1>1, <1>2, SameNodes
<1>7. last_observable_flips
        = IF given = << >> THEN NoTag ELSE given[Len(given)].frame.observable_flips
  BY DEF AnswerInv, TagIsTheLast
<1>8. CASE given = << >>
  <2>1. result'.value = {}
    BY <1>5, <1>7, <1>8
  <2>2. QED
    BY <1>1, <1>4, <1>8, <2>1 DEF AnswersFromTheFrames
<1>9. CASE given # << >>
  <2>1. PICK tag : tag = given[Len(given)].frame.observable_flips
    OBVIOUS
  <2>2. result'.value = IF tag = NoTag THEN {} ELSE tag
    BY <1>5, <1>7, <1>9, <2>1
  <2>3. given' # << >> /\ tag = given'[Len(given')].frame.observable_flips
    BY <1>1, <1>9, <2>1
  <2>4. QED
    BY <1>4, <1>6, <2>2, <2>3 DEF AnswersFromTheFrames
<1>10. QED
  BY <1>8, <1>9

\* A decode of the window decodes the frames held, whatever is in the arrays.
LEMMA DecodeWindowAnswers ==
  ASSUME AnswerInv, DecodeWindow
  PROVE  ScratchFits' /\ AnswersFromTheFrames' /\ GrowthIsComplete'
<1>1. PICK active, graph, V, d :
        /\ active = ActiveDetectors(window) /\ graph = FromDem(decoder)
        /\ V = NodesOf(FromDem(decoder)) /\ d = DecodeActive(graph, scratch, active)
  OBVIOUS
<1>2. /\ decoder # Unset /\ window # NoWindow
      /\ UNCHANGED <<given, mark, window_depth_hint, dem_detector_count, decoder, window>>
  BY DEF DecodeWindow, history
<1>3. Lists(active, FiredNodes)
  BY <1>1, <1>2, WindowFires DEF AnswerInv, FitInv
<1>4. decoder \in Models /\ GraphOf(V, graph) /\ ArraysFor(V, scratch)
  BY <1>1, <1>2, ModelGraph DEF AnswerInv, FitInv, WindowInv, ScratchFits
<1>5. FiredNodes' = FiredNodes /\ SinceCount' = SinceCount
  BY <1>2, SameNodes
<1>6. SinceCount # 0 /\ given # << >>
  <2>1. SinceCount # 0
    BY <1>2 DEF AnswerInv, FitInv, WindowInv, WindowIsTheTail
  <2>2. given \in Seq(Given) /\ mark \in 0 .. Len(given)
    BY DEF AnswerInv, FitInv, WindowInv
  <2>3. ASSUME given = << >> PROVE FALSE
    <3>1. Len(given) = 0
      BY <2>3
    <3>2. mark = 0
      BY <2>2, <3>1
    <3>3. QED
      BY <2>1, <3>1, <3>2 DEF SinceCount
  <2>4. QED
    BY <2>1, <2>3
<1>7. ASSUME result' = Returns("decode_frame",
                               IF FiredNodes = {} THEN {} ELSE PartitionFlips(graph, FiredNodes))
      PROVE  AnswersFromTheFrames'
  <2>1. given' # << >> /\ decoder' # Unset /\ SinceCount' # 0
    BY <1>2, <1>5, <1>6
  <2>2. result'.value = IF FiredNodes' = {} THEN {} ELSE PartitionFlips(FromDem(decoder'), FiredNodes')
    BY <1>1, <1>2, <1>5, <1>7 DEF Returns
  <2>3. QED
    BY <2>1, <2>2, Zenon DEF AnswersFromTheFrames
<1>8. CASE active = << >>
  <2>1. FiredNodes = {}
    BY <1>3, <1>8 DEF Lists
  <2>2. result' = Returns("decode_frame", {}) /\ scratch' = scratch
    BY <1>1, <1>8 DEF DecodeWindow
  <2>3. AnswersFromTheFrames'
    BY <1>7, <2>1, <2>2
  <2>4. GrowthIsComplete'
    BY <1>5, <2>1 DEF GrowthIsComplete
  <2>5. ScratchFits'
    BY <1>2, <2>2 DEF AnswerInv, ScratchFits
  <2>6. QED
    BY <2>3, <2>4, <2>5
<1>9. CASE active # << >> /\ \E k \in DOMAIN active : active[k] \notin V
  <2>1. result' = Returns("none", "none") /\ scratch' = scratch
    BY <1>1, <1>9 DEF DecodeWindow
  <2>2. result'.call # "decode_frame"
    BY <2>1 DEF Returns
  <2>3. AnswersFromTheFrames' /\ GrowthIsComplete'
    BY <2>2 DEF AnswersFromTheFrames, GrowthIsComplete
  <2>4. ScratchFits'
    BY <1>2, <2>1 DEF AnswerInv, ScratchFits
  <2>5. QED
    BY <2>3, <2>4
<1>10. CASE active # << >> /\ \A k \in DOMAIN active : active[k] \in V
  <2>1. result' = Returns("decode_frame", d.flips) /\ scratch' = d.uf
    BY <1>1, <1>10 DEF DecodeWindow
  <2>2. FiredNodes # {} /\ Range(active) = FiredNodes
    BY <1>3, <1>10 DEF Lists
  <2>3. Distinct(V, active)
    BY <1>3, <1>10 DEF Lists, Distinct
  <2>4. /\ d.flips = PartitionFlips(graph, FiredNodes)
        /\ IsGrown(graph, d.uf, FiredNodes) /\ ArraysFor(V, d.uf)
    BY <1>1, <1>4, <2>2, <2>3, DecodeIsPartition
  <2>5. AnswersFromTheFrames'
    BY <1>7, <2>1, <2>2, <2>4
  <2>6. GrowthIsComplete'
    <3>1. IsGrown(FromDem(decoder'), scratch', FiredNodes')
      BY <1>1, <1>2, <1>5, <2>1, <2>4
    <3>2. QED
      BY <3>1, Zenon DEF GrowthIsComplete
  <2>7. ScratchFits'
    <3>1. ArraysFor(NodesOf(FromDem(decoder')), scratch')
      BY <1>1, <1>2, <2>1, <2>4
    <3>2. QED
      BY <3>1, Zenon DEF ScratchFits
  <2>8. QED
    BY <2>5, <2>6, <2>7
<1>11. QED
  BY <1>8, <1>9, <1>10

\* Every step keeps the answers.
LEMMA AnswerInvStep == AnswerInv /\ [Next]_vars => AnswerInv'
<1> SUFFICES ASSUME AnswerInv, [Next]_vars
             PROVE  AnswerInv'
  OBVIOUS
<1>1. FitInv'
  BY FitInvStep DEF AnswerInv
<1>2. SUFFICES /\ RoundsAreDecoded' /\ TagIsTheLast' /\ ScratchFits'
               /\ AnswersFromTheFrames' /\ GrowthIsComplete'
  BY <1>1 DEF AnswerInv
<1>3. ASSUME result'.call # "decode_frame"
      PROVE  AnswersFromTheFrames' /\ GrowthIsComplete'
  BY <1>3 DEF AnswersFromTheFrames, GrowthIsComplete
<1>4. CASE Open
  BY <1>3, <1>4, FreshAnswers DEF Open, Returns
<1>5. CASE OpenFails
  BY <1>3, <1>5, OthersAnswer DEF OpenFails, inner, history, Returns
<1>6. CASE Close
  BY <1>3, <1>6, FreshAnswers DEF Close, Returns
<1>7. ASSUME NEW frame \in Frames, NextFrame(frame)
      PROVE  /\ RoundsAreDecoded' /\ TagIsTheLast' /\ ScratchFits'
             /\ AnswersFromTheFrames' /\ GrowthIsComplete'
  <2>1. result'.call # "decode_frame"
    BY <1>7 DEF NextFrame, Returns
  <2>2. QED
    BY <1>3, <1>7, <2>1, NextFrameAnswers
<1>8. CASE BufferTooSmall
  BY <1>3, <1>8, OthersAnswer DEF BufferTooSmall, inner, Returns
<1>9. CASE NextFrameFails
  BY <1>3, <1>9, OthersAnswer DEF NextFrameFails, inner, history, Returns
<1>10. ASSUME NEW dem \in Models, NEW depth \in Depths, SetDecoderDem(dem, depth)
       PROVE  /\ RoundsAreDecoded' /\ TagIsTheLast' /\ ScratchFits'
              /\ AnswersFromTheFrames' /\ GrowthIsComplete'
  <2>1. result'.call # "decode_frame"
    BY <1>10 DEF SetDecoderDem, Returns
  <2>2. QED
    BY <1>3, <1>10, <2>1, SetDecoderDemAnswers
<1>11. CASE SetDecoderDemFails
  BY <1>3, <1>11, OthersAnswer DEF SetDecoderDemFails, inner, history, Returns
<1>12. CASE NoDecoder
  BY <1>12, NoDecoderAnswers, OthersAnswer DEF NoDecoder, inner, history
<1>13. CASE DecodeWindow
  <2>1. given' = given /\ last_observable_flips' = last_observable_flips
    BY <1>13 DEF DecodeWindow, history
  <2>2. RoundsAreDecoded' /\ TagIsTheLast'
    BY <2>1 DEF AnswerInv, RoundsAreDecoded, TagIsTheLast
  <2>3. QED
    BY <1>13, <2>2, DecodeWindowAnswers
<1>14. CASE UNCHANGED vars
  <2>1. /\ UNCHANGED <<given, mark, window_depth_hint, dem_detector_count, decoder, window>>
        /\ UNCHANGED <<last_observable_flips, scratch, result>>
    BY <1>14 DEF vars, inner, history
  <2>2. FiredNodes' = FiredNodes /\ SinceCount' = SinceCount
    BY <2>1, SameNodes
  <2>3. AnswersFromTheFrames' /\ GrowthIsComplete'
    BY <2>1, <2>2 DEF AnswerInv, AnswersFromTheFrames, GrowthIsComplete, NoWindow
  <2>4. QED
    BY <2>1, <2>3, OthersAnswer
<1>15. QED
  BY <1>4, <1>5, <1>6, <1>7, <1>8, <1>9, <1>10, <1>11, <1>12, <1>13, <1>14 DEF Next, DecodeFrame

\* What decode_frame returns is the flips of the partition that the frames given
\* since the decoder was set grow to, or, before there is such a frame, the tag
\* of the last one: never anything an earlier decode left in the decoder's
\* arrays (stabstream_decode_frame, c_api.rs; decode_active, union_find.rs).
THEOREM AnswersCorrect == Spec => []AnswersFromTheFrames
<1>1. AnswerInv => AnswersFromTheFrames
  BY DEF AnswerInv
<1>2. QED
  BY <1>1, AnswerInvInit, AnswerInvStep, PTL DEF Spec

\* A decode leaves a forest that counts the active detectors of each tree at
\* its root, and no odd tree that an edge could have grown further, although
\* the passes are no more than there are nodes (decode_active, union_find.rs).
THEOREM GrowthCompletes == Spec => []GrowthIsComplete
<1>1. AnswerInv => GrowthIsComplete
  BY DEF AnswerInv
<1>2. QED
  BY <1>1, AnswerInvInit, AnswerInvStep, PTL DEF Spec
=============================================================================

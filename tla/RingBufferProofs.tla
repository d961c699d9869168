-------------------------- MODULE RingBufferProofs --------------------------
(***************************************************************************)
(* Proofs about RingBuffer, for every capacity and every counter range.    *)
(*                                                                         *)
(* The counters stay within a capacity of one another whatever the range   *)
(* they wrap in.  That the ring is a FIFO needs one fact more: that the    *)
(* capacity divides the range of the counters (Aligned), for only then     *)
(* does pos % Cap move on by one when pos wraps.                           *)
(***************************************************************************)
EXTENDS RingBuffer, SequenceTheorems, TLAPS

\* The capacity divides the range of usize: true of every power of two, the
\* default of 4 MiB among them.
Aligned == Modulus % Cap = 0

Position == 0 .. (Modulus - 1)

-----------------------------------------------------------------------------
(* Remainders, for any positive divisor *)

\* The remainder lies below the divisor, and with the quotient it gives the
\* dividend back.
LEMMA ModBounds ==
  ASSUME NEW m \in Nat \ {0}, NEW p \in Int
  PROVE  /\ (p % m) \in 0 .. (m - 1)
         /\ (p \div m) \in Int
         /\ p = m * (p \div m) + (p % m)
<1>1. (p % m) \in 0 .. (m - 1)
  OBVIOUS
<1>2. (p \div m) \in Int /\ p = m * (p \div m) + (p % m)
  OBVIOUS
<1>3. QED
  BY <1>1, <1>2

\* A positive multiple of m is at least m.
LEMMA MultipleAtLeast ==
  ASSUME NEW m \in Nat \ {0}, NEW q \in Int, q >= 1
  PROVE  m * q >= m
OBVIOUS

\* Quotient and remainder are unique.
LEMMA RemainderUnique ==
  ASSUME NEW m \in Nat \ {0},
         NEW q \in Int, NEW r \in 0 .. (m - 1),
         NEW s \in Int, NEW t \in 0 .. (m - 1),
         m * q + r = m * s + t
  PROVE  r = t
<1>1. m * (q - s) = t - r /\ m * (s - q) = r - t
  OBVIOUS
<1>2. CASE q = s
  BY <1>1, <1>2
<1>3. CASE q - s >= 1
  BY <1>1, <1>3, MultipleAtLeast
<1>4. CASE s - q >= 1
  BY <1>1, <1>4, MultipleAtLeast
<1>5. QED
  BY <1>2, <1>3, <1>4

\* Whoever finds a quotient and a remainder has found p % m.
LEMMA ModIs ==
  ASSUME NEW m \in Nat \ {0}, NEW p \in Int,
         NEW q \in Int, NEW r \in 0 .. (m - 1), p = m * q + r
  PROVE  p % m = r
BY ModBounds, RemainderUnique

\* A number below the divisor is its own remainder.
LEMMA ModSmall ==
  ASSUME NEW m \in Nat \ {0}, NEW p \in 0 .. (m - 1)
  PROVE  p % m = p
<1>1. p = m * 0 + p
  OBVIOUS
<1>2. QED
  BY <1>1, ModIs

\* Moving a position forward by at most one lap wraps it at most once.
LEMMA ModAdd ==
  ASSUME NEW m \in Nat \ {0}, NEW p \in Int, NEW k \in 0 .. m
  PROVE  (p + k) % m = IF (p % m) + k < m THEN (p % m) + k ELSE (p % m) + k - m
<1> DEFINE q == p \div m
           r == p % m
<1>1. q \in Int /\ r \in 0 .. (m - 1) /\ p = m * q + r
  BY ModBounds
<1> HIDE DEF q, r
<1>2. CASE r + k < m
  <2>1. p + k = m * q + (r + k) /\ r + k \in 0 .. (m - 1)
    BY <1>1, <1>2
  <2>2. (p + k) % m = r + k
    BY <1>1, <2>1, ModIs
  <2>3. QED
    BY <1>2, <2>2 DEF r
<1>3. CASE ~ (r + k < m)
  <2>1. p + k = m * (q + 1) + (r + k - m) /\ r + k - m \in 0 .. (m - 1)
    BY <1>1, <1>3
  <2>2. \A a \in Int, b \in Int : b \in 0 .. (m - 1) /\ a = m * (q + 1) + b => a % m = b
    BY <1>1, ModIs
  <2>3. (p + k) % m = r + k - m
    BY <1>1, <2>1, <2>2
  <2>4. QED
    BY <1>3, <2>3 DEF r
<1>4. QED
  BY <1>2, <1>3

\* A lap of n bytes, n a multiple of m, leaves the index modulo m alone.
LEMMA ModLap ==
  ASSUME NEW m \in Nat \ {0}, NEW n \in Nat, n % m = 0, NEW p \in Int
  PROVE  (p - n) % m = p % m
<1> DEFINE q == p \div m
           r == p % m
           l == n \div m
<1>1. q \in Int /\ r \in 0 .. (m - 1) /\ p = m * q + r
  BY ModBounds
<1>2. l \in Int /\ n = m * l
  BY ModBounds
<1> HIDE DEF q, r, l
<1>3. p - n = m * (q - l) + r
  BY <1>1, <1>2
<1>4. (p - n) % m = r
  BY <1>1, <1>2, <1>3, ModIs
<1>5. QED
  BY <1>4 DEF r

-----------------------------------------------------------------------------
(* Positions *)

\* wrapping_add of at most a capacity wraps at most once.
LEMMA AddPosition ==
  ASSUME NEW p \in Position, NEW n \in 0 .. Cap
  PROVE  /\ WrappingAdd(p, n) = IF p + n < Modulus THEN p + n ELSE p + n - Modulus
         /\ WrappingAdd(p, n) \in Position
<1>1. Modulus \in Nat \ {0} /\ n \in 0 .. Modulus /\ p \in Int
  BY RingAssumption DEF Position
<1>2. p % Modulus = p
  BY <1>1, ModSmall DEF Position
<1>3. (p + n) % Modulus =
        IF (p % Modulus) + n < Modulus THEN (p % Modulus) + n
                                       ELSE (p % Modulus) + n - Modulus
  BY <1>1, ModAdd, Zenon
<1>4. QED
  BY <1>1, <1>2, <1>3 DEF WrappingAdd, Position

\* wrapping_sub gives the distance from q on to p.
LEMMA SubPosition ==
  ASSUME NEW p \in Position, NEW q \in Position
  PROVE  WrappingSub(p, q) = IF p >= q THEN p - q ELSE p - q + Modulus
<1>1. Modulus \in Nat \ {0} /\ p \in Int /\ q \in Int
  BY RingAssumption DEF Position
<1>2. CASE p >= q
  <2>1. p - q \in 0 .. (Modulus - 1)
    BY <1>1, <1>2 DEF Position
  <2>2. (p - q) % Modulus = p - q
    BY <1>1, <2>1, ModSmall
  <2>3. QED
    BY <1>2, <2>2 DEF WrappingSub
<1>3. CASE p < q
  <2>1. /\ p - q + Modulus \in 0 .. (Modulus - 1)
        /\ p - q = Modulus * (-1) + (p - q + Modulus)
    BY <1>1, <1>3 DEF Position
  <2>2. (p - q) % Modulus = p - q + Modulus
    BY <1>1, <2>1, ModIs
  <2>3. QED
    BY <1>1, <1>3, <2>2 DEF WrappingSub
<1>4. QED
  BY <1>1, <1>2, <1>3

\* An index is an index of the store.
LEMMA IndexInStore ==
  ASSUME NEW p \in Position
  PROVE  IndexOf(p) \in Index
BY ModBounds, RingAssumption DEF IndexOf, Index, Position

\* The store is walked in a circle: n bytes further on, at most a capacity,
\* the index has wrapped at most once, also when the counter itself wraps.
LEMMA IndexAdd ==
  ASSUME Aligned, NEW p \in Position, NEW n \in 0 .. Cap
  PROVE  IndexOf(WrappingAdd(p, n)) =
           IF IndexOf(p) + n < Cap THEN IndexOf(p) + n ELSE IndexOf(p) + n - Cap
<1>1. Cap \in Nat \ {0} /\ Modulus \in Nat /\ p \in Int /\ p + n \in Int
  BY RingAssumption DEF Position
<1>2. (p + n) % Cap = IF (p % Cap) + n < Cap THEN (p % Cap) + n ELSE (p % Cap) + n - Cap
  BY <1>1, ModAdd, Zenon
<1>3. ((p + n) - Modulus) % Cap = (p + n) % Cap
  BY <1>1, ModLap, Zenon DEF Aligned
<1>4. WrappingAdd(p, n) = p + n \/ WrappingAdd(p, n) = (p + n) - Modulus
  BY <1>1, AddPosition
<1>5. QED
  BY <1>2, <1>3, <1>4 DEF IndexOf

-----------------------------------------------------------------------------
(* Types and the capacity bound *)

\* What write accepts fits in the chunk and in the free space.
LEMMA AcceptedFits ==
  ASSUME TypeOK, CapacityInvariant, NEW data \in Seq(Byte)
  PROVE  /\ available_read \in 0 .. Cap
         /\ Accepted(data) \in 0 .. Cap
         /\ Accepted(data) <= Len(data)
         /\ available_read + Accepted(data) <= Cap
<1>1. available_read \in 0 .. Cap
  <2>1. write_pos \in Position /\ read_pos \in Position
    BY DEF TypeOK, Position
  <2>2. available_read = IF write_pos >= read_pos THEN write_pos - read_pos
                                                  ELSE write_pos - read_pos + Modulus
    BY <2>1, SubPosition DEF available_read
  <2>3. QED
    BY <2>1, <2>2, RingAssumption DEF Position, CapacityInvariant
<1>2. Len(data) \in Nat
  BY LenProperties
<1>3. QED
  BY <1>1, <1>2, RingAssumption DEF Accepted, available_write, Least

\* The arithmetic of a write, on plain numbers.
LEMMA DistanceGrows ==
  ASSUME NEW w \in Position, NEW r \in Position, NEW a \in 0 .. Cap,
         NEW k \in 0 .. Cap, a + k <= Cap,
         a = IF w >= r THEN w - r ELSE w - r + Modulus,
         NEW v, v = IF w + k < Modulus THEN w + k ELSE w + k - Modulus,
         NEW b, b = IF v >= r THEN v - r ELSE v - r + Modulus
  PROVE  b = a + k
BY RingAssumption DEF Position

\* Writing moves the two counters apart by what was accepted, consuming
\* brings them together by what was released.
LEMMA WriteGrows ==
  ASSUME TypeOK, CapacityInvariant, NEW data \in Seq(Byte), Write(data)
  PROVE  /\ write_pos' \in Position
         /\ available_read' = available_read + Accepted(data)
<1>1. /\ available_read + Accepted(data) <= Cap
      /\ Accepted(data) \in 0 .. Cap
      /\ available_read \in 0 .. Cap
  BY AcceptedFits
<1>2. /\ write_pos' = WrappingAdd(write_pos, Accepted(data))
      /\ read_pos' = read_pos
  BY DEF Write
<1>3. write_pos \in Position /\ read_pos \in Position
  BY DEF TypeOK, Position
<1>4. write_pos' = IF write_pos + Accepted(data) < Modulus
                   THEN write_pos + Accepted(data)
                   ELSE write_pos + Accepted(data) - Modulus
  BY <1>1, <1>2, <1>3, AddPosition
<1>5. write_pos' \in Position
  BY <1>1, <1>2, <1>3, AddPosition
<1>6. available_read = IF write_pos >= read_pos THEN write_pos - read_pos
                                                ELSE write_pos - read_pos + Modulus
  BY <1>3, SubPosition DEF available_read
<1>7. available_read' = IF write_pos' >= read_pos THEN write_pos' - read_pos
                                                  ELSE write_pos' - read_pos + Modulus
  BY <1>2, <1>3, <1>5, SubPosition DEF available_read
<1>8. available_read' = available_read + Accepted(data)
  BY <1>1, <1>3, <1>4, <1>6, <1>7, DistanceGrows
<1>9. QED
  BY <1>5, <1>8

\* Consuming bytes the ring holds moves read_pos on and lowers available_read
\* by just that many.
LEMMA ConsumeShrinks ==
  ASSUME TypeOK, CapacityInvariant, NEW n \in 0 .. Cap, n <= available_read, Consume(n)
  PROVE  /\ read_pos' \in Position
         /\ available_read' = available_read - n
<1>1. /\ read_pos' = WrappingAdd(read_pos, n)
      /\ write_pos' = write_pos
  BY DEF Consume
<1>2. write_pos \in Position /\ read_pos \in Position
  BY DEF TypeOK, Position
<1>3. read_pos' = IF read_pos + n < Modulus THEN read_pos + n ELSE read_pos + n - Modulus
  BY <1>1, <1>2, AddPosition
<1>4. read_pos' \in Position
  BY <1>1, <1>2, AddPosition
<1>5. available_read = IF write_pos >= read_pos THEN write_pos - read_pos
                                                ELSE write_pos - read_pos + Modulus
  BY <1>2, SubPosition DEF available_read
<1>6. available_read' = IF write_pos >= read_pos' THEN write_pos - read_pos'
                                                  ELSE write_pos - read_pos' + Modulus
  BY <1>1, <1>2, <1>4, SubPosition DEF available_read
<1>7. QED
  BY <1>2, <1>3, <1>4, <1>5, <1>6, RingAssumption DEF Position

\* A write leaves a byte as it was or puts a byte of the chunk there.
LEMMA WriteCopies ==
  ASSUME TypeOK, CapacityInvariant, NEW data \in Seq(Byte), Write(data), NEW i \in Index
  PROVE  buf'[i] = buf[i] \/ \E n \in 1 .. Len(data) : buf'[i] = data[n]
<1> DEFINE k == Accepted(data)
           w == IndexOf(write_pos)
           f == Least(Cap - w, k)
<1>1. k \in 0 .. Cap /\ k <= Len(data)
  BY AcceptedFits
<1>2. w \in 0 .. (Cap - 1)
  BY IndexInStore DEF TypeOK, Position, Index
<1>3. f \in 0 .. Cap /\ f <= k /\ f <= Cap - w
  BY <1>1, <1>2, RingAssumption DEF Least
<1>4. buf' = [x \in Index |->
                IF x \in w .. (w + f - 1) THEN data[x - w + 1]
                ELSE IF x < k - f THEN data[f + x + 1] ELSE buf[x]]
  BY DEF Write
<1>5. Len(data) \in Nat
  BY LenProperties
<1> HIDE DEF k, w, f
<1>6. CASE i \in w .. (w + f - 1)
  <2>1. i - w + 1 \in 1 .. Len(data)
    BY <1>1, <1>2, <1>3, <1>5, <1>6 DEF Index
  <2>2. QED
    BY <1>4, <1>6, <2>1
<1>7. CASE i \notin w .. (w + f - 1) /\ i < k - f
  <2>1. f + i + 1 \in 1 .. Len(data)
    BY <1>1, <1>3, <1>5, <1>7, RingAssumption DEF Index
  <2>2. QED
    BY <1>4, <1>7, <2>1
<1>8. CASE i \notin w .. (w + f - 1) /\ ~ (i < k - f)
  BY <1>4, <1>8
<1>9. QED
  BY <1>6, <1>7, <1>8

\* The copied bytes are bytes.
LEMMA WriteTypes ==
  ASSUME TypeOK, CapacityInvariant, NEW data \in Seq(Byte), Write(data)
  PROVE  buf' \in [Index -> Byte]
<1>1. buf' = [i \in Index |-> buf'[i]]
  BY DEF Write
<1>2. \A i \in Index : buf[i] \in Byte
  BY DEF TypeOK
<1>3. \A n \in 1 .. Len(data) : data[n] \in Byte
  BY ElementOfSeq
<1>4. \A i \in Index : buf'[i] \in Byte
  BY <1>2, <1>3, WriteCopies
<1>5. QED
  BY <1>1, <1>4

\* The inductive invariant of the ring: the types and the capacity bound
\* support each other, for the counters stay in range only while what is
\* written fits, and it fits only while they are a capacity apart.
IndInv == TypeOK /\ CapacityInvariant

\* The invariant holds of the ring that new returns.
LEMMA IndInvInit == Init => IndInv
<1> SUFFICES ASSUME Init PROVE IndInv
  OBVIOUS
<1>1. 0 \in Position
  BY RingAssumption DEF Position
<1>2. TypeOK
  BY <1>1, RingAssumption DEF Init, TypeOK, Position
<1>3. available_read = 0
  BY <1>1, SubPosition DEF Init, available_read
<1>4. QED
  BY <1>2, <1>3, RingAssumption DEF IndInv, CapacityInvariant

\* Every write, and every consume of bytes the ring holds, keeps it.
LEMMA IndInvNext == IndInv /\ [Next]_vars => IndInv'
<1> SUFFICES ASSUME IndInv, [Next]_vars PROVE IndInv'
  OBVIOUS
<1> USE DEF IndInv
<1>1. ASSUME NEW data \in Chunks, Write(data)
      PROVE  IndInv'
  <2>1. data \in Seq(Byte)
    BY RingAssumption
  <2>2. buf' \in [Index -> Byte]
    BY <1>1, <2>1, WriteTypes
  <2>3. /\ write_pos' \in Position
        /\ available_read' = available_read + Accepted(data)
    BY <1>1, <2>1, WriteGrows
  <2>4. available_read + Accepted(data) <= Cap
    BY <2>1, AcceptedFits
  <2>5. read_pos' = read_pos
    BY <1>1 DEF Write
  <2>6. TypeOK'
    BY <2>2, <2>3, <2>5 DEF TypeOK, Position
  <2>7. CapacityInvariant'
    BY <2>3, <2>4 DEF CapacityInvariant
  <2>8. QED
    BY <2>6, <2>7
<1>2. ASSUME NEW n \in 0..Cap, n <= available_read, Consume(n)
      PROVE  IndInv'
  <2>1. /\ read_pos' \in Position
        /\ available_read' = available_read - n
    BY <1>2, ConsumeShrinks
  <2>2. available_read \in 0 .. Cap
    BY RingAssumption, EmptySeq, AcceptedFits
  <2>3. TypeOK'
    BY <1>2, <2>1 DEF TypeOK, Position, Consume
  <2>4. CapacityInvariant'
    BY <2>1, <2>2, RingAssumption DEF CapacityInvariant
  <2>5. QED
    BY <2>3, <2>4
<1>3. CASE UNCHANGED vars
  BY <1>3 DEF vars, TypeOK, CapacityInvariant, available_read
<1>4. QED
  BY <1>1, <1>2, <1>3 DEF Next

\* Every variable keeps its type in every reachable state.
THEOREM TypeCorrect == Spec => []TypeOK
<1>1. IndInv => TypeOK
  BY DEF IndInv
<1>2. QED
  BY <1>1, IndInvInit, IndInvNext, PTL DEF Spec

\* available_write never underflows: available_read stays within the
\* capacity however often the counters wrap, whatever their range.
THEOREM CapacityHolds == Spec => []CapacityInvariant
<1>1. IndInv => CapacityInvariant
  BY DEF IndInv
<1>2. QED
  BY <1>1, IndInvInit, IndInvNext, PTL DEF Spec

-----------------------------------------------------------------------------
(* The ring is a FIFO *)

\* n places on from index x, around the store.
Around(x, n) == IF x + n < Cap THEN x + n ELSE x + n - Cap

\* The unread bytes, by index: a circular segment of the store.
LEMMA ContentsAt ==
  ASSUME Aligned, IndInv
  PROVE  /\ available_read \in 0 .. Cap
         /\ IndexOf(read_pos) \in Index
         /\ Contents \in Seq(Byte)
         /\ Len(Contents) = available_read
         /\ \A i \in 1..available_read :
               Contents[i] = buf[Around(IndexOf(read_pos), i - 1)]
<1>1. available_read \in 0 .. Cap
  BY EmptySeq, AcceptedFits DEF IndInv
<1>2. read_pos \in Position /\ buf \in [Index -> Byte]
  BY DEF IndInv, TypeOK, Position
<1>3. IndexOf(read_pos) \in Index
  BY <1>2, IndexInStore
<1>4. ASSUME NEW i \in 1..available_read
      PROVE  /\ IndexOf(WrappingAdd(read_pos, i - 1)) = Around(IndexOf(read_pos), i - 1)
             /\ buf[Around(IndexOf(read_pos), i - 1)] \in Byte
  <2>1. i - 1 \in 0 .. Cap
    BY <1>1, RingAssumption
  <2>2. IndexOf(WrappingAdd(read_pos, i - 1)) = Around(IndexOf(read_pos), i - 1)
    BY <1>2, <2>1, IndexAdd DEF Around
  <2>3. i - 1 < Cap
    BY <1>1, RingAssumption
  <2>4. Around(IndexOf(read_pos), i - 1) \in Index
    BY <1>3, <2>1, <2>3, RingAssumption DEF Around, Index
  <2>5. QED
    BY <1>2, <2>2, <2>4
<1>5. Contents = [i \in 1..available_read |-> buf[Around(IndexOf(read_pos), i - 1)]]
  BY <1>4 DEF Contents
<1>6. Contents \in Seq(Byte) /\ Len(Contents) = available_read
  BY <1>1, <1>4, <1>5
<1>7. QED
  BY <1>1, <1>3, <1>5, <1>6

\* The write index lies just behind the last unread byte.
LEMMA WriteIndex ==
  ASSUME Aligned, IndInv
  PROVE  IndexOf(write_pos) = Around(IndexOf(read_pos), available_read)
<1>1. available_read \in 0 .. Cap
  BY ContentsAt
<1>2. write_pos \in Position /\ read_pos \in Position
  BY DEF IndInv, TypeOK, Position
<1>3. available_read = IF write_pos >= read_pos THEN write_pos - read_pos
                                                ELSE write_pos - read_pos + Modulus
  BY <1>2, SubPosition DEF available_read
<1>4. WrappingAdd(read_pos, available_read) =
         IF read_pos + available_read < Modulus THEN read_pos + available_read
                                                ELSE read_pos + available_read - Modulus
  BY <1>1, <1>2, AddPosition
<1>5. write_pos = WrappingAdd(read_pos, available_read)
  BY <1>1, <1>2, <1>3, <1>4, RingAssumption DEF Position
<1>6. QED
  BY <1>1, <1>2, <1>5, IndexAdd DEF Around

\* A write lays what it accepts from the write index on, and leaves the rest of
\* the store as it is.
LEMMA WriteLays ==
  ASSUME IndInv, NEW data \in Seq(Byte), Write(data), NEW d \in 0 .. (Cap - 1)
  PROVE  buf'[Around(IndexOf(write_pos), d)] = IF d < Accepted(data)
                                               THEN data[d + 1]
                                               ELSE buf[Around(IndexOf(write_pos), d)]
<1> DEFINE k == Accepted(data)
           w == IndexOf(write_pos)
           f == Least(Cap - w, k)
           x == Around(w, d)
<1>1. k \in 0 .. Cap
  BY AcceptedFits DEF IndInv
<1>2. w \in 0 .. (Cap - 1)
  BY IndexInStore DEF IndInv, TypeOK, Position, Index
<1>3. buf' = [i \in Index |->
                IF i \in w .. (w + f - 1) THEN data[i - w + 1]
                ELSE IF i < k - f THEN data[f + i + 1] ELSE buf[i]]
  BY DEF Write
<1>4. f = IF Cap - w <= k THEN Cap - w ELSE k
  BY DEF Least
<1> HIDE DEF k, w, f
<1>5. x \in Index
  BY <1>2, RingAssumption DEF Around, Index
<1>6. x = IF w + d < Cap THEN w + d ELSE w + d - Cap
  BY DEF Around
<1> HIDE DEF x
<1>7. CASE x \in w .. (w + f - 1)
  <2>1. x - w + 1 = d + 1 /\ d < k
    BY <1>1, <1>2, <1>4, <1>6, <1>7, RingAssumption
  <2>2. QED
    BY <1>3, <1>5, <1>7, <2>1 DEF k, w, x
<1>8. CASE x \notin w .. (w + f - 1) /\ x < k - f
  <2>1. f + x + 1 = d + 1 /\ d < k
    BY <1>1, <1>2, <1>4, <1>6, <1>8, RingAssumption
  <2>2. QED
    BY <1>3, <1>5, <1>8, <2>1 DEF k, w, x
<1>9. CASE x \notin w .. (w + f - 1) /\ ~ (x < k - f)
  <2>1. ~ (d < k)
    BY <1>1, <1>2, <1>4, <1>6, <1>9, RingAssumption
  <2>2. QED
    BY <1>3, <1>5, <1>9, <2>1 DEF k, w, x
<1>10. QED
  BY <1>7, <1>8, <1>9

\* peek and peek_wrapped return the front of the unread bytes.
LEMMA PeeksAreFront ==
  ASSUME Aligned, IndInv
  PROVE  PeeksReadTheFront
<1> SUFFICES ASSUME NEW n \in 0..available_read
             PROVE  /\ PeekWrapped(n) = SubSeq(Contents, 1, n)
                    /\ Peekable(n) => Peek(n) = SubSeq(Contents, 1, n)
  BY DEF PeeksReadTheFront
<1> DEFINE r == IndexOf(read_pos)
<1>1. /\ n \in Nat
      /\ n <= Cap
      /\ n <= available_read
      /\ r \in 0 .. (Cap - 1)
  <2>1. available_read \in 0 .. Cap /\ r \in Index
    BY ContentsAt
  <2>2. QED
    BY <2>1, RingAssumption DEF Index
<1>2. \A i \in 1..n : Contents[i] = buf[Around(r, i - 1)]
  BY <1>1, ContentsAt
<1>3. SubSeq(Contents, 1, n) = [i \in 1..n |-> Contents[i]]
  BY <1>1, ContentsAt
<1> HIDE DEF r
<1>4. ASSUME Contiguous(n)
      PROVE  Peek(n) = SubSeq(Contents, 1, n)
  <2>1. \A i \in 1..n : Around(r, i - 1) = r + i - 1
    BY <1>1, <1>4, RingAssumption DEF Around, Contiguous, r
  <2>2. Peek(n) = [i \in 1..n |-> buf[r + i - 1]]
    BY DEF Peek, r
  <2>3. QED
    BY <1>2, <1>3, <2>1, <2>2
<1>5. ASSUME ~ Contiguous(n)
      PROVE  PeekWrapped(n) = SubSeq(Contents, 1, n)
  <2>1. \A i \in 1..n : Around(r, i - 1) = IF i <= Cap - r THEN r + i - 1
                                                           ELSE i - (Cap - r) - 1
    BY <1>1, RingAssumption DEF Around
  <2>2. PeekWrapped(n) = [i \in 1..n |-> IF i <= Cap - r THEN buf[r + i - 1]
                                         ELSE buf[i - (Cap - r) - 1]]
    BY <1>5 DEF PeekWrapped, r
  <2>3. QED
    BY <1>2, <1>3, <2>1, <2>2
<1>6. QED
  BY <1>4, <1>5 DEF PeekWrapped, Peekable

\* In a ring whose capacity divides the counter range, both peeks return
\* exactly the oldest unread bytes, for every capacity, position and length.
THEOREM PeeksCorrect == Aligned => (Spec => []PeeksReadTheFront)
<1> SUFFICES ASSUME Aligned PROVE Spec => []PeeksReadTheFront
  OBVIOUS
<1>1. IndInv => PeeksReadTheFront
  BY PeeksAreFront
<1>2. QED
  BY <1>1, IndInvInit, IndInvNext, PTL DEF Spec

\* What ContentsAt says, named so that it can also be stated of the next state.
Segment ==
  /\ available_read \in 0 .. Cap
  /\ Contents \in Seq(Byte)
  /\ Len(Contents) = available_read
  /\ \A i \in 1..available_read :
        Contents[i] = buf[Around(IndexOf(read_pos), i - 1)]

\* The invariant gives Segment in the current state.
LEMMA SegmentNow == Aligned /\ IndInv => Segment
BY ContentsAt DEF Segment

\* And in the next one.
LEMMA SegmentNext == Aligned => (IndInv' => Segment')
<1> SUFFICES ASSUME Aligned PROVE IndInv' => Segment'
  OBVIOUS
<1>1. IndInv => Segment
  BY SegmentNow
<1>2. QED
  BY <1>1, PTL

\* A write appends what it accepts.
LEMMA WriteEnqueues ==
  ASSUME Aligned, IndInv, IndInv', NEW data \in Seq(Byte), Write(data)
  PROVE  Contents' = Contents \o SubSeq(data, 1, Accepted(data))
<1> DEFINE k == Accepted(data)
           a == available_read
           r == IndexOf(read_pos)
           w == IndexOf(write_pos)
           f == Least(Cap - w, k)
           tail == SubSeq(data, 1, k)
<1>1. /\ k \in 0 .. Cap /\ k <= Len(data)
      /\ a \in 0 .. Cap /\ a + k <= Cap
  BY AcceptedFits DEF IndInv
<1>2. /\ r \in 0 .. (Cap - 1)
      /\ Contents \in Seq(Byte)
      /\ Len(Contents) = a
      /\ \A i \in 1..a : Contents[i] = buf[Around(r, i - 1)]
  BY ContentsAt DEF Index
<1>3. w = Around(r, a)
  BY WriteIndex
<1>4. available_read' = a + k /\ read_pos' = read_pos
  BY WriteGrows DEF IndInv, Write
<1>5. buf' = [i \in Index |->
                IF i \in w .. (w + f - 1) THEN data[i - w + 1]
                ELSE IF i < k - f THEN data[f + i + 1] ELSE buf[i]]
  BY DEF Write
<1>6. /\ Contents' \in Seq(Byte)
      /\ Len(Contents') = a + k
      /\ \A i \in 1 .. (a + k) : Contents'[i] = buf'[Around(r, i - 1)]
  BY <1>4, SegmentNext DEF Segment
<1>7. f = IF Cap - w <= k THEN Cap - w ELSE k
  BY DEF Least
<1>8. /\ tail \in Seq(Byte)
      /\ Len(tail) = k
      /\ \A i \in 1..k : tail[i] = data[i]
  BY <1>1, LenProperties
<1> HIDE DEF k, a, r, w, f, tail
<1>9. /\ Contents \o tail \in Seq(Byte)
      /\ Len(Contents \o tail) = a + k
      /\ \A i \in 1 .. (a + k) : (Contents \o tail)[i] = IF i <= a THEN Contents[i] ELSE tail[i - a]
  BY <1>2, <1>8, ConcatProperties
<1>10. ASSUME NEW i \in 1 .. a
       PROVE  buf'[Around(r, i - 1)] = buf[Around(r, i - 1)]
  <2>1. /\ Around(r, i - 1) \in Index
        /\ Around(r, i - 1) \notin w .. (w + f - 1)
        /\ ~ (Around(r, i - 1) < k - f)
    BY <1>1, <1>2, <1>3, <1>7, RingAssumption DEF Around, Index
  <2>2. QED
    BY <1>5, <2>1
<1>11. ASSUME NEW i \in (a + 1) .. (a + k)
       PROVE  buf'[Around(r, i - 1)] = data[i - a]
  <2> DEFINE x == Around(r, i - 1)
  <2>1. x \in Index
    BY <1>1, <1>2, RingAssumption DEF Around, Index
  <2>2. CASE x \in w .. (w + f - 1)
    <3>1. x - w + 1 = i - a
      BY <1>1, <1>2, <1>3, <1>7, <2>2, RingAssumption DEF Around
    <3>2. QED
      BY <1>5, <2>1, <2>2, <3>1
  <2>3. CASE x \notin w .. (w + f - 1)
    <3>1. x < k - f /\ f + x + 1 = i - a
      BY <1>1, <1>2, <1>3, <1>7, <2>3, RingAssumption DEF Around
    <3>2. QED
      BY <1>5, <2>1, <2>3, <3>1
  <2>4. QED
    BY <2>2, <2>3
<1>12. ASSUME NEW i \in 1 .. (a + k)
       PROVE  Contents'[i] = (Contents \o tail)[i]
  <2>1. CASE i <= a
    <3>1. i \in 1 .. a
      BY <1>1, <2>1
    <3>2. QED
      BY <1>2, <1>6, <1>9, <1>10, <2>1, <3>1
  <2>2. CASE ~ (i <= a)
    <3>1. i \in (a + 1) .. (a + k) /\ i - a \in 1 .. k
      BY <1>1, <2>2, RingAssumption
    <3>2. QED
      BY <1>6, <1>8, <1>9, <1>11, <2>2, <3>1
  <2>3. QED
    BY <2>1, <2>2
<1>13. Contents' = Contents \o tail
  BY <1>6, <1>9, <1>12, SeqEqual
<1>14. QED
  BY <1>13 DEF tail, k

\* A consume releases the oldest bytes.
LEMMA ConsumeDequeues ==
  ASSUME Aligned, IndInv, IndInv', NEW n \in 0 .. Cap, n <= available_read, Consume(n)
  PROVE  Contents' = SubSeq(Contents, n + 1, Len(Contents))
<1> DEFINE a == available_read
           r == IndexOf(read_pos)
<1>1. /\ a \in 0 .. Cap
      /\ n \in 0 .. a
      /\ r \in 0 .. (Cap - 1)
      /\ Contents \in Seq(Byte)
      /\ Len(Contents) = a
      /\ \A i \in 1..a : Contents[i] = buf[Around(r, i - 1)]
  <2>1. a \in 0 .. Cap
    BY ContentsAt
  <2>2. n \in 0 .. a
    BY <2>1, RingAssumption
  <2>3. QED
    BY <2>1, <2>2, ContentsAt DEF Index
<1>2. available_read' = a - n /\ buf' = buf
  BY ConsumeShrinks DEF IndInv, Consume
<1>3. IndexOf(read_pos') = Around(r, n)
  BY IndexAdd DEF IndInv, TypeOK, Position, Consume, Around
<1>4. /\ Contents' \in Seq(Byte)
      /\ Len(Contents') = a - n
      /\ \A i \in 1 .. (a - n) : Contents'[i] = buf[Around(Around(r, n), i - 1)]
  BY <1>2, <1>3, SegmentNext DEF Segment
<1> HIDE DEF a, r
<1>5. /\ SubSeq(Contents, n + 1, a) \in Seq(Byte)
      /\ Len(SubSeq(Contents, n + 1, a)) = a - n
      /\ \A i \in 1 .. (a - n) : SubSeq(Contents, n + 1, a)[i] = Contents[n + i]
  <2>1. \A i \in (n + 1) .. a : Contents[i] \in Byte
    BY <1>1, ElementOfSeq, RingAssumption
  <2>2. n + 1 \in Int /\ a \in Int
    BY <1>1, RingAssumption
  <2>3. /\ SubSeq(Contents, n + 1, a) \in Seq(Byte)
        /\ Len(SubSeq(Contents, n + 1, a)) = IF n + 1 <= a THEN a - (n + 1) + 1 ELSE 0
        /\ \A i \in 1 .. (a - (n + 1) + 1) : SubSeq(Contents, n + 1, a)[i] = Contents[(n + 1) + i - 1]
    BY <2>1, <2>2, SubSeqProperties
  <2>4. a \in Nat /\ n \in Nat /\ n <= a
    BY <1>1, RingAssumption
  <2>5. /\ a - (n + 1) + 1 = a - n
        /\ (IF n + 1 <= a THEN a - (n + 1) + 1 ELSE 0) = a - n
    BY <2>4
  <2>6. \A i \in 1 .. (a - n) : (n + 1) + i - 1 = n + i
    BY <2>4
  <2>7. QED
    BY <2>3, <2>5, <2>6
<1>6. ASSUME NEW i \in 1 .. (a - n)
      PROVE  Contents'[i] = SubSeq(Contents, n + 1, a)[i]
  <2>1. n + i \in 1..a
    BY <1>1, RingAssumption
  <2>2. Around(Around(r, n), i - 1) = Around(r, (n + i) - 1)
    BY <1>1, <2>1, RingAssumption DEF Around
  <2>3. Contents'[i] = buf[Around(r, (n + i) - 1)]
    BY <1>4, <2>2
  <2>4. Contents[n + i] = buf[Around(r, (n + i) - 1)]
    BY <1>1, <2>1
  <2>5. SubSeq(Contents, n + 1, a)[i] = Contents[n + i]
    BY <1>5
  <2>6. QED
    BY <2>3, <2>4, <2>5
<1>7. Contents' = SubSeq(Contents, n + 1, a)
  BY <1>4, <1>5, <1>6, SeqEqual
<1>8. QED
  BY <1>1, <1>7

\* The ring implements the bounded FIFO of ByteQueue: every write appends the
\* longest prefix that fits and every consume drops from the front, whatever
\* the counters' values when they wrap.
THEOREM ImplementsFIFO == Aligned => (Spec => ImplementsByteQueue)
<1> SUFFICES ASSUME Aligned PROVE Spec => ImplementsByteQueue
  OBVIOUS
<1>1. Init => Queue!Init
  <2> SUFFICES ASSUME Init PROVE Contents = << >>
    BY DEF Queue!Init
  <2>1. Contents \in Seq(Byte) /\ Len(Contents) = available_read
    BY IndInvInit, ContentsAt
  <2>2. 0 \in Position
    BY RingAssumption DEF Position
  <2>3. available_read = 0
    BY <2>2, SubPosition DEF Init, available_read
  <2>4. QED
    BY <2>1, <2>3, EmptySeq
<1>2. IndInv /\ IndInv' /\ [Next]_vars => [Queue!Next]_Contents
  <2> SUFFICES ASSUME IndInv, IndInv', [Next]_vars PROVE [Queue!Next]_Contents
    OBVIOUS
  <2>1. Len(Contents) = available_read /\ available_read \in 0 .. Cap
    BY ContentsAt
  <2>2. ASSUME NEW data \in Chunks, Write(data)
        PROVE  Queue!Next
    <3>1. data \in Seq(Byte)
      BY RingAssumption
    <3>2. Contents' = Contents \o SubSeq(data, 1, Accepted(data))
      BY <2>2, <3>1, WriteEnqueues
    <3>3. Accepted(data) = Queue!Accepted(data)
      BY <2>1 DEF Accepted, Queue!Accepted, Least, available_write
    <3>4. Queue!Enqueue(data)
      BY <3>2, <3>3 DEF Queue!Enqueue
    <3>5. QED
      BY <3>4 DEF Queue!Next
  <2>3. ASSUME NEW n \in 0..Cap, n <= available_read, Consume(n)
        PROVE  Queue!Next
    <3>1. Contents' = SubSeq(Contents, n + 1, Len(Contents))
      BY <2>3, ConsumeDequeues
    <3>2. Queue!Dequeue(n)
      BY <2>1, <2>3, <3>1 DEF Queue!Dequeue
    <3>3. QED
      BY <3>2 DEF Queue!Next
  <2>4. CASE UNCHANGED vars
    BY <2>4 DEF vars, Contents, available_read
  <2>5. QED
    BY <2>2, <2>3, <2>4 DEF Next
<1>3. QED
  BY <1>1, <1>2, IndInvInit, IndInvNext, PTL DEF Spec, ImplementsByteQueue, Queue!Spec
=============================================================================

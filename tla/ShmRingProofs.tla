--------------------------- MODULE ShmRingProofs ---------------------------
(***************************************************************************)
(* Proofs about ShmRing, for every number of slots, every frame size and   *)
(* any number of frames and restarts.                                      *)
(*                                                                         *)
(* What a slot holds is known from the moment a store to it is done until  *)
(* the producer begins the frame Slots after it: two frames less than      *)
(* Slots apart have different slots, so no store of the one touches the    *)
(* other.  Of a published frame all stores are done.  From that follows    *)
(* what a reader has copied so far.                                        *)
(***************************************************************************)
EXTENDS ShmRing, SequenceTheorems, TLAPS

\* The counter is at most as far behind the producer's own as stores can be
\* ahead of it, and the producer's own counts the frames of this run.
Counters ==
  /\ seq <= next_seq
  /\ next_seq <= seq + Ahead + 1
  /\ base + next_seq = Len(sent)
  /\ mark <= base

\* The stores of a frame that are done.
Stored(s) ==
  /\ <<s, 0>> \notin todo => slot_len[SlotOf(s)] = LengthOf(s)
  /\ \A w \in 1..LengthOf(s) : <<s, w>> \notin todo => slot_data[SlotOf(s)][w] = Number(s)

\* Frame s of this run is not being written over.
Kept(s) == next_seq <= s + Slots

SlotsHold == \A s \in 0 .. (next_seq - 1) : Kept(s) => Stored(s)

\* The words loaded so far by a reader that was not lapped.
ReadSoFar ==
  /\ cpc = "copy" => left \subseteq 1..len
  /\ cpc \in {"len", "copy"} /\ ~ Lapped =>
       /\ consumer_seq < seq
       /\ \A w \in 1..sent[mark + consumer_seq + 1] :
            w \notin left => got[w] = mark + consumer_seq + 1
  /\ cpc = "copy" /\ ~ Lapped => len = sent[mark + consumer_seq + 1]

TypeInv == TypeOK /\ Counters

IndInv == TypeInv /\ SlotsHold /\ ReadSoFar /\ WholeUnlessLapped

-----------------------------------------------------------------------------
(* Types and counters *)

\* The remainder lies below the divisor, and with the quotient it gives the
\* dividend back.
LEMMA ModBounds ==
  ASSUME NEW m \in Nat \ {0}, NEW p \in Int
  PROVE  /\ (p % m) \in 0 .. (m - 1)
         /\ (p \div m) \in Int
         /\ p = m * (p \div m) + (p % m)
<1>1. (p % m) \in 0 .. (m - 1)
  OBVIOUS
<1>2. (p \div m) \in Int /\ p = m * (p \div m) + (p % m)
  OBVIOUS
<1>3. QED
  BY <1>1, <1>2

\* Two numbers less than the divisor apart have different remainders: with the
\* same one their distance would be a multiple of the divisor.
LEMMA ModDistinct ==
  ASSUME NEW m \in Nat \ {0}, NEW p \in Int, NEW d \in 1 .. (m - 1)
  PROVE  (p + d) % m # p % m
<1> SUFFICES ASSUME (p + d) % m = p % m PROVE FALSE
  OBVIOUS
<1> DEFINE q == (p + d) \div m
           r == p \div m
<1>1. q \in Int /\ r \in Int /\ p % m \in Int
      /\ p + d = m * q + (p % m) /\ p = m * r + (p % m)
  <2>1. r \in Int /\ p % m \in Int /\ p = m * r + (p % m)
    BY ModBounds
  <2>2. p + d \in Int
    OBVIOUS
  <2>3. q \in Int /\ p + d = m * q + ((p + d) % m)
    BY <2>2, ModBounds
  <2>4. QED
    BY <2>1, <2>3
<1> HIDE DEF q, r
<1>2. d = m * (q - r)
  <2>1. m * (q - r) = m * q - m * r
    BY <1>1
  <2>2. m * q \in Int /\ m * r \in Int
    BY <1>1
  <2>3. d = m * q - m * r
    BY <1>1, <2>2
  <2>4. QED
    BY <2>1, <2>3
<1>3. CASE q - r >= 1
  <2>1. m * (q - r) >= m
    BY <1>1, <1>3
  <2>2. QED
    BY <1>2, <2>1
<1>4. CASE q - r <= 0
  <2>1. m * (q - r) <= 0
    BY <1>1, <1>4
  <2>2. QED
    BY <1>2, <2>1
<1>5. QED
  BY <1>1, <1>3, <1>4

\* Every sequence number has a slot.
LEMMA SlotInRange ==
  ASSUME NEW s \in Nat
  PROVE  SlotOf(s) \in Slot
BY ModBounds, ShmAssumption DEF SlotOf, Slot

\* The lengths in the history fit a slot.
LEMMA SentLengths ==
  ASSUME sent \in Seq(0..MaxLen), NEW i \in 1 .. Len(sent)
  PROVE  sent[i] \in 0..MaxLen
BY ElementOfSeq

\* A frame under way is one of this run, with a length that fits a slot.
LEMMA UnderWayFacts ==
  ASSUME TypeInv, NEW s \in UnderWay
  PROVE  /\ s \in Nat /\ s \in 0 .. (next_seq - 1) /\ Kept(s)
         /\ Number(s) \in 1 .. Len(sent) /\ LengthOf(s) \in 0..MaxLen
         /\ SlotOf(s) \in Slot
<1>1. /\ seq \in Nat /\ next_seq \in Nat /\ base \in Nat /\ Len(sent) \in Nat
      /\ base + next_seq = Len(sent) /\ next_seq <= seq + Ahead + 1
      /\ Slots \in Nat /\ Ahead \in Nat /\ Ahead + 1 <= Slots
  BY ShmAssumption DEF TypeInv, TypeOK, Counters
<1>2. s \in Nat /\ s \in 0 .. (next_seq - 1) /\ seq <= s
  BY <1>1 DEF UnderWay
<1>3. Number(s) \in 1 .. Len(sent)
  BY <1>1, <1>2 DEF Number
<1>4. LengthOf(s) \in 0..MaxLen
  BY <1>3, SentLengths DEF LengthOf, TypeInv, TypeOK
<1>5. SlotOf(s) \in Slot
  BY <1>2, SlotInRange
<1>6. QED
  BY <1>1, <1>2, <1>3, <1>4, <1>5 DEF Kept

\* Every step of the producer keeps the types and the counters: the counter
\* follows the producer's own, and no store of a published frame is to come.
LEMMA ProducerTypes ==
  ASSUME TypeInv,
         (\E l \in Lengths : Begin(l)) \/ Produce \/ (\E s \in UnderWay : StoreHalfLength(s))
           \/ Truncate \/ SetLen
  PROVE  TypeInv'
<1> USE ShmAssumption DEF TypeInv
<1>0. seq \in Nat /\ next_seq \in Nat /\ base \in Nat /\ Len(sent) \in Nat /\ Ahead \in Nat
  BY DEF TypeOK
<1>1. ASSUME NEW l \in Lengths, Begin(l) PROVE TypeInv'
  <2>1. l \in 0..MaxLen /\ UNCHANGED <<file, base, consumer>> /\ next_seq' = next_seq + 1
        /\ next_seq - seq <= Ahead /\ todo' = todo \cup ({next_seq} \X (0..l))
    BY <1>1 DEF Begin
  <2>2. sent' \in Seq(0..MaxLen) /\ Len(sent') = Len(sent) + 1
    BY <1>1, <2>1 DEF Begin, TypeOK
  <2>3. todo' \subseteq UnderWay' \X (0..MaxLen)
    <3>1. UnderWay \subseteq UnderWay' /\ next_seq \in UnderWay'
      BY <1>0, <2>1 DEF UnderWay, file, Counters
    <3>2. 0..l \subseteq 0..MaxLen
      BY <2>1
    <3>3. {next_seq} \X (0..l) \subseteq UnderWay' \X (0..MaxLen)
      BY <3>1, <3>2
    <3>4. todo \subseteq UnderWay' \X (0..MaxLen)
      BY <3>1 DEF TypeOK
    <3>5. QED
      BY <2>1, <3>3, <3>4
  <2>4. TypeOK'
    BY <1>0, <2>1, <2>2, <2>3 DEF TypeOK, file, consumer
  <2>5. Counters'
    BY <1>0, <2>1, <2>2 DEF Counters, file, consumer
  <2>6. QED
    BY <2>4, <2>5
<1>2. ASSUME NEW s \in UnderWay, StoreLength(s) PROVE TypeInv'
  <2>1. SlotOf(s) \in Slot /\ LengthOf(s) \in Nat
    BY UnderWayFacts
  <2>2. slot_len' \in [Slot -> Nat]
    BY <1>2, <2>1 DEF StoreLength, TypeOK
  <2>3. UNCHANGED <<sized, seq, slot_data, next_seq, sent, base, consumer>> /\ todo' \subseteq todo
    BY <1>2 DEF StoreLength
  <2>4. TypeOK'
    BY <2>2, <2>3 DEF TypeOK, consumer, UnderWay
  <2>5. QED
    BY <2>3, <2>4 DEF Counters, consumer
<1>3. ASSUME NEW s \in UnderWay, NEW w \in Word, StoreWord(s, w) PROVE TypeInv'
  <2>1. SlotOf(s) \in Slot /\ Number(s) \in Nat
    BY UnderWayFacts
  <2>2. slot_data' \in [Slot -> [Word -> Nat]]
    BY <1>3, <2>1 DEF StoreWord, TypeOK
  <2>3. UNCHANGED <<sized, seq, slot_len, next_seq, sent, base, consumer>> /\ todo' \subseteq todo
    BY <1>3 DEF StoreWord
  <2>4. TypeOK'
    BY <2>2, <2>3 DEF TypeOK, consumer, UnderWay
  <2>5. QED
    BY <2>3, <2>4 DEF Counters, consumer
<1>4. CASE Publish
  <2>1. seq' = seq + 1 /\ seq < next_seq /\ UNCHANGED <<sized, slot_len, slot_data, producer, consumer>>
        /\ \A store \in todo : store[1] # seq
    BY <1>4 DEF Publish
  <2>2. todo' \subseteq UnderWay' \X (0..MaxLen)
    <3> SUFFICES ASSUME NEW store \in todo PROVE store \in UnderWay' \X (0..MaxLen)
      BY <2>1 DEF producer
    <3>1. store \in UnderWay \X (0..MaxLen) /\ store[1] # seq
      BY <2>1 DEF TypeOK
    <3>2. store[1] \in UnderWay'
      BY <1>0, <2>1, <3>1 DEF UnderWay, producer
    <3>3. QED
      BY <3>1, <3>2
  <2>3. TypeOK'
    BY <1>0, <2>1, <2>2 DEF TypeOK, producer, consumer
  <2>4. Counters'
    BY <1>0, <2>1 DEF Counters, producer, consumer
  <2>5. QED
    BY <2>3, <2>4
<1>5. ASSUME NEW s \in UnderWay, StoreHalfLength(s) PROVE TypeInv'
  <2>1. slot_len' \in [Slot -> Nat]
    BY <1>5 DEF StoreHalfLength, TypeOK
  <2>2. UNCHANGED <<sized, seq, slot_data, producer, consumer>>
    BY <1>5 DEF StoreHalfLength
  <2>3. TypeOK'
    BY <2>1, <2>2 DEF TypeOK, producer, consumer, UnderWay
  <2>4. QED
    BY <2>2, <2>3 DEF Counters, producer, consumer
<1>6. CASE Truncate
  <2>1. Zeroed \in [Word -> Nat]
    BY DEF Zeroed
  <2>2. slot_len' \in [Slot -> Nat] /\ slot_data' \in [Slot -> [Word -> Nat]]
    BY <1>6, <2>1 DEF Truncate
  <2>3. sized' \in BOOLEAN /\ seq' = 0 /\ next_seq' = 0 /\ todo' = {} /\ base' = Len(sent)
        /\ UNCHANGED <<sent, consumer>>
    BY <1>6 DEF Truncate
  <2>4. TypeOK'
    BY <1>0, <2>2, <2>3 DEF TypeOK, consumer
  <2>5. Counters'
    BY <1>0, <2>3 DEF Counters, consumer, TypeOK
  <2>6. QED
    BY <2>4, <2>5
<1>7. CASE SetLen
  <2>1. TypeOK'
    BY <1>7 DEF SetLen, TypeOK, producer, consumer, UnderWay
  <2>2. Counters'
    BY <1>7 DEF SetLen, Counters, producer, consumer
  <2>3. QED
    BY <2>1, <2>2
<1>8. QED
  BY <1>1, <1>2, <1>3, <1>4, <1>5, <1>6, <1>7 DEF Produce

\* So does every step of the consumer: a length too large for a slot is
\* refused before it is used.
LEMMA ConsumerTypes ==
  ASSUME TypeInv, Open \/ BusError \/ Consume
  PROVE  TypeInv'
<1> USE ShmAssumption DEF TypeInv
<1>0. Zeroed \in [Word -> Nat] /\ 0 \in 0..MaxLen
  BY DEF Zeroed
<1>00. NoOut \in [due : Nat, len : 0..MaxLen, data : [Word -> Nat],
                  skipped : Nat, lapped : BOOLEAN]
  BY <1>0 DEF NoOut
<1>1. CASE Open
  <2>1. TypeOK'
    BY <1>0, <1>00, <1>1 DEF Open, TypeOK, file, producer, UnderWay
  <2>2. Counters'
    BY <1>1 DEF Open, Counters, TypeOK, file, producer, UnderWay
  <2>3. QED
    BY <2>1, <2>2
<1>2. CASE BusError
  BY <1>2 DEF BusError, TypeOK, Counters, file, producer, UnderWay
<1>3. CASE PollEmpty
  <2>1. TypeOK'
    BY <1>00, <1>3 DEF PollEmpty, TypeOK, file, producer, UnderWay
  <2>2. Counters'
    BY <1>3 DEF PollEmpty, Counters, file, producer
  <2>3. QED
    BY <2>1, <2>2
<1>4. CASE PollOverrun
  <2>1. seq - Slots \in Nat /\ seq - consumer_seq - Slots \in Nat
    BY <1>4 DEF PollOverrun, TypeOK
  <2>2. out' \in [due : Nat, len : 0..MaxLen, data : [Word -> Nat],
                  skipped : Nat, lapped : BOOLEAN]
    BY <1>0, <1>4, <2>1 DEF PollOverrun, NoOut
  <2>3. TypeOK'
    BY <1>4, <2>1, <2>2 DEF PollOverrun, TypeOK, file, producer, UnderWay
  <2>4. /\ UNCHANGED <<sized, seq, next_seq, todo, sent, base, cpc, len, left>>
        /\ mark' = base /\ base \in Nat
    BY <1>4 DEF PollOverrun, TypeOK, file, producer, UnderWay
  <2>5. Counters'
    BY <2>4 DEF Counters
  <2>6. QED
    BY <2>3, <2>5
<1>5. CASE PollReady
  BY <1>5 DEF PollReady, TypeOK, Counters, file, producer, UnderWay
<1>6. CASE ReadLen
  <2>1. SlotOf(consumer_seq) \in Slot
    BY SlotInRange DEF TypeOK
  <2>2. slot_len[SlotOf(consumer_seq)] \in Nat
    BY <2>1 DEF TypeOK
  <2>3. len' \in 0..MaxLen /\ left' \subseteq Word /\ got' \in [Word -> Nat]
    <3>1. CASE slot_len[SlotOf(consumer_seq)] > MaxLen
      BY <1>0, <1>6, <3>1 DEF ReadLen, TypeOK
    <3>2. CASE ~ (slot_len[SlotOf(consumer_seq)] > MaxLen)
      <4>1. len' \in 0..MaxLen /\ left' \subseteq left
            /\ got' = [w \in Word |-> IF w <= len' THEN got[w] ELSE 0]
        BY <1>6, <2>2, <3>2 DEF ReadLen
      <4>2. got' \in [Word -> Nat]
        BY <4>1 DEF TypeOK
      <4>3. QED
        BY <4>1, <4>2 DEF TypeOK
    <3>3. QED
      BY <3>1, <3>2
  <2>4. cpc' \in {"idle", "len", "copy", "killed"}
        /\ result' \in {"none", "empty", "overrun", "corrupt", "frame"}
    BY <1>6 DEF ReadLen, TypeOK
  <2>5. out' \in [due : Nat, len : 0..MaxLen, data : [Word -> Nat],
                  skipped : Nat, lapped : BOOLEAN]
    BY <1>00, <1>6 DEF ReadLen, TypeOK
  <2>6. UNCHANGED <<file, producer, consumer_seq, mark>>
    BY <1>6 DEF ReadLen
  <2>7. TypeOK'
    BY <2>3, <2>4, <2>5, <2>6 DEF TypeOK, file, producer, UnderWay
  <2>8. Counters'
    BY <2>6 DEF Counters, file, producer
  <2>9. QED
    BY <2>7, <2>8
<1>7. ASSUME NEW w \in Word, ReadWord(w) PROVE TypeInv'
  <2>1. SlotOf(consumer_seq) \in Slot
    BY SlotInRange DEF TypeOK
  <2>2. slot_data[SlotOf(consumer_seq)][w] \in Nat
    BY <2>1 DEF TypeOK
  <2>3. got' \in [Word -> Nat]
    BY <1>7, <2>2 DEF ReadWord, TypeOK
  <2>4. TypeOK'
    BY <1>7, <2>3 DEF ReadWord, TypeOK, file, producer, UnderWay
  <2>5. Counters'
    BY <1>7 DEF ReadWord, Counters, file, producer
  <2>6. QED
    BY <2>4, <2>5
<1>8. CASE Return
  <2>1. Lapped \in BOOLEAN
    BY DEF Lapped
  <2>2. out' \in [due : Nat, len : 0..MaxLen, data : [Word -> Nat],
                  skipped : Nat, lapped : BOOLEAN]
    BY <1>8, <2>1 DEF Return, TypeOK
  <2>3. TypeOK'
    BY <1>0, <1>8, <2>2 DEF Return, TypeOK, file, producer, UnderWay
  <2>4. Counters'
    BY <1>8 DEF Return, Counters, file, producer
  <2>5. QED
    BY <2>3, <2>4
<1>9. QED
  BY <1>1, <1>2, <1>3, <1>4, <1>5, <1>6, <1>7, <1>8 DEF Consume

\* A step that changes nothing.
LEMMA StutterTypes ==
  ASSUME TypeInv, UNCHANGED vars
  PROVE  TypeInv'
BY DEF TypeInv, TypeOK, Counters, vars, file, producer, consumer, UnderWay

\* The types hold of a new file and a reader just opened.
LEMMA InitTypes ==
  ASSUME Init
  PROVE  TypeInv
<1> USE ShmAssumption
<1>1. Zeroed \in [Word -> Nat] /\ 0 \in 0..MaxLen
  BY DEF Zeroed
<1>2. NoOut \in [due : Nat, len : 0..MaxLen, data : [Word -> Nat],
                 skipped : Nat, lapped : BOOLEAN]
  BY <1>1 DEF NoOut
<1>3. TypeOK
  BY <1>1, <1>2 DEF Init, TypeOK
<1>4. Counters
  BY DEF Init, Counters
<1>5. QED
  BY <1>3, <1>4 DEF TypeInv

\* Every variable keeps the shape the code gives it, through restarts of
\* either process and whatever a half-written length reads as.
THEOREM TypeCorrect == Spec => []TypeOK
<1>1. Init => TypeInv
  BY InitTypes
<1>2. TypeInv /\ [Next]_vars => TypeInv'
  BY ProducerTypes, ConsumerTypes, StutterTypes DEF Next
<1>3. TypeInv => TypeOK
  BY DEF TypeInv
<1>4. QED
  BY <1>1, <1>2, <1>3, PTL DEF Spec

-----------------------------------------------------------------------------
(* What the slots hold *)

\* Two sequence numbers less than Slots apart have different slots.
LEMMA SlotsApart ==
  ASSUME NEW s \in Nat, NEW t \in Nat, s < t, t < s + Slots
  PROVE  SlotOf(s) # SlotOf(t)
<1>1. Slots \in Nat \ {0} /\ s \in Int /\ t - s \in 1 .. (Slots - 1) /\ s + (t - s) = t
  BY ShmAssumption
<1>2. (s + (t - s)) % Slots # s % Slots
  BY <1>1, ModDistinct
<1>3. QED
  BY <1>1, <1>2 DEF SlotOf

\* A frame of this run that is kept has its length in the history, and no other
\* frame the producer stores to has its slot.
LEMMA KeptFacts ==
  ASSUME TypeInv, NEW s \in 0 .. (next_seq - 1), Kept(s)
  PROVE  /\ s \in Nat /\ Number(s) \in 1 .. Len(sent) /\ LengthOf(s) \in 0..MaxLen
         /\ SlotOf(s) \in Slot
         /\ \A t \in UnderWay : t # s => SlotOf(t) # SlotOf(s)
<1>1. /\ seq \in Nat /\ next_seq \in Nat /\ base \in Nat /\ Len(sent) \in Nat
      /\ base + next_seq = Len(sent) /\ Slots \in Nat
  BY ShmAssumption DEF TypeInv, TypeOK, Counters
<1>2. s \in Nat /\ Number(s) \in 1 .. Len(sent)
  BY <1>1 DEF Number
<1>3. LengthOf(s) \in 0..MaxLen
  BY <1>2, SentLengths DEF LengthOf, TypeInv, TypeOK
<1>4. ASSUME NEW t \in UnderWay, t # s PROVE SlotOf(t) # SlotOf(s)
  <2>1. t \in Nat /\ t < next_seq /\ next_seq <= t + Slots
    BY <1>1, UnderWayFacts DEF Kept
  <2>2. CASE s < t
    BY <1>1, <1>2, <2>1, <2>2, SlotsApart DEF Kept
  <2>3. CASE t < s
    BY <1>1, <1>2, <2>1, <2>3, SlotsApart
  <2>4. QED
    BY <1>2, <1>4, <2>1, <2>2, <2>3
<1>5. QED
  BY <1>2, <1>3, <1>4, SlotInRange

\* Every step of the producer leaves what the slots hold: a store puts there
\* what it should, and goes to a slot no other kept frame has.
LEMMA ProducerKeepsSlots ==
  ASSUME TypeInv, TypeInv', SlotsHold,
         (\E l \in Lengths : Begin(l)) \/ Produce \/ (\E s \in UnderWay : StoreHalfLength(s))
           \/ Truncate \/ SetLen
  PROVE  SlotsHold'
<1>0. Len(sent) \in Nat /\ base \in Nat /\ next_seq \in Nat /\ base + next_seq = Len(sent)
      /\ Slots \in Nat /\ slot_len \in [Slot -> Nat] /\ slot_data \in [Slot -> [Word -> Nat]]
  <2>1. Slots \in Nat
    BY ShmAssumption
  <2>2. base + next_seq = Len(sent)
    BY DEF TypeInv, Counters
  <2>3. QED
    BY <2>1, <2>2 DEF TypeInv, TypeOK
<1>1. ASSUME NEW l \in Lengths, Begin(l) PROVE SlotsHold'
  <2>1. /\ sent' = Append(sent, l) /\ next_seq' = next_seq + 1
        /\ todo' = todo \cup ({next_seq} \X (0..l))
        /\ UNCHANGED <<slot_len, slot_data, base>>
    BY <1>1 DEF Begin, file
  <2>2. /\ sent'[Len(sent) + 1] = l /\ l \in 0..MaxLen
        /\ \A i \in 1 .. Len(sent) : sent'[i] = sent[i]
    BY <2>1, ShmAssumption DEF TypeInv, TypeOK
  <2>3. ASSUME NEW s \in 0 .. (next_seq' - 1), Kept(s)' PROVE Stored(s)'
    <3>1. CASE s = next_seq
      <4>1. LengthOf(s)' = l
        BY <1>0, <2>1, <2>2, <3>1 DEF LengthOf, Number
      <4>2. \A w \in 0..l : <<s, w>> \in todo'
        BY <2>1, <3>1
      <4>3. <<s, 0>> \in todo'
        BY <2>2, <4>2
      <4>4. \A w \in 1..l : <<s, w>> \in todo'
        BY <2>2, <4>2
      <4>5. QED
        BY <4>1, <4>3, <4>4 DEF Stored
    <3>2. CASE s # next_seq
      <4>1. s \in 0 .. (next_seq - 1) /\ Kept(s)
        BY <1>0, <2>1, <2>3, <3>2 DEF Kept
      <4>2. Stored(s) /\ Number(s) \in 1 .. Len(sent)
        BY <4>1, KeptFacts DEF SlotsHold
      <4>3. Number(s)' = Number(s) /\ LengthOf(s)' = LengthOf(s)
        BY <2>1, <2>2, <4>2 DEF Number, LengthOf
      <4>4. \A w : <<s, w>> \notin todo' => <<s, w>> \notin todo
        BY <2>1
      <4>5. QED
        BY <2>1, <4>2, <4>3, <4>4 DEF Stored
    <3>3. QED
      BY <3>1, <3>2
  <2>4. QED
    BY <2>3 DEF SlotsHold
<1>2. ASSUME NEW t \in UnderWay, StoreLength(t) PROVE SlotsHold'
  <2>1. /\ slot_len' = [slot_len EXCEPT ![SlotOf(t)] = LengthOf(t)]
        /\ todo' = todo \ {<<t, 0>>} /\ UNCHANGED <<slot_data, next_seq, sent, base>>
    BY <1>2 DEF StoreLength
  <2>2. ASSUME NEW s \in 0 .. (next_seq' - 1), Kept(s)' PROVE Stored(s)'
    <3>1. s \in 0 .. (next_seq - 1) /\ Kept(s) /\ UNCHANGED <<LengthOf(s), Number(s)>>
      BY <2>1, <2>2 DEF Kept, LengthOf, Number
    <3>2. Stored(s) /\ SlotOf(s) \in Slot /\ LengthOf(s) \in 0..MaxLen
      BY <3>1, KeptFacts DEF SlotsHold
    <3>3. \A w \in 1..LengthOf(s) : <<s, w>> \notin todo' => <<s, w>> \notin todo
      <4>1. ASSUME NEW w \in 1..LengthOf(s) PROVE <<s, w>> # <<t, 0>>
        BY <3>2
      <4>2. QED
        BY <2>1, <4>1
    <3>4. CASE s = t
      <4>1. slot_len'[SlotOf(s)] = LengthOf(s)
        BY <1>0, <2>1, <3>2, <3>4
      <4>2. QED
        BY <2>1, <3>1, <3>2, <3>3, <4>1 DEF Stored
    <3>5. CASE s # t
      <4>1. slot_len'[SlotOf(s)] = slot_len[SlotOf(s)]
        BY <1>0, <2>1, <3>1, <3>2, <3>5, KeptFacts
      <4>2. <<s, 0>> \notin todo' => <<s, 0>> \notin todo
        BY <2>1, <3>5
      <4>3. QED
        BY <2>1, <3>1, <3>2, <3>3, <4>1, <4>2 DEF Stored
    <3>6. QED
      BY <3>4, <3>5
  <2>3. QED
    BY <2>2 DEF SlotsHold
<1>3. ASSUME NEW t \in UnderWay, NEW v \in Word, StoreWord(t, v) PROVE SlotsHold'
  <2>1. /\ slot_data' = [slot_data EXCEPT ![SlotOf(t)][v] = Number(t)]
        /\ todo' = todo \ {<<t, v>>} /\ UNCHANGED <<slot_len, next_seq, sent, base>>
    BY <1>3 DEF StoreWord
  <2>2. ASSUME NEW s \in 0 .. (next_seq' - 1), Kept(s)' PROVE Stored(s)'
    <3>1. s \in 0 .. (next_seq - 1) /\ Kept(s) /\ UNCHANGED <<LengthOf(s), Number(s)>>
      BY <2>1, <2>2 DEF Kept, LengthOf, Number
    <3>2. Stored(s) /\ SlotOf(s) \in Slot /\ LengthOf(s) \in 0..MaxLen
      BY <3>1, KeptFacts DEF SlotsHold
    <3>3. <<s, 0>> \notin todo' => <<s, 0>> \notin todo
      <4>1. <<s, 0>> # <<t, v>>
        BY DEF Word
      <4>2. QED
        BY <2>1, <4>1
    <3>4. ASSUME NEW w \in 1..LengthOf(s), <<s, w>> \notin todo'
          PROVE  slot_data'[SlotOf(s)][w] = Number(s)
      <4>1. w \in Word /\ slot_data[SlotOf(s)] \in [Word -> Nat]
        BY <1>0, <3>2, ShmAssumption DEF Word
      <4>2. CASE s = t /\ w = v
        BY <1>0, <2>1, <3>2, <4>1, <4>2
      <4>3. CASE ~ (s = t /\ w = v)
        <5>1. <<s, w>> \notin todo
          BY <2>1, <3>4, <4>3
        <5>2. slot_data[SlotOf(s)][w] = Number(s)
          BY <3>2, <5>1 DEF Stored
        <5>3. CASE s = t
          BY <1>0, <2>1, <3>2, <4>1, <4>3, <5>2, <5>3
        <5>4. CASE s # t
          BY <1>0, <2>1, <3>1, <3>2, <5>2, <5>4, KeptFacts
        <5>5. QED
          BY <5>3, <5>4
      <4>4. QED
        BY <4>2, <4>3
    <3>5. QED
      BY <2>1, <3>1, <3>2, <3>3, <3>4 DEF Stored
  <2>3. QED
    BY <2>2 DEF SlotsHold
<1>4. CASE Publish \/ SetLen
  <2>1. UNCHANGED <<slot_len, slot_data, next_seq, todo, sent, base>>
    BY <1>4 DEF Publish, SetLen, producer
  <2>2. QED
    BY <2>1 DEF SlotsHold, Kept, Stored, LengthOf, Number
<1>5. ASSUME NEW t \in UnderWay, StoreHalfLength(t) PROVE SlotsHold'
  <2>1. <<t, 0>> \in todo /\ UNCHANGED <<slot_data, next_seq, todo, sent, base>>
        /\ \E n \in TornLens : slot_len' = [slot_len EXCEPT ![SlotOf(t)] = n]
    BY <1>5 DEF StoreHalfLength, producer
  <2>2. ASSUME NEW s \in 0 .. (next_seq' - 1), Kept(s)' PROVE Stored(s)'
    <3>1. s \in 0 .. (next_seq - 1) /\ Kept(s) /\ UNCHANGED <<LengthOf(s), Number(s)>>
      BY <2>1, <2>2 DEF Kept, LengthOf, Number
    <3>2. Stored(s) /\ SlotOf(s) \in Slot
      BY <3>1, KeptFacts DEF SlotsHold
    <3>3. s # t => slot_len'[SlotOf(s)] = slot_len[SlotOf(s)]
      BY <1>0, <2>1, <3>1, <3>2, KeptFacts
    <3>4. QED
      BY <2>1, <3>1, <3>2, <3>3 DEF Stored
  <2>3. QED
    BY <2>2 DEF SlotsHold
<1>6. CASE Truncate
  <2>1. next_seq' = 0
    BY <1>6 DEF Truncate
  <2>2. QED
    BY <2>1 DEF SlotsHold
<1>7. QED
  BY <1>1, <1>2, <1>3, <1>4, <1>5, <1>6 DEF Produce

-----------------------------------------------------------------------------
(* What the reader has *)

\* The history only grows.
LEMMA ProducerSent ==
  ASSUME TypeInv,
         (\E l \in Lengths : Begin(l)) \/ Produce \/ (\E s \in UnderWay : StoreHalfLength(s))
           \/ Truncate \/ SetLen
  PROVE  /\ Len(sent') >= Len(sent)
         /\ \A i \in 1 .. Len(sent) : sent'[i] = sent[i]
         /\ UNCHANGED consumer
         /\ (base' = base /\ seq' >= seq) \/ (base' = Len(sent) /\ sent' = sent)
<1>0. Len(sent) \in Nat /\ sent \in Seq(0..MaxLen) /\ seq \in Nat
  BY DEF TypeInv, TypeOK
<1>1. ASSUME NEW l \in Lengths, Begin(l)
      PROVE  /\ Len(sent') >= Len(sent) /\ \A i \in 1 .. Len(sent) : sent'[i] = sent[i]
             /\ UNCHANGED consumer /\ base' = base /\ seq' >= seq
  <2>1. l \in 0..MaxLen /\ sent' = Append(sent, l)
        /\ UNCHANGED <<consumer, base, seq>>
    BY <1>1, ShmAssumption DEF Begin, file
  <2>2. Len(sent') >= Len(sent) /\ \A i \in 1 .. Len(sent) : sent'[i] = sent[i]
    BY <1>0, <2>1
  <2>3. QED
    BY <1>0, <2>1, <2>2
<1>2. ASSUME Produce \/ (\E s \in UnderWay : StoreHalfLength(s)) \/ SetLen
      PROVE  UNCHANGED <<sent, base, consumer>> /\ seq' >= seq
  <2>1. UNCHANGED <<sent, base, consumer>> /\ (seq' = seq \/ seq' = seq + 1)
    BY <1>2 DEF Produce, StoreLength, StoreWord, Publish, StoreHalfLength, SetLen, producer
  <2>2. QED
    BY <1>0, <2>1
<1>3. ASSUME Truncate PROVE UNCHANGED <<sent, consumer>> /\ base' = Len(sent)
  BY <1>3 DEF Truncate
<1>4. QED
  BY <1>0, <1>1, <1>2, <1>3

\* A reader that is not lapped after a step of the producer was not lapped
\* before it, and the frame it reads is still among those published; what it
\* copied, and what earlier calls returned, the producer cannot touch.
LEMMA ProducerKeepsReader ==
  ASSUME TypeInv, ReadSoFar, WholeUnlessLapped,
         (\E l \in Lengths : Begin(l)) \/ Produce \/ (\E s \in UnderWay : StoreHalfLength(s))
           \/ Truncate \/ SetLen
  PROVE  ReadSoFar' /\ WholeUnlessLapped'
<1>0. /\ Len(sent) \in Nat /\ sent \in Seq(0..MaxLen) /\ seq \in Nat /\ base \in Nat
      /\ mark \in Nat /\ consumer_seq \in Nat /\ mark <= base
      /\ next_seq \in Nat /\ seq <= next_seq /\ base + next_seq = Len(sent)
  BY DEF TypeInv, TypeOK, Counters
<1>1. /\ Len(sent') >= Len(sent)
      /\ \A i \in 1 .. Len(sent) : sent'[i] = sent[i]
      /\ (base' = base /\ seq' >= seq) \/ (base' = Len(sent) /\ sent' = sent)
  BY ProducerSent
<1>2. UNCHANGED <<consumer_seq, cpc, len, left, got, mark, result, out>>
  BY ProducerSent DEF consumer
<1>3. Len(sent') \in Nat /\ seq' \in Nat
  BY ProducerTypes DEF TypeInv, TypeOK
<1>4. ASSUME cpc \in {"len", "copy"}, ~ Lapped'
      PROVE  ~ Lapped /\ base' = base /\ consumer_seq < seq'
  <2>1. base' = mark /\ Len(sent') - base' <= consumer_seq + Slots
    BY <1>2, <1>3, <1>4, <1>0, <1>1, ShmAssumption DEF Lapped
  <2>2. ~ Lapped
    BY <1>0, <1>1, <1>3, <2>1, ShmAssumption DEF Lapped
  <2>3. consumer_seq < seq
    BY <1>4, <2>2 DEF ReadSoFar
  <2>4. base' = base /\ seq' >= seq
    BY <1>0, <1>1, <2>1, <2>3
  <2>5. QED
    BY <1>0, <1>3, <2>2, <2>3, <2>4
<1>5. ASSUME cpc \in {"len", "copy"}, ~ Lapped'
      PROVE  /\ \A w \in 1..sent'[mark + consumer_seq + 1] :
                  w \notin left => got[w] = mark + consumer_seq + 1
             /\ cpc = "copy" => len = sent'[mark + consumer_seq + 1]
  <2>1. ~ Lapped /\ consumer_seq < seq
    BY <1>4, <1>5 DEF ReadSoFar
  <2>2. mark = base
    BY <2>1 DEF Lapped
  <2>3. mark + consumer_seq + 1 \in 1 .. Len(sent)
    BY <1>0, <2>1, <2>2
  <2>4. QED
    BY <1>1, <1>5, <2>1, <2>3 DEF ReadSoFar
<1>6. ReadSoFar'
  BY <1>2, <1>4, <1>5 DEF ReadSoFar
<1>7. WholeUnlessLapped'
  <2>1. DOMAIN sent = 1 .. Len(sent) /\ DOMAIN sent' = 1 .. Len(sent')
    BY <1>0, ProducerTypes DEF TypeInv, TypeOK
  <2>2. Whole => Whole'
    BY <1>0, <1>1, <1>2, <1>3, <2>1 DEF Whole
  <2>3. QED
    BY <1>2, <2>2 DEF WholeUnlessLapped
<1>8. QED
  BY <1>6, <1>7

\* A reader that is not lapped finds its frame kept, so what it loads is a
\* piece of that frame; once nothing is left to load it has all of it.
LEMMA ConsumerKeeps ==
  ASSUME TypeInv, SlotsHold, ReadSoFar, WholeUnlessLapped, Open \/ BusError \/ Consume
  PROVE  ReadSoFar' /\ WholeUnlessLapped'
<1>0. /\ Len(sent) \in Nat /\ next_seq \in Nat /\ base \in Nat /\ mark \in Nat
      /\ consumer_seq \in Nat /\ seq \in Nat /\ seq <= next_seq /\ base + next_seq = Len(sent)
      /\ Slots \in Nat \ {0} /\ left \subseteq Word
  BY ShmAssumption DEF TypeInv, TypeOK, Counters
<1>1. UNCHANGED <<file, producer>>
  BY DEF Open, BusError, Consume, PollEmpty, PollOverrun, PollReady, ReadLen, ReadWord, Return
<1>2. UNCHANGED <<slot_len, slot_data, seq, next_seq, sent, base>>
  BY <1>1 DEF file, producer
<1>3. ASSUME consumer_seq < seq, mark = base, ~ Lapped
      PROVE  LET n == mark + consumer_seq + 1
             IN  /\ n \in 1 .. Len(sent) /\ sent[n] \in 0..MaxLen
                 /\ slot_len[SlotOf(consumer_seq)] = sent[n]
                 /\ \A w \in 1..sent[n] : slot_data[SlotOf(consumer_seq)][w] = n
  <2>1. consumer_seq \in 0 .. (next_seq - 1) /\ Kept(consumer_seq)
    BY <1>0, <1>3 DEF Kept, Lapped
  <2>2. Stored(consumer_seq) /\ Number(consumer_seq) \in 1 .. Len(sent)
        /\ LengthOf(consumer_seq) \in 0..MaxLen
    BY <2>1, KeptFacts DEF SlotsHold
  <2>3. consumer_seq \notin UnderWay
    BY <1>0, <1>3 DEF UnderWay
  <2>4. \A w : <<consumer_seq, w>> \notin todo
    BY <2>3 DEF TypeInv, TypeOK
  <2>5. QED
    BY <1>3, <2>2, <2>4 DEF Stored, Number, LengthOf
<1>03. ASSUME cpc \in {"len", "copy"}, ~ Lapped
       PROVE  consumer_seq < seq /\ mark = base
  BY <1>03 DEF ReadSoFar, Lapped
<1>4. CASE Open
  BY <1>4 DEF Open, ReadSoFar, WholeUnlessLapped
<1>5. CASE BusError
  BY <1>2, <1>5 DEF BusError, ReadSoFar, WholeUnlessLapped, Whole
<1>6. CASE PollEmpty
  BY <1>2, <1>6 DEF PollEmpty, ReadSoFar, WholeUnlessLapped
<1>7. CASE PollOverrun
  BY <1>2, <1>7 DEF PollOverrun, ReadSoFar, WholeUnlessLapped
<1>8. CASE PollReady
  <2>1. WholeUnlessLapped'
    BY <1>2, <1>8 DEF PollReady, WholeUnlessLapped, Whole
  <2>2. /\ cpc' = "len" /\ left' = Word /\ mark' = base /\ consumer_seq < seq
        /\ UNCHANGED <<consumer_seq, got>>
    BY <1>0, <1>8 DEF PollReady
  <2>3. ASSUME ~ Lapped' PROVE \A w \in 1..sent[base + consumer_seq + 1] : w \in Word
    <3>1. ~ (Len(sent) - base > consumer_seq + Slots) /\ base + consumer_seq + 1 \in 1 .. Len(sent)
      BY <1>0, <1>2, <2>2, <2>3 DEF Lapped
    <3>2. sent[base + consumer_seq + 1] \in 0..MaxLen
      BY <3>1, SentLengths DEF TypeInv, TypeOK
    <3>3. QED
      BY <3>2, ShmAssumption DEF Word
  <2>4. ReadSoFar'
    BY <1>2, <2>2, <2>3 DEF ReadSoFar
  <2>5. QED
    BY <2>1, <2>4
<1>9. CASE ReadLen
  <2>1. CASE slot_len[SlotOf(consumer_seq)] > MaxLen
    BY <1>2, <1>9, <2>1 DEF ReadLen, ReadSoFar, WholeUnlessLapped
  <2>2. CASE ~ (slot_len[SlotOf(consumer_seq)] > MaxLen)
    <3>1. /\ cpc = "len" /\ cpc' = "copy" /\ len' = slot_len[SlotOf(consumer_seq)]
          /\ left' = left \cap 1..len' /\ UNCHANGED <<result, out, consumer_seq, mark>>
          /\ got' = [w \in Word |-> IF w <= len' THEN got[w] ELSE 0]
      BY <1>9, <2>2 DEF ReadLen
    <3>2. Lapped' = Lapped
      BY <1>2, <3>1 DEF Lapped
    <3>3. ASSUME ~ Lapped
          PROVE  /\ consumer_seq < seq /\ len' = sent[mark + consumer_seq + 1]
                 /\ \A w \in 1..len' : w \notin left' => got'[w] = mark + consumer_seq + 1
      <4>1. /\ consumer_seq < seq /\ len' = sent[mark + consumer_seq + 1] /\ len' \in 0..MaxLen
        BY <1>3, <1>03, <3>1, <3>3
      <4>2. ASSUME NEW w \in 1..len', w \notin left' PROVE got'[w] = mark + consumer_seq + 1
        <5>1. w \notin left /\ w \in Word /\ w <= len'
          BY <3>1, <4>1, <4>2, ShmAssumption DEF Word
        <5>2. got[w] = mark + consumer_seq + 1
          BY <3>1, <3>3, <4>1, <5>1 DEF ReadSoFar
        <5>3. QED
          BY <3>1, <5>1, <5>2
      <4>3. QED
        BY <4>1, <4>2
    <3>4. ReadSoFar'
      BY <1>2, <3>1, <3>2, <3>3 DEF ReadSoFar
    <3>5. WholeUnlessLapped'
      BY <1>2, <3>1 DEF WholeUnlessLapped, Whole
    <3>6. QED
      BY <3>4, <3>5
  <2>3. QED
    BY <2>1, <2>2
<1>10. ASSUME NEW v \in Word, ReadWord(v) PROVE ReadSoFar' /\ WholeUnlessLapped'
  <2>1. /\ cpc \in {"len", "copy"} /\ cpc' = cpc /\ v \in left /\ left' = left \ {v}
        /\ got' = [got EXCEPT ![v] = slot_data[SlotOf(consumer_seq)][v]]
        /\ UNCHANGED <<consumer_seq, len, mark, result, out>>
    BY <1>10 DEF ReadWord
  <2>2. Lapped' = Lapped
    BY <1>2, <2>1 DEF Lapped
  <2>3. ASSUME ~ Lapped, NEW w \in 1..sent[mark + consumer_seq + 1], w \notin left'
        PROVE  got'[w] = mark + consumer_seq + 1
    <3>1. got \in [Word -> Nat] /\ sent[mark + consumer_seq + 1] \in 0..MaxLen
      BY <1>3, <1>03, <2>1, <2>3 DEF TypeInv, TypeOK
    <3>2. w \in Word
      BY <3>1, ShmAssumption DEF Word
    <3>3. CASE w = v
      BY <1>3, <1>03, <2>1, <2>3, <3>1, <3>2, <3>3
    <3>4. CASE w # v
      <4>1. got[w] = mark + consumer_seq + 1
        BY <2>1, <2>3, <3>4 DEF ReadSoFar
      <4>2. QED
        BY <2>1, <3>1, <3>2, <3>4, <4>1
    <3>5. QED
      BY <3>3, <3>4
  <2>4. ReadSoFar'
    BY <1>2, <2>1, <2>2, <2>3 DEF ReadSoFar
  <2>5. WholeUnlessLapped'
    BY <1>2, <2>1 DEF WholeUnlessLapped, Whole
  <2>6. QED
    BY <2>4, <2>5
<1>11. CASE Return
  <2>1. ReadSoFar'
    BY <1>11 DEF Return, ReadSoFar
  <2>2. /\ cpc = "copy" /\ left = {} /\ UNCHANGED sent
        /\ out' = [due |-> mark + consumer_seq + 1, len |-> len, data |-> got,
                   skipped |-> 0, lapped |-> Lapped]
    BY <1>2, <1>11 DEF Return
  <2>3. ASSUME ~ Lapped PROVE Whole'
    <3>1. /\ mark + consumer_seq + 1 \in 1 .. Len(sent)
          /\ len = sent[mark + consumer_seq + 1]
          /\ \A w \in 1..len : got[w] = mark + consumer_seq + 1
      BY <1>3, <1>03, <2>2, <2>3 DEF ReadSoFar
    <3>2. DOMAIN sent = 1 .. Len(sent)
      BY DEF TypeInv, TypeOK
    <3>3. QED
      BY <2>2, <3>1, <3>2 DEF Whole
  <2>4. WholeUnlessLapped'
    BY <2>2, <2>3 DEF WholeUnlessLapped
  <2>5. QED
    BY <2>1, <2>4
<1>12. QED
  BY <1>4, <1>5, <1>6, <1>7, <1>8, <1>9, <1>10, <1>11 DEF Consume

\* Every step of the producer and of the reader keeps the invariant.
LEMMA ShmInductive == IndInv /\ [Next]_vars => IndInv'
<1> SUFFICES ASSUME IndInv, [Next]_vars PROVE IndInv'
  OBVIOUS
<1> USE DEF IndInv
<1>1. CASE (\E l \in Lengths : Begin(l)) \/ Produce \/ (\E s \in UnderWay : StoreHalfLength(s))
             \/ Truncate \/ SetLen
  BY <1>1, ProducerTypes, ProducerKeepsSlots, ProducerKeepsReader
<1>2. CASE Open \/ BusError \/ Consume
  <2>1. UNCHANGED <<file, producer>>
    BY <1>2 DEF Open, BusError, Consume, PollEmpty, PollOverrun, PollReady, ReadLen, ReadWord, Return
  <2>2. SlotsHold'
    BY <2>1 DEF file, producer, SlotsHold, Kept, Stored, Number, LengthOf
  <2>3. QED
    BY <1>2, <2>2, ConsumerTypes, ConsumerKeeps
<1>3. CASE UNCHANGED vars
  <2>1. TypeInv'
    BY <1>3, StutterTypes
  <2>2. SlotsHold'
    BY <1>3 DEF vars, file, producer, SlotsHold, Kept, Stored, Number, LengthOf
  <2>3. ReadSoFar' /\ WholeUnlessLapped'
    BY <1>3 DEF vars, file, producer, consumer, ReadSoFar, Lapped, WholeUnlessLapped, Whole
  <2>4. QED
    BY <2>1, <2>2, <2>3
<1>4. QED
  BY <1>1, <1>2, <1>3 DEF Next

\* The invariant holds of a new file and a reader just opened.
LEMMA ShmInitial == Init => IndInv
<1> SUFFICES ASSUME Init PROVE IndInv
  OBVIOUS
<1>1. TypeInv
  BY InitTypes
<1>2. SlotsHold /\ ReadSoFar /\ WholeUnlessLapped
  BY DEF Init, SlotsHold, ReadSoFar, WholeUnlessLapped
<1>3. QED
  BY <1>1, <1>2 DEF IndInv

\* A frame that try_read_frame returns is whole, its length and every word,
\* unless the producer had begun to overwrite it or was started again.
THEOREM FramesWholeUnlessLapped == Spec => []WholeUnlessLapped
<1>1. IndInv => WholeUnlessLapped
  BY DEF IndInv
<1>2. QED
  BY <1>1, ShmInitial, ShmInductive, PTL DEF Spec

-----------------------------------------------------------------------------
(* Refinement *)

\* While the producer is not started again: what is published is all of the
\* history but the frame under way, and the reader is never ahead of it.
OneRun ==
  /\ base = 0 /\ mark = 0 /\ sized /\ cpc # "killed"
  /\ sent \in Seq(Lengths)
  /\ consumer_seq <= seq
  /\ cpc \in {"len", "copy"} => consumer_seq < seq
  /\ result = "frame" => out.due \in 1..seq

\* The first run has nothing before it.
LEMMA OneRunInit ==
  ASSUME Init
  PROVE  OneRun
BY DEF Init, OneRun

\* Without Truncate the run stays the first one.
LEMMA OneRunNext ==
  ASSUME ~ Restarts, TypeInv, OneRun, [Next]_vars
  PROVE  OneRun'
<1> USE DEF OneRun
<1>0. Len(sent) \in Nat /\ seq \in Nat /\ consumer_seq \in Nat /\ Slots \in Nat \ {0}
  BY ShmAssumption DEF TypeInv, TypeOK, Counters
<1>1. ASSUME NEW l \in Lengths, Begin(l) PROVE OneRun'
  BY <1>1 DEF Begin, file, consumer
<1>2. CASE Produce \/ (\E s \in UnderWay : StoreHalfLength(s)) \/ SetLen
  <2>1. UNCHANGED <<base, sent, consumer_seq, cpc, mark, result, out>>
    BY <1>2 DEF Produce, StoreLength, StoreWord, Publish, StoreHalfLength, SetLen, producer, consumer
  <2>2. sized'
    BY <1>2 DEF Produce, StoreLength, StoreWord, Publish, StoreHalfLength, SetLen
  <2>3. seq' = seq \/ seq' = seq + 1
    BY <1>0, <1>2 DEF Produce, StoreLength, StoreWord, Publish, StoreHalfLength, SetLen
  <2>4. QED
    BY <1>0, <2>1, <2>2, <2>3
<1>3. CASE Truncate
  BY <1>3 DEF Truncate
<1>4. CASE Open \/ BusError \/ PollEmpty \/ PollOverrun
  <2>1. UNCHANGED <<base, sent, sized, seq>>
    BY <1>4 DEF Open, BusError, PollEmpty, PollOverrun, file, producer
  <2>2. mark' = 0 /\ cpc' = "idle" /\ result' # "frame"
    BY <1>4 DEF Open, BusError, PollEmpty, PollOverrun
  <2>3. consumer_seq' <= seq
    BY <1>0, <1>4 DEF Open, BusError, PollEmpty, PollOverrun
  <2>4. QED
    BY <2>1, <2>2, <2>3
<1>5. CASE PollReady
  BY <1>0, <1>5 DEF PollReady, file, producer
<1>6. CASE ReadLen
  BY <1>0, <1>6 DEF ReadLen, file, producer
<1>7. ASSUME NEW w \in Word, ReadWord(w) PROVE OneRun'
  BY <1>0, <1>7 DEF ReadWord, file, producer
<1>8. CASE Return
  BY <1>0, <1>8 DEF Return, file, producer
<1>9. CASE UNCHANGED vars
  BY <1>9 DEF vars, file, producer, consumer
<1>10. QED
  BY <1>1, <1>2, <1>3, <1>4, <1>5, <1>6, <1>7, <1>8, <1>9 DEF Next, Consume

\* The log is as long as the counter says and holds the history.
LEMMA PublishedIs ==
  ASSUME NEW S, NEW s \in Seq(S), NEW n \in 0 .. Len(s)
  PROVE  /\ SubSeq(s, 1, n) \in Seq(S)
         /\ Len(SubSeq(s, 1, n)) = n
         /\ \A i \in 1..n : SubSeq(s, 1, n)[i] = s[i]
<1>1. Len(s) \in Nat /\ \A i \in 1 .. Len(s) : s[i] \in S
  BY ElementOfSeq, LenProperties
<1>2. \A i \in 1..n : s[i] \in S
  BY <1>1
<1>3. /\ SubSeq(s, 1, n) \in Seq(S)
      /\ Len(SubSeq(s, 1, n)) = IF 1 <= n THEN n - 1 + 1 ELSE 0
      /\ \A i \in 1 .. (n - 1 + 1) : SubSeq(s, 1, n)[i] = s[1 + i - 1]
  BY <1>1, <1>2, SubSeqProperties
<1>4. QED
  BY <1>1, <1>3

\* A longer history has the same first frames, and one more of them makes
\* the log longer by that one.
LEMMA PublishedGrows ==
  ASSUME NEW S, NEW s \in Seq(S), NEW n \in 0 .. Len(s)
  PROVE  /\ \A l \in S : SubSeq(Append(s, l), 1, n) = SubSeq(s, 1, n)
         /\ n < Len(s) => SubSeq(s, 1, n + 1) = Append(SubSeq(s, 1, n), s[n + 1])
<1>0. Len(s) \in Nat
  BY LenProperties
<1>1. ASSUME NEW l \in S PROVE SubSeq(Append(s, l), 1, n) = SubSeq(s, 1, n)
  <2>1. /\ Append(s, l) \in Seq(S) /\ Len(Append(s, l)) = Len(s) + 1
        /\ \A i \in 1 .. Len(s) : Append(s, l)[i] = s[i]
    BY <1>0, AppendProperties
  <2>2. n \in 0 .. Len(Append(s, l))
    BY <1>0, <2>1
  <2>3. /\ SubSeq(Append(s, l), 1, n) \in Seq(S) /\ Len(SubSeq(Append(s, l), 1, n)) = n
        /\ \A i \in 1..n : SubSeq(Append(s, l), 1, n)[i] = Append(s, l)[i]
    BY <2>1, <2>2, PublishedIs
  <2>4. /\ SubSeq(s, 1, n) \in Seq(S) /\ Len(SubSeq(s, 1, n)) = n
        /\ \A i \in 1..n : SubSeq(s, 1, n)[i] = s[i]
    BY PublishedIs
  <2>5. \A i \in 1..n : SubSeq(Append(s, l), 1, n)[i] = SubSeq(s, 1, n)[i]
    BY <1>0, <2>1, <2>3, <2>4
  <2>6. QED
    BY <2>3, <2>4, <2>5, SeqEqual
<1>2. ASSUME n < Len(s) PROVE SubSeq(s, 1, n + 1) = Append(SubSeq(s, 1, n), s[n + 1])
  <2>1. n + 1 \in 0 .. Len(s) /\ n + 1 \in 1 .. Len(s)
    BY <1>0, <1>2
  <2>2. s[n + 1] \in S
    BY <2>1, ElementOfSeq
  <2>3. /\ SubSeq(s, 1, n) \in Seq(S) /\ Len(SubSeq(s, 1, n)) = n
        /\ \A i \in 1..n : SubSeq(s, 1, n)[i] = s[i]
    BY PublishedIs
  <2>4. /\ SubSeq(s, 1, n + 1) \in Seq(S) /\ Len(SubSeq(s, 1, n + 1)) = n + 1
        /\ \A i \in 1 .. (n + 1) : SubSeq(s, 1, n + 1)[i] = s[i]
    BY <2>1, PublishedIs
  <2> DEFINE t == SubSeq(s, 1, n)
             e == s[n + 1]
  <2>5. /\ Append(t, e) \in Seq(S) /\ Len(Append(t, e)) = n + 1
        /\ \A i \in 1..n : Append(t, e)[i] = t[i]
        /\ Append(t, e)[n + 1] = e
    BY <2>2, <2>3, AppendProperties
  <2>6. \A i \in 1 .. (n + 1) : SubSeq(s, 1, n + 1)[i] = Append(t, e)[i]
    <3> SUFFICES ASSUME NEW i \in 1 .. (n + 1) PROVE SubSeq(s, 1, n + 1)[i] = Append(t, e)[i]
      OBVIOUS
    <3>1. CASE i = n + 1
      BY <2>4, <2>5, <3>1
    <3>2. CASE i # n + 1
      <4>1. i \in 1..n
        BY <1>0, <3>2
      <4>2. QED
        BY <2>3, <2>4, <2>5, <4>1
    <3>3. QED
      BY <3>1, <3>2
  <2>7. QED
    BY <2>4, <2>5, <2>6, SeqEqual
<1>3. QED
  BY <1>1, <1>2

\* A frame that was due keeps its place in the history, so whether the answer
\* was whole does not change as the history grows.
LEMMA ReplyStays ==
  ASSUME TypeInv, OneRun, UNCHANGED <<result, out>>,
         sent' = sent \/ \E l \in Lengths : sent' = Append(sent, l)
  PROVE  Reply' = Reply
<1>1. /\ Len(sent) \in Nat /\ seq \in Nat /\ seq <= Len(sent)
      /\ sent \in Seq(Lengths) /\ DOMAIN sent = 1 .. Len(sent)
  BY ShmAssumption, LenProperties DEF TypeInv, TypeOK, Counters, OneRun
<1>2. CASE sent' = sent
  BY <1>2 DEF Reply, Whole
<1>3. ASSUME NEW l \in Lengths, sent' = Append(sent, l)
      PROVE  Reply' = Reply
  <2>1. /\ DOMAIN sent' = 1 .. (Len(sent) + 1)
        /\ \A i \in 1 .. Len(sent) : sent'[i] = sent[i]
    <3>1. /\ Append(sent, l) \in Seq(Lengths) /\ Len(Append(sent, l)) = Len(sent) + 1
          /\ \A i \in 1 .. Len(sent) : Append(sent, l)[i] = sent[i]
      BY <1>1, AppendProperties
    <3>2. QED
      BY <1>3, <3>1, LenProperties
  <2>2. ASSUME result = "frame" PROVE Whole' = Whole
    <3>1. out.due \in 1 .. Len(sent)
      BY <1>1, <2>2 DEF OneRun
    <3>2. /\ out.due \in DOMAIN sent /\ out.due \in DOMAIN sent'
          /\ sent'[out.due] = sent[out.due] /\ out' = out
      BY <1>1, <2>1, <3>1
    <3>3. QED
      BY <3>2 DEF Whole
  <2>3. CASE result = "frame"
    BY <2>2, <2>3 DEF Reply
  <2>4. CASE result # "frame"
    BY <2>4 DEF Reply
  <2>5. QED
    BY <2>3, <2>4
<1>4. QED
  BY <1>2, <1>3

\* The store of the counter publishes one frame, the other steps of the
\* producer none.
LEMMA ProducerRefines ==
  ASSUME ~ Restarts, TypeInv, OneRun,
         (\E l \in Lengths : Begin(l)) \/ Produce \/ (\E s \in UnderWay : StoreHalfLength(s))
           \/ Truncate \/ SetLen
  PROVE  [Log!Next]_<<Published, consumer_seq, Reply>>
<1>0. /\ Len(sent) \in Nat /\ seq \in Nat /\ next_seq = Len(sent) /\ seq <= Len(sent) /\ base = 0
      /\ sent \in Seq(Lengths) /\ seq \in 0 .. Len(sent)
  BY DEF TypeInv, TypeOK, Counters, OneRun
<1>1. UNCHANGED <<consumer_seq, result, out>>
  BY ProducerSent DEF consumer
<1>2. ASSUME NEW l \in Lengths, Begin(l) PROVE UNCHANGED <<Published, Reply>>
  <2>1. sent' = Append(sent, l) /\ seq' = seq
    BY <1>2 DEF Begin, file
  <2>2. Reply' = Reply
    BY <1>1, <2>1, ReplyStays
  <2>3. Published' = Published
    BY <1>0, <2>1, PublishedGrows DEF Published
  <2>4. QED
    BY <2>2, <2>3
<1>3. CASE \/ \E s \in UnderWay : \/ StoreLength(s) \/ StoreHalfLength(s)
                                \/ \E w \in Word : StoreWord(s, w)
           \/ SetLen
  <2>1. sent' = sent /\ seq' = seq
    BY <1>3 DEF StoreLength, StoreWord, StoreHalfLength, SetLen, producer
  <2>2. Reply' = Reply
    BY <1>1, <2>1, ReplyStays
  <2>3. QED
    BY <1>1, <2>1, <2>2 DEF Published
<1>4. CASE Publish
  <2>1. sent' = sent /\ seq' = seq + 1 /\ seq < Len(sent)
    BY <1>0, <1>4 DEF Publish, producer
  <2>2. Reply' = Reply
    BY <1>1, <2>1, ReplyStays
  <2>3. Published' = Append(Published, sent[seq + 1])
    BY <1>0, <2>1, PublishedGrows DEF Published
  <2>4. sent[seq + 1] \in Lengths
    <3>1. seq + 1 \in 1 .. Len(sent)
      BY <1>0, <2>1
    <3>2. QED
      BY <1>0, <3>1, ElementOfSeq
  <2>5. Log!Publish
    BY <1>1, <2>2, <2>3, <2>4 DEF Log!Publish
  <2>6. QED
    BY <2>5 DEF Log!Next
<1>5. CASE Truncate
  BY <1>5 DEF Truncate
<1>6. QED
  BY <1>1, <1>2, <1>3, <1>4, <1>5 DEF Produce

\* Every answer of try_read_frame is one LossyLog allows: a frame refused or
\* damaged was so far behind by then, for otherwise its slot was still whole.
LEMMA ConsumerRefines ==
  ASSUME ~ Restarts, IndInv, IndInv', OneRun, Open \/ BusError \/ Consume
  PROVE  [Log!Next]_<<Published, consumer_seq, Reply>>
<1>0. /\ Len(sent) \in Nat /\ seq \in Nat /\ next_seq = Len(sent) /\ seq <= Len(sent)
      /\ Len(sent) <= seq + Ahead + 1 /\ Ahead \in Nat /\ base = 0 /\ mark = 0
      /\ sent \in Seq(Lengths) /\ seq \in 0 .. Len(sent)
      /\ consumer_seq \in Nat /\ consumer_seq <= seq /\ Slots \in Nat \ {0}
      /\ DOMAIN sent = 1 .. Len(sent)
  <2>1. Slots \in Nat \ {0} /\ Ahead \in Nat
    BY ShmAssumption
  <2>2. sent \in Seq(Lengths) /\ DOMAIN sent = 1 .. Len(sent)
    BY LenProperties DEF OneRun
  <2>3. consumer_seq <= seq /\ base = 0 /\ mark = 0
    BY DEF OneRun
  <2>4. Len(sent) \in Nat /\ seq \in Nat /\ next_seq \in Nat /\ consumer_seq \in Nat
    BY DEF IndInv, TypeInv, TypeOK
  <2>5. seq <= next_seq /\ next_seq <= seq + Ahead + 1 /\ next_seq = Len(sent)
    BY <2>3, <2>4 DEF IndInv, TypeInv, Counters
  <2>6. QED
    BY <2>1, <2>2, <2>3, <2>4, <2>5
<1>1. UNCHANGED <<file, producer>>
  BY DEF Open, BusError, Consume, PollEmpty, PollOverrun, PollReady, ReadLen, ReadWord, Return
<1>2. sent' = sent /\ seq' = seq /\ Published' = Published
  BY <1>1 DEF file, producer, Published
<1>3. Len(Published) = seq /\ \A i \in 1..seq : Published[i] = sent[i]
  BY <1>0, PublishedIs DEF Published
<1>4. CASE Open
  <2>1. consumer_seq' = 0 /\ Reply' = [kind |-> "none"]
    BY <1>4 DEF Open, Reply
  <2>2. QED
    BY <1>2, <2>1 DEF Log!Next, Log!Join
<1>5. CASE BusError
  BY <1>5 DEF BusError, OneRun
<1>6. CASE PollEmpty
  <2>1. consumer_seq' = consumer_seq /\ Reply' = [kind |-> "empty"] /\ consumer_seq = seq
    BY <1>0, <1>6 DEF PollEmpty, Reply
  <2>2. QED
    BY <1>0, <1>2, <1>3, <2>1 DEF Log!Next, Log!Empty, Log!Behind
<1>7. CASE PollOverrun
  <2>1. /\ consumer_seq' = seq - Slots /\ seq - consumer_seq > Slots
        /\ result' = "overrun" /\ out'.skipped = seq - consumer_seq - Slots
    BY <1>7 DEF PollOverrun, NoOut
  <2>2. Reply' = [kind |-> "overrun", skipped |-> seq - consumer_seq - Slots]
    BY <2>1 DEF Reply
  <2>3. QED
    BY <1>0, <1>2, <1>3, <2>1, <2>2 DEF Log!Next, Log!GiveUp, Log!Behind
<1>8. CASE PollReady \/ \E w \in Word : ReadWord(w)
  <2>1. UNCHANGED <<consumer_seq, result, out>>
    BY <1>8 DEF PollReady, ReadWord
  <2>2. Reply' = Reply
    BY <1>2, <2>1, ReplyStays DEF IndInv
  <2>3. QED
    BY <1>2, <2>1, <2>2
<1>9. CASE ReadLen
  <2>1. CASE slot_len[SlotOf(consumer_seq)] > MaxLen
    <3>1. consumer_seq' = consumer_seq /\ Reply' = [kind |-> "corrupt"] /\ cpc = "len"
      BY <1>9, <2>1 DEF ReadLen, Reply
    <3>2. seq - consumer_seq + Ahead >= Slots
      <4> SUFFICES ASSUME ~ (seq - consumer_seq + Ahead >= Slots) PROVE FALSE
        OBVIOUS
      <4>1. consumer_seq \in 0 .. (next_seq - 1) /\ Kept(consumer_seq) /\ consumer_seq \notin UnderWay
        BY <1>0, <3>1 DEF OneRun, Kept, UnderWay
      <4>2. <<consumer_seq, 0>> \notin todo
        BY <4>1 DEF IndInv, TypeInv, TypeOK
      <4>3. slot_len[SlotOf(consumer_seq)] = LengthOf(consumer_seq) /\ LengthOf(consumer_seq) \in 0..MaxLen
        BY <4>1, <4>2, KeptFacts DEF IndInv, SlotsHold, Stored
      <4>4. QED
        BY <2>1, <4>3, ShmAssumption
    <3>3. QED
      BY <1>0, <1>2, <1>3, <3>1, <3>2 DEF Log!Next, Log!Refuse, Log!Behind
  <2>2. CASE ~ (slot_len[SlotOf(consumer_seq)] > MaxLen)
    <3>1. UNCHANGED <<consumer_seq, result, out>>
      BY <1>9, <2>2 DEF ReadLen
    <3>2. Reply' = Reply
      BY <1>2, <3>1, ReplyStays DEF IndInv
    <3>3. QED
      BY <1>2, <3>1, <3>2
  <2>3. QED
    BY <2>1, <2>2
<1>10. CASE Return
  <2>1. /\ consumer_seq' = consumer_seq + 1 /\ result' = "frame"
        /\ out'.due = consumer_seq + 1 /\ out'.lapped = Lapped /\ consumer_seq < seq
    BY <1>0, <1>10 DEF Return, OneRun
  <2>2. CASE Whole'
    <3>1. out'.due \in 1..seq /\ out'.len = sent[consumer_seq + 1]
      BY <1>0, <1>2, <2>1, <2>2 DEF Whole
    <3>2. Reply' = [kind |-> "frame", number |-> consumer_seq + 1, len |-> sent[consumer_seq + 1]]
      BY <2>1, <2>2, <3>1 DEF Reply
    <3>3. Published[consumer_seq + 1] = sent[consumer_seq + 1]
      BY <1>0, <1>3, <2>1
    <3>4. QED
      BY <1>0, <1>2, <1>3, <2>1, <3>2, <3>3 DEF Log!Next, Log!Take, Log!Behind
  <2>3. CASE ~ Whole'
    <3>1. Lapped
      BY <2>1, <2>3 DEF IndInv, WholeUnlessLapped
    <3>2. seq - consumer_seq + Ahead >= Slots
      BY <1>0, <3>1 DEF Lapped
    <3>3. Reply' = [kind |-> "damaged", number |-> consumer_seq + 1]
      BY <2>1, <2>3 DEF Reply
    <3>4. QED
      BY <1>0, <1>2, <1>3, <2>1, <3>2, <3>3 DEF Log!Next, Log!TakeDamaged, Log!Behind
  <2>4. QED
    BY <2>2, <2>3
<1>11. QED
  BY <1>4, <1>5, <1>6, <1>7, <1>8, <1>9, <1>10 DEF Consume

\* As long as the producer is not started again the ring is a LossyLog:
\* frames in order, each at most once, losses reported with their number, and
\* damage only to a frame that was as many frames behind as there are slots,
\* or Ahead fewer, for a store may be as much earlier than the counter's.
THEOREM ImplementsLog == ~ Restarts => (Spec => ImplementsLossyLog)
<1> SUFFICES ASSUME ~ Restarts PROVE Spec => ImplementsLossyLog
  OBVIOUS
<1>1. Init => Log!Init
  <2> SUFFICES ASSUME Init PROVE Log!Init
    OBVIOUS
  <2>1. Published = << >>
    BY SubSeqEmpty DEF Init, Published
  <2>2. QED
    BY <2>1 DEF Init, Reply, Log!Init
<1>2. Init => OneRun
  BY OneRunInit
<1>3. IndInv /\ OneRun /\ [Next]_vars => OneRun'
  BY OneRunNext DEF IndInv
<1>4. IndInv /\ IndInv' /\ OneRun /\ [Next]_vars => [Log!Next]_<<Published, consumer_seq, Reply>>
  <2> SUFFICES ASSUME IndInv, IndInv', OneRun, [Next]_vars
               PROVE  [Log!Next]_<<Published, consumer_seq, Reply>>
    OBVIOUS
  <2>1. CASE UNCHANGED vars
    <3>1. UNCHANGED <<sent, seq, consumer_seq, result, out>>
      BY <2>1 DEF vars, file, producer, consumer
    <3>2. Reply' = Reply
      BY <3>1, ReplyStays DEF IndInv
    <3>3. QED
      BY <3>1, <3>2 DEF Published
  <2>2. QED
    BY <2>1, ProducerRefines, ConsumerRefines DEF Next, IndInv
<1>5. QED
  BY <1>1, <1>2, <1>3, <1>4, ShmInitial, ShmInductive, PTL DEF Spec, ImplementsLossyLog, Log!Spec
=============================================================================

------------------------------ MODULE ShmRing ------------------------------
(***************************************************************************)
(* The shared-memory ring of crates/stabstream-sim/src/shm.rs: one         *)
(* producer and one consumer process over the file /dev/shm/<name>.        *)
(*                                                                         *)
(* Only the sequence counter is atomic.  The length and the bytes of a     *)
(* slot are plain memory, written and read with no lock.  A frame is cut   *)
(* into words here, each stored and loaded in a step of its own, and a     *)
(* word is known by the frame it belongs to.  The processor may order the  *)
(* stores of a write_frame as it likes as long as they come before its     *)
(* Release store of the counter; a Release store holds nothing back that   *)
(* comes after it, so stores of the next write_frames may come before it,  *)
(* of Ahead frames at most.  The loads of a try_read_frame come after its  *)
(* Acquire load in any order, of words even before the length is known;    *)
(* they are over when it returns.                                          *)
(*                                                                         *)
(* Frames are numbered from 1 over all runs of the producer: sent[id] is   *)
(* the length of frame id, and the run that is going on started after      *)
(* frame number base.  The consumer never writes to the file, so any       *)
(* number of consumers behave each like this one.                          *)
(***************************************************************************)
EXTENDS Integers, Sequences

CONSTANTS
  Slots,      \* RING_SLOTS
  MaxLen,     \* MAX_FRAME_SIZE, in words
  Lengths,    \* the lengths of frames the producer is given
  TornLens,   \* what a half-written length may read as; empty where the four
              \* bytes are written at once
  Ahead,      \* how many frames later than the counter says a store may be:
              \* 0 where the processor keeps stores in their order
  Restarts,   \* whether the producer may die and be started again
  Reopens,    \* whether a new consumer may take over
  MaxFrames   \* bound: how many frames are written in all

ASSUME ShmAssumption ==
  /\ Slots \in Nat \ {0}
  /\ MaxLen \in Nat
  /\ Lengths \subseteq 0..MaxLen
  /\ TornLens \subseteq Nat
  /\ Ahead \in Nat /\ Ahead < Slots
  /\ Restarts \in BOOLEAN /\ Reopens \in BOOLEAN
  /\ MaxFrames \in Nat

VARIABLES
  sized,                \* whether the file has its full length
  seq,                  \* the producer sequence counter, as others see it
  slot_len, slot_data,  \* the slots
  next_seq,             \* the producer: its own counter
  todo,                 \* its stores under way: <<s, 0>> is the length in the slot
                        \* of the frame with sequence number s, <<s, w>> a word
  sent, base,           \* history of the producer's frames
  consumer_seq,         \* the consumer's counter
  cpc, len, left, got,  \* its call to try_read_frame: locals
  mark,                 \* history: base when it last took or skipped a frame
  result, out           \* how its last call ended

file     == <<sized, seq, slot_len, slot_data>>
producer == <<next_seq, todo, sent, base>>
consumer == <<consumer_seq, cpc, len, left, got, mark, result, out>>
vars     == <<file, producer, consumer>>

Slot == 0 .. (Slots - 1)
Word == 1 .. MaxLen

\* seq & (RING_SLOTS - 1), RING_SLOTS being a power of two.
SlotOf(s) == s % Slots

Zeroed == [w \in Word |-> 0]

NoOut == [due |-> 0, len |-> 0, data |-> Zeroed, skipped |-> 0, lapped |-> FALSE]

Init ==
  /\ sized = TRUE
  /\ seq = 0
  /\ slot_len = [i \in Slot |-> 0]
  /\ slot_data = [i \in Slot |-> Zeroed]
  /\ next_seq = 0
  /\ todo = {}
  /\ sent = << >>
  /\ base = 0
  /\ consumer_seq = 0
  /\ cpc = "idle"
  /\ len = 0
  /\ left = {}
  /\ got = Zeroed
  /\ mark = 0
  /\ result = "none"
  /\ out = NoOut

-----------------------------------------------------------------------------
(* The producer *)

\* The sequence numbers of frames whose counter store is still to come.
UnderWay == seq .. (next_seq - 1)

\* The length of the frame with a sequence number, and its own number.
Number(s)   == base + s + 1
LengthOf(s) == sent[Number(s)]

\* write_frame is called with a frame of l words and issues its stores.
Begin(l) ==
  /\ sized /\ next_seq - seq <= Ahead /\ Len(sent) < MaxFrames
  /\ sent' = Append(sent, l)
  /\ next_seq' = next_seq + 1
  /\ todo' = todo \cup ({next_seq} \X (0..l))
  /\ UNCHANGED <<file, base, consumer>>

StoreLength(s) ==
  /\ <<s, 0>> \in todo
  /\ slot_len' = [slot_len EXCEPT ![SlotOf(s)] = LengthOf(s)]
  /\ todo' = todo \ {<<s, 0>>}
  /\ UNCHANGED <<sized, seq, slot_data, next_seq, sent, base, consumer>>

\* Some of the four bytes of the length are written.
StoreHalfLength(s) ==
  /\ <<s, 0>> \in todo
  /\ \E n \in TornLens : slot_len' = [slot_len EXCEPT ![SlotOf(s)] = n]
  /\ UNCHANGED <<sized, seq, slot_data, producer, consumer>>

StoreWord(s, w) ==
  /\ <<s, w>> \in todo
  /\ slot_data' = [slot_data EXCEPT ![SlotOf(s)][w] = Number(s)]
  /\ todo' = todo \ {<<s, w>>}
  /\ UNCHANGED <<sized, seq, slot_len, next_seq, sent, base, consumer>>

\* Mutant: a relaxed store, which the processor may do before the others.
Publish_Relaxed ==
  /\ seq < next_seq
  /\ seq' = seq + 1
  /\ UNCHANGED <<sized, slot_len, slot_data, producer, consumer>>

\* The Release store: no store of the frame may come after it.
Publish ==
  /\ seq < next_seq
  /\ \A store \in todo : store[1] # seq
  /\ seq' = seq + 1
  /\ UNCHANGED <<sized, slot_len, slot_data, producer, consumer>>

\* The producer dies, wherever it is, and create is called again: open
\* truncates the file, which is the same file consumers have mapped.  Stores
\* that were under way do not outlive it.
Truncate ==
  /\ Restarts
  /\ sized' = FALSE
  /\ seq' = 0
  /\ slot_len' = [i \in Slot |-> 0]
  /\ slot_data' = [i \in Slot |-> Zeroed]
  /\ next_seq' = 0
  /\ todo' = {}
  /\ base' = Len(sent)
  /\ UNCHANGED <<sent, consumer>>

\* set_len, and the counter is set to 0, which it is already.
SetLen ==
  /\ ~ sized
  /\ sized' = TRUE
  /\ UNCHANGED <<seq, slot_len, slot_data, producer, consumer>>

-----------------------------------------------------------------------------
(* The consumer *)

\* A new consumer opens the file.
Open ==
  /\ Reopens /\ sized
  /\ consumer_seq' = 0
  /\ cpc' = "idle"
  /\ len' = 0
  /\ left' = {}
  /\ got' = Zeroed
  /\ mark' = base
  /\ result' = "none"
  /\ out' = NoOut
  /\ UNCHANGED <<file, producer>>

\* Between truncation and set_len there is no page behind the mapping.
BusError ==
  /\ ~ sized /\ cpc # "killed"
  /\ cpc' = "killed"
  /\ UNCHANGED <<file, producer, consumer_seq, len, left, got, mark, result, out>>

\* try_read_frame up to its use of the slot: the only access to the file is
\* the Acquire load of the counter.
PollEmpty ==
  /\ sized /\ cpc = "idle"
  /\ seq <= consumer_seq
  /\ result' = "empty"
  /\ out' = NoOut
  /\ UNCHANGED <<file, producer, consumer_seq, cpc, len, left, got, mark>>

\* Mutants: one frame more than reported, or none at all, is skipped.
PollOverrun_OneMore ==
  /\ sized /\ cpc = "idle"
  /\ seq - consumer_seq > Slots
  /\ result' = "overrun"
  /\ out' = [NoOut EXCEPT !.skipped = seq - consumer_seq - Slots]
  /\ consumer_seq' = seq - Slots + 1
  /\ mark' = base
  /\ UNCHANGED <<file, producer, cpc, len, left, got>>

PollOverrun_Stays ==
  /\ sized /\ cpc = "idle"
  /\ seq - consumer_seq > Slots
  /\ result' = "overrun"
  /\ out' = [NoOut EXCEPT !.skipped = seq - consumer_seq - Slots]
  /\ UNCHANGED <<file, producer, consumer_seq, cpc, len, left, got, mark>>

PollOverrun ==
  /\ sized /\ cpc = "idle"
  /\ seq - consumer_seq > Slots
  /\ result' = "overrun"
  /\ out' = [NoOut EXCEPT !.skipped = seq - consumer_seq - Slots]
  /\ consumer_seq' = seq - Slots
  /\ mark' = base
  /\ UNCHANGED <<file, producer, cpc, len, left, got>>

PollReady ==
  /\ sized /\ cpc = "idle"
  /\ seq > consumer_seq /\ seq - consumer_seq <= Slots
  /\ cpc' = "len"
  /\ left' = Word
  /\ mark' = base
  /\ UNCHANGED <<file, producer, consumer_seq, len, got, result, out>>

\* Mutant: the length is taken as it is.
ReadLen_Unchecked ==
  /\ sized /\ cpc = "len"
  /\ cpc' = "copy"
  /\ len' = slot_len[SlotOf(consumer_seq)]
  /\ left' = left \cap 1..len'
  /\ UNCHANGED got
  /\ UNCHANGED <<file, producer, consumer_seq, mark, result, out>>

ReadLen ==
  /\ sized /\ cpc = "len"
  /\ LET l == slot_len[SlotOf(consumer_seq)]
     IN  IF l > MaxLen
         THEN /\ cpc' = "idle"
              /\ result' = "corrupt"
              /\ out' = NoOut
              /\ left' = {}
              /\ got' = Zeroed
              /\ UNCHANGED len
         ELSE /\ cpc' = "copy"
              /\ len' = l
              /\ left' = left \cap 1..l
              /\ got' = [w \in Word |-> IF w <= l THEN got[w] ELSE 0]
              /\ UNCHANGED <<result, out>>
  /\ UNCHANGED <<file, producer, consumer_seq, mark>>

ReadWord(w) ==
  /\ sized /\ cpc \in {"len", "copy"} /\ w \in left
  /\ got' = [got EXCEPT ![w] = slot_data[SlotOf(consumer_seq)][w]]
  /\ left' = left \ {w}
  /\ UNCHANGED <<file, producer, consumer_seq, cpc, len, mark, result, out>>

\* The producer has begun to overwrite the frame the consumer is reading, or
\* was started again since the consumer looked.
Lapped == base # mark \/ Len(sent) - base > consumer_seq + Slots

\* The copy is returned, whatever became of the slot meanwhile.
Return ==
  /\ cpc = "copy" /\ left = {}
  /\ result' = "frame"
  /\ out' = [due |-> mark + consumer_seq + 1, len |-> len, data |-> got,
             skipped |-> 0, lapped |-> Lapped]
  /\ consumer_seq' = consumer_seq + 1
  /\ cpc' = "idle"
  /\ len' = 0
  /\ got' = Zeroed
  /\ UNCHANGED <<file, producer, left, mark>>

Produce == (\E s \in UnderWay : StoreLength(s) \/ \E w \in Word : StoreWord(s, w)) \/ Publish

Consume == PollEmpty \/ PollOverrun \/ PollReady \/ ReadLen
           \/ (\E w \in Word : ReadWord(w)) \/ Return

Next == \/ \E l \in Lengths : Begin(l)
        \/ Produce \/ (\E s \in UnderWay : StoreHalfLength(s)) \/ Truncate \/ SetLen
        \/ Open \/ BusError \/ Consume

Spec == Init /\ [][Next]_vars

\* Both processes keep running.  Whether another frame is sent is not up to
\* the ring.
FairSpec == Spec /\ WF_vars(Produce) /\ WF_vars(Consume)

-----------------------------------------------------------------------------
(* Properties *)

TypeOK ==
  /\ sized \in BOOLEAN
  /\ seq \in Nat
  /\ slot_len \in [Slot -> Nat]
  /\ slot_data \in [Slot -> [Word -> Nat]]
  /\ next_seq \in Nat
  /\ todo \subseteq UnderWay \X (0..MaxLen)
  /\ sent \in Seq(0..MaxLen)
  /\ base \in Nat
  /\ consumer_seq \in Nat
  /\ cpc \in {"idle", "len", "copy", "killed"}
  /\ len \in 0..MaxLen
  /\ left \subseteq Word
  /\ got \in [Word -> Nat]
  /\ mark \in Nat
  /\ result \in {"none", "empty", "overrun", "corrupt", "frame"}
  /\ out \in [due : Nat, len : 0..MaxLen, data : [Word -> Nat],
              skipped : Nat, lapped : BOOLEAN]

\* The frame returned is the one that was due: its length, all its words.
Whole ==
  /\ out.due \in DOMAIN sent
  /\ out.len = sent[out.due]
  /\ \A w \in 1..out.len : out.data[w] = out.due

\* A frame is returned whole unless the producer began to write the frame
\* Slots after it, or was started again, before the copy was complete.
WholeUnlessLapped == result = "frame" /\ ~ out.lapped => Whole

\* The frames published, and the answer of the last call, as LossyLog has
\* them: a frame that is not whole came back damaged.
Published == SubSeq(sent, 1, seq)

Reply ==
  CASE result = "frame" /\ Whole    -> [kind |-> "frame", number |-> out.due, len |-> out.len]
    [] result = "frame" /\ ~ Whole  -> [kind |-> "damaged", number |-> out.due]
    [] result = "overrun"           -> [kind |-> "overrun", skipped |-> out.skipped]
    [] result \in {"none", "empty", "corrupt"} -> [kind |-> result]

Log == INSTANCE LossyLog WITH
         Length <- Lengths, log <- Published, next <- consumer_seq, reply <- Reply

\* While the producer lives, the ring is a LossyLog.
ImplementsLossyLog == Log!Spec

\* A consumer that keeps polling is done with everything published, once the
\* producer has no more to send and no other consumer takes its place.
Drained == <>[][~ Open]_vars => <>[](consumer_seq = seq)
=============================================================================

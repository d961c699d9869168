--------------------------- MODULE PyStreamProofs ---------------------------
(***************************************************************************)
(* Proofs about PyStream: the order of the frames, what a call that was    *)
(* given up costs, and the answers that come with the frames, for every    *)
(* number of threads, calls and frames and every set of models and depths. *)
(***************************************************************************)
EXTENDS PyStream, FiniteSetTheorems, SequenceTheorems, TLAPS

Answered == {<< >>} \cup {<<model, rounds>> : model \in Models, rounds \in Seq(Nat)}

CallRecord == [state : States, frame : Nat, answer : Answered]

Decoders == {<< >>} \cup {<<model>> : model \in Models}

Setups == [model : Models, depth : Depths]

MarkRecord == [at : Nat, model : Models, depth : Nat \ {0}]

Types ==
  /\ read \in Nat /\ sent \in Nat
  /\ calls \in Seq(CallRecord)
  /\ marks \in Seq(MarkRecord)
  /\ decoder \in Decoders
  /\ hint \in Nat
  /\ setting # << >> => setting[1] \in Setups

-----------------------------------------------------------------------------
(* The frames: only the latest call can still be waiting. *)

Settled == \A c \in DOMAIN calls : c < Len(calls) => calls[c].state \notin Waiting

FramesRead == \A c \in DOMAIN calls : calls[c].frame <= read

InOrder ==
  \A c, d \in DOMAIN calls :
    c < d /\ calls[c].frame # NoFrame /\ calls[d].frame # NoFrame =>
      calls[c].frame < calls[d].frame

Frames == Settled /\ FramesRead /\ InOrder

-----------------------------------------------------------------------------
(* The jobs: where each call's is. *)

Outstanding == Range(queue) \cup taken \cup native

Queue ==
  /\ queue \in Seq(Nat)
  /\ Outstanding \subseteq 0..Len(calls)
  /\ \A i, j \in DOMAIN queue : i # j /\ queue[i] = queue[j] => queue[i] = CloseJob

\* Which calls may have a job in the queue, and which with a thread.
MayBeQueued == {"queued"}
MayBeBusy == {"taken", "cancelled"}

Placed ==
  \A c \in DOMAIN calls :
    /\ calls[c].state \in {"queued", "taken"} =>
         calls[c].frame = NoFrame /\ calls[c].answer = << >>
    /\ calls[c].state \notin MayBeQueued => c \notin Range(queue)
    /\ calls[c].state \notin MayBeBusy => c \notin taken \cup native

\* The calls that had their frame, or will never read one.
Spent ==
  {c \in DOMAIN calls :
     \/ calls[c].state \in {"got", "frame"}
     \/ calls[c].state = "cancelled" /\ c \notin Outstanding}

\* A frame was read for each of so many calls.
Paid == read <= Cardinality(Spent)

JobsInv == Queue /\ Placed /\ Paid

-----------------------------------------------------------------------------
(* The window: the rounds since the decoder was set. *)

Held == IF window = << >> THEN << >> ELSE window[1].frames

Latest == marks[Len(marks)]

Current ==
  IF marks = << >> THEN decoder = << >> /\ window = << >>
  ELSE /\ Latest.at <= read
       /\ decoder = <<Latest.model>>
       /\ Latest.depth = Depth(Latest.model, hint)
       /\ window # << >> => window = <<[depth |-> Latest.depth, frames |-> Held]>>
       /\ Held = Rounds(Latest.at, read, Latest.depth)

Answers ==
  /\ \A k \in DOMAIN marks : marks[k].at <= read
  /\ Current
  /\ AnswersAreOfTheirTime

-----------------------------------------------------------------------------
(* What a step does to the calls *)

Placement == Types /\ Settled /\ Queue /\ Placed

Started == calls' = Append(calls, [state |-> "queued", frame |-> NoFrame, answer |-> << >>])

\* Call c, which waited, goes to another state.
Moved(c, state) ==
  /\ calls[c].state \in Waiting
  /\ calls' = [calls EXCEPT ![c] =
                 [state |-> state, frame |-> calls[c].frame, answer |-> calls[c].answer]]

\* Call c has the next frame.
Got(c) ==
  /\ calls[c].state = "taken"
  /\ calls' = [calls EXCEPT ![c] =
                 [state |-> "got", frame |-> read + 1, answer |-> Answer(window')]]

Changed ==
  \/ read' = read /\ calls' = calls
  \/ read' = read /\ Started /\ Resting
  \/ read' = read /\ \E c \in DOMAIN calls : \E state \in States : Moved(c, state)
  \/ read' = read + 1 /\ read < sent /\ calls' = calls
  \/ read' = read + 1 /\ read < sent /\ \E c \in DOMAIN calls : Got(c)

\* The record of a call, and its number.
LEMMA CallFields ==
  ASSUME Types, NEW c \in DOMAIN calls
  PROVE  /\ calls[c] \in CallRecord
         /\ calls[c].state \in States /\ calls[c].frame \in Nat /\ calls[c].answer \in Answered
         /\ c \in 1..Len(calls) /\ Len(calls) \in Nat
<1>1. calls[c] \in CallRecord
  BY DEF Types
<1>2. QED
  BY <1>1 DEF CallRecord, Types

\* A job of a call that has a number has a call.
LEMMA JobsHaveCalls ==
  ASSUME Placement, NEW job \in Outstanding, job # CloseJob
  PROVE  job \in DOMAIN calls /\ job \in Nat
<1>1. job \in 0..Len(calls) /\ Len(calls) \in Nat /\ DOMAIN calls = 1..Len(calls)
  BY DEF Placement, Types, Queue
<1>2. QED
  BY <1>1 DEF CloseJob

\* A record with another state.
LEMMA OtherState ==
  ASSUME NEW r \in CallRecord, NEW state
  PROVE  [r EXCEPT !.state = state] = [state |-> state, frame |-> r.frame, answer |-> r.answer]
BY DEF CallRecord

\* A call that waits becomes another state and keeps the rest.
LEMMA BecameMoves ==
  ASSUME Types, NEW c \in DOMAIN calls, NEW state \in States,
         calls[c].state \in Waiting, Became(c, state)
  PROVE  Moved(c, state)
<1>1. calls[c] \in CallRecord
  BY DEF Types
<1>2. QED
  BY <1>1, OtherState DEF Moved, Became

\* A job that ends leaves the calls alone, or its own call takes the result.
LEMMA ResultChanges ==
  ASSUME Placement, NEW job \in taken \cup native,
         NEW state, NEW frame, NEW answer, Result(job, state, frame, answer)
  PROVE  \/ calls' = calls
         \/ /\ job \in DOMAIN calls /\ calls[job].state = "taken"
            /\ calls' = [calls EXCEPT ![job] =
                           [state |-> state, frame |-> frame, answer |-> answer]]
<1>1. job \in Outstanding
  BY DEF Outstanding
<1>2. job # CloseJob => job \in DOMAIN calls
  BY <1>1, JobsHaveCalls
<1>3. QED
  BY <1>2 DEF Result

\* A call whose job has not run yet has no frame, and an end has none.
LEMMA FailureMoves ==
  ASSUME Placement, NEW job \in taken \cup native, NEW state \in {"failed", "ended"},
         Result(job, state, NoFrame, << >>),
         \A c \in DOMAIN calls : calls[c].state = "taken" =>
            calls[c].frame = NoFrame /\ calls[c].answer = << >>
  PROVE  calls' = calls \/ \E c \in DOMAIN calls : \E s \in States : Moved(c, s)
<1>1. CASE calls' = calls
  BY <1>1
<1>2. CASE /\ job \in DOMAIN calls /\ calls[job].state = "taken"
           /\ calls' = [calls EXCEPT ![job] = [state |-> state, frame |-> NoFrame, answer |-> << >>]]
  <2>1. state \in States /\ calls[job].state \in Waiting
    BY <1>2 DEF States, Waiting
  <2>2. Moved(job, state)
    BY <1>2, <2>1 DEF Moved
  <2>3. QED
    BY <1>2, <2>1, <2>2
<1>3. QED
  BY <1>1, <1>2, ResultChanges

\* Every step of the program is one of the changes.
LEMMA StepChanges ==
  ASSUME Placement, [Next]_vars
  PROVE  Changed
<1> USE DEF Changed
<1>1. CASE Send \/ HangUp \/ Aclose \/ EndSet \/ SetFails
  BY <1>1 DEF Send, HangUp, Aclose, EndSet, SetFails, stream
<1>2. CASE \E model \in Models, depth \in Depths : BeginSet(model, depth)
  BY <1>2 DEF BeginSet, stream
<1>3. CASE Anext
  BY <1>3 DEF Anext, Started, stream
<1>4. CASE Deliver
  <2>1. PICK state \in {"frame", "stopped", "error"} :
          calls[Len(calls)].state \in {"got", "ended", "failed"} /\ Became(Len(calls), state)
    BY <1>4 DEF Deliver
  <2>2. Len(calls) \in DOMAIN calls
    BY <1>4 DEF Deliver, Resting, Placement, Types
  <2>3. Moved(Len(calls), state)
    BY <2>1, <2>2, BecameMoves DEF Placement, States, Waiting
  <2>4. read' = read
    BY <1>4 DEF Deliver, stream
  <2>5. QED
    BY <2>2, <2>3, <2>4 DEF States
<1>5. CASE Cancel
  <2>1. Len(calls) \in DOMAIN calls /\ calls[Len(calls)].state \in Waiting
    <3>1. PICK c \in DOMAIN calls : calls[c].state \in Waiting
      BY <1>5 DEF Cancel, Resting
    <3>2. c = Len(calls)
      BY <3>1 DEF Placement, Settled, Types
    <3>3. QED
      BY <3>1, <3>2
  <2>2. Became(Len(calls), "cancelled") /\ read' = read
    BY <1>5 DEF Cancel, stream
  <2>3. Moved(Len(calls), "cancelled")
    BY <2>1, <2>2, BecameMoves DEF Placement, States
  <2>4. QED
    BY <2>1, <2>2, <2>3 DEF States
<1>6. CASE TakeJob
  <2>1. CASE Head(queue) = CloseJob
    BY <1>6, <2>1 DEF TakeJob, stream
  <2>2. CASE Head(queue) # CloseJob
    <3> DEFINE c == Head(queue)
    <3>1. c \in Range(queue)
      BY <1>6 DEF TakeJob, Placement, Queue, Range
    <3>2. c \in DOMAIN calls
      BY <2>2, <3>1, JobsHaveCalls DEF Outstanding
    <3>3. calls[c].state = "queued"
      <4>1. calls[c].state \in States
        BY <3>2, CallFields DEF Placement
      <4>2. QED
        BY <3>1, <3>2, <4>1 DEF Placement, Placed, Outstanding, MayBeQueued, MayBeBusy
    <3>4. Became(c, "taken")
      BY <1>6, <2>2 DEF TakeJob, Became
    <3>5. Moved(c, "taken")
      BY <3>2, <3>3, <3>4, BecameMoves DEF Placement, States, Waiting
    <3>6. read' = read
      BY <1>6 DEF TakeJob, stream
    <3>7. QED
      BY <3>2, <3>5, <3>6 DEF States
  <2>3. QED
    BY <2>1, <2>2
<1>7. CASE RunJob
  <2>1. PICK job \in Jobs : Enter(job) \/ Refused(job)
    BY <1>7 DEF RunJob
  <2>2. CASE Enter(job)
    BY <2>2 DEF Enter, stream
  <2>3. CASE Refused(job)
    BY <2>3, FailureMoves DEF Refused, stream, Placement, Placed
  <2>4. QED
    BY <2>1, <2>2, <2>3
<1>8. CASE ReadFrame
  <2>1. PICK job \in native \ {CloseJob} :
          /\ read < sent /\ read' = read + 1
          /\ Result(job, "got", read + 1, Answer(window'))
    BY <1>8 DEF ReadFrame
  <2>2. \/ calls' = calls
        \/ /\ job \in DOMAIN calls /\ calls[job].state = "taken"
           /\ calls' = [calls EXCEPT ![job] =
                          [state |-> "got", frame |-> read + 1, answer |-> Answer(window')]]
    BY <2>1, ResultChanges
  <2>3. QED
    BY <2>1, <2>2 DEF Got
<1>9. CASE ReadEnd \/ ReadFails
  <2>1. PICK job \in native : \E state \in {"failed", "ended"} :
          Result(job, state, NoFrame, << >>) /\ UNCHANGED stream
    BY <1>9 DEF ReadEnd, ReadFails
  <2>2. QED
    BY <2>1, FailureMoves DEF stream, Placement, Placed
<1>10. CASE Close
  BY <1>10 DEF Close, Result
<1>11. CASE UNCHANGED vars
  BY <1>11 DEF vars, stream
<1>12. QED
  BY <1>1, <1>2, <1>3, <1>4, <1>5, <1>6, <1>7, <1>8, <1>9, <1>10, <1>11
     DEF Next, Loop, Thread, Native

-----------------------------------------------------------------------------
(* Types *)

\* A window holds a round at least, also for a decoder of no detectors.
LEMMA DepthPositive ==
  ASSUME NEW model \in Models, NEW depth \in Nat
  PROVE  Depth(model, depth) \in Nat \ {0}
<1> DEFINE width == IF AncillaCount = 0 THEN 1 ELSE AncillaCount
<1>1. width \in Nat \ {0} /\ model.detector_count \in Nat
  BY PyStreamAssumption
<1>2. model.detector_count \div width \in Nat
  BY <1>1
<1>3. QED
  BY <1>2 DEF Depth

\* A step of the calls keeps their records; what the answers are made of is
\* left to the caller.
LEMMA ChangedKeepsRecords ==
  ASSUME Types, Changed, read' = read + 1 => Answer(window') \in Answered
  PROVE  calls' \in Seq(CallRecord) /\ read' \in Nat
<1>1. CASE calls' = calls
  BY <1>1 DEF Changed, Types
<1>2. CASE Started
  <2>1. [state |-> "queued", frame |-> NoFrame, answer |-> << >>] \in CallRecord
    BY DEF CallRecord, States, NoFrame, Answered
  <2>2. QED
    BY <1>2, <2>1, AppendProperties DEF Started, Types, Changed
<1>3. ASSUME NEW c \in DOMAIN calls, NEW state \in States, Moved(c, state)
      PROVE  calls' \in Seq(CallRecord)
  <2>1. [state |-> state, frame |-> calls[c].frame, answer |-> calls[c].answer] \in CallRecord
    BY <1>3, CallFields DEF CallRecord
  <2>2. QED
    BY <1>3, <2>1, CallFields, ExceptSeq DEF Moved, Types
<1>4. ASSUME NEW c \in DOMAIN calls, Got(c), read' = read + 1
      PROVE  calls' \in Seq(CallRecord)
  <2>1. Answer(window') \in Answered
    BY <1>4
  <2>2. [state |-> "got", frame |-> read + 1, answer |-> Answer(window')] \in CallRecord
    BY <2>1 DEF CallRecord, States, Types
  <2>3. QED
    BY <1>4, <2>2, CallFields, ExceptSeq DEF Got, Types
<1>5. QED
  BY <1>1, <1>2, <1>3, <1>4 DEF Changed, Types

-----------------------------------------------------------------------------
(* Frames *)

\* The next frame is later than all before it, and only the latest call waits.
LEMMA FramesKept ==
  ASSUME Types, Frames, Changed
  PROVE  Frames'
<1>1. CASE calls' = calls
  <2>1. read <= read' /\ read' \in Nat
    BY DEF Changed, Types
  <2>2. ASSUME NEW c \in DOMAIN calls
        PROVE  calls[c].frame <= read'
    BY <2>1, CallFields DEF Frames, FramesRead, Types
  <2>3. QED
    BY <1>1, <2>2 DEF Frames, Settled, FramesRead, InOrder
<1>2. CASE read' = read /\ Started /\ Resting
  <2> DEFINE new == [state |-> "queued", frame |-> NoFrame, answer |-> << >>]
  <2>1. new \in CallRecord
    BY DEF CallRecord, States, NoFrame, Answered
  <2>2. /\ Len(calls') = Len(calls) + 1
        /\ \A c \in 1..Len(calls) : calls'[c] = calls[c]
        /\ calls'[Len(calls) + 1] = new
        /\ DOMAIN calls' = 1..(Len(calls) + 1)
        /\ DOMAIN calls = 1..Len(calls) /\ Len(calls) \in Nat
    BY <1>2, <2>1, AppendProperties, LenProperties DEF Started, Types
  <2> HIDE DEF new
  <2>3. new.frame = NoFrame
    BY DEF new
  <2>4. Settled'
    BY <1>2, <2>2 DEF Settled, Resting
  <2>5. FramesRead'
    BY <1>2, <2>2, <2>3 DEF Frames, FramesRead, NoFrame, Types
  <2>6. InOrder'
    BY <2>2, <2>3 DEF Frames, InOrder
  <2>7. QED
    BY <2>4, <2>5, <2>6 DEF Frames
<1>3. ASSUME NEW c \in DOMAIN calls, NEW state \in States, Moved(c, state), read' = read
      PROVE  Frames'
  <2> DEFINE new == [state |-> state, frame |-> calls[c].frame, answer |-> calls[c].answer]
  <2>1. new \in CallRecord
    BY CallFields DEF CallRecord
  <2>2. /\ Len(calls') = Len(calls) /\ DOMAIN calls' = DOMAIN calls
        /\ \A d \in DOMAIN calls : calls'[d] = IF d = c THEN new ELSE calls[d]
    BY <1>3, <2>1, ExceptSeq, LenProperties DEF Moved, Types
  <2> HIDE DEF new
  <2>3. new.frame = calls[c].frame
    BY DEF new
  <2>4. \A d \in DOMAIN calls : calls'[d].frame = calls[d].frame
    BY <2>2, <2>3
  <2>5. c \notin 1..(Len(calls) - 1)
    BY <1>3, LenProperties DEF Moved, Frames, Settled, Types
  <2>6. Settled'
    <3> SUFFICES ASSUME NEW d \in DOMAIN calls, d < Len(calls)
                 PROVE  calls'[d].state \notin Waiting
      BY <2>2 DEF Settled
    <3>1. d # c
      BY <2>5, LenProperties DEF Types
    <3>2. QED
      BY <2>2, <3>1 DEF Frames, Settled
  <2>7. FramesRead' /\ InOrder'
    BY <1>3, <2>2, <2>4 DEF Frames, FramesRead, InOrder
  <2>8. QED
    BY <2>6, <2>7 DEF Frames
<1>4. ASSUME NEW c \in DOMAIN calls, Got(c), read' = read + 1
      PROVE  Frames'
  <2> DEFINE new == [state |-> "got", frame |-> read + 1, answer |-> Answer(window')]
  <2>1. /\ Len(calls') = Len(calls) /\ DOMAIN calls' = DOMAIN calls
        /\ \A d \in DOMAIN calls : calls'[d] = IF d = c THEN new ELSE calls[d]
    BY <1>4 DEF Got, Types
  <2> HIDE DEF new
  <2>2. new.frame = read + 1
    BY DEF new
  <2>3. c = Len(calls) /\ DOMAIN calls = 1..Len(calls) /\ Len(calls) \in Nat
    BY <1>4, LenProperties DEF Got, Waiting, Frames, Settled, Types
  <2>4. \A d \in DOMAIN calls : d # c => calls[d].frame \in Nat /\ calls[d].frame <= read
    BY CallFields DEF Frames, FramesRead
  <2>5. Settled'
    BY <2>1, <2>3 DEF Frames, Settled
  <2>6. FramesRead'
    BY <1>4, <2>1, <2>2, <2>4 DEF FramesRead, Types
  <2>7. InOrder'
    <3> SUFFICES ASSUME NEW d \in DOMAIN calls, NEW e \in DOMAIN calls, d < e,
                        calls'[d].frame # NoFrame, calls'[e].frame # NoFrame
                 PROVE  calls'[d].frame < calls'[e].frame
      BY <2>1 DEF InOrder
    <3>1. d # c /\ calls'[d] = calls[d]
      BY <2>1, <2>3
    <3>2. CASE e = c
      BY <2>1, <2>2, <2>4, <3>1, <3>2 DEF Types
    <3>3. CASE e # c
      BY <2>1, <3>1, <3>3 DEF Frames, InOrder
    <3>4. QED
      BY <3>2, <3>3
  <2>8. QED
    BY <2>5, <2>6, <2>7 DEF Frames
<1>5. QED
  BY <1>1, <1>2, <1>3, <1>4 DEF Changed

-----------------------------------------------------------------------------
(* The window *)

\* The rounds of a window, how many they are and which.
LEMMA RoundsType ==
  ASSUME NEW after \in Nat, NEW frame \in Nat, after <= frame, NEW depth \in Nat \ {0}
  PROVE  /\ Rounds(after, frame, depth) \in Seq(Nat)
         /\ Len(Rounds(after, frame, depth)) = IF depth < frame - after THEN depth ELSE frame - after
         /\ \A k \in 1..Len(Rounds(after, frame, depth)) :
              Rounds(after, frame, depth)[k] = frame - Len(Rounds(after, frame, depth)) + k
<1> DEFINE n == IF depth < frame - after THEN depth ELSE frame - after
           rounds == [k \in 1..n |-> frame - n + k]
<1>1. n \in Nat /\ n <= frame
  OBVIOUS
<1>2. rounds = Rounds(after, frame, depth)
  BY DEF Rounds
<1> HIDE DEF n
<1>3. rounds \in [1..n -> Nat]
  BY <1>1
<1>4. rounds \in Seq(Nat)
  BY <1>1, <1>3, SeqDef
<1>5. Len(rounds) = n
  BY <1>1, <1>3, <1>4, LenProperties
<1>6. \A k \in 1..n : rounds[k] = frame - n + k
  OBVIOUS
<1> HIDE DEF rounds
<1>7. QED
  BY <1>2, <1>4, <1>5, <1>6 DEF n

\* No rounds yet when a decoder has just been set.
LEMMA NoRoundsYet ==
  ASSUME NEW frame \in Nat, NEW depth \in Nat \ {0}
  PROVE  Rounds(frame, frame, depth) = << >>
<1>1. frame <= frame
  OBVIOUS
<1>2. Len(Rounds(frame, frame, depth)) = IF depth < frame - frame THEN depth ELSE frame - frame
  BY <1>1, RoundsType
<1>3. Rounds(frame, frame, depth) \in Seq(Nat)
  BY <1>1, RoundsType
<1>4. Len(Rounds(frame, frame, depth)) = 0
  BY <1>2
<1>5. QED
  BY <1>3, <1>4, EmptySeq

\* A push makes the rounds up to a frame the rounds up to the next.
LEMMA SlideRounds ==
  ASSUME NEW after \in Nat, NEW frame \in Nat, after <= frame, NEW depth \in Nat \ {0}
  PROVE  Slide(Rounds(after, frame, depth), depth, frame + 1) = Rounds(after, frame + 1, depth)
<1> DEFINE old == Rounds(after, frame, depth)
           new == Rounds(after, frame + 1, depth)
           n == Len(old)
<1>1. /\ old \in Seq(Nat) /\ n \in Nat
      /\ n = IF depth < frame - after THEN depth ELSE frame - after
      /\ \A k \in 1..n : old[k] = frame - n + k
  BY RoundsType, LenProperties
<1>2. /\ new \in Seq(Nat) /\ Len(new) \in Nat
      /\ Len(new) = IF depth < frame + 1 - after THEN depth ELSE frame + 1 - after
      /\ \A k \in 1..Len(new) : new[k] = frame + 1 - Len(new) + k
  <2> DEFINE next == frame + 1
  <2>1. next \in Nat /\ after <= next
    OBVIOUS
  <2> HIDE DEF next
  <2>2. /\ Rounds(after, next, depth) \in Seq(Nat) /\ Len(Rounds(after, next, depth)) \in Nat
        /\ Len(Rounds(after, next, depth)) = IF depth < next - after THEN depth ELSE next - after
        /\ \A k \in 1..Len(Rounds(after, next, depth)) :
             Rounds(after, next, depth)[k] = next - Len(Rounds(after, next, depth)) + k
    BY <2>1, RoundsType, LenProperties
  <2>3. QED
    BY <2>2 DEF next
<1> HIDE DEF old, new
<1>3. CASE n = depth
  <2> DEFINE rest == SubSeq(old, 2, n)
  <2>1. /\ rest \in Seq(Nat) /\ Len(rest) = n - 1
        /\ \A k \in 1..n - 1 : rest[k] = old[k + 1]
    BY <1>1, <1>3
  <2>2. /\ Append(rest, frame + 1) \in Seq(Nat) /\ Len(Append(rest, frame + 1)) = n
        /\ \A k \in 1..n - 1 : Append(rest, frame + 1)[k] = frame - n + k + 1
        /\ Append(rest, frame + 1)[n] = frame + 1
    <3> HIDE DEF rest
    <3>1. QED
      BY <1>1, <1>3, <2>1, AppendProperties
  <2> HIDE DEF rest
  <2>3. Append(rest, frame + 1) = new
    <3> DEFINE app == Append(rest, frame + 1)
    <3>1. Len(app) = Len(new)
      BY <1>1, <1>2, <1>3, <2>2
    <3>2. ASSUME NEW k \in 1..Len(app)
          PROVE  app[k] = new[k]
      <4>1. k \in 1..n /\ n \in Nat /\ n = Len(new) /\ k \in 1..Len(new)
        BY <1>1, <1>2, <1>3, <2>2
      <4>2. new[k] = frame + 1 - n + k
        BY <1>2, <4>1
      <4>3. CASE k = n
        BY <2>2, <4>1, <4>2, <4>3
      <4>4. CASE k # n
        <5>1. k \in 1..n - 1
          BY <4>1, <4>4
        <5>2. QED
          BY <2>2, <4>1, <4>2, <5>1
      <4>5. QED
        BY <4>3, <4>4
    <3> HIDE DEF app
    <3>3. app \in Seq(Nat)
      BY <2>2 DEF app
    <3>4. app = new
      BY <1>2, <3>1, <3>2, <3>3, SeqEqual
    <3>5. QED
      BY <3>4 DEF app
  <2>4. QED
    BY <1>3, <2>3 DEF Slide, old, new, rest
<1>4. CASE n # depth
  <2> DEFINE app == Append(old, frame + 1)
  <2>1. /\ app \in Seq(Nat) /\ Len(app) = n + 1
        /\ \A k \in 1..n : app[k] = frame - n + k
        /\ app[n + 1] = frame + 1
    BY <1>1, AppendProperties
  <2> HIDE DEF app
  <2>2. Len(app) = Len(new)
    BY <1>1, <1>2, <1>4, <2>1
  <2>3. ASSUME NEW k \in 1..Len(app)
        PROVE  app[k] = new[k]
    <3>1. k \in 1..n + 1 /\ k \in 1..Len(new) /\ Len(new) = n + 1 /\ n \in Nat
      BY <1>1, <2>1, <2>2
    <3>2. new[k] = frame - n + k
      <4>1. new[k] = frame + 1 - Len(new) + k
        BY <1>2, <3>1
      <4> HIDE DEF n
      <4>2. k \in Int /\ frame + 1 - (n + 1) + k = frame - n + k
        BY <3>1
      <4>3. QED
        BY <3>1, <4>1, <4>2
    <3>3. app[k] = frame - n + k
      <4>1. CASE k = n + 1
        BY <2>1, <3>1, <4>1
      <4>2. CASE k # n + 1
        <5>1. k \in 1..n
          BY <3>1, <4>2
        <5>2. QED
          BY <2>1, <5>1
      <4>3. QED
        BY <4>1, <4>2
    <3>4. QED
      BY <3>2, <3>3
  <2>4. app = new
    BY <1>2, <2>1, <2>2, <2>3, SeqEqual
  <2>5. QED
    BY <1>4, <2>4 DEF Slide, old, new, app
<1>5. QED
  BY <1>3, <1>4

\* What a step does to the window: nothing, a push, or a new decoder.
Still == UNCHANGED <<read, decoder, window, hint, marks>>

Pushes ==
  /\ read' = read + 1
  /\ window' = Pushed(read + 1)
  /\ UNCHANGED <<decoder, hint, marks>>

\* Every step of the program does one of these to the window.
LEMMA WindowChanges ==
  ASSUME [Next]_vars
  PROVE  Still \/ Pushes \/ EndSet
<1> USE DEF Still, stream
<1>1. CASE Send \/ HangUp
  BY <1>1 DEF Send, HangUp
<1>2. CASE Anext \/ Deliver \/ Cancel \/ Aclose \/ SetFails
  BY <1>2 DEF Anext, Deliver, Cancel, Aclose, SetFails
<1>3. CASE \E model \in Models, depth \in Depths : BeginSet(model, depth)
  BY <1>3 DEF BeginSet
<1>4. CASE TakeJob
  BY <1>4 DEF TakeJob
<1>5. CASE RunJob
  BY <1>5 DEF RunJob, Enter, Refused, Result
<1>6. CASE ReadFrame
  BY <1>6 DEF ReadFrame, Result, Pushes
<1>7. CASE ReadEnd \/ ReadFails \/ Close
  BY <1>7 DEF ReadEnd, ReadFails, Close, Result
<1>8. CASE UNCHANGED vars
  BY <1>8 DEF vars
<1>9. QED
  BY <1>1, <1>2, <1>3, <1>4, <1>5, <1>6, <1>7, <1>8 DEF Next, Loop, Thread, Native

\* The decoder that was set last.
LEMMA LatestType ==
  ASSUME Types, marks # << >>
  PROVE  /\ Len(marks) \in DOMAIN marks /\ Latest \in MarkRecord
         /\ Latest.at \in Nat /\ Latest.model \in Models /\ Latest.depth \in Nat \ {0}
<1>1. Len(marks) \in DOMAIN marks /\ Latest \in MarkRecord
  BY DEF Types, Latest
<1>2. QED
  BY <1>1 DEF MarkRecord

\* The window after a push holds the rounds since the decoder was set.
LEMMA PushedWindow ==
  ASSUME Types, Current, marks # << >>
  PROVE  Pushed(read + 1) =
           <<[depth |-> Latest.depth, frames |-> Rounds(Latest.at, read + 1, Latest.depth)]>>
<1>1. /\ decoder = <<Latest.model>> /\ decoder # << >> /\ decoder[1] = Latest.model
      /\ Latest.depth = Depth(Latest.model, hint)
      /\ Latest.at <= read
  BY DEF Current
<1>2. Slide(Held, Latest.depth, read + 1) = Rounds(Latest.at, read + 1, Latest.depth)
  <2>1. /\ Held = Rounds(Latest.at, read, Latest.depth)
        /\ Latest.at \in Nat /\ Latest.depth \in Nat \ {0} /\ read \in Nat
    BY LatestType DEF Current, Types
  <2>2. Slide(Rounds(Latest.at, read, Latest.depth), Latest.depth, read + 1)
          = Rounds(Latest.at, read + 1, Latest.depth)
    BY <1>1, <2>1, SlideRounds
  <2>3. QED
    BY <2>1, <2>2
<1>3. CASE window = << >>
  <2>1. Held = << >>
    BY <1>3 DEF Held
  <2>2. Slide(<< >>, Latest.depth, read + 1) = Rounds(Latest.at, read + 1, Latest.depth)
    BY <1>2, <2>1
  <2>3. QED
    BY <1>1, <1>3, <2>2 DEF Pushed
<1>4. CASE window # << >>
  <2>1. window[1].depth = Latest.depth /\ window[1].frames = Held
    BY <1>4 DEF Current
  <2>2. QED
    BY <1>1, <1>2, <1>4, <2>1 DEF Pushed
<1>5. QED
  BY <1>3, <1>4

\* The answer that is read from that window.
LEMMA PushedAnswer ==
  ASSUME Types, Current, Pushes
  PROVE  /\ marks = << >> => Answer(window') = << >>
         /\ marks # << >> => Answer(window') = <<Latest.model, Rounds(Latest.at, read + 1, Latest.depth)>>
         /\ Answer(window') \in Answered
<1>1. CASE marks = << >>
  BY <1>1 DEF Current, Answer, Answered
<1>2. CASE marks # << >>
  <2>1. window' = <<[depth |-> Latest.depth, frames |-> Rounds(Latest.at, read + 1, Latest.depth)]>>
    BY <1>2, PushedWindow DEF Pushes
  <2>2. decoder # << >> /\ decoder[1] = Latest.model
    BY <1>2 DEF Current
  <2>3. Answer(window') = <<Latest.model, Rounds(Latest.at, read + 1, Latest.depth)>>
    BY <2>1, <2>2 DEF Answer
  <2>4. Rounds(Latest.at, read + 1, Latest.depth) \in Seq(Nat)
    <3> DEFINE next == read + 1
    <3>1. next \in Nat /\ Latest.at <= next
      BY <1>2, LatestType DEF Current, Types
    <3> HIDE DEF next
    <3>2. Rounds(Latest.at, next, Latest.depth) \in Seq(Nat)
      BY <1>2, <3>1, LatestType, RoundsType
    <3>3. QED
      BY <3>2 DEF next
  <2>5. QED
    BY <1>2, <2>3, <2>4, LatestType DEF Answered
<1>3. QED
  BY <1>1, <1>2

\* What set_decoder leaves behind is a mark.
LEMMA NewMark ==
  ASSUME Types, EndSet
  PROVE  /\ setting[1] \in Setups /\ setting[1].model \in Models /\ setting[1].depth \in Nat
         /\ Mark(setting[1]) \in MarkRecord
<1>1. setting[1] \in Setups
  BY DEF EndSet, Types
<1>2. setting[1].model \in Models /\ setting[1].depth \in Nat
  BY <1>1, PyStreamAssumption DEF Setups
<1>3. QED
  BY <1>1, <1>2, DepthPositive DEF Mark, MarkRecord, Types

\* A step keeps the types.
LEMMA TypesKept ==
  ASSUME Placement, Current, Changed, [Next]_vars
  PROVE  Types'
<1>1. Still \/ Pushes \/ EndSet
  BY WindowChanges
<1>2. read' = read + 1 => Answer(window') \in Answered
  BY <1>1, PushedAnswer DEF Still, EndSet, Placement, Types
<1>3. calls' \in Seq(CallRecord) /\ read' \in Nat
  BY <1>2, ChangedKeepsRecords DEF Placement
<1>4. marks' \in Seq(MarkRecord) /\ decoder' \in Decoders /\ hint' \in Nat
  <2>1. CASE EndSet
    <3>1. setting[1].model \in Models /\ setting[1].depth \in Nat /\ Mark(setting[1]) \in MarkRecord
      BY <2>1, NewMark DEF Placement
    <3>2. marks' \in Seq(MarkRecord)
      BY <2>1, <3>1, AppendProperties DEF EndSet, Placement, Types
    <3>3. decoder' \in Decoders /\ hint' \in Nat
      BY <2>1, <3>1 DEF EndSet, Decoders
    <3>4. QED
      BY <3>2, <3>3
  <2>2. CASE Still \/ Pushes
    BY <2>2 DEF Still, Pushes, Placement, Types
  <2>3. QED
    BY <1>1, <2>1, <2>2
<1>5. sent' \in Nat
  <2>1. sent' = sent \/ sent' = sent + 1
    BY DEF Next, Loop, Thread, Native, vars, peer, Send, HangUp, Anext, Deliver, Cancel, Aclose,
           SetFails, EndSet, BeginSet, TakeJob, RunJob, Enter, Refused, ReadFrame, ReadEnd,
           ReadFails, Close, Result
  <2>2. QED
    BY <2>1 DEF Placement, Types
<1>6. setting' # << >> => setting'[1] \in Setups
  <2>1. \/ setting' = setting \/ setting' = << >>
        \/ \E model \in Models, depth \in Depths : setting' = <<[model |-> model, depth |-> depth]>>
    BY DEF Next, Loop, Thread, Native, vars, Send, HangUp, Anext, Deliver, Cancel, Aclose,
           SetFails, EndSet, BeginSet, TakeJob, RunJob, Enter, Refused, ReadFrame, ReadEnd,
           ReadFails, Close, Result
  <2>2. QED
    BY <2>1 DEF Placement, Types, Setups
<1>7. QED
  BY <1>3, <1>4, <1>5, <1>6 DEF Types

-----------------------------------------------------------------------------
(* Answers *)

\* What AnswersAreOfTheirTime says of one frame and its answer.
OfItsTime(frame, answer, sets) ==
  LET before == {k \in DOMAIN sets : sets[k].at < frame}
  IN  frame # NoFrame =>
        \/ before = {} /\ answer = << >>
        \/ \E k \in before :
             /\ \A j \in before : j <= k
             /\ answer = <<sets[k].model, Rounds(sets[k].at, frame, sets[k].depth)>>

\* AnswersAreOfTheirTime, one answer at a time.
LEMMA AnswerByAnswer ==
  AnswersAreOfTheirTime <=>
    \A c \in DOMAIN calls : OfItsTime(calls[c].frame, calls[c].answer, marks)
BY DEF AnswersAreOfTheirTime, OfItsTime

\* A decoder that is set changes nothing for the frames read before.
LEMMA OldAnswersStay ==
  ASSUME Types, NEW mark \in MarkRecord, NEW frame \in Nat, NEW answer,
         frame <= mark.at, OfItsTime(frame, answer, marks)
  PROVE  OfItsTime(frame, answer, Append(marks, mark))
<1> DEFINE sets == Append(marks, mark)
           before == {k \in DOMAIN marks : marks[k].at < frame}
           after == {k \in DOMAIN sets : sets[k].at < frame}
<1>1. /\ DOMAIN marks = 1..Len(marks) /\ Len(marks) \in Nat
      /\ DOMAIN sets = 1..(Len(marks) + 1)
      /\ \A k \in 1..Len(marks) : sets[k] = marks[k]
      /\ sets[Len(marks) + 1] = mark
  BY AppendProperties, LenProperties DEF Types
<1>2. mark.at \in Nat
  BY DEF MarkRecord
<1> HIDE DEF sets
<1>3. after = before
  BY <1>1, <1>2
<1>4. \A k \in before : sets[k] = marks[k]
  BY <1>1
<1> HIDE DEF after, before
<1>5. frame # NoFrame =>
        \/ before = {} /\ answer = << >>
        \/ \E k \in before :
             /\ \A j \in before : j <= k
             /\ answer = <<marks[k].model, Rounds(marks[k].at, frame, marks[k].depth)>>
  BY DEF OfItsTime, before
<1>6. frame # NoFrame =>
        \/ after = {} /\ answer = << >>
        \/ \E k \in after :
             /\ \A j \in after : j <= k
             /\ answer = <<sets[k].model, Rounds(sets[k].at, frame, sets[k].depth)>>
  BY <1>3, <1>4, <1>5
<1>7. QED
  BY <1>6 DEF OfItsTime, after, sets

\* The answer that comes with the next frame.
LEMMA NextAnswer ==
  ASSUME Types, Answers, Pushes
  PROVE  OfItsTime(read + 1, Answer(window'), marks)
<1> DEFINE before == {k \in DOMAIN marks : marks[k].at < read + 1}
<1>1. DOMAIN marks = 1..Len(marks) /\ Len(marks) \in Nat
  BY LenProperties DEF Types
<1>2. \A k \in DOMAIN marks : marks[k].at \in Nat /\ marks[k].at <= read
  <2> TAKE k \in DOMAIN marks
  <2>1. marks[k] \in MarkRecord
    BY DEF Types
  <2>2. QED
    BY <2>1 DEF MarkRecord, Answers
<1>3. before = DOMAIN marks
  <2>1. read \in Nat
    BY DEF Types
  <2>2. \A k \in DOMAIN marks : marks[k].at < read + 1
    BY <1>2, <2>1
  <2>3. QED
    BY <2>2
<1>4. CASE marks = << >>
  <2>1. before = {} /\ Answer(window') = << >>
    BY <1>1, <1>3, <1>4, PushedAnswer DEF Answers
  <2>2. QED
    BY <2>1 DEF OfItsTime
<1>5. CASE marks # << >>
  <2>1. Answer(window') = <<Latest.model, Rounds(Latest.at, read + 1, Latest.depth)>>
    BY <1>5, PushedAnswer DEF Answers
  <2>2. Len(marks) \in before /\ \A j \in before : j <= Len(marks)
    BY <1>1, <1>3, <1>5, LatestType
  <2>3. QED
    BY <2>1, <2>2 DEF OfItsTime, Latest
<1>6. QED
  BY <1>4, <1>5

\* A step keeps the window in step with the decoder that was set last.
LEMMA CurrentKept ==
  ASSUME Placement, Answers, Changed, Still \/ Pushes \/ EndSet
  PROVE  Current' /\ \A k \in DOMAIN marks' : marks'[k].at <= read'
<1>1. CASE Still
  BY <1>1 DEF Still, Answers, Current, Latest, Held
<1>2. CASE Pushes
  <2>1. \A k \in DOMAIN marks : marks[k].at \in Nat /\ marks[k].at <= read
    <3> TAKE k \in DOMAIN marks
    <3>1. marks[k] \in MarkRecord
      BY DEF Placement, Types
    <3>2. QED
      BY <3>1 DEF MarkRecord, Answers
  <2>2. \A k \in DOMAIN marks' : marks'[k].at <= read'
    BY <1>2, <2>1 DEF Pushes, Placement, Types
  <2>3. CASE marks = << >>
    BY <1>2, <2>3 DEF Pushes, Pushed, Answers, Current
  <2>4. CASE marks # << >>
    <3>1. window' = <<[depth |-> Latest.depth, frames |-> Rounds(Latest.at, read + 1, Latest.depth)]>>
      BY <1>2, <2>4, PushedWindow DEF Pushes, Placement, Answers
    <3>2. window' # << >> /\ Held' = Rounds(Latest.at, read + 1, Latest.depth)
      BY <3>1 DEF Held
    <3>3. Latest' = Latest /\ marks' # << >> /\ decoder' = decoder /\ hint' = hint
      BY <1>2, <2>4 DEF Pushes, Latest
    <3>4. Latest.at <= read'
      BY <1>2, <2>1, <2>4, LatestType DEF Pushes, Latest, Placement, Types
    <3>5. Current'
      BY <1>2, <2>4, <3>1, <3>2, <3>3, <3>4 DEF Pushes, Current, Answers
    <3>6. QED
      BY <2>2, <3>5
  <2>5. QED
    BY <2>2, <2>3, <2>4
<1>3. CASE EndSet
  <2> DEFINE mark == Mark(setting[1])
  <2>1. mark \in MarkRecord /\ mark.at = read /\ mark.model = setting[1].model
        /\ mark.depth = Depth(setting[1].model, setting[1].depth) /\ mark.depth \in Nat \ {0}
    BY <1>3, NewMark, DepthPositive DEF Mark, Placement
  <2>2. read' = read /\ marks' = Append(marks, mark) /\ window' = << >>
        /\ decoder' = <<setting[1].model>> /\ hint' = setting[1].depth
    BY <1>3 DEF EndSet
  <2> HIDE DEF mark
  <2>3. /\ Len(marks') = Len(marks) + 1 /\ DOMAIN marks' = 1..(Len(marks) + 1)
        /\ \A k \in 1..Len(marks) : marks'[k] = marks[k]
        /\ marks'[Len(marks) + 1] = mark
        /\ DOMAIN marks = 1..Len(marks) /\ Len(marks) \in Nat
    BY <2>1, <2>2, AppendProperties, LenProperties DEF Placement, Types
  <2>4. \A k \in DOMAIN marks' : marks'[k].at <= read'
    BY <2>1, <2>2, <2>3 DEF Answers, Placement, Types
  <2>5. Latest' = mark /\ marks' # << >>
    <3>1. Len(marks') # 0
      BY <2>3
    <3>2. QED
      BY <2>3, <3>1, EmptySeq DEF Latest
  <2>6. Held' = << >>
    BY <2>2 DEF Held
  <2>7. Rounds(read, read, mark.depth) = << >>
    BY <2>1, NoRoundsYet DEF Placement, Types
  <2>8. Current'
    BY <2>1, <2>2, <2>5, <2>6, <2>7 DEF Current, Placement, Types
  <2>9. QED
    BY <2>4, <2>8
<1>4. QED
  BY <1>1, <1>2, <1>3

\* A step keeps every answer true.
LEMMA AnswersKept ==
  ASSUME Placement, Frames, Answers, Changed, Still \/ Pushes \/ EndSet
  PROVE  Answers'
<1>1. \A c \in DOMAIN calls : OfItsTime(calls[c].frame, calls[c].answer, marks)
  BY AnswerByAnswer DEF Answers
<1>2. \A c \in DOMAIN calls : OfItsTime(calls[c].frame, calls[c].answer, marks')
  <2>1. CASE Still \/ Pushes
    BY <1>1, <2>1 DEF Still, Pushes
  <2>2. CASE EndSet
    <3> TAKE c \in DOMAIN calls
    <3>1. Mark(setting[1]) \in MarkRecord /\ Mark(setting[1]).at = read
      BY <2>2, NewMark DEF Mark, Placement
    <3>2. calls[c].frame \in Nat /\ calls[c].frame <= read
      BY CallFields DEF Placement, Frames, FramesRead
    <3>3. marks' = Append(marks, Mark(setting[1]))
      BY <2>2 DEF EndSet
    <3>4. QED
      BY <1>1, <3>1, <3>2, <3>3, OldAnswersStay DEF Placement
  <2>3. QED
    BY <2>1, <2>2
<1>3. \A c \in DOMAIN calls' : OfItsTime(calls'[c].frame, calls'[c].answer, marks')
  <2>1. CASE calls' = calls
    BY <1>2, <2>1
  <2>2. CASE Started
    <3> DEFINE new == [state |-> "queued", frame |-> NoFrame, answer |-> << >>]
    <3>1. new \in CallRecord
      BY DEF CallRecord, States, NoFrame, Answered
    <3>2. /\ \A c \in 1..Len(calls) : calls'[c] = calls[c]
          /\ calls'[Len(calls) + 1] = new
          /\ DOMAIN calls' = 1..(Len(calls) + 1)
          /\ DOMAIN calls = 1..Len(calls) /\ Len(calls) \in Nat
      BY <2>2, <3>1, AppendProperties, LenProperties DEF Started, Placement, Types
    <3>3. OfItsTime(new.frame, new.answer, marks')
      BY DEF OfItsTime
    <3> HIDE DEF new
    <3>4. QED
      BY <1>2, <3>2, <3>3
  <2>3. ASSUME NEW c \in DOMAIN calls, NEW state \in States, Moved(c, state)
        PROVE  \A d \in DOMAIN calls' : OfItsTime(calls'[d].frame, calls'[d].answer, marks')
    <3>1. /\ DOMAIN calls' = DOMAIN calls
          /\ \A d \in DOMAIN calls : calls'[d].frame = calls[d].frame /\ calls'[d].answer = calls[d].answer
      BY <2>3 DEF Moved, Placement, Types
    <3>2. QED
      BY <1>2, <3>1
  <2>4. ASSUME NEW c \in DOMAIN calls, Got(c), read' = read + 1
        PROVE  \A d \in DOMAIN calls' : OfItsTime(calls'[d].frame, calls'[d].answer, marks')
    <3>1. Pushes
      BY <2>4 DEF Still, EndSet, Placement, Types
    <3>2. OfItsTime(read + 1, Answer(window'), marks')
      BY <3>1, NextAnswer DEF Placement, Pushes
    <3>3. /\ DOMAIN calls' = DOMAIN calls
          /\ calls'[c].frame = read + 1 /\ calls'[c].answer = Answer(window')
          /\ \A d \in DOMAIN calls : d # c => calls'[d] = calls[d]
      BY <2>4 DEF Got, Placement, Types
    <3>4. QED
      BY <1>2, <3>2, <3>3
  <2>5. QED
    BY <2>1, <2>2, <2>3, <2>4 DEF Changed
<1>4. AnswersAreOfTheirTime'
  BY <1>3, AnswerByAnswer DEF AnswersAreOfTheirTime, OfItsTime
<1>5. QED
  BY <1>4, CurrentKept DEF Answers

-----------------------------------------------------------------------------
(* Jobs *)

\* What a step does to the jobs and their calls.
Loses ==
  /\ calls' = calls /\ queue' = queue
  /\ taken' \cup native' \subseteq taken \cup native

Asks ==
  /\ Started /\ queue' = Append(queue, Len(calls) + 1)
  /\ UNCHANGED <<taken, native>>

AsksToClose ==
  /\ calls' = calls /\ queue' = Append(queue, CloseJob)
  /\ UNCHANGED <<taken, native>>

Delivers ==
  /\ Len(calls) \in DOMAIN calls
  /\ UNCHANGED <<queue, taken, native>>
  /\ \/ calls[Len(calls)].state = "got" /\ Moved(Len(calls), "frame")
     \/ calls[Len(calls)].state = "ended" /\ Moved(Len(calls), "stopped")
     \/ calls[Len(calls)].state = "failed" /\ Moved(Len(calls), "error")

Withdraws ==
  /\ Len(calls) \in DOMAIN calls
  /\ Moved(Len(calls), "cancelled")
  /\ UNCHANGED <<taken, native>>
  /\ \/ \E k \in DOMAIN queue : queue[k] = Len(calls) /\ queue' = RemoveAt(queue, k)
     \/ Len(calls) \notin Range(queue) /\ queue' = queue

Takes ==
  /\ Head(queue) \in DOMAIN calls
  /\ calls[Head(queue)].state = "queued"
  /\ Moved(Head(queue), "taken")
  /\ queue # << >> /\ queue' = Tail(queue)
  /\ taken' = taken \cup {Head(queue)} /\ native' = native

TakesClose ==
  /\ calls' = calls
  /\ queue # << >> /\ Head(queue) = CloseJob /\ queue' = Tail(queue)
  /\ taken' = taken \cup {CloseJob} /\ native' = native

Finishes(job, state, frame, answer) ==
  /\ calls[job].state = "taken"
  /\ calls' = [calls EXCEPT ![job] = [state |-> state, frame |-> frame, answer |-> answer]]
  /\ queue' = queue /\ taken' = taken \ {job} /\ native' = native \ {job}

JobChanges ==
  \/ Loses \/ Asks \/ AsksToClose \/ Delivers \/ Withdraws \/ Takes \/ TakesClose
  \/ \E job \in DOMAIN calls \cap (taken \cup native) :
       \/ \E state \in {"ended", "failed"} : Finishes(job, state, NoFrame, << >>)
       \/ Finishes(job, "got", read + 1, Answer(window'))

\* A job that ends finishes its call, or loses a result nobody waits for.
LEMMA ResultFinishes ==
  ASSUME Placement, NEW job \in taken \cup native,
         NEW state, NEW frame, NEW answer, Result(job, state, frame, answer)
  PROVE  Loses \/ (job \in DOMAIN calls /\ Finishes(job, state, frame, answer))
<1>1. /\ taken' = taken \ {job} /\ native' = native \ {job} /\ queue' = queue
  BY DEF Result
<1>2. \/ calls' = calls
      \/ /\ job \in DOMAIN calls /\ calls[job].state = "taken"
         /\ calls' = [calls EXCEPT ![job] =
                        [state |-> state, frame |-> frame, answer |-> answer]]
  BY ResultChanges
<1>3. taken' \cup native' \subseteq taken \cup native
  BY <1>1
<1>4. QED
  BY <1>1, <1>2, <1>3 DEF Loses, Finishes

\* The call that is under way is the latest.
LEMMA LastWaits ==
  ASSUME Types, Settled, ~ Resting
  PROVE  Len(calls) \in DOMAIN calls /\ calls[Len(calls)].state \in Waiting
<1>1. PICK c \in DOMAIN calls : calls[c].state \in Waiting
  BY DEF Resting
<1>2. c = Len(calls)
  BY <1>1, LenProperties DEF Settled, Types
<1>3. QED
  BY <1>1, <1>2

\* The call of the job that a thread takes next.
LEMMA HeadHasCall ==
  ASSUME Placement, queue # << >>, Head(queue) # CloseJob
  PROVE  Head(queue) \in DOMAIN calls /\ calls[Head(queue)].state = "queued"
<1>1. Head(queue) \in Range(queue) /\ Head(queue) \in Outstanding
  BY DEF Placement, Queue, Range, Outstanding
<1>2. Head(queue) \in DOMAIN calls
  BY <1>1, JobsHaveCalls
<1>3. calls[Head(queue)].state \in States
  BY <1>2, CallFields DEF Placement
<1>4. QED
  BY <1>1, <1>2, <1>3 DEF Placement, Placed, Outstanding, MayBeQueued, MayBeBusy

\* Every step of the program does one of these to the jobs.
LEMMA StepsChangeJobs ==
  ASSUME Placement, [Next]_vars
  PROVE  JobChanges
<1> USE DEF JobChanges, pool
<1>1. CASE Send \/ HangUp \/ EndSet \/ SetFails
  BY <1>1 DEF Send, HangUp, EndSet, SetFails, Loses
<1>2. CASE \E model \in Models, depth \in Depths : BeginSet(model, depth)
  BY <1>2 DEF BeginSet, Loses
<1>3. CASE Anext
  BY <1>3 DEF Anext, Started, Asks
<1>4. CASE Aclose
  BY <1>4 DEF Aclose, AsksToClose
<1>5. CASE Deliver
  <2>1. Len(calls) \in DOMAIN calls
    BY <1>5, LastWaits DEF Deliver, Placement
  <2>2. \/ calls[Len(calls)].state = "got" /\ Became(Len(calls), "frame")
        \/ calls[Len(calls)].state = "ended" /\ Became(Len(calls), "stopped")
        \/ calls[Len(calls)].state = "failed" /\ Became(Len(calls), "error")
    BY <1>5 DEF Deliver
  <2>3. \/ calls[Len(calls)].state = "got" /\ Moved(Len(calls), "frame")
        \/ calls[Len(calls)].state = "ended" /\ Moved(Len(calls), "stopped")
        \/ calls[Len(calls)].state = "failed" /\ Moved(Len(calls), "error")
    BY <2>1, <2>2, BecameMoves DEF Placement, States, Waiting
  <2>4. QED
    BY <1>5, <2>1, <2>3 DEF Deliver, Delivers
<1>6. CASE Cancel
  <2>1. Len(calls) \in DOMAIN calls /\ calls[Len(calls)].state \in Waiting
    BY <1>6, LastWaits DEF Cancel, Placement
  <2>2. Moved(Len(calls), "cancelled")
    BY <1>6, <2>1, BecameMoves DEF Cancel, Placement, States
  <2>3. QED
    BY <1>6, <2>1, <2>2 DEF Cancel, Withdraws
<1>7. CASE TakeJob
  <2>1. CASE Head(queue) = CloseJob
    BY <1>7, <2>1 DEF TakeJob, TakesClose
  <2>2. CASE Head(queue) # CloseJob
    <3>1. Head(queue) \in DOMAIN calls /\ calls[Head(queue)].state = "queued"
      BY <1>7, <2>2, HeadHasCall DEF TakeJob
    <3>2. Became(Head(queue), "taken")
      BY <1>7, <2>2 DEF TakeJob, Became
    <3>3. Moved(Head(queue), "taken")
      BY <3>1, <3>2, BecameMoves DEF Placement, States, Waiting
    <3>4. QED
      BY <1>7, <3>1, <3>3 DEF TakeJob, Takes
  <2>3. QED
    BY <2>1, <2>2
<1>8. CASE RunJob
  <2>1. PICK job \in Jobs : Enter(job) \/ Refused(job)
    BY <1>8 DEF RunJob
  <2>2. CASE Enter(job)
    BY <2>2 DEF Enter, Loses
  <2>3. CASE Refused(job)
    BY <2>3, ResultFinishes DEF Refused
  <2>4. QED
    BY <2>1, <2>2, <2>3
<1>9. CASE ReadFrame
  <2>1. PICK job \in native \ {CloseJob} : Result(job, "got", read + 1, Answer(window'))
    BY <1>9 DEF ReadFrame
  <2>2. Loses \/ (job \in DOMAIN calls /\ Finishes(job, "got", read + 1, Answer(window')))
    BY <2>1, ResultFinishes
  <2>3. QED
    BY <2>1, <2>2
<1>10. CASE ReadEnd \/ ReadFails \/ Close
  <2>1. PICK job \in native : \E state \in {"failed", "ended"} : Result(job, state, NoFrame, << >>)
    BY <1>10 DEF ReadEnd, ReadFails, Close
  <2>2. QED
    BY <2>1, ResultFinishes
<1>11. CASE UNCHANGED vars
  BY <1>11 DEF vars, Loses
<1>12. QED
  BY <1>1, <1>2, <1>3, <1>4, <1>5, <1>6, <1>7, <1>8, <1>9, <1>10, <1>11
     DEF Next, Loop, Thread, Native

\* The calls after one of them moved.
LEMMA MovedCalls ==
  ASSUME Types, NEW c \in DOMAIN calls, NEW state, Moved(c, state)
  PROVE  /\ DOMAIN calls' = DOMAIN calls /\ Len(calls') = Len(calls)
         /\ calls'[c].state = state
         /\ calls'[c].frame = calls[c].frame /\ calls'[c].answer = calls[c].answer
         /\ \A d \in DOMAIN calls : d # c => calls'[d] = calls[d]
BY DEF Moved, Types

\* The calls after one more was made.
LEMMA StartedCalls ==
  ASSUME Types, Started
  PROVE  /\ Len(calls') = Len(calls) + 1 /\ Len(calls) \in Nat
         /\ DOMAIN calls = 1..Len(calls) /\ DOMAIN calls' = 1..Len(calls) + 1
         /\ \A c \in DOMAIN calls : calls'[c] = calls[c]
         /\ calls'[Len(calls) + 1] = [state |-> "queued", frame |-> NoFrame, answer |-> << >>]
<1>1. [state |-> "queued", frame |-> NoFrame, answer |-> << >>] \in CallRecord
  BY DEF CallRecord, States, NoFrame, Answered
<1>2. QED
  BY <1>1, AppendProperties, LenProperties DEF Started, Types

\* The calls after one of them had its result.
LEMMA FinishedCalls ==
  ASSUME Types, NEW job \in DOMAIN calls, NEW state, NEW frame, NEW answer,
         Finishes(job, state, frame, answer)
  PROVE  /\ DOMAIN calls' = DOMAIN calls /\ Len(calls') = Len(calls)
         /\ calls'[job].state = state
         /\ \A d \in DOMAIN calls : d # job => calls'[d] = calls[d]
BY DEF Finishes, Types

\* A job more at the end of the queue.
LEMMA QueueGrows ==
  ASSUME queue \in Seq(Nat), NEW job \in Nat, queue' = Append(queue, job)
  PROVE  /\ queue' \in Seq(Nat)
         /\ Range(queue') = Range(queue) \cup {job}
         /\ \A i \in DOMAIN queue' : queue'[i] = IF i \in DOMAIN queue THEN queue[i] ELSE job
         /\ \A i \in DOMAIN queue' : i \notin DOMAIN queue => i = Len(queue) + 1
<1>1. /\ queue' \in Seq(Nat)
      /\ DOMAIN queue = 1..Len(queue) /\ Len(queue) \in Nat
      /\ DOMAIN queue' = 1..Len(queue) + 1
      /\ \A i \in 1..Len(queue) : queue'[i] = queue[i]
      /\ queue'[Len(queue) + 1] = job
  BY AppendProperties, LenProperties
<1>2. Range(queue') = Range(queue) \cup {job}
  BY <1>1 DEF Range
<1>3. QED
  BY <1>1, <1>2

\* A job less: what follows it moves up.
LEMMA QueueShrinks ==
  ASSUME queue \in Seq(Nat), NEW k \in DOMAIN queue, queue' = RemoveAt(queue, k)
  PROVE  /\ queue' \in Seq(Nat)
         /\ DOMAIN queue' = 1..Len(queue) - 1 /\ DOMAIN queue = 1..Len(queue) /\ Len(queue) \in Nat
         /\ \A i \in DOMAIN queue' : queue'[i] = IF i < k THEN queue[i] ELSE queue[i + 1]
<1> DEFINE front == SubSeq(queue, 1, k - 1)
           back == SubSeq(queue, k + 1, Len(queue))
<1>1. DOMAIN queue = 1..Len(queue) /\ Len(queue) \in Nat /\ k \in 1..Len(queue)
  BY LenProperties
<1>2. /\ front \in Seq(Nat) /\ Len(front) = k - 1
      /\ \A i \in 1..k - 1 : front[i] = queue[i]
  BY <1>1
<1>3. /\ back \in Seq(Nat) /\ Len(back) = Len(queue) - k
      /\ \A i \in 1..Len(queue) - k : back[i] = queue[k + i]
  <2> DEFINE m == k + 1
             n == Len(queue)
  <2>1. m \in Int /\ n \in Int /\ \A i \in m..n : queue[i] \in Nat
    BY <1>1
  <2> HIDE DEF m, n
  <2>2. /\ SubSeq(queue, m, n) \in Seq(Nat)
        /\ Len(SubSeq(queue, m, n)) = IF m <= n THEN n - m + 1 ELSE 0
        /\ \A i \in 1..n - m + 1 : SubSeq(queue, m, n)[i] = queue[m + i - 1]
    BY <2>1, SubSeqProperties
  <2> USE DEF m, n
  <2>3. back \in Seq(Nat) /\ Len(back) = Len(queue) - k
    BY <1>1, <2>2
  <2>4. ASSUME NEW i \in 1..Len(queue) - k
        PROVE  back[i] = queue[k + i]
    <3>1. i \in 1..n - m + 1 /\ m + i - 1 = k + i
      BY <1>1
    <3>2. QED
      BY <2>2, <3>1
  <2>5. QED
    BY <2>3, <2>4
<1>4. queue' = front \o back
  BY DEF RemoveAt
<1> HIDE DEF front, back
<1>5. /\ queue' \in Seq(Nat) /\ Len(queue') = Len(queue) - 1
      /\ \A i \in 1..Len(queue) - 1 : queue'[i] = IF i <= k - 1 THEN front[i] ELSE back[i - (k - 1)]
  <2>1. Len(front) + Len(back) = Len(queue) - 1
    BY <1>1, <1>2, <1>3
  <2>2. /\ front \o back \in Seq(Nat)
        /\ Len(front \o back) = Len(front) + Len(back)
        /\ \A i \in 1..Len(front) + Len(back) :
             (front \o back)[i] = IF i <= Len(front) THEN front[i] ELSE back[i - Len(front)]
    BY <1>2, <1>3, ConcatProperties
  <2>3. QED
    BY <1>2, <1>4, <2>1, <2>2
<1>6. DOMAIN queue' = 1..Len(queue) - 1
  BY <1>5, LenProperties
<1>7. ASSUME NEW i \in 1..Len(queue) - 1
      PROVE  queue'[i] = IF i < k THEN queue[i] ELSE queue[i + 1]
  <2>1. CASE i < k
    BY <1>1, <1>2, <1>5, <2>1
  <2>2. CASE ~ i < k
    <3>1. i - (k - 1) \in 1..Len(queue) - k /\ k + (i - (k - 1)) = i + 1
      BY <1>1, <2>2
    <3>2. queue'[i] = back[i - (k - 1)]
      BY <1>1, <1>5, <2>2
    <3>3. QED
      BY <1>3, <2>2, <3>1, <3>2
  <2>3. QED
    BY <2>1, <2>2
<1>8. QED
  BY <1>1, <1>5, <1>6, <1>7

\* A job that leaves is in the queue no more, unless it is a close.
LEMMA RemovedJob ==
  ASSUME Queue, NEW k \in DOMAIN queue, queue' = RemoveAt(queue, k)
  PROVE  /\ queue' \in Seq(Nat)
         /\ Range(queue') \subseteq Range(queue)
         /\ queue[k] # CloseJob => queue[k] \notin Range(queue')
         /\ \A i, j \in DOMAIN queue' : i # j /\ queue'[i] = queue'[j] => queue'[i] = CloseJob
<1> DEFINE From(i) == IF i < k THEN i ELSE i + 1
<1>1. /\ queue' \in Seq(Nat)
      /\ DOMAIN queue' = 1..Len(queue) - 1 /\ DOMAIN queue = 1..Len(queue) /\ Len(queue) \in Nat
      /\ \A i \in DOMAIN queue' : queue'[i] = queue[From(i)]
  BY QueueShrinks DEF Queue
<1>2. \A i \in DOMAIN queue' : From(i) \in DOMAIN queue /\ From(i) # k
  BY <1>1
<1>3. \A i, j \in DOMAIN queue' : i # j => From(i) # From(j)
  BY <1>1
<1> HIDE DEF From
<1>4. Range(queue') \subseteq Range(queue)
  BY <1>1, <1>2 DEF Range
<1>5. queue[k] # CloseJob => queue[k] \notin Range(queue')
  BY <1>1, <1>2 DEF Range, Queue
<1>6. \A i, j \in DOMAIN queue' : i # j /\ queue'[i] = queue'[j] => queue'[i] = CloseJob
  BY <1>1, <1>2, <1>3 DEF Queue
<1>7. QED
  BY <1>1, <1>4, <1>5, <1>6

\* The head leaves the same way.
LEMMA TailRemoves ==
  ASSUME queue \in Seq(Nat), queue # << >>
  PROVE  1 \in DOMAIN queue /\ Head(queue) = queue[1] /\ Tail(queue) = RemoveAt(queue, 1)
<1>1. 1 \in DOMAIN queue /\ Head(queue) = queue[1]
  BY EmptySeq
<1>2. SubSeq(queue, 1, 0) = << >>
  BY SubSeqEmpty
<1>3. Tail(queue) = SubSeq(queue, 2, Len(queue)) /\ Tail(queue) \in Seq(Nat)
  BY TailIsSubSeq
<1>4. << >> \o Tail(queue) = Tail(queue)
  BY <1>3, ConcatEmptySeq
<1>5. RemoveAt(queue, 1) = SubSeq(queue, 1, 0) \o SubSeq(queue, 2, Len(queue))
  BY DEF RemoveAt
<1>6. QED
  BY <1>1, <1>2, <1>3, <1>4, <1>5

\* Calls that stay as they are keep their place when no job comes.
LEMMA PlaceStays ==
  ASSUME Placed, NEW c \in DOMAIN calls, calls'[c] = calls[c],
         Range(queue') \subseteq Range(queue), c \in taken' \cup native' => c \in taken \cup native
  PROVE  /\ calls'[c].state \in {"queued", "taken"} =>
              calls'[c].frame = NoFrame /\ calls'[c].answer = << >>
         /\ calls'[c].state \notin MayBeQueued => c \notin Range(queue')
         /\ calls'[c].state \notin MayBeBusy => c \notin taken' \cup native'
BY DEF Placed

\* A step keeps every job in one place: the queue, a thread or nowhere.
LEMMA JobsKept ==
  ASSUME Placement, JobChanges
  PROVE  Queue' /\ Placed'
<1> USE DEF Placement
<1>0. /\ DOMAIN calls = 1..Len(calls) /\ Len(calls) \in Nat
      /\ queue \in Seq(Nat) /\ Outstanding \subseteq 0..Len(calls)
      /\ \A i, j \in DOMAIN queue : i # j /\ queue[i] = queue[j] => queue[i] = CloseJob
  BY LenProperties DEF Types, Queue
<1>1. CASE Loses
  <2>1. Outstanding' \subseteq Outstanding
    BY <1>1 DEF Loses, Outstanding
  <2>2. Queue'
    BY <1>0, <1>1, <2>1 DEF Loses, Queue
  <2>3. Placed'
    BY <1>1, PlaceStays DEF Loses, Placed
  <2>4. QED
    BY <2>2, <2>3
<1>2. CASE Asks
  <2> DEFINE new == Len(calls) + 1
  <2>1. /\ Len(calls') = Len(calls) + 1 /\ DOMAIN calls' = 1..Len(calls) + 1
        /\ \A c \in DOMAIN calls : calls'[c] = calls[c]
        /\ calls'[new] = [state |-> "queued", frame |-> NoFrame, answer |-> << >>]
    BY <1>2, StartedCalls DEF Asks
  <2>2. /\ queue' \in Seq(Nat) /\ Range(queue') = Range(queue) \cup {new}
        /\ \A i \in DOMAIN queue' : queue'[i] = IF i \in DOMAIN queue THEN queue[i] ELSE new
        /\ \A i \in DOMAIN queue' : i \notin DOMAIN queue => i = Len(queue) + 1
    BY <1>0, <1>2, QueueGrows DEF Asks
  <2>3. taken' = taken /\ native' = native
    BY <1>2 DEF Asks
  <2>4. new \notin Outstanding /\ Outstanding' = Outstanding \cup {new}
    BY <1>0, <2>2, <2>3 DEF Outstanding
  <2>5. \A i \in DOMAIN queue : queue[i] # new
    BY <2>4 DEF Outstanding, Range
  <2>6. Queue'
    <3>1. Outstanding' \subseteq 0..Len(calls')
      <4>1. 0..Len(calls) \subseteq 0..new /\ new \in 0..new /\ Len(calls') = new
        BY <1>0, <2>1
      <4> HIDE DEF new
      <4>2. QED
        BY <1>0, <2>4, <4>1
    <3>2. \A i, j \in DOMAIN queue' : i # j /\ queue'[i] = queue'[j] => queue'[i] = CloseJob
      BY <1>0, <2>2, <2>5
    <3>3. QED
      BY <2>2, <3>1, <3>2 DEF Queue
  <2>7. Placed'
    <3>1. ASSUME NEW c \in DOMAIN calls
          PROVE  /\ calls'[c].state \in {"queued", "taken"} =>
                      calls'[c].frame = NoFrame /\ calls'[c].answer = << >>
                 /\ calls'[c].state \notin MayBeQueued => c \notin Range(queue')
                 /\ calls'[c].state \notin MayBeBusy => c \notin taken' \cup native'
      <4>1. c # new
        BY <1>0
      <4>2. QED
        BY <2>1, <2>2, <2>3, <4>1 DEF Placed
    <3>2. /\ calls'[new].state = "queued" /\ calls'[new].frame = NoFrame /\ calls'[new].answer = << >>
          /\ new \notin taken' \cup native'
      BY <2>1, <2>3, <2>4 DEF Outstanding
    <3>3. \A c \in DOMAIN calls' : c \in DOMAIN calls \/ c = new
      BY <1>0, <2>1
    <3> HIDE DEF new
    <3>4. QED
      BY <3>1, <3>2, <3>3 DEF Placed, MayBeQueued
  <2>8. QED
    BY <2>6, <2>7
<1>3. CASE AsksToClose
  <2>1. /\ queue' \in Seq(Nat) /\ Range(queue') = Range(queue) \cup {CloseJob}
        /\ \A i \in DOMAIN queue' : queue'[i] = IF i \in DOMAIN queue THEN queue[i] ELSE CloseJob
        /\ \A i \in DOMAIN queue' : i \notin DOMAIN queue => i = Len(queue) + 1
    BY <1>0, <1>3, QueueGrows DEF AsksToClose, CloseJob
  <2>2. taken' = taken /\ native' = native /\ calls' = calls
    BY <1>3 DEF AsksToClose
  <2>3. Outstanding' = Outstanding \cup {CloseJob}
    BY <2>1, <2>2 DEF Outstanding
  <2>4. Queue'
    BY <1>0, <2>1, <2>2, <2>3 DEF Queue, CloseJob
  <2>5. CloseJob \notin DOMAIN calls
    BY <1>0 DEF CloseJob
  <2>6. Placed'
    BY <2>1, <2>2, <2>5 DEF Placed
  <2>7. QED
    BY <2>4, <2>6
<1>4. CASE Delivers
  <2> DEFINE c == Len(calls)
  <2>1. queue' = queue /\ taken' = taken /\ native' = native /\ Outstanding' = Outstanding
    BY <1>4 DEF Delivers, Outstanding
  <2>2. PICK state \in {"frame", "stopped", "error"} :
          calls[c].state \in {"got", "ended", "failed"} /\ Moved(c, state)
    BY <1>4 DEF Delivers
  <2>3. c \in DOMAIN calls
    BY <1>4 DEF Delivers
  <2>4. /\ DOMAIN calls' = DOMAIN calls /\ Len(calls') = Len(calls)
        /\ calls'[c].state = state
        /\ \A d \in DOMAIN calls : d # c => calls'[d] = calls[d]
    BY <2>2, <2>3, MovedCalls
  <2> HIDE DEF c
  <2>5. Queue'
    BY <1>0, <2>1, <2>4 DEF Queue
  <2>6. c \notin Range(queue) /\ c \notin taken \cup native
    BY <2>2, <2>3 DEF Placed, MayBeQueued, MayBeBusy
  <2>7. Placed'
    BY <2>1, <2>2, <2>4, <2>6, PlaceStays DEF Placed
  <2>8. QED
    BY <2>5, <2>7
<1>5. CASE Withdraws
  <2> DEFINE c == Len(calls)
  <2>1. c \in DOMAIN calls /\ Moved(c, "cancelled") /\ taken' = taken /\ native' = native
    BY <1>5 DEF Withdraws
  <2>2. /\ DOMAIN calls' = DOMAIN calls /\ Len(calls') = Len(calls)
        /\ calls'[c].state = "cancelled"
        /\ \A d \in DOMAIN calls : d # c => calls'[d] = calls[d]
    BY <2>1, MovedCalls
  <2>3. /\ queue' \in Seq(Nat) /\ Range(queue') \subseteq Range(queue) /\ c \notin Range(queue')
        /\ \A i, j \in DOMAIN queue' : i # j /\ queue'[i] = queue'[j] => queue'[i] = CloseJob
    <3>1. CASE c \notin Range(queue) /\ queue' = queue
      BY <1>0, <3>1
    <3>2. ASSUME NEW k \in DOMAIN queue, queue[k] = c, queue' = RemoveAt(queue, k)
          PROVE  /\ queue' \in Seq(Nat) /\ Range(queue') \subseteq Range(queue) /\ c \notin Range(queue')
                 /\ \A i, j \in DOMAIN queue' : i # j /\ queue'[i] = queue'[j] => queue'[i] = CloseJob
      <4>1. c # CloseJob
        BY <1>0, <2>1 DEF CloseJob
      <4>2. QED
        BY <3>2, <4>1, RemovedJob
    <3>3. QED
      BY <1>5, <3>1, <3>2 DEF Withdraws
  <2> HIDE DEF c
  <2>4. Outstanding' \subseteq Outstanding
    BY <2>1, <2>3 DEF Outstanding
  <2>5. Queue'
    BY <1>0, <2>2, <2>3, <2>4 DEF Queue
  <2>6. \A d \in DOMAIN calls' :
          /\ calls'[d].state \in {"queued", "taken"} =>
               calls'[d].frame = NoFrame /\ calls'[d].answer = << >>
          /\ calls'[d].state \notin MayBeQueued => d \notin Range(queue')
          /\ calls'[d].state \notin MayBeBusy => d \notin taken' \cup native'
    <3> TAKE d \in DOMAIN calls'
    <3>1. CASE d = c
      BY <2>2, <2>3, <3>1 DEF MayBeBusy
    <3>2. CASE d # c
      BY <2>1, <2>2, <2>3, <3>2, PlaceStays
    <3>3. QED
      BY <3>1, <3>2
  <2>7. QED
    BY <2>5, <2>6 DEF Placed
<1>6. CASE Takes
  <2> DEFINE c == Head(queue)
  <2>1. c \in DOMAIN calls /\ Moved(c, "taken") /\ calls[c].state = "queued"
        /\ taken' = taken \cup {c} /\ native' = native
    BY <1>6 DEF Takes
  <2>2. /\ DOMAIN calls' = DOMAIN calls /\ Len(calls') = Len(calls)
        /\ calls'[c].state = "taken"
        /\ calls'[c].frame = calls[c].frame /\ calls'[c].answer = calls[c].answer
        /\ \A d \in DOMAIN calls : d # c => calls'[d] = calls[d]
    BY <2>1, MovedCalls
  <2>3. 1 \in DOMAIN queue /\ queue[1] = c /\ queue' = RemoveAt(queue, 1)
    BY <1>0, <1>6, TailRemoves DEF Takes
  <2>4. c # CloseJob
    BY <1>0, <2>1 DEF CloseJob
  <2>5. /\ queue' \in Seq(Nat) /\ Range(queue') \subseteq Range(queue) /\ c \notin Range(queue')
        /\ \A i, j \in DOMAIN queue' : i # j /\ queue'[i] = queue'[j] => queue'[i] = CloseJob
    BY <2>3, <2>4, RemovedJob
  <2> HIDE DEF c
  <2>6. c \in Range(queue)
    BY <2>3 DEF Range
  <2>7. Outstanding' \subseteq Outstanding
    BY <2>1, <2>5, <2>6 DEF Outstanding
  <2>8. Queue'
    BY <1>0, <2>2, <2>5, <2>7 DEF Queue
  <2>9. \A d \in DOMAIN calls' :
          /\ calls'[d].state \in {"queued", "taken"} =>
               calls'[d].frame = NoFrame /\ calls'[d].answer = << >>
          /\ calls'[d].state \notin MayBeQueued => d \notin Range(queue')
          /\ calls'[d].state \notin MayBeBusy => d \notin taken' \cup native'
    <3> TAKE d \in DOMAIN calls'
    <3>1. CASE d = c
      BY <2>1, <2>2, <2>5, <3>1 DEF MayBeBusy, Placed
    <3>2. CASE d # c
      <4>1. d \in taken' \cup native' => d \in taken \cup native
        BY <2>1, <3>2
      <4>2. QED
        BY <2>2, <2>5, <3>2, <4>1, PlaceStays
    <3>3. QED
      BY <3>1, <3>2
  <2>10. QED
    BY <2>8, <2>9 DEF Placed
<1>7. CASE TakesClose
  <2>1. 1 \in DOMAIN queue /\ queue[1] = CloseJob /\ queue' = RemoveAt(queue, 1)
    BY <1>0, <1>7, TailRemoves DEF TakesClose
  <2>2. taken' = taken \cup {CloseJob} /\ native' = native /\ calls' = calls
    BY <1>7 DEF TakesClose
  <2>3. /\ queue' \in Seq(Nat) /\ Range(queue') \subseteq Range(queue)
        /\ \A i, j \in DOMAIN queue' : i # j /\ queue'[i] = queue'[j] => queue'[i] = CloseJob
    BY <2>1, RemovedJob
  <2>4. CloseJob \in Range(queue)
    BY <2>1 DEF Range
  <2>5. Outstanding' \subseteq Outstanding
    BY <2>2, <2>3, <2>4 DEF Outstanding
  <2>6. Queue'
    BY <1>0, <2>2, <2>3, <2>5 DEF Queue
  <2>7. \A d \in DOMAIN calls : d \in taken' \cup native' => d \in taken \cup native
    BY <1>0, <2>2 DEF CloseJob
  <2>8. Placed'
    BY <2>2, <2>3, <2>7, PlaceStays DEF Placed
  <2>9. QED
    BY <2>6, <2>8
<1>8. ASSUME NEW job \in DOMAIN calls \cap (taken \cup native),
             NEW state \in {"got", "ended", "failed"}, NEW frame, NEW answer,
             Finishes(job, state, frame, answer)
      PROVE  Queue' /\ Placed'
  <2>1. /\ DOMAIN calls' = DOMAIN calls /\ Len(calls') = Len(calls)
        /\ calls'[job].state = state
        /\ \A d \in DOMAIN calls : d # job => calls'[d] = calls[d]
    BY <1>8, FinishedCalls
  <2>2. /\ calls[job].state = "taken"
        /\ queue' = queue /\ taken' = taken \ {job} /\ native' = native \ {job}
    BY <1>8 DEF Finishes
  <2>3. job \notin Range(queue)
    BY <2>2 DEF Placed, MayBeQueued
  <2>4. Outstanding' \subseteq Outstanding
    BY <2>2 DEF Outstanding
  <2>5. Queue'
    BY <1>0, <2>1, <2>2, <2>4 DEF Queue
  <2>6. \A d \in DOMAIN calls' :
          /\ calls'[d].state \in {"queued", "taken"} =>
               calls'[d].frame = NoFrame /\ calls'[d].answer = << >>
          /\ calls'[d].state \notin MayBeQueued => d \notin Range(queue')
          /\ calls'[d].state \notin MayBeBusy => d \notin taken' \cup native'
    <3> TAKE d \in DOMAIN calls'
    <3>1. CASE d = job
      BY <2>1, <2>2, <2>3, <3>1
    <3>2. CASE d # job
      BY <2>1, <2>2, <3>2, PlaceStays
    <3>3. QED
      BY <3>1, <3>2
  <2>7. QED
    BY <2>5, <2>6 DEF Placed
<1>9. QED
  BY <1>1, <1>2, <1>3, <1>4, <1>5, <1>6, <1>7, <1>8 DEF JobChanges

\* A step gives no call a job, and changes a call only while it waits.
LEMMA CallsGoOn ==
  ASSUME Placement, JobChanges, NEW c \in DOMAIN calls
  PROVE  /\ c \in DOMAIN calls'
         /\ c \in Outstanding' => c \in Outstanding
         /\ \/ calls'[c] = calls[c]
            \/ calls[c].state \in {"queued", "taken", "ended", "failed"}
            \/ calls[c].state = "got" /\ calls'[c].state \in {"frame", "cancelled"}
<1> USE DEF Placement
<1>0. /\ DOMAIN calls = 1..Len(calls) /\ Len(calls) \in Nat /\ queue \in Seq(Nat)
      /\ c # CloseJob
  BY LenProperties DEF Types, Queue, CloseJob
<1>1. CASE Loses
  BY <1>1 DEF Loses, Outstanding
<1>2. CASE Asks
  <2>1. /\ DOMAIN calls' = 1..Len(calls) + 1 /\ calls'[c] = calls[c]
    BY <1>2, StartedCalls DEF Asks
  <2>2. Range(queue') = Range(queue) \cup {Len(calls) + 1}
    BY <1>0, <1>2, QueueGrows DEF Asks
  <2>3. c # Len(calls) + 1 /\ c \in 1..Len(calls) + 1
    BY <1>0
  <2>4. taken' = taken /\ native' = native
    BY <1>2 DEF Asks
  <2>5. QED
    BY <2>1, <2>2, <2>3, <2>4 DEF Outstanding
<1>3. CASE AsksToClose
  <2>1. Range(queue') = Range(queue) \cup {CloseJob}
    BY <1>0, <1>3, QueueGrows DEF AsksToClose, CloseJob
  <2>2. QED
    BY <1>0, <1>3, <2>1 DEF AsksToClose, Outstanding
<1>4. CASE Delivers
  <2>1. PICK state \in {"frame", "stopped", "error"} :
          /\ Moved(Len(calls), state)
          /\ \/ calls[Len(calls)].state = "got" /\ state = "frame"
             \/ calls[Len(calls)].state \in {"ended", "failed"}
    BY <1>4 DEF Delivers
  <2>2. /\ DOMAIN calls' = DOMAIN calls /\ calls'[Len(calls)].state = state
        /\ \A d \in DOMAIN calls : d # Len(calls) => calls'[d] = calls[d]
    BY <1>4, <2>1, MovedCalls DEF Delivers
  <2>3. Outstanding' = Outstanding
    BY <1>4 DEF Delivers, Outstanding
  <2>4. QED
    BY <2>1, <2>2, <2>3
<1>5. CASE Withdraws
  <2>1. /\ DOMAIN calls' = DOMAIN calls /\ calls'[Len(calls)].state = "cancelled"
        /\ \A d \in DOMAIN calls : d # Len(calls) => calls'[d] = calls[d]
    BY <1>5, MovedCalls DEF Withdraws
  <2>2. Range(queue') \subseteq Range(queue)
    BY <1>5, RemovedJob DEF Withdraws
  <2>3. Outstanding' \subseteq Outstanding
    BY <1>5, <2>2 DEF Withdraws, Outstanding
  <2>4. calls[Len(calls)].state \in Waiting
    BY <1>5 DEF Withdraws, Moved
  <2>5. QED
    BY <2>1, <2>3, <2>4 DEF Waiting
<1>6. CASE Takes \/ TakesClose
  <2>1. 1 \in DOMAIN queue /\ Head(queue) = queue[1] /\ queue' = RemoveAt(queue, 1)
    BY <1>0, <1>6, TailRemoves DEF Takes, TakesClose
  <2>2. Range(queue') \subseteq Range(queue)
    BY <2>1, RemovedJob
  <2>3. Head(queue) \in Range(queue)
    BY <2>1 DEF Range
  <2>4. Outstanding' \subseteq Outstanding
    BY <1>6, <2>2, <2>3 DEF Takes, TakesClose, Outstanding
  <2>5. CASE Takes
    <3>1. /\ DOMAIN calls' = DOMAIN calls
          /\ \A d \in DOMAIN calls : d # Head(queue) => calls'[d] = calls[d]
          /\ calls[Head(queue)].state = "queued"
      BY <2>5, MovedCalls DEF Takes
    <3>2. QED
      BY <2>4, <3>1
  <2>6. CASE TakesClose
    BY <2>4, <2>6 DEF TakesClose
  <2>7. QED
    BY <1>6, <2>5, <2>6
<1>7. ASSUME NEW job \in DOMAIN calls \cap (taken \cup native), NEW state, NEW frame, NEW answer,
             Finishes(job, state, frame, answer)
      PROVE  /\ c \in DOMAIN calls'
             /\ c \in Outstanding' => c \in Outstanding
             /\ calls'[c] = calls[c] \/ calls[c].state = "taken"
  <2>1. /\ DOMAIN calls' = DOMAIN calls
        /\ \A d \in DOMAIN calls : d # job => calls'[d] = calls[d]
    BY <1>7, FinishedCalls
  <2>2. Outstanding' \subseteq Outstanding /\ calls[job].state = "taken"
    BY <1>7 DEF Finishes, Outstanding
  <2>3. QED
    BY <2>1, <2>2
<1>8. QED
  BY <1>1, <1>2, <1>3, <1>4, <1>5, <1>6, <1>7 DEF JobChanges

\* A call that is spent stays so.
LEMMA SpentStays ==
  ASSUME Placement, JobChanges
  PROVE  Spent \subseteq Spent'
<1> SUFFICES ASSUME NEW c \in Spent
             PROVE  c \in Spent'
  OBVIOUS
<1>1. c \in DOMAIN calls
  BY DEF Spent
<1>2. /\ c \in DOMAIN calls'
      /\ c \in Outstanding' => c \in Outstanding
      /\ \/ calls'[c] = calls[c]
         \/ calls[c].state \in {"queued", "taken", "ended", "failed"}
         \/ calls[c].state = "got" /\ calls'[c].state \in {"frame", "cancelled"}
  BY <1>1, CallsGoOn
<1>3. calls[c].state = "got" => c \notin Outstanding
  BY <1>1 DEF Placement, Placed, MayBeQueued, MayBeBusy, Outstanding
<1>4. QED
  BY <1>1, <1>2, <1>3 DEF Spent

\* Some of the calls are finitely many.
LEMMA CallsAreFinite ==
  ASSUME NEW n \in Nat, NEW some, some \subseteq 1..n
  PROVE  IsFiniteSet(some) /\ Cardinality(some) \in Nat
<1>1. IsFiniteSet(1..n)
  BY FS_Interval
<1>2. some \in SUBSET (1..n)
  OBVIOUS
<1>3. IsFiniteSet(some)
  BY <1>1, <1>2, FS_Subset
<1>4. QED
  BY <1>3, FS_CardinalityType

\* A frame is read for a call that was not spent, and is then.
LEMMA ReadingSpends ==
  ASSUME Placement, ReadFrame
  PROVE  \E c \in Spent' : c \notin Spent
<1> USE DEF Placement
<1>1. PICK job \in native \ {CloseJob} : Result(job, "got", read + 1, Answer(window'))
  BY DEF ReadFrame
<1>2. job \in DOMAIN calls /\ job \in Outstanding /\ job \in taken \cup native
  BY JobsHaveCalls DEF Outstanding
<1>3. job \notin Spent
  BY <1>2 DEF Spent, Placed, MayBeBusy
<1>4. /\ taken' = taken \ {job} /\ native' = native \ {job} /\ queue' = queue
  BY <1>1 DEF Result
<1>5. CASE calls[job].state = "taken"
  <2>1. calls' = [calls EXCEPT ![job] =
                    [state |-> "got", frame |-> read + 1, answer |-> Answer(window')]]
    BY <1>1, <1>5 DEF Result
  <2>2. job \in DOMAIN calls' /\ calls'[job].state = "got"
    BY <1>2, <2>1
  <2>3. QED
    BY <1>3, <2>2 DEF Spent
<1>6. CASE calls[job].state # "taken"
  <2>1. calls' = calls
    BY <1>1, <1>6 DEF Result
  <2>2. calls[job].state = "cancelled" /\ job \notin Range(queue)
    BY <1>2, <1>6 DEF Placed, MayBeBusy, MayBeQueued
  <2>3. job \notin Outstanding'
    BY <1>4, <2>2 DEF Outstanding
  <2>4. QED
    BY <1>2, <1>3, <2>1, <2>2, <2>3 DEF Spent
<1>7. QED
  BY <1>5, <1>6

\* No other step reads from the stream.
LEMMA OthersReadNothing ==
  ASSUME [Next]_vars, ~ ReadFrame
  PROVE  read' = read
<1> USE DEF stream
<1>1. CASE Send \/ HangUp \/ Loop
  BY <1>1 DEF Loop, Send, HangUp, Anext, Deliver, Cancel, Aclose, SetFails, EndSet, BeginSet
<1>2. CASE Thread
  BY <1>2 DEF Thread, TakeJob, RunJob, Enter, Refused, Result, Native, ReadEnd, ReadFails, Close
<1>3. CASE UNCHANGED vars
  BY <1>3 DEF vars
<1>4. QED
  BY <1>1, <1>2, <1>3 DEF Next

\* A step keeps a call for each frame that was read.
LEMMA PaidKept ==
  ASSUME Placement, Types', Paid, [Next]_vars, JobChanges
  PROVE  Paid'
<1>1. /\ Spent \subseteq Spent' /\ IsFiniteSet(Spent) /\ Cardinality(Spent) \in Nat
  <2>1. Len(calls) \in Nat /\ Spent \subseteq 1..Len(calls)
    BY LenProperties DEF Placement, Types, Spent
  <2>2. QED
    BY <2>1, SpentStays, CallsAreFinite
<1>2. IsFiniteSet(Spent') /\ Cardinality(Spent') \in Nat
  <2>1. Len(calls') \in Nat /\ Spent' \subseteq 1..Len(calls')
    BY LenProperties DEF Types, Spent
  <2>2. QED
    BY <2>1, CallsAreFinite
<1>3. read \in Nat
  BY DEF Placement, Types
<1> DEFINE old == Spent
           new == Spent'
<1> HIDE DEF old, new
<1>4. CASE ReadFrame
  <2>1. PICK c \in new : c \notin old
    BY <1>4, ReadingSpends DEF old, new
  <2>2. IsFiniteSet(old \cup {c}) /\ Cardinality(old \cup {c}) = Cardinality(old) + 1
    BY <1>1, <2>1, FS_AddElement DEF old
  <2>3. old \cup {c} \in SUBSET new
    BY <1>1, <2>1 DEF old, new
  <2>4. Cardinality(old \cup {c}) <= Cardinality(new)
    BY <1>2, <2>3, FS_Subset DEF new
  <2>5. read' = read + 1 /\ read <= Cardinality(old)
    BY <1>4 DEF ReadFrame, Paid, old
  <2>6. read' <= Cardinality(new)
    BY <1>1, <1>2, <1>3, <2>2, <2>4, <2>5 DEF old, new
  <2>7. QED
    BY <2>6 DEF Paid, new
<1>5. CASE ~ ReadFrame
  <2>1. read' = read
    BY <1>5, OthersReadNothing
  <2>2. old \in SUBSET new
    BY <1>1 DEF old, new
  <2>3. Cardinality(old) <= Cardinality(new)
    BY <1>2, <2>2, FS_Subset DEF new
  <2>4. read' <= Cardinality(new)
    BY <1>1, <1>2, <1>3, <2>1, <2>3 DEF Paid, old, new
  <2>5. QED
    BY <2>4 DEF Paid, new
<1>6. QED
  BY <1>4, <1>5

-----------------------------------------------------------------------------
(* The invariant *)

\* What holds of every reachable state: the types, the order of the frames, where
\* each job is and what it may still cost, and which rounds the window holds.
IInv == Types /\ Frames /\ JobsInv /\ Answers

\* The invariant holds when the stream is opened.
LEMMA InitHolds == Init => IInv
<1> SUFFICES ASSUME Init
             PROVE  IInv
  OBVIOUS
<1>1. calls = << >> /\ queue = << >> /\ read = 0 /\ sent = 0 /\ setting = << >>
      /\ taken = {} /\ native = {} /\ window = << >>
  BY DEF Init
<1>2. DOMAIN calls = {} /\ Len(calls) = 0 /\ DOMAIN queue = {} /\ calls \in Seq(CallRecord)
      /\ queue \in Seq(Nat)
  BY <1>1
<1>3. /\ marks \in Seq(MarkRecord) /\ decoder \in Decoders /\ hint \in Nat
      /\ Current
      /\ \A k \in DOMAIN marks : marks[k].at <= read
  <2>1. CASE decoder = << >> /\ hint = 0 /\ marks = << >>
    BY <1>1, <2>1 DEF Decoders, Current
  <2>2. ASSUME NEW model \in Models, NEW depth \in Depths, decoder = <<model>>, hint = depth,
               marks = <<Mark([model |-> model, depth |-> depth])>>
        PROVE  <1>3
    <3> DEFINE mark == [at |-> 0, model |-> model, depth |-> Depth(model, depth)]
    <3>1. depth \in Nat /\ Depth(model, depth) \in Nat \ {0}
      BY DepthPositive, PyStreamAssumption
    <3>2. mark \in MarkRecord /\ mark.at = 0 /\ mark.model = model /\ mark.depth = Depth(model, depth)
      BY <3>1 DEF MarkRecord
    <3>3. marks = <<mark>>
      BY <1>1, <2>2 DEF Mark
    <3> HIDE DEF mark
    <3>4. marks \in Seq(MarkRecord) /\ Len(marks) = 1 /\ marks # << >> /\ marks[1] = mark
      BY <3>2, <3>3
    <3>5. Latest = mark
      BY <3>4 DEF Latest
    <3>6. Rounds(0, 0, mark.depth) = << >>
      BY <3>1, <3>2, NoRoundsYet
    <3>7. Current
      BY <1>1, <2>2, <3>2, <3>4, <3>5, <3>6 DEF Current, Held
    <3>8. decoder \in Decoders /\ hint \in Nat
      BY <2>2, <3>1 DEF Decoders
    <3>9. \A k \in DOMAIN marks : marks[k].at <= read
      BY <1>1, <3>2, <3>3
    <3>10. QED
      BY <3>4, <3>7, <3>8, <3>9
  <2>3. QED
    BY <2>1, <2>2 DEF Init
<1>4. Types
  BY <1>1, <1>2, <1>3 DEF Types
<1>5. Frames
  BY <1>2 DEF Frames, Settled, FramesRead, InOrder
<1>6. Answers
  BY <1>2, <1>3 DEF Answers, AnswersAreOfTheirTime
<1>7. Queue /\ Placed
  BY <1>1, <1>2 DEF Queue, Placed, Outstanding, Range
<1>8. Paid
  <2>1. Spent = {}
    BY <1>2 DEF Spent
  <2>2. QED
    BY <1>1, <2>1, FS_EmptySet DEF Paid
<1>9. QED
  BY <1>4, <1>5, <1>6, <1>7, <1>8 DEF IInv, JobsInv

\* Every step keeps the invariant.
LEMMA NextHolds == IInv /\ [Next]_vars => IInv'
<1> SUFFICES ASSUME IInv, [Next]_vars
             PROVE  IInv'
  OBVIOUS
<1>1. Placement /\ Frames /\ Paid /\ Answers /\ Current
  BY DEF IInv, Placement, Frames, JobsInv, Answers
<1>2. Changed /\ JobChanges
  BY <1>1, StepChanges, StepsChangeJobs
<1>3. Still \/ Pushes \/ EndSet
  BY WindowChanges
<1>4. Types'
  BY <1>1, <1>2, TypesKept
<1>5. Frames'
  BY <1>1, <1>2, FramesKept DEF Placement
<1>6. Queue' /\ Placed'
  BY <1>1, <1>2, JobsKept
<1>7. Paid'
  BY <1>1, <1>2, <1>4, PaidKept
<1>8. Answers'
  BY <1>1, <1>2, <1>3, AnswersKept
<1>9. QED
  BY <1>4, <1>5, <1>6, <1>7, <1>8 DEF IInv, JobsInv

\* It holds of every state that the stream and its callers reach.
THEOREM InvariantHolds == Spec => []IInv
<1>1. Init => IInv
  BY InitHolds
<1>2. IInv /\ [Next]_vars => IInv'
  BY NextHolds
<1>3. QED
  BY <1>1, <1>2, PTL DEF Spec

\* The calls that had a frame and those that were given up are all a frame was
\* read for.
LEMMA InvariantCounts == IInv => OnlyCancelledCallsLose
<1> SUFFICES ASSUME IInv
             PROVE  OnlyCancelledCallsLose
  OBVIOUS
<1> DEFINE brought == {c \in DOMAIN calls : calls[c].state \in {"got", "frame"}}
           given == {c \in DOMAIN calls : calls[c].state \in {"cancelled"}}
<1>1. Len(calls) \in Nat /\ DOMAIN calls = 1..Len(calls) /\ read \in Nat
  BY LenProperties DEF IInv, Types
<1>2. /\ IsFiniteSet(brought) /\ Cardinality(brought) \in Nat
      /\ IsFiniteSet(given) /\ Cardinality(given) \in Nat
      /\ IsFiniteSet(Spent) /\ Cardinality(Spent) \in Nat
  <2>1. brought \subseteq 1..Len(calls) /\ given \subseteq 1..Len(calls) /\ Spent \subseteq 1..Len(calls)
    BY <1>1 DEF Spent
  <2> HIDE DEF brought, given
  <2>2. QED
    BY <1>1, <2>1, CallsAreFinite
<1>3. Spent \in SUBSET (brought \cup given)
  BY DEF Spent
<1> HIDE DEF brought, given
<1>4. /\ IsFiniteSet(brought \cup given) /\ Cardinality(brought \cup given) \in Nat
      /\ Cardinality(brought \cup given) <= Cardinality(brought) + Cardinality(given)
  <2>1. IsFiniteSet(brought \cap given) /\ Cardinality(brought \cap given) \in Nat
    BY <1>2, FS_Intersection, FS_CardinalityType
  <2>2. /\ IsFiniteSet(brought \cup given)
        /\ Cardinality(brought \cup given)
             = Cardinality(brought) + Cardinality(given) - Cardinality(brought \cap given)
    BY <1>2, FS_Union
  <2>3. QED
    BY <1>2, <2>1, <2>2, FS_CardinalityType
<1>5. Cardinality(Spent) <= Cardinality(brought \cup given)
  BY <1>3, <1>4, FS_Subset
<1>6. read <= Cardinality(brought) + Cardinality(given)
  BY <1>1, <1>2, <1>4, <1>5 DEF IInv, JobsInv, Paid
<1>7. InOrder
  BY DEF IInv, Frames
<1>8. QED
  BY <1>6, <1>7 DEF OnlyCancelledCallsLose, InOrder, brought, given

\* Frames are delivered in the order of the stream, each at most once, and one
\* that no call brought was read for a call that was given up, of which each
\* costs one at most.
THEOREM FramesAreDelivered == Spec => []OnlyCancelledCallsLose
<1>1. IInv => OnlyCancelledCallsLose
  BY InvariantCounts
<1>2. QED
  BY <1>1, InvariantHolds, PTL

\* The answer that comes with a frame is that of the decoder set when the frame
\* was read, for the rounds read since it was set.
THEOREM AnswersBelong == Spec => []AnswersAreOfTheirTime
<1>1. IInv => AnswersAreOfTheirTime
  BY DEF IInv, Answers
<1>2. QED
  BY <1>1, InvariantHolds, PTL
-----------------------------------------------------------------------------
(* The lock and the threads *)

Busy ==
  /\ IsFiniteSet(taken \cup native)
  /\ Cardinality(taken \cup native) <= Threads
  /\ native = {} \/ \E job \in taken \cup native : native = {job}

Counts ==
  /\ sent \in 0..MaxFrames /\ read <= sent
  /\ hung_up \in BOOLEAN /\ source \in {"open", "closed"}

\* Threads and the lock change only so.
BusyChanges ==
  \/ taken' = taken /\ native' = native
  \/ TakeJob
  \/ \E job \in taken : native = {} /\ taken' = taken \ {job} /\ native' = {job}
  \/ \E job \in taken \cup native : taken' = taken \ {job} /\ native' = native \ {job}

\* Every step of the program does one of these to the threads.
LEMMA StepsChangeBusy ==
  ASSUME [Next]_vars
  PROVE  BusyChanges
<1> USE DEF BusyChanges, pool
<1>1. CASE Send \/ HangUp \/ Loop
  BY <1>1 DEF Loop, Send, HangUp, Anext, Deliver, Cancel, Aclose, SetFails, EndSet, BeginSet
<1>2. CASE TakeJob \/ UNCHANGED vars
  BY <1>2 DEF vars
<1>3. CASE RunJob
  BY <1>3 DEF RunJob, Enter, Refused, Result, GilIsFree
<1>4. CASE Native
  BY <1>4 DEF Native, ReadFrame, ReadEnd, ReadFails, Close, Result
<1>5. QED
  BY <1>1, <1>2, <1>3, <1>4 DEF Next, Thread

\* No step takes more jobs than there are threads, or enters twice.
LEMMA BusyKept ==
  ASSUME Busy, BusyChanges
  PROVE  Busy'
<1> DEFINE before == taken \cup native
           after == taken' \cup native'
<1>1. IsFiniteSet(before) /\ Cardinality(before) \in Nat /\ Cardinality(before) <= Threads /\ Threads \in Nat
  BY FS_CardinalityType, PyStreamAssumption DEF Busy
<1>2. ASSUME after \in SUBSET before, native' = {} \/ \E job \in after : native' = {job}
      PROVE  Busy'
  <2>1. IsFiniteSet(after) /\ Cardinality(after) <= Cardinality(before)
    BY <1>1, <1>2, FS_Subset
  <2>2. Cardinality(after) \in Nat
    BY <2>1, FS_CardinalityType
  <2>3. Cardinality(after) <= Threads
    BY <1>1, <2>1, <2>2
  <2>4. QED
    BY <1>2, <2>1, <2>3 DEF Busy
<1>3. CASE taken' = taken /\ native' = native
  BY <1>3 DEF Busy
<1>4. CASE TakeJob
  <2>1. native = {} /\ native' = {} /\ before = taken /\ after = before \cup {Head(queue)}
        /\ Cardinality(taken) < Threads
    BY <1>4 DEF TakeJob, GilIsFree
  <2> HIDE DEF before, after
  <2>2. IsFiniteSet(after)
        /\ Cardinality(after) = IF Head(queue) \in before THEN Cardinality(before) ELSE Cardinality(before) + 1
    BY <1>1, <2>1, FS_AddElement
  <2>3. Cardinality(before) < Threads
    BY <2>1
  <2>4. Cardinality(after) <= Threads
    BY <1>1, <2>2, <2>3
  <2>5. QED
    BY <2>1, <2>2, <2>4 DEF Busy, after
<1>5. CASE \E job \in taken : native = {} /\ taken' = taken \ {job} /\ native' = {job}
  BY <1>2, <1>5
<1>6. CASE \E job \in taken \cup native : taken' = taken \ {job} /\ native' = native \ {job}
  <2>1. after \in SUBSET before /\ native' \subseteq after
    BY <1>6
  <2>2. native' = {} \/ \E job \in after : native' = {job}
    BY <1>6, <2>1 DEF Busy
  <2>3. QED
    BY <1>2, <2>1, <2>2
<1>7. QED
  BY <1>3, <1>4, <1>5, <1>6 DEF BusyChanges

\* No step reads what was not sent.
LEMMA CountsKept ==
  ASSUME Types, Counts, [Next]_vars
  PROVE  Counts'
<1> USE PyStreamAssumption DEF Types, Counts, peer, stream
<1>1. CASE Send
  BY <1>1 DEF Send
<1>2. CASE HangUp \/ Loop
  BY <1>2 DEF Loop, HangUp, Anext, Deliver, Cancel, Aclose, SetFails, EndSet, BeginSet
<1>3. CASE ReadFrame
  BY <1>3 DEF ReadFrame, Result
<1>4. CASE TakeJob \/ RunJob
  BY <1>4 DEF TakeJob, RunJob, Enter, Refused, Result
<1>5. CASE ReadEnd \/ ReadFails \/ Close
  BY <1>5 DEF ReadEnd, ReadFails, Close, Result
<1>6. CASE UNCHANGED vars
  BY <1>6 DEF vars
<1>7. QED
  BY <1>1, <1>2, <1>3, <1>4, <1>5, <1>6 DEF Next, Thread, Native

\* The types of the state; no more jobs than threads are taken, and one at most
\* is inside the extension, which keeps the lock.
THEOREM TypesAndLock == Spec => []TypeOK
<1>1. Init => Busy /\ Counts
  <2> SUFFICES ASSUME Init
               PROVE  Busy /\ Counts
    OBVIOUS
  <2>1. taken \cup native = {} /\ native = {} /\ Threads \in Nat /\ MaxFrames \in Nat
    BY PyStreamAssumption DEF Init
  <2>2. Busy
    BY <2>1, FS_EmptySet DEF Busy
  <2>3. Counts
    <3>1. sent = 0 /\ read = 0 /\ hung_up = FALSE /\ source = "open"
      BY DEF Init
    <3>2. hung_up \in BOOLEAN
      BY <3>1
    <3>3. sent \in 0..MaxFrames /\ read <= sent /\ source \in {"open", "closed"}
      BY <2>1, <3>1
    <3>4. QED
      BY <3>2, <3>3 DEF Counts
  <2>4. QED
    BY <2>2, <2>3
<1>2. IInv /\ Busy /\ Counts /\ [Next]_vars => (Busy /\ Counts)'
  <2> SUFFICES ASSUME IInv, Busy, Counts, [Next]_vars
               PROVE  Busy' /\ Counts'
    OBVIOUS
  <2>1. Busy'
    BY StepsChangeBusy, BusyKept
  <2>2. Counts'
    BY CountsKept DEF IInv
  <2>3. QED
    BY <2>1, <2>2
<1>3. IInv /\ Busy /\ Counts => TypeOK
  <2> SUFFICES ASSUME IInv, Busy, Counts
               PROVE  TypeOK
    OBVIOUS
  <2>1. \A c \in DOMAIN calls : calls[c].state \in States /\ calls[c].frame \in 0..read
    <3> TAKE c \in DOMAIN calls
    <3>1. calls[c].state \in States /\ calls[c].frame \in Nat /\ calls[c].frame <= read /\ read \in Nat
      BY CallFields DEF IInv, Types, Frames, FramesRead
    <3>2. QED
      BY <3>1
  <2>2. Cardinality(native) <= 1
    <3>1. native = {} \/ \E job : native = {job}
      BY DEF Busy
    <3>2. Cardinality(native) = 0 \/ Cardinality(native) = 1
      BY <3>1, FS_EmptySet, FS_Singleton
    <3>3. QED
      BY <3>2
  <2>3. read \in 0..sent
    BY DEF Counts, IInv, Types
  <2>4. sent \in 0..MaxFrames /\ hung_up \in BOOLEAN /\ source \in {"open", "closed"}
    BY DEF Counts
  <2>5. Cardinality(taken \cup native) <= Threads
    BY DEF Busy
  <2>6. QED
    BY <2>1, <2>2, <2>3, <2>4, <2>5 DEF TypeOK
<1>4. QED
  BY <1>1, <1>2, <1>3, InvariantHolds, PTL DEF Spec
=============================================================================

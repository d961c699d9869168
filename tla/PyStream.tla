------------------------------ MODULE PyStream ------------------------------
(***************************************************************************)
(* A stream of the Python package: SyndromeStream of                       *)
(* python/stabstream/__init__.py over StabstreamStream of                  *)
(* crates/stabstream-py/src/lib.rs, read by one coroutine.                 *)
(*                                                                         *)
(* __anext__ hands a job to the threads of the default executor and waits  *)
(* for its result.  All Python code runs under one lock, the GIL, and the  *)
(* native __next__ keeps it while it waits for the peer: until then no     *)
(* other step of a Python program can happen.  What the coroutine gives up *)
(* (a timeout around the call) goes on in its thread.                      *)
(*                                                                         *)
(* Frames are numbered as the peer sends them, all of one width; a window  *)
(* is the numbers of its rounds, and an answer the decoder and the rounds  *)
(* it is from.                                                             *)
(***************************************************************************)
EXTENDS SyndromeWindow, FiniteSets

CONSTANTS
  Threads,       \* how many the executor has
  AncillaCount,  \* the width of the frames
  Models,        \* error models: [detector_count]
  Depths,        \* window depths a caller passes, 0 for inferred
  MaxFrames,     \* bound: frames the peer sends
  MaxCalls,      \* bound: calls of __anext__
  MaxSets        \* bound: calls of set_decoder

ASSUME PyStreamAssumption ==
  /\ Threads \in Nat \ {0}
  /\ AncillaCount \in Nat
  /\ \A m \in Models : m.detector_count \in Nat
  /\ Depths \subseteq Nat
  /\ MaxFrames \in Nat /\ MaxCalls \in Nat /\ MaxSets \in Nat

VARIABLES
  sent,          \* how many frames the peer has sent
  hung_up,       \* whether it has closed the connection
  read,          \* how many frames were read from it
  source,        \* "open" or "closed": source and runtime
  decoder,       \* << >> or <<the model it was made from>>
  window,        \* << >> or <<[depth, frames]>>
  hint,          \* window_depth_hint
  queue,         \* the executor's queue of jobs
  taken,         \* jobs that a thread has taken and not begun
  native,        \* the job inside a native call, if any
  calls,         \* what became of each call: [state, frame, answer]
  setting,       \* << >> or <<[model, depth]>>: a call of set_decoder under way
  marks          \* history: for each of those, the frames read before it, the
                 \* model, and the depth of the window

peer   == <<sent, hung_up>>
stream == <<read, source, decoder, window, hint>>
pool   == <<queue, taken, native>>
vars   == <<peer, stream, pool, calls, setting, marks>>

NoFrame == 0

\* Jobs are the numbers of calls, or this one.
CloseJob == 0

\* The depth of the windows of a decoder.
Depth(model, depth) ==
  LET inferred == model.detector_count \div (IF AncillaCount = 0 THEN 1 ELSE AncillaCount)
  IN  IF depth > 0 THEN depth ELSE IF inferred = 0 THEN 1 ELSE inferred

\* What setting a decoder leaves behind.
Mark(setup) == [at |-> read, model |-> setup.model, depth |-> Depth(setup.model, setup.depth)]

\* A stream is opened with a decoder or without.
Init ==
  /\ sent = 0
  /\ hung_up = FALSE
  /\ read = 0
  /\ source = "open"
  /\ window = << >>
  /\ \/ decoder = << >> /\ hint = 0 /\ marks = << >>
     \/ \E model \in Models, depth \in Depths :
          /\ decoder = <<model>>
          /\ hint = depth
          /\ marks = <<Mark([model |-> model, depth |-> depth])>>
  /\ queue = << >>
  /\ taken = {}
  /\ native = {}
  /\ calls = << >>
  /\ setting = << >>

\* Whether a step of Python code can happen.
GilIsFree == native = {}

\* Whether one of the event loop can: set_decoder is called on it.
LoopIsFree == GilIsFree /\ setting = << >>

-----------------------------------------------------------------------------
(* The peer *)

Send ==
  /\ ~ hung_up
  /\ sent < MaxFrames
  /\ sent' = sent + 1
  /\ UNCHANGED <<hung_up, stream, pool, calls, setting, marks>>

HangUp ==
  /\ ~ hung_up
  /\ hung_up' = TRUE
  /\ UNCHANGED <<sent, stream, pool, calls, setting, marks>>

-----------------------------------------------------------------------------
(* The coroutine, on the event loop *)

Waiting == {"queued", "taken", "got", "ended", "failed"}

\* One call at a time: the next begins when the last has come back.
Resting == \A c \in DOMAIN calls : calls[c].state \notin Waiting

Anext ==
  /\ LoopIsFree
  /\ Resting
  /\ Len(calls) < MaxCalls
  /\ calls' = Append(calls, [state |-> "queued", frame |-> NoFrame, answer |-> << >>])
  /\ queue' = Append(queue, Len(calls) + 1)
  /\ UNCHANGED <<peer, stream, taken, native, setting, marks>>

Became(c, state) == calls' = [calls EXCEPT ![c] = [@ EXCEPT !.state = state]]

\* The result of a job arrives: a frame, the end or an error.
Deliver ==
  /\ LoopIsFree
  /\ ~ Resting
  /\ LET c == Len(calls)
     IN  \/ calls[c].state = "got"    /\ Became(c, "frame")
         \/ calls[c].state = "ended"  /\ Became(c, "stopped")
         \/ calls[c].state = "failed" /\ Became(c, "error")
  /\ UNCHANGED <<peer, stream, pool, setting, marks>>

\* The coroutine is cancelled.  A job that no thread has taken is withdrawn; any
\* other goes on, and its result is dropped.
Cancel ==
  /\ LoopIsFree
  /\ ~ Resting
  /\ LET c == Len(calls)
     IN  /\ Became(c, "cancelled")
         /\ \/ \E k \in DOMAIN queue : queue[k] = c /\ queue' = RemoveAt(queue, k)
            \/ c \notin Range(queue) /\ UNCHANGED queue
  /\ UNCHANGED <<peer, stream, taken, native, setting, marks>>

\* set_decoder, by the coroutine or by another; also while a call is under way.
\* Reading the model may run Python code, so the GIL may go to a thread in the
\* middle of it.
BeginSet(model, depth) ==
  /\ LoopIsFree
  /\ Len(marks) < MaxSets
  /\ setting' = <<[model |-> model, depth |-> depth]>>
  /\ UNCHANGED <<peer, stream, pool, calls, marks>>

\* Mutant: the rounds of the old window are kept.
EndSet_KeepsWindow ==
  /\ GilIsFree
  /\ setting # << >>
  /\ decoder' = <<setting[1].model>>
  /\ hint' = setting[1].depth
  /\ marks' = Append(marks, Mark(setting[1]))
  /\ setting' = << >>
  /\ UNCHANGED <<peer, read, source, window, pool, calls>>

EndSet ==
  /\ GilIsFree
  /\ setting # << >>
  /\ decoder' = <<setting[1].model>>
  /\ hint' = setting[1].depth
  /\ window' = << >>
  /\ marks' = Append(marks, Mark(setting[1]))
  /\ setting' = << >>
  /\ UNCHANGED <<peer, read, source, pool, calls>>

\* A model that cannot be read raises, and leaves the stream as it was.
SetFails ==
  /\ GilIsFree
  /\ setting # << >>
  /\ setting' = << >>
  /\ UNCHANGED <<peer, stream, pool, calls, marks>>

\* aclose: a job too.
Aclose ==
  /\ LoopIsFree
  /\ Resting
  /\ source = "open"
  /\ CloseJob \notin Range(queue) \cup taken
  /\ queue' = Append(queue, CloseJob)
  /\ UNCHANGED <<peer, stream, taken, native, calls, setting, marks>>

-----------------------------------------------------------------------------
(* The threads *)

TakeJob ==
  /\ GilIsFree
  /\ Cardinality(taken) < Threads
  /\ queue # << >>
  /\ taken' = taken \cup {Head(queue)}
  /\ queue' = Tail(queue)
  /\ calls' = IF Head(queue) = CloseJob THEN calls
              ELSE [calls EXCEPT ![Head(queue)] = [@ EXCEPT !.state = "taken"]]
  /\ UNCHANGED <<peer, stream, native, setting, marks>>

\* Mutant: the extension lets go of the GIL.
Enter_WithoutGil(job) ==
  /\ job \in taken
  /\ setting = << >>
  /\ taken' = taken \ {job}
  /\ native' = native \cup {job}
  /\ UNCHANGED <<peer, stream, queue, calls, setting, marks>>

\* The job calls into the extension, which does not let go of the GIL.
Enter(job) ==
  /\ GilIsFree
  /\ job \in taken
  /\ setting = << >>
  /\ taken' = taken \ {job}
  /\ native' = {job}
  /\ UNCHANGED <<peer, stream, queue, calls, setting, marks>>

\* A job ends with a result, for the coroutine if it still waits.
Result(job, state, frame, answer) ==
  /\ taken' = taken \ {job}
  /\ native' = native \ {job}
  /\ calls' = IF job # CloseJob /\ calls[job].state = "taken"
              THEN [calls EXCEPT ![job] = [state |-> state, frame |-> frame, answer |-> answer]]
              ELSE calls
  /\ UNCHANGED <<peer, queue, setting, marks>>

\* Mutant: the call reads a frame before it finds that it may not.
Refused_AfterReading(job) ==
  /\ GilIsFree
  /\ job \in taken
  /\ setting # << >>
  /\ read' = IF read < sent THEN read + 1 ELSE read
  /\ Result(job, "failed", NoFrame, << >>)
  /\ UNCHANGED <<source, decoder, window, hint>>

\* Mutant: the error is lost with the thread's job.
Refused_Silently(job) ==
  /\ GilIsFree
  /\ job \in taken
  /\ setting # << >>
  /\ taken' = taken \ {job}
  /\ UNCHANGED <<peer, stream, queue, native, calls, setting, marks>>

\* A call or a close that comes while set_decoder has the stream raises.
Refused(job) ==
  /\ GilIsFree
  /\ job \in taken
  /\ setting # << >>
  /\ Result(job, "failed", NoFrame, << >>)
  /\ UNCHANGED stream

\* The window with one more round: it is made with the first one after the
\* decoder was set, and without a decoder there is none.
Pushed(frame) ==
  IF decoder = << >> THEN window
  ELSE LET w == IF window = << >> THEN [depth |-> Depth(decoder[1], hint), frames |-> << >>] ELSE window[1]
       IN  <<[depth |-> w.depth, frames |-> Slide(w.frames, w.depth, frame)]>>

\* decode_window, also of a window that is not full yet.
Answer(w) == IF decoder = << >> THEN << >> ELSE <<decoder[1], w[1].frames>>

\* __next__ reads a frame, which is gone from the stream whoever waits for it.
ReadFrame ==
  \E call \in native \ {CloseJob} :
    /\ source = "open"
    /\ read < sent
    /\ read' = read + 1
    /\ window' = Pushed(read + 1)
    /\ Result(call, "got", read + 1, Answer(window'))
    /\ UNCHANGED <<source, decoder, hint>>

\* It finds the end of the stream.
ReadEnd ==
  \E call \in native \ {CloseJob} :
    /\ source = "open"
    /\ read = sent
    /\ hung_up
    /\ Result(call, "ended", NoFrame, << >>)
    /\ UNCHANGED stream

\* The stream is closed, or reading from it fails.
ReadFails ==
  \E call \in native \ {CloseJob} :
    /\ Result(call, "failed", NoFrame, << >>)
    /\ UNCHANGED stream

Close ==
  /\ CloseJob \in native
  /\ source' = "closed"
  /\ Result(CloseJob, "ended", NoFrame, << >>)
  /\ UNCHANGED <<read, decoder, window, hint>>

-----------------------------------------------------------------------------
Loop == Anext \/ Deliver \/ Cancel \/ Aclose \/
        EndSet \/ SetFails \/ \E model \in Models, depth \in Depths : BeginSet(model, depth)

Native == ReadFrame \/ ReadEnd \/ ReadFails \/ Close

Jobs == 1..MaxCalls \cup {CloseJob}

RunJob == \E job \in Jobs : Enter(job) \/ Refused(job)

Thread == TakeJob \/ RunJob \/ Native

Next == Send \/ HangUp \/ Loop \/ Thread

Spec == Init /\ [][Next]_vars

\* A peer that sends or hangs up, threads that run, and a loop that delivers.
\* A thread and the loop meet at the GIL, which goes round.
Fairness ==
  /\ WF_vars(Send \/ HangUp)
  /\ SF_vars(Deliver) /\ WF_vars(EndSet \/ SetFails)
  /\ SF_vars(TakeJob) /\ SF_vars(RunJob) /\ WF_vars(Native)

FairSpec == Spec /\ Fairness

-----------------------------------------------------------------------------
(* Properties *)

States == {"queued", "taken", "got", "ended", "failed", "frame", "stopped", "error", "cancelled"}

\* The types, and the lock: one job at most is inside the extension.
TypeOK ==
  /\ sent \in 0..MaxFrames /\ hung_up \in BOOLEAN
  /\ read \in 0..sent
  /\ source \in {"open", "closed"}
  /\ \A c \in DOMAIN calls : calls[c].state \in States /\ calls[c].frame \in 0..read
  /\ Cardinality(taken \cup native) <= Threads
  /\ Cardinality(native) <= 1

\* Frames are delivered in the order of the stream and each at most once, even
\* if calls were given up and their jobs went on, in another thread than the
\* calls that followed; and a frame that no call brought was read for a call
\* that was given up: each of those costs one frame at most, and an error none.
OnlyCancelledCallsLose ==
  LET In(states) == Cardinality({c \in DOMAIN calls : calls[c].state \in states})
  IN  /\ read <= In({"got", "frame"}) + In({"cancelled"})
      /\ \A c, d \in DOMAIN calls :
           c < d /\ calls[c].frame # NoFrame /\ calls[d].frame # NoFrame =>
             calls[c].frame < calls[d].frame

\* The numbers of the last rounds after the first so many, up to a frame.
Rounds(after, frame, depth) ==
  LET n == IF depth < frame - after THEN depth ELSE frame - after
  IN  [k \in 1..n |-> frame - n + k]

\* The answer that comes with a frame is that of the decoder that was set when
\* the frame was read, for the rounds read since: also those of calls that were
\* given up, and none from before.
AnswersAreOfTheirTime ==
  \A c \in DOMAIN calls :
    LET frame  == calls[c].frame
        before == {k \in DOMAIN marks : marks[k].at < frame}
    IN  frame # NoFrame =>
          \/ before = {} /\ calls[c].answer = << >>
          \/ \E k \in before :
               /\ \A j \in before : j <= k
               /\ calls[c].answer = <<marks[k].model, Rounds(marks[k].at, frame, marks[k].depth)>>

\* Every call comes back, given up or not, if the peer goes on or hangs up.
CallsReturn == []<> Resting
=============================================================================

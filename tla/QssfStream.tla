----------------------------- MODULE QssfStream -----------------------------
(***************************************************************************)
(* QssfStream::next_frame                                                  *)
(* (crates/stabstream-deserialize/src/stream.rs) over a byte ring.         *)
(*                                                                         *)
(* next_frame is an async function.  It may be suspended at one place      *)
(* only, the read inside fill_until, which it reaches from a dozen call    *)
(* sites: pc names the site, needed the bytes that site asks for, and one  *)
(* action per site is the code from that fill to the next.  Between two    *)
(* reads the peer may deliver any number of bytes up to Chunk, close, or   *)
(* the caller may drop the future (a timeout around the call does that),   *)
(* and then the local variables are gone while the fields of the stream    *)
(* stay as they are.                                                       *)
(***************************************************************************)
EXTENDS QssfWire, Validate

CONSTANTS
  Cap,         \* config.ring_buf_bytes
  Modulus,     \* range of the ring's counters
  Chunk,       \* most bytes one read returns (4096)
  Streams,     \* the streams a peer may send: their frames, and the schema that
               \* the registry has for them, << >> or <<schema>>
  MayTruncate, \* whether the peer may close in the middle of a stream
  CancelAt,    \* the sites where the caller may drop a pending call
  IoErrors,    \* whether a read may fail
  Strict,      \* whether config.validation is StrictParity
  Garbage      \* what a length field may read as when it is not one

ASSUME StreamAssumption ==
  /\ Cap \in Nat \ {0}
  /\ Modulus \in Nat /\ Cap < Modulus
  /\ Chunk \in Nat \ {0}
  /\ Streams \subseteq [frames : Seq(Frame), schema : Seq(Schema)]
  /\ MayTruncate \in BOOLEAN
  /\ Strict \in BOOLEAN
  /\ IoErrors \in BOOLEAN
  /\ Garbage \subseteq Nat /\ Garbage # {}

VARIABLES
  frames, schema, wire,       \* what the peer sends, and its bytes
  pos,                        \* how many of them were read
  buf, read_pos, write_pos,   \* ring_buf
  scratch,                    \* scratch
  header_consumed,            \* header_consumed
  last_frame_id,              \* last_frame_id, -1 for None
  pc, cur,                    \* the suspended call and its locals
  result,                     \* how the last call ended
  out,                        \* the frame it returned
  returned                    \* history: the frames returned so far

peer == <<frames, schema, wire>>
ring == <<buf, read_pos, write_pos>>
vars == <<frames, schema, wire, pos, buf, read_pos, write_pos, scratch,
          header_consumed, last_frame_id, pc, cur, result, out, returned>>

Zero == <<0, "zero", 0, 0>>

\* ring_buf, and ring_buf with its read position at p.  Of the ring's module
\* only the operations are used, not its own inputs (Byte, Chunks).
Ring == INSTANCE RingBuffer WITH Byte <- {Zero}, Chunks <- {}
RingAt(p) == INSTANCE RingBuffer WITH Byte <- {Zero}, Chunks <- {}, read_pos <- p

Sites == {"file_header", "header", "de_len", "payload", "tag_count", "tag",
          "value", "count", "annotations", "terminator"}

NoSlice == [at |-> "static", idx |-> 0, len |-> 0]

\* The locals of a call: f the frame whose header it consumed, the slices it
\* borrowed, the metadata values and annotations it copied, left the tags to
\* come, len the length it is about to read, verified whether the terminator
\* was compared.
NoLocals ==
  [f |-> 0, de |-> NoSlice, meas |-> NoSlice, timing |-> NoSlice, parity |-> NoSlice,
   values |-> << >>, annotations |-> << >>, left |-> 0, len |-> 0, verified |-> FALSE]

NoOut ==
  [f |-> 0, de |-> << >>, meas |-> << >>, timing |-> << >>, parity |-> << >>,
   values |-> << >>, annotations |-> << >>, verified |-> FALSE]

Init ==
  /\ \E s \in Streams : frames = s.frames /\ schema = s.schema
  /\ \E n \in 0 .. Len(StreamBytes(frames)) :
        /\ MayTruncate \/ n = Len(StreamBytes(frames))
        /\ wire = SubSeq(StreamBytes(frames), 1, n)
  /\ pos = 0
  /\ buf = [i \in 0 .. (Cap - 1) |-> Zero]
  /\ read_pos = 0
  /\ write_pos = 0
  /\ scratch = << >>
  /\ header_consumed = FALSE
  /\ last_frame_id = -1
  /\ pc = "idle"
  /\ cur = NoLocals
  /\ result = "none"
  /\ out = NoOut
  /\ returned = << >>

-----------------------------------------------------------------------------
(* Decoding *)

\* The frame a run of bytes is the given part of, 0 if it is no such part.
FieldOf(bytes, part) ==
  IF bytes = Bytes(bytes[1][1], part, bytes[1][3], Len(bytes)) THEN bytes[1][1] ELSE 0

\* What each length field of frame f says, the j-th tag's for a tag.
Announced(f, part, j) ==
  CASE part = "de_len"    -> Len(frames[f].detector_events)
    [] part = "tag_count" -> Len(frames[f].tags)
    [] part = "tag"       -> frames[f].tags[j]
    [] part = "count"     -> frames[f].annotations

\* What a length field may read as: its value, or anything if the bytes are
\* not the field's.
LengthIn(bytes, part) ==
  LET f == FieldOf(bytes, part)
  IN  IF f # 0 THEN {Announced(f, part, bytes[1][3])} ELSE Garbage

CurFrame == frames[cur.f]

PayloadLen == cur.len + CurFrame.ancilla_count + TimingLen(CurFrame) + ParityLen(CurFrame)

\* The argument of fill_until at each site.
Needed ==
  CASE pc = "file_header" -> FileHeaderLen
    [] pc = "header"      -> FrameHeaderLen
    [] pc \in {"de_len", "tag_count"} -> PrefixLen
    [] pc = "payload"     -> PayloadLen
    [] pc = "tag"         -> TagHeaderLen
    [] pc \in {"value", "annotations"} -> cur.len
    [] pc = "count"       -> 1
    [] pc = "terminator"  -> TerminatorLen

-----------------------------------------------------------------------------
(* The end of a call *)

\* Mutant: the locals of a call outlive it.
Return_KeepsLocals(r) ==
  /\ pc' = "idle"
  /\ result' = r
  /\ UNCHANGED cur

Return(r) ==
  /\ pc' = "idle"
  /\ cur' = NoLocals
  /\ result' = r

Fail == Return("error") /\ UNCHANGED <<out, returned>>

\* An error raised before anything was consumed at this site.
FailUntouched ==
  /\ Fail
  /\ UNCHANGED <<ring, scratch, header_consumed, last_frame_id>>

\* What a borrowed slice reads as, in the given store and scratch.
Deref(s) ==
  CASE s.at = "ring"    -> [i \in 1..s.len |-> buf'[s.idx + i - 1]]
    [] s.at = "scratch" -> SubSeq(scratch', 1, s.len)
    [] s.at = "static"  -> << >>

\* The schema is looked up by the id that the file header has.
Rejected(f) == Strict /\ ~ Accepts(schema, frames[f])

\* The frame is assembled, validated and handed out; its slices read as the
\* ring and the scratch buffer stand at that moment.
Yield(locals) ==
  IF Rejected(locals.f)
  THEN Fail
  ELSE /\ Return("frame")
       /\ returned' = Append(returned, locals.f)
       /\ out' = [f |-> locals.f,
                  de |-> Deref(locals.de), meas |-> Deref(locals.meas),
                  timing |-> Deref(locals.timing), parity |-> Deref(locals.parity),
                  values |-> locals.values, annotations |-> locals.annotations,
                  verified |-> locals.verified]

-----------------------------------------------------------------------------
(* fill_until *)

Waiting == pc # "idle" /\ Ring!available_read < Needed

\* A read returns n bytes.  Those the ring has no room for are lost, and the
\* call fails.
Read ==
  /\ Waiting
  /\ \E n \in 1 .. Ring!Least(Chunk, Len(wire) - pos) :
       LET data == SubSeq(wire, pos + 1, pos + n)
       IN  /\ pos' = pos + n
           /\ Ring!Write(data)
           /\ IF Ring!Accepted(data) < n
              THEN Fail
              ELSE UNCHANGED <<pc, cur, result, out, returned>>
  /\ UNCHANGED <<peer, scratch, header_consumed, last_frame_id>>

\* The block after the metadata, and the one after the annotations.
AfterPayload(f) ==
  IF frames[f].metadata THEN "tag_count"
  ELSE IF frames[f].annotated THEN "count" ELSE "terminator"

AfterMetadata(f) == IF frames[f].annotated THEN "count" ELSE "terminator"

\* A read returns 0: end of stream.  fill_until returns false and each site
\* has its own way with that.
EndOfStream ==
  /\ Waiting
  /\ pos = Len(wire)
  /\ UNCHANGED <<peer, pos, ring, scratch, header_consumed, last_frame_id>>
  /\ \/ /\ pc \in {"file_header", "header"}
        /\ Return("end")
        /\ UNCHANGED <<out, returned>>
     \/ /\ pc \in {"de_len", "payload", "tag_count", "count", "annotations"}
        /\ Fail
     \/ /\ pc \in {"tag", "value"}
        /\ pc' = AfterMetadata(cur.f)
        /\ UNCHANGED <<cur, result, out, returned>>
     \/ /\ pc = "terminator"
        /\ Yield(cur)

\* A read fails: the error is passed on from whichever site was waiting.
ReadError ==
  /\ IoErrors
  /\ Waiting
  /\ FailUntouched
  /\ UNCHANGED <<peer, pos>>

\* Mutant: a read completed, but its bytes are dropped with the future.
Cancel_LosesRead ==
  /\ Waiting
  /\ pc \in CancelAt
  /\ Return("cancelled")
  /\ pos' = Ring!Least(pos + 1, Len(wire))
  /\ UNCHANGED <<peer, ring, scratch, header_consumed, last_frame_id, out, returned>>

\* The caller drops the future while it waits for the reader.
Cancel ==
  /\ Waiting
  /\ pc \in CancelAt
  /\ Return("cancelled")
  /\ UNCHANGED <<peer, pos, ring, scratch, header_consumed, last_frame_id, out, returned>>

-----------------------------------------------------------------------------
(* The parser, from one fill to the next *)

Filled(site) == pc = site /\ Ring!available_read >= Needed

Call ==
  /\ pc = "idle"
  /\ pc' = IF header_consumed THEN "header" ELSE "file_header"
  /\ result' = "none"
  /\ out' = NoOut
  /\ UNCHANGED <<peer, pos, ring, scratch, header_consumed, last_frame_id, cur, returned>>

FileHeader ==
  /\ Filled("file_header")
  /\ IF Ring!Peekable(FileHeaderLen) /\
        Ring!Peek(FileHeaderLen) = Bytes(0, "file_header", 0, FileHeaderLen)
     THEN /\ Ring!Consume(FileHeaderLen)
          /\ header_consumed' = TRUE
          /\ pc' = "header"
          /\ UNCHANGED <<scratch, last_frame_id, cur, result, out, returned>>
     ELSE FailUntouched
  /\ UNCHANGED <<peer, pos>>

\* Mutants: repeats pass; gaps do not.
OutOfOrder_Repeats(f) == frames[f].id < last_frame_id
OutOfOrder_Gaps(f) == last_frame_id # -1 /\ frames[f].id # last_frame_id + 1

OutOfOrder(f) == frames[f].id <= last_frame_id

\* The header is peeked, its checksum compared, and only then consumed; an
\* id out of order is found after that.
FrameHeader ==
  /\ Filled("header")
  /\ LET f == FieldOf(Ring!Peek(FrameHeaderLen), "header")
     IN  IF Ring!Peekable(FrameHeaderLen) /\ f # 0 /\ frames[f].crc
         THEN /\ Ring!Consume(FrameHeaderLen)
              /\ IF OutOfOrder(f)
                 THEN Fail /\ UNCHANGED last_frame_id
                 ELSE /\ last_frame_id' = frames[f].id
                      /\ cur' = [NoLocals EXCEPT !.f = f]
                      /\ pc' = "de_len"
                      /\ UNCHANGED <<result, out, returned>>
              /\ UNCHANGED <<scratch, header_consumed>>
         ELSE FailUntouched
  /\ UNCHANGED <<peer, pos>>

\* A two-byte length: peeked, consumed, kept in len or left.
DeLen ==
  /\ Filled("de_len")
  /\ IF Ring!Peekable(PrefixLen)
     THEN /\ \E n \in LengthIn(Ring!Peek(PrefixLen), "de_len") :
                cur' = [cur EXCEPT !.len = n]
          /\ Ring!Consume(PrefixLen)
          /\ pc' = "payload"
          /\ UNCHANGED <<scratch, header_consumed, last_frame_id, result, out, returned>>
     ELSE FailUntouched
  /\ UNCHANGED <<peer, pos>>

\* peek_wrapped borrows from the ring, or leaves a copy in the one scratch
\* buffer the fields share.
SliceAt(p, n) ==
  CASE n = 0                                 -> NoSlice
    [] n > 0 /\ RingAt(p)!Contiguous(n)      -> [at |-> "ring", idx |-> Ring!IndexOf(p), len |-> n]
    [] n > 0 /\ ~ RingAt(p)!Contiguous(n)    -> [at |-> "scratch", idx |-> 0, len |-> n]

ScratchAfter(s, p, n) == IF RingAt(p)!Contiguous(n) THEN s ELSE RingAt(p)!PeekWrapped(n)

\* The four fields of the payload are borrowed and consumed one after the
\* other; all their bytes are in the ring by now.
Payload ==
  /\ Filled("payload")
  /\ LET n2 == CurFrame.ancilla_count
         n3 == TimingLen(CurFrame)
         n4 == ParityLen(CurFrame)
         p2 == Ring!WrappingAdd(read_pos, cur.len)
         p3 == Ring!WrappingAdd(p2, n2)
         p4 == Ring!WrappingAdd(p3, n3)
         s2 == ScratchAfter(ScratchAfter(scratch, read_pos, cur.len), p2, n2)
     IN  /\ cur' = [cur EXCEPT !.de = SliceAt(read_pos, cur.len), !.meas = SliceAt(p2, n2),
                               !.timing = SliceAt(p3, n3), !.parity = SliceAt(p4, n4)]
         /\ scratch' = ScratchAfter(ScratchAfter(s2, p3, n3), p4, n4)
  /\ Ring!Consume(PayloadLen)
  /\ pc' = AfterPayload(cur.f)
  /\ UNCHANGED <<peer, pos, header_consumed, last_frame_id, result, out, returned>>

TagCount ==
  /\ Filled("tag_count")
  /\ IF Ring!Peekable(PrefixLen)
     THEN /\ \E n \in LengthIn(Ring!Peek(PrefixLen), "tag_count") :
                /\ cur' = [cur EXCEPT !.left = n]
                /\ pc' = IF n > 0 THEN "tag" ELSE AfterMetadata(cur.f)
          /\ Ring!Consume(PrefixLen)
          /\ UNCHANGED <<scratch, header_consumed, last_frame_id, result, out, returned>>
     ELSE FailUntouched
  /\ UNCHANGED <<peer, pos>>

Tag ==
  /\ Filled("tag")
  /\ IF Ring!Peekable(TagHeaderLen)
     THEN /\ \E n \in LengthIn(Ring!Peek(TagHeaderLen), "tag") :
                cur' = [cur EXCEPT !.len = n]
          /\ Ring!Consume(TagHeaderLen)
          /\ pc' = "value"
          /\ UNCHANGED <<scratch, header_consumed, last_frame_id, result, out, returned>>
     ELSE FailUntouched
  /\ UNCHANGED <<peer, pos>>

\* Mutant: the last tag is not read.
TagsToCome_OneShort(left) == left > 2

\* Whether the loop over the tags goes on after the current one.
TagsToCome(left) == left > 1

\* Values are copied into the metadata, not borrowed.
Value ==
  /\ Filled("value")
  /\ IF Ring!Peekable(cur.len)
     THEN /\ cur' = [cur EXCEPT !.values = Append(@, Ring!Peek(cur.len)), !.left = @ - 1]
          /\ Ring!Consume(cur.len)
          /\ pc' = IF TagsToCome(cur.left) THEN "tag" ELSE AfterMetadata(cur.f)
          /\ UNCHANGED <<scratch, header_consumed, last_frame_id, result, out, returned>>
     ELSE FailUntouched
  /\ UNCHANGED <<peer, pos>>

\* One byte never wraps: peek(1) always finds it.
Count ==
  /\ Filled("count")
  /\ \E n \in LengthIn(Ring!Peek(1), "count") :
        /\ cur' = [cur EXCEPT !.len = n * AnnotationLen]
        /\ pc' = IF n > 0 THEN "annotations" ELSE "terminator"
  /\ Ring!Consume(1)
  /\ UNCHANGED <<peer, pos, scratch, header_consumed, last_frame_id, result, out, returned>>

Annotations ==
  /\ Filled("annotations")
  /\ IF Ring!Peekable(cur.len)
     THEN /\ cur' = [cur EXCEPT !.annotations = Ring!Peek(cur.len)]
          /\ Ring!Consume(cur.len)
          /\ pc' = "terminator"
          /\ UNCHANGED <<scratch, header_consumed, last_frame_id, result, out, returned>>
     ELSE FailUntouched
  /\ UNCHANGED <<peer, pos>>

\* The terminator is compared if peek returns it; when it crosses the end of
\* the ring it is consumed unseen.
Terminator ==
  /\ Filled("terminator")
  /\ UNCHANGED <<peer, pos, scratch, header_consumed, last_frame_id>>
  /\ IF Ring!Peekable(TerminatorLen) /\
        (FieldOf(Ring!Peek(TerminatorLen), "terminator") # cur.f \/ ~ CurFrame.end)
     THEN Fail /\ UNCHANGED ring
     ELSE /\ Ring!Consume(TerminatorLen)
          /\ Yield([cur EXCEPT !.verified = Ring!Peekable(TerminatorLen)])

Parse == \/ FileHeader \/ FrameHeader \/ DeLen \/ Payload \/ TagCount \/ Tag
         \/ Value \/ Count \/ Annotations \/ Terminator

Next == Call \/ Read \/ EndOfStream \/ ReadError \/ Cancel \/ Parse

Spec == Init /\ [][Next]_vars

\* A runtime that polls the future and a caller that keeps asking for frames.
\* A read is served even if the caller keeps dropping calls: the bytes wait in
\* the socket, and the first poll of the next call, which comes before any
\* timeout is looked at, finds them.
Fairness == SF_vars(Read) /\ SF_vars(EndOfStream) /\ WF_vars(Parse) /\ WF_vars(Call)

FairSpec == Spec /\ Fairness

-----------------------------------------------------------------------------
(* Properties *)

\* The shape of every field.  In particular a site that reads a frame's body
\* always has that frame's header.
TypeOK ==
  /\ [frames |-> frames, schema |-> schema] \in Streams
  /\ pos \in 0 .. Len(wire)
  /\ DOMAIN buf = 0 .. (Cap - 1)
  /\ Range(buf) \subseteq {Zero} \cup Range(wire)
  /\ {read_pos, write_pos} \subseteq 0 .. (Modulus - 1)
  /\ Len(scratch) <= Cap
  /\ header_consumed \in BOOLEAN
  /\ last_frame_id \in {-1} \cup {frames[f].id : f \in DOMAIN frames}
  /\ pc \in {"idle"} \cup Sites
  /\ cur.f \in {0} \cup DOMAIN frames
  /\ pc \in Sites \ {"file_header", "header"} <=> cur.f # 0
  /\ result \in {"none", "frame", "end", "error", "cancelled"}
  /\ out.f # 0 <=> result = "frame"

\* The ring always holds the latest bytes of the stream, in order: no read
\* was dropped and no call, however it ended, put the ring out of step with
\* the reader, nor released more than the ring holds, which consume does not
\* check.  It is the parser's place in the frame that calls can lose.
RingHoldsTheStream ==
  /\ Ring!CapacityInvariant
  /\ Ring!Contents = SubSeq(wire, pos - Ring!available_read + 1, pos)

\* A returned frame is the frame its header announced, byte for byte, whichever
\* fields were borrowed and whichever copied to the one scratch buffer, however
\* the bytes arrived, and whatever calls failed or were dropped before: its
\* payload always, its metadata and its annotations if the stream was not cut
\* short inside them.
FrameAsSent ==
  result = "frame" =>
    LET fr == frames[out.f]
    IN  /\ out.de = Bytes(out.f, "de", 0, Len(fr.detector_events))
        /\ out.meas = Bytes(out.f, "meas", 0, fr.ancilla_count)
        /\ out.timing = Bytes(out.f, "timing", 0, TimingLen(fr))
        /\ out.parity = Bytes(out.f, "parity", 0, ParityLen(fr))
        /\ wire = StreamBytes(frames) =>
             /\ out.values = [j \in DOMAIN fr.tags |-> Bytes(out.f, "value", j, fr.tags[j])]
             /\ out.annotations = Bytes(out.f, "annotations", 0, fr.annotations * AnnotationLen)

\* Ids of returned frames strictly increase, over failed and dropped calls
\* alike, so no frame is ever returned twice.
IdsIncrease ==
  \A i, j \in DOMAIN returned :
     i < j => frames[returned[i]].id < frames[returned[j]].id

\* What StrictParity returns is consistent: its events, once decoded, are those
\* that the measured outcomes call for, under the schema of the stream.
OnlyValidFrames == Strict /\ result = "frame" => Consistent(schema, frames[out.f])

\* No call on a well-formed stream fails.
NeverFails == result # "error"

\* Every frame of a well-formed stream is returned, in the stream's order,
\* save those StrictParity rejects.
AllFramesReturned ==
  <>[](returned = SelectSeq([f \in DOMAIN frames |-> f],
                            LAMBDA f : Strict => Accepts(schema, frames[f])))
=============================================================================

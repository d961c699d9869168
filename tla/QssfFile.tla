------------------------------ MODULE QssfFile ------------------------------
(***************************************************************************)
(* QSSF bytes with their contents, and the two ways the program reads a    *)
(* frame of a file: analyze.rs goes by the header's payload_len, stream.rs *)
(* by the counts of the single fields.                                     *)
(*                                                                         *)
(* A byte is <<part, k, value>>: byte k of a field that says value.  What  *)
(* is read at an offset where no such field begins is no value: the reader *)
(* is then adrift.  An optional value is a sequence of at most one.        *)
(***************************************************************************)
EXTENDS Rle, FiniteSets

CONSTANTS
  FileHeaderLen,   \* 26
  FrameHeaderLen,  \* 36
  PrefixLen,       \* 2: the length of detector_events, the number of tags
  TagHeaderLen,    \* 4
  AnnotationLen,   \* 10
  TerminatorLen,   \* 6
  CountModulus     \* 2^16: the range of a 16-bit count

ASSUME FileAssumption ==
  /\ {FileHeaderLen, FrameHeaderLen, PrefixLen, TagHeaderLen, AnnotationLen, TerminatorLen}
       \subseteq Nat \ {0}
  /\ CountModulus \in Nat \ {0}
  /\ TerminatorLen <= FrameHeaderLen

Field(part, value, n) == [k \in 1..n |-> <<part, k, value>>]

\* One byte for each entry.
Cells(part, values) == [k \in DOMAIN values |-> <<part, 1, values[k]>>]

\* Whether a field of n bytes begins at an offset, and what it says.
Holds(bytes, at, part, n) ==
  /\ at + n <= Len(bytes)
  /\ \A k \in 1..n : bytes[at + k][1] = part /\ bytes[at + k][2] = k

ValueAt(bytes, at) == bytes[at + 1][3]

FileHeader == Field("file_header", 0, FileHeaderLen)

-----------------------------------------------------------------------------
(* Metadata and annotations (parser.rs) *)

\* Metadata is the tags that are present, and the observables that flipped.
TagOrder == <<"hardware_id", "temperature_mk", "cycle_us", "decoder_hint", "observable_flips">>

TagLen(tag) ==
  CASE tag \in {"hardware_id", "decoder_hint"} -> 1
    [] tag \in {"temperature_mk", "cycle_us"} -> 4
    [] tag = "observable_flips" -> 8

NoMetadata == [tags |-> {}, flips |-> {}]

WriteMetadataTlv(meta) ==
  LET Entry(tag) == Field("tag", [tag |-> tag, len |-> TagLen(tag)], TagHeaderLen) \o
                    Field("value", meta.flips, TagLen(tag))
  IN  Field("tag_count", Cardinality(meta.tags), PrefixLen) \o
      FlattenSeq([j \in DOMAIN TagOrder |->
                    IF TagOrder[j] \in meta.tags THEN Entry(TagOrder[j]) ELSE << >>])

\* Mutant: the first tag ends the block.
ReadTag_First(bytes, s) ==
  IF s.meta.tags # {} \/ ~ Holds(bytes, s.at, "tag", TagHeaderLen)
  THEN [s EXCEPT !.more = FALSE]
  ELSE LET t == ValueAt(bytes, s.at)
       IN  [at |-> s.at + TagHeaderLen + t.len, more |-> TRUE,
            meta |-> [tags |-> {t.tag},
                      flips |-> IF t.tag = "observable_flips"
                                THEN ValueAt(bytes, s.at + TagHeaderLen) ELSE {}]]

\* One turn of the loop over the tags: it ends where the bytes do, behind the
\* header of a tag whose value is not there.
ReadTag(bytes, s) ==
  IF ~ s.more \/ ~ Holds(bytes, s.at, "tag", TagHeaderLen)
  THEN [s EXCEPT !.more = FALSE]
  ELSE IF ~ Holds(bytes, s.at + TagHeaderLen, "value", ValueAt(bytes, s.at).len)
  THEN [s EXCEPT !.at = @ + TagHeaderLen, !.more = FALSE]
  ELSE LET t == ValueAt(bytes, s.at)
       IN  [at |-> s.at + TagHeaderLen + t.len, more |-> TRUE,
            meta |-> [tags |-> s.meta.tags \cup {t.tag},
                      flips |-> IF t.tag = "observable_flips"
                                THEN ValueAt(bytes, s.at + TagHeaderLen) ELSE s.meta.flips]]

\* The metadata that begins at an offset, and where it ends.
ParseMetadataTlv(bytes, at) ==
  IF ~ Holds(bytes, at, "tag_count", PrefixLen)
  THEN [at |-> at, more |-> FALSE, meta |-> NoMetadata]
  ELSE LET turn[n \in 0..ValueAt(bytes, at)] ==
             IF n = 0 THEN [at |-> at + PrefixLen, more |-> TRUE, meta |-> NoMetadata]
             ELSE ReadTag(bytes, turn[n - 1])
       IN  turn[ValueAt(bytes, at)]

WriteAnnotations(n) == Field("count", n, 1) \o Field("annotations", n, n * AnnotationLen)

-----------------------------------------------------------------------------
(* Frames *)

TimingLen(hdr) == IF "timing" \in hdr.flags THEN hdr.ancilla_count * 2 ELSE 0

ParityLen(hdr) == IF "parity" \in hdr.flags THEN (hdr.ancilla_count + 7) \div 8 ELSE 0

\* The bytes of a frame: blocks are its optional blocks, crc what the checksum
\* at its end is taken of.
FrameBytes(hdr, de, meas, blocks, crc) ==
  Field("header", hdr, FrameHeaderLen) \o
  Field("de_len", Len(de) % CountModulus, PrefixLen) \o
  Cells("rle", de) \o
  Cells("meas", meas) \o
  blocks \o
  Field("terminator", [of |-> crc, hdr |-> hdr], TerminatorLen)

DeLenAt(at) == at + FrameHeaderLen

MeasAt(bytes, at) == DeLenAt(at) + PrefixLen + ValueAt(bytes, DeLenAt(at))

MetadataAt(bytes, at) ==
  LET hdr == ValueAt(bytes, at)
  IN  MeasAt(bytes, at) + hdr.ancilla_count + TimingLen(hdr) + ParityLen(hdr)

Tokens(bytes, at) ==
  [k \in 1..ValueAt(bytes, DeLenAt(at)) |-> ValueAt(bytes, DeLenAt(at) + PrefixLen + k - 1)]

\* What both readers make of a frame's fields.
Parsed(bytes, at, meta) ==
  LET hdr == ValueAt(bytes, at)
  IN  [frame_id |-> hdr.frame_id, ancilla_count |-> hdr.ancilla_count,
       detector_events |-> Tokens(bytes, at),
       observable_flips |-> IF "observable_flips" \in meta.tags THEN <<meta.flips>> ELSE << >>]

NoFrame == [frame_id |-> 0, ancilla_count |-> 0, detector_events |-> << >>,
            observable_flips |-> << >>]

Outcome(status, frame, at) == [status |-> status, frame |-> frame, at |-> at]

\* read_next_frame and next_frame_bytes: the next frame is as long as its
\* header says.  An end inside a header is an end of file.  Neither checksum is
\* compared: a reader that is adrift does not notice, and what it makes of the
\* bytes is left open.
ReadNextFrame(bytes, at) ==
  LET end == at + FrameHeaderLen + ValueAt(bytes, at).payload_len + TerminatorLen
  IN  CASE at + FrameHeaderLen > Len(bytes) -> Outcome("end", << >>, at)
        [] at + FrameHeaderLen <= Len(bytes) /\ ~ Holds(bytes, at, "header", FrameHeaderLen) ->
             Outcome("adrift", << >>, at)
        [] Holds(bytes, at, "header", FrameHeaderLen) /\ end > Len(bytes) ->
             Outcome("error", << >>, at)
        [] Holds(bytes, at, "header", FrameHeaderLen) /\ end <= Len(bytes) ->
             IF Holds(bytes, end - TerminatorLen, "terminator", TerminatorLen)
             THEN Outcome("frame", SubSeq(bytes, at + 1, end), end)
             ELSE Outcome("adrift", << >>, at)

\* parse_raw_frame: the metadata, if announced, is looked for behind the
\* fields that have a fixed place.
ParseRawFrame(raw) ==
  Parsed(raw, 0, IF "metadata" \in ValueAt(raw, 0).flags
                 THEN ParseMetadataTlv(raw, MetadataAt(raw, 0)).meta ELSE NoMetadata)

\* The metadata of the frame at an offset, if it has any, and where it ends.
MetaFound(bytes, at) ==
  IF "metadata" \in ValueAt(bytes, at).flags THEN ParseMetadataTlv(bytes, MetadataAt(bytes, at))
  ELSE [at |-> MetadataAt(bytes, at), more |-> TRUE, meta |-> NoMetadata]

\* Where its terminator is: behind the annotations, if it has any, which begin
\* where its metadata ends.
TerminatorFound(bytes, at, place) ==
  IF "annotations" \in ValueAt(bytes, at).flags /\ Holds(bytes, place, "count", 1)
  THEN place + 1 + ValueAt(bytes, place) * AnnotationLen
  ELSE place

\* The counts of the blocks that its header announces.
BlocksThere(bytes, at) ==
  /\ "metadata" \in ValueAt(bytes, at).flags =>
       Holds(bytes, MetadataAt(bytes, at), "tag_count", PrefixLen)
  /\ "annotations" \in ValueAt(bytes, at).flags =>
       Holds(bytes, MetaFound(bytes, at).at, "count", 1)

\* What next_frame asks for and fails without: all of a frame but its tags and
\* its terminator.
FieldsThere(bytes, at) ==
  /\ Holds(bytes, DeLenAt(at), "de_len", PrefixLen)
  /\ BlocksThere(bytes, at)
  /\ TerminatorFound(bytes, at, MetaFound(bytes, at).at) <= Len(bytes)

\* Other bytes stand where a field is looked for.
Elsewhere(bytes, place, part, n) == place + n <= Len(bytes) /\ ~ Holds(bytes, place, part, n)

\* A reader of these fields is adrift.
Astray(bytes, at) ==
  \/ ~ Holds(bytes, at, "header", FrameHeaderLen)
  \/ /\ Holds(bytes, DeLenAt(at), "de_len", PrefixLen)
     /\ \/ /\ "metadata" \in ValueAt(bytes, at).flags
           /\ Elsewhere(bytes, MetadataAt(bytes, at), "tag_count", PrefixLen)
        \/ /\ "annotations" \in ValueAt(bytes, at).flags
           /\ Elsewhere(bytes, MetaFound(bytes, at).at, "count", 1)

\* The next frame of a stream that QssfStream reads to the end; module
\* QssfStream has the steps of it.  payload_len plays no part.  A terminator is
\* compared with the header's checksum, but where the stream ends before or
\* inside one, the frame is returned as it is.
NextOnWire(bytes, at) ==
  LET meta == MetaFound(bytes, at)
      term == TerminatorFound(bytes, at, meta.at)
      Frame(end) == Outcome("frame", Parsed(bytes, at, meta.meta), end)
  IN  IF at + FrameHeaderLen > Len(bytes) THEN Outcome("end", NoFrame, at)
      ELSE IF Astray(bytes, at) THEN Outcome("adrift", NoFrame, at)
      ELSE IF ~ FieldsThere(bytes, at) THEN Outcome("error", NoFrame, at)
      ELSE IF term + TerminatorLen > Len(bytes) THEN Frame(term)
      ELSE IF /\ Holds(bytes, term, "terminator", TerminatorLen)
              /\ ValueAt(bytes, term) = [of |-> "header", hdr |-> ValueAt(bytes, at)]
      THEN Frame(term + TerminatorLen)
      ELSE Outcome("error", NoFrame, at)

\* Whether next_frame comes back before the stream ends.
HasNext(bytes, at) ==
  /\ at + FrameHeaderLen <= Len(bytes)
  /\ \/ Astray(bytes, at)
     \/ /\ FieldsThere(bytes, at)
        /\ TerminatorFound(bytes, at, MetaFound(bytes, at).at) + TerminatorLen <= Len(bytes)

\* The next frame of a reader that goes by the header's length.
NextByLength(bytes, at) ==
  LET next == ReadNextFrame(bytes, at)
  IN  IF next.status = "frame" THEN [next EXCEPT !.frame = ParseRawFrame(@)] ELSE next

\* All frames of a file, and how it ends, in one of the two ways.
AllFrames(bytes, by_length) ==
  LET Take(s, turn) ==
        IF s.status # "frame" THEN s
        ELSE LET next == IF by_length THEN NextByLength(bytes, s.at) ELSE NextOnWire(bytes, s.at)
             IN  [status |-> next.status, at |-> next.at,
                  frames |-> IF next.status = "frame" THEN Append(s.frames, next.frame)
                             ELSE s.frames]
  IN  FoldLeft(Take, [status |-> "frame", at |-> FileHeaderLen, frames |-> << >>],
               [turn \in 1..Len(bytes) |-> turn])
=============================================================================

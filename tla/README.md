# A verification of stabstream in TLA+

stabstream carries the syndrome measurements of quantum error correction from a
source (a simulator, a recording, a control system) to decoders and tools. Its
frames travel in a binary format, QSSF, over TCP, files and a shared-memory
ring. This directory holds TLA+ modules that model its parts, TLC
configurations that check them on small instances, and theorems proved with
TLAPS for every instance.

Paths are relative to the repository's root; `deserialize/` and the like stand
for `crates/stabstream-deserialize/src/`.

## The system

| Component | State | Operations | What is hard |
|---|---|---|---|
| Byte ring, `deserialize/ring_buffer.rs` | a buffer, two counters that wrap at 2^w | write, peek, peek_wrapped, consume | wrap of indices and of counters, a full ring |
| Stream parser, `deserialize/stream.rs`, `parser.rs` | the ring, a scratch buffer, last frame id, whether the file header was read | next_frame (async) | suspension in the middle of a frame, dropped futures, fields that cross the end of the ring, slices borrowed from it, end of stream anywhere |
| Shared-memory ring, `sim/shm.rs` | a mapped file: a counter and 256 slots; a counter on either side | create, write_frame; open, try_read_frame | no lock, one atomic; the producer laps a reader, dies, starts again |
| Broadcast transport, `sim/broadcast.rs`, `sim/main.rs` | a bounded channel, a client count, a socket per client | send, subscribe, relay_to_socket | clients that join, stall and leave at any time |
| Direct and shm servers, sampling, encoding, `sim/main.rs`, `lib.rs`, `noise.rs` | none but a frame counter per connection | serve_*, encode_* | nothing shared |
| Accumulator, `metrics/` | relaxed atomic counters | record, report, reset | record is several additions, made by many threads without a lock |
| Syndrome window, `core/window.rs` | the last frames and a flat matrix of them | push, active_detectors | the matrix must follow the frames when widths differ |
| Decoders, `decoder/` | union-find forest kept between calls behind `unsafe impl Sync` | decode_window | stale scratch, one decoder used by two threads |
| Error model, `dem/` | none | parse, from_dem | repeat blocks; ids that index arrays elsewhere |
| Validators, `validate/`, over schemas of `core/schema.rs` | a registry that is filled once | per-frame predicates | events are looked up in a run-length code without decoding it |
| Run-length code, `deserialize/rle.rs` | none | encode, decode, look-up | runs at their longest |
| Recorder, player, analysis, `replay/` | a file; a window, counters, histograms | write_frame, next_frame_bytes, run_analysis | files cut anywhere; the analysis goes by a length the stream parser ignores |
| Converter, `convert/` | a file, the width of its lines | exporters, importers, `run_stim_to_qssf`, `run_from_file` | blank and ragged lines, stim that dies, two texts that must stay in step |
| C API, `ffi/c_api.rs`, `inner.rs` | a handle: stream, decoder, window, last flips | open, next_frame, set_decoder_dem, decode_frame, close | the order of calls: a decoder set between frames, a frame lost to a small buffer |
| Python package, `stabstream-py` | the same behind an asynchronous iterator over a thread pool; buffers of the loaders | `__anext__`, set_decoder, aclose; write_qssf, loaders | a cancelled wait whose thread goes on; the interpreter's lock held through a read |
| Threshold sweep, `threshold/run.rs` | one accumulator per error model, threads that sample and decode, a decoder per job | run | the report after the last addition, decoders used again, an input that fails after points were computed |
| Dashboard, `dashboard/src` | rolling metrics, an export ring | run_stream_loop, record, export_snapshot | a timeout around next_frame, frames without events, width changes |

How they meet: every reader of QSSF (C API, Python, dashboard, examples) is a
caller of `next_frame`, which owns a byte ring. The simulator is a sender: over
TCP (one stream per client, or one broadcast to all) or through the
shared-memory ring. Decoders take a syndrome window that their caller fills
from frames, and the accumulator takes what they return. The sweep joins the
sampler, the decoder and the accumulator on worker threads. Nine programs write
QSSF bytes of their own, and the analysis, the dashboard and five Python loaders read
what they wrote: only the bytes of the file hold them together.

PROJECT.json lists every component with its status, and every hazard found in
the code with the properties that would catch it going wrong.

## Modules

| Module | Models | Abstract specification |
|---|---|---|
| `ByteQueue` | | a bounded FIFO of bytes |
| `RingBuffer` | `ring_buffer.rs`, whole | refines `ByteQueue` |
| `QssfWire` | the layout of a frame and a stream, as senders write it | |
| `Rle` | `rle.rs`, and the look-up of an event in `parity.rs` | |
| `Validate` | the validators and the schema they go by | the decoded events |
| `QssfStream` | `QssfStream::next_frame` over a `RingBuffer`, with `Validate` | |
| `LossyLog` | | what a reader of a producer that never waits is promised |
| `ShmRing` | `shm.rs`, whole | refines `LossyLog` while the producer lives |
| `Broadcast` | `broadcast.rs` and the broadcast part of `main.rs` | each receiver refines `LossyLog` |
| `SyndromeWindow` | `core/window.rs`: the sliding window and its matrix | |
| `UnionFind` | `union_find.rs`, and `from_dem` of `graph.rs` | the same growth on a partition |
| `CApi` | a stream handle of `c_api.rs` and `inner.rs` | |
| `Dem` | `dem/parser.rs`, from lines that are classified | |
| `DemSampler` | the sampler of `sim/noise.rs` | |
| `Accumulator` | the counters of `metrics/lib.rs` | |
| `Sweep` | `run` of `threshold/run.rs` over all of these | |
| `QssfFile` | QSSF bytes with their contents, and the two ways to read a frame of them | |
| `Writers` | all programs that write QSSF | the frames their input describes |
| `Replay` | `run_analysis` of `analyze.rs` | |
| `PyLoaders` | `io.py`, `replay.py` and `realtime_stream` of the Python package | |
| `Dashboard` | `metrics.rs` and the loop and export of `dashboard/src/main.rs` | |
| `Recording` | a writer of `Writers`, then an analysis, a loader or the dashboard | |
| `PyStream` | the asynchronous iterator of the Python package and the native stream under it | |
| `RingBufferProofs`, `QssfStreamProofs`, `ShmRingProofs`, `BroadcastProofs`, `CApiProofs`, `SweepProofs`, `PyStreamProofs`, `RecordingProofs` | | theorems |
| `MCRingBuffer`, `MCQssfStream`, `MCCApi`, `MCSweep`, `MCRecording`, `MCPyStream` | inputs for TLC | |

**RingBuffer.** `buf`, `read_pos`, `write_pos` are the struct's fields; the
counters live in `0..Modulus-1` and every addition and subtraction wraps there,
as release builds and `wrapping_*` do with 2^w. `Write` takes what fits, in one or two
segments; `Consume` checks nothing, as in the code, and its callers' duty not to
pass what is readable is the guard of `Next`. `Contents` is what the counters
say is in the ring, and `ImplementsByteQueue` that it is a queue of bytes.

**QssfStream.** `next_frame` can be suspended only in the read of
`fill_until`, which it reaches from ten places: `pc` is that place, `cur` the
locals that live across it. There is one action per place, from one fill to the
next, and `Read`, `EndOfStream`, `ReadError` and `Cancel` are what can happen
while it waits. `Cancel` is a caller that drops the future: the locals go, the
fields stay. A byte is known by the frame, the field and the place it belongs
to, so that a property can say of every byte of a returned frame that it is the
one sent; a length read from bytes that are no length is any value of
`Garbage`. Slices are kept as references into the ring or the scratch buffer,
and read only when the frame is returned, as the caller does. The checksum of a
header and the terminator's are flags of a frame. The validators are those of
`Validate`, applied to the measurements and the run-length tokens of the frame;
`QssfStream` calls them where `next_frame` does, after the frame was consumed.

**ShmRing.** The producer's stores to a slot (its length, each word) are
separate steps in any order before the Release store of the counter; a length
may be seen half written where a build stores its four bytes apart (`TornLens`).
A Release store holds back nothing that comes after it, so the stores of the next
`write_frame` may be seen before the counter that publishes this one: `next_seq` is
the producer's own count, `seq` what others see of it, and `Ahead` how many frames
the one may be beyond the other when a store is seen (0 where the processor keeps
stores in their order, as x86 does). The consumer loads the counter, and after this
Acquire load the length and each word, in separate steps and any order. That the
loads of a call are over when it returns is an assumption; the code has no fence
there. `Truncate` and `SetLen` are the two steps in which `create` takes over a
file consumers have mapped; a consumer that touches the mapping between them is
killed. A word is known by the frame it was written for.

**Broadcast.** One relay per client: it writes the file header, then loops over
`recv` and `write_all`. The tokio channel keeps the last `Capacity` frames and
moves a receiver that fell behind to the oldest one. A socket takes
`SocketRoom` writes before the client must read; a write to a client that has
left may still go through, to nobody. Closed never comes: each relay holds the
broadcaster, hence a sender.

**CApi.** One action per function and outcome; the variables are the fields of
`InnerHandle`. What the stream yields is free: a frame of `Frames`, an error or
the end. `decode_frame` computes with the operators of `UnionFind`, which follow
the code's arrays (parents with path halving, ranks, counts at the roots, kept
from one decode to the next), on the graph that `from_dem` builds and the matrix
of `SyndromeWindow`. Bitmasks of observables are sets, which leaves out bit 63,
where the i64 returned is negative like an error code. An index beyond the
decoder's arrays is a panic, which ends the process. `given` and `mark` record
what the caller was given and when it set the decoder. Not modelled: null
pointers, and a second `stabstream_close`, which would touch a freed handle.

**Sweep.** The main thread goes through the error models; the range of shots is
handed out in jobs, each with a new decoder, as rayon's `map_init` does, to
workers that take one shot after the other. `record` is not atomic: each
`fetch_add` is a step (`RecordShot`, then `RecordError` for each observable that
was missed, in ascending order), and only the addition itself is indivisible.
`Shoot` chooses which mechanisms fire among all that can, computes the events
and the ground truth as the sampler does, and decodes them with the arrays the
worker's last shot left behind. Rates are fractions. The texts go through `Dem`:
blocks that are repeated, also 0 times, nested or never closed, and lines the
parser refuses. `judged` records what each shot of the current point came to.
Observables are below 64, as the bitmasks of the code assume.

**QssfFile, Writers, Recording.** In `QssfFile` a byte carries the value of its
field, and where a reader finds no field that begins there, it is adrift. There
are two ways through a file: `analyze.rs` takes `payload_len` of the header,
`stream.rs` adds up the fields and looks at the terminator, if there are bytes enough for
one; a writer has to serve both. `Writers` is one run of one program on one job: `QssfExporter`
called directly, stim's text imported from a file, from a pipe, or with a file
of observables, the simulator's two servers, the dashboard's encoder,
`StreamRecorder` and Python's `write_qssf`. Lines may be blank or of unequal
length, and stim may die within any line. `Described` is what the job's input
says, read off without the program; `Sound` names the inputs under which readers
get it (below). `Recording` lets one reader loose on the file: the
analysis on any prefix of it, a loader on the whole, the dashboard on the file
or on the socket while it is written. Compression is left out; a compressed
recording has no file header, and the analysis starts at its first byte.

**Replay, PyLoaders.** `Replay` is `run_analysis`: one action per frame (count,
push, decode a full window, record) and one that makes the report, percentiles
included. The decoder is any function of the window, and what it takes for one any
number of `Elapsed`. `PyLoaders` has one action per frame and one for the end of
the file, for each of the five; numpy's refusal to stack rows of
unequal length is an error.

**Dashboard.** One action per frame that arrives, and one for the export key. The
counters, the rates' window, the heatmap, which starts afresh when the width
changes, and the export ring, which does not, are the fields of
`MetricsAggregator`; `shown` is what they are to agree with.

**PyStream.** A coroutine reads the stream; calls to it are jobs in the
executor's queue, which its threads take. All Python code runs under the interpreter's lock,
and the extension does not let go of it while it waits for the peer:
`GilIsFree` guards every step of Python code. A cancelled call leaves its job
with the thread that took it, which reads a frame for nobody. `set_decoder` may
lose the lock while it reads the model, since that may run Python code, and a
call that comes then is refused: the extension finds the stream borrowed.

## Runs

| Run | Asks | Instance |
|---|---|---|
| `ByteRing` | Is the ring a bounded FIFO, do peeks read its front, also when counters wrap? | 3 bytes, counters mod 9, writes of 0 to 4 bytes |
| `StreamFaults` | Is a returned frame the frame sent, in order and valid, whatever is cut, damaged, dropped or failing? | ring of 18 bytes, frames of up to 17, 31 streams cut anywhere, five of them with a schema |
| `StreamLive` | Is every frame returned that the validators accept? | ring of 40, calls dropped only between frames |
| `ShmPromise` | Does a consumer see a lossy log, and does it get through it? | 4 slots, 1 word, 7 frames, stores of the next frame seen early, new consumers |
| `ShmRestarts` | Can frames of two runs of the producer be mixed unnoticed? | 2 slots, 2 words, 3 frames, stores of the next frame seen early, restarts anywhere |
| `Broadcast` | Are streams sound and losses accounted for, does anybody wait for a slow client? | 2 clients, 4 frames, a channel of 2, sockets of 1 |
| `CApi` | Does a handle answer from the frames its caller was given since it set the decoder? | 3 frames of 4 kinds and two widths, 3 models, 2 decoders set, depths inferred, 1 and 3 |
| `Sweep` | Do the points say what the shots came to, is the file whole? | 2 workers, up to 3 shots, 2 observables, command lines over texts with blocks and one that cannot be read |
| `Recording` | Do the readers report what the writers were given? | 15 jobs of up to 5 shots, every block and none, stim dying anywhere, files cut anywhere, windows of depth 0 to 2, rates and exports of 2 |
| `PyStream` | Are frames lost only to calls given up, are answers of their decoder, do calls come back? | 2 threads, 3 frames, 3 calls, 2 decoders set, depths inferred and 1 |
| `StreamHeaderWraps` | violation: a well-formed stream never fails | |
| `StreamTimeout` | violation: nor when a caller retries after a timeout | |

The bounds. A ring of three bytes has every case of a write (fits, is cut,
wraps, fills) at every index, and counters that wrap after nine bytes pass their
maximum many times. In a ring of 18 bytes, streams whose first frame grows byte
by byte bring each field of a full frame over the end of the ring, and reads of
one to three bytes stop inside every field. Two slots are enough for a reader to
be level, behind, at the edge and lapped, and two words for a frame to be torn
(`ShmRestarts`). A store seen one frame early takes one slot from what a reader can
rely on, and four leave it two frames that may not be damaged; with a length and one
word a frame can still be torn, and seven frames use the slots again (`ShmPromise`). A channel of two and four frames lets a
client lag, recover and lag again beside one that does not. Three frames fill
and slide a window of depth 1 and of two rounds inferred, and the three models
have a chain with an open end, a hyperedge, a mechanism that never fires, two
separate parts, and fewer detectors than a round has ancillas. Two workers with
up to three shots have jobs of every size beside each other and a worker that
records while another starts or ends; the texts have a hyperedge, mechanisms
that name a detector or an observable twice, that always and that hardly ever
fire, and a detector named only in a block that is repeated 0 times. Runs of at most
two or three events and counts below four bring the run-length code and
16-bit counts to their limits with frames of three and four bits. A terminator of two
bytes and lines of four events let stim die within the terminator's length of the end
of a line, and further from it. Jobs of three to five
shots fill a window of two, slide it, and leave a rest; export rings of two drop
the oldest. Two threads are enough for a call to overtake one that was given up,
and three calls for one to fail, one to be given up and one to be answered.

Fairness. `StreamLive` assumes that the runtime polls the future (weak fairness
of the parser's steps), that the caller calls again, and that bytes waiting in
the socket are read even if the caller keeps dropping calls (strong fairness of
`Read`): the first poll of a new call, which precedes any look at a timer, finds
them. `ShmPromise` assumes that both processes run. `Broadcast` assumes that
the runtime polls the server's tasks, and nothing of the clients: a client that
reads is a premise of `CatchesUp` only. `PyStream` assumes that the peer sends or
hangs up, that a native call that can return does (weak fairness), and that a thread
with a job and the loop with a result get their turn although they compete for the
lock (strong fairness): the interpreter hands it round on request. A passing run in which deadlock is not
checked is one where the system may stop: `Broadcast`, when the server's accept
fails and no client is left, `CApi`, when a decode has ended the process, `Recording`,
when reader and writer are done, and `PyStream`, when all calls were made. In
`Sweep` deadlock is checked: only a sweep that is done or failed stops (`Ended`),
and every other step brings it nearer to that.

What the violations show:

- `StreamHeaderWraps`: headers, lengths and annotations are read with `peek`,
  which refuses bytes that cross the end of the ring. The payload alone is read
  with `peek_wrapped`. A stream longer than the ring fails, or not, by its
  alignment. `StreamFaults` lets such calls fail and shows that what they
  return is right; `StreamLive` uses a ring the streams fit in.
- `StreamTimeout`: a header is consumed before the payload is awaited. A future
  dropped in between takes its locals with it, and the next call reads payload
  as a header. The dashboard wraps `next_frame` in a timeout of 16 ms.

Also seen while modelling, and claimed by no property. In the transports:

- `try_read_frame` does not look at the counter again after its copy, so a frame
  may be torn (shm.rs:155; the comment at :89 speaks of a stale frame);
  `WholeUnlessLapped` says exactly when it can be trusted. A consumer ahead of a
  producer that was started again takes its frames for old ones (shm.rs:137).
- A relay of the broadcast keeps a sender alive, so clients are never told that
  the shots are over (broadcast.rs:88).
- A terminator that crosses the end of the ring is consumed without being compared
  (stream.rs:381); a stream cut inside a header ends like one that ended
  cleanly (stream.rs:79). In a ring smaller than a frame and a read together,
  metadata read after the payload may overwrite the slices borrowed from it; in
  `StreamFaults` reads are short enough that it cannot. The counters of a ring whose
  capacity does not divide 2^w lose their place when they wrap (hence the assumption
  `Aligned` of four theorems, which the default capacity, a power of two, meets).
- The level without validation still compares checksums. Schemas made from an error
  model have stabilizers without qubits, so that parity rejects every frame with
  a fired detector.

In files:

- `payload_len` is computed from the header's count of ancillas, not from the bytes
  written (convert/lib.rs:97, against :59). They differ for lines of unequal length
  and for lines of 65536 and more, and the analysis loses its way; `Sound` leaves such
  jobs out.
- The servers and the dashboard's encoder ignore stim's exit status. A stim that
  dies inside its first line sets the width for all; the dashboard's encoder takes an
  empty first line for a round of width 0 (both left out of `Sound`).
- `next_frame` asks for a terminator only if the stream has six more bytes
  (stream.rs:380): where the stream ends before or inside it, the frame is returned
  as it is, unchecked. A line in which stim died no more than six events before its end
  takes the bytes of its terminator for the events that are missing, and reaches the
  dashboard and the loaders as a whole shot. A loop over the tags that comes to
  the end of the stream (stream.rs:278, :295) does not fail either. `ScreenShowsTheRun` and
  `LoadersReadTheRun` allow for the one round that this can be.
- Recordings by `StreamRecorder` have no file header and a checksum over the whole
  frame: `QssfStream` cannot read them, only the player and the analysis can.
- The analysis of a file that is cut inside a frame ends in an error, without a
  report of the frames before. Without ground truth it records every flip the
  decoder names as an error (analyze.rs:249), where the comments say zeros
  (metrics/report.rs) or no rates (analyze.rs:3-4 and 322-324); a reader has
  to look at `ground_truth_available`. In a recording where only some frames have a
  truth, the rates are off by as much. `ReportIsExact` claims nothing of such windows
  but that each adds one error at most.
- `observable_flips` of a Python frame raises where there is neither truth nor
  decoder, so that `load_dataset` and `ReplayStream` fail on such files. The next
  window of `load_qssf_windows` has the width of the frame that filled the last.
- An export after a change of the width gives old rounds the new width; the rates of
  the heatmap are those since that change.
- The simulator's frames never carry `observable_flips`: `encode_shot_frame` is given
  them and drops them, where its comment says they are written (sim/lib.rs:34-35). The
  truth of a sampled model (`serve_dem`) is compared by no property.

In decoding:

- A handle whose decoder was set after its last frame answers with that frame's
  ground-truth tag until the next. An explicit window depth that is too large for
  the model ends the process in a decode.
- The sampler fires a mechanism of probability 0 on the one draw that is 0
  (noise.rs:149; :66 says never), and such a mechanism has no edge in the graph. An
  observable that a mechanism names twice flips in the ground truth and cancels
  out in the decoder. A sweep whose last model cannot be read loses the points of all
  others.
- `__anext__` says it does not block the event loop; the interpreter's lock is held
  while it waits, so that it does (`CallsReturn` needs the peer for that reason).

## Theorems

`RingBufferProofs`, for every capacity, counter range and input:

- `TypeCorrect`, `CapacityHolds`: the inductive invariant is the two together.
  The counters stay in range whatever they do, but that they are at most a
  capacity apart needs the bound of what `Write` accepts, which is computed from
  them.
- `PeeksCorrect`, `ImplementsFIFO`: under `Aligned`, that the capacity divides
  the range of the counters. The heart is that the index of a counter advances
  by one modulo the capacity even as the counter wraps, from which a write appends to `Contents` and a consume takes from its front.

`QssfStreamProofs`, for all streams, every size of the ring, of a read and of the
fixed-size parts of the format, and whatever is cut, fails or is dropped:

- `TypeCorrect`, `IdsAlwaysIncrease`: a site inside a frame has the frame whose
  header was consumed (`TypeInv`), and the last id is at least that of every frame
  that was returned.
- `RingKeepsTheStream`: the ring holds the latest bytes of the stream. That a call
  consumes no more than there is holds by the length each site waited for; that a read
  finds room needs to know where in the stream the parser is. `FlowOK` says that the
  bytes in the ring are those of the stream up to where it was read. `InStep` says what
  stands there: at each site of a frame, exactly the bytes `DueAt` that site, and that
  the locals agree with them, unless the stream was cut and has nothing more. From
  the two, a length that is read is the frame's own (`FieldRead`), a site asks for
  no more than the frame has, and `Roomy`, that the ring has room for each field of
  the frames sent with a read on top, gives the room. Two assumptions: `Aligned`, as for
  the ring, and `Roomy`. The code meets both by its defaults: a ring of 4 MiB, reads
  of 4096 bytes, and 16-bit counts and lengths before every field.
- `FramesAreAsSent`: a returned frame is, byte for byte, the one sent. The parser
  borrows the four fields of the payload as slices of the ring, consumes them, and
  makes the frame of them only after the metadata, the annotations and the terminator,
  with reads in between. The invariant (`SentInv`) adds to that of
  `RingKeepsTheStream` that the store holds the last `Cap` bytes read, consumed or
  not, each at the slot of its place in the stream (`StoreOK`), and that a call past the
  payload has slices of exactly the places where the payload stands (`SlicesOK`): in
  the store or, for the one field that can cross the end of the ring, in the scratch
  buffer. That one buffer is enough is part of the proof (`FieldBorrowed`): two fields
  cross only if together they are longer than the ring. That no read overwrites a
  borrowed slice needs where the frame ends, which stays the same as it is parsed
  (`EndAt`), and a third assumption, `Short`: what follows the header and the first
  length of a frame fits in the ring with a read on top. The defaults do not force
  it: with 65535 tags of 65535 bytes, a frame would overwrite its own payload before it
  is returned. The streams of `StreamFaults` meet all three assumptions.

- `FramesAreValid`: what StrictParity hands out is consistent with the schema of its
  stream. That a frame handed out was accepted is the invariant (`ValidInv`); that
  what is accepted is consistent is about data. The validator looks events up in the
  runs without decoding them, and finds what decoding gives (`EventsAre`, over
  `BeforeIs`); its running parity is that of the number of ancillas measured
  as -1 (`ParityCounts`).

`ShmRingProofs`, for every number of slots, words, frames and restarts:

- `TypeCorrect`.
- `FramesWholeUnlessLapped`: a frame that came back with no lap is whole. The
  invariant says, of every published frame not yet being overwritten, that its slot
  holds its length and its words (`KeptAreWhole`); of the frame under way, that
  the stores no longer to do were done (`StoredSoFar`); of the reader's locals,
  that what it copied is the frame it is due, if it was not lapped yet
  (`ReadSoFar`).
- `ImplementsLog`: without restarts, the ring implements `LossyLog`: initial
  states map to initial states, and every step to a step of the log or to a
  stutter. `OneRun` is the invariant that nothing of an earlier run is left. It holds for
  every `Ahead` below the number of slots, and what the log promises depends on it: a
  frame may come back damaged from `Slots - Ahead` frames behind on.

`BroadcastProofs`, for every number of clients and frames, and every capacity of
the channel and of the sockets:

- `TypeCorrect`, `RelaysAreCounted`: the count of clients is never below the number
  of relays that run, nor above the number of clients accepted (`Counts`): a relay
  that fails at the header is not taken off.
- `StreamsAreSound`, `FramesAreAccounted`: the invariant (`ClientInv`) says, for each
  phase of a relay, that its stream is the header and then frames in ascending
  order, all sent since it joined and before the one in its hand (`Ordered`,
  `Position`), and that frames written, dropped and in hand are all its receiver
  has passed since (`Accounted`).
- `ReceiversReadTheLog`: each receiver implements `LossyLog`, step by step. The
  mapping makes a reply of what a relay's last step did.

`CApiProofs`, for every set of frames, error models and depths, and any number
of calls:

- `WindowCorrect`: the window of a handle holds the last frames its caller was
  given since it set the decoder. `WindowIsTheTail` alone does not say that the
  window's depth is the one the first of these frames asked for, nor that every
  window is at least one round deep; `WindowInv` does. The step that matters is
  a push (`NextFrameKeeps`), for the first frame, a window that has room and a
  full one (`SlideKeepsTheTail`).
- `TypeCorrect`, `InferredDepthsFit`: a decode of a window whose depth was inferred
  never ends the process. The invariant (`FitInv`) adds that the matrix is that of the
  rounds held, that the depth was inferred from the model that is set, and that
  nothing was aborted yet. A window has at most as many rounds as whole widths fit in
  the model (`RoundsFit`), so the matrix is no longer than the model has detectors
  (`MatrixLength`), and what fires is an index into it (`ActiveAreIndices`). The
  condition that one round alone fits in the model is the property's own: without it
  a process does end.
- `AnswersCorrect`, `GrowthCompletes`: an answer of `decode_frame` is what the
  partition of the graph's nodes says of the frames the caller was given, whatever
  earlier decodes left in the arrays, and no odd cluster has anywhere left to grow.
  For every graph and every set of active detectors, the arrays do what the
  partition does (`DecodeIsPartition`). The parents are a forest in which ranks rise
  towards the root (`Forest`, `Ranked`), so that `find` arrives in as many turns as
  there are nodes and halves paths without changing a root. `Stands` says that the
  trees are the clusters and that each root counts its active detectors; an edge
  (`JoinEdge`), a pass and all passes (`GrowStands`) keep it. A pass that
  meets an odd cluster joins two or has all it can join, so there are at most as many
  as nodes. The invariant (`AnswerInv`) adds to `FitInv` that the rounds of the window
  are what their frames decode to, bit by bit (`DecodeRleFires`), that the arrays
  are those of a decoder for the graph of the model that is set, and that the tag
  compared is the last frame's.

`SweepProofs`, for every number of threads, shots and observables and all error
models:

- `TypeCorrect`, `PointsCorrect`: whatever order the threads' additions come
  in, a point counts each of its shots once and each error it made. `PointIsExact`
  speaks of the moment after the report; the invariant (`CountingInv`) says of
  every moment before that a counter is the size of the set of shots it has had
  (`Counts`): those that were sampled, less those a worker still has to add.
  It needs that claimed shots are in exactly one job or were sampled (`Claims`)
  and that no two workers record the same shot (`Records`). Each addition puts one
  shot into one of the sets.
- `OutputCorrect`: a file is written only with all points, in the order of
  the models, and only if all could be read.

`PyStreamProofs`, for every number of threads, frames, calls and decoders:

- `TypesAndLock`, `FramesAreDelivered`: a frame was read for each call that has one, or
  for one that was given up. `OnlyCancelledCallsLose` speaks of the calls; the invariant
  adds where their jobs are: a job is in the queue, with a thread or inside
  the extension, and in one of them only (`Queue`, `Placed`), a call that still
  waits is the last, and the calls that can no longer read are at least as many as the
  frames that were read (`Paid`).
- `AnswersBelong`: the window holds the rounds since the decoder was set, at the
  depth of that decoder (`Current`), from which an answer's rounds are
  those of its time. That an answer, once given, stays so is what the history of marks
  is for.

`RecordingProofs`, for all jobs of all programs, every cut of the file, every depth of
the window and every size of the fields (`FileAssumption`, `RleAssumption`,
`WritersAssumption`, `DashboardAssumption`). The theorems share one invariant, `IInv`:

- `WriterInv`: the file is a layout, a prefix (a file header, or none) followed
  by one frame per id, of which every field is known place by place. Each of the five
  ways to write a frame is shown to append one. Where the job's headers tell the truth
  (`Sound`), the length a header states is where its frame ends, for all
  frames but the last when stim died within it (`HeadersFit`): this is the agreement of
  `payload_len` with the blocks that are written.
- `AnalysisInv`: the reader by length stands at the beginning of a frame, and has counted
  those before it. `ReadsAPrefix` compares that count with the ends of frames up to the cut;
  it is not inductive, since it does not say where the reader stands.
- `ScreenInv`: the dashboard, which reads field by field and trusts a count where it finds
  one, stands at the beginning of a frame too, maybe a later one. The lemma under it
  is that a terminator is only found where a frame ends, so that a reader that fell out
  of step comes back at a frame or not at all.
- `ShownInv`: the export ring is the tail of what was shown, and the heatmap counts the
  latest frames of one width.
- `SayInv`: the k-th frame of a file says what the k-th round that `Described` takes from
  the job says (`FramesOK`), for every writer but the recorder, where the job is `Sound`. A
  writer drops rounds and lines as it goes, so that the number of a frame is not that of its
  shot: `LinesOK` says which shots and which lines of the observables file are still to
  come, given the frames that are written.
- `ShowInv`: the dashboard stands in front of the frame it counts next, or behind all of
  them (`ReadOK`), shows of the frames it counted those that have events, and its counters
  are the sizes of the sets they stand for (`Shows`). That the last frame may be short of some
  events is in it (`Lost`, `CutRounds`), as in the property.

Its results: `TypesAreRight` (with it, that the dashboard never shows more frames than
were written), `CutsAreRead`, `ExportHoldsTheTail`, `HeatmapCountsAll` and
`ScreenIsTheRun`. The steps that matter to `ExportHoldsTheTail` and `HeatmapCountsAll` are a
push into a full ring and a change of the width. `ScreenIsTheRun` goes all the way from the
job to the screen: what the writer was given, what it wrote (`SayInv`), what the reader
of a stream makes of that frame among the others (the round trips below), and what is
counted (`ShowInv`). Where stim dies within a shot, the reader comes to the end of the file
behind that frame's fields, or inside them. In the first case the frame is returned
without a look at its terminator, whose bytes were read as its last events: it is then the
round described, short of no more events than a terminator has bytes (`ShortComes`). In the second the reader fails. Two
assumptions of `WritersAssumption` are needed: a shot has at most one set of flips, and a
frame that is exported has the tag of the ground truth exactly if it has one.

It also proves what a writer and a reader of the format make of each other, for every
shot and in the middle of any other bytes:

- `EventsReturn`: decoding the run-length code gives the events back, and `Popcount`
  is the number that fired. It rests on what one more event does to a code
  (`DecodeExtend`, `CountExtend`): the last run grows, or a new one begins.
- `ExportedFramesReturn`, `EncodedFramesReturn`: the reader of a stream, which steps over
  the optional blocks by their own counts, and the offline readers, which go by
  `payload_len`, return the same frame, the one written, and stop at the same byte. Under
  them is `ParseReturns`: the entries that `WriteMetadataTlv` wrote for a set of tags
  bring the parser, tag by tag, to the end of the block with that set. The width of a
  shot is below the range of a count (`CountModulus`, 2^16 in the code).
- `RecordedFramesReturn`: a frame of `StreamRecorder` is read offline and refused by the
  reader of a stream, because its checksum is that of the whole frame.

The constants' assumptions are named (`RingAssumption`, `ShmAssumption`, ...)
in the modules that declare them, and TLC evaluates them.

Only model-checked: liveness (`AllFramesReturned`, `Drained`, `ProducerNeverWaits`,
`CatchesUp`, `CallsReturn`), which needs fairness and ENABLED, out of the prover's reach;
what the sampler and the parser of error models compute (`ShotsAreIndependent`); and what
the analysis, the loaders and the readers of an exported file make of a run
(`ReportIsExact`, `LoadersReadTheRun`, `ExportReadsBack`). For these the proofs have what each
frame says and that it is read back; not proved is what is computed from them: the sums
of the report, the batches of the loaders, and the second file that is written and read
again.

The induction rules of the library cannot be used here, since they take an operator
as a parameter. Where a theorem needs one (the concatenation of all fields and frames
and the parity of a stabilizer in `QssfStreamProofs`, the matrix and the decoder in
`CApiProofs`, the blocks of a frame in `RecordingProofs`), the
proof takes the least element of the set of
counterexamples (`LeastOf`, `UpTo`).

## Plan

1. The byte ring and its queue: checked and proved.
2. The stream parser with its validators: checked, and all its invariants proved.
3. The shared-memory ring: checked and proved.
4. The broadcast transport: checked and proved.
5. `SyndromeWindow` and `CApi`: a handle over a stream, with the window and the
   decoder set, replaced and used between frames: checked, and all its invariants
   proved, with the decoder for every graph.
6. `Accumulator` with the threads of the threshold sweep, over `Dem` and
   `DemSampler`: checked and proved.
7. `Recording`: every writer of a file with every reader: checked; proved are the layout
   of what is written, what the analysis reads of a file that was cut, and the
   dashboard's export and heatmap.
8. `PyStream`: the Python iterator over its threads: checked and proved.
9. To come: the parser of error models on every short text, and the histograms of
   the sweep's comparison, against reference definitions.

## Not modelled

- Benches, fuzz targets, examples, notebooks and schema files drive or describe
  the library and keep no state.
- Plotting, command lines, rendering and latencies of the dashboard, adapters to other
  Python packages, the exporter of traces and the error types turn one
  representation into another.
- The registry of schemas is a table that is filled once; its loader from JSON and the
  tables that `ldpc.rs` and `schema_gen.rs` compute are data.
- Random numbers: the circuit noise of `noise.rs` is a distribution, and no property is
  about one. The sampler of error models is modelled with any outcome that can occur.
- `mwpm.rs` hands its work to an external solver.
- Compression of recordings: the bytes behind it are those of `QssfFile`.
- `compare.rs` of the sweep, which reads result files.

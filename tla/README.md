# Verification of libyami

TLA+ models of libyami, the VA-API video library: TLC checks them on small
instances, TLAPS proves what matters most for every instance.  Paths are
relative to the repository.

## 1. The system

| Component | State it keeps | Operations | Hard behaviour |
|---|---|---|---|
| `common/Thread` | deque of jobs, started flag, pthread id | start, stop, post, send, loop | lost signals, flag of `send()` on the caller's stack, restart, concurrent `stop()` |
| `common/lock.h`, `condition.h` | mutex, condition | acquire, release, wait, signal, broadcast | one lock per condition: a signal under another lock can be lost |
| `v4l2/BufferPipe.h` | two queues, each with its lock | queue, deque, put, get, peek, clearPipe | a pipe is cleared while the other side still puts |
| `v4l2/V4l2Decoder` | state of decoding, input and output pipes, streaming flags, codec event | 10 ioctls, 8 jobs of its thread | wake-ups between client and thread, format change handshake, seek |
| `V4l2Decoder::Output`, `SurfaceGetter` | pending format, buffer-to-surface maps, holders of each surface | requestBuffers, queue, deque, output, streamOff, flush, alloc | ownership of a surface by decoder, renderer or nobody; ids of destroyed surfaces |
| `v4l2/V4l2CodecBase`, `V4l2Encoder` | per port: todo and done lists, worker, REQBUFS handshake | STREAMON/OFF, REQBUFS, QBUF, DQBUF, the two workers | signals sent under the other port's lock, handshake with a failing worker |
| `V4l2CodecBase::poll` | two event descriptors, event flag | setDeviceEvent, clearDeviceEvent, poll | missed or stolen events |
| `decoder/VaapiDecoderBase`, `VaapiDecSurfacePool` | format, configuration, pool, context, outputs | start, reset, stop, flush, decode, getOutput | reconfiguration when the stream changes, recycling after destruction |
| `decoder/*` codecs | reference pictures, decoded picture buffer | decode, flush | bumping order, reference updates, resend after FORMAT_CHANGE and NO_SURFACE |
| `encoder/*` | output queue, GOP position, reference lists | encode, getOutput, flush, setParameters | reordering, busy and retry, temporal layers |
| `codecparsers/*`, `common/nalreader` | cursors, header structures | bit, Exp-Golomb, NAL and bool decoding | boundaries, widths, derived values |
| `vaapi/*` | cache of displays, VA objects | create, destroy | sharing between codecs |
| `vpp`, `ocl`, `egl`, `capi`, `interface` | driver objects | process, wrappers | little state of their own |

**Interaction.** A client of the V4L2 wrapper calls ioctls from its device
thread and polls from another.  `V4l2Decoder` posts jobs to its `Thread`, which
alone talks to the `VaapiDecoder*` behind it; results come back through
`BufferPipe`s, the device event and the codec event.  Surfaces circulate between
the decoder (through the callbacks `getSurface` and `putSurface` of the
allocator) and the client (through QBUF and DQBUF), and `SurfaceGetter` keeps the
account.  `V4l2Encoder` still uses the two workers of `V4l2CodecBase`.

**What makes each part correct.** Thread: jobs run once, in order, before
`stop()` returns, and nobody sleeps on work.  Decoder: a surface is free only
when nobody uses it, a buffer is in one place, frames come out in order and all of
them, the decoder never waits for a wake-up that has already gone by, nothing
survives a seek.  Codec pair: same for the two workers.  Decoders and
encoders: pictures come out once and in order, and each is decoded from the references it was
encoded from, which both sides compute by code of their own.  Parsers: what was written is what
is read, and a value that a header does not give is the one that still counts.

## 2. Modules

| Module | Models | Kind |
|---|---|---|
| `Thread` | `common/Thread.cpp` | one action per critical section |
| `JobQueue` | what `common/Thread.h` promises | abstract specification of `Thread` |
| `ThreadProofs` | | theorems about `Thread` |
| `SurfaceGetter` | class `SurfaceGetter` | operators on a record, one per critical section |
| `V4l2Decoder` | the ioctls, jobs and external-buffer output of `v4l2/v4l2_decode.cpp`, with the VP8 decoder behind | client thread and decoder thread |
| `V4l2DecoderProofs` | | theorems about `V4l2Decoder` and `SurfaceGetter` |
| `V4l2Codec` | `v4l2/v4l2_codecbase.cpp` with `v4l2/v4l2_encode.cpp` and the output queue of `VaapiEncoderBase` | device thread and two workers |
| `V4l2CodecProofs` | | theorems about `V4l2Codec` and `FrameLine` |
| `FrameLine` | what the encoder promises about the frames it is given | abstract specification of the output side of `V4l2Codec` |
| `ListProofs` | | lemmas about lists without repetition, used by both |
| `V4l2Poll` | the event descriptors and `poll()` of `V4l2CodecBase` | workers, poll thread, device thread |
| `V4l2PollProofs` | | theorems about `V4l2Poll` |
| `H264Dpb` | class `DPB` of `decoder/vaapidecoder_h264.cpp` | operators on a record |
| `H264Decoder` | the path of a picture in `VaapiDecoderH264` | decoder and conforming stream |
| `H265Dpb`, `H265Decoder` | the same for H.265 | decoder and conforming stream |
| `DisplayOrder` | the order of display of MPEG-2 and VC-1 | reference definition |
| `Mpeg2Decoder`, `Vc1Decoder` | `vaapidecoder_mpeg2.cpp`, `vaapidecoder_vc1.cpp` | decoder and stream |
| `Vp9Decoder` | `vaapidecoder_vp9.cpp` with the pool and format of the base class | decoder and client |
| `EncoderGop` | what the H.264 and HEVC encoders have in common | operators |
| `H264Encoder`, `HevcEncoder` | reordering, numbers, reference lists and sets, into the decoder's DPB | encoder and decoder |
| `Vp8Codec` | `vaapiencoder_vp8.cpp`, `vaapilayerid.cpp`, a network, `vaapidecoder_vp8.cpp` | encoder, network, decoder |
| `Vp9Encoder` | `vaapiencoder_vp9.cpp` and the slots of the decoder | encoder and decoder |
| `BitStream` | `bitWriter.cpp`, `StreamHeader` of the H.264 encoder, both `NalReader`s, `bitReader.cpp` | writer to reader |
| `Vp8BoolDecoder` | `vp8_bool_decoder.cpp`, beside the decoder of RFC 6386 | two decoders |
| `Vp8Parser`, `Vp9Parser` | what `vp8_parser.cpp` and `vp9parser.cpp` keep from frame to frame | parser and stream |
| `H264Parser`, `H265Parser` | the parameter sets of `h264Parser.cpp` and `h265Parser.cpp`, their scaling lists, slice headers and the slice that dependent segments continue | parser and stream |
| `H265RefPicSet` | `stRefPicSet()` of `h265Parser.cpp` | encoder of the sets and parser |
| `JpegDecoder` | `vaapiDecoderJPEG.cpp` with `jpegParser.cpp`: markers, and the tables that last | decoder and stream |
| `VideoDecoders`, `VideoEncoders` | `createVideoDecoder()`, `createVideoEncoder()` | compositions: one of them runs |
| `VideoParsers` | | composition: one of the parsers runs |
| `DisplayProofs` | | theorems about `Vc1Decoder` and `Mpeg2Decoder` |
| `VpxProofs` | | theorems about `Vp8Codec`, `Vp9Encoder`, `Vp9Decoder`, `Vp8Parser` and `Vp9Parser` |
| `VideoProofs` | | the same of the instances in `VideoDecoders`, `VideoEncoders` and `VideoParsers` |
| `MCThread`, `MCV4l2Decoder`, `MCV4l2Codec`, `MCV4l2Poll`, `MCVideoCodecs` | | instances |

`V4l2Decoder` composes `SurfaceGetter` with the ioctls and jobs, and relies on what `Thread`
promises of its queue.  `H264Encoder` and `HevcEncoder` feed the DPB operators of the decoders'
modules.  `VideoEncoders` has one instance of `H264Encoder` for each number of frames that a sequence makes
the decoder keep (`KeptA`, `KeptB`, `KeptC`).  `MCVideoCodecs` composes `VideoDecoders`, `VideoEncoders`
and `VideoParsers`.

In each module an operator introduced by "Fault:" is a plausible mistake in the
operation below it; nothing uses it, it is there to see that the properties
would notice.

### Thread

`started`, `thread` and `queue` are `m_started`, `m_thread` and `m_queue`.
`worker` says where each worker is in `loop()` and `pc` where each client is in
`send()` or `stop()`; a wait on a condition is a state of its own, left by a
signal, a broadcast or spuriously.  `flag` is the local of `send()` that
`sendJob()` writes through a reference.  `accepted` and `ran` are history.

### V4l2Decoder

`jobs` stands for the queue of `Thread` (its proved promise: in order, one at a
time).  `step` is where the decoder thread is inside the current job; a job is
cut at each lock it takes, so that the client's steps interleave with it there.
`call` is the rest of the ioctl the client is in, `phase` where it is in the
protocol: run; on the event drain, STREAMOFF, REQBUFS(0), REQBUFS(n), QBUF of
each buffer, STREAMON; on a seek STREAMOFF of input and output, then STREAMON of
both.  `codec` is the decoder: the format it has reported, the one its pool was made for,
the pool, the current picture, the references and the outputs.  A picture is one acquisition of
a surface: its id, the allocation the id is from, its time stamp.  A frame is
abstracted to key frame of a format, other frame, or end of stream; which
references a frame replaces is a choice.  The pictures that a step lets go are put back one by one
as their shared pointers die; `PutSurfaces` is the set of getters this can leave, which differ in
the order of `m_freed` only.

Cut: rendering to EGL images, exporting DMA buffers, the formats negotiated with
S_FMT and G_FMT, and bitstream contents.

### V4l2Codec

One worker per port runs `workerThread()`; `worker` is where it is in the loop, `index`
and `ok` its locals.  `todo` and `done` are `m_framesTodo` and `m_framesDone`, `reqBuf` is
`m_reqBufState`, `encoded` is the encoder's `m_output`.  A section under
`m_frameLock[port]` is one action.  `asleep` holds the threads blocked on a condition:
`Signalled` wakes one of those waiting there, whoever it is, because REQBUFS waits on the
condition of the worker, and a worker signals the other port's condition without its lock.
`call` is the ioctl the device thread has begun, `mine` the buffers the client holds.  A
frame is a number: `inFrame` and `outFrame` say which one each buffer holds.  A thread that has
been created and has not chosen a port is counted in `starting`.

Cut: parameters and formats, stream headers as a separate buffer, and B frames, which
the wrapper does not ask for (`ipPeriod` stays 1), so that the encoder keeps the order.

### V4l2Poll

`event` and `interrupt` are the counts of the two eventfds, of which the first is a semaphore:
a read takes one, and blocks at zero.  `poll()` is cut where it wakes up, reads
`m_hasEvent` and reads the descriptor.  A value of `revents` that `poll()` has not written is a
free choice.  The device thread serves what `poll()` reported before the poll thread polls again,
and need not dequeue more than one buffer each time.

### H264Decoder, H265Decoder

`dpb` (`pics`, `refs` and `shown` for H.265) is the class `DPB`, a sequence in the order of its
`std::set`; a picture is a record of the members that decisions read, a surface is the number of
its picture.  `cur`, `prev`, `newStream`, `contextChanged`, `endOfSequence` and the rest carry the
names of the decoder's members.  `stream` is an encoder that obeys the standard: it knows the true,
unwrapped order counts and frame numbers and the references it will use, and sends only what the
decoder reads.  The guards of the sending actions are the standard's definitions (which pictures
may follow, how many may wait), so that OutputInOrder compares two algorithms: the bumping of the code
and the definition.  Flushes, refusals of the driver and streams that begin anywhere are actions.

Cut: slices beyond the first, macroblock data, MVC, what is filled in for the driver.

### Mpeg2Decoder, Vc1Decoder, Vp9Decoder

`refs`, `firstField` and `cur` are the members; a frame is its place in the stream.  Field pairs,
broken links, B frames, seeks and refusals are actions.  `Vp9Decoder` adds the pool and the format
of `VaapiDecoderBase`: `client` keeps frames, so that a surface may be missing, and sends a buffer
again when `decode()` answers that the format changed or that there is no surface.

### H264Encoder, HevcEncoder, Vp8Codec, Vp9Encoder

`list` and `dump` are `m_reorderFrameList` and `m_reorderState`, `gop` the counters, `refs` the
reference list.  What is encoded is given at once to the decoder's half, `dec`, which for H.264
and HEVC is the DPB of the decoder's module; `coded` holds the lists of both sides of the last
step.  In `Vp8Codec` a network may drop the frames of some temporal layers on the way.
`special` counts forced key frames, refusals of the driver and flushes.

### BitStream

`headers` are `m_sps` and `m_pps`; SetSps and AddPps write a header with its own sequence of
fields through BitWriter, StartAnnexB and StartAVCc make the codec configuration of it and hand it
to the decoder, NextNal is `NalReader::read()` with `parseNalUnit()` and what `parseSps()` or
`parsePps()` reads.  Caches have 2 bytes and fields at most 8 bits, where the code has 8 bytes and
32 bits: a field may cross one border and no more, in both.

### Vp8BoolDecoder, Vp8Parser, Vp9Parser

`bd` is the decoder with its window of `ValueBytes` bytes, `exact` the decoder of RFC 6386 with the
whole data as one number; a step reads a boolean with both.  In the parsers `curr` and `parser` are
what persists, `frames` what the frames since the last key frame gave: the properties read the frames
backwards and know no state.  A value in a frame is "given" or not; tables stand by one or two of their
entries.  Frames parsed twice (the client sends a buffer again), headers that break off and the
uninitialized memory of `vp9_parser_new()` are actions or initial values.

### H264Parser, H265Parser, H265RefPicSet

`parser` has the maps of sets by id, and for H.265 `m_prevSlice` of the decoder; `sent` (`frames` in
`VideoParsers`) the last set that the stream had with each id.  A set has a version, which stands for the
fields that slices take over as they are, and its scaling lists, as the names of where each comes from: the
set and its place, a default, or flat.  ParseSps, ParsePps and DecodeSlice are `parseSps()`, `parsePps()` and
`parseSlice()` or `parseHeader()` with `fillIqMatrix()`; `used` is what the driver is given.  The property
looks up the lists by the tables of the standards.  A set that is refused changes nothing and is no action.
A reference picture set is written explicitly or predicted, as its encoder chooses, and must read back.

### JpegDecoder

A buffer is an image, a sequence of markers; Marker is one turn of the loop of `parse()` with its callback,
on a record that joins the `Parser` of the buffer with what lasts in `parser`: the three kinds of tables, by
the version that gave them, and the size of the format.  DecodeImage is `decode()`, whose client sends the
same buffer again after a format change or without a surface; Reset begins another stream.  Where the markers
are in the bytes is left out: `nextMarker()` goes through the text of a comment too and takes what looks
like a marker for one (`jpegParser.cpp:433`).

## 3. Runs

Every run names its bounds in its `.cfg`.

| Run | Question | Bounds |
|---|---|---|
| `thread` | safety, liveness and refinement of `Thread` | 3 clients, 1 controller, 2 worker identities (a restart), 4 jobs |
| `decoder` | safety of decoding with format changes and seeks | 2 buffers, 2 inputs at a time, 4 in all, 2 formats growing, 1 seek, 1 extra reference; never a seek while a change is pending (`Mixed = FALSE`) |
| `decoder_live` | every input consumed, every frame delivered | 1 input at a time, 3 in all, 2 formats |
| `codec` | buffers, frames, STREAMOFF and close() of the encoder | 2 buffers per port, 2 frames, `m_output` of 1, 2 STREAMOFFs, failing calls |
| `codec_reqbufs` | REQBUFS against the worker | 1 buffer, 2 frames, 2 REQBUFS, 1 STREAMOFF at any time |
| `poll` | no event missed, codec events reported, interrupt | 3 buffers, 2 codec events, 2 interrupts |
| `video` | the decoders, the encoders with their decoders, the parsers | see below |
| `decoder_shrink`, `decoder_seek_change`, `codec_lost_signal`, `encoder_vp8_copies`, `encoder_avc_order` | findings | smallest that show them |

Two buffers make the decoder run out of surfaces, which three would hide for
this number of inputs; four inputs allow a format change, frames on both sides
of it and both orders of reference.  In `codec` an output queue of one makes `encode()` refuse
a frame while the other worker is anywhere, and the second STREAMOFF meets a port that has been
restarted.  In `codec_reqbufs` one buffer suffices, because what can go wrong is that
the list becomes empty under the worker.  In `poll` three buffers are more
than one `poll()` and one service can take.  Deadlock is not checked in the decoder's
and the encoder's runs: the client may stop sending, and streams end.

What `video` checks, and with which bounds (the constants are given in `VideoDecoders`,
`VideoEncoders` and `VideoParsers`):

| Property | Of | What it says |
|---|---|---|
| OutputInOrder | decoders | pictures are shown once and in the order of the standard |
| NoPictureLost | decoders | a picture the driver took is shown, or waits, or may be dropped |
| ReferencesAreTrue | decoders | lists and slots are those the stream was made with |
| MarkingIsStandard | H.264 | marking and order counts, over commands, gaps and wraps |
| SizeWasTold | VP9 | no frame is decoded into surfaces of a size that the client was not told |
| SameReferences | encoders | a frame is decoded with the references it was encoded with |
| EncodedInOrder | encoders | every frame is encoded once, and the decoder shows it in order of input |
| ListsAreUsable | encoders | the assertions on the lists |
| FieldsAreExact | parsers | fields, booleans and reference picture sets are read as they were written |
| HeadersAreTrue | parsers | what persists from frame to frame is what the frames said, and slices have the last parameter sets with their lists, images the last tables |

| Part | Bounds | Why they are enough |
|---|---|---|
| H.264 decoder | 5 pictures, 2 references, frame numbers and order counts modulo 16, steps of -4..6, gaps of 1 and 14 | the DPB is overfull, both numbers wrap, a gap crosses the wrap |
| H.265 decoder | 4 pictures, 2 sequences, limits (2, 0, 3) and (1, 1, 3), steps of -4..6, 1 special event | each of the three limits is the one that bumps |
| MPEG-2, VC-1 | 5 and 6 frames, 2 special events | I B P B with a seek or refusal at each place |
| VP9 decoder | 2 slots, pool of 3, 2 sizes, 4 frames, 1 special event | the pool runs out, the size changes with references of both |
| H.264 encoder | 10 frames, periods 4, 5 and 8, up to 2 B frames, 1 to 4 references kept, 3 layers | two groups, and each layer pattern twice; with 3 references it is wrong (`encoder_avc_order`) |
| HEVC encoder | 12 frames, periods 4..6, up to 2 B frames, 1 reference (2 only with `Hard`, where they are wrong) | two groups |
| VP8, VP9 encoders | 9 and 8 frames, key period 6 and 5, layers of 1 to 3, 3 special events | a whole pattern of layers after a key frame |
| bits | 3 fields of 8 kinds in both sets, a cache of 2 bytes, the last byte cut off or not | 00 00 0x falls on each place of a cache |
| booleans | 1 to 3 bytes, 6 booleans of probability 1, 128 and 255, a window of 2 bytes | two refills and the end of the data |
| VP8 and VP9 headers | 3 frames after a key frame, with one value of their own each | given, kept, reset |
| parameter sets | 2 SPS of 3 versions and 4 matrices, 1 or 2 PPS, slices of both kinds, no bound on steps | each rule of fall-back, sets that replace another with or without a slice between them |
| reference picture sets | 2 explicit sets of at most 2 pictures within 3, and a predicted one | two pictures change sides, whose order is reversed |
| JPEG | 2 tables of each kind with 3 versions, all, none or one by one, 2 sizes, no bound on images | an image without tables after one that was refused, asked for again or whole, and after a reset |

`Hard` of these modules names the cases that the code gets wrong, which the run leaves out; section 4 lists
them; with one of them added, TLC refutes a property of the module, for two with the bounds given there.

**Fairness.**  `Thread`: the scheduler runs a worker and a caller that are not
blocked; no client is obliged to call.  `V4l2Decoder`: the thread runs its jobs;
the client finishes its ioctls, dequeues, recycles and serves events, the loop every
V4L2 client runs; it need not send more input nor seek.  `V4l2Codec`: the workers
run, and an ioctl that has begun goes on; no client calls anything, and no sleeper wakes
by itself.  `V4l2Poll`: the poll thread polls again once it has been
served, and the device thread serves; no buffer, event or interrupt has to come.
The decoders, encoders and parsers are called and return: they have safety properties only.

## 4. Findings

- `decoder_shrink`: a change to a smaller format makes the client reallocate, but the
  decoder keeps the pool of the old surfaces (`vaapidecoder_base.cpp:285`).
- `decoder_seek_change`: a seek forgets the pending format on one side only; frames
  then reach `ASSERT(it != m_surfaceMap.end())`.
- `codec_lost_signal`: the signal of one worker can come between the other's failing call and
  its wait, which does not test anything again (`v4l2_codecbase.cpp:236` and `:243`, against
  `v4l2_wrapper.cpp:42`): a coded frame stays behind until the next one.
- `encoder_vp8_copies`: the VP8 encoder copies golden first and then alt from the new golden, the
  decoder alt first (`vaapiencoder_vp8.cpp:463`, `vaapidecoder_vp8.cpp:294`).
- `encoder_avc_order`: the H.264 encoder writes differences to the current picture where the syntax
  has differences to the picture of the command before (`vaapiencoder_h264.cpp:1396`): with three
  references the decoder has them in another order.

The models show more, by one constant each; the runs and theorems assume the other value:

- `Thread`, `Controllers = {c1, c2}`: `StopWaitsForJobs` fails, a second `stop()` returns at
  once (`Thread.cpp:125`, against `Thread.h:37`).
- `V4l2Decoder`, `AnyId = TRUE, MaxInputs = 3, MaxSeeks = 0`: `FreeIsUnheld` fails, recycling a picture of
  a destroyed surface frees the new surface with the same id (`v4l2_decode.cpp:241`).  With `FALSE` the
  driver gives ids again too, but not one that a picture of the decoder still has.
- `V4l2Codec`, `EarlyOff = TRUE`: `StreamOffClears` and `CloseJoins` fail, nobody waits for a thread
  that has not set `m_threadOn` yet (`v4l2_codecbase.cpp:141` and `:351`).
- `V4l2Codec`, `Counts = {1}`: REQBUFS may never return, its signal being lost like
  that of `codec_lost_signal` (`:403`); `Counts = {0, 1}`: after REQBUFS(0), a
  REQBUFS(n) that leaves at `:391` never restores the state QBUF asks for.
- `V4l2Codec`, `NBuf = 2, MaxOut = 2, MaxFrames = 3, MaxOffs = 0, Counts = {1}, MaxReqs = 1`, the others
  FALSE: `BufferInOnePlace` fails, "it is safe to clear m_framesDone" (`:389`) is not so while a worker is
  in its pulse.
- `V4l2Poll`, `Devices = {TRUE, FALSE}`: `InterruptReturns` fails, without `poll_device` `poll()` tests a
  field it never wrote and may then block in `read()` (`:561`).
- `V4l2Decoder`, `Mixed = TRUE`: also `PoolKnowsSurface` and `IdleHasReason` fail, and only then a
  failing `ensureProfile()` is met.

| Member of `Hard` | Module | What goes wrong |
|---|---|---|
| "lsb after mmco5" | `H264Decoder` | `resetPictureHasMmco5()` leaves `m_pocLsb` (`:1045`); `PocIsTrue` fails |
| "range from reference" | `H264Decoder` | the high bits of the order count are taken from the previous picture whatever it is; with a step of 10 |
| "gap after non-reference" | `H264Decoder` | `m_prevPic` is the previous picture, not the previous reference (`:1524`) |
| "CRA after end of sequence" | `H265Decoder` | `m_endOfSequence` is reset by a flush only (`:1133`) |
| "end of bitstream" | `H265Decoder` | the old pictures stay and are compared with the new (`:1131`) |
| "latency of a later picture" | `H265Decoder` | the code counts every later picture, not only those that overtake one in output order, and shows a picture early (`:399`); with limits (2, 1, 3) and 5 pictures |
| "leading B frame", "second field refused" | `Mpeg2Decoder` | a B frame before its first reference is shown at once; a refused field's surface is taken by the next (`:203`) |
| "BI frame" | `Vc1Decoder` | is kept as a reference, and later frames are predicted from it |
| "no surface in a super frame", "existing frame in a super frame" | `Vp9Decoder` | the second frame finds no surface, or shows an existing one and so is a change of format to 0 x 0; the client sends the buffer again and its first frame is decoded twice (`:319`) |
| "frame refused" | `H264Encoder` | its frame number is a gap (`:1239`) |
| "two references", "I frame after B frames", "frame refused" | `HevcEncoder` | the sets differ from the lists (`:1083`) |
| "copies of the normal encoder", "key frame refused", "key frame dropped" | `Vp8Codec` | the first is `encoder_vp8_copies`; the references of both sides part until the next key frame |
| "first key frame refused" | `Vp9Encoder` | the next frame is no key frame |
| "emulation in avcC" | `BitStream` | `generateCodecConfigAVCc()` (`vaapiencoder_h264.cpp:689`) writes the sets without emulation prevention, and readers remove 03 after 00 00 |
| "super frame again" | `Vp9Parser` | a super frame parsed a second time reads sizes and deltas that its later frame has replaced |
| "SPS without its PPS" | `H264Parser`, `H265Parser` | an SPS that changes is not that of the PPSs parsed before it (`h264Parser.cpp:521`): slices are decoded with the old one |
| "PPS before its SPS" | `H264Parser` | a PPS is refused when its SPS is not there yet, although it counts only when a slice uses it |
| "set before what it refers to" | `H265Parser` | the same, also for an SPS before its VPS |
| "slice refused" | `H265Parser` | dependent segments continue the slice before the refused one (`vaapidecoder_h265.cpp:1099`) |
| "some of the tables" | `JpegDecoder` | an image that gives one table takes away the others of its kind, of the image before or the defaults (`vaapiDecoderJPEG.cpp:147`); so does one that breaks off between its tables |
| "several scans" | `JpegDecoder` | only the last scan of an image reaches the driver |
| "two images" | `JpegDecoder` | data after EOI make `decode()` fail although the image was shown |
| "no EOI" | `JpegDecoder` | the EOI that `parse()` inserts is one byte too early, and the last byte of data is cut |

Of `Vp9Decoder`, `ToldSizes` fails: a frame that is shown again has no size, and the client is told of
0 x 0.  Met while reading, too small or too far from a property for a run:
`decodeHevcRecordData()` takes the low byte only of the length of a set and of their number
(`vaapidecoder_h265.cpp:1232`); `BitReader::read()` that fails after a reload leaves bits in the cache,
where `bitReader.h:38` says that it eats all data; `BitReader::peek()` of a `NalReader` copies a plain
reader, which does not remove 03 (nobody calls it so); `moreRbspData()` looks ahead in the same way,
harmless as long as a set has no zero words at its end; `forceKeyFrame` of an input slot is set and never
reset (`v4l2_encode.cpp:174`); QBUF between STREAMOFF and STREAMON without REQBUFS creates a second surface
for an index (`v4l2_decode.cpp:432`).

## 5. Proofs

`ThreadProofs` proves, for any clients, workers and number of jobs, from
`ThreadAssumption` and `OneController` (start and stop are not called concurrently,
what every user of the class respects): the types, that jobs run once and in order, that a flag is
written only while its `send()` lasts, that jobs run on the thread `isCurrent()` knows, that no
worker sleeps on work, that `send()` returns after its job and `stop()` after all, and that `Thread`
implements `JobQueue`.

None of these is inductive alone.  `IInv` adds `WorkerInv` (at most one worker exists
and it is `m_thread`), `StopInv` (between its unlock and its return `stop()` has a
worker to join), `OrderInv` (the deque holds the latest jobs by number and `ran` those before,
with the front once it has run) and `FlagInv` (no set flag for a job still to signal).
Each part has a step lemma with one step per action.

`V4l2CodecProofs` proves, for any number of buffers, frames and calls, from `CodecAssumption`
alone, that the buffer a worker is processing stays at the front of its list (`IndexIsQueued`,
the assertion of `workerThread()`).  The invariant adds that `m_threadOn` is exactly the existence of a
worker and that a worker that has acknowledged a REQBUFS is waiting (`CInv`).  With `~EarlyOff`
it proves `StreamOffClears` and `CloseJoins`: `OffInv` adds that the threads not started are those of
the ports that are on without a worker, and that only the port of the STREAMOFF under way has
a worker while it is off.

For the frames it assumes a client that is `Patient`: it waits for a worker to start before it turns
the stream off, and makes no REQBUFS (section 4 says what fails otherwise).  `BufferInv`
says that each buffer is with the client, waiting or finished, and nowhere twice, unless a STREAMOFF
is clearing the lists; `FrameInv` adds the types and that every list holds its frames in the order
given.  From it `CodecKeepsLine` shows that the output side implements `FrameLine`, step by step: the
frames stand in a line, and a restart gives up whole stages of it.  `LineKeepsOrder` proves the
invariant of the line, from which `FramesStayApart` (`FrameInOnePlace`) and `FramesInOrder` (`InOrder`)
follow.

`V4l2DecoderProofs` proves every safety property of the run `decoder`, for any number of buffers, inputs,
formats, references, seeks and surface ids.

| Theorem | Property | Assumes |
|---|---|---|
| `PoolIsKnown` | `PoolKnowsSurface`: a codec knows every surface it is handed | `Calm` |
| `NoLostWakeUp` | `IdleHasReason`: an idle thread waits for what has not come, or its job is about to be posted | `Calm` |
| `SeekForgetsAll` | `SeekForgets`: a seek leaves nothing from before it | `Calm` |
| `FreeSurfacesAreFree` | `FreeIsUnheld`: a surface that may be given out is held by nobody | `Calm`, no `GivenWhileHeld` |
| `BuffersStayApart` | `BufferInOnePlace`: a buffer is in `m_out` once, or with the client | `Calm`, no `GivenWhileHeld` |
| `OutputFindsBuffer` | `OutputIsMapped`: the assertion of `output()` | `Calm`, no `GivenWhileHeld` |
| `FramesInOrder` | `InOrder`: frames reach the client in their order, none twice | `Calm`, no `GivenWhileHeld` |

`Calm` is `~Shrinks` and `~Mixed`: the stream does not change to a smaller format, and the client does
not seek while a change is pending.  Without the first the finding `decoder_shrink` is met, without the
second `decoder_seek_change`.

`GivenWhileHeld` is a step that gives a new surface the id of a picture which the decoder has kept from
a destroyed one.  The last four theorems are about `Spec /\ [][~GivenWhileHeld]_vars`: for every value of
`AnyId`, so for a driver that gives ids again in any order, as drivers do, a behaviour keeps the four
properties as long as it has no such step.  Nothing in the code prevents one (a VP8 decoder keeps its
references until the key frame after the new allocation), and section 4 has what follows; the theorems
say that it is the only way in which recycling by id (`v4l2_decode.cpp:237`) can go wrong.  The proof
needs no order of the ids: `Mapped` has every mapped surface alive, so a given id is not mapped, and
`Pictured` has at most one picture of an id.

None of the properties is inductive.  `Orderly` is the invariant of the threads and the change of format:

- the types of the codec and of the buffers (`CodecTyped`, `BufferTyped`);
- `Protocol`: which jobs may be queued in which state and phase, that `startDecoderJob()` is first and
  that STREAMOFF and REQBUFS wait for their own job;
- `Change` and `InputFormats`: `m_output` has a pending format exactly as long as the codec is ahead of
  the surfaces, the event is there for it, and a codec that has not looked at its surfaces since then
  still has the key frame in front of it;
- `Allocated`: in which phase the buffers have no surfaces, room for them, or all of them;
- `PoolKept`, `Clean` (what a seek has forgotten at each place) and `Wake` (for each idle state the job that
  leaves it is queued, or the client is between its critical section and its `post()`).

`Owned` adds the surfaces and the frames:

- `Mapped`: `m_surfaces` and `m_surfaceMap` agree, and have only surfaces that the driver made.  So when
  the client has queued as many buffers as it asked for, each of them has its surface, because a one-to-one
  map of that many surfaces reaches every buffer (`EveryBufferHasSurface`);
- `Pictured`: no two pictures of the codec are in one surface, and a picture is of the present allocation of
  its id;
- `Accounted`: what is in `m_freed` has no holder and is there once, and the decoder's flag is set for
  every picture, except after `holdAllByRenderer()` on the way to a new allocation;
- `Buffers`: the renderer's flag is set for each buffer in `m_out` or with the client;
- `PutOut`: a picture that is to be put out is held by the decoder alone until `output()` hands it over, and
  then by the renderer, with its buffer nowhere else;
- `Order`: the time stamps grow from the client over `m_out`, the frame being handed over and the codec's
  outputs to `m_in`.

The operations of the getter (`TakeOneFree`, `PutSurfaces`, `ClearFlag`, `SetFlag`, `AddNewSurface`,
`HoldAllByRenderer`) have a lemma each about what they do to types, lists and holders; those about lists
are in `ListProofs`.

`V4l2PollProofs` proves, for a client that always passes `poll_device` (`AlwaysDevice`), the types
and bounds (no buffer is dequeued twice) and that `poll()` blocks only when it has reported
everything.  The invariant says for each place of the poll thread how many events may be missing.

`DisplayProofs` proves OutputInOrder, NoPictureLost and ReferencesAreTrue of `Vc1Decoder` and of
`Mpeg2Decoder` when `Hard` is empty, for streams of any length with any number of refusals and seeks.
The order of display that `DisplayOrder` defines compares two frames by the references between them, so that
nothing is computed by recursion over the stream.  The invariants `InvOfVc1` and `InvOfMpeg2` relate the
whole history to the two references that the decoder keeps:

- `InPlace`: what was shown is in order, and `Behind`: in the present part of the stream no reference was
  shown at or after the one that is next, and no B frame that follows a later one.  OutputInOrder alone does
  not say where the next frame goes;
- `Complete` and `CompleteRefs`: of the references that were not refused the decoder holds the last two, or
  all there are; what a new frame is predicted from then is what it holds;
- `NoneLost` and `AllButLast`: what was decoded was shown, except the reference whose turn is next;
- for MPEG-2 `CurrentOf` and the first field: the picture that waits to be decoded is the last of the
  stream, and a second field goes into the surface of the first.

`VpxProofs` proves SameReferences of `Vp9Encoder` and `Vp8Codec`, SizeWasTold, SlotsAreTrue and
NothingAcrossKey of `Vp9Decoder`, and HeadersAreTrue of `Vp8Parser` and `Vp9Parser`, for any number of
frames, refusals and flushes, when `Hard` (of the VP9 decoder `HardStreams`) is empty.

- VP9 encoder (`ConfigsOfVp9`: a period that is not 0, the two modes).  `EncoderSlots` says which slot holds
  the newest frame and the last key frame, `DecoderSlots` that a decoder with a key frame holds what the
  encoder holds.
- VP8 (`ConfigsOfVp8`: a key period that is not 0, at least one layer, and for each target the layers that
  the network may drop).  Frames are on their way, so both ends differ.  `NetIsTrue` says of each
  frame in the network that it was made from what the decoder will hold when it comes, through the frames
  before it, and `EncoderIsAhead` the same of the next one.  `Tracked` are the buffers that the frames the
  decoder gets are predicted from: golden is not one of them for a decoder of the base layer alone.
- VP9 decoder (`SizesOfVp9`: sizes are not 0, there is a slot), for any pool.  `Ready` says what the buffer
  that the client holds finds in the decoder: its references are no older than the key frame, and after its
  frames the slots are the stream's.  It is kept although a buffer with a change of format or without a
  surface is sent again from its start.
- The parsers.  HeadersAreTrue reads the frames backwards, for the last that gave a value; the parser reads
  them forwards.  `InvOfPar8` and `InvOfPar9` say, for each value that the parser keeps, which frame gave it
  (`Latest`: no later one did) since the last frame that resets it, whatever broke off in between; `Said` and
  `Said9` say it of the first n frames, so that a frame that is parsed twice adds nothing.  The size of a VP9
  frame may come from a slot (`SizedAfter9`).

`VideoProofs` carries these over to what the run `video` checks.  Each decoder, encoder and parser in
`VideoDecoders`, `VideoEncoders` and `VideoParsers` is an instance with definitions of its own, so that for
each action a lemma shows it is the action of the module that was proved.  `StaysItself` says that the host
never changes the MIME type, `StaysPart` that a parser stays itself; the behaviours that start with one are
behaviours of its class.  For `mime \in Proved` (`mpeg2` and `vc1` as decoders, `vp8` as encoder, `vp9` as
both) `DecodedInOrder`, `DecodedNotLost`, `DecodedFromReferences` and `EncodedForDecoder` state OutputInOrder,
NoPictureLost, ReferencesAreTrue and SameReferences; `DecodedInSize` states the whole of SizeWasTold,
`HeadersOfStream` HeadersAreTrue of the parsers of VP8 and VP9.  A property says nothing of a type that it is
not about: OutputInOrder nothing of VP9, whose frames carry no order.  These six are of the constants that the
compositions give their classes; `DisplayProofs` and `VpxProofs` are of all.

Left to TLC:

- Liveness, which the prover does not do: `JobsRun`, `CallsReturn`, `InputConsumed`, `FrameDelivered`,
  `StreamOffReturns`, `EventReported`, `InterruptReturns`.
- The buffers and frames of `V4l2Codec` with REQBUFS while streaming (`codec_reqbufs`): one buffer is safe,
  with two `BufferInOnePlace` fails.
- MarkingIsStandard, EncodedInOrder, ListsAreUsable and the H.264 and H.265 part of the others.  The bumping
  of the DPB, gaps, reordering and lists with their commands are folds over data whose length is not
  bounded, in both the code and the definition it is compared with: a proof is by induction over
  data.
- FieldsAreExact, and HeadersAreTrue of H.264, H.265 and JPEG: what a writer or a reader makes of a sequence
  of fields, how a scaling list falls back on others, and what segments do to the tables are folds too.

## 6. Not modelled

- Of the modelled parts: EGL and DMA output, `VIDIOC_CREATE_BUFS`, S_FMT, G_FMT, parameters and rate
  control of the encoders, SEI and HRD, MVC, what is filled in for the driver.
- `codecparsers` of MPEG-2 and VC-1, and of H.264 and H.265 the fields that are only taken over, VUI, HRD
  and extensions: a model of them would repeat the syntax tables of the standards; how a field is read is in
  `BitStream`, what decoders use of the values in their modules.
- `decoder/VaapiDecoderBase` as a component: what `V4l2Decoder` and `Vp9Decoder` use of it is there.
- The JPEG encoder and the fake decoder keep nothing between pictures.
- `v4l2_wrapper` (a map of descriptors), `capi` and the interfaces (forwarding), `vpp`, `ocl`, `egl` and
  `vaapi` (calls of drivers, and shared pointers around them), `common/surfacepool` and `videopool`
  (a free list; the one with a protocol, `VaapiDecSurfacePool`, is in `V4l2Decoder`).
- `src/gtestsrc` is the vendored Google Test: about a quarter of the lines of the repository.  Most of
  the rest is conversion of header fields to the structures of VA-API and tables.

Next: the parameters of the encoders; STREAMOFF of the decoder's output before that of its input; of H.264 and
H.265 the invariants that need no fold, such as that the DPB holds each picture once and never more than
its capacity.

---------------------------- MODULE V4l2Decoder ----------------------------
(***************************************************************************)
(* v4l2/v4l2_decode.cpp: V4l2Decoder with ExternalBufferOutput.            *)
(*                                                                         *)
(* Two threads: the client's, which calls the ioctls, and m_thread, which  *)
(* runs the decoder's jobs one at a time in the order they were posted     *)
(* (what ThreadProofs proves of Thread; here its queue is the variable     *)
(* jobs).  They share m_in and m_out, the surfaces and their getter.  A    *)
(* step is one critical section of one thread.                             *)
(*                                                                         *)
(* The codec behind m_decoder is the VP8 one with the frame contents       *)
(* reduced to: key frame of a format, other frame, end of stream.          *)
(***************************************************************************)
EXTENDS Naturals, Sequences, FiniteSets, Functions, SequencesExt, SurfaceGetter

CONSTANTS
    NBuf,        \* capture buffers of an allocation
    NIn,         \* input buffers
    MaxInputs,   \* bound: input buffers queued and seeks in one behaviour
    MaxFmt,      \* formats are 1..MaxFmt, in the order of their sizes
    MaxRefs,     \* reference pictures kept besides the current one
    MaxSeeks,    \* bound: seeks in one behaviour
    NIds,        \* surface ids the driver can give
    AnyId,       \* whether it may give the id of a picture that outlived its surface
    Shrinks,     \* whether the stream can change to a smaller format
    Mixed        \* whether a seek may come while a change of format is pending

ASSUME DecoderAssumption ==
    /\ {NBuf, NIn, MaxInputs, MaxFmt, NIds} \subseteq Nat \ {0}
    /\ {MaxRefs, MaxSeeks} \subseteq Nat
    /\ {AnyId, Shrinks, Mixed} \subseteq BOOLEAN

Ids     == 1..NIds
Formats == 1..MaxFmt
Indices == 1..NBuf
NoPool  == {0}      \* m_surfacePool is null
None    == [id |-> 0, birth |-> 0, ts |-> 0]

VARIABLES
    \* m_thread
    started, jobs, step, then, state,
    \* m_decoder: m_videoFormatInfo, m_config, m_surfacePool, the pictures
    codec,
    \* the frame getOutputJob() is handing over
    frame,
    \* m_in, m_out
    inQ, inDone, outQ,
    \* m_output: formats, buffers and surfaces
    pending, last, count, surfaces, smap, stamp, getter,
    \* the driver's surfaces: existing ones, and the allocation each is from
    alive, birth, epoch,
    \* ioctl flags and the codec event
    inputOn, outputOn, event,
    \* the client: what it is about to do, the ioctl it is in, its buffers
    phase, call, buf, mine, sent, seen, seeks

threadVars == <<started, jobs, step, then, state>>
codecVars  == <<codec, frame>>
pipeVars   == <<inQ, inDone, outQ>>
outVars    == <<pending, last, count, surfaces, smap, stamp>>
vaVars     == <<alive, birth, epoch>>
flagVars   == <<inputOn, outputOn>>
userVars   == <<phase, call, buf, mine, sent, seen, seeks>>
vars == <<threadVars, codecVars, pipeVars, outVars, getter, vaVars, flagVars, event, userVars>>

Init ==
    /\ started = FALSE /\ jobs = <<>> /\ step = "none" /\ then = "none"
    /\ state = "kUnStarted"
    /\ codec = [made |-> FALSE, fmt |-> 0, cfg |-> 0, pool |-> NoPool, profile |-> FALSE,
                gotKey |-> FALSE, cur |-> None, refs |-> {}, outs |-> <<>>]
    /\ frame = None
    /\ inQ = <<>> /\ inDone = 0 /\ outQ = <<>>
    /\ pending = 0 /\ last = 0 /\ surfaces = <<>> /\ smap = <<>> /\ stamp = <<>>
    /\ count \in {0, NBuf}    \* m_count is not initialized
    /\ getter = EmptyGetter
    /\ alive = {} /\ birth = [i \in Ids |-> 0] /\ epoch = 0
    /\ inputOn = FALSE /\ outputOn = FALSE /\ event = FALSE
    /\ phase = "restart" /\ call = "none" /\ buf = 0 /\ mine = {}
    /\ sent = 0 /\ seen = 0 /\ seeks = 0

-----------------------------------------------------------------------------
(* The thread and the output *)

\* jobs after post(): nothing is accepted once stop() has begun.
Posted(j) == IF started THEN Append(jobs, j) ELSE jobs

\* isAllocationDone()
AllocationDone == pending = 0 /\ Cardinality(DOMAIN smap) = count

\* the pictures the codec holds; a picture is one acquisition of a surface
Held(c) == ({c.cur} \cup c.refs \cup Range(c.outs)) \ {None}

\* the surface ids that the pictures of m_decoder have
PictureIds == {h.id : h \in Held(codec) \cup {frame}}

\* what the getter can be after the codec went from c to d: SurfaceRecycler puts
\* back, by id, the surface of every picture let go
Released(c, d, g) == PutSurfaces(g, {h.id : h \in Held(c) \ Held(d)})

\* flush(true) and flush(false) of the codec
CodecFlushed(c) == [c EXCEPT !.cur = None, !.refs = {}, !.gotKey = FALSE, !.outs = <<>>]
CodecEnded(c)   == [c EXCEPT !.cur = None, !.refs = {}, !.gotKey = FALSE]

\* Fault: the pool is made once and kept across format changes.
PoolMadeOnce(c) ==
    IF c.cfg > 0 THEN c ELSE [c EXCEPT !.cfg = c.fmt, !.pool = Range(surfaces)]

\* ensureSurfacePool(): a new pool only if the surfaces have to grow; doAlloc()
\* refuses while some buffers have no surface.
PoolEnsured(c) ==
    IF c.cfg >= c.fmt THEN c
    ELSE [c EXCEPT !.cfg = c.fmt,
                   !.pool = IF Len(surfaces) = Cardinality(DOMAIN smap)
                            THEN Range(surfaces) ELSE NoPool]

\* ensureProfile(): fails without a pool, and the first time with an empty one.
ProfileFails(c)   == c.pool = NoPool \/ (~c.profile /\ c.pool = {})
ProfileEnsured(c) == [c EXCEPT !.profile = @ \/ c.pool # NoPool]

-----------------------------------------------------------------------------
(* The jobs *)

\* m_thread takes the next job.  Each job starts with the state it is for.
RunJob ==
    /\ step = "none" /\ jobs # <<>>
    /\ jobs' = Tail(jobs)
    /\ LET job == Head(jobs)
       IN  \/ /\ job = "inputReady"
              /\ state' = IF state = "kWaitInput" THEN "kGetInput" ELSE state
              /\ step' = IF state = "kWaitInput" THEN "getInput" ELSE "none"
           \/ /\ job = "getInput"
              /\ state' = state
              /\ step' = IF state = "kGetInput" THEN "getInput" ELSE "none"
           \/ /\ job = "getOutput"
              /\ state' = state
              /\ step' = IF state \in {"kGetOutput", "kFormatChanged"} THEN "getOutput" ELSE "none"
           \/ /\ job = "outputReady"
              /\ state' = IF state = "kWaitOutput" THEN "kGetOutput"
                          ELSE IF state = "kWaitSurface" THEN "kGetInput" ELSE state
              /\ step' = IF state \in {"kWaitOutput", "kFormatChanged"} THEN "getOutput"
                         ELSE IF state = "kWaitSurface" THEN "getInput" ELSE "none"
           \/ /\ job = "checkAllocation"
              /\ LET go == state = "kWaitAllocation" /\ AllocationDone
                 IN  /\ state' = IF go THEN "kGetInput" ELSE state
                     /\ step' = IF go THEN "getInput" ELSE "none"
           \/ /\ job \in {"start", "flush", "free", "request"}
              /\ step' = job /\ state' = state
    /\ UNCHANGED <<started, then, codecVars, pipeVars, outVars, getter, vaVars, flagVars,
                   event, userVars>>

\* startDecoderJob(): the codec is made once; VP8 tells no format at start().
StartDecoder ==
    /\ step = "start" /\ state = "kUnStarted"
    /\ codec' = [codec EXCEPT !.made = TRUE]
    /\ state' = "kGetInput" /\ step' = "getInput"
    /\ UNCHANGED <<started, jobs, then, frame, pipeVars, outVars, getter, vaVars, flagVars,
                   event, userVars>>

\* Fault: the codec is drained, flush(false), and not flushed.
DrainDecoder ==
    /\ step = "flush"
    /\ codec' = CodecEnded(codec)
    /\ getter' \in Released(codec, codec', getter)
    /\ pending' = 0
    /\ state' = "kStopped" /\ step' = "none"
    /\ UNCHANGED <<started, jobs, then, frame, pipeVars, last, count, surfaces, smap, stamp,
                   vaVars, flagVars, event, userVars>>

\* flushDecoderJob()
FlushDecoder ==
    /\ step = "flush"
    /\ codec' = IF codec.made THEN CodecFlushed(codec) ELSE codec
    /\ getter' \in Released(codec, codec', getter)
    /\ pending' = 0
    /\ state' = "kStopped" /\ step' = "none"
    /\ UNCHANGED <<started, jobs, then, frame, pipeVars, last, count, surfaces, smap, stamp,
                   vaVars, flagVars, event, userVars>>

\* requestBuffers(0): the surfaces are destroyed.
FreeBuffers ==
    /\ step = "free"
    /\ alive' = alive \ Range(surfaces)
    /\ count' = 0 /\ surfaces' = <<>> /\ smap' = <<>> /\ stamp' = <<>>
    /\ getter' = EmptyGetter
    /\ step' = "none"
    /\ UNCHANGED <<started, jobs, then, state, codecVars, pipeVars, pending, last, birth, epoch,
                   flagVars, event, userVars>>

\* requestBuffers(NBuf): room for NBuf surfaces, the format change is over.
RequestBuffers ==
    /\ step = "request"
    /\ count' = NBuf
    /\ surfaces' = [i \in Indices |-> IF i <= Len(surfaces) THEN surfaces[i] ELSE 0]
    /\ stamp' = [i \in Indices |-> IF i <= Len(stamp) THEN stamp[i] ELSE 0]
    /\ last' = IF pending # 0 THEN pending ELSE last
    /\ pending' = 0
    /\ epoch' = epoch + 1
    /\ step' = "none"
    /\ UNCHANGED <<started, jobs, then, state, codecVars, pipeVars, smap, getter, alive, birth,
                   flagVars, event, userVars>>

-----------------------------------------------------------------------------
(* getInputJob(): peek an input buffer and give it to the codec *)

NoInput ==
    /\ step = "getInput" /\ inQ = <<>>
    /\ state' = "kWaitInput" /\ step' = "none"
    /\ UNCHANGED <<started, jobs, then, codecVars, pipeVars, outVars, getter, vaVars, flagVars,
                   event, userVars>>

\* The codec goes from codec to d, and getInputJob() on to the given step.
Decoded(d, g, next) ==
    /\ codec' = d
    /\ getter' \in Released(codec, d, g)
    /\ step' = next
    /\ UNCHANGED <<started, jobs, then, state, frame, pipeVars, outVars, vaVars, flagVars,
                   event, userVars>>

Peek(kind) == step = "getInput" /\ inQ # <<>> /\ Head(inQ).kind = kind

\* decode() at the end of the stream.
DecodeEOS == Peek("eos") /\ Decoded(CodecEnded(codec), getter, "consume")

\* decode() of a key frame of another format: setFormat() reports it once.
DecodeFormatChange ==
    /\ Peek("key") /\ Head(inQ).fmt # codec.fmt
    /\ Decoded([codec EXCEPT !.fmt = Head(inQ).fmt], getter, "formatChange")

\* decode() that fails: no key frame to start from, or no usable pool.  Only a seek
\* while a change of format is pending leaves a client without a pool.
CannotDecode ==
    \/ Peek("other") /\ ~codec.gotKey
    \/ Peek("key") /\ Head(inQ).fmt = codec.fmt /\ ProfileFails(PoolEnsured(codec))
DecodeFails ==
    /\ CannotDecode
    /\ Decoded(IF Head(inQ).kind = "key" THEN ProfileEnsured(PoolEnsured(codec)) ELSE codec,
               getter, "consume")

\* The codec when decodePicture() is reached.
Ready ==
    IF Head(inQ).kind = "key"
    THEN [ProfileEnsured(PoolEnsured(codec)) EXCEPT !.gotKey = TRUE] ELSE codec

CanDecode ==
    \/ Peek("key") /\ Head(inQ).fmt = codec.fmt /\ ~ProfileFails(PoolEnsured(codec))
    \/ Peek("other") /\ codec.gotKey

\* acquire() finds no free surface, or takes one its pool does not know.
DecodeNoSurface ==
    /\ CanDecode
    /\ \/ ~HasFree(getter) /\ Decoded(Ready, getter, "noSurface")
       \/ /\ HasFree(getter) /\ Head(getter.freed) \notin Ready.pool
          /\ Decoded(Ready, TakeOneFree(getter, "decoder"), "noSurface")

\* A picture is decoded and put out; a key frame replaces every reference.
DecodePicture ==
    /\ CanDecode
    /\ HasFree(getter) /\ Head(getter.freed) \in Ready.pool
    /\ LET s == Head(getter.freed)
           p == [id |-> s, birth |-> birth[s], ts |-> Head(inQ).ts]
       IN  \E refs \in IF Head(inQ).kind = "key" THEN {{p}}
                       ELSE {r \in SUBSET (codec.refs \cup {p}) :
                                r # {} /\ Cardinality(r \ {p}) <= MaxRefs} :
              Decoded([Ready EXCEPT !.cur = p, !.refs = refs, !.outs = Append(@, p)],
                      TakeOneFree(getter, "decoder"), "consume")

\* after FORMAT_CHANGE: m_output->setFormat(), then drain the output.
FormatChange ==
    /\ step = "formatChange"
    /\ state' = "kFormatChanged" /\ step' = "getOutput"
    /\ pending' = IF codec.fmt # last THEN codec.fmt ELSE pending
    /\ UNCHANGED <<started, jobs, then, codecVars, pipeVars, last, count, surfaces, smap, stamp,
                   getter, vaVars, flagVars, event, userVars>>

\* after NO_SURFACE: wait for a surface, or for the client to allocate some.
NoSurface ==
    /\ step = "noSurface"
    /\ \/ /\ AllocationDone
          /\ state' = "kGetOutput" /\ step' = "getOutput" /\ then' = "kWaitSurface"
          /\ event' = event
       \/ /\ ~AllocationDone
          /\ state' = "kWaitAllocation" /\ step' = "none" /\ then' = then
          /\ event' = TRUE
    /\ UNCHANGED <<started, jobs, codecVars, pipeVars, outVars, getter, vaVars, flagVars, userVars>>

\* Fault: the next input is decoded before the output is looked at.
ConsumeAndDecode ==
    /\ step = "consume"
    /\ inQ' = Tail(inQ) /\ inDone' = inDone + 1
    /\ jobs' = Posted("getInput")
    /\ step' = "none"
    /\ UNCHANGED <<started, then, state, codecVars, outQ, outVars, getter, vaVars, flagVars, event,
                   userVars>>

\* after any other status: consumeInput() and on to the output.
Consume ==
    /\ step = "consume"
    /\ inQ' = Tail(inQ) /\ inDone' = inDone + 1
    /\ state' = IF codec.fmt = 0 THEN state ELSE "kGetOutput"
    /\ jobs' = Posted(IF codec.fmt = 0 THEN "getInput" ELSE "getOutput")
    /\ step' = "none"
    /\ UNCHANGED <<started, then, codecVars, outQ, outVars, getter, vaVars, flagVars, event, userVars>>

-----------------------------------------------------------------------------
(* The loop of getOutputJob() *)

\* Fault: the event is raised, and decoding goes on before the buffers are there.
OutputEmptyNoWait ==
    /\ step = "getOutput" /\ codec.outs = <<>>
    /\ step' = "none" /\ then' = "none"
    /\ state' = IF then = "none" THEN "kGetInput" ELSE then
    /\ jobs' = Posted("getInput")
    /\ event' = (event \/ (state = "kFormatChanged" /\ ~AllocationDone))
    /\ UNCHANGED <<started, codecVars, pipeVars, outVars, getter, vaVars, flagVars, userVars>>

\* no frame (any more)
OutputEmpty ==
    /\ step = "getOutput" /\ codec.outs = <<>>
    /\ step' = "none" /\ then' = "none"
    /\ \/ /\ state = "kFormatChanged" /\ ~AllocationDone
          /\ state' = "kWaitAllocation" /\ event' = TRUE /\ jobs' = jobs
       \/ /\ ~(state = "kFormatChanged" /\ ~AllocationDone)
          /\ state' = IF then = "none" THEN "kGetInput" ELSE then
          /\ jobs' = Posted("getInput") /\ event' = event
    /\ UNCHANGED <<started, codecVars, pipeVars, outVars, getter, vaVars, flagVars, userVars>>

\* Fault: the getter is not told that the renderer gets the surface.
OutputNoHold ==
    /\ step = "getOutput" /\ codec.outs # <<>>
    /\ frame' = Head(codec.outs)
    /\ codec' = [codec EXCEPT !.outs = Tail(@)]
    /\ step' = "put"
    /\ UNCHANGED <<started, jobs, then, state, pipeVars, outVars, getter, vaVars, flagVars, event,
                   userVars>>

\* getOutput(), and output() tells the getter that the renderer gets the surface.
OutputHold ==
    /\ step = "getOutput" /\ codec.outs # <<>>
    /\ frame' = Head(codec.outs)
    /\ codec' = [codec EXCEPT !.outs = Tail(@)]
    /\ getter' = SetFlag(getter, frame'.id, "renderer")
    /\ step' = "put"
    /\ UNCHANGED <<started, jobs, then, state, pipeVars, outVars, vaVars, flagVars, event, userVars>>

\* Fault: the newest frame is dequeued first.
OutputPutFirst ==
    /\ step = "put" /\ frame.id \in DOMAIN smap
    /\ outQ' = <<smap[frame.id]>> \o outQ
    /\ stamp' = [stamp EXCEPT ![smap[frame.id]] = frame.ts]
    /\ step' = "drop"
    /\ UNCHANGED <<started, jobs, then, state, codecVars, inQ, inDone, pending, last, count,
                   surfaces, smap, getter, vaVars, flagVars, event, userVars>>

\* the rest of output(): the index of the surface goes to m_out; the assertion
\* holds where there is one.
OutputPut ==
    /\ step = "put" /\ frame.id \in DOMAIN smap
    /\ outQ' = Append(outQ, smap[frame.id])
    /\ stamp' = [stamp EXCEPT ![smap[frame.id]] = frame.ts]
    /\ step' = "drop"
    /\ UNCHANGED <<started, jobs, then, state, codecVars, inQ, inDone, pending, last, count,
                   surfaces, smap, getter, vaVars, flagVars, event, userVars>>

\* the loop lets go of the frame.
OutputDrop ==
    /\ step = "drop"
    /\ getter' = IF frame \in Held(codec) THEN getter ELSE ClearFlag(getter, frame.id, "decoder")
    /\ frame' = None
    /\ step' = "getOutput"
    /\ UNCHANGED <<started, jobs, then, state, codec, pipeVars, outVars, vaVars, flagVars, event,
                   userVars>>

ThreadStep ==
    \/ RunJob \/ StartDecoder \/ FlushDecoder \/ FreeBuffers \/ RequestBuffers
    \/ NoInput \/ DecodeEOS \/ DecodeFormatChange \/ DecodeFails \/ DecodeNoSurface
    \/ DecodePicture \/ FormatChange \/ NoSurface \/ Consume
    \/ OutputEmpty \/ OutputHold \/ OutputPut \/ OutputDrop
-----------------------------------------------------------------------------
(* The ioctls.  The client makes one at a time, and an ioctl that is not      *)
(* atomic leaves in call what it still has to do.                             *)

\* onStreamOn() of the input: the thread starts, with startDecoderJob().
StreamOnInput ==
    /\ call = "none" /\ phase = "restart" /\ ~inputOn
    /\ inputOn' = TRUE /\ started' = TRUE
    /\ jobs' = Append(jobs, "start")
    /\ phase' = "run"
    /\ UNCHANGED <<step, then, state, codecVars, pipeVars, outVars, getter, vaVars, outputOn,
                   event, call, buf, mine, sent, seen, seeks>>

\* onQueueBuffer() of an input buffer the client has: queue it...
QueueInput ==
    /\ call = "none" /\ inputOn /\ phase # "seek"
    /\ sent + seeks < MaxInputs /\ Len(inQ) + inDone < NIn
    /\ \/ \E fmt \in Formats :
             /\ Shrinks \/ \A g \in {codec.fmt} \cup {inQ[i].fmt : i \in 1..Len(inQ)} : fmt >= g
             /\ inQ' = Append(inQ, [kind |-> "key", fmt |-> fmt, ts |-> sent + 1])
       \/ \E kind \in {"other", "eos"} :
             inQ' = Append(inQ, [kind |-> kind, fmt |-> 0, ts |-> sent + 1])
    /\ sent' = sent + 1
    /\ call' = "inPost"
    /\ UNCHANGED <<threadVars, codecVars, inDone, outQ, outVars, getter, vaVars, flagVars, event,
                   phase, buf, mine, seen, seeks>>

\* Fault: inputReadyJob() is not posted.
QueueInputSilent ==
    /\ call = "inPost"
    /\ call' = "none"
    /\ UNCHANGED <<threadVars, codecVars, pipeVars, outVars, getter, vaVars, flagVars, event, phase,
                   buf, mine, sent, seen, seeks>>

\* ... and post the job.
QueueInputPost ==
    /\ call = "inPost"
    /\ jobs' = Posted("inputReady")
    /\ call' = "none"
    /\ UNCHANGED <<started, step, then, state, codecVars, pipeVars, outVars, getter, vaVars,
                   flagVars, event, phase, buf, mine, sent, seen, seeks>>

\* onDequeBuffer() of an input buffer.
DequeInput ==
    /\ call = "none" /\ inputOn /\ inDone > 0
    /\ inDone' = inDone - 1
    /\ UNCHANGED <<threadVars, codecVars, inQ, outQ, outVars, getter, vaVars, flagVars, event,
                   userVars>>

\* queue() of a capture buffer: before streaming it gets a surface.  Its id may be
\* that of a destroyed one; ids are interchangeable, so the lowest will do...
QueueNewBuffer ==
    /\ call = "none" /\ phase = "fill" /\ ~outputOn
    /\ \E i \in mine, s \in Ids :
          /\ \A j \in mine : j >= i \/ surfaces[j] # 0
          /\ surfaces[i] = 0
          /\ s \notin alive
          /\ AnyId \/ (s \notin PictureIds /\ 1..(s - 1) \subseteq alive \cup PictureIds)
          /\ surfaces' = [surfaces EXCEPT ![i] = s]
          /\ smap' = [t \in DOMAIN smap \cup {s} |-> IF t = s THEN i ELSE smap[t]]
          /\ alive' = alive \cup {s}
          /\ birth' = [birth EXCEPT ![s] = epoch]
          /\ buf' = i
    /\ mine' = mine \ {buf'}
    /\ call' = "capAdd"
    /\ UNCHANGED <<threadVars, codecVars, pipeVars, pending, last, count, stamp, getter, epoch,
                   flagVars, event, phase, sent, seen, seeks>>

QueueBuffer ==
    /\ call = "none" /\ phase = "run" /\ outputOn
    /\ buf' \in mine /\ mine' = mine \ {buf'}
    /\ call' = "capFree"
    /\ UNCHANGED <<threadVars, codecVars, pipeVars, outVars, getter, vaVars, flagVars, event,
                   phase, sent, seen, seeks>>

\* ... then, without the lock of the output, the getter is told...
QueueBufferGetter ==
    /\ call \in {"capAdd", "capFree"}
    /\ getter' = IF call = "capAdd" THEN AddNewSurface(getter, surfaces[buf])
                 ELSE ClearFlag(getter, surfaces[buf], "renderer")
    /\ call' = "capPost"
    /\ UNCHANGED <<threadVars, codecVars, pipeVars, outVars, vaVars, flagVars, event, phase, buf,
                   mine, sent, seen, seeks>>

\* Fault: outputReadyJob() is not posted.
QueueBufferSilent ==
    /\ call = "capPost"
    /\ call' = "none" /\ buf' = 0
    /\ UNCHANGED <<threadVars, codecVars, pipeVars, outVars, getter, vaVars, flagVars, event, phase,
                   mine, sent, seen, seeks>>

\* ... and the job is posted.
QueueBufferPost ==
    /\ call = "capPost"
    /\ jobs' = Posted("outputReady")
    /\ call' = "none" /\ buf' = 0
    /\ UNCHANGED <<started, step, then, state, codecVars, pipeVars, outVars, getter, vaVars,
                   flagVars, event, phase, mine, sent, seen, seeks>>

\* deque() of a capture buffer: a decoded frame while streaming...
DequeBuffer ==
    /\ call = "none" /\ phase \in {"run", "event"} /\ outputOn /\ outQ # <<>>
    /\ outQ' = Tail(outQ)
    /\ mine' = mine \cup {Head(outQ)}
    /\ seen' = stamp[Head(outQ)]
    /\ UNCHANGED <<threadVars, codecVars, inQ, inDone, outVars, getter, vaVars, flagVars, event,
                   phase, call, buf, sent, seeks>>

\* ... a free surface before.
DequeFreeBuffer ==
    /\ call = "none" /\ phase = "fill" /\ ~outputOn /\ HasFree(getter)
    /\ Cardinality(DOMAIN smap) = count
    /\ getter' = TakeOneFree(getter, "renderer")
    /\ mine' = mine \cup {smap[Head(getter.freed)]}
    /\ UNCHANGED <<threadVars, codecVars, pipeVars, outVars, vaVars, flagVars, event, phase, call,
                   buf, sent, seen, seeks>>

\* onStreamOn() of the output.
StreamOnOutput ==
    /\ call = "none" /\ ~outputOn
    /\ \/ phase = "fill" /\ Cardinality(DOMAIN smap) = NBuf /\ phase' = "run"
       \/ phase = "resume" /\ phase' = "restart"
    /\ outputOn' = TRUE
    /\ jobs' = Posted("checkAllocation")
    /\ UNCHANGED <<started, step, then, state, codecVars, pipeVars, outVars, getter, vaVars,
                   inputOn, event, call, buf, mine, sent, seen, seeks>>

\* onStreamOff() of the output: every surface back to the renderer...  Before a
\* format change the client takes what was decoded.
StreamOffOutput ==
    /\ call = "none" /\ outputOn
    /\ phase = "seek" \/ (phase = "event" /\ outQ = <<>>)
    /\ outputOn' = FALSE
    /\ getter' = HoldAllByRenderer(getter)
    /\ call' = "clearOut"
    /\ UNCHANGED <<threadVars, codecVars, pipeVars, outVars, vaVars, inputOn, event, phase, buf,
                   mine, sent, seen, seeks>>

\* Fault: m_out is not cleared.
StreamOffOutputKeep ==
    /\ call = "clearOut"
    /\ mine' = 1..count
    /\ call' = "none"
    /\ phase' = IF phase = "event" THEN "free" ELSE "resume"
    /\ UNCHANGED <<threadVars, codecVars, pipeVars, outVars, getter, vaVars, flagVars, event,
                   buf, sent, seen, seeks>>

\* ... and m_out is cleared.
StreamOffOutputClear ==
    /\ call = "clearOut"
    /\ outQ' = <<>>
    /\ mine' = 1..count
    /\ call' = "none"
    /\ phase' = IF phase = "event" THEN "free" ELSE "resume"
    /\ UNCHANGED <<threadVars, codecVars, inQ, inDone, outVars, getter, vaVars, flagVars, event,
                   buf, sent, seen, seeks>>

\* onDequeEvent(): the client goes on to allocate buffers of the new format.
DequeEvent ==
    /\ call = "none" /\ phase = "run" /\ event
    /\ event' = FALSE
    /\ phase' = IF outputOn THEN "event" ELSE "free"
    /\ UNCHANGED <<threadVars, codecVars, pipeVars, outVars, getter, vaVars, flagVars, call, buf,
                   mine, sent, seen, seeks>>

\* onRequestBuffers(): sent to the thread, the client waits for it.
RequestBuffersSend ==
    /\ call = "none" /\ phase \in {"free", "request"} /\ started
    /\ jobs' = Append(jobs, phase)
    /\ call' = "send"
    /\ UNCHANGED <<started, step, then, state, codecVars, pipeVars, outVars, getter, vaVars,
                   flagVars, event, phase, buf, mine, sent, seen, seeks>>

RequestBuffersReturn ==
    /\ call = "send" /\ step # phase /\ ~\E i \in 1..Len(jobs) : jobs[i] = phase
    /\ mine' = IF phase = "free" THEN {} ELSE Indices
    /\ call' = "none"
    /\ phase' = IF phase = "free" THEN "request" ELSE "fill"
    /\ UNCHANGED <<threadVars, codecVars, pipeVars, outVars, getter, vaVars, flagVars, event, buf,
                   sent, seen, seeks>>

\* No change of format is on its way to the client.
NoChange ==
    /\ ~event /\ pending = 0 /\ codec.fmt = last
    /\ \A i \in 1..Len(inQ) : inQ[i].fmt \in {0, last}

\* Fault: the thread is stopped without a flush.
StreamOffInputNoFlush ==
    /\ call = "none" /\ phase = "run" /\ inputOn
    /\ seeks < MaxSeeks /\ seeks' = seeks + 1
    /\ Mixed \/ NoChange
    /\ started' = FALSE
    /\ call' = "stop" /\ phase' = IF outputOn THEN "seek" ELSE "restart"
    /\ UNCHANGED <<jobs, step, then, state, codecVars, pipeVars, outVars, getter, vaVars, flagVars,
                   event, buf, mine, sent, seen>>

\* onStreamOff() of the input: post the flush and stop the thread...
StreamOffInput ==
    /\ call = "none" /\ phase = "run" /\ inputOn
    /\ seeks < MaxSeeks /\ seeks' = seeks + 1
    /\ Mixed \/ NoChange
    /\ jobs' = Append(jobs, "flush")
    /\ started' = FALSE
    /\ call' = "stop" /\ phase' = IF outputOn THEN "seek" ELSE "restart"
    /\ UNCHANGED <<step, then, state, codecVars, pipeVars, outVars, getter, vaVars, flagVars, event,
                   buf, mine, sent, seen>>

\* ... which returns once every job has run; then the input is forgotten.
StreamOffInputDone ==
    /\ call = "stop" /\ jobs = <<>> /\ step = "none"
    /\ inQ' = <<>> /\ inDone' = 0
    /\ inputOn' = FALSE /\ state' = "kUnStarted"
    /\ call' = "none"
    /\ UNCHANGED <<started, jobs, step, then, codecVars, outQ, outVars, getter, vaVars, outputOn,
                   event, phase, buf, mine, sent, seen, seeks>>

ClientStep ==
    \/ StreamOnInput \/ QueueInput \/ QueueInputPost \/ DequeInput
    \/ QueueNewBuffer \/ QueueBuffer \/ QueueBufferGetter \/ QueueBufferPost
    \/ DequeBuffer \/ DequeFreeBuffer \/ StreamOnOutput \/ StreamOffOutput
    \/ StreamOffOutputClear \/ DequeEvent \/ RequestBuffersSend \/ RequestBuffersReturn
    \/ StreamOffInput \/ StreamOffInputDone

Next == ThreadStep \/ ClientStep

Spec == Init /\ [][Next]_vars

\* The thread runs while it has something to do.  A client that polls finishes
\* its ioctls, dequeues and recycles what is ready and serves the events; it
\* need not send anything more, nor seek.
Service ==
    \/ QueueInputPost \/ QueueNewBuffer \/ QueueBuffer \/ QueueBufferGetter \/ QueueBufferPost
    \/ DequeBuffer \/ StreamOnInput \/ StreamOnOutput \/ StreamOffOutput \/ StreamOffOutputClear
    \/ DequeEvent \/ RequestBuffersSend \/ RequestBuffersReturn \/ StreamOffInputDone

FairSpec == Spec /\ WF_vars(ThreadStep) /\ WF_vars(Service)

-----------------------------------------------------------------------------
(* Properties *)

\* A free surface is in the list once, and neither the decoder nor the client
\* has it: "if no flag is set, the buffer/surface can be reused".
FreeIsUnheld ==
    /\ IsInjective(getter.freed)
    /\ \A s \in Range(getter.freed) :
          /\ \A h \in Held(codec) \cup {frame} : <<h.id, h.birth>> # <<s, birth[s]>>
          /\ s \in DOMAIN smap => smap[s] \notin mine \cup Range(outQ)

\* A buffer is in m_out once, and the client does not have it at the same time.
BufferInOnePlace ==
    /\ IsInjective(outQ)
    /\ Range(outQ) \cap mine = {}

\* A frame that is put out has a surface that belongs to a buffer: the
\* ASSERT(it != m_surfaceMap.end()) of output().
OutputIsMapped == step = "put" => frame.id \in DOMAIN smap

\* The pool of the decoder knows the surfaces the client allocated, so that
\* acquire() never loses one.
PoolKnowsSurface == CanDecode /\ HasFree(getter) => Head(getter.freed) \in Ready.pool

\* When m_thread has nothing to run, it waits for something that has not come,
\* or whose job the client is about to post: no wake-up is lost.
IdleHasReason ==
    started /\ jobs = <<>> /\ step = "none" =>
        \/ state = "kWaitInput" /\ (inQ = <<>> \/ call = "inPost")
        \/ state = "kWaitSurface" /\ (~HasFree(getter) \/ call = "capPost")
        \/ state = "kWaitAllocation" /\ (event \/ phase # "run")

\* When a seek is over, no input, picture or frame from before it is left
\* anywhere: "discard cached data (input data or decoded video frames)",
\* VideoDecoderInterface.h:47.
SeekForgets ==
    phase \in {"resume", "restart"} /\ ~inputOn =>
        /\ inQ = <<>> /\ outQ = <<>>
        /\ Held(codec) = {} /\ frame = None

\* Frames reach the client in the order of decoding, each at most once.
InOrder == [][seen' # seen => seen' > seen]_vars

\* Every input buffer is consumed.
InputConsumed ==
    \A n \in 1..MaxInputs :
        (\E i \in 1..Len(inQ) : inQ[i].ts = n) ~> (\A i \in 1..Len(inQ) : inQ[i].ts # n)

\* Every frame the decoder puts out reaches the client.
FrameDelivered ==
    \A n \in 1..MaxInputs : (\E i \in 1..Len(codec.outs) : codec.outs[i].ts = n) ~> seen = n
=============================================================================

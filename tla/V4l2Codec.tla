----------------------------- MODULE V4l2Codec -----------------------------
(***************************************************************************)
(* v4l2/v4l2_codecbase.cpp with v4l2/v4l2_encode.cpp: the encoder behind   *)
(* the V4L2 interface.  The device thread calls ioctl(); one worker thread *)
(* per port moves buffers from m_framesTodo to m_framesDone, the INPUT     *)
(* worker by encode(), the OUTPUT worker by getOutput().                   *)
(*                                                                         *)
(* A section under m_frameLock[port] is one action.  m_threadCond[port]    *)
(* goes with that lock, but the other port's worker signals it without     *)
(* holding it.  A thread asleep in wait() is a member of asleep.           *)
(* m_eosState stays EosStateNormal and releaseCodecLock() and flush() do   *)
(* nothing for the encoder, so they do not appear.                         *)
(***************************************************************************)
EXTENDS Integers, FiniteSets, Sequences, SequencesExt

INPUT  == 0
OUTPUT == 1
Ports  == {INPUT, OUTPUT}
Other(p) == 1 - p

CONSTANTS
    NBuf,       \* m_maxBufferCount of both ports
    MaxOut,     \* m_maxOutputBuffer of the encoder
    MaxFrames,  \* bound: frames the client gives
    MaxOffs,    \* bound: STREAMOFF calls
    Counts,     \* values of reqbufs->count after streaming has begun
    MaxReqs,    \* bound: REQBUFS calls
    EarlyOff,   \* STREAMOFF may come before the worker has started, or find
                \* that pthread_create() failed
    MayFail     \* encode() and getOutput() may fail by themselves

Buffers == 1..NBuf

ASSUME CodecAssumption ==
    /\ NBuf \in Nat \ {0} /\ MaxOut \in Nat \ {0}
    /\ MaxFrames \in Nat /\ MaxOffs \in Nat /\ MaxReqs \in Nat
    /\ Counts \subseteq Nat
    /\ EarlyOff \in BOOLEAN /\ MayFail \in BOOLEAN

VARIABLES
    streamOn,  \* m_streamOn
    threadOn,  \* m_threadOn
    starting,  \* threads created that have not chosen a port yet
    worker,    \* where each port's worker is in workerThread()
    index,     \* its local index
    ok,        \* its local ret
    reqBuf,    \* m_reqBufState
    todo,      \* m_framesTodo
    done,      \* m_framesDone
    inFrame,   \* the frame in each of m_inputFrames
    outFrame,  \* the frame in each of m_outputFrames
    encoded,   \* m_output of the encoder
    asleep,    \* threads blocked on a condition
    call,      \* the ioctl the device thread is in
    mine,      \* the buffers of each port the client holds
    given,     \* history: number of frames accepted
    seen,      \* history: frames the client has dequeued
    dropped,   \* history: frames given up by STREAMOFF or REQBUFS
    open,      \* close() has not been called
    offs, reqs \* history: number of calls

workVars   == <<streamOn, threadOn, starting, worker, index, ok>>
bufVars    == <<reqBuf, todo, done, inFrame, outFrame, encoded>>
clientVars == <<open, call, mine, given, seen, dropped, offs, reqs>>
vars == <<workVars, bufVars, asleep, clientVars>>

Idle == [op |-> "idle", port |-> INPUT, count |-> 0]

Init ==
    /\ streamOn = [p \in Ports |-> FALSE] /\ threadOn = [p \in Ports |-> FALSE]
    /\ starting = 0
    /\ worker = [p \in Ports |-> "none"]
    /\ index = [p \in Ports |-> 1] /\ ok = [p \in Ports |-> FALSE]
    /\ reqBuf = [p \in Ports |-> "Normal"]
    /\ todo = [p \in Ports |-> <<>>] /\ done = [p \in Ports |-> <<>>]
    /\ inFrame = [i \in Buffers |-> 0] /\ outFrame = [i \in Buffers |-> 0]
    /\ encoded = <<>> /\ asleep = {}
    /\ open = TRUE /\ call = Idle /\ mine = [p \in Ports |-> Buffers]
    /\ given = 0 /\ seen = {} /\ dropped = {} /\ offs = 0 /\ reqs = 0

-----------------------------------------------------------------------------
(* Conditions *)

Thread(who, p) == [who |-> who, port |-> p]
Awake(who, p)  == Thread(who, p) \notin asleep

\* What m_threadCond[p]->signal() can leave of the sleepers S.
Signalled(p, S) ==
    LET blocked == {t \in S : t.port = p}
    IN  IF blocked = {} THEN {S} ELSE {S \ {t} : t \in blocked}

\* pthread_cond_wait() may return by itself.
Spurious ==
    /\ \E t \in asleep : asleep' = asleep \ {t}
    /\ UNCHANGED <<workVars, bufVars, clientVars>>

-----------------------------------------------------------------------------
(* workerThread() *)

\* A new thread takes the port that is on and has none, INPUT first; if there
\* is none, it ends.
Unserved(p) == streamOn[p] /\ ~threadOn[p]
ThreadStarts ==
    /\ starting > 0
    /\ starting' = starting - 1
    /\ IF \A p \in Ports : ~Unserved(p) THEN UNCHANGED <<threadOn, worker>>
       ELSE LET p == IF Unserved(INPUT) THEN INPUT ELSE OUTPUT
            IN  /\ threadOn' = [threadOn EXCEPT ![p] = TRUE]
                /\ worker' = [worker EXCEPT ![p] = "top"]
    /\ UNCHANGED <<streamOn, index, ok, bufVars, asleep, clientVars>>

\* todoWait and failWait go on at the head of the loop once awake.
AtTop(p) == worker[p] \in {"top", "todoWait", "failWait"} /\ Awake("worker", p)

\* The head of the loop: no request of the device thread is pending.
LoopTop(p) ==
    /\ AtTop(p) /\ streamOn[p] /\ reqBuf[p] # "Request"
    /\ worker' = [worker EXCEPT ![p] = "todo"]
    /\ UNCHANGED <<streamOn, threadOn, starting, index, ok, bufVars, asleep, clientVars>>

\* Acknowledge the request and wait until the queue is released.
LoopAcknowledge(p) ==
    /\ AtTop(p) /\ streamOn[p] /\ reqBuf[p] = "Request"
    /\ reqBuf' = [reqBuf EXCEPT ![p] = "Acknowledge"]
    /\ worker' = [worker EXCEPT ![p] = "ackWait"]
    /\ \E S \in Signalled(p, asleep) : asleep' = S \cup {Thread("worker", p)}
    /\ UNCHANGED <<streamOn, threadOn, starting, index, ok,
                   todo, done, inFrame, outFrame, encoded, clientVars>>

LoopReleased(p) ==
    /\ worker[p] = "ackWait" /\ Awake("worker", p)
    /\ IF reqBuf[p] = "Acknowledge"
       THEN asleep' = asleep \cup {Thread("worker", p)} /\ UNCHANGED worker
       ELSE worker' = [worker EXCEPT ![p] = "todo"] /\ UNCHANGED asleep
    /\ UNCHANGED <<streamOn, threadOn, starting, index, ok, bufVars, clientVars>>

LoopEmpty(p) ==
    /\ worker[p] = "todo" /\ todo[p] = <<>>
    /\ worker' = [worker EXCEPT ![p] = "todoWait"]
    /\ asleep' = asleep \cup {Thread("worker", p)}
    /\ UNCHANGED <<streamOn, threadOn, starting, index, ok, bufVars, clientVars>>

LoopFront(p) ==
    /\ worker[p] = "todo" /\ todo[p] # <<>>
    /\ index' = [index EXCEPT ![p] = Head(todo[p])]
    /\ worker' = [worker EXCEPT ![p] = "pulse"]
    /\ UNCHANGED <<streamOn, threadOn, starting, ok, bufVars, asleep, clientVars>>

PulseReturns(p, ret) ==
    /\ worker[p] = "pulse"
    /\ worker' = [worker EXCEPT ![p] = "after"]
    /\ ok' = [ok EXCEPT ![p] = ret]
    /\ UNCHANGED <<streamOn, threadOn, starting, index, asleep, clientVars>>
    /\ UNCHANGED <<reqBuf, todo, done, inFrame>>

\* inputPulse(): encode() refuses while m_output is full.
Encode ==
    /\ PulseReturns(INPUT, TRUE)
    /\ Len(encoded) < MaxOut
    /\ encoded' = Append(encoded, inFrame[index[INPUT]])
    /\ UNCHANGED outFrame

EncodeFails ==
    /\ PulseReturns(INPUT, FALSE)
    /\ MayFail \/ Len(encoded) >= MaxOut
    /\ UNCHANGED <<encoded, outFrame>>

\* Fault: getOutput() leaves the picture in m_output.
GetOutputKeeps ==
    /\ PulseReturns(OUTPUT, TRUE)
    /\ encoded # <<>>
    /\ outFrame' = [outFrame EXCEPT ![index[OUTPUT]] = Head(encoded)]
    /\ UNCHANGED encoded

\* outputPulse(): getOutput() copies the first picture of m_output and pops it.
GetOutput ==
    /\ PulseReturns(OUTPUT, TRUE)
    /\ encoded # <<>>
    /\ outFrame' = [outFrame EXCEPT ![index[OUTPUT]] = Head(encoded)]
    /\ encoded' = Tail(encoded)

GetOutputFails ==
    /\ PulseReturns(OUTPUT, FALSE)
    /\ MayFail \/ encoded = <<>>
    /\ UNCHANGED <<encoded, outFrame>>

\* Fault: the buffer is put in front of m_framesDone.
FinishFront(p) ==
    /\ worker[p] = "after" /\ ok[p]
    /\ todo' = [todo EXCEPT ![p] = IF p = INPUT THEN Tail(@)
                                   ELSE RemoveFirst(@, index[p])]
    /\ done' = [done EXCEPT ![p] = <<index[p]>> \o @]
    /\ asleep' \in Signalled(Other(p), asleep)
    /\ worker' = [worker EXCEPT ![p] = "top"]
    /\ UNCHANGED <<streamOn, threadOn, starting, index, ok,
                   reqBuf, inFrame, outFrame, encoded, clientVars>>

\* The buffer moves to m_framesDone; the other worker is signalled.
Finish(p) ==
    /\ worker[p] = "after" /\ ok[p]
    /\ todo' = [todo EXCEPT ![p] = IF p = INPUT THEN Tail(@)
                                   ELSE RemoveFirst(@, index[p])]
    /\ done' = [done EXCEPT ![p] = Append(@, index[p])]
    /\ asleep' \in Signalled(Other(p), asleep)
    /\ worker' = [worker EXCEPT ![p] = "top"]
    /\ UNCHANGED <<streamOn, threadOn, starting, index, ok,
                   reqBuf, inFrame, outFrame, encoded, clientVars>>

\* The operation failed: wait, without looking at anything else.
FailWait(p) ==
    /\ worker[p] = "after" /\ ~ok[p]
    /\ worker' = [worker EXCEPT ![p] = "failWait"]
    /\ asleep' = asleep \cup {Thread("worker", p)}
    /\ UNCHANGED <<streamOn, threadOn, starting, index, ok, bufVars, clientVars>>

\* frames that disappear with the buffers of the lists t and d of port p
Lost(p, t, d) == IF p = INPUT THEN {inFrame[i] : i \in Range(t)}
                 ELSE {outFrame[i] : i \in Range(d)}

\* Fault: only m_framesDone is cleared.
CleanupDoneOnly(p) ==
    /\ AtTop(p) /\ ~streamOn[p]
    /\ done' = [done EXCEPT ![p] = <<>>]
    /\ dropped' = dropped \cup Lost(p, <<>>, done[p])
    /\ worker' = [worker EXCEPT ![p] = "exit"]
    /\ UNCHANGED <<streamOn, threadOn, starting, index, ok, reqBuf, todo, inFrame, outFrame,
                   encoded, asleep, open, call, mine, given, seen, offs, reqs>>

\* Fault: m_threadOn is cleared before the lists.
CleanupLate(p) ==
    /\ AtTop(p) /\ ~streamOn[p]
    /\ todo' = [todo EXCEPT ![p] = <<>>] /\ done' = [done EXCEPT ![p] = <<>>]
    /\ dropped' = dropped \cup Lost(p, todo[p], done[p])
    /\ worker' = [worker EXCEPT ![p] = "exit"]
    /\ threadOn' = [threadOn EXCEPT ![p] = FALSE]
    /\ UNCHANGED <<streamOn, starting, index, ok, reqBuf, inFrame, outFrame,
                   encoded, asleep, open, call, mine, given, seen, offs, reqs>>

\* The stream is off: the worker clears both lists ...
Cleanup(p) ==
    /\ AtTop(p) /\ ~streamOn[p]
    /\ todo' = [todo EXCEPT ![p] = <<>>] /\ done' = [done EXCEPT ![p] = <<>>]
    /\ dropped' = dropped \cup Lost(p, todo[p], done[p])
    /\ worker' = [worker EXCEPT ![p] = "exit"]
    /\ UNCHANGED <<streamOn, threadOn, starting, index, ok, reqBuf, inFrame, outFrame,
                   encoded, asleep, open, call, mine, given, seen, offs, reqs>>

\* ... and ends.
Exit(p) ==
    /\ worker[p] = "exit"
    /\ threadOn' = [threadOn EXCEPT ![p] = FALSE]
    /\ worker' = [worker EXCEPT ![p] = "none"]
    /\ UNCHANGED <<streamOn, starting, index, ok, bufVars, asleep, clientVars>>

-----------------------------------------------------------------------------
(* ioctl(), called by the device thread *)

Ready == open /\ call = Idle

\* VIDIOC_STREAMON
StreamOn(p) ==
    /\ Ready /\ ~streamOn[p]
    /\ streamOn' = [streamOn EXCEPT ![p] = TRUE]
    /\ starting' \in {starting + 1} \cup (IF EarlyOff THEN {starting} ELSE {})
    /\ UNCHANGED <<threadOn, worker, index, ok, bufVars, asleep, clientVars>>

\* VIDIOC_STREAMOFF
StreamOff(p) ==
    /\ Ready /\ streamOn[p] /\ offs < MaxOffs
    /\ EarlyOff \/ starting = 0
    /\ streamOn' = [streamOn EXCEPT ![p] = FALSE]
    /\ call' = [op |-> "streamOff", port |-> p, count |-> 0]
    /\ offs' = offs + 1
    /\ UNCHANGED <<threadOn, starting, worker, index, ok, bufVars, asleep,
                   open, mine, given, seen, dropped, reqs>>

\* Fault: the worker is not woken.
StreamOffSilent ==
    /\ call.op = "streamOff" /\ threadOn[call.port]
    /\ UNCHANGED vars

\* broadcast until the worker is gone
StreamOffWait ==
    /\ call.op = "streamOff" /\ threadOn[call.port]
    /\ asleep' = {t \in asleep : t.port # call.port}
    /\ UNCHANGED <<workVars, bufVars, clientVars>>

\* Fault: STREAMOFF does not wait for the worker.
StreamOffNoWait ==
    /\ call.op = "streamOff"
    /\ call' = Idle
    /\ mine' = [mine EXCEPT ![call.port] = Buffers]
    /\ UNCHANGED <<workVars, bufVars, asleep, open, given, seen, dropped, offs, reqs>>

\* The client holds every buffer of a port that is off.
StreamOffReturn ==
    /\ call.op = "streamOff" /\ ~threadOn[call.port]
    /\ call' = Idle
    /\ mine' = [mine EXCEPT ![call.port] = Buffers]
    /\ UNCHANGED <<workVars, bufVars, asleep, open, given, seen, dropped, offs, reqs>>

\* VIDIOC_REQBUFS: m_framesDone is cleared; the worker has to acknowledge
\* before m_framesTodo may be.
RequestBuffers(p, n) ==
    /\ Ready /\ reqs < MaxReqs
    /\ reqs' = reqs + 1
    /\ done' = [done EXCEPT ![p] = <<>>]
    /\ dropped' = dropped \cup Lost(p, <<>>, done[p])
    /\ IF todo[p] = <<>>
       THEN /\ mine' = [mine EXCEPT ![p] = Buffers]
            /\ UNCHANGED <<call, reqBuf, asleep>>
       ELSE /\ call' = [op |-> "reqbufs", port |-> p, count |-> n]
            /\ reqBuf' = [reqBuf EXCEPT ![p] = "Request"]
            /\ \E S \in Signalled(p, asleep) : asleep' = S \cup {Thread("client", p)}
            /\ UNCHANGED mine
    /\ UNCHANGED <<workVars, todo, inFrame, outFrame, encoded, open, given, seen, offs>>

RequestBuffersWait ==
    /\ call.op = "reqbufs" /\ Awake("client", call.port)
    /\ reqBuf[call.port] # "Acknowledge"
    /\ asleep' = asleep \cup {Thread("client", call.port)}
    /\ UNCHANGED <<workVars, bufVars, clientVars>>

\* Fault: m_framesTodo is cleared without the acknowledgement.
RequestBuffersNoWait ==
    LET p == call.port
    IN  /\ call.op = "reqbufs" /\ Awake("client", p)
        /\ todo' = [todo EXCEPT ![p] = <<>>]
        /\ dropped' = dropped \cup Lost(p, todo[p], <<>>)
        /\ reqBuf' = [reqBuf EXCEPT ![p] = IF call.count > 0 THEN "FormatChanged" ELSE "Released"]
        /\ asleep' \in Signalled(p, asleep)
        /\ call' = Idle
        /\ mine' = [mine EXCEPT ![p] = Buffers]
        /\ UNCHANGED <<workVars, done, inFrame, outFrame, encoded, open, given, seen, offs, reqs>>

RequestBuffersReturn ==
    LET p == call.port
    IN  /\ call.op = "reqbufs" /\ Awake("client", p)
        /\ reqBuf[p] = "Acknowledge"
        /\ todo' = [todo EXCEPT ![p] = <<>>]
        /\ dropped' = dropped \cup Lost(p, todo[p], <<>>)
        /\ reqBuf' = [reqBuf EXCEPT ![p] = IF call.count > 0 THEN "FormatChanged" ELSE "Released"]
        /\ asleep' \in Signalled(p, asleep)
        /\ call' = Idle
        /\ mine' = [mine EXCEPT ![p] = Buffers]
        /\ UNCHANGED <<workVars, done, inFrame, outFrame, encoded, open, given, seen, offs, reqs>>

Accepting(p) == reqBuf[p] \in {"Normal", "FormatChanged"}

\* VIDIOC_QBUF of the capture port: an empty buffer
QueueOutput(i) ==
    /\ Ready /\ i \in mine[OUTPUT]
    /\ Accepting(OUTPUT)
    /\ todo' = [todo EXCEPT ![OUTPUT] = Append(@, i)]
    /\ asleep' \in Signalled(OUTPUT, asleep)
    /\ mine' = [mine EXCEPT ![OUTPUT] = @ \ {i}]
    /\ UNCHANGED <<workVars, reqBuf, done, inFrame, outFrame, encoded,
                   open, call, given, seen, dropped, offs, reqs>>

\* VIDIOC_QBUF of the output port: a frame, put in m_inputFrames by
\* acceptInputBuffer() before the state is looked at
QueueInput(i) ==
    /\ Ready /\ i \in mine[INPUT] /\ given < MaxFrames
    /\ inFrame' = [inFrame EXCEPT ![i] = given + 1]
    /\ IF Accepting(INPUT)
       THEN /\ todo' = [todo EXCEPT ![INPUT] = Append(@, i)]
            /\ asleep' \in Signalled(INPUT, asleep)
            /\ mine' = [mine EXCEPT ![INPUT] = @ \ {i}]
            /\ given' = given + 1
       ELSE UNCHANGED <<todo, asleep, mine, given>>
    /\ UNCHANGED <<workVars, reqBuf, done, outFrame, encoded,
                   open, call, seen, dropped, offs, reqs>>

\* VIDIOC_DQBUF: the front of m_framesDone, popped in a second section; no
\* one else pops, so the two are one step.
DequeueBuffer(p) ==
    /\ Ready /\ done[p] # <<>> /\ Accepting(p)
    /\ done' = [done EXCEPT ![p] = Tail(@)]
    /\ mine' = [mine EXCEPT ![p] = @ \cup {Head(done[p])}]
    /\ seen' = seen \cup (IF p = OUTPUT THEN {outFrame[Head(done[p])]} ELSE {})
    /\ UNCHANGED <<workVars, reqBuf, todo, inFrame, outFrame, encoded, asleep,
                   open, call, given, dropped, offs, reqs>>

\* close(): with both streams off, as ~V4l2CodecBase() asserts; it waits for
\* m_threadOn and stops the encoder, which clears m_output.
Close ==
    /\ Ready
    /\ \A p \in Ports : ~streamOn[p] /\ ~threadOn[p]
    /\ open' = FALSE
    /\ encoded' = <<>>
    /\ dropped' = dropped \cup Range(encoded)
    /\ UNCHANGED <<workVars, reqBuf, todo, done, inFrame, outFrame, asleep,
                   call, mine, given, seen, offs, reqs>>

-----------------------------------------------------------------------------
WorkerStep(p) ==
    \/ LoopTop(p) \/ LoopAcknowledge(p) \/ LoopReleased(p)
    \/ LoopEmpty(p) \/ LoopFront(p) \/ Finish(p) \/ FailWait(p)
    \/ Cleanup(p) \/ Exit(p)

PulseStep == Encode \/ EncodeFails \/ GetOutput \/ GetOutputFails

\* the rest of an ioctl that has begun
ClientReturns ==
    \/ StreamOffWait \/ StreamOffReturn
    \/ RequestBuffersWait \/ RequestBuffersReturn

ClientCalls ==
    \/ \E p \in Ports : StreamOn(p) \/ StreamOff(p) \/ DequeueBuffer(p)
    \/ \E p \in Ports, n \in Counts : RequestBuffers(p, n)
    \/ \E i \in Buffers : QueueInput(i) \/ QueueOutput(i)
    \/ Close

Next ==
    \/ ThreadStarts
    \/ \E p \in Ports : WorkerStep(p)
    \/ PulseStep
    \/ ClientReturns
    \/ ClientCalls
    \/ Spurious

Spec == Init /\ [][Next]_vars

\* The scheduler runs every thread that is not blocked; the client owes nothing.
FairSpec ==
    /\ Spec
    /\ WF_vars(ThreadStarts)
    /\ \A p \in Ports : WF_vars(WorkerStep(p))
    /\ WF_vars(Encode \/ EncodeFails) /\ WF_vars(GetOutput \/ GetOutputFails)
    /\ WF_vars(ClientReturns)
-----------------------------------------------------------------------------
(* Properties *)

Frames == 1..MaxFrames

\* The buffer a worker is in the middle of is still at the front of its
\* m_framesTodo: neither STREAMOFF nor REQBUFS empties the list under it
\* (ASSERT(itList != m_framesTodo[OUTPUT].end())).
IndexIsQueued ==
    \A p \in Ports : worker[p] \in {"pulse", "after"} =>
        todo[p] # <<>> /\ Head(todo[p]) = index[p]

\* how often index i of port p is with the client, waiting or finished
Places(p, i) ==
    (IF i \in mine[p] THEN 1 ELSE 0)
    + Cardinality({n \in DOMAIN todo[p] : todo[p][n] = i})
    + Cardinality({n \in DOMAIN done[p] : done[p][n] = i})

\* Every buffer is in exactly one place: with the client, in m_framesTodo or
\* in m_framesDone, once (while a STREAMOFF or REQBUFS is clearing the port's
\* lists, in one place at most).
BufferInOnePlace ==
    \A p \in Ports, i \in Buffers :
        IF call # Idle /\ call.port = p THEN Places(p, i) <= 1 ELSE Places(p, i) = 1

\* the frames of INPUT buffers that are not encoded yet
Waiting == {inFrame[i] : i \in Range(todo[INPUT]) \
                (IF worker[INPUT] = "after" /\ ok[INPUT] THEN {index[INPUT]} ELSE {})}
\* the coded frames in OUTPUT buffers that are not dequeued yet
Finished == {outFrame[i] : i \in Range(done[OUTPUT]) \cup
                (IF worker[OUTPUT] = "after" /\ ok[OUTPUT] THEN {index[OUTPUT]} ELSE {})}

\* No frame is lost or coded twice: each one accepted is in exactly one of an
\* INPUT buffer, m_output, an OUTPUT buffer, the client's hands, or among
\* those a STREAMOFF, a REQBUFS or close() gave up.
FrameInOnePlace ==
    \A f \in 1..given :
        Cardinality({n \in DOMAIN encoded : encoded[n] = f})
        + Cardinality({S \in {<<1, Waiting>>, <<2, Finished>>, <<3, seen>>, <<4, dropped>>} :
                         f \in S[2]}) = 1

\* Coded frames reach the client in the order the frames were given.
InOrder == [][\A f \in seen' \ seen : \A g \in seen : g < f]_vars

\* When STREAMOFF returns, the worker is gone and the port has no buffers
\* ("wait until the worker thread exit, some cleanup happend there").
StreamOffClears ==
    [][call.op = "streamOff" /\ call' = Idle =>
         LET p == call.port
         IN  worker[p] = "none" /\ todo[p] = <<>> /\ done[p] = <<>>]_vars

\* After close() no thread of the codec is left to touch it ("wait until
\* input/output thread terminate").
CloseJoins == ~open => starting = 0 /\ \A p \in Ports : worker[p] = "none"

\* The OUTPUT worker waits after a failed getOutput() only while there is no
\* coded frame, or the INPUT worker is about to signal it ("Output Thread is
\* woken up by: ... input thread run once successfully").
OutputWaitsForFrame ==
    worker[OUTPUT] = "failWait" /\ ~Awake("worker", OUTPUT) =>
        encoded = <<>> \/ (worker[INPUT] = "after" /\ ok[INPUT])

\* STREAMOFF returns, wherever the worker is: it broadcasts until it is gone.
StreamOffReturns == call.op = "streamOff" ~> call = Idle

=============================================================================

-------------------------- MODULE V4l2CodecProofs --------------------------
(***************************************************************************)
(* The handshake between the device thread and the workers of V4l2Codec:   *)
(* no list is emptied under a worker, and STREAMOFF returns only after the *)
(* cleanup.                                                                *)
(*                                                                         *)
(* Then where its buffers and frames are, for a client that waits for its  *)
(* workers to start before it turns a stream off, and makes no REQBUFS     *)
(* while streaming (the one under which a worker may finish a buffer that  *)
(* the client has back): each buffer is in one place, and the frames stand *)
(* in line as FrameLine promises.                                          *)
(***************************************************************************)
EXTENDS V4l2Codec, ListProofs, SequenceTheorems, TLAPS

States == {"none", "top", "ackWait", "todo", "todoWait", "pulse", "after",
           "failWait", "exit"}

Types ==
    /\ streamOn \in [Ports -> BOOLEAN] /\ threadOn \in [Ports -> BOOLEAN]
    /\ starting \in Nat
    /\ worker \in [Ports -> States]
    /\ index \in [Ports -> Buffers]
    /\ reqBuf \in [Ports -> {"Normal", "Request", "Acknowledge", "Released", "FormatChanged"}]
    /\ todo \in [Ports -> Seq(Buffers)] /\ done \in [Ports -> Seq(Buffers)]
    /\ call \in [op : {"idle", "streamOff", "reqbufs"}, port : Ports, count : Nat]
    /\ mine \in [Ports -> SUBSET Buffers]

\* m_threadOn is set exactly while the port has a worker.
Threads == \A p \in Ports : threadOn[p] <=> worker[p] # "none"

\* A worker that has acknowledged waits for the release.
Acknowledged == \A p \in Ports : reqBuf[p] = "Acknowledge" => worker[p] = "ackWait"

CInv == Types /\ Threads /\ Acknowledged /\ IndexIsQueued

-----------------------------------------------------------------------------
\* Erasing the first occurrence of the front of a list takes the front away
\* (std::find and erase in workerThread()).
LEMMA RemoveHead ==
    ASSUME NEW S, NEW s \in Seq(S), s # <<>>
    PROVE  RemoveFirst(s, Head(s)) = Tail(s)
<1>1. Len(s) \in Nat /\ Len(s) > 0 /\ s[1] = Head(s)
    BY LenProperties, EmptySeq, HeadTailProperties
<1> DEFINE I == {i \in 1..Len(s) : s[i] = Head(s)}
<1>2. 1 \in I /\ \A i \in I : 1 <= i
    BY <1>1
<1>3. Min(I) = 1
    <2>1. \A x \in I : (\A y \in I : x <= y) => x = 1
        BY <1>1, <1>2
    <2>2. QED
        BY <1>2, <2>1 DEF Min
<1>4. RemoveFirst(s, Head(s)) = RemoveAt(s, 1)
    BY <1>1, <1>2, <1>3 DEF RemoveFirst, SelectInSeq
<1>5. SubSeq(s, 1, 0) = <<>> /\ SubSeq(s, 2, Len(s)) = Tail(s) /\ Tail(s) \in Seq(S)
    BY <1>1, SubSeqEmpty, TailIsSubSeq, HeadTailProperties
<1>6. RemoveAt(s, 1) = SubSeq(s, 1, 0) \o SubSeq(s, 2, Len(s))
    BY DEF RemoveAt
<1>7. <<>> \o Tail(s) = Tail(s)
    BY <1>5, ConcatEmptySeq
<1>8. QED
    BY <1>4, <1>5, <1>6, <1>7

\* A buffer queued behind others leaves the front of the list alone.
LEMMA AppendKeepsHead ==
    ASSUME NEW S, NEW s \in Seq(S), NEW e \in S
    PROVE  /\ Append(s, e) \in Seq(S) /\ Append(s, e) # <<>>
           /\ s # <<>> => Head(Append(s, e)) = Head(s)
<1>1. Append(s, e) \in Seq(S) /\ Len(Append(s, e)) = Len(s) + 1 /\ Len(s) \in Nat
    BY AppendProperties, LenProperties
<1>2. Append(s, e) # <<>>
    BY <1>1
<1>3. ASSUME s # <<>> PROVE Head(Append(s, e)) = Head(s)
    <2>1. Len(s) > 0
        BY <1>1, <1>3, LenProperties, EmptySeq
    <2>2. Append(s, e)[1] = s[1]
        BY <1>1, <2>1, AppendProperties
    <2>3. QED
        BY <1>1, <1>2, <1>3, <2>2, HeadTailProperties
<1>4. QED
    BY <1>1, <1>2, <1>3


LEMMA QueueKeepsHead ==
    \A s \in Seq(Buffers), i \in Buffers :
        /\ Append(s, i) \in Seq(Buffers) /\ Append(s, i) # <<>>
        /\ s # <<>> => Head(Append(s, i)) = Head(s)
    BY AppendKeepsHead

-----------------------------------------------------------------------------
LEMMA CInvInit == Init => CInv
<1>1. SUFFICES ASSUME Init PROVE CInv
    OBVIOUS
<1>2. Types
    BY <1>1, CodecAssumption
       DEF Init, Types, States, Idle, Ports, INPUT, OUTPUT, Buffers, CodecAssumption
<1>3. Threads /\ Acknowledged /\ IndexIsQueued
    BY <1>1 DEF Init, Threads, Acknowledged, IndexIsQueued, Ports, INPUT, OUTPUT
<1>4. QED
    BY <1>2, <1>3 DEF CInv

\* Every step keeps the handshake.  Only four steps change the front of a list:
\* Finish, QBUF, the cleanup and the second half of REQBUFS.
LEMMA CInvStep == CInv /\ [Next]_vars => CInv'
<1> SUFFICES ASSUME CInv, [Next]_vars PROVE CInv'
    OBVIOUS
<1> USE DEF CInv, Types, States, Threads, Acknowledged, IndexIsQueued,
            workVars, bufVars, clientVars, Ports, INPUT, OUTPUT
<1>1. ASSUME ThreadStarts PROVE CInv'
    <2>1. CASE \A p \in Ports : ~Unserved(p)
        BY <1>1, <2>1 DEF ThreadStarts
    <2>2. CASE ~(\A p \in Ports : ~Unserved(p))
        <3>1. PICK p \in Ports : /\ Unserved(p)
                                 /\ threadOn' = [threadOn EXCEPT ![p] = TRUE]
                                 /\ worker' = [worker EXCEPT ![p] = "top"]
            BY <1>1, <2>2 DEF ThreadStarts
        <3>2. worker[p] = "none" /\ reqBuf[p] # "Acknowledge"
            BY <3>1 DEF Unserved
        <3>3. Types'
            BY <1>1, <3>1 DEF ThreadStarts
        <3>4. Threads' /\ Acknowledged' /\ IndexIsQueued'
            BY <1>1, <3>1, <3>2 DEF ThreadStarts
        <3>5. QED
            BY <3>3, <3>4
    <2>3. QED
        BY <2>1, <2>2
<1>2. ASSUME NEW p \in Ports, WorkerStep(p) PROVE CInv'
    <2>1. CASE LoopTop(p)
        BY <2>1 DEF LoopTop, AtTop
    <2>2. CASE LoopAcknowledge(p)
        BY <2>2 DEF LoopAcknowledge, AtTop
    <2>3. CASE LoopReleased(p)
        BY <2>3 DEF LoopReleased
    <2>4. CASE LoopEmpty(p)
        BY <2>4 DEF LoopEmpty
    <2>5. CASE LoopFront(p)
        <3>1. Head(todo[p]) \in Buffers
            BY <2>5, HeadTailProperties DEF LoopFront
        <3>2. QED
            BY <2>5, <3>1 DEF LoopFront
    <2>6. CASE Finish(p)
        <3>1. todo[p] # <<>> /\ Head(todo[p]) = index[p] /\ worker[p] = "after"
            BY <2>6 DEF Finish
        <3>2. todo'[p] = Tail(todo[p]) /\ Tail(todo[p]) \in Seq(Buffers)
            BY <2>6, <3>1, RemoveHead, HeadTailProperties DEF Finish
        <3>3. Append(done[p], index[p]) \in Seq(Buffers)
            BY AppendProperties
        <3>4. QED
            BY <2>6, <3>1, <3>2, <3>3 DEF Finish
    <2>7. CASE FailWait(p)
        BY <2>7 DEF FailWait
    <2>8. CASE Cleanup(p)
        BY <2>8, EmptySeq DEF Cleanup, AtTop
    <2>9. CASE Exit(p)
        BY <2>9 DEF Exit
    <2>10. QED
        BY <1>2, <2>1, <2>2, <2>3, <2>4, <2>5, <2>6, <2>7, <2>8, <2>9 DEF WorkerStep
<1>3. ASSUME PulseStep PROVE CInv'
    BY <1>3 DEF PulseStep, Encode, EncodeFails, GetOutput, GetOutputFails, PulseReturns
<1>4. ASSUME ClientReturns PROVE CInv'
    <2>1. CASE StreamOffWait
        BY <2>1 DEF StreamOffWait
    <2>2. CASE StreamOffReturn
        BY <2>2, CodecAssumption DEF StreamOffReturn, Idle
    <2>3. CASE RequestBuffersWait
        BY <2>3 DEF RequestBuffersWait
    <2>4. CASE RequestBuffersReturn
        BY <2>4, EmptySeq DEF RequestBuffersReturn, Idle
    <2>5. QED
        BY <1>4, <2>1, <2>2, <2>3, <2>4 DEF ClientReturns
<1>5. ASSUME ClientCalls PROVE CInv'
    <2>1. ASSUME NEW p \in Ports, StreamOn(p) PROVE CInv'
        BY <2>1 DEF StreamOn
    <2>2. ASSUME NEW p \in Ports, StreamOff(p) PROVE CInv'
        BY <2>2 DEF StreamOff
    <2>3. ASSUME NEW p \in Ports, DequeueBuffer(p) PROVE CInv'
        <3>1. Head(done[p]) \in Buffers /\ Tail(done[p]) \in Seq(Buffers)
            BY <2>3, HeadTailProperties DEF DequeueBuffer
        <3>2. QED
            BY <2>3, <3>1 DEF DequeueBuffer
    <2>4. ASSUME NEW p \in Ports, NEW n \in Counts, RequestBuffers(p, n) PROVE CInv'
        <3>1. n \in Nat
            BY CodecAssumption DEF CodecAssumption
        <3>2. QED
            BY <2>4, <3>1, EmptySeq DEF RequestBuffers, Ready, Idle
    <2>5. ASSUME NEW i \in Buffers, QueueInput(i) PROVE CInv'
        <3>1. todo[INPUT] \in Seq(Buffers)
            OBVIOUS
        <3>2. PICK t : t = Append(todo[INPUT], i)
            OBVIOUS
        <3>3. t \in Seq(Buffers) /\ t # <<>> /\ (todo[INPUT] # <<>> => Head(t) = Head(todo[INPUT]))
            BY <3>1, <3>2, QueueKeepsHead
        <3>4. \/ UNCHANGED <<worker, index, todo, mine>>
              \/ /\ todo' = [todo EXCEPT ![INPUT] = t]
                 /\ mine' = [mine EXCEPT ![INPUT] = @ \ {i}]
                 /\ UNCHANGED <<worker, index>>
            BY <2>5, <3>2 DEF QueueInput
        <3>5. Types'
            BY <2>5, <3>3, <3>4 DEF QueueInput
        <3>6. IndexIsQueued'
            BY <3>3, <3>4
        <3>7. Threads' /\ Acknowledged'
            BY <2>5 DEF QueueInput
        <3>8. QED
            BY <3>5, <3>6, <3>7
    <2>6. ASSUME NEW i \in Buffers, QueueOutput(i) PROVE CInv'
        <3>1. todo[OUTPUT] \in Seq(Buffers)
            OBVIOUS
        <3>2. PICK t : t = Append(todo[OUTPUT], i)
            OBVIOUS
        <3>3. t \in Seq(Buffers) /\ t # <<>> /\ (todo[OUTPUT] # <<>> => Head(t) = Head(todo[OUTPUT]))
            BY <3>1, <3>2, QueueKeepsHead
        <3>4. \/ UNCHANGED <<worker, index, todo, mine>>
              \/ /\ todo' = [todo EXCEPT ![OUTPUT] = t]
                 /\ mine' = [mine EXCEPT ![OUTPUT] = @ \ {i}]
                 /\ UNCHANGED <<worker, index>>
            BY <2>6, <3>2 DEF QueueOutput
        <3>5. Types'
            BY <2>6, <3>3, <3>4 DEF QueueOutput
        <3>6. IndexIsQueued'
            BY <3>3, <3>4
        <3>7. Threads' /\ Acknowledged'
            BY <2>6 DEF QueueOutput
        <3>8. QED
            BY <3>5, <3>6, <3>7
    <2>7. CASE Close
        BY <2>7 DEF Close
    <2>8. QED
        BY <1>5, <2>1, <2>2, <2>3, <2>4, <2>5, <2>6, <2>7 DEF ClientCalls
<1>6. CASE Spurious
    BY <1>6 DEF Spurious
<1>7. CASE UNCHANGED vars
    BY <1>7 DEF vars
<1>8. QED
    BY <1>1, <1>2, <1>3, <1>4, <1>5, <1>6, <1>7 DEF Next

\* A worker never moves a buffer that is no longer the first of its list: the
\* lists are emptied only by the worker itself, or by REQBUFS once the worker
\* has acknowledged (workerThread(), VIDIOC_REQBUFS).
THEOREM WorkerOwnsFront == Spec => []IndexIsQueued
<1>1. CInv => IndexIsQueued
    BY DEF CInv
<1>2. QED
    BY <1>1, CInvInit, CInvStep, PTL DEF Spec

-----------------------------------------------------------------------------
(* STREAMOFF and close(), of a client that does not turn a stream off before  *)
(* its worker runs.                                                           *)

\* The threads that have not chosen a port yet are those of the ports that are
\* on and have none.
Starting ==
    starting = (IF Unserved(INPUT) THEN 1 ELSE 0) + (IF Unserved(OUTPUT) THEN 1 ELSE 0)

\* Only the port that STREAMOFF works on has a worker and is off.
Leaving ==
    \A p \in Ports : worker[p] # "none" /\ ~streamOn[p] =>
        call.op = "streamOff" /\ call.port = p

Emptied(p) == todo[p] = <<>> /\ done[p] = <<>>

Left ==
    /\ \A p \in Ports : worker[p] = "exit" => ~streamOn[p] /\ Emptied(p)
    /\ call.op = "streamOff" =>
         /\ ~streamOn[call.port]
         /\ worker[call.port] = "none" => Emptied(call.port)

Closed == ~open => /\ starting = 0 /\ call = Idle
                   /\ \A p \in Ports : ~streamOn[p] /\ worker[p] = "none"

OffInv == ~EarlyOff /\ CInv /\ Starting /\ Leaving /\ Left /\ Closed

LEMMA OffInvInit == ~EarlyOff /\ Init => OffInv
<1>1. SUFFICES ASSUME ~EarlyOff, Init PROVE OffInv
    OBVIOUS
<1>2. CInv
    BY <1>1, CInvInit
<1>3. Starting /\ Leaving /\ Left /\ Closed
    BY <1>1 DEF Init, Starting, Leaving, Left, Closed, Unserved, Idle, Ports, INPUT, OUTPUT
<1>4. QED
    BY <1>1, <1>2, <1>3 DEF OffInv

LEMMA OffInvStep == OffInv /\ [Next]_vars => OffInv'
<1> SUFFICES ASSUME OffInv, [Next]_vars PROVE OffInv'
    OBVIOUS
<1>0. CInv' /\ CInv /\ ~EarlyOff
    BY CInvStep DEF OffInv
<1> DEFINE Goal == Starting' /\ Leaving' /\ Left' /\ Closed'
<1>10. Types /\ Threads /\ Starting /\ Leaving /\ Left /\ Closed
    BY <1>0 DEF CInv, OffInv
<1> USE DEF Types, Threads, Starting, Leaving, Left, Closed, Emptied, Unserved,
            workVars, bufVars, clientVars, Ports, INPUT, OUTPUT
<1>1. ASSUME ThreadStarts PROVE Goal
    <2>1. starting > 0
        BY <1>1 DEF ThreadStarts
    <2>2. \E q \in Ports : Unserved(q)
        BY <1>10, <2>1
    <2>3. PICK p \in Ports :
             /\ Unserved(p) /\ (p = OUTPUT => ~Unserved(INPUT))
             /\ threadOn' = [threadOn EXCEPT ![p] = TRUE]
             /\ worker' = [worker EXCEPT ![p] = "top"]
        BY <1>1, <2>2 DEF ThreadStarts
    <2>4. starting' = starting - 1 /\ UNCHANGED <<streamOn, todo, done, call, open>>
        BY <1>1 DEF ThreadStarts
    <2>5. Starting'
        BY <1>10, <2>3, <2>4
    <2>6. Leaving' /\ Left' /\ Closed'
        BY <1>10, <2>1, <2>3, <2>4
    <2>7. QED
        BY <2>5, <2>6
<1>2. ASSUME NEW p \in Ports, WorkerStep(p) PROVE Goal
    <2>1. CASE LoopTop(p)
        BY <1>10, <2>1 DEF LoopTop, AtTop
    <2>2. CASE LoopAcknowledge(p)
        BY <1>10, <2>2 DEF LoopAcknowledge, AtTop
    <2>3. CASE LoopReleased(p)
        BY <1>10, <2>3 DEF LoopReleased
    <2>4. CASE LoopEmpty(p)
        BY <1>10, <2>4 DEF LoopEmpty
    <2>5. CASE LoopFront(p)
        BY <1>10, <2>5 DEF LoopFront
    <2>6. CASE Finish(p)
        BY <1>10, <2>6 DEF Finish
    <2>7. CASE FailWait(p)
        BY <1>10, <2>7 DEF FailWait
    <2>8. CASE Cleanup(p)
        BY <1>10, <2>8 DEF Cleanup, AtTop
    <2>9. CASE Exit(p)
        BY <1>10, <2>9 DEF Exit
    <2>10. QED
        BY <1>2, <2>1, <2>2, <2>3, <2>4, <2>5, <2>6, <2>7, <2>8, <2>9 DEF WorkerStep
<1>3. ASSUME PulseStep PROVE Goal
    BY <1>3, <1>10 DEF PulseStep, Encode, EncodeFails, GetOutput, GetOutputFails, PulseReturns
<1>4. ASSUME ClientReturns PROVE Goal
    <2>1. CASE StreamOffWait
        BY <1>10, <2>1 DEF StreamOffWait
    <2>2. CASE StreamOffReturn
        BY <1>10, <2>2 DEF StreamOffReturn, Idle
    <2>3. CASE RequestBuffersWait
        BY <1>10, <2>3 DEF RequestBuffersWait
    <2>4. CASE RequestBuffersReturn
        BY <1>10, <2>4 DEF RequestBuffersReturn, Idle
    <2>5. QED
        BY <1>4, <2>1, <2>2, <2>3, <2>4 DEF ClientReturns
<1>5. ASSUME ClientCalls PROVE Goal
    <2> USE DEF Ready, Idle
    <2>1. ASSUME NEW p \in Ports, StreamOn(p) PROVE Goal
        <3>1. open /\ call = Idle /\ ~streamOn[p] /\ ~threadOn[p]
            BY <1>10, <2>1 DEF StreamOn
        <3>2. /\ streamOn' = [streamOn EXCEPT ![p] = TRUE] /\ starting' = starting + 1
              /\ UNCHANGED <<threadOn, worker, todo, done, call, open>>
            BY <1>0, <2>1 DEF StreamOn
        <3>3. Starting'
            BY <1>10, <3>1, <3>2
        <3>4. Leaving' /\ Left' /\ Closed'
            BY <1>10, <3>1, <3>2
        <3>5. QED
            BY <3>3, <3>4
    <2>2. ASSUME NEW p \in Ports, StreamOff(p) PROVE Goal
        <3>1. open /\ call = Idle /\ streamOn[p] /\ starting = 0
            BY <1>0, <2>2 DEF StreamOff
        <3>2. /\ streamOn' = [streamOn EXCEPT ![p] = FALSE]
              /\ call' = [op |-> "streamOff", port |-> p, count |-> 0]
              /\ UNCHANGED <<threadOn, starting, worker, todo, done, open>>
            BY <2>2 DEF StreamOff
        <3>3. threadOn[p] /\ worker[p] # "none" /\ worker[p] # "exit"
            BY <1>10, <3>1
        <3>4. Starting'
            BY <1>10, <3>1, <3>2
        <3>5. Leaving' /\ Left' /\ Closed'
            BY <1>10, <3>1, <3>2, <3>3
        <3>6. QED
            BY <3>4, <3>5
    <2>3. ASSUME NEW p \in Ports, DequeueBuffer(p) PROVE Goal
        BY <1>10, <2>3 DEF DequeueBuffer
    <2>4. ASSUME NEW p \in Ports, NEW n \in Counts, RequestBuffers(p, n) PROVE Goal
        BY <1>10, <2>4 DEF RequestBuffers
    <2>5. ASSUME NEW i \in Buffers, QueueInput(i) PROVE Goal
        <3>1. /\ open /\ call = Idle /\ done' = done
              /\ \A q \in Ports : todo'[q] = todo[q] \/ q = INPUT
              /\ UNCHANGED <<workVars, call, open>>
            BY <1>10, <2>5 DEF QueueInput
        <3>2. worker[INPUT] # "exit"
            BY <1>10, <3>1
        <3>3. QED
            BY <1>10, <3>1, <3>2
    <2>6. ASSUME NEW i \in Buffers, QueueOutput(i) PROVE Goal
        <3>1. /\ open /\ call = Idle /\ done' = done
              /\ \A q \in Ports : todo'[q] = todo[q] \/ q = OUTPUT
              /\ UNCHANGED <<workVars, call, open>>
            BY <1>10, <2>6 DEF QueueOutput
        <3>2. worker[OUTPUT] # "exit"
            BY <1>10, <3>1
        <3>3. QED
            BY <1>10, <3>1, <3>2
    <2>7. CASE Close
        <3>1. /\ call = Idle /\ \A q \in Ports : ~streamOn[q] /\ ~threadOn[q]
              /\ UNCHANGED <<workVars, todo, done, call>>
            BY <2>7 DEF Close
        <3>2. starting = 0 /\ \A q \in Ports : worker[q] = "none"
            BY <1>10, <3>1
        <3>3. QED
            BY <1>10, <3>1, <3>2
    <2>8. QED
        BY <1>5, <2>1, <2>2, <2>3, <2>4, <2>5, <2>6, <2>7 DEF ClientCalls
<1>6. ASSUME Spurious PROVE Goal
    BY <1>10, <1>6 DEF Spurious
<1>7. ASSUME UNCHANGED vars PROVE Goal
    BY <1>10, <1>7 DEF vars
<1>8. Goal
    BY <1>1, <1>2, <1>3, <1>4, <1>5, <1>6, <1>7 DEF Next
<1>9. QED
    BY <1>0, <1>8 DEF OffInv

LEMMA OffInvariant == ~EarlyOff /\ Spec => []OffInv
    BY OffInvInit, OffInvStep, PTL DEF Spec

\* After close() no thread is left (V4l2CodecBase::close()), if no stream was
\* turned off before its worker ran.
THEOREM CloseJoinsWorkers == ~EarlyOff /\ Spec => []CloseJoins
<1>1. OffInv => CloseJoins
    BY DEF OffInv, Closed, CloseJoins
<1>2. QED
    BY <1>1, OffInvariant, PTL

\* When STREAMOFF returns, its port has neither worker nor buffers
\* (VIDIOC_STREAMOFF), under the same condition.
THEOREM StreamOffLeavesNothing == ~EarlyOff /\ Spec => StreamOffClears
<1>1. OffInv /\ [Next]_vars =>
        [call.op = "streamOff" /\ call' = Idle =>
             LET p == call.port
             IN  worker[p] = "none" /\ todo[p] = <<>> /\ done[p] = <<>>]_vars
    <2> SUFFICES ASSUME OffInv, Next, call.op = "streamOff", call' = Idle
                 PROVE  LET p == call.port
                        IN  worker[p] = "none" /\ todo[p] = <<>> /\ done[p] = <<>>
        OBVIOUS
    <2>1. call # Idle
        BY DEF Idle
    <2>2. CASE ThreadStarts \/ Spurious \/ PulseStep \/ \E p \in Ports : WorkerStep(p)
        BY <2>1, <2>2 DEF ThreadStarts, Spurious, PulseStep, PulseReturns, Encode, EncodeFails,
           GetOutput, GetOutputFails, WorkerStep, LoopTop, LoopAcknowledge, LoopReleased,
           LoopEmpty, LoopFront, Finish, FailWait, Cleanup, Exit, clientVars
    <2>3. CASE ClientCalls
        BY <2>1, <2>3 DEF ClientCalls, Ready, StreamOn, StreamOff, DequeueBuffer,
           RequestBuffers, QueueInput, QueueOutput, Close
    <2>4. CASE ClientReturns
        <3>1. StreamOffReturn
            BY <2>1, <2>4 DEF ClientReturns, StreamOffWait, RequestBuffersWait,
               RequestBuffersReturn, clientVars
        <3>2. call.port \in Ports /\ worker[call.port] = "none"
            BY <3>1 DEF StreamOffReturn, OffInv, CInv, Types, Threads
        <3>3. QED
            BY <3>2 DEF OffInv, Left, Emptied
    <2>5. QED
        BY <2>2, <2>3, <2>4 DEF Next
<1>2. QED
    BY <1>1, OffInvariant, PTL DEF Spec, StreamOffClears

-----------------------------------------------------------------------------
(* Buffers *)

\* The device thread is in a call that empties the lists of p.
Clearing(p) == call # Idle /\ call.port = p

\* A buffer of port p is with the client, waiting or finished, and nowhere twice;
\* only a STREAMOFF that is clearing the lists may have it nowhere.
Apart(p) ==
    /\ IsInjective(todo[p]) /\ IsInjective(done[p])
    /\ Range(todo[p]) \cap Range(done[p]) = {}
    /\ mine[p] \cap (Range(todo[p]) \cup Range(done[p])) = {}
    /\ Clearing(p) \/ Buffers = mine[p] \cup Range(todo[p]) \cup Range(done[p])

\* The client of this module.
Patient == ~EarlyOff /\ MaxReqs = 0

NoRequest == reqs = 0 /\ call.op # "reqbufs"

BufferInv == Patient /\ OffInv /\ NoRequest /\ \A p \in Ports : Apart(p)

\* At first the client has every buffer.
LEMMA BufferInvInit == Patient /\ Init => BufferInv
<1>1. SUFFICES ASSUME Patient, Init PROVE BufferInv
    OBVIOUS
<1>2. OffInv
    BY <1>1, OffInvInit DEF Patient
<1>3. NoRequest
    BY <1>1 DEF Init, NoRequest, Idle
<1>4. ASSUME NEW p \in Ports PROVE Apart(p)
    <2>1. todo[p] = <<>> /\ done[p] = <<>> /\ mine[p] = Buffers
        BY <1>1 DEF Init
    <2>2. QED
        BY <2>1, ListEmpty DEF Apart
<1>5. QED
    BY <1>1, <1>2, <1>3, <1>4 DEF BufferInv

\* Steps that leave port p's buffers where they are.
LEMMA ApartUnchanged ==
    ASSUME NEW p \in Ports, Apart(p),
           todo'[p] = todo[p], done'[p] = done[p], mine'[p] = mine[p],
           Clearing(p) => Clearing(p)'
    PROVE  Apart(p)'
    BY DEF Apart

\* Every step keeps the lists apart: a buffer goes from the client to the end of
\* m_framesTodo, from its front to the end of m_framesDone, and from there back.
LEMMA BufferInvStep == BufferInv /\ [Next]_vars => BufferInv'
<1> SUFFICES ASSUME BufferInv, [Next]_vars PROVE BufferInv'
    OBVIOUS
<1>0. OffInv' /\ OffInv /\ Patient' /\ Patient
    BY OffInvStep DEF BufferInv, Patient
<1>10. Types /\ Leaving /\ Left /\ IndexIsQueued /\ NoRequest /\ \A p \in Ports : Apart(p)
    BY <1>0 DEF OffInv, CInv, BufferInv
<1> DEFINE Goal == NoRequest' /\ \A p \in Ports : Apart(p)'
           Same == UNCHANGED <<todo, done, mine, call, reqs>>
<1>11. ASSUME Same PROVE Goal
    BY <1>10, <1>11 DEF NoRequest, Apart, Clearing
<1>12. todo \in [Ports -> Seq(Buffers)] /\ done \in [Ports -> Seq(Buffers)]
    BY <1>10 DEF Types
<1> USE DEF workVars, bufVars, clientVars
<1>1. ASSUME ThreadStarts PROVE Goal
    BY <1>1, <1>11 DEF ThreadStarts
<1>2. ASSUME NEW p \in Ports, WorkerStep(p) PROVE Goal
    <2>1. CASE LoopTop(p) \/ LoopAcknowledge(p) \/ LoopReleased(p) \/ LoopEmpty(p)
               \/ LoopFront(p) \/ FailWait(p) \/ Exit(p)
        BY <2>1, <1>11 DEF LoopTop, LoopAcknowledge, LoopReleased, LoopEmpty, LoopFront,
           FailWait, Exit
    <2>2. CASE Finish(p)
        <3> DEFINE s == todo[p]
        <3>1. s # <<>> /\ s \in Seq(Buffers) /\ Head(s) = index[p]
            BY <1>10, <1>12, <2>2 DEF Finish, IndexIsQueued
        <3>2. RemoveFirst(s, index[p]) = Tail(s)
            BY <3>1, RemoveHead
        <3>3. /\ todo' = [todo EXCEPT ![p] = Tail(s)]
              /\ done' = [done EXCEPT ![p] = Append(done[p], Head(s))]
              /\ UNCHANGED <<mine, call, reqs>>
            BY <2>2, <3>1, <3>2 DEF Finish
        <3>4. /\ Head(s) \in Buffers /\ Range(s) = {Head(s)} \cup Range(Tail(s))
              /\ IsInjective(s) => IsInjective(Tail(s)) /\ Head(s) \notin Range(Tail(s))
            BY <3>1, ListTail
        <3>5. /\ Range(Append(done[p], Head(s))) = Range(done[p]) \cup {Head(s)}
              /\ IsInjective(done[p]) /\ Head(s) \notin Range(done[p])
                    => IsInjective(Append(done[p], Head(s)))
            BY <1>12, <3>4, ListAppend
        <3>6. todo'[p] = Tail(s) /\ done'[p] = Append(done[p], Head(s)) /\ mine'[p] = mine[p]
            BY <1>12, <3>3
        <3>7. Apart(p)'
            <4>1. Apart(p)
                BY <1>10
            <4>2. Head(s) \notin Range(done[p]) /\ IsInjective(Tail(s))
                BY <4>1, <3>4 DEF Apart
            <4>3. IsInjective(Append(done[p], Head(s)))
                BY <4>1, <4>2, <3>5 DEF Apart
            <4>4. Range(Tail(s)) \cap Range(Append(done[p], Head(s))) = {}
                BY <4>1, <3>4, <3>5 DEF Apart
            <4>5. Range(Tail(s)) \cup Range(Append(done[p], Head(s))) = Range(s) \cup Range(done[p])
                BY <3>4, <3>5
            <4>6. QED
                BY <4>1, <4>2, <4>3, <4>4, <4>5, <3>3, <3>6 DEF Apart, Clearing
        <3>8. \A q \in Ports : q # p => Apart(q)'
            BY <1>10, <1>12, <3>3 DEF Apart, Clearing
        <3>9. QED
            BY <1>10, <3>3, <3>7, <3>8 DEF NoRequest
    <2>3. CASE Cleanup(p)
        <3>1. /\ todo' = [todo EXCEPT ![p] = <<>>] /\ done' = [done EXCEPT ![p] = <<>>]
              /\ UNCHANGED <<mine, call, reqs>>
            BY <2>3 DEF Cleanup
        <3>2. call.op = "streamOff" /\ call.port = p
            BY <1>10, <2>3 DEF Cleanup, AtTop, Leaving
        <3>3. Clearing(p)'
            BY <3>1, <3>2 DEF Clearing, Idle
        <3>4. todo'[p] = <<>> /\ done'[p] = <<>>
            BY <1>12, <3>1
        <3>5. Apart(p)'
            BY <3>3, <3>4, ListEmpty DEF Apart
        <3>6. \A q \in Ports : q # p => Apart(q)'
            BY <1>10, <1>12, <3>1 DEF Apart, Clearing
        <3>7. QED
            BY <1>10, <3>1, <3>5, <3>6 DEF NoRequest
    <2>4. QED
        BY <1>2, <2>1, <2>2, <2>3 DEF WorkerStep
<1>3. ASSUME PulseStep PROVE Goal
    BY <1>3, <1>11 DEF PulseStep, Encode, EncodeFails, GetOutput, GetOutputFails, PulseReturns
<1>4. ASSUME ClientReturns PROVE Goal
    <2>1. CASE StreamOffWait
        BY <2>1, <1>11 DEF StreamOffWait
    <2>2. CASE StreamOffReturn
        <3>1. PICK p \in Ports :
                /\ p = call.port /\ call.op = "streamOff" /\ ~threadOn[p]
                /\ mine' = [mine EXCEPT ![p] = Buffers]
                /\ UNCHANGED <<todo, done, reqs>> /\ call' = Idle
            BY <2>2, <1>10 DEF StreamOffReturn, Types
        <3>2. todo[p] = <<>> /\ done[p] = <<>>
            BY <1>0, <1>10, <3>1 DEF Left, Emptied, OffInv, CInv, Threads
        <3>3. mine'[p] = Buffers
            BY <1>10, <3>1 DEF Types
        <3>4. Apart(p)'
            BY <3>1, <3>2, <3>3, ListEmpty DEF Apart
        <3>5. \A q \in Ports : q # p => Apart(q)'
            BY <1>10, <3>1 DEF Apart, Clearing, Types
        <3>6. QED
            BY <1>10, <3>1, <3>4, <3>5 DEF NoRequest, Idle
    <2>3. CASE RequestBuffersWait \/ RequestBuffersReturn
        BY <2>3, <1>10 DEF RequestBuffersWait, RequestBuffersReturn, NoRequest
    <2>4. QED
        BY <1>4, <2>1, <2>2, <2>3 DEF ClientReturns
<1>5. ASSUME ClientCalls PROVE Goal
    <2> USE DEF Ready
    <2>1. ASSUME NEW p \in Ports, StreamOn(p) PROVE Goal
        BY <1>11, <2>1 DEF StreamOn
    <2>2. ASSUME NEW p \in Ports, StreamOff(p) PROVE Goal
        BY <1>10, <2>2 DEF StreamOff, NoRequest, Apart, Clearing
    <2>3. ASSUME NEW p \in Ports, DequeueBuffer(p) PROVE Goal
        <3> DEFINE s == done[p]
        <3>1. /\ s # <<>> /\ s \in Seq(Buffers) /\ call = Idle
              /\ done' = [done EXCEPT ![p] = Tail(s)]
              /\ mine' = [mine EXCEPT ![p] = mine[p] \cup {Head(s)}]
              /\ UNCHANGED <<todo, call, reqs>>
            BY <1>12, <2>3 DEF DequeueBuffer
        <3>2. /\ Head(s) \in Buffers /\ Range(s) = {Head(s)} \cup Range(Tail(s))
              /\ IsInjective(s) => IsInjective(Tail(s)) /\ Head(s) \notin Range(Tail(s))
            BY <3>1, ListTail
        <3>3. done'[p] = Tail(s) /\ mine'[p] = mine[p] \cup {Head(s)}
            BY <1>10, <1>12, <3>1 DEF Types
        <3>4. Apart(p)'
            BY <1>10, <3>1, <3>2, <3>3 DEF Apart, Clearing
        <3>5. \A q \in Ports : q # p => Apart(q)'
            BY <1>10, <1>12, <3>1 DEF Apart, Clearing, Types
        <3>6. QED
            BY <1>10, <3>1, <3>4, <3>5 DEF NoRequest
    <2>4. ASSUME NEW p \in Ports, NEW n \in Counts, RequestBuffers(p, n) PROVE Goal
        BY <1>0, <1>10, <2>4 DEF RequestBuffers, NoRequest, Patient
    <2>5. ASSUME NEW i \in Buffers, NEW p \in Ports, i \in mine[p], call = Idle,
                 todo' = [todo EXCEPT ![p] = Append(todo[p], i)],
                 mine' = [mine EXCEPT ![p] = mine[p] \ {i}],
                 UNCHANGED <<done, call, reqs>>
          PROVE  Goal
        <3>1. /\ Range(Append(todo[p], i)) = Range(todo[p]) \cup {i}
              /\ IsInjective(todo[p]) /\ i \notin Range(todo[p]) => IsInjective(Append(todo[p], i))
            BY <1>12, ListAppend
        <3>2. todo'[p] = Append(todo[p], i) /\ mine'[p] = mine[p] \ {i}
            BY <1>10, <1>12, <2>5 DEF Types
        <3>3. Apart(p)'
            BY <1>10, <2>5, <3>1, <3>2 DEF Apart, Clearing
        <3>4. \A q \in Ports : q # p => Apart(q)'
            BY <1>10, <1>12, <2>5 DEF Apart, Clearing, Types
        <3>5. QED
            BY <1>10, <2>5, <3>3, <3>4 DEF NoRequest
    <2>6. ASSUME NEW i \in Buffers, QueueInput(i) PROVE Goal
        <3>1. CASE Accepting(INPUT)
            BY <2>5, <2>6, <3>1 DEF QueueInput, Ports
        <3>2. CASE ~Accepting(INPUT)
            BY <1>11, <2>6, <3>2 DEF QueueInput
        <3>3. QED
            BY <3>1, <3>2
    <2>7. ASSUME NEW i \in Buffers, QueueOutput(i) PROVE Goal
        BY <2>5, <2>7 DEF QueueOutput, Ports
    <2>8. CASE Close
        BY <1>11, <2>8 DEF Close
    <2>9. QED
        BY <1>5, <2>1, <2>2, <2>3, <2>4, <2>6, <2>7, <2>8 DEF ClientCalls
<1>6. ASSUME Spurious PROVE Goal
    BY <1>6, <1>11 DEF Spurious
<1>7. ASSUME UNCHANGED vars PROVE Goal
    BY <1>7, <1>11 DEF vars
<1>8. Goal
    BY <1>1, <1>2, <1>3, <1>4, <1>5, <1>6, <1>7 DEF Next
<1>9. QED
    BY <1>0, <1>8 DEF BufferInv

\* BufferInv holds in every state of such a client.
LEMMA BufferInvariant == Patient /\ Spec => []BufferInv
    BY BufferInvInit, BufferInvStep, PTL DEF Spec

\* Every buffer is with the client, in m_framesTodo or in m_framesDone, once
\* (workerThread(), VIDIOC_QBUF, VIDIOC_DQBUF, VIDIOC_STREAMOFF), for a client
\* that makes no REQBUFS while streaming.
THEOREM BuffersStayApart == Patient /\ Spec => []BufferInOnePlace
<1>1. BufferInv => BufferInOnePlace
    <2> SUFFICES ASSUME BufferInv, NEW p \in Ports, NEW i \in Buffers
                 PROVE  IF Clearing(p) THEN Places(p, i) <= 1 ELSE Places(p, i) = 1
        BY DEF BufferInOnePlace, Clearing
    <2>1. Apart(p) /\ todo[p] \in Seq(Buffers) /\ done[p] \in Seq(Buffers)
        BY DEF BufferInv, OffInv, CInv, Types
    <2>2. /\ Cardinality({n \in DOMAIN todo[p] : todo[p][n] = i})
                = IF i \in Range(todo[p]) THEN 1 ELSE 0
          /\ Cardinality({n \in DOMAIN done[p] : done[p][n] = i})
                = IF i \in Range(done[p]) THEN 1 ELSE 0
        BY <2>1, PositionsOf DEF Apart
    <2>3. Places(p, i) = (IF i \in mine[p] THEN 1 ELSE 0)
                         + (IF i \in Range(todo[p]) THEN 1 ELSE 0)
                         + (IF i \in Range(done[p]) THEN 1 ELSE 0)
        BY <2>2 DEF Places
    <2>4. QED
        BY <2>1, <2>3 DEF Apart
<1>2. QED
    BY <1>1, BufferInvariant, PTL

-----------------------------------------------------------------------------
(* Frames *)

Line == INSTANCE FrameLine WITH
    waiting <- Waiting, coded <- Range(encoded), finished <- Finished

\* Every step takes frames from the front of a stage to the end of the next, or
\* gives a stage up.
LEMMA InLineStep == Line!InLine /\ [Line!Next]_(Line!lineVars) => Line!InLine'
<1> SUFFICES ASSUME Line!InLine, [Line!Next]_(Line!lineVars) PROVE Line!InLine'
    OBVIOUS
<1> USE DEF Line!InLine, Line!Before
<1>1. CASE Line!Give
    BY <1>1 DEF Line!Give
<1>2. ASSUME NEW f \in Waiting, Line!Code(f) PROVE Line!InLine'
    BY <1>2 DEF Line!Code, Line!Front
<1>3. ASSUME NEW f \in Range(encoded), Line!Finish(f) PROVE Line!InLine'
    BY <1>3 DEF Line!Finish, Line!Front
<1>4. ASSUME NEW f \in Finished, Line!Take(f) PROVE Line!InLine'
    BY <1>4 DEF Line!Take, Line!Front
<1>5. CASE Line!GiveUpWaiting
    BY <1>5 DEF Line!GiveUpWaiting
<1>6. CASE Line!GiveUpCoded
    BY <1>6 DEF Line!GiveUpCoded
<1>7. CASE Line!GiveUpFinished
    BY <1>7 DEF Line!GiveUpFinished
<1>8. CASE UNCHANGED Line!lineVars
    BY <1>8 DEF Line!lineVars
<1>9. QED
    BY <1>1, <1>2, <1>3, <1>4, <1>5, <1>6, <1>7, <1>8 DEF Line!Next

\* The line keeps its order.
THEOREM LineKeepsOrder == Line!Spec => []Line!InLine
<1>1. Line!Init => Line!InLine
    BY DEF Line!Init, Line!InLine, Line!Before
<1>2. QED
    BY <1>1, InLineStep, PTL DEF Line!Spec

\* The pulse of port p has succeeded; the front of m_framesTodo is about to move.
Pulsed(p) == worker[p] = "after" /\ ok[p]

FrameTypes ==
    /\ inFrame \in [Buffers -> Nat] /\ outFrame \in [Buffers -> Nat]
    /\ encoded \in Seq(Nat) /\ given \in Nat /\ ok \in [Ports -> BOOLEAN]

\* The lists that hold frames are in the order of the frames.
Lists ==
    /\ Rising(todo[INPUT], inFrame)
    /\ \A i \in Range(todo[INPUT]) : inFrame[i] <= given
    /\ Rising(encoded, Self)
    /\ Rising(done[OUTPUT], outFrame)
    /\ Pulsed(OUTPUT) =>
         \A i \in Range(done[OUTPUT]) : outFrame[i] < outFrame[index[OUTPUT]]

FrameInv == BufferInv /\ FrameTypes /\ Lists /\ Line!InLine

-----------------------------------------------------------------------------
\* What a step has to show: the lists stay in order, and the frames move as in
\* FrameLine, or stay.
Moves == FrameTypes' /\ Lists' /\ [Line!Next]_(Line!lineVars)

\* the buffer whose frame is already in the next stage
Moving(p) == IF Pulsed(p) THEN {index[p]} ELSE {}

\* Waiting and Finished by what is Moving, now and after a step.
LEMMA Stages ==
    /\ Waiting = {inFrame[i] : i \in Range(todo[INPUT]) \ Moving(INPUT)}
    /\ Finished = {outFrame[i] : i \in Range(done[OUTPUT]) \cup Moving(OUTPUT)}
    BY DEF Waiting, Finished, Moving, Pulsed

\* The same of the state a step leads to.
LEMMA StagesNext ==
    /\ Waiting' = {inFrame'[i] : i \in Range(todo'[INPUT]) \ Moving(INPUT)'}
    /\ Finished' = {outFrame'[i] : i \in Range(done'[OUTPUT]) \cup Moving(OUTPUT)'}
    BY DEF Waiting, Finished, Moving, Pulsed, INPUT, OUTPUT

\* Steps that move neither frames nor the buffers that hold some.
LEMMA Still ==
    ASSUME FrameTypes, Lists,
           todo'[INPUT] = todo[INPUT], done'[OUTPUT] = done[OUTPUT],
           UNCHANGED <<inFrame, outFrame, encoded, given, seen, dropped>>,
           UNCHANGED ok \/ ok' \in [Ports -> BOOLEAN],
           \A p \in Ports : Pulsed(p)' = Pulsed(p) /\ (Pulsed(p) => index'[p] = index[p])
    PROVE  Moves
<1>1. INPUT \in Ports /\ OUTPUT \in Ports
    BY DEF Ports
<1>2. \A p \in Ports : Moving(p)' = Moving(p)
    BY DEF Moving
<1>3. Waiting' = Waiting /\ Finished' = Finished
    BY <1>1, <1>2, Stages, StagesNext
<1>4. FrameTypes'
    BY DEF FrameTypes
<1>5. Lists'
    BY <1>1 DEF Lists
<1>6. Range(encoded)' = Range(encoded)
    OBVIOUS
<1>7. QED
    BY <1>3, <1>4, <1>5, <1>6 DEF Moves, Line!lineVars

\* What FrameInv says of the lists.
LEMMA Known ==
    ASSUME FrameInv
    PROVE  /\ Types /\ FrameTypes /\ Lists /\ Line!InLine /\ Leaving
           /\ INPUT \in Ports /\ OUTPUT \in Ports
           /\ \A p \in Ports : Apart(p)
           /\ \A p \in Ports : todo[p] \in Seq(Buffers) /\ done[p] \in Seq(Buffers)
           /\ \A p \in Ports : worker[p] \in {"pulse", "after"} =>
                todo[p] # <<>> /\ Head(todo[p]) = index[p] /\ index[p] \in Range(todo[p])
                /\ index[p] \notin Range(done[p])
<1>1. /\ Types /\ FrameTypes /\ Lists /\ Line!InLine /\ Leaving /\ IndexIsQueued
      /\ \A p \in Ports : Apart(p)
    BY DEF FrameInv, BufferInv, OffInv, CInv
<1>2. \A p \in Ports : todo[p] \in Seq(Buffers) /\ done[p] \in Seq(Buffers)
    BY <1>1 DEF Types
<1>3. ASSUME NEW p \in Ports, worker[p] \in {"pulse", "after"}
      PROVE  todo[p] # <<>> /\ Head(todo[p]) = index[p] /\ index[p] \in Range(todo[p])
             /\ index[p] \notin Range(done[p])
    <2>1. todo[p] # <<>> /\ Head(todo[p]) = index[p]
        BY <1>1, <1>3 DEF IndexIsQueued
    <2>2. Range(todo[p]) = {Head(todo[p])} \cup Range(Tail(todo[p]))
        BY <1>2, <2>1, ListTail
    <2>3. QED
        BY <1>1, <2>1, <2>2 DEF Apart
<1>4. QED
    BY <1>1, <1>2, <1>3 DEF Ports

\* encode(): the front of the frames that wait goes to m_output.
LEMMA EncodeMoves == FrameInv /\ Encode => Moves
<1> SUFFICES ASSUME FrameInv, Encode PROVE Moves
    OBVIOUS
<1> DEFINE s == todo[INPUT]
           x == inFrame[index[INPUT]]
<1>1. /\ worker[INPUT] = "pulse" /\ worker' = [worker EXCEPT ![INPUT] = "after"]
      /\ ok' = [ok EXCEPT ![INPUT] = TRUE]
      /\ encoded' = Append(encoded, x)
      /\ UNCHANGED <<index, todo, done, inFrame, outFrame, given, seen, dropped>>
    BY DEF Encode, PulseReturns, clientVars
<1>2. /\ s # <<>> /\ s \in Seq(Buffers) /\ Head(s) = index[INPUT] /\ index[INPUT] \in Buffers
      /\ x \in Nat /\ encoded \in Seq(Nat)
    BY <1>1, Known DEF Types, FrameTypes
<1>3. /\ Range(s) = {index[INPUT]} \cup Range(Tail(s)) /\ Range(s) \subseteq Buffers
      /\ index[INPUT] \notin Range(Tail(s))
      /\ \A i \in Range(Tail(s)) : x < inFrame[i]
    BY <1>2, Known, ListTail, RisingTail, RangeOfSeq DEF Lists, Apart
<1>4. Moving(INPUT) = {} /\ Moving(INPUT)' = {index[INPUT]} /\ Moving(OUTPUT)' = Moving(OUTPUT)
    BY <1>1, Known DEF Moving, Pulsed, Types, FrameTypes, INPUT, OUTPUT
<1>5. Waiting = {x} \cup {inFrame[i] : i \in Range(Tail(s))}
    BY <1>3, <1>4, Stages
<1>6. Waiting' = {inFrame[i] : i \in Range(Tail(s))}
    BY <1>1, <1>3, <1>4, StagesNext
<1>7. Finished' = Finished
    BY <1>1, <1>4, Stages, StagesNext
<1>8. Range(encoded)' = Range(encoded) \cup {x} /\ encoded' \in Seq(Nat)
    BY <1>1, <1>2, ListAppend
<1>9. x \in Waiting /\ Line!Front(x, Waiting) /\ Waiting' = Waiting \ {x}
    <2>1. \A i \in Range(Tail(s)) : inFrame[i] # x
        <3>1. \A i \in Range(Tail(s)) : inFrame[i] \in Nat
            BY <1>3, Known DEF FrameTypes
        <3>2. QED
            BY <1>2, <1>3, <3>1
    <2>2. QED
        BY <1>3, <1>5, <1>6, <2>1 DEF Line!Front
<1>10. Line!Code(x)
    BY <1>1, <1>7, <1>8, <1>9 DEF Line!Code
<1>11. Rising(encoded', Self)
    <2>1. \A f \in Range(encoded) : f < x /\ f \in Nat
        BY <1>2, <1>9, Known, RangeOfSeq DEF Line!InLine, Line!Before
    <2>2. \A f \in Range(encoded) : Self[f] < Self[x]
        BY <1>2, <2>1 DEF Self
    <2>3. QED
        BY <1>1, <1>2, <2>2, Known, RisingAppend DEF Lists
<1>12. Lists'
    BY <1>1, <1>4, <1>11, Known DEF Lists, Pulsed, Types, INPUT, OUTPUT
<1>13. FrameTypes'
    BY <1>1, <1>8, Known DEF FrameTypes
<1>14. QED
    BY <1>9, <1>10, <1>12, <1>13 DEF Moves, Line!Next

\* getOutput(): the front of m_output goes to the buffer at the front of m_framesTodo.
LEMMA GetOutputMoves == FrameInv /\ GetOutput => Moves
<1> SUFFICES ASSUME FrameInv, GetOutput PROVE Moves
    OBVIOUS
<1> DEFINE s == encoded
           x == Head(encoded)
           i == index[OUTPUT]
<1>1. /\ worker[OUTPUT] = "pulse" /\ worker' = [worker EXCEPT ![OUTPUT] = "after"]
      /\ ok' = [ok EXCEPT ![OUTPUT] = TRUE]
      /\ s # <<>> /\ encoded' = Tail(s) /\ outFrame' = [outFrame EXCEPT ![i] = x]
      /\ UNCHANGED <<index, todo, done, inFrame, given, seen, dropped>>
    BY DEF GetOutput, PulseReturns, clientVars
<1>2. s \in Seq(Nat) /\ x \in Nat /\ i \in Buffers /\ i \notin Range(done[OUTPUT])
    BY <1>1, Known, HeadTailProperties DEF Types, FrameTypes
<1>3. /\ Range(s) = {x} \cup Range(Tail(s)) /\ Range(s) \subseteq Nat /\ Tail(s) \in Seq(Nat)
      /\ Rising(Tail(s), Self) /\ \A f \in Range(Tail(s)) : Self[x] < Self[f]
    BY <1>1, <1>2, Known, ListTail, RisingTail, RangeOfSeq DEF Lists
<1>4. \A f \in Range(Tail(s)) : x < f
    BY <1>2, <1>3 DEF Self
<1>5. Line!Front(x, Range(encoded)) /\ Range(encoded)' = Range(encoded) \ {x}
    <2>1. \A f \in Range(Tail(s)) : f # x
        BY <1>2, <1>3, <1>4
    <2>2. QED
        BY <1>1, <1>3, <1>4, <2>1 DEF Line!Front
<1>6. Moving(OUTPUT) = {} /\ Moving(OUTPUT)' = {i} /\ Moving(INPUT)' = Moving(INPUT)
    BY <1>1, Known DEF Moving, Pulsed, Types, FrameTypes, INPUT, OUTPUT
<1>7. Range(done[OUTPUT]) \subseteq Buffers
    BY Known, RangeOfSeq
<1>8. /\ outFrame'[i] = x /\ outFrame' \in [Buffers -> Nat]
      /\ \A j \in Range(done[OUTPUT]) : outFrame'[j] = outFrame[j]
    BY <1>1, <1>2, <1>7, Known DEF FrameTypes
<1>9. Finished' = Finished \cup {x} /\ Waiting' = Waiting
    BY <1>1, <1>6, <1>8, Stages, StagesNext
<1>10. Line!Finish(x)
    BY <1>1, <1>5, <1>9 DEF Line!Finish
<1>11. \A j \in Range(done[OUTPUT]) : outFrame'[j] < outFrame'[i]
    <2>1. ASSUME NEW j \in Range(done[OUTPUT]) PROVE outFrame'[j] < outFrame'[i]
        <3>1. outFrame[j] \in Finished
            BY Stages
        <3>2. x \in Range(encoded)
            BY <1>3
        <3>3. outFrame[j] < x
            BY <3>1, <3>2, Known DEF Line!InLine, Line!Before
        <3>4. QED
            BY <1>8, <3>3
    <2>2. QED
        BY <2>1
<1>12. Rising(done[OUTPUT], outFrame')
    BY <1>8, Known, RisingSame DEF Lists
<1>13. Lists'
    BY <1>1, <1>3, <1>11, <1>12, Known DEF Lists
<1>14. FrameTypes'
    BY <1>1, <1>3, <1>8, Known DEF FrameTypes
<1>15. QED
    BY <1>3, <1>10, <1>13, <1>14 DEF Moves, Line!Next

\* The buffer of a pulse that succeeded moves: its frame stays in its stage.
LEMMA FinishMoves == \A p \in Ports : FrameInv /\ Finish(p) => Moves
<1> SUFFICES ASSUME NEW p \in Ports, FrameInv, Finish(p) PROVE Moves
    OBVIOUS
<1> DEFINE s == todo[p]
           i == index[p]
<1>1. /\ worker[p] = "after" /\ ok[p] /\ worker' = [worker EXCEPT ![p] = "top"]
      /\ todo' = [todo EXCEPT ![p] = IF p = INPUT THEN Tail(s) ELSE RemoveFirst(s, i)]
      /\ done' = [done EXCEPT ![p] = Append(done[p], i)]
      /\ UNCHANGED <<index, ok, inFrame, outFrame, encoded, given, seen, dropped>>
    BY DEF Finish, clientVars
<1>2. s # <<>> /\ s \in Seq(Buffers) /\ i = Head(s) /\ i \in Buffers /\ i \notin Range(done[p])
    BY <1>1, Known DEF Types
<1>3. /\ Range(s) = {i} \cup Range(Tail(s)) /\ i \notin Range(Tail(s))
      /\ Range(Append(done[p], i)) = Range(done[p]) \cup {i}
    BY <1>2, Known, ListTail, ListAppend DEF Apart
<1>4. Moving(p) = {i} /\ Moving(p)' = {} /\ \A q \in Ports : q # p => Moving(q)' = Moving(q)
    BY <1>1, Known DEF Moving, Pulsed, Types, FrameTypes
<1>5. FrameTypes'
    BY <1>1, Known DEF FrameTypes
<1>6. CASE p = INPUT
    <2>1. todo'[INPUT] = Tail(s) /\ done'[OUTPUT] = done[OUTPUT]
        BY <1>1, <1>6, Known DEF Types, INPUT, OUTPUT
    <2>2. Waiting' = Waiting
        BY <1>1, <1>3, <1>4, <1>6, <2>1, Stages, StagesNext
    <2>3. Moving(OUTPUT)' = Moving(OUTPUT)
        BY <1>4, <1>6, Known DEF INPUT, OUTPUT
    <2>4. Finished' = Finished
        BY <1>1, <2>1, <2>3, Stages, StagesNext
    <2>5. Rising(Tail(s), inFrame) /\ \A j \in Range(Tail(s)) : inFrame[j] <= given
        BY <1>2, <1>3, <1>6, Known, RisingTail DEF Lists
    <2>6. Pulsed(OUTPUT)' = Pulsed(OUTPUT)
        BY <1>1, <1>6, Known DEF Pulsed, Types, INPUT, OUTPUT
    <2>7. Lists'
        BY <1>1, <2>1, <2>5, <2>6, Known DEF Lists
    <2>8. QED
        BY <1>1, <1>5, <2>2, <2>4, <2>7 DEF Moves, Line!lineVars
<1>7. CASE p = OUTPUT
    <2>1. todo'[INPUT] = todo[INPUT] /\ done'[OUTPUT] = Append(done[p], i)
        BY <1>1, <1>7, Known DEF Types, INPUT, OUTPUT
    <2>2. Finished' = Finished
        BY <1>1, <1>3, <1>4, <1>7, <2>1, Stages, StagesNext
    <2>3. Moving(INPUT)' = Moving(INPUT)
        BY <1>4, <1>7, Known DEF INPUT, OUTPUT
    <2>4. Waiting' = Waiting
        BY <1>1, <2>1, <2>3, Stages, StagesNext
    <2>5. \A j \in Range(done[p]) : outFrame[j] < outFrame[i]
        BY <1>1, <1>7, Known DEF Lists, Pulsed
    <2>6. Rising(Append(done[p], i), outFrame)
        BY <1>2, <1>7, <2>5, Known, RisingAppend DEF Lists
    <2>7. ~Pulsed(OUTPUT)'
        BY <1>1, <1>7, Known DEF Pulsed, Types
    <2>8. Lists'
        BY <1>1, <2>1, <2>6, <2>7, Known DEF Lists
    <2>9. QED
        BY <1>1, <1>5, <2>2, <2>4, <2>8 DEF Moves, Line!lineVars
<1>8. QED
    BY <1>6, <1>7 DEF Ports

\* The cleanup of a port gives up what its buffers hold.
LEMMA CleanupMoves == \A p \in Ports : FrameInv /\ Cleanup(p) => Moves
<1> SUFFICES ASSUME NEW p \in Ports, FrameInv, Cleanup(p) PROVE Moves
    OBVIOUS
<1>1. /\ worker[p] # "after" /\ worker' = [worker EXCEPT ![p] = "exit"]
      /\ todo' = [todo EXCEPT ![p] = <<>>] /\ done' = [done EXCEPT ![p] = <<>>]
      /\ dropped' = dropped \cup Lost(p, todo[p], done[p])
      /\ UNCHANGED <<index, ok, inFrame, outFrame, encoded, given, seen>>
    BY DEF Cleanup, AtTop
<1>2. \A q \in Ports : Moving(q)' = Moving(q) /\ Pulsed(q)' = Pulsed(q)
    BY <1>1, Known DEF Moving, Pulsed, Types
<1>3. Moving(p) = {}
    BY <1>1 DEF Moving, Pulsed
<1>4. FrameTypes'
    BY <1>1, Known DEF FrameTypes
<1>5. CASE p = INPUT
    <2>1. todo'[INPUT] = <<>> /\ done'[OUTPUT] = done[OUTPUT]
        BY <1>1, <1>5, Known DEF Types, INPUT, OUTPUT
    <2>2. Waiting' = {} /\ Lost(p, todo[p], done[p]) = Waiting
        BY <1>3, <1>5, <2>1, Stages, StagesNext, ListEmpty DEF Lost
    <2>3. Finished' = Finished
        BY <1>1, <1>2, <2>1, Stages, StagesNext, Known
    <2>4. Line!GiveUpWaiting
        BY <1>1, <2>2, <2>3 DEF Line!GiveUpWaiting
    <2>5. Lists'
        BY <1>1, <1>2, <2>1, Known, RisingEmpty, ListEmpty DEF Lists
    <2>6. QED
        BY <1>4, <2>4, <2>5 DEF Moves, Line!Next
<1>6. CASE p = OUTPUT
    <2>1. todo'[INPUT] = todo[INPUT] /\ done'[OUTPUT] = <<>>
        BY <1>1, <1>6, Known DEF Types, INPUT, OUTPUT
    <2>2. Finished' = {} /\ Lost(p, todo[p], done[p]) = Finished
        BY <1>2, <1>3, <1>6, <2>1, Stages, StagesNext, ListEmpty DEF Lost, INPUT, OUTPUT
    <2>3. Waiting' = Waiting
        BY <1>1, <1>2, <2>1, Stages, StagesNext, Known
    <2>4. Line!GiveUpFinished
        BY <1>1, <2>2, <2>3 DEF Line!GiveUpFinished
    <2>5. Lists'
        BY <1>1, <1>2, <2>1, Known, RisingEmpty, ListEmpty DEF Lists
    <2>6. QED
        BY <1>4, <2>4, <2>5 DEF Moves, Line!Next
<1>7. QED
    BY <1>5, <1>6 DEF Ports

\* VIDIOC_QBUF of a frame: it is the latest.
LEMMA QueueInputMoves == \A i \in Buffers : FrameInv /\ QueueInput(i) => Moves
<1> SUFFICES ASSUME NEW i \in Buffers, FrameInv, QueueInput(i) PROVE Moves
    OBVIOUS
<1> DEFINE s == todo[INPUT]
           f == given + 1
<1>1. /\ i \in mine[INPUT] /\ inFrame' = [inFrame EXCEPT ![i] = f]
      /\ UNCHANGED <<worker, index, ok, done, outFrame, encoded, seen, dropped>>
      /\ \/ UNCHANGED <<todo, given>>
         \/ given' = f /\ todo' = [todo EXCEPT ![INPUT] = Append(s, i)]
    BY DEF QueueInput, workVars
<1>2. /\ s \in Seq(Buffers) /\ Range(s) \subseteq Buffers /\ i \notin Range(s)
      /\ given \in Nat /\ f \in Nat
    BY <1>1, Known, RangeOfSeq DEF Apart, FrameTypes
<1>3. /\ inFrame' \in [Buffers -> Nat] /\ inFrame'[i] = f
      /\ \A j \in Range(s) : inFrame'[j] = inFrame[j]
    BY <1>1, <1>2, Known DEF FrameTypes
<1>4. \A p \in Ports : Moving(p)' = Moving(p) /\ Pulsed(p)' = Pulsed(p)
    BY <1>1 DEF Moving, Pulsed
<1>5. Moving(INPUT) \subseteq Range(s)
    BY Known DEF Moving, Pulsed
<1>6. Finished' = Finished
    BY <1>1, <1>4, Stages, StagesNext, Known
<1>7. FrameTypes'
    BY <1>1, <1>2, <1>3, Known DEF FrameTypes
<1>8. Rising(s, inFrame')
    BY <1>3, Known, RisingSame DEF Lists
<1>9. CASE UNCHANGED <<todo, given>>
    <2>1. Waiting' = Waiting
        BY <1>3, <1>4, <1>9, Stages, StagesNext, Known
    <2>2. Lists'
        BY <1>1, <1>3, <1>4, <1>8, <1>9, Known DEF Lists
    <2>3. QED
        BY <1>1, <1>6, <1>7, <1>9, <2>1, <2>2 DEF Moves, Line!lineVars
<1>10. CASE given' = f /\ todo' = [todo EXCEPT ![INPUT] = Append(s, i)]
    <2>1. todo'[INPUT] = Append(s, i) /\ Range(Append(s, i)) = Range(s) \cup {i}
        BY <1>2, <1>10, Known, ListAppend DEF Types
    <2>2. Waiting' = Waiting \cup {f}
        BY <1>2, <1>3, <1>4, <1>5, <2>1, Stages, StagesNext, Known
    <2>3. Line!Give
        BY <1>1, <1>6, <1>10, <2>2 DEF Line!Give
    <2>4. \A j \in Range(s) : inFrame'[j] < inFrame'[i]
        <3>1. ASSUME NEW j \in Range(s) PROVE inFrame[j] < f
            <4>1. inFrame[j] \in Nat /\ inFrame[j] <= given
                BY <1>2, Known DEF FrameTypes, Lists
            <4>2. QED
                BY <1>2, <4>1
        <3>2. QED
            BY <1>3, <3>1
    <2>5. Rising(Append(s, i), inFrame')
        BY <1>2, <1>8, <2>4, RisingAppend
    <2>6. \A j \in Range(s) \cup {i} : inFrame'[j] <= f
        BY <1>2, <1>3, Known DEF Lists, FrameTypes
    <2>7. Lists'
        BY <1>1, <1>4, <1>10, <2>1, <2>5, <2>6, Known DEF Lists
    <2>8. QED
        BY <1>7, <2>3, <2>7 DEF Moves, Line!Next
<1>11. QED
    BY <1>1, <1>9, <1>10

\* VIDIOC_DQBUF of the capture port: the client sees the front of the coded frames.
LEMMA DequeueMoves == FrameInv /\ DequeueBuffer(OUTPUT) => Moves
<1> SUFFICES ASSUME FrameInv, DequeueBuffer(OUTPUT) PROVE Moves
    OBVIOUS
<1> DEFINE s == done[OUTPUT]
           i == Head(s)
           x == outFrame[i]
<1>1. /\ s # <<>> /\ done' = [done EXCEPT ![OUTPUT] = Tail(s)] /\ seen' = seen \cup {x}
      /\ UNCHANGED <<worker, index, ok, todo, inFrame, outFrame, encoded, given, dropped>>
    BY DEF DequeueBuffer, workVars
<1>2. done'[OUTPUT] = Tail(s) /\ s \in Seq(Buffers)
    BY <1>1, Known DEF Types
<1>3. /\ Range(s) = {i} \cup Range(Tail(s)) /\ Range(s) \subseteq Buffers
      /\ Rising(Tail(s), outFrame) /\ \A j \in Range(Tail(s)) : x < outFrame[j]
    BY <1>1, <1>2, Known, ListTail, RisingTail, RangeOfSeq DEF Lists
<1>4. \A p \in Ports : Moving(p)' = Moving(p) /\ Pulsed(p)' = Pulsed(p)
    BY <1>1 DEF Moving, Pulsed
<1>5. \A j \in Moving(OUTPUT) : j \in Buffers /\ x < outFrame[j]
    BY <1>3, Known DEF Moving, Lists, Types
<1>6. Waiting' = Waiting
    BY <1>1, <1>4, Stages, StagesNext, Known
<1>7. /\ Finished = {x} \cup {outFrame[j] : j \in Range(Tail(s)) \cup Moving(OUTPUT)}
      /\ Finished' = {outFrame[j] : j \in Range(Tail(s)) \cup Moving(OUTPUT)}
    BY <1>1, <1>2, <1>3, <1>4, Stages, StagesNext, Known
<1>8. \A g \in Finished' : x < g /\ g # x
    <2>1. \A j \in Range(Tail(s)) \cup Moving(OUTPUT) : outFrame[j] \in Nat /\ x < outFrame[j]
        BY <1>3, <1>5, Known DEF FrameTypes
    <2>2. x \in Nat
        BY <1>3, Known DEF FrameTypes
    <2>3. QED
        BY <1>7, <2>1, <2>2
<1>9. x \in Finished /\ Line!Front(x, Finished) /\ Finished' = Finished \ {x}
    BY <1>7, <1>8 DEF Line!Front
<1>10. Line!Take(x)
    BY <1>1, <1>6, <1>9 DEF Line!Take
<1>11. Lists'
    <2>1. Pulsed(OUTPUT)' => \A j \in Range(Tail(s)) : outFrame[j] < outFrame[index[OUTPUT]]
        BY <1>3, <1>4, Known DEF Lists
    <2>2. QED
        BY <1>1, <1>2, <1>3, <2>1, Known DEF Lists
<1>12. FrameTypes'
    BY <1>1, Known DEF FrameTypes
<1>13. QED
    BY <1>9, <1>10, <1>11, <1>12 DEF Moves, Line!Next

\* close() gives up what m_output still holds.
LEMMA CloseMoves == FrameInv /\ Close => Moves
<1> SUFFICES ASSUME FrameInv, Close PROVE Moves
    OBVIOUS
<1>1. /\ encoded' = <<>> /\ dropped' = dropped \cup Range(encoded)
      /\ UNCHANGED <<worker, index, ok, todo, done, inFrame, outFrame, given, seen>>
    BY DEF Close, workVars
<1>2. \A p \in Ports : Moving(p)' = Moving(p) /\ Pulsed(p)' = Pulsed(p)
    BY <1>1 DEF Moving, Pulsed
<1>3. Waiting' = Waiting /\ Finished' = Finished
    BY <1>1, <1>2, Stages, StagesNext, Known
<1>4. Range(encoded)' = {}
    BY <1>1, ListEmpty
<1>5. Line!GiveUpCoded
    BY <1>1, <1>3, <1>4 DEF Line!GiveUpCoded
<1>6. Lists'
    BY <1>1, <1>2, Known, RisingEmpty DEF Lists
<1>7. FrameTypes'
    BY <1>1, Known, EmptySeq DEF FrameTypes
<1>8. QED
    BY <1>5, <1>6, <1>7 DEF Moves, Line!Next

-----------------------------------------------------------------------------
\* At first there are no frames.
LEMMA FrameInvInit == Patient /\ Init => FrameInv /\ Line!Init
<1> SUFFICES ASSUME Patient, Init PROVE FrameInv /\ Line!Init
    OBVIOUS
<1>1. BufferInv
    BY BufferInvInit
<1>2. /\ todo[INPUT] = <<>> /\ done[OUTPUT] = <<>> /\ encoded = <<>>
      /\ \A p \in Ports : ~Pulsed(p)
      /\ given = 0 /\ seen = {} /\ dropped = {}
    BY DEF Init, Pulsed, Ports, INPUT, OUTPUT
<1>3. FrameTypes
    BY <1>2, EmptySeq DEF FrameTypes, Init
<1>4. Lists
    BY <1>2, RisingEmpty, ListEmpty DEF Lists, Ports
<1>5. Waiting = {} /\ Finished = {} /\ Range(encoded) = {}
    BY <1>2, Stages, ListEmpty DEF Moving, Ports
<1>6. Line!Init
    BY <1>2, <1>5 DEF Line!Init
<1>7. Line!InLine
    BY <1>2, <1>5 DEF Line!InLine, Line!Before
<1>8. QED
    BY <1>1, <1>3, <1>4, <1>6, <1>7 DEF FrameInv

\* Every step moves the frames as a step of FrameLine, or leaves them.
LEMMA StepMoves == FrameInv /\ [Next]_vars => Moves
<1> SUFFICES ASSUME FrameInv, [Next]_vars PROVE Moves
    OBVIOUS
<1>1. FrameTypes /\ Lists
    BY Known
<1>2. NoRequest /\ Patient
    BY DEF FrameInv, BufferInv
<1>3. ok \in [Ports -> BOOLEAN] /\ worker \in [Ports -> States]
    BY Known DEF FrameTypes, Types
<1> USE DEF workVars, bufVars, clientVars
<1>4. ASSUME ThreadStarts PROVE Moves
    <2>1. Threads
        BY DEF FrameInv, BufferInv, OffInv, CInv
    <2>2. \/ worker' = worker
          \/ \E p \in Ports : Unserved(p) /\ worker' = [worker EXCEPT ![p] = "top"]
        BY <1>4 DEF ThreadStarts, Ports
    <2>3. \A p \in Ports : Pulsed(p)' = Pulsed(p)
        BY <1>3, <1>4, <2>1, <2>2 DEF ThreadStarts, Pulsed, Unserved, Threads
    <2>4. QED
        BY <1>1, <1>4, <2>3, Still DEF ThreadStarts
<1>5. ASSUME NEW p \in Ports, WorkerStep(p) PROVE Moves
    <2>1. CASE LoopTop(p) \/ LoopAcknowledge(p) \/ LoopReleased(p) \/ LoopEmpty(p)
               \/ LoopFront(p) \/ FailWait(p) \/ Exit(p)
        <3>1. \A q \in Ports : Pulsed(q)' = Pulsed(q) /\ (Pulsed(q) => index'[q] = index[q])
            BY <1>3, <2>1, Known DEF LoopTop, LoopAcknowledge, LoopReleased, LoopEmpty,
               LoopFront, FailWait, Exit, AtTop, Pulsed, Types
        <3>2. QED
            BY <1>1, <2>1, <3>1, Still DEF LoopTop, LoopAcknowledge, LoopReleased, LoopEmpty,
               LoopFront, FailWait, Exit
    <2>2. CASE Finish(p)
        BY <2>2, FinishMoves
    <2>3. CASE Cleanup(p)
        BY <2>3, CleanupMoves
    <2>4. QED
        BY <1>5, <2>1, <2>2, <2>3 DEF WorkerStep
<1>6. ASSUME PulseStep PROVE Moves
    <2>1. CASE EncodeFails \/ GetOutputFails
        <3>1. PICK p \in Ports : PulseReturns(p, FALSE) /\ UNCHANGED <<encoded, outFrame>>
            BY <2>1 DEF EncodeFails, GetOutputFails, Ports
        <3>2. \A q \in Ports : Pulsed(q)' = Pulsed(q)
            BY <1>3, <3>1 DEF PulseReturns, Pulsed
        <3>3. ok' \in [Ports -> BOOLEAN]
            BY <1>3, <3>1 DEF PulseReturns
        <3>4. QED
            BY <1>1, <3>1, <3>2, <3>3, Still DEF PulseReturns
    <2>2. QED
        BY <1>6, <2>1, EncodeMoves, GetOutputMoves DEF PulseStep
<1>7. ASSUME ClientReturns PROVE Moves
    <2>1. CASE StreamOffWait \/ StreamOffReturn
        BY <1>1, <2>1, Still DEF StreamOffWait, StreamOffReturn, Pulsed
    <2>2. CASE RequestBuffersWait \/ RequestBuffersReturn
        BY <1>2, <2>2 DEF RequestBuffersWait, RequestBuffersReturn, NoRequest
    <2>3. QED
        BY <1>7, <2>1, <2>2 DEF ClientReturns
<1>8. ASSUME ClientCalls PROVE Moves
    <2>1. ASSUME NEW p \in Ports, StreamOn(p) \/ StreamOff(p) PROVE Moves
        BY <1>1, <2>1, Still DEF StreamOn, StreamOff, Pulsed
    <2>2. ASSUME DequeueBuffer(INPUT) PROVE Moves
        BY <1>1, <2>2, Still DEF DequeueBuffer, Pulsed, INPUT, OUTPUT
    <2>3. ASSUME NEW p \in Ports, NEW n \in Counts, RequestBuffers(p, n) PROVE Moves
        BY <1>2, <2>3 DEF RequestBuffers, NoRequest, Patient
    <2>4. ASSUME NEW i \in Buffers, QueueOutput(i) PROVE Moves
        BY <1>1, <2>4, Still DEF QueueOutput, Pulsed, INPUT, OUTPUT
    <2>5. QED
        BY <1>8, <2>1, <2>2, <2>3, <2>4, DequeueMoves, QueueInputMoves, CloseMoves
           DEF ClientCalls, Ports
<1>9. ASSUME Spurious \/ UNCHANGED vars PROVE Moves
    BY <1>1, <1>9, Still DEF Spurious, Pulsed, vars
<1>10. QED
    BY <1>4, <1>5, <1>6, <1>7, <1>8, <1>9 DEF Next

\* Every step keeps the frames in line.
LEMMA FrameInvStep == FrameInv /\ [Next]_vars => FrameInv'
<1> SUFFICES ASSUME FrameInv, [Next]_vars PROVE FrameInv'
    OBVIOUS
<1>1. Moves
    BY StepMoves
<1>2. Line!InLine'
    BY <1>1, Known, InLineStep DEF Moves
<1>3. BufferInv'
    BY BufferInvStep DEF FrameInv
<1>4. QED
    BY <1>1, <1>2, <1>3 DEF FrameInv, Moves

\* FrameInv holds in every state of such a client.
LEMMA FrameInvariant == Patient /\ Spec => []FrameInv
    BY FrameInvInit, FrameInvStep, PTL DEF Spec

\* The codec keeps the promise of FrameLine: frames are coded, finished and seen
\* in the order given, and what is given up never comes back.
THEOREM CodecKeepsLine == Patient /\ Spec => Line!Spec
<1>1. FrameInv /\ [Next]_vars => [Line!Next]_(Line!lineVars)
    BY StepMoves DEF Moves
<1>2. QED
    BY <1>1, FrameInvInit, FrameInvariant, PTL DEF Spec, Line!Spec

\* Each frame the client gives is in exactly one place: none is lost, coded twice
\* or seen twice (encode(), getOutput(), VIDIOC_DQBUF).
THEOREM FramesStayApart == Patient /\ Spec => []FrameInOnePlace
<1>1. FrameInv => FrameInOnePlace
    <2> SUFFICES ASSUME FrameInv, NEW f \in 1..given
                 PROVE  Cardinality({n \in DOMAIN encoded : encoded[n] = f})
                        + Cardinality({S \in {<<1, Waiting>>, <<2, Finished>>, <<3, seen>>,
                                              <<4, dropped>>} : f \in S[2]}) = 1
        BY DEF FrameInOnePlace
    <2> DEFINE Out == {S \in {<<1, Waiting>>, <<2, Finished>>, <<3, seen>>, <<4, dropped>>} :
                         f \in S[2]}
    <2>1. encoded \in Seq(Nat) /\ IsInjective(encoded)
        BY Known, RisingInjective DEF FrameTypes, Lists
    <2>2. Cardinality({n \in DOMAIN encoded : encoded[n] = f})
            = IF f \in Range(encoded) THEN 1 ELSE 0
        BY <2>1, PositionsOf
    <2>3. /\ f \in Nat
          /\ f \in Waiting \cup Range(encoded) \cup Finished \cup seen \cup dropped
        BY Known DEF Line!InLine
    <2>4. /\ f \in Waiting => f \notin Range(encoded) \cup Finished \cup seen \cup dropped
          /\ f \in Finished => f \notin Range(encoded) \cup seen \cup dropped
          /\ f \in seen => f \notin Range(encoded) \cup dropped
          /\ f \in dropped => f \notin Range(encoded)
        BY <2>3, Known DEF Line!InLine, Line!Before
    <2>5. Cardinality(Out) = IF f \in Range(encoded) THEN 0 ELSE 1
        <3>1. CASE f \in Range(encoded)
            <4>1. Out = {}
                BY <2>4, <3>1
            <4>2. QED
                BY <3>1, <4>1, FS_EmptySet
        <3>2. CASE f \notin Range(encoded)
            <4>1. \E S : Out = {S}
                <5>1. CASE f \in Waiting
                    <6>1. Out = {<<1, Waiting>>}
                        BY <2>4, <5>1
                    <6>2. QED
                        BY <6>1
                <5>2. CASE f \in Finished
                    <6>1. Out = {<<2, Finished>>}
                        BY <2>4, <5>2
                    <6>2. QED
                        BY <6>1
                <5>3. CASE f \in seen
                    <6>1. Out = {<<3, seen>>}
                        BY <2>4, <5>3
                    <6>2. QED
                        BY <6>1
                <5>4. CASE f \in dropped
                    <6>1. Out = {<<4, dropped>>}
                        BY <2>4, <5>4
                    <6>2. QED
                        BY <6>1
                <5>5. QED
                    BY <2>3, <3>2, <5>1, <5>2, <5>3, <5>4
            <4>2. QED
                BY <3>2, <4>1, FS_Singleton
        <3>3. QED
            BY <3>1, <3>2
    <2>6. QED
        BY <2>2, <2>5
<1>2. QED
    BY <1>1, FrameInvariant, PTL

\* The client sees the frames in the order it gave them.
THEOREM FramesInOrder == Patient /\ Spec => InOrder
<1>1. FrameInv /\ [Next]_vars => [\A f \in seen' \ seen : \A g \in seen : g < f]_vars
    <2> SUFFICES ASSUME FrameInv, [Next]_vars, NEW f \in seen' \ seen, NEW g \in seen
                 PROVE  g < f
        OBVIOUS
    <2>1. [Line!Next]_(Line!lineVars) /\ Line!InLine
        BY StepMoves, Known DEF Moves
    <2>2. f \in Finished
        BY <2>1 DEF Line!Next, Line!lineVars, Line!Give, Line!Code, Line!Finish, Line!Take,
           Line!GiveUpWaiting, Line!GiveUpCoded, Line!GiveUpFinished
    <2>3. QED
        BY <2>1, <2>2 DEF Line!InLine, Line!Before
<1>2. QED
    BY <1>1, FrameInvariant, PTL DEF Spec, InOrder
=============================================================================

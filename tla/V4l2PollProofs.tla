--------------------------- MODULE V4l2PollProofs ---------------------------
(***************************************************************************)
(* For a client that always polls the device: poll() never sleeps on a     *)
(* buffer or a codec event the client does not know of, whatever the       *)
(* number of buffers, events and interrupts.                               *)
(***************************************************************************)
EXTENDS V4l2Poll, TLAPS

\* Otherwise what the stack held decides (see InterruptReturns).
AlwaysDevice == Devices = {TRUE}

\* The two halves of TypeOK.
Numbers ==
    /\ event \in 0..MaxBuffers + MaxChanges /\ interrupt \in 0..MaxInterrupts
    /\ done \in 0..MaxBuffers
    /\ buffers \in 0..MaxBuffers /\ changes \in 0..MaxChanges
    /\ interrupts \in 0..MaxInterrupts

Flags ==
    /\ hasEvent \in BOOLEAN /\ setting \in BOOLEAN
    /\ poll \in {"idle", "wait", "check", "clear", "return"}
    /\ device \in BOOLEAN /\ revents \in BOOLEAN /\ pending \in BOOLEAN
    /\ serving \in BOOLEAN /\ took \in BOOLEAN

\* Every event written is counted; a buffer is dequeued after each event read.
Counted ==
    /\ interrupt <= interrupts
    /\ event <= buffers + changes
    /\ setting => event < buffers + changes
    /\ done <= buffers
    /\ poll \in {"check", "clear"} /\ revents => event > 0
    /\ poll \in {"idle", "wait", "check", "clear"} /\ ~serving => done <= event
    /\ poll = "return" => done <= event + 1
    /\ serving => poll = "idle" /\ done <= event + 1
    /\ serving /\ took => done <= event

\* A codec event that has been notified has an event left in m_fd[0], unless
\* the client is about to be told of it.
EventCounted ==
    hasEvent /\ ~setting =>
        /\ poll \in {"idle", "wait"} /\ ~serving => event > 0
        /\ poll = "clear" /\ ~pending => event > 1
        /\ (poll = "return" \/ serving) /\ ~pending => event > 0

Polled == (poll = "clear" => revents) /\ (poll = "wait" => device)

PInv == AlwaysDevice /\ Numbers /\ Flags /\ Counted /\ EventCounted /\ Polled

\* The invariant holds when nothing has been polled yet.
LEMMA PInvInit == AlwaysDevice /\ Init => PInv
<1> SUFFICES ASSUME AlwaysDevice, Init PROVE PInv
    OBVIOUS
<1>1. Numbers
    BY PollAssumption DEF PollAssumption, Init, Numbers
<1>2. Flags
    BY DEF Init, Flags
<1>3. Counted
    BY DEF Init, Counted
<1>4. EventCounted /\ Polled
    BY DEF Init, EventCounted, Polled
<1>5. QED
    BY <1>1, <1>2, <1>3, <1>4 DEF PInv

\* Every step of the workers, of the poll thread and of the device thread
\* keeps it.
LEMMA PInvStep == ASSUME PInv, [Next]_vars PROVE PInv'
<1> USE DEF PInv, eventVars, pollVars, clientVars, historyVars
<1>1. CASE FinishBuffer
    <2>1. Numbers'
        BY <1>1, PollAssumption DEF PollAssumption, Numbers, Counted, FinishBuffer, SetDeviceEvent
    <2>2. Flags'
        BY <1>1 DEF Flags, FinishBuffer, SetDeviceEvent
    <2>3. Counted'
        BY <1>1 DEF Counted, Numbers, FinishBuffer, SetDeviceEvent
    <2>4. EventCounted' /\ Polled'
        BY <1>1 DEF EventCounted, Polled, Counted, Numbers, FinishBuffer, SetDeviceEvent
    <2>5. QED
        BY <2>1, <2>2, <2>3, <2>4 DEF AlwaysDevice
<1>2. CASE SetCodecEvent
    <2>1. Numbers'
        BY <1>2, PollAssumption DEF PollAssumption, Numbers, SetCodecEvent
    <2>2. Flags'
        BY <1>2 DEF Flags, SetCodecEvent
    <2>3. Counted'
        BY <1>2 DEF Counted, Numbers, SetCodecEvent
    <2>4. EventCounted' /\ Polled'
        BY <1>2 DEF EventCounted, Polled, Counted, Numbers, SetCodecEvent
    <2>5. QED
        BY <2>1, <2>2, <2>3, <2>4 DEF AlwaysDevice
<1>3. CASE NotifyCodecEvent
    <2>1. Numbers'
        BY <1>3, PollAssumption DEF PollAssumption, Numbers, Counted, NotifyCodecEvent, SetDeviceEvent
    <2>2. Flags'
        BY <1>3 DEF Flags, NotifyCodecEvent, SetDeviceEvent
    <2>3. Counted'
        BY <1>3 DEF Counted, Numbers, NotifyCodecEvent, SetDeviceEvent
    <2>4. EventCounted' /\ Polled'
        BY <1>3 DEF EventCounted, Polled, Counted, Numbers, NotifyCodecEvent, SetDeviceEvent
    <2>5. QED
        BY <2>1, <2>2, <2>3, <2>4 DEF AlwaysDevice
<1>4. ASSUME NEW d \in Devices, PollBegin(d) PROVE PInv'
    <2>1. d = TRUE
        BY DEF AlwaysDevice
    <2>2. Numbers'
        BY <1>4, <2>1, PollAssumption DEF PollAssumption, Numbers, PollBegin
    <2>3. Flags'
        BY <1>4, <2>1 DEF Flags, PollBegin
    <2>4. Counted'
        BY <1>4, <2>1 DEF Counted, Numbers, PollBegin
    <2>5. EventCounted' /\ Polled'
        BY <1>4, <2>1 DEF EventCounted, Polled, Counted, Numbers, PollBegin
    <2>6. QED
        BY <2>2, <2>3, <2>4, <2>5 DEF AlwaysDevice
<1>5. CASE PollWakes
    <2>1. poll = "wait" /\ device = TRUE /\ poll' = "check"
        BY <1>5 DEF Flags, Polled, PollWakes
    <2>2. revents' = (event > 0)
        BY <1>5, <2>1 DEF PollWakes
    <2>3. Numbers'
        BY <1>5, <2>1, <2>2, PollAssumption DEF PollAssumption, Numbers, PollWakes
    <2>4. Flags'
        BY <1>5, <2>1, <2>2 DEF Flags, PollWakes
    <2>5. Counted'
        BY <1>5, <2>1, <2>2 DEF Counted, Numbers, PollWakes
    <2>6. EventCounted' /\ Polled'
        BY <1>5, <2>1, <2>2 DEF EventCounted, Polled, Counted, Numbers, PollWakes
    <2>7. QED
        BY <2>3, <2>4, <2>5, <2>6 DEF AlwaysDevice
<1>6. CASE PollChecks
    <2>1. Numbers'
        BY <1>6, PollAssumption DEF PollAssumption, Numbers, PollChecks
    <2>2. Flags'
        BY <1>6 DEF Flags, PollChecks
    <2>3. Counted'
        BY <1>6 DEF Counted, Numbers, PollChecks
    <2>4. EventCounted' /\ Polled'
        BY <1>6 DEF EventCounted, Polled, Counted, Numbers, PollChecks
    <2>5. QED
        BY <2>1, <2>2, <2>3, <2>4 DEF AlwaysDevice
<1>7. CASE PollClears
    <2>1. poll = "clear" /\ revents /\ poll' = "return" /\ ~serving /\ ~serving'
        BY <1>7 DEF PollClears, Polled, Counted
    <2>2. Numbers'
        BY <1>7, <2>1, PollAssumption DEF PollAssumption, Numbers, PollClears
    <2>3. Flags'
        BY <1>7, <2>1 DEF Flags, PollClears
    <2>4. Counted'
        BY <1>7, <2>1 DEF Counted, Numbers, PollClears
    <2>5. EventCounted' /\ Polled'
        BY <1>7, <2>1 DEF EventCounted, Polled, Counted, Numbers, PollClears
    <2>6. QED
        BY <2>2, <2>3, <2>4, <2>5 DEF AlwaysDevice
<1>8. CASE PollReturns
    <2>1. Numbers'
        BY <1>8, PollAssumption DEF PollAssumption, Numbers, PollReturns
    <2>2. Flags'
        BY <1>8 DEF Flags, PollReturns
    <2>3. Counted'
        BY <1>8 DEF Counted, Numbers, PollReturns
    <2>4. EventCounted' /\ Polled'
        BY <1>8 DEF EventCounted, Polled, Counted, Numbers, PollReturns
    <2>5. QED
        BY <2>1, <2>2, <2>3, <2>4 DEF AlwaysDevice
<1>9. CASE SetInterrupt
    <2>1. Numbers'
        BY <1>9, PollAssumption DEF PollAssumption, Numbers, Counted, SetInterrupt
    <2>2. Flags'
        BY <1>9 DEF Flags, SetInterrupt
    <2>3. Counted'
        BY <1>9 DEF Counted, Numbers, SetInterrupt
    <2>4. EventCounted' /\ Polled'
        BY <1>9 DEF EventCounted, Polled, Counted, Numbers, SetInterrupt
    <2>5. QED
        BY <2>1, <2>2, <2>3, <2>4 DEF AlwaysDevice
<1>10. CASE ClearInterrupt
    <2>1. Numbers'
        BY <1>10, PollAssumption DEF PollAssumption, Numbers, ClearInterrupt
    <2>2. Flags'
        BY <1>10 DEF Flags, ClearInterrupt
    <2>3. Counted'
        BY <1>10 DEF Counted, Numbers, ClearInterrupt
    <2>4. EventCounted' /\ Polled'
        BY <1>10 DEF EventCounted, Polled, Counted, Numbers, ClearInterrupt
    <2>5. QED
        BY <2>1, <2>2, <2>3, <2>4 DEF AlwaysDevice
<1>11. CASE DequeueEvent
    <2>1. Numbers'
        BY <1>11, PollAssumption DEF PollAssumption, Numbers, DequeueEvent
    <2>2. Flags'
        BY <1>11 DEF Flags, DequeueEvent
    <2>3. Counted'
        BY <1>11 DEF Counted, Numbers, DequeueEvent
    <2>4. EventCounted' /\ Polled'
        BY <1>11 DEF EventCounted, Polled, Counted, Numbers, DequeueEvent
    <2>5. QED
        BY <2>1, <2>2, <2>3, <2>4 DEF AlwaysDevice
<1>12. CASE Dequeue
    <2>1. Numbers'
        BY <1>12, PollAssumption DEF PollAssumption, Numbers, Dequeue
    <2>2. Flags'
        BY <1>12 DEF Flags, Dequeue
    <2>3. Counted'
        BY <1>12 DEF Counted, Numbers, Dequeue
    <2>4. EventCounted' /\ Polled'
        BY <1>12 DEF EventCounted, Polled, Counted, Numbers, Dequeue
    <2>5. QED
        BY <2>1, <2>2, <2>3, <2>4 DEF AlwaysDevice
<1>13. CASE Served
    <2>1. Numbers'
        BY <1>13, PollAssumption DEF PollAssumption, Numbers, Served
    <2>2. Flags'
        BY <1>13 DEF Flags, Served
    <2>3. Counted'
        BY <1>13 DEF Counted, Numbers, Served
    <2>4. EventCounted' /\ Polled'
        BY <1>13 DEF EventCounted, Polled, Counted, Numbers, Served
    <2>5. QED
        BY <2>1, <2>2, <2>3, <2>4 DEF AlwaysDevice
<1>14. CASE UNCHANGED vars
    <2>1. Numbers'
        BY <1>14, PollAssumption DEF PollAssumption, Numbers, vars
    <2>2. Flags'
        BY <1>14 DEF Flags, vars
    <2>3. Counted'
        BY <1>14 DEF Counted, Numbers, vars
    <2>4. EventCounted' /\ Polled'
        BY <1>14 DEF EventCounted, Polled, Counted, Numbers, vars
    <2>5. QED
        BY <2>1, <2>2, <2>3, <2>4 DEF AlwaysDevice
<1>15. QED
    BY <1>1, <1>2, <1>3, <1>4, <1>5, <1>6, <1>7, <1>8, <1>9, <1>10, <1>11, <1>12,
       <1>13, <1>14
       DEF Next, PollStep, DeviceStep

\* The invariant of every reachable state.
LEMMA PollInvariant == AlwaysDevice /\ Spec => []PInv
<1>1. PInv /\ [Next]_vars => PInv'
    BY PInvStep
<1>2. QED
    BY <1>1, PInvInit, PTL DEF Spec

\* The counters of the two eventfds and the steps of the threads keep their
\* types; the count of m_fd[0] is bounded by the events that were written.
THEOREM PollTypeCorrect == AlwaysDevice /\ Spec => []TypeOK
<1>1. Numbers /\ Flags => TypeOK
    BY DEF Numbers, Flags, TypeOK
<1>2. PInv => TypeOK
    BY <1>1 DEF PInv
<1>3. QED
    BY <1>2, PollInvariant, PTL

\* While poll() waits, every finished buffer and every pending codec event has
\* an event of its own in m_fd[0].
THEOREM PollMissesNothing == AlwaysDevice /\ Spec => []NothingMissed
<1>1. PInv => NothingMissed
    BY DEF PInv, Numbers, Counted, EventCounted, NothingMissed
<1>2. QED
    BY <1>1, PollInvariant, PTL

=============================================================================

------------------------------ MODULE V4l2Poll ------------------------------
(***************************************************************************)
(* v4l2/v4l2_codecbase.cpp, how a client learns of finished buffers and of *)
(* codec events: the two eventfds, m_hasEvent, poll() in the client's poll *)
(* thread, and the calls of its device thread.  m_fd[0] counts             *)
(* (EFD_SEMAPHORE: a read takes one, and blocks at zero); m_fd[1] is the   *)
(* interrupt (a read takes all, and never blocks).                         *)
(***************************************************************************)
EXTENDS Naturals

CONSTANTS
    Devices,        \* values of poll_device the client polls with
    MaxBuffers,     \* bound: buffers finished
    MaxChanges,     \* bound: codec events raised
    MaxInterrupts   \* bound: SetDevicePollInterrupt calls

ASSUME PollAssumption ==
    /\ Devices \subseteq BOOLEAN
    /\ MaxBuffers \in Nat /\ MaxChanges \in Nat /\ MaxInterrupts \in Nat

VARIABLES
    event,      \* the count of m_fd[0]
    interrupt,  \* the count of m_fd[1]
    hasEvent,   \* m_hasEvent
    setting,    \* a worker is in setCodecEvent(), before setDeviceEvent(0)
    done,       \* number of buffers to dequeue
    poll,       \* where the poll thread is
    device,     \* the argument poll_device
    revents,    \* pollfds[1].revents has POLLIN
    pending,    \* *event_pending
    serving,    \* the device thread serves what poll() reported
    took,       \* it has dequeued a buffer since
    buffers, changes, interrupts   \* history: numbers of steps

eventVars   == <<event, interrupt, hasEvent, setting, done>>
pollVars    == <<poll, device, revents, pending>>
historyVars == <<buffers, changes, interrupts>>
clientVars  == <<serving, took>>
vars == <<eventVars, pollVars, clientVars, historyVars>>

Init ==
    /\ event = 0 /\ interrupt = 0 /\ hasEvent = FALSE /\ setting = FALSE
    /\ done = 0
    /\ poll = "idle" /\ device = FALSE /\ revents = FALSE /\ pending = FALSE
    /\ serving = FALSE /\ took = FALSE
    /\ buffers = 0 /\ changes = 0 /\ interrupts = 0

-----------------------------------------------------------------------------
(* The workers *)

\* setDeviceEvent(0)
SetDeviceEvent == event' = event + 1

\* workerThread() finishes a buffer: both steps under m_frameLock.
FinishBuffer ==
    /\ buffers < MaxBuffers
    /\ done' = done + 1
    /\ SetDeviceEvent
    /\ buffers' = buffers + 1
    /\ UNCHANGED <<interrupt, hasEvent, setting, pollVars, clientVars, changes, interrupts>>

\* setCodecEvent(), not before the client has handled the previous event
SetCodecEvent ==
    /\ ~setting /\ ~hasEvent /\ changes < MaxChanges
    /\ hasEvent' = TRUE /\ setting' = TRUE
    /\ changes' = changes + 1
    /\ UNCHANGED <<event, interrupt, done, pollVars, clientVars, buffers, interrupts>>

\* Fault: setCodecEvent() does not write m_fd[0].
NotifySilent ==
    /\ setting
    /\ setting' = FALSE
    /\ UNCHANGED <<event, interrupt, hasEvent, done, pollVars, clientVars, historyVars>>

NotifyCodecEvent ==
    /\ setting
    /\ setting' = FALSE
    /\ SetDeviceEvent
    /\ UNCHANGED <<interrupt, hasEvent, done, pollVars, clientVars, historyVars>>

-----------------------------------------------------------------------------
(* poll() *)

PollBegin(d) ==
    /\ poll = "idle" /\ ~serving
    /\ poll' = "wait" /\ device' = d
    /\ UNCHANGED <<eventVars, revents, pending, clientVars, historyVars>>

\* Fault: the interrupt is not among the descriptors polled.
PollWakesForDevice ==
    /\ poll = "wait"
    /\ event > 0
    /\ revents' = TRUE
    /\ poll' = "check"
    /\ UNCHANGED <<eventVars, device, pending, clientVars, historyVars>>

\* ::poll() returns.  Without poll_device the second pollfd is not filled in,
\* but its revents is tested below: it holds whatever the stack held.
PollWakes ==
    /\ poll = "wait"
    /\ interrupt > 0 \/ (device /\ event > 0)
    /\ revents' \in IF device THEN {event > 0} ELSE BOOLEAN
    /\ poll' = "check"
    /\ UNCHANGED <<eventVars, device, pending, clientVars, historyVars>>

\* *event_pending = m_hasEvent
PollChecks ==
    /\ poll = "check"
    /\ pending' = hasEvent
    /\ poll' = IF revents THEN "clear" ELSE "return"
    /\ UNCHANGED <<eventVars, device, revents, clientVars, historyVars>>

\* Fault: m_fd[0] is made without EFD_SEMAPHORE, a read takes every event.
PollClearsAll ==
    /\ poll = "clear" /\ event > 0
    /\ event' = 0
    /\ poll' = "return"
    /\ UNCHANGED <<interrupt, hasEvent, setting, done, device, revents, pending,
                   clientVars, historyVars>>

\* clearDeviceEvent(0): read() blocks until there is an event.
PollClears ==
    /\ poll = "clear" /\ event > 0
    /\ event' = event - 1
    /\ poll' = "return"
    /\ UNCHANGED <<interrupt, hasEvent, setting, done, device, revents, pending,
                   clientVars, historyVars>>

\* The poll thread hands over to the device thread.
PollReturns ==
    /\ poll = "return"
    /\ poll' = "idle" /\ serving' = TRUE /\ took' = FALSE
    /\ UNCHANGED <<eventVars, device, revents, pending, historyVars>>

PollStep == PollWakes \/ PollChecks \/ PollClears \/ PollReturns

-----------------------------------------------------------------------------
(* The device thread *)

\* SetDevicePollInterrupt: setDeviceEvent(1)
SetInterrupt ==
    /\ interrupts < MaxInterrupts
    /\ interrupt' = interrupt + 1
    /\ interrupts' = interrupts + 1
    /\ UNCHANGED <<event, hasEvent, setting, done, pollVars, clientVars, buffers, changes>>

\* ClearDevicePollInterrupt: clearDeviceEvent(1), not blocking
ClearInterrupt ==
    /\ serving /\ interrupt > 0
    /\ interrupt' = 0
    /\ UNCHANGED <<event, hasEvent, setting, done, pollVars, clientVars, historyVars>>

\* VIDIOC_DQEVENT after poll() reported an event: onDequeEvent()
DequeueEvent ==
    /\ serving /\ pending
    /\ pending' = FALSE
    /\ hasEvent' = FALSE
    /\ UNCHANGED <<event, interrupt, setting, done, poll, device, revents, clientVars,
                   historyVars>>

\* Fault: VIDIOC_DQBUF does not ask whether m_framesDone is empty.
DequeueUnchecked ==
    /\ serving
    /\ done' = done - 1
    /\ took' = TRUE
    /\ UNCHANGED <<event, interrupt, hasEvent, setting, pollVars, serving, historyVars>>

\* One VIDIOC_DQBUF
Dequeue ==
    /\ serving /\ done > 0
    /\ done' = done - 1
    /\ took' = TRUE
    /\ UNCHANGED <<event, interrupt, hasEvent, setting, pollVars, serving, historyVars>>

\* The device thread lets the poll thread poll again.  "one event per read()":
\* it has dequeued a buffer, if there is one, but perhaps not all of them.
Served ==
    /\ serving /\ ~pending /\ interrupt = 0
    /\ took \/ done = 0
    /\ serving' = FALSE
    /\ UNCHANGED <<eventVars, pollVars, took, historyVars>>

DeviceStep == ClearInterrupt \/ DequeueEvent \/ Dequeue \/ Served

-----------------------------------------------------------------------------
Next ==
    \/ FinishBuffer \/ SetCodecEvent \/ NotifyCodecEvent
    \/ \E d \in Devices : PollBegin(d)
    \/ PollStep
    \/ SetInterrupt \/ DeviceStep

Spec == Init /\ [][Next]_vars

\* No thread is left suspended, and the client keeps polling and serving.
FairSpec ==
    /\ Spec
    /\ WF_vars(NotifyCodecEvent)
    /\ WF_vars(\E d \in Devices : PollBegin(d))
    /\ WF_vars(PollStep)
    /\ WF_vars(DeviceStep)

-----------------------------------------------------------------------------
(* Properties *)

TypeOK ==
    /\ event \in 0..MaxBuffers + MaxChanges /\ interrupt \in 0..MaxInterrupts
    /\ hasEvent \in BOOLEAN /\ setting \in BOOLEAN
    /\ done \in 0..MaxBuffers
    /\ poll \in {"idle", "wait", "check", "clear", "return"}
    /\ device \in BOOLEAN /\ revents \in BOOLEAN /\ pending \in BOOLEAN
    /\ serving \in BOOLEAN /\ took \in BOOLEAN
    /\ buffers \in 0..MaxBuffers /\ changes \in 0..MaxChanges
    /\ interrupts \in 0..MaxInterrupts

\* poll() never blocks on what the client has not been told: as long as it
\* waits there is one event for each buffer not dequeued, and one if a codec
\* event is pending ("one event per read()").
NothingMissed ==
    poll = "wait" => done <= event /\ (hasEvent /\ ~setting => event > 0)

\* A codec event reaches the client, which dequeues it.
EventReported == hasEvent ~> ~hasEvent

\* SetDevicePollInterrupt makes poll() return ("for interrupt (escape from
\* poll)").
InterruptReturns == poll # "idle" /\ interrupt > 0 ~> poll = "idle"

=============================================================================

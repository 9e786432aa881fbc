------------------------------- MODULE Thread -------------------------------
(***************************************************************************)
(* common/Thread.cpp: a worker thread that runs the jobs other threads     *)
(* post (asynchronously) or send (the caller waits) through a deque        *)
(* protected by m_lock, with the condition m_cond for the worker and the   *)
(* condition m_sent for the senders.                                       *)
(*                                                                         *)
(* Every critical section of m_lock is one action; a job runs outside the  *)
(* lock.  A condition wait is a state of its own, left by a signal, by a   *)
(* broadcast or spuriously.                                                *)
(***************************************************************************)
EXTENDS Naturals, Sequences

CONSTANTS
    Clients,      \* threads that post and send jobs
    Controllers,  \* those that also call start() and stop()
    Workers,      \* identities pthread_create can give, reused once joined
    Nobody,       \* INVALID_ID; also the sender of a posted job
    MaxJobs       \* bound: jobs accepted in one behaviour

ASSUME ThreadAssumption ==
    /\ Controllers \subseteq Clients
    /\ Clients \cap Workers = {}
    /\ Nobody \notin Clients \cup Workers
    /\ MaxJobs \in Nat

VARIABLES
    started,   \* m_started
    thread,    \* m_thread
    queue,     \* m_queue: the front job stays in it while it runs
    worker,    \* where each worker thread is in loop()
    pc,        \* where each client is in send() or stop()
    flag,      \* the local of send() that sendJob() sets
    sentJob,   \* the job of a client's last send()
    accepted,  \* history: number of jobs enqueued
    ran        \* history: jobs run, in order

vars == <<started, thread, queue, worker, pc, flag, sentJob, accepted, ran>>

Job == [id: Nat, sender: Clients \cup {Nobody}]

WorkerStates == {"none", "ready", "waiting", "running", "sending", "popping", "done"}
ClientStates == {"idle", "waiting", "checking", "join", "stopped"}

Init ==
    /\ started = FALSE
    /\ thread = Nobody
    /\ queue = <<>>
    /\ worker = [w \in Workers |-> "none"]
    /\ pc = [c \in Clients |-> "idle"]
    /\ flag = [c \in Clients |-> FALSE]
    /\ sentJob = [c \in Clients |-> 0]
    /\ accepted = 0
    /\ ran = <<>>

-----------------------------------------------------------------------------
(* Conditions *)

\* m_cond.signal(): one worker blocked in m_cond.wait(), if there is one.
SignalWorker ==
    LET blocked == {w \in Workers : worker[w] = "waiting"}
    IN  IF blocked = {}
        THEN worker' = worker
        ELSE \E w \in blocked : worker' = [worker EXCEPT ![w] = "ready"]

\* m_sent.broadcast(): every client blocked in m_sent.wait().
BroadcastSent ==
    pc' = [c \in Clients |-> IF pc[c] = "waiting" THEN "checking" ELSE pc[c]]

\* Fault: the worker is not signalled.
EnqueueSilent(sender) ==
    /\ accepted < MaxJobs
    /\ accepted' = accepted + 1
    /\ queue' = Append(queue, [id |-> accepted + 1, sender |-> sender])
    /\ worker' = worker

\* enqueue(): push_back and m_cond.signal(), under m_lock.
Enqueue(sender) ==
    /\ accepted < MaxJobs
    /\ accepted' = accepted + 1
    /\ queue' = Append(queue, [id |-> accepted + 1, sender |-> sender])
    /\ SignalWorker

-----------------------------------------------------------------------------
(* Operations of the clients *)

\* start(): the new worker blocks on m_lock until start() returns.
Start(c) ==
    /\ pc[c] = "idle" /\ ~started
    /\ \E w \in Workers :
          /\ worker[w] = "none"
          /\ worker' = [worker EXCEPT ![w] = "ready"]
          /\ thread' = w
    /\ started' = TRUE
    /\ UNCHANGED <<queue, pc, flag, sentJob, accepted, ran>>

\* Fault: what a failed pthread_create leaves in m_thread is not overwritten.
StartFailsUndefined(c) ==
    /\ pc[c] = "idle" /\ ~started
    /\ thread' = "undefined"
    /\ UNCHANGED <<started, queue, worker, pc, flag, sentJob, accepted, ran>>

\* start() when pthread_create fails.
StartFails(c) ==
    /\ pc[c] = "idle" /\ ~started
    /\ thread' = Nobody
    /\ UNCHANGED <<started, queue, worker, pc, flag, sentJob, accepted, ran>>

\* Fault: jobs are accepted after stop().
PostAlways(c) ==
    /\ pc[c] = "idle"
    /\ Enqueue(Nobody)
    /\ UNCHANGED <<started, thread, pc, flag, sentJob, ran>>

\* post() from another thread; once stopped, the job is dropped.
Post(c) ==
    /\ pc[c] = "idle" /\ started
    /\ Enqueue(Nobody)
    /\ UNCHANGED <<started, thread, pc, flag, sentJob, ran>>

\* post() from the job being run.
PostFromJob(w) ==
    /\ worker[w] = "running" /\ started
    /\ Enqueue(Nobody)
    /\ UNCHANGED <<started, thread, pc, flag, sentJob, ran>>

\* send(): enqueue and block, in one critical section since flag is false.
Send(c) ==
    /\ pc[c] = "idle" /\ started
    /\ Enqueue(c)
    /\ flag' = [flag EXCEPT ![c] = FALSE]
    /\ sentJob' = [sentJob EXCEPT ![c] = accepted + 1]
    /\ pc' = [pc EXCEPT ![c] = "waiting"]
    /\ UNCHANGED <<started, thread, ran>>

\* Fault: if instead of while.
SendCheckOnce(c) ==
    /\ pc[c] = "checking"
    /\ pc' = [pc EXCEPT ![c] = "idle"]
    /\ UNCHANGED <<started, thread, queue, worker, flag, sentJob, accepted, ran>>

\* the while loop of send(): return when the flag is set, wait again otherwise.
SendCheck(c) ==
    /\ pc[c] = "checking"
    /\ pc' = [pc EXCEPT ![c] = IF flag[c] THEN "idle" ELSE "waiting"]
    /\ UNCHANGED <<started, thread, queue, worker, flag, sentJob, accepted, ran>>

\* Fault: stop() does not signal the worker.
StopSilent(c) ==
    /\ pc[c] = "idle" /\ started
    /\ started' = FALSE
    /\ pc' = [pc EXCEPT ![c] = "join"]
    /\ UNCHANGED <<thread, queue, worker, flag, sentJob, accepted, ran>>

\* the critical section of stop(): the first caller goes on to join the worker.
StopRequest(c) ==
    /\ pc[c] = "idle" /\ started
    /\ started' = FALSE
    /\ SignalWorker
    /\ pc' = [pc EXCEPT ![c] = "join"]
    /\ UNCHANGED <<thread, queue, flag, sentJob, accepted, ran>>

\* stop() of a thread that is not started (any more) returns at once.
StopReturns(c) ==
    /\ pc[c] = "idle" /\ ~started
    /\ pc' = [pc EXCEPT ![c] = "stopped"]
    /\ UNCHANGED <<started, thread, queue, worker, flag, sentJob, accepted, ran>>

\* Fault: stop() does not wait for the worker.
JoinNoWait(c) ==
    /\ pc[c] = "join" /\ thread \in Workers
    /\ thread' = Nobody
    /\ pc' = [pc EXCEPT ![c] = "stopped"]
    /\ UNCHANGED <<started, queue, worker, flag, sentJob, accepted, ran>>

\* pthread_join returns and stop() forgets the worker.
Join(c) ==
    /\ pc[c] = "join" /\ thread \in Workers /\ worker[thread] = "done"
    /\ worker' = [worker EXCEPT ![thread] = "none"]
    /\ thread' = Nobody
    /\ pc' = [pc EXCEPT ![c] = "stopped"]
    /\ UNCHANGED <<started, queue, flag, sentJob, accepted, ran>>

\* the caller of stop() goes on.
Resume(c) ==
    /\ pc[c] = "stopped"
    /\ pc' = [pc EXCEPT ![c] = "idle"]
    /\ UNCHANGED <<started, thread, queue, worker, flag, sentJob, accepted, ran>>

-----------------------------------------------------------------------------
(* loop() *)

\* Fault: once stopped, the loop leaves the jobs in the queue.
LoopLeaves(w) ==
    /\ worker[w] = "ready" /\ (queue = <<>> \/ ~started)
    /\ worker' = [worker EXCEPT ![w] = IF started THEN "waiting" ELSE "done"]
    /\ UNCHANGED <<started, thread, queue, pc, flag, sentJob, accepted, ran>>

\* nothing queued: wait on m_cond, or leave when stopped.
LoopEmpty(w) ==
    /\ worker[w] = "ready" /\ queue = <<>>
    /\ worker' = [worker EXCEPT ![w] = IF started THEN "waiting" ELSE "done"]
    /\ UNCHANGED <<started, thread, queue, pc, flag, sentJob, accepted, ran>>

\* refer to the front job and release the lock.
LoopFront(w) ==
    /\ worker[w] = "ready" /\ queue # <<>>
    /\ worker' = [worker EXCEPT ![w] = "running"]
    /\ UNCHANGED <<started, thread, queue, pc, flag, sentJob, accepted, ran>>

\* the job itself; a sent job still has to tell its sender.
RunJob(w) ==
    /\ worker[w] = "running"
    /\ ran' = Append(ran, Head(queue).id)
    /\ worker' = [worker EXCEPT ![w] =
                    IF Head(queue).sender = Nobody THEN "popping" ELSE "sending"]
    /\ UNCHANGED <<started, thread, queue, pc, flag, sentJob, accepted>>

\* the end of sendJob(): set the sender's flag under the lock.
SignalSender(w) ==
    /\ worker[w] = "sending"
    /\ flag' = [flag EXCEPT ![Head(queue).sender] = TRUE]
    /\ BroadcastSent
    /\ worker' = [worker EXCEPT ![w] = "popping"]
    /\ UNCHANGED <<started, thread, queue, sentJob, accepted, ran>>

\* Fault: pop_back() for pop_front().
LoopPopBack(w) ==
    /\ worker[w] = "popping"
    /\ queue' = SubSeq(queue, 1, Len(queue) - 1)
    /\ worker' = [worker EXCEPT ![w] = "ready"]
    /\ UNCHANGED <<started, thread, pc, flag, sentJob, accepted, ran>>

\* the lock again, and the job leaves the queue.
LoopPop(w) ==
    /\ worker[w] = "popping"
    /\ queue' = Tail(queue)
    /\ worker' = [worker EXCEPT ![w] = "ready"]
    /\ UNCHANGED <<started, thread, pc, flag, sentJob, accepted, ran>>

\* condition variables may wake up without a signal.
SpuriousWorker(w) ==
    /\ worker[w] = "waiting"
    /\ worker' = [worker EXCEPT ![w] = "ready"]
    /\ UNCHANGED <<started, thread, queue, pc, flag, sentJob, accepted, ran>>

SpuriousClient(c) ==
    /\ pc[c] = "waiting"
    /\ pc' = [pc EXCEPT ![c] = "checking"]
    /\ UNCHANGED <<started, thread, queue, worker, flag, sentJob, accepted, ran>>

-----------------------------------------------------------------------------
LoopStep(w) ==
    \/ LoopEmpty(w)
    \/ LoopFront(w)
    \/ RunJob(w)
    \/ SignalSender(w)
    \/ LoopPop(w)

Next ==
    \/ \E c \in Controllers :
          \/ Start(c)
          \/ StartFails(c)
          \/ StopRequest(c)
          \/ StopReturns(c)
    \/ \E c \in Clients :
          \/ Post(c)
          \/ Send(c)
          \/ SendCheck(c)
          \/ Join(c)
          \/ Resume(c)
          \/ SpuriousClient(c)
    \/ \E w \in Workers :
          \/ LoopStep(w)
          \/ PostFromJob(w)
          \/ SpuriousWorker(w)

Spec == Init /\ [][Next]_vars

\* The scheduler runs the worker and the callers that are not blocked; nothing
\* obliges a client to make a call, nor a job to post another one.
Fairness ==
    /\ \A w \in Workers : WF_vars(LoopStep(w))
    /\ \A c \in Clients : WF_vars(SendCheck(c)) /\ WF_vars(Join(c))

FairSpec == Spec /\ Fairness

-----------------------------------------------------------------------------
(* Properties *)

\* start() and stop() are not called concurrently: what the users of the class
\* respect, and what it takes for stop() to keep its promise.
OneController == \A c, d \in Controllers : c = d

\* Types of the variables.
TypeOK ==
    /\ started \in BOOLEAN
    /\ thread \in Workers \cup {Nobody}
    /\ queue \in Seq(Job)
    /\ worker \in [Workers -> WorkerStates]
    /\ pc \in [Clients -> ClientStates]
    /\ flag \in [Clients -> BOOLEAN]
    /\ sentJob \in [Clients -> Nat]
    /\ accepted \in Nat
    /\ ran \in Seq(Nat)

\* Jobs run exactly once and in the order they were accepted, although the
\* front job stays in the deque while it runs and others are pushed behind it.
RunsInOrder == \A i \in 1..Len(ran) : ran[i] = i

\* stop() returns to its caller only when every accepted job has run and left the
\* deque ("this will waiting all post/sent job done", Thread.h:37).
StopReturnsDrained ==
    \A c \in Clients :
        pc[c] # "stopped" /\ pc'[c] = "stopped" => queue = <<>> /\ Len(ran) = accepted

StopWaitsForJobs == [][StopReturnsDrained]_vars

\* A job always runs on the thread that isCurrent() recognises, which the users
\* of the class assert.
RunsOnCurrent ==
    \A w \in Workers : worker[w] \in {"running", "sending", "popping"} => thread = w

\* sendJob() writes to a local of send() by reference: while a sent job is in
\* the queue and has not signalled, its sender must still be inside send().
PendingSend(i) ==
    /\ queue[i].sender # Nobody
    /\ ~(i = 1 /\ \E w \in Workers : worker[w] = "popping")

NoDanglingFlag ==
    \A i \in 1..Len(queue) : PendingSend(i) =>
        /\ pc[queue[i].sender] \in {"waiting", "checking"}
        /\ sentJob[queue[i].sender] = queue[i].id

\* A blocked worker means there is nothing to do and nobody is stopping it.
NoMissedSignal ==
    \A w \in Workers : worker[w] = "waiting" => started /\ queue = <<>>

\* send() returns only after its own job has run ("send job and wait it done").
SendReturnsServed ==
    \A c \in Clients :
        pc[c] = "checking" /\ pc'[c] = "idle" => sentJob[c] \in 1..Len(ran)

SendReturnsAfterRun == [][SendReturnsServed]_vars

\* Every job accepted is run, also those pending when stop() is called.
JobsRun == \A i \in 1..MaxJobs : accepted >= i ~> Len(ran) >= i

\* send() and stop() return.
CallsReturn ==
    /\ \A c \in Clients : pc[c] \in {"waiting", "checking"} ~> pc[c] = "idle"
    /\ \A c \in Clients : pc[c] = "join" ~> pc[c] = "stopped"

-----------------------------------------------------------------------------
(* What the class promises: the jobs of Thread.h run one at a time, in order. *)

\* The job each client waits for inside send().
Awaits == [c \in Clients |->
             IF pc[c] \in {"waiting", "checking"} THEN sentJob[c] ELSE 0]

\* The clients inside stop().
Stopping == {c \in Clients : pc[c] = "join"}

Promise == INSTANCE JobQueue WITH
    open <- started, log <- ran, awaits <- Awaits, stopping <- Stopping

\* The locks, conditions and flags of the class implement that promise.
ImplementsJobQueue == Promise!Spec
=============================================================================

---------------------------- MODULE ThreadProofs ----------------------------
(***************************************************************************)
(* Theorems about Thread, for any clients, workers and number of jobs, when *)
(* start() and stop() have one caller at a time.                           *)
(***************************************************************************)
EXTENDS Thread, SequenceTheorems, TLAPS

Busy(w) == worker[w] \in {"running", "sending", "popping"}
HeadHasRun == \E w \in Workers : worker[w] \in {"sending", "popping"}
Popped == accepted - Len(queue)

-----------------------------------------------------------------------------
(* The parts of the inductive invariant *)

\* At most one worker exists, and it is m_thread.
WorkerInv ==
    /\ \A w \in Workers : worker[w] # "none" => thread = w
    /\ thread \in Workers => worker[thread] # "none"
    /\ started => thread \in Workers
    /\ \A w \in Workers : worker[w] = "done" => ~started /\ queue = <<>>
    /\ \A w \in Workers : worker[w] = "waiting" => started /\ queue = <<>>
    /\ \A w \in Workers : Busy(w) => Len(queue) > 0
    /\ \A w \in Workers : worker[w] = "sending" => queue[1].sender # Nobody

\* Between its unlock and its return stop() has a worker to join, and jobs are
\* left over only until then.
StopInv ==
    /\ \A c \in Clients : pc[c] = "join" => c \in Controllers /\ ~started /\ thread \in Workers
    /\ ~started /\ (\A c \in Clients : pc[c] # "join") => thread = Nobody /\ queue = <<>>

\* The deque holds the latest jobs, and ran holds those before them, with the
\* front of the deque once it has run.
OrderInv ==
    /\ Len(queue) <= accepted
    /\ \A i \in 1..Len(queue) : queue[i].id = Popped + i
    /\ Len(ran) = IF HeadHasRun THEN Popped + 1 ELSE Popped
    /\ RunsInOrder

\* A flag is set only for a job that has run, and no queued job can set it again.
FlagInv ==
    /\ NoDanglingFlag
    /\ \A i \in 1..Len(queue) : PendingSend(i) => ~flag[queue[i].sender]
    /\ \A c \in Clients : pc[c] \in {"waiting", "checking"} /\ flag[c]
                              => sentJob[c] \in 1..Len(ran)

IInv == TypeOK /\ WorkerInv /\ StopInv /\ OrderInv /\ FlagInv

-----------------------------------------------------------------------------
(* What the two operations on the deque do *)

\* The effect of enqueue() for sender s.
Enqueued(s) ==
    /\ queue' \in Seq(Job)
    /\ Len(queue') = Len(queue) + 1
    /\ queue'[Len(queue) + 1].id = accepted + 1
    /\ queue'[Len(queue) + 1].sender = s
    /\ \A i \in 1..Len(queue) : queue'[i] = queue[i]
    /\ accepted' = accepted + 1
    /\ worker' \in [Workers -> WorkerStates]
    /\ \A w \in Workers : \/ worker'[w] = worker[w]
                          \/ worker[w] = "waiting" /\ worker'[w] = "ready"

Popped1 ==
    /\ queue' \in Seq(Job)
    /\ Len(queue) \in Nat \ {0}
    /\ Len(queue') = Len(queue) - 1
    /\ \A i \in 1..Len(queue') : queue'[i] = queue[i + 1]

\* An element of the deque is a job, with a number and a sender.
LEMMA QueuedJob ==
    ASSUME TypeOK, NEW i \in 1..Len(queue)
    PROVE  queue[i] \in Job /\ queue[i].id \in Nat /\ queue[i].sender \in Clients \cup {Nobody}
<1>1. queue[i] \in Job
    BY ElementOfSeq DEF TypeOK
<1>2. QED
    BY <1>1 DEF Job

\* enqueue() adds one job at the end and leaves the others where they are.
LEMMA EnqueueFacts ==
    ASSUME TypeOK, NEW s \in Clients \cup {Nobody}, Enqueue(s)
    PROVE  Enqueued(s)
<1> DEFINE j == [id |-> accepted + 1, sender |-> s]
<1>1. j \in Job /\ j.id = accepted + 1 /\ j.sender = s
    BY DEF TypeOK, Job
<1>2. queue' = Append(queue, j) /\ accepted' = accepted + 1
    BY DEF Enqueue
<1>3. queue \in Seq(Job)
    BY DEF TypeOK
<1> HIDE DEF j
<1>4. /\ queue' \in Seq(Job)
      /\ Len(queue') = Len(queue) + 1
      /\ queue'[Len(queue) + 1] = j
      /\ \A i \in 1..Len(queue) : queue'[i] = queue[i]
    BY <1>1, <1>2, <1>3, AppendProperties
<1>5. /\ worker' \in [Workers -> WorkerStates]
      /\ \A w \in Workers : \/ worker'[w] = worker[w]
                            \/ worker[w] = "waiting" /\ worker'[w] = "ready"
    <2>0. worker \in [Workers -> WorkerStates]
        BY DEF TypeOK
    <2>1. CASE worker' = worker
        BY <2>1, <2>0
    <2>2. CASE \E w \in Workers : /\ worker[w] = "waiting"
                                  /\ worker' = [worker EXCEPT ![w] = "ready"]
        <3>1. PICK v \in Workers : /\ worker[v] = "waiting"
                                  /\ worker' = [worker EXCEPT ![v] = "ready"]
            BY <2>2
        <3>2. QED
            BY <2>0, <3>1 DEF WorkerStates
    <2>3. QED
        BY <2>1, <2>2 DEF Enqueue, SignalWorker
<1>6. QED
    BY <1>1, <1>2, <1>4, <1>5 DEF Enqueued

\* With one worker at most, a signal leaves nobody blocked.
LEMMA SignalWakes ==
    ASSUME TypeOK, WorkerInv, SignalWorker
    PROVE  \A w \in Workers : worker'[w] # "waiting"
<1>1. ASSUME NEW w \in Workers, worker[w] = "waiting"
      PROVE  worker' = [worker EXCEPT ![w] = "ready"]
    BY <1>1 DEF SignalWorker, WorkerInv
<1>2. QED
    BY <1>1 DEF SignalWorker, WorkerInv, TypeOK

\* pop_front() moves every other job one place forward.
LEMMA PopFacts ==
    ASSUME TypeOK, WorkerInv, NEW w \in Workers, LoopPop(w)
    PROVE  Popped1
<1>1. queue \in Seq(Job) /\ Len(queue) \in Nat /\ Len(queue) > 0
    BY LenProperties DEF TypeOK, WorkerInv, Busy, LoopPop
<1>2. queue # <<>>
    BY <1>1
<1>3. queue' = Tail(queue)
    BY DEF LoopPop
<1>4. QED
    BY <1>1, <1>2, <1>3, HeadTailProperties DEF Popped1

-----------------------------------------------------------------------------
(* Every step keeps every part *)

\* Types.
LEMMA TypeOKStep ==
    ASSUME OneController, IInv, [Next]_vars PROVE TypeOK'
<1>1. TypeOK /\ WorkerInv
    BY DEF IInv
<1>2. ASSUME NEW c \in Controllers, Start(c) PROVE TypeOK'
    BY <1>1, <1>2, ThreadAssumption DEF Start, TypeOK, WorkerStates,
       ClientStates
<1>3. ASSUME NEW c \in Controllers, StartFails(c) PROVE TypeOK'
    BY <1>1, <1>3, ThreadAssumption DEF StartFails, TypeOK, WorkerStates,
       ClientStates
<1>4. ASSUME NEW c \in Controllers, StopRequest(c) PROVE TypeOK'
    BY <1>1, <1>4, ThreadAssumption DEF StopRequest, SignalWorker, TypeOK,
       WorkerStates, ClientStates
<1>5. ASSUME NEW c \in Controllers, StopReturns(c) PROVE TypeOK'
    BY <1>1, <1>5, ThreadAssumption DEF StopReturns, TypeOK, WorkerStates,
       ClientStates
<1>6. ASSUME NEW c \in Clients, Post(c) PROVE TypeOK'
    <2>1. Enqueued(Nobody)
        BY <1>1, <1>6, EnqueueFacts DEF Post
    <2>2. QED
        BY <1>1, <1>6, <2>1 DEF Post, Enqueued, TypeOK, WorkerStates, ClientStates
<1>7. ASSUME NEW c \in Clients, Send(c) PROVE TypeOK'
    <2>1. Enqueued(c)
        BY <1>1, <1>7, EnqueueFacts DEF Send
    <2>2. QED
        BY <1>1, <1>7, <2>1 DEF Send, Enqueued, TypeOK, WorkerStates, ClientStates
<1>8. ASSUME NEW c \in Clients, SendCheck(c) PROVE TypeOK'
    BY <1>1, <1>8, ThreadAssumption DEF SendCheck, TypeOK, WorkerStates,
       ClientStates
<1>9. ASSUME NEW c \in Clients, Join(c) PROVE TypeOK'
    BY <1>1, <1>9, ThreadAssumption DEF Join, TypeOK, WorkerStates, ClientStates
<1>10. ASSUME NEW c \in Clients, Resume(c) PROVE TypeOK'
    BY <1>1, <1>10, ThreadAssumption DEF Resume, TypeOK, WorkerStates,
       ClientStates
<1>11. ASSUME NEW c \in Clients, SpuriousClient(c) PROVE TypeOK'
    BY <1>1, <1>11, ThreadAssumption DEF SpuriousClient, TypeOK, WorkerStates,
       ClientStates
<1>12. ASSUME NEW w \in Workers, LoopEmpty(w) PROVE TypeOK'
    BY <1>1, <1>12, ThreadAssumption DEF LoopEmpty, TypeOK, WorkerStates,
       ClientStates
<1>13. ASSUME NEW w \in Workers, LoopFront(w) PROVE TypeOK'
    BY <1>1, <1>13, ThreadAssumption DEF LoopFront, TypeOK, WorkerStates,
       ClientStates
<1>14. ASSUME NEW w \in Workers, RunJob(w) PROVE TypeOK'
    <2>1. Len(queue) > 0 /\ queue \in Seq(Job)
        BY <1>1, <1>14 DEF RunJob, WorkerInv, Busy, TypeOK
    <2>2. Head(queue).id \in Nat
        BY <1>1, <2>1, QueuedJob, LenProperties
    <2>3. ran' \in Seq(Nat)
        BY <1>1, <1>14, <2>2, AppendProperties DEF RunJob, TypeOK
    <2>4. QED
        BY <1>1, <1>14, <2>3 DEF RunJob, TypeOK, WorkerStates, ClientStates
<1>15. ASSUME NEW w \in Workers, SignalSender(w) PROVE TypeOK'
    BY <1>1, <1>15, ThreadAssumption DEF SignalSender, BroadcastSent, TypeOK,
       WorkerStates, ClientStates
<1>16. ASSUME NEW w \in Workers, LoopPop(w) PROVE TypeOK'
    BY <1>1, <1>16, PopFacts DEF LoopPop, Popped1, TypeOK, WorkerStates, ClientStates
<1>17. ASSUME NEW w \in Workers, PostFromJob(w) PROVE TypeOK'
    <2>1. Enqueued(Nobody)
        BY <1>1, <1>17, EnqueueFacts DEF PostFromJob
    <2>2. QED
        BY <1>1, <1>17, <2>1 DEF PostFromJob, Enqueued, TypeOK, WorkerStates, ClientStates
<1>18. ASSUME NEW w \in Workers, SpuriousWorker(w) PROVE TypeOK'
    BY <1>1, <1>18, ThreadAssumption DEF SpuriousWorker, TypeOK, WorkerStates,
       ClientStates
<1>19. CASE UNCHANGED vars
    BY <1>1, <1>19 DEF vars, TypeOK, WorkerStates, ClientStates
<1>20. QED
    BY <1>2, <1>3, <1>4, <1>5, <1>6, <1>7, <1>8, <1>9, <1>10, <1>11, <1>12,
       <1>13, <1>14, <1>15, <1>16, <1>17, <1>18, <1>19 DEF Next, LoopStep

\* The worker.
LEMMA WorkerInvStep ==
    ASSUME OneController, IInv, [Next]_vars PROVE WorkerInv'
<1>1. TypeOK /\ WorkerInv /\ StopInv /\ OneController
    BY DEF IInv
<1>2. ASSUME NEW c \in Controllers, Start(c) PROVE WorkerInv'
    <2>1. thread = Nobody /\ queue = <<>>
        BY <1>1, <1>2 DEF Start, StopInv, OneController
    <2>2. \A w \in Workers : worker[w] = "none"
        BY <1>1, <2>1, ThreadAssumption DEF WorkerInv
    <2>3. PICK w \in Workers : worker' = [worker EXCEPT ![w] = "ready"] /\ thread' = w
        BY <1>2 DEF Start
    <2>4. \A v \in Workers : worker'[v] = IF v = w THEN "ready" ELSE "none"
        BY <1>1, <2>2, <2>3 DEF TypeOK
    <2>5. QED
        BY <1>2, <2>3, <2>4 DEF Start, WorkerInv, Busy
<1>3. ASSUME NEW c \in Controllers, StartFails(c) PROVE WorkerInv'
    <2>1. thread = Nobody
        BY <1>1, <1>3 DEF StartFails, StopInv, OneController
    <2>2. QED
        BY <1>1, <1>3, <2>1, ThreadAssumption DEF StartFails, WorkerInv, Busy
<1>4. ASSUME NEW c \in Controllers, StopRequest(c) PROVE WorkerInv'
    <2>1. SignalWorker
        BY <1>4 DEF StopRequest
    <2>2. \A w \in Workers : worker'[w] # "waiting"
        BY <1>1, <2>1, SignalWakes
    <2>3. QED
        BY <1>1, <1>4, <2>1, <2>2 DEF StopRequest, SignalWorker, WorkerInv, Busy, TypeOK
<1>5. ASSUME NEW c \in Controllers, StopReturns(c) PROVE WorkerInv'
    BY <1>1, <1>5, ThreadAssumption DEF StopReturns, WorkerInv, Busy, TypeOK
<1>6. ASSUME NEW c \in Clients, Post(c) PROVE WorkerInv'
    <2>1. Enqueued(Nobody) /\ SignalWorker
        BY <1>1, <1>6, EnqueueFacts DEF Post, Enqueue
    <2>2. \A w \in Workers : worker'[w] # "waiting"
        BY <1>1, <2>1, SignalWakes
    <2>3. Len(queue') > 0 /\ (Len(queue) > 0 => queue'[1] = queue[1])
        BY <1>1, <2>1, LenProperties DEF Enqueued, TypeOK
    <2>4. QED
        BY <1>1, <1>6, <2>1, <2>2, <2>3 DEF Post, Enqueued, WorkerInv, Busy
<1>7. ASSUME NEW c \in Clients, Send(c) PROVE WorkerInv'
    <2>1. Enqueued(c) /\ SignalWorker
        BY <1>1, <1>7, EnqueueFacts DEF Send, Enqueue
    <2>2. \A w \in Workers : worker'[w] # "waiting"
        BY <1>1, <2>1, SignalWakes
    <2>3. Len(queue') > 0 /\ (Len(queue) > 0 => queue'[1] = queue[1])
        BY <1>1, <2>1, LenProperties DEF Enqueued, TypeOK
    <2>4. QED
        BY <1>1, <1>7, <2>1, <2>2, <2>3 DEF Send, Enqueued, WorkerInv, Busy
<1>8. ASSUME NEW c \in Clients, SendCheck(c) PROVE WorkerInv'
    BY <1>1, <1>8, ThreadAssumption DEF SendCheck, WorkerInv, Busy, TypeOK
<1>9. ASSUME NEW c \in Clients, Join(c) PROVE WorkerInv'
    BY <1>1, <1>9, ThreadAssumption DEF Join, WorkerInv, Busy, TypeOK
<1>10. ASSUME NEW c \in Clients, Resume(c) PROVE WorkerInv'
    BY <1>1, <1>10, ThreadAssumption DEF Resume, WorkerInv, Busy, TypeOK
<1>11. ASSUME NEW c \in Clients, SpuriousClient(c) PROVE WorkerInv'
    BY <1>1, <1>11, ThreadAssumption DEF SpuriousClient, WorkerInv, Busy, TypeOK
<1>12. ASSUME NEW w \in Workers, LoopEmpty(w) PROVE WorkerInv'
    BY <1>1, <1>12, ThreadAssumption DEF LoopEmpty, WorkerInv, Busy, TypeOK
<1>13. ASSUME NEW w \in Workers, LoopFront(w) PROVE WorkerInv'
    <2>1. Len(queue) > 0
        BY <1>1, <1>13, LenProperties, EmptySeq DEF LoopFront, TypeOK
    <2>2. QED
        BY <1>1, <1>13, <2>1 DEF LoopFront, WorkerInv, Busy, TypeOK
<1>14. ASSUME NEW w \in Workers, RunJob(w) PROVE WorkerInv'
    BY <1>1, <1>14, ThreadAssumption DEF RunJob, WorkerInv, Busy, TypeOK
<1>15. ASSUME NEW w \in Workers, SignalSender(w) PROVE WorkerInv'
    BY <1>1, <1>15, ThreadAssumption DEF SignalSender, BroadcastSent, WorkerInv,
       Busy, TypeOK
<1>16. ASSUME NEW w \in Workers, LoopPop(w) PROVE WorkerInv'
    BY <1>1, <1>16, ThreadAssumption DEF LoopPop, WorkerInv, Busy, TypeOK
<1>17. ASSUME NEW w \in Workers, PostFromJob(w) PROVE WorkerInv'
    <2>1. Enqueued(Nobody) /\ SignalWorker
        BY <1>1, <1>17, EnqueueFacts DEF PostFromJob, Enqueue
    <2>2. \A v \in Workers : worker'[v] # "waiting"
        BY <1>1, <2>1, SignalWakes
    <2>3. Len(queue') > 0 /\ (Len(queue) > 0 => queue'[1] = queue[1])
        BY <1>1, <2>1, LenProperties DEF Enqueued, TypeOK
    <2>4. QED
        BY <1>1, <1>17, <2>1, <2>2, <2>3 DEF PostFromJob, Enqueued, WorkerInv, Busy
<1>18. ASSUME NEW w \in Workers, SpuriousWorker(w) PROVE WorkerInv'
    BY <1>1, <1>18, ThreadAssumption DEF SpuriousWorker, WorkerInv, Busy, TypeOK
<1>19. CASE UNCHANGED vars
    BY <1>1, <1>19 DEF vars, WorkerInv, Busy, TypeOK
<1>20. QED
    BY <1>2, <1>3, <1>4, <1>5, <1>6, <1>7, <1>8, <1>9, <1>10, <1>11, <1>12,
       <1>13, <1>14, <1>15, <1>16, <1>17, <1>18, <1>19 DEF Next, LoopStep

\* stop(): the worker leaves only an empty deque behind.
LEMMA StopInvStep ==
    ASSUME OneController, IInv, [Next]_vars PROVE StopInv'
<1>1. TypeOK /\ WorkerInv /\ StopInv /\ OneController
    BY DEF IInv
<1>2. ASSUME NEW c \in Controllers, Start(c) PROVE StopInv'
    BY <1>1, <1>2, ThreadAssumption DEF Start, WorkerInv, StopInv, TypeOK,
       OneController
<1>3. ASSUME NEW c \in Controllers, StartFails(c) PROVE StopInv'
    BY <1>1, <1>3, ThreadAssumption DEF StartFails, WorkerInv, StopInv, TypeOK,
       OneController
<1>4. ASSUME NEW c \in Controllers, StopRequest(c) PROVE StopInv'
    BY <1>1, <1>4, ThreadAssumption DEF StopRequest, SignalWorker, WorkerInv,
       StopInv, TypeOK, OneController
<1>5. ASSUME NEW c \in Controllers, StopReturns(c) PROVE StopInv'
    BY <1>1, <1>5, ThreadAssumption DEF StopReturns, WorkerInv, StopInv, TypeOK,
       OneController
<1>6. ASSUME NEW c \in Clients, Post(c) PROVE StopInv'
    BY <1>1, <1>6 DEF Post, StopInv
<1>7. ASSUME NEW c \in Clients, Send(c) PROVE StopInv'
    BY <1>1, <1>7 DEF Send, StopInv
<1>8. ASSUME NEW c \in Clients, SendCheck(c) PROVE StopInv'
    BY <1>1, <1>8, ThreadAssumption DEF SendCheck, WorkerInv, StopInv, TypeOK,
       OneController
<1>9. ASSUME NEW c \in Clients, Join(c) PROVE StopInv'
    BY <1>1, <1>9, ThreadAssumption DEF Join, WorkerInv, StopInv, TypeOK,
       OneController
<1>10. ASSUME NEW c \in Clients, Resume(c) PROVE StopInv'
    BY <1>1, <1>10, ThreadAssumption DEF Resume, WorkerInv, StopInv, TypeOK,
       OneController
<1>11. ASSUME NEW c \in Clients, SpuriousClient(c) PROVE StopInv'
    BY <1>1, <1>11, ThreadAssumption DEF SpuriousClient, WorkerInv, StopInv,
       TypeOK, OneController
<1>12. ASSUME NEW w \in Workers, LoopEmpty(w) PROVE StopInv'
    BY <1>1, <1>12, ThreadAssumption DEF LoopEmpty, WorkerInv, StopInv, TypeOK,
       OneController
<1>13. ASSUME NEW w \in Workers, LoopFront(w) PROVE StopInv'
    BY <1>1, <1>13, ThreadAssumption DEF LoopFront, WorkerInv, StopInv, TypeOK,
       OneController
<1>14. ASSUME NEW w \in Workers, RunJob(w) PROVE StopInv'
    BY <1>1, <1>14, ThreadAssumption DEF RunJob, WorkerInv, StopInv, TypeOK,
       OneController
<1>15. ASSUME NEW w \in Workers, SignalSender(w) PROVE StopInv'
    BY <1>1, <1>15, ThreadAssumption DEF SignalSender, BroadcastSent, WorkerInv,
       StopInv, TypeOK, OneController
<1>16. ASSUME NEW w \in Workers, LoopPop(w) PROVE StopInv'
    BY <1>1, <1>16, ThreadAssumption DEF LoopPop, WorkerInv, StopInv, TypeOK,
       OneController
<1>17. ASSUME NEW w \in Workers, PostFromJob(w) PROVE StopInv'
    BY <1>1, <1>17 DEF PostFromJob, StopInv
<1>18. ASSUME NEW w \in Workers, SpuriousWorker(w) PROVE StopInv'
    BY <1>1, <1>18, ThreadAssumption DEF SpuriousWorker, WorkerInv, StopInv,
       TypeOK, OneController
<1>19. CASE UNCHANGED vars
    BY <1>1, <1>19 DEF vars, WorkerInv, StopInv, TypeOK, OneController
<1>20. QED
    BY <1>2, <1>3, <1>4, <1>5, <1>6, <1>7, <1>8, <1>9, <1>10, <1>11, <1>12,
       <1>13, <1>14, <1>15, <1>16, <1>17, <1>18, <1>19 DEF Next, LoopStep

\* The order of the jobs.
LEMMA OrderInvStep ==
    ASSUME OneController, IInv, [Next]_vars PROVE OrderInv'
<1>1. TypeOK /\ WorkerInv /\ OrderInv
    BY DEF IInv
<1>2. ASSUME NEW c \in Controllers, Start(c) PROVE OrderInv'
    BY <1>1, <1>2, ThreadAssumption DEF Start, WorkerInv, OrderInv, Popped,
       HeadHasRun, RunsInOrder, TypeOK
<1>3. ASSUME NEW c \in Controllers, StartFails(c) PROVE OrderInv'
    BY <1>1, <1>3, ThreadAssumption DEF StartFails, WorkerInv, OrderInv, Popped,
       HeadHasRun, RunsInOrder, TypeOK
<1>4. ASSUME NEW c \in Controllers, StopRequest(c) PROVE OrderInv'
    BY <1>1, <1>4, ThreadAssumption DEF StopRequest, SignalWorker, WorkerInv,
       OrderInv, Popped, HeadHasRun, RunsInOrder, TypeOK
<1>5. ASSUME NEW c \in Controllers, StopReturns(c) PROVE OrderInv'
    BY <1>1, <1>5, ThreadAssumption DEF StopReturns, WorkerInv, OrderInv,
       Popped, HeadHasRun, RunsInOrder, TypeOK
<1>6. ASSUME NEW c \in Clients, Post(c) PROVE OrderInv'
    <2>1. Enqueued(Nobody) /\ ran' = ran
        BY <1>1, <1>6, EnqueueFacts DEF Post
    <2>2. HeadHasRun' <=> HeadHasRun
        BY <2>1 DEF Enqueued, HeadHasRun
    <2>3. Len(queue) \in Nat /\ accepted \in Nat /\ Len(queue) <= accepted
        BY <1>1, LenProperties DEF TypeOK, OrderInv
    <2>4. Popped' = Popped /\ Popped \in Nat /\ Len(queue') <= accepted'
        BY <2>1, <2>3 DEF Enqueued, Popped
    <2>5. \A i \in 1..Len(queue') : queue'[i].id = Popped' + i
        <3>1. ASSUME NEW i \in 1..Len(queue) PROVE queue'[i].id = Popped' + i
            BY <1>1, <2>1, <2>4 DEF Enqueued, OrderInv
        <3>2. queue'[Len(queue) + 1].id = Popped' + (Len(queue) + 1)
            BY <2>1, <2>3, <2>4 DEF Enqueued, Popped
        <3>3. QED
            BY <2>1, <2>3, <3>1, <3>2 DEF Enqueued
    <2>6. QED
        BY <1>1, <2>1, <2>2, <2>4, <2>5 DEF OrderInv, RunsInOrder
<1>7. ASSUME NEW c \in Clients, Send(c) PROVE OrderInv'
    <2>1. Enqueued(c) /\ ran' = ran
        BY <1>1, <1>7, EnqueueFacts DEF Send
    <2>2. HeadHasRun' <=> HeadHasRun
        BY <2>1 DEF Enqueued, HeadHasRun
    <2>3. Len(queue) \in Nat /\ accepted \in Nat /\ Len(queue) <= accepted
        BY <1>1, LenProperties DEF TypeOK, OrderInv
    <2>4. Popped' = Popped /\ Popped \in Nat /\ Len(queue') <= accepted'
        BY <2>1, <2>3 DEF Enqueued, Popped
    <2>5. \A i \in 1..Len(queue') : queue'[i].id = Popped' + i
        <3>1. ASSUME NEW i \in 1..Len(queue) PROVE queue'[i].id = Popped' + i
            BY <1>1, <2>1, <2>4 DEF Enqueued, OrderInv
        <3>2. queue'[Len(queue) + 1].id = Popped' + (Len(queue) + 1)
            BY <2>1, <2>3, <2>4 DEF Enqueued, Popped
        <3>3. QED
            BY <2>1, <2>3, <3>1, <3>2 DEF Enqueued
    <2>6. QED
        BY <1>1, <2>1, <2>2, <2>4, <2>5 DEF OrderInv, RunsInOrder
<1>8. ASSUME NEW c \in Clients, SendCheck(c) PROVE OrderInv'
    BY <1>1, <1>8, ThreadAssumption DEF SendCheck, WorkerInv, OrderInv, Popped,
       HeadHasRun, RunsInOrder, TypeOK
<1>9. ASSUME NEW c \in Clients, Join(c) PROVE OrderInv'
    BY <1>1, <1>9, ThreadAssumption DEF Join, WorkerInv, OrderInv, Popped,
       HeadHasRun, RunsInOrder, TypeOK
<1>10. ASSUME NEW c \in Clients, Resume(c) PROVE OrderInv'
    BY <1>1, <1>10, ThreadAssumption DEF Resume, WorkerInv, OrderInv, Popped,
       HeadHasRun, RunsInOrder, TypeOK
<1>11. ASSUME NEW c \in Clients, SpuriousClient(c) PROVE OrderInv'
    BY <1>1, <1>11, ThreadAssumption DEF SpuriousClient, WorkerInv, OrderInv,
       Popped, HeadHasRun, RunsInOrder, TypeOK
<1>12. ASSUME NEW w \in Workers, LoopEmpty(w) PROVE OrderInv'
    BY <1>1, <1>12, ThreadAssumption DEF LoopEmpty, WorkerInv, OrderInv, Popped,
       HeadHasRun, RunsInOrder, TypeOK
<1>13. ASSUME NEW w \in Workers, LoopFront(w) PROVE OrderInv'
    BY <1>1, <1>13, ThreadAssumption DEF LoopFront, WorkerInv, OrderInv, Popped,
       HeadHasRun, RunsInOrder, TypeOK
<1>14. ASSUME NEW w \in Workers, RunJob(w) PROVE OrderInv'
    <2>1. Len(queue) > 0 /\ queue \in Seq(Job) /\ ~HeadHasRun /\ HeadHasRun'
        BY <1>1, <1>14 DEF RunJob, WorkerInv, Busy, HeadHasRun, TypeOK
    <2>2. Len(ran) = Popped /\ Head(queue).id = Popped + 1
        BY <1>1, <2>1 DEF OrderInv
    <2>3. /\ Len(ran') = Len(ran) + 1
          /\ ran'[Len(ran) + 1] = Len(ran) + 1
          /\ \A i \in 1..Len(ran) : ran'[i] = ran[i]
        BY <1>1, <1>14, <2>2, AppendProperties, LenProperties DEF RunJob, TypeOK
    <2>4. Popped' = Popped /\ Len(ran) \in Nat
        BY <1>1, <1>14, LenProperties DEF RunJob, Popped, TypeOK
    <2>5. RunsInOrder'
        <3> SUFFICES ASSUME NEW i \in 1..Len(ran') PROVE ran'[i] = i
            BY DEF RunsInOrder
        <3>1. i \in 1..Len(ran) \/ i = Len(ran) + 1
            BY <2>3, <2>4
        <3>2. QED
            BY <1>1, <2>3, <3>1 DEF RunsInOrder, OrderInv
    <2>6. QED
        BY <1>1, <1>14, <2>1, <2>2, <2>3, <2>4, <2>5 DEF RunJob, OrderInv
<1>15. ASSUME NEW w \in Workers, SignalSender(w) PROVE OrderInv'
    BY <1>1, <1>15, ThreadAssumption DEF SignalSender, BroadcastSent, WorkerInv,
       OrderInv, Popped, HeadHasRun, RunsInOrder, TypeOK
<1>16. ASSUME NEW w \in Workers, LoopPop(w) PROVE OrderInv'
    <2>1. HeadHasRun /\ ~HeadHasRun'
        BY <1>1, <1>16 DEF LoopPop, HeadHasRun, WorkerInv, TypeOK
    <2>2. Popped1 /\ ran' = ran /\ accepted' = accepted
        BY <1>1, <1>16, PopFacts DEF LoopPop
    <2>3. Len(queue) <= accepted /\ accepted \in Nat
        BY <1>1 DEF OrderInv, TypeOK
    <2>4. Popped' = Popped + 1 /\ Popped \in Nat /\ Len(queue') <= accepted'
        BY <2>2, <2>3 DEF Popped1, Popped
    <2>5. \A i \in 1..Len(queue') : queue'[i].id = Popped' + i
        <3> SUFFICES ASSUME NEW i \in 1..Len(queue') PROVE queue'[i].id = Popped' + i
            OBVIOUS
        <3>1. i + 1 \in 1..Len(queue) /\ queue'[i] = queue[i + 1]
            BY <2>2 DEF Popped1
        <3>2. queue[i + 1].id = Popped + (i + 1)
            BY <1>1, <3>1 DEF OrderInv
        <3>3. QED
            BY <2>4, <3>1, <3>2
    <2>6. QED
        BY <1>1, <2>1, <2>2, <2>4, <2>5 DEF OrderInv, RunsInOrder
<1>17. ASSUME NEW w \in Workers, PostFromJob(w) PROVE OrderInv'
    <2>1. Enqueued(Nobody) /\ ran' = ran
        BY <1>1, <1>17, EnqueueFacts DEF PostFromJob
    <2>2. HeadHasRun' <=> HeadHasRun
        BY <2>1 DEF Enqueued, HeadHasRun
    <2>3. Len(queue) \in Nat /\ accepted \in Nat /\ Len(queue) <= accepted
        BY <1>1, LenProperties DEF TypeOK, OrderInv
    <2>4. Popped' = Popped /\ Popped \in Nat /\ Len(queue') <= accepted'
        BY <2>1, <2>3 DEF Enqueued, Popped
    <2>5. \A i \in 1..Len(queue') : queue'[i].id = Popped' + i
        <3>1. ASSUME NEW i \in 1..Len(queue) PROVE queue'[i].id = Popped' + i
            BY <1>1, <2>1, <2>4 DEF Enqueued, OrderInv
        <3>2. queue'[Len(queue) + 1].id = Popped' + (Len(queue) + 1)
            BY <2>1, <2>3, <2>4 DEF Enqueued, Popped
        <3>3. QED
            BY <2>1, <2>3, <3>1, <3>2 DEF Enqueued
    <2>6. QED
        BY <1>1, <2>1, <2>2, <2>4, <2>5 DEF OrderInv, RunsInOrder
<1>18. ASSUME NEW w \in Workers, SpuriousWorker(w) PROVE OrderInv'
    BY <1>1, <1>18, ThreadAssumption DEF SpuriousWorker, WorkerInv, OrderInv,
       Popped, HeadHasRun, RunsInOrder, TypeOK
<1>19. CASE UNCHANGED vars
    BY <1>1, <1>19 DEF vars, WorkerInv, OrderInv, Popped, HeadHasRun,
       RunsInOrder, TypeOK
<1>20. QED
    BY <1>2, <1>3, <1>4, <1>5, <1>6, <1>7, <1>8, <1>9, <1>10, <1>11, <1>12,
       <1>13, <1>14, <1>15, <1>16, <1>17, <1>18, <1>19 DEF Next, LoopStep

\* The flags of the senders.
LEMMA FlagInvStep ==
    ASSUME OneController, IInv, [Next]_vars PROVE FlagInv'
<1>1. TypeOK /\ WorkerInv /\ StopInv /\ OrderInv /\ FlagInv
    BY DEF IInv
<1>2. ASSUME NEW c \in Controllers, Start(c) PROVE FlagInv'
    <2>1. \A i \in 1..Len(queue) : PendingSend(i)' =>
             PendingSend(i) /\ queue[i].sender \in Clients
        BY <1>1, <1>2, QueuedJob DEF Start, PendingSend, WorkerInv, StopInv
    <2>2. QED
        BY <1>1, <1>2, <2>1, ThreadAssumption DEF Start, FlagInv, NoDanglingFlag, TypeOK
<1>3. ASSUME NEW c \in Controllers, StartFails(c) PROVE FlagInv'
    <2>1. \A i \in 1..Len(queue) : PendingSend(i)' =>
             PendingSend(i) /\ queue[i].sender \in Clients
        BY <1>1, <1>3, QueuedJob DEF StartFails, PendingSend, WorkerInv, StopInv
    <2>2. QED
        BY <1>1, <1>3, <2>1, ThreadAssumption DEF StartFails, FlagInv, NoDanglingFlag, TypeOK
<1>4. ASSUME NEW c \in Controllers, StopRequest(c) PROVE FlagInv'
    <2>1. \A i \in 1..Len(queue) : PendingSend(i)' =>
             PendingSend(i) /\ queue[i].sender \in Clients
        BY <1>1, <1>4, QueuedJob DEF StopRequest, SignalWorker, PendingSend, WorkerInv, StopInv
    <2>2. QED
        BY <1>1, <1>4, <2>1, ThreadAssumption DEF StopRequest, SignalWorker, FlagInv, NoDanglingFlag, TypeOK
<1>5. ASSUME NEW c \in Controllers, StopReturns(c) PROVE FlagInv'
    <2>1. \A i \in 1..Len(queue) : PendingSend(i)' =>
             PendingSend(i) /\ queue[i].sender \in Clients
        BY <1>1, <1>5, QueuedJob DEF StopReturns, PendingSend, WorkerInv, StopInv
    <2>2. QED
        BY <1>1, <1>5, <2>1, ThreadAssumption DEF StopReturns, FlagInv, NoDanglingFlag, TypeOK
<1>6. ASSUME NEW c \in Clients, Post(c) PROVE FlagInv'
    <2>1. Enqueued(Nobody)
        BY <1>1, <1>6, EnqueueFacts DEF Post
    <2>2. \A i \in 1..Len(queue') : PendingSend(i)' =>
             i \in 1..Len(queue) /\ PendingSend(i) /\ queue'[i] = queue[i]
        BY <1>1, <2>1, LenProperties DEF Enqueued, PendingSend, TypeOK
    <2>3. QED
        BY <1>1, <1>6, <2>2 DEF Post, FlagInv, NoDanglingFlag
<1>7. ASSUME NEW c \in Clients, Send(c) PROVE FlagInv'
    <2>1. Enqueued(c)
        BY <1>1, <1>7, EnqueueFacts DEF Send
    <2>2. Len(queue) \in Nat /\ \A i \in 1..Len(queue) : PendingSend(i)' =>
             PendingSend(i) /\ queue'[i] = queue[i]
        BY <1>1, <2>1, LenProperties DEF Enqueued, PendingSend, TypeOK
    <2>3. \A i \in 1..Len(queue) : PendingSend(i) => queue[i].sender \in Clients \ {c}
        BY <1>1, <1>7, QueuedJob DEF Send, FlagInv, NoDanglingFlag, PendingSend
    <2>4. /\ flag' = [flag EXCEPT ![c] = FALSE] /\ ran' = ran
          /\ sentJob' = [sentJob EXCEPT ![c] = accepted + 1]
          /\ pc' = [pc EXCEPT ![c] = "waiting"]
        BY <1>7 DEF Send
    <2>5. ASSUME NEW i \in 1..Len(queue'), PendingSend(i)'
          PROVE  /\ pc'[queue'[i].sender] \in {"waiting", "checking"}
                 /\ sentJob'[queue'[i].sender] = queue'[i].id
                 /\ ~flag'[queue'[i].sender]
        <3>1. CASE i = Len(queue) + 1
            BY <1>1, <2>1, <2>4, <3>1 DEF Enqueued, TypeOK
        <3>2. CASE i \in 1..Len(queue)
            BY <1>1, <2>2, <2>3, <2>4, <2>5, <3>2 DEF FlagInv, NoDanglingFlag, TypeOK
        <3>3. QED
            BY <2>1, <2>2, <3>1, <3>2 DEF Enqueued
    <2>6. QED
        BY <1>1, <2>4, <2>5 DEF FlagInv, NoDanglingFlag, TypeOK
<1>8. ASSUME NEW c \in Clients, SendCheck(c) PROVE FlagInv'
    <2>1. \A i \in 1..Len(queue) : PendingSend(i)' =>
             PendingSend(i) /\ queue[i].sender \in Clients
        BY <1>1, <1>8, QueuedJob DEF SendCheck, PendingSend
    <2>2. QED
        BY <1>1, <1>8, <2>1 DEF SendCheck, FlagInv, NoDanglingFlag, TypeOK
<1>9. ASSUME NEW c \in Clients, Join(c) PROVE FlagInv'
    <2>1. \A i \in 1..Len(queue) : PendingSend(i)' =>
             PendingSend(i) /\ queue[i].sender \in Clients
        BY <1>1, <1>9, QueuedJob DEF Join, PendingSend, WorkerInv, StopInv
    <2>2. QED
        BY <1>1, <1>9, <2>1, ThreadAssumption DEF Join, FlagInv, NoDanglingFlag, TypeOK
<1>10. ASSUME NEW c \in Clients, Resume(c) PROVE FlagInv'
    <2>1. \A i \in 1..Len(queue) : PendingSend(i)' =>
             PendingSend(i) /\ queue[i].sender \in Clients
        BY <1>1, <1>10, QueuedJob DEF Resume, PendingSend, WorkerInv, StopInv
    <2>2. QED
        BY <1>1, <1>10, <2>1, ThreadAssumption DEF Resume, FlagInv, NoDanglingFlag, TypeOK
<1>11. ASSUME NEW c \in Clients, SpuriousClient(c) PROVE FlagInv'
    <2>1. \A i \in 1..Len(queue) : PendingSend(i)' =>
             PendingSend(i) /\ queue[i].sender \in Clients
        BY <1>1, <1>11, QueuedJob DEF SpuriousClient, PendingSend, WorkerInv, StopInv
    <2>2. QED
        BY <1>1, <1>11, <2>1, ThreadAssumption DEF SpuriousClient, FlagInv, NoDanglingFlag, TypeOK
<1>12. ASSUME NEW w \in Workers, LoopEmpty(w) PROVE FlagInv'
    <2>1. \A i \in 1..Len(queue) : PendingSend(i)' =>
             PendingSend(i) /\ queue[i].sender \in Clients
        BY <1>1, <1>12, QueuedJob DEF LoopEmpty, PendingSend, WorkerInv, StopInv
    <2>2. QED
        BY <1>1, <1>12, <2>1, ThreadAssumption DEF LoopEmpty, FlagInv, NoDanglingFlag, TypeOK
<1>13. ASSUME NEW w \in Workers, LoopFront(w) PROVE FlagInv'
    <2>1. \A i \in 1..Len(queue) : PendingSend(i)' =>
             PendingSend(i) /\ queue[i].sender \in Clients
        BY <1>1, <1>13, QueuedJob DEF LoopFront, PendingSend, WorkerInv, StopInv
    <2>2. QED
        BY <1>1, <1>13, <2>1, ThreadAssumption DEF LoopFront, FlagInv, NoDanglingFlag, TypeOK
<1>14. ASSUME NEW w \in Workers, RunJob(w) PROVE FlagInv'
    <2>1. Len(ran') = Len(ran) + 1 /\ Len(ran) \in Nat
        <3>1. Head(queue).id \in Nat
            BY <1>1, <1>14, QueuedJob, LenProperties DEF RunJob, WorkerInv, Busy, TypeOK
        <3>2. QED
            BY <1>1, <1>14, <3>1, AppendProperties, LenProperties DEF RunJob, TypeOK
    <2>2. \A i \in 1..Len(queue) : PendingSend(i)' => PendingSend(i)
        BY <1>1, <1>14 DEF RunJob, PendingSend, WorkerInv, TypeOK
    <2>3. QED
        BY <1>1, <1>14, <2>1, <2>2 DEF RunJob, FlagInv, NoDanglingFlag
<1>15. ASSUME NEW w \in Workers, SignalSender(w) PROVE FlagInv'
    <2> DEFINE s == queue[1].sender
    <2>1. Len(queue) > 0 /\ queue \in Seq(Job) /\ Head(queue) = queue[1]
        BY <1>1, <1>15 DEF SignalSender, WorkerInv, Busy, TypeOK
    <2>2. s \in Clients /\ PendingSend(1)
        <3>1. 1 \in 1..Len(queue) /\ s # Nobody
            BY <1>1, <1>15, <2>1, LenProperties DEF SignalSender, WorkerInv
        <3>2. \A v \in Workers : worker[v] # "popping"
            BY <1>1, <1>15 DEF SignalSender, WorkerInv
        <3>3. QED
            BY <1>1, <3>1, <3>2, QueuedJob DEF PendingSend
    <2>3. /\ flag' = [flag EXCEPT ![s] = TRUE] /\ queue' = queue
          /\ sentJob' = sentJob /\ ran' = ran
          /\ \A c \in Clients : pc'[c] = IF pc[c] = "waiting" THEN "checking" ELSE pc[c]
        BY <1>15, <2>1 DEF SignalSender, BroadcastSent
    <2>4. \A i \in 1..Len(queue) : PendingSend(i)' => PendingSend(i) /\ i # 1
        BY <1>1, <1>15 DEF SignalSender, PendingSend, TypeOK
    <2>5. Popped \in Nat /\ Len(ran) = Popped + 1 /\ sentJob[s] = Popped + 1
        <3>1. HeadHasRun /\ Len(queue) \in Nat /\ accepted \in Nat
            BY <1>1, <1>15, LenProperties DEF SignalSender, HeadHasRun, TypeOK
        <3>2. Popped \in Nat /\ Len(ran) = Popped + 1
            BY <1>1, <3>1 DEF OrderInv, Popped
        <3>3. queue[1].id = Popped + 1
            BY <1>1, <2>1, <3>1 DEF OrderInv
        <3>4. QED
            BY <1>1, <2>1, <2>2, <3>1, <3>2, <3>3 DEF FlagInv, NoDanglingFlag
    <2>6. \A i \in 1..Len(queue) : PendingSend(i)' => queue[i].sender \in Clients \ {s}
        <3> SUFFICES ASSUME NEW i \in 1..Len(queue), PendingSend(i)'
                     PROVE  queue[i].sender \in Clients \ {s}
            OBVIOUS
        <3>1. PendingSend(i) /\ i # 1 /\ queue[i].id = Popped + i
            BY <1>1, <2>4 DEF OrderInv
        <3>2. queue[i].sender \in Clients
            BY <1>1, <3>1, QueuedJob DEF PendingSend
        <3>3. sentJob[queue[i].sender] # Popped + 1
            BY <1>1, <2>5, <3>1 DEF FlagInv, NoDanglingFlag
        <3>4. QED
            BY <2>5, <3>2, <3>3
    <2>7. NoDanglingFlag'
        BY <1>1, <2>3, <2>4, <2>6 DEF FlagInv, NoDanglingFlag
    <2>8. \A i \in 1..Len(queue') : PendingSend(i)' => ~flag'[queue'[i].sender]
        BY <1>1, <2>3, <2>4, <2>6 DEF FlagInv, TypeOK
    <2>9. \A c \in Clients : pc'[c] \in {"waiting", "checking"} /\ flag'[c]
                                 => sentJob'[c] \in 1..Len(ran')
        BY <1>1, <2>3, <2>5 DEF FlagInv, TypeOK
    <2>10. QED
        BY <2>7, <2>8, <2>9 DEF FlagInv
<1>16. ASSUME NEW w \in Workers, LoopPop(w) PROVE FlagInv'
    <2>1. Popped1 /\ \A v \in Workers : worker'[v] # "popping"
        BY <1>1, <1>16, PopFacts DEF LoopPop, WorkerInv, TypeOK
    <2>2. \A i \in 1..Len(queue') : PendingSend(i)' =>
             i + 1 \in 1..Len(queue) /\ PendingSend(i + 1) /\ queue'[i] = queue[i + 1]
        BY <2>1 DEF Popped1, PendingSend
    <2>3. QED
        BY <1>1, <1>16, <2>2 DEF LoopPop, FlagInv, NoDanglingFlag
<1>17. ASSUME NEW w \in Workers, PostFromJob(w) PROVE FlagInv'
    <2>1. Enqueued(Nobody)
        BY <1>1, <1>17, EnqueueFacts DEF PostFromJob
    <2>2. \A i \in 1..Len(queue') : PendingSend(i)' =>
             i \in 1..Len(queue) /\ PendingSend(i) /\ queue'[i] = queue[i]
        BY <1>1, <2>1, LenProperties DEF Enqueued, PendingSend, TypeOK
    <2>3. QED
        BY <1>1, <1>17, <2>2 DEF PostFromJob, FlagInv, NoDanglingFlag
<1>18. ASSUME NEW w \in Workers, SpuriousWorker(w) PROVE FlagInv'
    <2>1. \A i \in 1..Len(queue) : PendingSend(i)' =>
             PendingSend(i) /\ queue[i].sender \in Clients
        BY <1>1, <1>18, QueuedJob DEF SpuriousWorker, PendingSend, WorkerInv, StopInv
    <2>2. QED
        BY <1>1, <1>18, <2>1, ThreadAssumption DEF SpuriousWorker, FlagInv, NoDanglingFlag, TypeOK
<1>19. CASE UNCHANGED vars
    BY <1>1, <1>19 DEF vars, FlagInv, NoDanglingFlag, PendingSend, TypeOK,
       WorkerInv
<1>20. QED
    BY <1>2, <1>3, <1>4, <1>5, <1>6, <1>7, <1>8, <1>9, <1>10, <1>11, <1>12,
       <1>13, <1>14, <1>15, <1>16, <1>17, <1>18, <1>19 DEF Next, LoopStep

-----------------------------------------------------------------------------
(* Initially *)

\* The constructor establishes the invariant.
LEMMA InitIInv == Init => IInv
<1> SUFFICES ASSUME Init PROVE IInv
    OBVIOUS
<1>1. TypeOK
    BY ThreadAssumption, EmptySeq DEF Init, TypeOK, WorkerStates, ClientStates
<1>2. WorkerInv /\ StopInv
    BY ThreadAssumption DEF Init, WorkerInv, StopInv, Busy
<1>3. OrderInv
    <2>1. ~HeadHasRun
        BY DEF Init, HeadHasRun
    <2>2. Len(queue) = 0 /\ Len(ran) = 0 /\ accepted = 0
        BY EmptySeq DEF Init
    <2>3. QED
        BY <2>1, <2>2 DEF OrderInv, Popped, RunsInOrder
<1>4. FlagInv
    BY EmptySeq DEF Init, FlagInv, NoDanglingFlag
<1>5. QED
    BY <1>1, <1>2, <1>3, <1>4 DEF IInv

\* Every step of the class keeps the invariant.
LEMMA IInvStep == ASSUME OneController, IInv, [Next]_vars PROVE IInv'
BY TypeOKStep, WorkerInvStep, StopInvStep, OrderInvStep, FlagInvStep DEF IInv

-----------------------------------------------------------------------------
(* Theorems *)

\* The invariant that the other theorems rest on.
THEOREM Invariance == ASSUME OneController PROVE Spec => []IInv
<1>1. Init => IInv
    BY InitIInv
<1>2. IInv /\ [Next]_vars => IInv'
    BY IInvStep
<1>3. QED
    BY <1>1, <1>2, PTL DEF Spec

\* The variables of the class keep their types.
THEOREM TypeCorrect == ASSUME OneController PROVE Spec => []TypeOK
<1>1. IInv => TypeOK
    BY DEF IInv
<1>2. QED
    BY <1>1, Invariance, PTL

\* loop() runs every job once, in the order post() and send() accepted them.
THEOREM InOrder == ASSUME OneController PROVE Spec => []RunsInOrder
<1>1. IInv => RunsInOrder
    BY DEF IInv, OrderInv
<1>2. QED
    BY <1>1, Invariance, PTL

\* sendJob() never writes to the flag of a send() that has returned.
THEOREM FlagAlive == ASSUME OneController PROVE Spec => []NoDanglingFlag
<1>1. IInv => NoDanglingFlag
    BY DEF IInv, FlagInv
<1>2. QED
    BY <1>1, Invariance, PTL

\* A job runs on the thread that isCurrent() answers for.
THEOREM OnCurrent == ASSUME OneController PROVE Spec => []RunsOnCurrent
<1>1. IInv => RunsOnCurrent
    BY DEF IInv, WorkerInv, RunsOnCurrent
<1>2. QED
    BY <1>1, Invariance, PTL

\* The worker never sleeps on a job or on a stop request.
THEOREM NothingMissed == ASSUME OneController PROVE Spec => []NoMissedSignal
<1>1. IInv => NoMissedSignal
    BY DEF IInv, WorkerInv, NoMissedSignal
<1>2. QED
    BY <1>1, Invariance, PTL

-----------------------------------------------------------------------------
(* What the steps of the two blocking calls guarantee *)

\* send() is back only when its own job has run.
THEOREM SendWaits == ASSUME OneController PROVE Spec => SendReturnsAfterRun
<1>1. IInv /\ [Next]_vars => [SendReturnsServed]_vars
    <2> SUFFICES ASSUME IInv, Next, NEW c \in Clients, pc[c] = "checking", pc'[c] = "idle"
                 PROVE  sentJob[c] \in 1..Len(ran)
        BY DEF SendReturnsServed
    <2>1. TypeOK /\ FlagInv
        BY DEF IInv
    <2>2. SendCheck(c)
        BY <2>1 DEF Next, LoopStep, TypeOK, ClientStates, Start, StartFails, Post, PostFromJob,
              Send, SendCheck, StopRequest, StopReturns, Join, Resume, LoopEmpty, LoopFront,
              RunJob, SignalSender, BroadcastSent, LoopPop, SpuriousWorker, SpuriousClient
    <2>3. flag[c]
        BY <2>1, <2>2 DEF SendCheck, TypeOK
    <2>4. QED
        BY <2>1, <2>3 DEF FlagInv
<1>2. QED
    BY <1>1, Invariance, PTL DEF Spec, SendReturnsAfterRun

\* With no job running and an empty deque, every accepted job has run.
LEMMA AllRun ==
    ASSUME IInv, queue = <<>>
    PROVE  Len(ran) = accepted
<1>1. TypeOK /\ WorkerInv /\ OrderInv
    BY DEF IInv
<1>2. Len(queue) = 0 /\ ~HeadHasRun
    BY <1>1, EmptySeq DEF WorkerInv, HeadHasRun, Busy
<1>3. QED
    BY <1>1, <1>2 DEF OrderInv, Popped, TypeOK

\* stop() is back only when every accepted job has run.
THEOREM StopWaits == ASSUME OneController PROVE Spec => StopWaitsForJobs
<1>1. IInv /\ [Next]_vars => [StopReturnsDrained]_vars
    <2> SUFFICES ASSUME IInv, Next, NEW c \in Clients, pc[c] # "stopped", pc'[c] = "stopped"
                 PROVE  queue = <<>> /\ Len(ran) = accepted
        BY DEF StopReturnsDrained
    <2>1. TypeOK /\ WorkerInv /\ StopInv
        BY DEF IInv
    <2>2. Join(c) \/ (StopReturns(c) /\ c \in Controllers)
        BY <2>1, ThreadAssumption
           DEF Next, LoopStep, TypeOK, ClientStates, Start, StartFails, Post, PostFromJob,
              Send, SendCheck, StopRequest, StopReturns, Join, Resume, LoopEmpty, LoopFront,
              RunJob, SignalSender, BroadcastSent, LoopPop, SpuriousWorker, SpuriousClient
    <2>3. queue = <<>>
        BY <2>1, <2>2 DEF Join, StopReturns, WorkerInv, StopInv, OneController
    <2>4. QED
        BY <2>3, AllRun
<1>2. QED
    BY <1>1, Invariance, PTL DEF Spec, StopWaitsForJobs

-----------------------------------------------------------------------------
(* Refinement *)

\* The constructor leaves the queue its users see empty and closed.
LEMMA InitRefines == Init => Promise!Init
BY ThreadAssumption DEF Init, Promise!Init, Awaits, Stopping

\* Every critical section is a step of that queue or changes nothing in it.
LEMMA StepRefines ==
    ASSUME OneController, IInv, [Next]_vars
    PROVE  [Promise!Next]_<<started, accepted, ran, Awaits, Stopping>>
<1> USE DEF Promise!Next
<1>1. TypeOK /\ WorkerInv /\ StopInv /\ OrderInv /\ FlagInv
    BY DEF IInv
<1>2. ASSUME NEW c \in Controllers, Start(c)
      PROVE  Promise!Next \/ UNCHANGED <<started, accepted, ran, Awaits, Stopping>>
    <2>1. Promise!Open
        BY <1>1, <1>2 DEF Start, Promise!Open, Awaits, Stopping, StopInv, OneController
    <2>2. QED
        BY <2>1
<1>3. ASSUME NEW c \in Controllers, StartFails(c)
      PROVE  Promise!Next \/ UNCHANGED <<started, accepted, ran, Awaits, Stopping>>
    BY <1>1, <1>3 DEF StartFails, Awaits, Stopping, TypeOK
<1>4. ASSUME NEW c \in Controllers, StopRequest(c)
      PROVE  Promise!Next \/ UNCHANGED <<started, accepted, ran, Awaits, Stopping>>
    <2>1. Awaits' = Awaits /\ Stopping' = Stopping \cup {c}
        BY <1>1, <1>4, ThreadAssumption DEF StopRequest, Awaits, Stopping, TypeOK
    <2>2. Promise!Close(c)
        BY <1>4, <2>1 DEF StopRequest, Promise!Close
    <2>3. QED
        BY <2>2
<1>5. ASSUME NEW c \in Controllers, StopReturns(c)
      PROVE  Promise!Next \/ UNCHANGED <<started, accepted, ran, Awaits, Stopping>>
    BY <1>1, <1>5 DEF StopReturns, Awaits, Stopping, TypeOK
<1>6. ASSUME NEW c \in Clients, Post(c)
      PROVE  Promise!Next \/ UNCHANGED <<started, accepted, ran, Awaits, Stopping>>
    <2>1. Promise!Accept
        BY <1>6 DEF Post, Enqueue, Promise!Accept, Awaits, Stopping
    <2>2. QED
        BY <2>1
<1>7. ASSUME NEW c \in Clients, Send(c)
      PROVE  Promise!Next \/ UNCHANGED <<started, accepted, ran, Awaits, Stopping>>
    <2>1. Awaits[c] = 0 /\ Awaits' = [Awaits EXCEPT ![c] = accepted + 1]
        BY <1>1, <1>7 DEF Send, Awaits, TypeOK
    <2>2. Stopping' = Stopping
        BY <1>1, <1>7 DEF Send, Stopping, TypeOK
    <2>3. Promise!Submit(c)
        BY <1>7, <2>1, <2>2 DEF Send, Enqueue, Promise!Submit
    <2>4. QED
        BY <2>3
<1>8. ASSUME NEW c \in Clients, SendCheck(c)
      PROVE  Promise!Next \/ UNCHANGED <<started, accepted, ran, Awaits, Stopping>>
    <2>1. Stopping' = Stopping /\ started' = started /\ accepted' = accepted /\ ran' = ran
        BY <1>1, <1>8 DEF SendCheck, Stopping, TypeOK
    <2>2. CASE flag[c]
        <3>1. Awaits[c] = sentJob[c] /\ Awaits' = [Awaits EXCEPT ![c] = 0]
            BY <1>1, <1>8, <2>2 DEF SendCheck, Awaits, TypeOK
        <3>2. Promise!Release(c)
            BY <1>1, <1>8, <2>1, <2>2, <3>1 DEF SendCheck, FlagInv, Promise!Release
        <3>3. QED
            BY <3>2
    <2>3. CASE ~flag[c]
        BY <1>1, <1>8, <2>1, <2>3 DEF SendCheck, Awaits, TypeOK
    <2>4. QED
        BY <2>2, <2>3
<1>9. ASSUME NEW c \in Clients, Join(c)
      PROVE  Promise!Next \/ UNCHANGED <<started, accepted, ran, Awaits, Stopping>>
    <2>1. Awaits' = Awaits /\ Stopping' = Stopping \ {c} /\ c \in Stopping /\ c \in Controllers
        BY <1>1, <1>9 DEF Join, Awaits, Stopping, TypeOK, StopInv
    <2>2. Len(ran) = accepted
        BY <1>1, <1>9, AllRun DEF Join, WorkerInv
    <2>3. Promise!Closed(c)
        BY <1>9, <2>1, <2>2 DEF Join, Promise!Closed
    <2>4. QED
        BY <2>1, <2>3
<1>10. ASSUME NEW c \in Clients, Resume(c)
      PROVE  Promise!Next \/ UNCHANGED <<started, accepted, ran, Awaits, Stopping>>
    BY <1>1, <1>10 DEF Resume, Awaits, Stopping, TypeOK
<1>11. ASSUME NEW c \in Clients, SpuriousClient(c)
      PROVE  Promise!Next \/ UNCHANGED <<started, accepted, ran, Awaits, Stopping>>
    BY <1>1, <1>11 DEF SpuriousClient, Awaits, Stopping, TypeOK
<1>12. ASSUME NEW w \in Workers, LoopEmpty(w)
      PROVE  Promise!Next \/ UNCHANGED <<started, accepted, ran, Awaits, Stopping>>
    BY <1>1, <1>12 DEF LoopEmpty, Awaits, Stopping, TypeOK
<1>13. ASSUME NEW w \in Workers, LoopFront(w)
      PROVE  Promise!Next \/ UNCHANGED <<started, accepted, ran, Awaits, Stopping>>
    BY <1>1, <1>13 DEF LoopFront, Awaits, Stopping, TypeOK
<1>14. ASSUME NEW w \in Workers, RunJob(w)
      PROVE  Promise!Next \/ UNCHANGED <<started, accepted, ran, Awaits, Stopping>>
    <2>1. Len(queue) > 0 /\ queue \in Seq(Job) /\ ~HeadHasRun
        BY <1>1, <1>14 DEF RunJob, WorkerInv, Busy, HeadHasRun, TypeOK
    <2>2. Len(ran) = Popped /\ Head(queue).id = Popped + 1
        BY <1>1, <2>1 DEF OrderInv
    <2>3. Len(ran) < accepted
        BY <1>1, <2>1, <2>2, LenProperties DEF OrderInv, Popped, TypeOK
    <2>4. Promise!Run
        BY <1>14, <2>2, <2>3 DEF RunJob, Promise!Run, Awaits, Stopping
    <2>5. QED
        BY <2>4
<1>15. ASSUME NEW w \in Workers, SignalSender(w)
      PROVE  Promise!Next \/ UNCHANGED <<started, accepted, ran, Awaits, Stopping>>
    BY <1>1, <1>15 DEF SignalSender, BroadcastSent, Awaits, Stopping, TypeOK
<1>16. ASSUME NEW w \in Workers, LoopPop(w)
      PROVE  Promise!Next \/ UNCHANGED <<started, accepted, ran, Awaits, Stopping>>
    BY <1>1, <1>16 DEF LoopPop, Awaits, Stopping, TypeOK
<1>17. ASSUME NEW w \in Workers, PostFromJob(w)
      PROVE  Promise!Next \/ UNCHANGED <<started, accepted, ran, Awaits, Stopping>>
    <2>1. Promise!Accept
        BY <1>17 DEF PostFromJob, Enqueue, Promise!Accept, Awaits, Stopping
    <2>2. QED
        BY <2>1
<1>18. ASSUME NEW w \in Workers, SpuriousWorker(w)
      PROVE  Promise!Next \/ UNCHANGED <<started, accepted, ran, Awaits, Stopping>>
    BY <1>1, <1>18 DEF SpuriousWorker, Awaits, Stopping, TypeOK
<1>19. CASE UNCHANGED vars
    BY <1>19 DEF vars, Awaits, Stopping
<1>20. QED
    BY <1>2, <1>3, <1>4, <1>5, <1>6, <1>7, <1>8, <1>9, <1>10, <1>11, <1>12,
       <1>13, <1>14, <1>15, <1>16, <1>17, <1>18, <1>19 DEF Next, LoopStep

\* The class implements the queue its users see.
THEOREM Refinement == ASSUME OneController PROVE Spec => ImplementsJobQueue
<1>1. Init => Promise!Init
    BY InitRefines
<1>2. IInv /\ [Next]_vars => [Promise!Next]_<<started, accepted, ran, Awaits, Stopping>>
    BY StepRefines
<1>3. QED
    BY <1>1, <1>2, Invariance, PTL DEF Spec, ImplementsJobQueue, Promise!Spec, Promise!jqVars
=============================================================================

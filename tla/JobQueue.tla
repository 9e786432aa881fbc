------------------------------ MODULE JobQueue ------------------------------
(***************************************************************************)
(* What common/Thread.h promises to its users, without locks: jobs are     *)
(* accepted while the thread is open and run one at a time in that order,  *)
(* a sender is released after its job and stop() after every job.          *)
(***************************************************************************)
EXTENDS Naturals, Sequences

CONSTANTS Clients, Controllers, MaxJobs

VARIABLES
    open,      \* between start() and stop()
    accepted,  \* jobs accepted
    log,       \* jobs run, in order
    awaits,    \* the job each client waits for in send(), 0 for none
    stopping   \* clients inside stop()

jqVars == <<open, accepted, log, awaits, stopping>>

Init ==
    /\ open = FALSE
    /\ accepted = 0
    /\ log = <<>>
    /\ awaits = [c \in Clients |-> 0]
    /\ stopping = {}

Open ==
    /\ ~open /\ stopping = {}
    /\ open' = TRUE
    /\ UNCHANGED <<accepted, log, awaits, stopping>>

Accept ==
    /\ open /\ accepted < MaxJobs
    /\ accepted' = accepted + 1
    /\ UNCHANGED <<open, log, awaits, stopping>>

Submit(c) ==
    /\ open /\ accepted < MaxJobs /\ awaits[c] = 0
    /\ accepted' = accepted + 1
    /\ awaits' = [awaits EXCEPT ![c] = accepted + 1]
    /\ UNCHANGED <<open, log, stopping>>

Run ==
    /\ Len(log) < accepted
    /\ log' = Append(log, Len(log) + 1)
    /\ UNCHANGED <<open, accepted, awaits, stopping>>

Release(c) ==
    /\ awaits[c] \in 1..Len(log)
    /\ awaits' = [awaits EXCEPT ![c] = 0]
    /\ UNCHANGED <<open, accepted, log, stopping>>

Close(c) ==
    /\ open
    /\ open' = FALSE
    /\ stopping' = stopping \cup {c}
    /\ UNCHANGED <<accepted, log, awaits>>

Closed(c) ==
    /\ c \in stopping /\ Len(log) = accepted
    /\ stopping' = stopping \ {c}
    /\ UNCHANGED <<open, accepted, log, awaits>>

Next ==
    \/ Open
    \/ Accept
    \/ Run
    \/ \E c \in Clients : Submit(c) \/ Release(c)
    \/ \E c \in Controllers : Close(c) \/ Closed(c)

Spec == Init /\ [][Next]_jqVars
=============================================================================

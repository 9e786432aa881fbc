----------------------------- MODULE FrameLine -----------------------------
(***************************************************************************)
(* What the codec behind the V4L2 interface promises about the frames it   *)
(* is given: they stand in a line, are coded, finished and seen in the     *)
(* order given, and what is given up on the way never comes back.          *)
(***************************************************************************)
EXTENDS Naturals

VARIABLES
    given,     \* number of frames accepted
    waiting,   \* those not coded yet
    coded,     \* those the encoder holds
    finished,  \* those in the client's capture buffers
    seen,      \* those the client has dequeued
    dropped    \* those given up

lineVars == <<given, waiting, coded, finished, seen, dropped>>

Init ==
    /\ given = 0
    /\ waiting = {} /\ coded = {} /\ finished = {} /\ seen = {} /\ dropped = {}

Front(f, S) == f \in S /\ \A g \in S \ {f} : f < g

Give ==
    /\ given' = given + 1
    /\ waiting' = waiting \cup {given + 1}
    /\ UNCHANGED <<coded, finished, seen, dropped>>

Code(f) ==
    /\ Front(f, waiting)
    /\ waiting' = waiting \ {f} /\ coded' = coded \cup {f}
    /\ UNCHANGED <<given, finished, seen, dropped>>

Finish(f) ==
    /\ Front(f, coded)
    /\ coded' = coded \ {f} /\ finished' = finished \cup {f}
    /\ UNCHANGED <<given, waiting, seen, dropped>>

Take(f) ==
    /\ Front(f, finished)
    /\ finished' = finished \ {f} /\ seen' = seen \cup {f}
    /\ UNCHANGED <<given, waiting, coded, dropped>>

GiveUpWaiting ==
    /\ dropped' = dropped \cup waiting /\ waiting' = {}
    /\ UNCHANGED <<given, coded, finished, seen>>

GiveUpCoded ==
    /\ dropped' = dropped \cup coded /\ coded' = {}
    /\ UNCHANGED <<given, waiting, finished, seen>>

GiveUpFinished ==
    /\ dropped' = dropped \cup finished /\ finished' = {}
    /\ UNCHANGED <<given, waiting, coded, seen>>

Next ==
    \/ Give
    \/ \E f \in waiting : Code(f)
    \/ \E f \in coded : Finish(f)
    \/ \E f \in finished : Take(f)
    \/ GiveUpWaiting \/ GiveUpCoded \/ GiveUpFinished

Spec == Init /\ [][Next]_lineVars

Before(S, T) == \A f \in S, g \in T : f < g

\* Every frame is at one place of the line, in the order given, or given up.
InLine ==
    /\ given \in Nat
    /\ 1..given = waiting \cup coded \cup finished \cup seen \cup dropped
    /\ Before(seen, finished) /\ Before(seen, coded) /\ Before(seen, waiting)
    /\ Before(finished, coded) /\ Before(finished, waiting) /\ Before(coded, waiting)
    /\ dropped \cap (waiting \cup coded \cup finished \cup seen) = {}

=============================================================================

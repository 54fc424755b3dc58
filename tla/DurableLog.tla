---------------------------- MODULE DurableLog ----------------------------
(* What persistence promises a match: the store holds accepted requests    *)
(* only, and what it has once held it holds for good, also after a crash.  *)
(* The promise is made to callers who do not overlap their calls.          *)
EXTENDS Integers

VARIABLES
    count,      \* the number of accepted requests
    durable,    \* those that a recovery would find
    exclusive   \* no two calls have overlapped so far

vars == <<count, durable, exclusive>>

Init == count = 0 /\ durable = {} /\ exclusive = TRUE

Accept ==
    /\ count' = count + 1
    /\ UNCHANGED <<durable, exclusive>>

Persist ==
    /\ durable' \in SUBSET (1 .. count)
    /\ durable \subseteq durable'
    /\ UNCHANGED <<count, exclusive>>

Overlap ==
    /\ exclusive' = FALSE
    /\ UNCHANGED <<count, durable>>

Misplace ==
    /\ ~exclusive
    /\ durable' \in SUBSET (1 .. count)
    /\ UNCHANGED <<count, exclusive>>

Next == Accept \/ Persist \/ Overlap \/ Misplace

Spec == Init /\ [][Next]_vars
===========================================================================

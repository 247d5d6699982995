------------------------------- MODULE CallMutex ------------------------------
(***************************************************************************)
(* What the processor needs of the call lock registry: for each call, one  *)
(* holder at a time among the goroutines that asked for its lock.          *)
(***************************************************************************)
CONSTANTS Goroutines, Calls, None

VARIABLES
    holder,    \* the goroutine in the critical section of each call, or None
    waiting    \* the call each goroutine waits for, or None

vars == <<holder, waiting>>

Init ==
    /\ holder = [c \in Calls |-> None]
    /\ waiting = [g \in Goroutines |-> None]

Ask(g, c) ==
    /\ waiting[g] = None
    /\ \A d \in Calls : holder[d] # g
    /\ waiting' = [waiting EXCEPT ![g] = c]
    /\ UNCHANGED holder

Enter(g, c) ==
    /\ waiting[g] = c
    /\ holder[c] = None
    /\ holder' = [holder EXCEPT ![c] = g]
    /\ waiting' = [waiting EXCEPT ![g] = None]

Leave(g, c) ==
    /\ holder[c] = g
    /\ holder' = [holder EXCEPT ![c] = None]
    /\ UNCHANGED waiting

Next ==
    \E g \in Goroutines, c \in Calls : Ask(g, c) \/ Enter(g, c) \/ Leave(g, c)

Spec == Init /\ [][Next]_vars

===============================================================================

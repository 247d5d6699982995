---------------------------- MODULE SessionChains -----------------------------
(***************************************************************************)
(* What refresh sessions promise: a login opens a chain of sessions, of    *)
(* which one at a time can be refreshed, and a chain that has ended is not *)
(* opened again.                                                           *)
(***************************************************************************)
CONSTANTS Sessions, NoRow, InitialSessions

VARIABLES
    current,    \* the session of each chain that can be refreshed
    opened      \* the chains opened so far

Init ==
    /\ opened \in SUBSET InitialSessions
    /\ current = [c \in Sessions |-> IF c \in opened THEN c ELSE NoRow]

OpenChain(c) ==
    /\ c \notin opened
    /\ current' = [current EXCEPT ![c] = c]
    /\ opened' = opened \cup {c}

Replace(c) ==
    /\ current[c] # NoRow
    /\ \E s \in Sessions \ {current[d] : d \in Sessions} :
          current' = [current EXCEPT ![c] = s]
    /\ UNCHANGED opened

EndChains(cs) ==
    /\ current' = [c \in Sessions |-> IF c \in cs THEN NoRow ELSE current[c]]
    /\ UNCHANGED opened

Next ==
    \/ \E c \in Sessions : OpenChain(c) \/ Replace(c)
    \/ \E cs \in SUBSET Sessions : EndChains(cs)

Spec == Init /\ [][Next]_<<current, opened>>

===============================================================================

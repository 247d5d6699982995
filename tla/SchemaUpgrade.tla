----------------------------- MODULE SchemaUpgrade -----------------------------
(***************************************************************************)
(* What the migration command promises ("applies each embedded up          *)
(* migration once, in lexical version order"): the statements that the     *)
(* database has executed are those of the first files, each file whole,    *)
(* once, and in its place.                                                 *)
(***************************************************************************)
EXTENDS Naturals, Sequences

CONSTANT Files    \* the number of statements of each migration, in lexical order

VARIABLE
    log           \* the statements executed: file and place in it

StatementsOf(f) == [i \in 1..Files[f] |-> <<f, i>>]

Init == log = << >>

Upgrade(f) ==
    /\ log = << >> => f = 1
    /\ log # << >> => f = log[Len(log)][1] + 1
    /\ log' = log \o StatementsOf(f)

Next == \E f \in DOMAIN Files : Upgrade(f)

Spec == Init /\ [][Next]_log

===============================================================================

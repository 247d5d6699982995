------------------------------ MODULE Admissions ------------------------------
(***************************************************************************)
(* What invitations promise: each admits once, and not after it was        *)
(* withdrawn.                                                              *)
(***************************************************************************)
EXTENDS Naturals

CONSTANT Invites

VARIABLES ticket, admissions

Init ==
    /\ ticket = [i \in Invites |-> "unissued"]
    /\ admissions = [i \in Invites |-> 0]

Issue(i) ==
    /\ ticket[i] = "unissued"
    /\ ticket' = [ticket EXCEPT ![i] = "open"]
    /\ UNCHANGED admissions

Admit(i) ==
    /\ ticket[i] = "open"
    /\ ticket' = [ticket EXCEPT ![i] = "spent"]
    /\ admissions' = [admissions EXCEPT ![i] = 1]

Withdraw(is) ==
    /\ \A i \in is : ticket[i] = "open"
    /\ ticket' = [i \in Invites |-> IF i \in is THEN "void" ELSE ticket[i]]
    /\ UNCHANGED admissions

Next ==
    \/ \E i \in Invites : Issue(i) \/ Admit(i)
    \/ \E is \in SUBSET Invites : Withdraw(is)

Spec == Init /\ [][Next]_<<ticket, admissions>>

===============================================================================

-------------------------- MODULE PlaybookCatalogue ---------------------------
(***************************************************************************)
(* What the playbooks of a workspace promise, as one change at a time: a   *)
(* new default takes the place of the old one, a change keeps what it does *)
(* not name, and a deleted playbook does not come back.                    *)
(***************************************************************************)
CONSTANTS
    Books,          \* playbook ids
    Names,          \* names a playbook can have
    Rubrics,        \* lists of criteria that Validate accepts
    InitialRows

Row == [state : {"absent", "active", "deleted"}, default : BOOLEAN,
        name : Names, criteria : Rubrics]

VARIABLE rows    \* the row of each id in playbooks

Active(b) == rows[b].state = "active"

\* The other playbooks when b changes to row.
Others(b, row) ==
    \A k \in Books \ {b} :
        rows'[k] = IF row.default /\ Active(k) THEN [rows[k] EXCEPT !.default = FALSE]
                   ELSE rows[k]

Create(b) ==
    /\ rows[b].state = "absent"
    /\ rows'[b] \in Row /\ rows'[b].state = "active"
    /\ Others(b, rows'[b])

Change(b) ==
    /\ Active(b)
    /\ \E default \in BOOLEAN, name \in Names, criteria \in Rubrics :
          rows'[b] = [state |-> "active", default |-> default, name |-> name,
                      criteria |-> criteria]
    /\ Others(b, rows'[b])

Remove(b) ==
    /\ Active(b)
    /\ rows' = [rows EXCEPT ![b].state = "deleted", ![b].default = FALSE]

Init == rows = InitialRows

Next == \E b \in Books : Create(b) \/ Change(b) \/ Remove(b)

Spec == Init /\ [][Next]_rows

===============================================================================

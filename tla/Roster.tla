-------------------------------- MODULE Roster --------------------------------
(***************************************************************************)
(* What a company workspace promises about its memberships, as one change  *)
(* at a time: it keeps an active owner, only managers have a supervisor,   *)
(* who is an active one once a change has named them, and a supervisor who *)
(* leaves that role has no reports left.                                   *)
(***************************************************************************)
EXTENDS MembershipRows

CONSTANT InitialRows

VARIABLE rows    \* the row of each membership id

\* The other memberships after a change of m: its reports are let go when it
\* was a supervisor and is none any more.
OthersFollow(m) ==
    \A k \in Members \ {m} :
        rows'[k] = IF rows[k].sup = m /\ ~ActiveSupervisor(rows'[m])
                   THEN [rows[k] EXCEPT !.sup = NoMember] ELSE rows[k]

Admit(m) ==
    /\ rows[m].status = "absent"
    /\ \A k \in Members : UserOf[k] = UserOf[m] => ~Present(rows[k])
    /\ rows'[m] \in [role : Roles, status : {"active"}, sup : {NoMember}]

Change(m) ==
    /\ Present(rows[m]) /\ Present(rows'[m])
    /\ rows'[m].sup # NoMember =>
          /\ rows'[m].role = "manager"
          /\ ActiveSupervisor(rows'[rows'[m].sup])

Remove(m) ==
    /\ Present(rows[m])
    /\ rows'[m].status = "deleted"

Init == rows = InitialRows

Next ==
    \E m \in Members :
        /\ Admit(m) \/ Change(m) \/ Remove(m)
        /\ rows' \in [Members -> Row]
        /\ OthersFollow(m)
        /\ HasOwner(rows')

Spec == Init /\ [][Next]_rows

===============================================================================

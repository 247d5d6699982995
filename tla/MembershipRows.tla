---------------------------- MODULE MembershipRows ----------------------------
(***************************************************************************)
(* The rows of workspace_memberships in one workspace, and what the code   *)
(* and the table's triggers ask of a row.  Memberships are named by id; a  *)
(* user who leaves and comes back has a new one.                           *)
(***************************************************************************)
CONSTANTS
    Members,     \* membership ids
    UserOf,      \* the user of each membership id
    NoMember

ASSUME NoMemberAssumption == NoMember \notin Members

Roles == {"owner", "admin", "supervisor", "manager"}

\* "invited" is not told apart from "disabled": no operation makes it, and the
\* code asks only whether a status is active.
Statuses == {"active", "disabled"}

Row == [role : Roles,
        status : Statuses \cup {"absent", "deleted"},
        sup : Members \cup {NoMember}]

Present(row) == row.status \in Statuses
ActiveOwner(row) == row.role = "owner" /\ row.status = "active"
ActiveSupervisor(row) == row.role = "supervisor" /\ row.status = "active"

HasOwner(table) == \E m \in Members : ActiveOwner(table[m])

===============================================================================

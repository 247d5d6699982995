---------------------------- MODULE MCMemberships -----------------------------
(***************************************************************************)
(* Instances of Memberships for TLC: two owners, two supervisors, a        *)
(* manager who reports to the first of them and a user whose first         *)
(* membership is still to come.  o3, s2, k2 and n2 are the ids those users *)
(* get when they come back.                                                *)
(***************************************************************************)
EXTENDS Memberships, TLC

CONSTANTS o1, o2, o3, s1, s2, k1, k2, m1, n1, n2, r1, r2,   \* membership ids and requests
          u1, u2, u3, u4, u5, u6        \* users

MCUserOf ==
    o1 :> u1 @@ o3 :> u1 @@ o2 :> u2 @@ s1 :> u3 @@ s2 :> u3 @@ k1 :> u4 @@ k2 :> u4
    @@ n1 :> u5 @@ n2 :> u5 @@ m1 :> u6

ActiveRow(role) == [role |-> role, status |-> "active", sup |-> NoMember]

OneReport ==
    o1 :> ActiveRow("owner") @@ o2 :> ActiveRow("owner") @@ s1 :> ActiveRow("supervisor")
    @@ k1 :> ActiveRow("supervisor") @@ m1 :> [ActiveRow("manager") EXCEPT !.sup = s1]
    @@ [m \in {o3, s2, k2, n1, n2} |-> NoRow]

Ask(op, by, m, role, status, sup) ==
    [op |-> op, by |-> by, target |-> m, user |-> MCUserOf[m],
     role |-> role, status |-> status, sup |-> sup]

Updates(by, ms, roles, statuses, sups) ==
    {Ask("update", by, m, role, status, sup) :
        m \in ms, role \in roles, status \in statuses, sup \in sups}

\* Roles and deletions among the owners, an admin and the new user.
RankInputs ==
    UNION {Updates(by, {o1, o2, s1}, {"keep", "owner", "admin"},
                   {"keep", "disabled"}, {"keep"})
              \cup {Ask("delete", by, m, "keep", "keep", "keep") : m \in {o1, o2, s1}}
              \cup {Ask("create", by, n1, role, "keep", "keep") : role \in {"owner", "manager"}}
           : by \in {u1, u2}}
    \cup {Ask("join", MCUserOf[m], m, role, "keep", "keep") :
              m \in {o1, n1}, role \in {"owner", "manager"}}

\* Supervisors demoted, also to a manager of the other one or of their own,
\* removed and brought back, and their managers given, taken and promoted.
ReportInputs ==
    Updates(u1, {k1}, {"keep", "manager"}, {"keep", "disabled"}, {"keep"})
    \cup Updates(u1, {k1}, {"manager"}, {"keep"}, {s1, "clear"})
    \cup Updates(u2, {s1}, {"keep", "manager", "supervisor"}, {"keep", "active", "disabled"}, {"keep"})
    \cup Updates(u2, {s1}, {"keep", "manager"}, {"keep"}, {k1, s1})
    \cup Updates(u1, {m1}, {"keep", "supervisor"}, {"keep"}, {k1, "clear"})
    \cup {Ask("delete", u2, m, "keep", "keep", "keep") : m \in {s1, k1}}
    \cup {Ask("create", u2, n1, "manager", "keep", "keep")}
    \cup {Ask("join", MCUserOf[m], m, role, "keep", "keep") :
              m \in {s1, k1, n1}, role \in {"supervisor", "manager"}}

\* What may run beside another request: changes of the supervisor and of their
\* reports, and two owners who take each other away.
RaceInputs ==
    ReportInputs
    \cup UNION {Updates(by, {o1, o2}, {"admin"}, {"keep"}, {"keep"})
                   \cup {Ask("delete", by, m, "keep", "keep", "keep") : m \in {o1, o2}}
                : by \in {u1, u2}}

\* A supervisor who leaves the role or the workspace while the manager who
\* reports to them is let go and given back: the trigger waits for the manager's
\* row, and the other request may wait for the supervisor's.
CrowdInputs ==
    Updates(u1, {m1}, {"keep"}, {"keep"}, {s1, "clear"})
    \cup Updates(u2, {s1}, {"manager"}, {"keep"}, {"keep"})
    \cup {Ask("delete", u2, s1, "keep", "keep", "keep")}

AllInputs == RankInputs \cup ReportInputs \cup CrowdInputs

===============================================================================

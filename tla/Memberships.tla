------------------------------ MODULE Memberships -----------------------------
(***************************************************************************)
(* The memberships of one company workspace: memberships.Service and its   *)
(* store, the upsert of an accepted invitation, and the two triggers of    *)
(* the table.  A request is one step per statement it sends; between them  *)
(* other requests run.  A transaction's writes stay in writes until it     *)
(* commits.                                                                *)
(***************************************************************************)
EXTENDS MembershipRows, Transactions, Naturals

CONSTANTS
    InitialRows,
    Requests,      \* goroutines of the API that serve requests
    Inputs,        \* what clients ask for
    MaxRequests,   \* bound: requests in a behaviour, one after the other
    Overlapping,   \* bound: the inputs of requests that run beside another one,
    MaxOverlapping,\* bound: the requests in a behaviour in which two of them overlap,
    Crowded        \* bound: and the inputs of those that do so up to MaxRequests

Users == {UserOf[m] : m \in Members}

VARIABLES
    rows,       \* workspace_memberships, as committed
    locks,      \* row locks
    writes,     \* the uncommitted rows of each request's transaction
    pc,         \* the next statement of each request
    input,      \* what the request asks for
    actor,      \* the actor's membership as ResolveActor read it
    target,     \* the membership id it works on
    draft,      \* the row it will write
    reports,    \* the rows its trigger or foreign key action clears
    outcome,    \* how the last request was answered
    served,     \* requests so far
    alone       \* history: no two requests have overlapped so far

locals == <<input, actor, target, draft>>
vars == <<rows, locks, writes, pc, input, actor, target, draft, reports, outcome, served, alone>>

\* A field a client leaves out is "keep"; "clear" is clear_supervisor.
Input == [op : {"create", "update", "delete", "join"}, by : Users,
          target : Members, user : Users, role : Roles \cup {"keep"},
          status : Statuses \cup {"keep"}, sup : Members \cup {"keep", "clear"}]

ASSUME MembershipsAssumption ==
    /\ {"keep", "clear"} \cap Members = {}
    /\ InitialRows \in [Members -> Row] /\ HasOwner(InitialRows)
    /\ \A m \in Members : InitialRows[m].sup # NoMember =>
          /\ InitialRows[m].role = "manager" /\ Present(InitialRows[m])
          /\ ActiveSupervisor(InitialRows[InitialRows[m].sup])
    /\ \A m, k \in Members : Present(InitialRows[m]) /\ Present(InitialRows[k])
          /\ UserOf[m] = UserOf[k] => m = k
    /\ Overlapping \cup Crowded \subseteq Inputs /\ Inputs \subseteq Input
    /\ \A i \in Inputs : i.op = "join" => i.role # "keep"
    /\ MaxRequests \in Nat /\ MaxOverlapping \in 0..MaxRequests

NoRow == [role |-> "manager", status |-> "absent", sup |-> NoMember]

Points == {"idle", "resolve", "insert", "get", "lock", "supervisor", "guard", "clear",
           "reference", "commit"}

Outcomes == {"none", "done", "refused", "not found", "last owner", "invalid supervisor",
             "duplicate", "raised", "deadlock"}

TypeOK ==
    /\ rows \in [Members -> Row]
    /\ locks \subseteq [by : Requests, row : Members, mode : LockModes]
    /\ DOMAIN writes = Requests
    /\ \A r \in Requests :
          /\ DOMAIN writes[r] \subseteq Members
          /\ writes[r] \in [DOMAIN writes[r] -> Row]
    /\ pc \in [Requests -> Points]
    /\ DOMAIN input = Requests
    /\ \A r \in Requests : pc[r] # "idle" => input[r] \in Inputs
    /\ actor \in [Requests -> Row]
    /\ target \in [Requests -> Members \cup {NoMember}]
    /\ draft \in [Requests -> Row]
    /\ reports \in [Requests -> SUBSET Members]
    /\ outcome \in Outcomes
    /\ served \in 0..MaxRequests
    /\ alone \in BOOLEAN

Init ==
    /\ rows = InitialRows
    /\ locks = {}
    /\ writes = [r \in Requests |-> NoWrites]
    /\ pc = [r \in Requests |-> "idle"]
    /\ input = [r \in Requests |-> NoMember]
    /\ actor = [r \in Requests |-> NoRow]
    /\ target = [r \in Requests |-> NoMember]
    /\ draft = [r \in Requests |-> NoRow]
    /\ reports = [r \in Requests |-> {}]
    /\ outcome = "none"
    /\ served = 0
    /\ alone = TRUE

-------------------------------------------------------------------------------
CanManageMembers(a) == a.status = "active" /\ a.role \in {"owner", "admin"}
CanManageAdmins(a) == a.status = "active" /\ a.role = "owner"

CanAssign(a, role) == role \in {"owner", "admin"} => CanManageAdmins(a)
CanManageTarget_Members(a, row) == CanManageMembers(a)
CanManageTarget(a, row) == row.role \in {"owner", "admin"} => CanManageAdmins(a)

MembershipsOf(u) == {m \in Members : UserOf[m] = u /\ Present(rows[m])}

\* The row locks that the next statement of r waits for, and whether it may run.
Wanted(r) ==
    CASE pc[r] = "lock" /\ input[r].op = "join" ->
            [row : MembershipsOf(input[r].user), mode : {"update"}]
      [] pc[r] = "lock" /\ input[r].op # "join" -> [row : {target[r]}, mode : {"key"}]
      [] pc[r] = "clear" -> [row : reports[r], mode : {"update"}]
      [] pc[r] = "reference" -> [row : {draft[r].sup}, mode : {"share"}]
      [] OTHER -> {}

WaitsFor(r, q) ==
    \E w \in Wanted(r) : Blocked({l \in locks : l.by = q}, r, w.row, w.mode)

Free(r) == \A q \in Requests : ~WaitsFor(r, q)

Goto(r, point) == pc' = [pc EXCEPT ![r] = point]

\* The request returns to its client; a transaction it has open is rolled back.
Finish(r, result) ==
    /\ Goto(r, "idle")
    /\ outcome' = result
    /\ writes' = [writes EXCEPT ![r] = NoWrites]
    /\ locks' = WithoutLocks(locks, r)
    /\ input' = [input EXCEPT ![r] = NoMember]
    /\ actor' = [actor EXCEPT ![r] = NoRow]
    /\ target' = [target EXCEPT ![r] = NoMember]
    /\ draft' = [draft EXCEPT ![r] = NoRow]
    /\ reports' = [reports EXCEPT ![r] = {}]
    /\ UNCHANGED <<served, alone>>

Reject(r, result) == Finish(r, result) /\ UNCHANGED rows

InFlight == {r \in Requests : pc[r] # "idle"}

\* Goroutines are interchangeable: one and the same serves while none is busy.
Arrive(r, i) ==
    /\ pc[r] = "idle"
    /\ InFlight = {} => r = CHOOSE q \in Requests : TRUE
    /\ served' = served + 1
    /\ input' = [input EXCEPT ![r] = i]
    /\ alone' = (alone /\ InFlight = {})
    /\ served < MaxRequests
    /\ \/ alone'
       \/ served < MaxOverlapping /\ \A q \in InFlight \cup {r} : input'[q] \in Overlapping
       \/ \A q \in InFlight \cup {r} : input'[q] \in Crowded
    /\ Goto(r, IF i.op = "join" THEN "lock" ELSE "resolve")
    /\ outcome' = "none"
    /\ UNCHANGED <<rows, locks, writes, actor, target, draft, reports>>

-------------------------------------------------------------------------------
\* ResolveActor, and what the service decides from the actor alone.
MayAct(a, i) ==
    /\ CanManageMembers(a)
    /\ i.op = "create" => i.role # "keep" /\ CanAssign(a, i.role)

ResolveActor(r) ==
    /\ pc[r] = "resolve"
    /\ \/ \E m \in MembershipsOf(input[r].by) :
             /\ MayAct(rows[m], input[r])
             /\ actor' = [actor EXCEPT ![r] = rows[m]]
             /\ Goto(r, IF input[r].op = "create" THEN "insert" ELSE "get")
             /\ UNCHANGED <<rows, locks, writes, input, target, draft, reports, outcome, served, alone>>
       \/ /\ \A m \in MembershipsOf(input[r].by) : ~MayAct(rows[m], input[r])
          /\ Reject(r, "refused")

\* What the service decides from the target as Get reads it.
GetAllows(a, i, row) ==
    /\ CanManageTarget(a, row)
    /\ i.role # "keep" => CanAssign(a, i.role)
    /\ row.role = "owner" /\ UserOf[i.target] = i.by =>
          i.op = "update" /\ i.status \in {"keep", "active"}

GetTarget(r) ==
    /\ pc[r] = "get"
    /\ LET m == input[r].target
       IN \/ /\ ~Present(rows[m])
             /\ Reject(r, "not found")
          \/ /\ Present(rows[m])
             /\ ~GetAllows(actor[r], input[r], rows[m])
             /\ Reject(r, "refused")
          \/ /\ Present(rows[m])
             /\ GetAllows(actor[r], input[r], rows[m])
             /\ target' = [target EXCEPT ![r] = m]
             /\ Goto(r, "lock")
             /\ UNCHANGED <<rows, locks, writes, input, actor, draft, reports, outcome, served, alone>>

\* No transaction has an uncommitted membership of u, for which the unique key
\* would make an insertion wait.
UserFree_NoKey(u) == TRUE
UserFree(u) == \A q \in Requests, m \in Members : m \in DOMAIN writes[q] => UserOf[m] # u

\* CreateByEmail is one statement; the unique key makes it wait for a
\* transaction that has written a membership of the same user.
CreateByEmail(r) ==
    /\ pc[r] = "insert"
    /\ LET u == input[r].user
       IN /\ UserFree(u)
          /\ \/ /\ MembershipsOf(u) # {}
                /\ Reject(r, "duplicate")
             \/ /\ MembershipsOf(u) = {}
                /\ \E m \in Members :
                      /\ UserOf[m] = u /\ rows[m].status = "absent"
                      /\ rows' = [rows EXCEPT ![m] =
                            [role |-> input[r].role, status |-> "active", sup |-> NoMember]]
                /\ Finish(r, "done")

-------------------------------------------------------------------------------
Merged_Unset(row, i) ==
    [role |-> i.role, status |-> i.status, sup |-> IF i.sup = "clear" THEN NoMember ELSE row.sup]

\* current, after the fields of the request other than the supervisor.
Merged(row, i) ==
    [role |-> IF i.role = "keep" THEN row.role ELSE i.role,
     status |-> IF i.status = "keep" THEN row.status ELSE i.status,
     sup |-> IF i.sup = "clear" THEN NoMember ELSE row.sup]

OnlyManagersReport(row) ==
    IF row.role = "manager" THEN row ELSE [row EXCEPT !.sup = NoMember]

\* The row is locked, after waiting for it, and read as it is then.
LockTarget(r) ==
    /\ pc[r] = "lock" /\ input[r].op \in {"update", "delete"}
    /\ Free(r)
    /\ \/ /\ ~Present(rows[target[r]])
          /\ Reject(r, "not found")
       \/ /\ Present(rows[target[r]])
          /\ locks' = WithLocks(locks, r, {target[r]}, "key")
          /\ \/ /\ input[r].op = "delete"
                /\ draft' = [draft EXCEPT ![r] = [NoRow EXCEPT !.status = "deleted"]]
                /\ Goto(r, "guard")
             \/ /\ input[r].op = "update" /\ input[r].sup \in Members
                /\ draft' = [draft EXCEPT ![r] = Merged(rows[target[r]], input[r])]
                /\ Goto(r, "supervisor")
             \/ /\ input[r].op = "update" /\ input[r].sup \notin Members
                /\ draft' = [draft EXCEPT ![r] =
                      OnlyManagersReport(Merged(rows[target[r]], input[r]))]
                /\ Goto(r, "guard")
          /\ UNCHANGED <<rows, writes, input, actor, target, reports, outcome, served, alone>>

CheckSupervisor_Retry(r) ==
    /\ pc[r] = "supervisor"
    /\ \/ /\ ~ActiveSupervisor(rows[input[r].sup])
          /\ Goto(r, "lock")
          /\ UNCHANGED <<rows, locks, writes, input, actor, target, draft, reports, outcome, served, alone>>
       \/ /\ ActiveSupervisor(rows[input[r].sup])
          /\ draft' = [draft EXCEPT ![r] =
                OnlyManagersReport([draft[r] EXCEPT !.sup = input[r].sup])]
          /\ Goto(r, "guard")
          /\ UNCHANGED <<rows, locks, writes, input, actor, target, reports, outcome, served, alone>>

\* SELECT EXISTS of the supervisor named in the request.
CheckSupervisor(r) ==
    /\ pc[r] = "supervisor"
    /\ \/ /\ ~ActiveSupervisor(rows[input[r].sup])
          /\ Reject(r, "invalid supervisor")
       \/ /\ ActiveSupervisor(rows[input[r].sup])
          /\ draft' = [draft EXCEPT ![r] =
                OnlyManagersReport([draft[r] EXCEPT !.sup = input[r].sup])]
          /\ Goto(r, "guard")
          /\ UNCHANGED <<rows, locks, writes, input, actor, target, reports, outcome, served, alone>>

\* The upsert of AcceptForUser: a new membership, or the role and status of
\* the one the user has.
Join(r) ==
    /\ pc[r] = "lock" /\ input[r].op = "join"
    /\ LET u == input[r].user
       IN \/ /\ MembershipsOf(u) = {}
             /\ UserFree(u)
             /\ \E m \in Members :
                   /\ UserOf[m] = u /\ rows[m].status = "absent"
                   /\ target' = [target EXCEPT ![r] = m]
                   /\ draft' = [draft EXCEPT ![r] =
                         [role |-> input[r].role, status |-> "active", sup |-> NoMember]]
                   /\ writes' = [writes EXCEPT ![r] = [k \in {m} |-> draft'[r]]]
                   /\ locks' = WithLocks(locks, r, {m}, "key")
             /\ Goto(r, "commit")
          \/ \E m \in MembershipsOf(u) :
                /\ Free(r)
                /\ target' = [target EXCEPT ![r] = m]
                /\ draft' = [draft EXCEPT ![r] =
                      [rows[m] EXCEPT !.role = input[r].role, !.status = "active"]]
                /\ locks' = WithLocks(locks, r, {m}, "update")
                /\ Goto(r, "guard")
                /\ UNCHANGED writes
    /\ UNCHANGED <<rows, input, actor, reports, outcome, served, alone>>

-------------------------------------------------------------------------------
KeepsOwner_Itself(m, row) ==
    ActiveOwner(rows[m]) /\ ~ActiveOwner(row) => HasOwner(rows)

\* protect_last_workspace_owner.
KeepsOwner(m, row) ==
    ActiveOwner(rows[m]) /\ ~ActiveOwner(row) =>
        \E k \in Members \ {m} : ActiveOwner(rows[k])

Cleared_OnDelete(m, row) ==
    IF row.status = "deleted" THEN {k \in Members : rows[k].sup = m} ELSE {}

\* The rows a change of m lets go: the reports of a supervisor who stays none,
\* or the rows that refer to a deleted one.
Cleared(m, row) ==
    IF row.status = "deleted" \/ (ActiveSupervisor(rows[m]) /\ ~ActiveSupervisor(row))
    THEN {k \in Members : rows[k].sup = m} ELSE {}

\* The first trigger, and the snapshot of the second one's update.
Guard(r) ==
    /\ pc[r] = "guard"
    /\ \/ /\ ~KeepsOwner(target[r], draft[r])
          /\ Reject(r, "raised")
       \/ /\ KeepsOwner(target[r], draft[r])
          /\ reports' = [reports EXCEPT ![r] = Cleared(target[r], draft[r])]
          /\ Goto(r, "clear")
          /\ UNCHANGED <<rows, locks, writes, input, actor, target, draft, outcome, served, alone>>

\* validate_membership_supervisor, which sees the row as it was.
ValidSupervisor(row) ==
    row.sup # NoMember => row.role = "manager" /\ ActiveSupervisor(rows[row.sup])

\* The second trigger, once the reports are free, and the row itself.
ClearReports(r) ==
    /\ pc[r] = "clear"
    /\ Free(r)
    /\ \/ /\ ~ValidSupervisor(draft[r])
          /\ Reject(r, "raised")
       \/ /\ ValidSupervisor(draft[r])
          /\ LET m == target[r]
                 freed == {k \in reports[r] : rows[k].sup = m}
             IN /\ writes' = [writes EXCEPT ![r] = [k \in freed \cup {m} |->
                      IF k = m THEN draft[r] ELSE [rows[k] EXCEPT !.sup = NoMember]]]
                /\ locks' = WithLocks(locks, r, freed, "update")
                /\ Goto(r, IF draft[r].sup \in {NoMember, rows[m].sup} THEN "commit"
                           ELSE "reference")
          /\ UNCHANGED <<rows, input, actor, target, draft, reports, outcome, served, alone>>

Reference_NoKey(r) ==
    /\ pc[r] = "reference"
    /\ Goto(r, "commit")
    /\ UNCHANGED <<rows, locks, writes, input, actor, target, draft, reports, outcome, served, alone>>

\* The foreign key of a supervisor who is new to the row.
Reference(r) ==
    /\ pc[r] = "reference"
    /\ Free(r)
    /\ \/ /\ ~Present(rows[draft[r].sup])
          /\ Reject(r, "raised")
       \/ /\ Present(rows[draft[r].sup])
          /\ locks' = WithLocks(locks, r, {draft[r].sup}, "share")
          /\ Goto(r, "commit")
          /\ UNCHANGED <<rows, writes, input, actor, target, draft, reports, outcome, served, alone>>

Commit(r) ==
    /\ pc[r] = "commit"
    /\ rows' = Overlay(rows, writes[r])
    /\ Finish(r, "done")

\* PostgreSQL aborts one of the transactions that wait for each other.
DeadlockVictim(r) ==
    /\ \E S \in SUBSET Requests : r \in S /\ \A q \in S : \E p \in S : WaitsFor(q, p)
    /\ Reject(r, "deadlock")

-------------------------------------------------------------------------------
Step(r) ==
    \/ ResolveActor(r) \/ GetTarget(r) \/ CreateByEmail(r)
    \/ LockTarget(r) \/ CheckSupervisor(r) \/ Join(r)
    \/ Guard(r) \/ ClearReports(r) \/ Reference(r) \/ Commit(r)
    \/ DeadlockVictim(r)

Terminated ==
    /\ InFlight = {}
    /\ UNCHANGED vars

Next ==
    \/ \E r \in Requests : (\E i \in Inputs : Arrive(r, i)) \/ Step(r)
    \/ Terminated

Spec == Init /\ [][Next]_vars /\ \A r \in Requests : WF_vars(Step(r))

-------------------------------------------------------------------------------
\* A row that names a supervisor is a manager's and the membership it names
\* exists: what the row locks and the foreign key keep when deletions race
\* assignments.
ReferencesHold ==
    \A m \in Members :
        Present(rows[m]) /\ rows[m].sup # NoMember =>
            rows[m].role = "manager" /\ Present(rows[rows[m].sup])

\* A user has one membership in the workspace.
OneMembershipEach ==
    \A m, k \in Members :
        Present(rows[m]) /\ Present(rows[k]) /\ UserOf[m] = UserOf[k] => m = k

\* However creations, updates, joins and deletions interleave, the table keeps
\* its references and the uniqueness of a user's membership.
TableHolds == TypeOK /\ ReferencesHold /\ OneMembershipEach

\* As long as no two requests overlap, what an owner or an admin is changes only
\* by a request of an owner or by an invitation they accept themselves: canAssign
\* and canManageTarget see the row that the transaction changes.
RankIsProtected ==
    [][\A m \in Members :
          /\ alone'
          /\ Present(rows[m]) /\ rows[m].role \in {"owner", "admin"}
          /\ rows'[m] # rows[m]
          => \E r \in Requests :
                /\ m \in DOMAIN writes[r] /\ pc[r] = "commit"
                /\ actor[r].role = "owner" \/ (input[r].op = "join" /\ input[r].user = UserOf[m])
      ]_vars

\* Every request is answered, those that wait for each other's locks included.
Answered == \A r \in Requests : pc[r] # "idle" ~> pc[r] = "idle"

Promise == INSTANCE Roster

\* The exception: an active supervisor becomes a manager and is named as their
\* own supervisor.  The EXISTS of the store and the one of the trigger both see
\* the row as it was, that of an active supervisor.
DemotedToItself ==
    \E m \in Members :
        /\ ActiveSupervisor(rows[m])
        /\ rows' \in [Members -> Row]
        /\ Present(rows'[m]) /\ rows'[m].role = "manager" /\ rows'[m].sup = m
        /\ Promise!OthersFollow(m)

\* As long as no two requests overlap, the memberships change as Roster allows,
\* but for that exception: the workspace keeps an active owner and a supervisor
\* who is named is an active one after the change, through promotions,
\* demotions, removals, returns and joins.
ImplementsRoster ==
    Promise!Init /\ [][alone' /\ rows' # rows => Promise!Next \/ DemotedToItself]_vars

===============================================================================

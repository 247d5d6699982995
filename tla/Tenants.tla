-------------------------------- MODULE Tenants -------------------------------
(***************************************************************************)
(* Workspaces and the administration of the platform: workspaces.Service,  *)
(* platform.Service and their stores, behind the middleware that reads the *)
(* access token, the user and the membership of every request anew.  A     *)
(* request is one step per statement or transaction; between them other    *)
(* requests run.                                                           *)
(***************************************************************************)
EXTENDS Naturals, FiniteSets

CONSTANTS
    Users, Spaces,
    NoOne,
    Requests,          \* goroutines of the API that serve requests
    Admins,            \* the platform's administrators at the start
    InitialMembers,    \* the memberships of the workspaces there are at the start
    Ops,               \* the requests that clients make
    MaxRequests,       \* bound: requests in a behaviour, one after the other
    MaxOverlapping,    \* bound: requests in a behaviour in which two overlap
    MaxFaults          \* bound: statements that fail

VARIABLES
    users,         \* platform_role and status
    workspaces,    \* status and deleted_at
    members,       \* workspace_memberships: roles of the active ones
    audit,         \* audit_events: whom and to what
    uploads,       \* the workspaces calls were uploaded to
    tokens,        \* access tokens, with the platform role they claim
    locks,         \* the row that each request's transaction has changed
    pc, input,
    actor,         \* the workspace actor of the request
    outcome,       \* how the last request was answered
    barred,        \* history: what has been against the request ever since it arrived
    alone,         \* history: no two requests have overlapped so far
    served, faults

tables == <<users, workspaces, members>>
vars == <<users, workspaces, members, audit, uploads, tokens, locks, pc, input, actor,
          outcome, barred, alone, served, faults>>

PlatformOps == {"found", "suspend space", "restore space", "suspend user", "restore user",
                "promote", "demote"}
AllOps == PlatformOps \cup {"create", "get", "rename", "delete", "upload"}

Roles == {"owner", "admin", "supervisor", "manager"}
User == [admin : BOOLEAN, status : {"active", "suspended"}]
Space == [status : {"none", "pending", "active", "suspended", "deleted"}, deleted : BOOLEAN]
Members == [Users -> Roles \cup {"none", "disabled"}]
Reasons == {"user", "role", "space", "member", "deleted"}

\* Ids are of one table; the workspaces there are at the start have an owner.
ASSUME TenantsAssumption ==
    /\ Admins \subseteq Users /\ Ops \subseteq AllOps
    /\ Users \cap Spaces = {} /\ NoOne \notin Users \cup Spaces
    /\ DOMAIN InitialMembers \subseteq Spaces
    /\ \A w \in DOMAIN InitialMembers :
          /\ InitialMembers[w] \in Members
          /\ \E u \in Users : InitialMembers[w][u] = "owner"
    /\ MaxRequests \in Nat /\ MaxOverlapping \in Nat /\ MaxFaults \in Nat

NoInput == [op |-> "none", user |-> NoOne, admin |-> FALSE, space |-> NoOne, target |-> NoOne]
NoActor == [role |-> "none", status |-> "none"]
Nobody == [u \in Users |-> "none"]

TypeOK ==
    /\ users \in [Users -> User]
    /\ workspaces \in [Spaces -> Space]
    /\ members \in [Spaces -> Members]
    /\ audit \subseteq (Users \cup Spaces) \X {"created", "active", "suspended", "user", "admin"}
    /\ uploads \subseteq Spaces
    /\ tokens \subseteq [user : Users, admin : BOOLEAN]
    /\ locks \in [Requests -> SUBSET (Users \cup Spaces)]
    /\ pc \in [Requests -> {"idle", "authenticate", "resolve", "insert", "update", "commit",
                            "get", "rename", "delete", "upload"}]
    /\ input \in [Requests -> [op : Ops \cup {"none"}, user : Users \cup {NoOne}, admin : BOOLEAN,
                              space : Spaces \cup {NoOne}, target : Users \cup {NoOne}]]
    /\ actor \in [Requests -> [role : Roles \cup {"none"},
                               status : {"none", "active", "suspended"}]]
    /\ outcome \in {"none", "done", "refused", "error"}
    /\ barred \in [Requests -> SUBSET Reasons]
    /\ alone \in BOOLEAN
    /\ served \in Nat /\ faults \in 0..MaxFaults

Init ==
    /\ users = [u \in Users |-> [admin |-> u \in Admins, status |-> "active"]]
    /\ workspaces = [w \in Spaces |->
          [status |-> IF w \in DOMAIN InitialMembers THEN "active" ELSE "none",
           deleted |-> FALSE]]
    /\ members = [w \in Spaces |->
          IF w \in DOMAIN InitialMembers THEN InitialMembers[w] ELSE Nobody]
    /\ audit = {} /\ uploads = {}
    /\ tokens = [user : Users \ Admins, admin : {FALSE}] \cup [user : Admins, admin : {TRUE}]
    /\ locks = [r \in Requests |-> {}]
    /\ pc = [r \in Requests |-> "idle"]
    /\ input = [r \in Requests |-> NoInput]
    /\ actor = [r \in Requests |-> NoActor]
    /\ outcome = "none"
    /\ barred = [r \in Requests |-> {}]
    /\ alone = TRUE
    /\ served = 0 /\ faults = 0

-------------------------------------------------------------------------------
At(r, point) == pc[r] = point
Goto(r, point) == pc' = [pc EXCEPT ![r] = point] /\ UNCHANGED outcome
Unlocked(r, row) == \A q \in Requests \ {r} : row \notin locks[q]

\* The request is answered; its transaction, if it has one, is over.
Answer(r, result) ==
    /\ pc' = [pc EXCEPT ![r] = "idle"]
    /\ outcome' = result
    /\ locks' = [locks EXCEPT ![r] = {}]
    /\ input' = [input EXCEPT ![r] = NoInput]
    /\ actor' = [actor EXCEPT ![r] = NoActor]
    /\ UNCHANGED <<tokens, alone, served>>

Only(r, result) == Answer(r, result) /\ UNCHANGED <<tables, audit, uploads, barred, faults>>
Proceed(r, point) ==
    /\ Goto(r, point)
    /\ UNCHANGED <<tables, audit, uploads, tokens, input, actor, barred, alone, served, faults>>

\* Every query of a workspace for a user looks past the deleted ones.
Visible_ByStatus(w) == workspaces[w].status \in {"active", "suspended"}
Visible(w) == workspaces[w].status \in {"active", "suspended"} /\ ~workspaces[w].deleted

InFlight == {r \in Requests : ~At(r, "idle")}

\* Ids for new workspaces that no request in flight will take.
UnusedIds == {w \in Spaces : workspaces[w].status = "none"}
Founding == {r \in InFlight : input[r].op \in {"create", "found"} /\ input[r].space = NoOne}

ByMembers == {"get", "rename", "delete", "upload"}
OnUsers == {"suspend user", "restore user", "promote", "demote"}
OnSpaces == {"suspend space", "restore space"} \cup ByMembers

\* What is against a request, as the tables are: its user is suspended, or is no
\* administrator of the platform, or no active member of the workspace, which may
\* be suspended, and then takes no uploads, or deleted, and then is not seen.
Against(i) ==
    {why \in Reasons :
        CASE why = "user" -> users[i.user].status = "suspended"
          [] why = "role" -> i.op \in PlatformOps /\ ~users[i.user].admin
          [] why = "space" -> i.op = "upload" /\ workspaces[i.space].status = "suspended"
          [] why = "member" -> i.op \in ByMembers /\ members[i.space][i.user] \notin Roles
          [] why = "deleted" -> i.op \in ByMembers /\ workspaces[i.space].deleted}

\* Goroutines are interchangeable: one and the same serves while none is busy.
Arrive(r) ==
    /\ At(r, "idle")
    /\ InFlight = {} => r = CHOOSE q \in Requests : TRUE
    /\ served' = served + 1
    /\ alone' = (alone /\ InFlight = {})
    /\ served < IF alone' THEN MaxRequests ELSE MaxOverlapping
    /\ \E op \in Ops, t \in tokens :
          \E w \in IF op \in OnSpaces THEN Spaces \ UnusedIds ELSE {NoOne},
             u \in IF op \in OnUsers \cup {"found"} THEN Users ELSE {t.user} :
             /\ op \in {"create", "found"} => Cardinality(Founding) < Cardinality(UnusedIds)
             /\ op \in OnSpaces => workspaces[w].status # "pending"
             /\ input' = [input EXCEPT ![r] =
                   [op |-> op, user |-> t.user, admin |-> t.admin, space |-> w, target |-> u]]
    /\ outcome' = "none"
    /\ pc' = [pc EXCEPT ![r] = "authenticate"]
    /\ barred' = [barred EXCEPT ![r] = Against(input'[r])]
    /\ UNCHANGED <<tables, audit, uploads, tokens, locks, actor, faults>>

-------------------------------------------------------------------------------
\* authenticate reads the user; platform.Service asks the token for the role and
\* keeps an administrator from changing the own account.
MayAdminister(r) ==
    /\ input[r].admin
    /\ input[r].op \in {"suspend user", "restore user", "promote", "demote"} =>
          input[r].target # input[r].user

Authenticate_Claims(r) ==
    /\ At(r, "authenticate")
    /\ \/ input[r].op \in PlatformOps /\ ~MayAdminister(r) /\ Only(r, "refused")
       \/ /\ input[r].op \notin PlatformOps \/ MayAdminister(r)
          /\ Proceed(r, CASE input[r].op \in {"create", "found"} -> "insert"
                          [] input[r].op \in PlatformOps \ {"found"} -> "update"
                          [] OTHER -> "resolve")
          /\ UNCHANGED locks

Authenticate(r) ==
    LET admitted == /\ users[input[r].user].status # "suspended"
                    /\ input[r].op \in PlatformOps => MayAdminister(r)
    IN /\ At(r, "authenticate")
       /\ \/ ~admitted /\ Only(r, "refused")
          \/ /\ admitted
             /\ Proceed(r, CASE input[r].op \in {"create", "found"} -> "insert"
                             [] input[r].op \in PlatformOps \ {"found"} -> "update"
                             [] OTHER -> "resolve")
             /\ UNCHANGED locks

\* ResolveActor, for the routes below /workspaces/{workspaceID}.
Resolve(r) ==
    LET w == input[r].space  u == input[r].user
        admitted == Visible(w) /\ users[u].status = "active" /\ members[w][u] \in Roles
    IN /\ At(r, "resolve")
       /\ \/ ~admitted /\ Only(r, "refused")
          \/ /\ admitted
             /\ actor' = [actor EXCEPT ![r] =
                   [role |-> members[w][u], status |-> workspaces[w].status]]
             /\ Goto(r, input[r].op)
             /\ UNCHANGED <<tables, audit, uploads, tokens, locks, input, barred, alone, served, faults>>

-------------------------------------------------------------------------------
\* CreateCompany, of a user or of the platform: the workspace, its owner and, for
\* the platform, the event, in one transaction.
Owner(r) == IF input[r].op = "found" THEN input[r].target ELSE input[r].user

InsertCompany_Committed(r) ==
    LET w == CHOOSE x \in UnusedIds : TRUE
    IN /\ At(r, "insert") /\ UnusedIds # {}
       /\ workspaces' = [workspaces EXCEPT ![w].status = "active"]
       /\ input' = [input EXCEPT ![r].space = w]
       /\ Goto(r, "commit")
       /\ UNCHANGED <<users, members, audit, uploads, tokens, locks, actor, barred, alone,
                      served, faults>>

InsertCompany(r) ==
    LET w == CHOOSE x \in UnusedIds : TRUE
    IN /\ At(r, "insert") /\ UnusedIds # {}
       /\ workspaces' = [workspaces EXCEPT ![w].status = "pending"]
       /\ input' = [input EXCEPT ![r].space = w]
       /\ Goto(r, "commit")
       /\ UNCHANGED <<users, members, audit, uploads, tokens, locks, actor, barred, alone,
                      served, faults>>

CommitCompany(r) ==
    /\ At(r, "commit") /\ input[r].op \in {"create", "found"}
    /\ workspaces' = [workspaces EXCEPT ![input[r].space].status = "active"]
    /\ members' = [members EXCEPT ![input[r].space][Owner(r)] = "owner"]
    /\ audit' = IF input[r].op = "found" THEN audit \cup {<<input[r].space, "created">>}
                ELSE audit
    /\ Answer(r, "done")
    /\ UNCHANGED <<users, uploads, barred, faults>>

\* SetWorkspaceStatus, SetUserStatus, SetUserPlatformRole: the UPDATE, then the
\* event and the commit.
Target(r) ==
    IF input[r].op \in {"suspend space", "restore space"} THEN input[r].space
    ELSE input[r].target

LockTarget(r) ==
    /\ At(r, "update")
    /\ Unlocked(r, Target(r))
    /\ locks' = [locks EXCEPT ![r] = {Target(r)}]
    /\ Proceed(r, "commit")

Value(r) ==
    CASE input[r].op \in {"suspend space", "suspend user"} -> "suspended"
      [] input[r].op \in {"restore space", "restore user"} -> "active"
      [] input[r].op = "promote" -> "admin"
      [] input[r].op = "demote" -> "user"

\* The event is one of the rows that the commit shows.
Events_Suspensions(r) == {<<Target(r), Value(r)>>} \cap ((Users \cup Spaces) \X {"suspended"})
Events(r) == {<<Target(r), Value(r)>>}

CommitChange(r) ==
    /\ At(r, "commit") /\ input[r].op \in PlatformOps \ {"found"}
    /\ \/ /\ Target(r) \in Spaces
          /\ workspaces' = [workspaces EXCEPT ![Target(r)].status = Value(r)]
          /\ UNCHANGED users
       \/ /\ Target(r) \in Users
          /\ users' = IF Value(r) \in {"admin", "user"}
                      THEN [users EXCEPT ![Target(r)].admin = (Value(r) = "admin")]
                      ELSE [users EXCEPT ![Target(r)].status = Value(r)]
          /\ UNCHANGED workspaces
    /\ audit' = audit \cup Events(r)
    /\ barred' = [q \in Requests |-> barred[q] \
          (CASE input[r].op = "restore user" /\ input[q].user = Target(r) -> {"user"}
             [] input[r].op = "promote" /\ input[q].user = Target(r) -> {"role"}
             [] input[r].op = "restore space" /\ input[q].space = Target(r) -> {"space"}
             [] OTHER -> {})]
    /\ Answer(r, "done")
    /\ UNCHANGED <<members, uploads, faults>>

-------------------------------------------------------------------------------
\* GetForUser reads once more what the actor was made from.
Get(r) ==
    /\ At(r, "get")
    /\ Only(r, IF Visible(input[r].space) THEN "done" ELSE "refused")

Rename(r) ==
    /\ At(r, "rename")
    /\ Unlocked(r, input[r].space)
    /\ Only(r, IF actor[r].role \in {"owner", "admin"} /\ Visible(input[r].space)
               THEN "done" ELSE "refused")

Delete(r) ==
    /\ At(r, "delete")
    /\ Unlocked(r, input[r].space)
    /\ \/ /\ actor[r].role = "owner" /\ ~workspaces[input[r].space].deleted
          /\ workspaces' = [workspaces EXCEPT ![input[r].space] =
                [status |-> "deleted", deleted |-> TRUE]]
          /\ Answer(r, "done")
          /\ UNCHANGED <<users, members, audit, uploads, barred, faults>>
       \/ /\ actor[r].role # "owner" \/ workspaces[input[r].space].deleted
          /\ Only(r, "refused")

\* createCall and Service.Create; what follows the INSERT is in CallUpload.
CanUpload_Role(a) == a.role \in {"owner", "admin", "manager"}
CanUpload(a) == a.status = "active" /\ a.role \in {"owner", "admin", "manager"}

Upload(r) ==
    /\ At(r, "upload")
    /\ \/ ~CanUpload(actor[r]) /\ Only(r, "refused")
       \/ /\ CanUpload(actor[r])
          /\ uploads' = uploads \cup {input[r].space}
          /\ Answer(r, "done")
          /\ UNCHANGED <<tables, audit, barred, faults>>

-------------------------------------------------------------------------------
\* A statement fails and the open transaction is rolled back.
Err(r) ==
    /\ ~At(r, "idle")
    /\ faults < MaxFaults
    /\ faults' = faults + 1
    /\ workspaces' = IF At(r, "commit") /\ input[r].op \in {"create", "found"}
                     THEN [workspaces EXCEPT ![input[r].space].status = "none"]
                     ELSE workspaces
    /\ Answer(r, "error")
    /\ UNCHANGED <<users, members, audit, uploads, barred>>

\* An access token expires; a login that is not suspended is given another.
Renew(u) ==
    /\ users[u].status = "active"
    /\ tokens' = {t \in tokens : t.user # u} \cup {[user |-> u, admin |-> users[u].admin]}
    /\ tokens' # tokens
    /\ UNCHANGED <<tables, audit, uploads, locks, pc, input, actor, outcome, barred, alone,
                   served, faults>>

\* The owner of a workspace disables a membership (Memberships).
Disable(w, u) ==
    /\ members[w][u] \in Roles \ {"owner"}
    /\ members' = [members EXCEPT ![w][u] = "disabled"]
    /\ UNCHANGED <<users, workspaces, audit, uploads, tokens, locks, pc, input, actor, outcome,
                   barred, alone, served, faults>>

Step(r) ==
    \/ Authenticate(r) \/ Resolve(r)
    \/ InsertCompany(r) \/ CommitCompany(r) \/ LockTarget(r) \/ CommitChange(r)
    \/ Get(r) \/ Rename(r) \/ Delete(r) \/ Upload(r)

Terminated ==
    /\ InFlight = {}
    /\ UNCHANGED vars

Next ==
    \/ \E r \in Requests : Arrive(r) \/ Step(r) \/ Err(r)
    \/ \E u \in Users : Renew(u)
    \/ \E w \in Spaces, u \in Users : Disable(w, u)
    \/ Terminated

Spec == Init /\ [][Next]_vars

-------------------------------------------------------------------------------
Done(r) == pc[r] # "idle" /\ pc'[r] = "idle" /\ outcome' = "done"
\* What an administrator or an owner has changed holds for the requests that arrive
\* after it, until it is taken back: a suspended user is refused although the access
\* tokens are still valid (authenticate reads the user anew); "suspended workspaces
\* remain readable but reject uploads. Disabled memberships are rejected
\* immediately", whatever is asked; and a deleted workspace is not seen again, even
\* if the platform sets its status, which SetWorkspaceStatus does to a deleted one,
\* too.  Only the loss of the platform's role waits: authorize reads it from the
\* token, so who has lost it administers on with a token issued before, and with
\* no other.
ChangesTakeEffect ==
    [][\A r \in Requests : Done(r) =>
          /\ barred[r] \subseteq {"role"}
          /\ "role" \in barred[r] => input[r].admin]_vars

\* "Platform mutations write sanitized audit events": whatever statement fails, a
\* change that shows has its event.
ChangesAreAudited ==
    /\ \A u \in Users :
          /\ users[u].status = "suspended" => <<u, "suspended">> \in audit
          /\ users[u].admin # (u \in Admins) =>
                <<u, IF users[u].admin THEN "admin" ELSE "user">> \in audit
    /\ \A w \in Spaces :
          /\ workspaces[w].status = "suspended" => <<w, "suspended">> \in audit
          /\ workspaces[w].status = "active" /\ workspaces[w].deleted =>
                <<w, "active">> \in audit

\* A workspace that shows has its owner: both rows are committed together.
OwnedFromTheStart ==
    \A w \in Spaces : workspaces[w].status \notin {"none", "pending"} =>
        \E u \in Users : members[w][u] = "owner"

\* However requests interleave and fail, a transaction of the platform or of the
\* workspaces shows wholly or not at all.
TransactionsAreWhole == TypeOK /\ ChangesAreAudited /\ OwnedFromTheStart

===============================================================================

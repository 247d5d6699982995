------------------------------ MODULE Invitations -----------------------------
(***************************************************************************)
(* invitations.Service and its store for one company workspace: inviting   *)
(* an address, revoking, looking at an invitation, accepting it as a user  *)
(* who is logged in or as one who registers by it, and the login and       *)
(* refresh that follow.  A request is one step per statement; what a       *)
(* transaction writes shows when it commits.                               *)
(***************************************************************************)
EXTENDS Naturals, FiniteSets

CONSTANTS
    Invites,           \* invitation ids; each stands for its token, too
    Guests,            \* the invited users, each with one address
    Registered,        \* those with an account at the start
    Requests,          \* goroutines of the API that serve requests
    Ops,               \* the requests that are made
    MaxRequests,       \* bound: requests in a behaviour
    MaxFaults,         \* bound: statements and mails that fail
    NoOne              \* no guest, no invitation

VARIABLES
    invites,     \* workspace_invitations
    members,     \* workspace_memberships of the guests; an owner stays besides them
    accounts,    \* users
    sessions,    \* refresh_tokens: the stored ones, by the login or invitation they come from
    held,        \* those that clients were given
    locks,       \* the rows that open transactions have locked
    pc, input,
    found,       \* the rows that a DELETE has found
    made,        \* the invitation a request has inserted
    outcome,     \* how the last request was answered
    mailed,      \* the invitations whose token was mailed
    admissions,  \* history: commits that accepted each invitation
    served, faults

store == <<invites, members, accounts, sessions, locks>>
local == <<input, found, made>>
ghosts == <<held, mailed, admissions, served, faults>>
vars == <<store, pc, local, outcome, ghosts>>

AllOps == {"invite", "revoke", "info", "accept", "register", "remove", "login", "refresh"}

ASSUME InvitationsAssumption ==
    /\ Registered \subseteq Guests /\ Ops \subseteq AllOps
    /\ NoOne \notin Guests \cup Invites
    /\ MaxRequests \in Nat /\ MaxFaults \in Nat
    /\ Cardinality(Invites) >= MaxRequests

Roles == {"owner", "admin", "supervisor", "manager"}

\* by is the inviter's role; knew the rows that its request deleted first.
Invitation == [state : {"none", "pending", "expired", "accepted", "deleted"},
               email : Guests \cup {NoOne}, role : Roles, by : Roles, knew : SUBSET Invites]

Sessions == [from : {"login", "invitation"}, user : Guests]

Rows == [table : {"invitation"}, key : Invites]
          \cup [table : {"user", "membership"}, key : Guests]

Entry == [invite |-> "check", revoke |-> "revoke", info |-> "info", accept |-> "lock",
          register |-> "lock", remove |-> "remove", login |-> "login", refresh |-> "refresh"]

Input == [op : Ops \cup {"none"}, by : Roles, user : Guests \cup {NoOne}, role : Roles,
          row : Invites \cup {NoOne}]

NoInput == [op |-> "none", by |-> "owner", user |-> NoOne, role |-> "manager", row |-> NoOne]

TypeOK ==
    /\ invites \in [Invites -> Invitation]
    /\ members \in [Guests -> Roles \cup {"none"}]
    /\ accounts \in [Guests -> {"none", "unverified", "active"}]
    /\ sessions \subseteq Sessions /\ held \subseteq Sessions
    /\ locks \in [Requests -> SUBSET Rows]
    /\ pc \in [Requests -> {Entry[op] : op \in AllOps} \cup
                {"idle", "scan", "delete", "insert", "mail", "account", "member", "commit"}]
    /\ input \in [Requests -> Input]
    /\ found \in [Requests -> SUBSET Invites]
    /\ made \in [Requests -> Invites \cup {NoOne}]
    /\ outcome \in {"none", "done", "refused", "error"}
    /\ mailed \subseteq Invites
    /\ admissions \in [Invites -> Nat]
    /\ served \in 0..MaxRequests /\ faults \in 0..MaxFaults

Init ==
    /\ invites = [i \in Invites |-> [state |-> "none", email |-> NoOne, role |-> "manager",
                                     by |-> "owner", knew |-> {}]]
    /\ members = [u \in Guests |-> "none"]
    /\ accounts = [u \in Guests |-> IF u \in Registered THEN "unverified" ELSE "none"]
    /\ sessions = {} /\ held = {}
    /\ locks = [r \in Requests |-> {}]
    /\ pc = [r \in Requests |-> "idle"]
    /\ input = [r \in Requests |-> NoInput]
    /\ found = [r \in Requests |-> {}]
    /\ made = [r \in Requests |-> NoOne]
    /\ outcome = "none"
    /\ mailed = {}
    /\ admissions = [i \in Invites |-> 0]
    /\ served = 0 /\ faults = 0

-------------------------------------------------------------------------------
CanManageMembers(by) == by \in {"owner", "admin"}
CanManageAdmins(by) == by = "owner"

MayInvite_Members(by, role) == CanManageMembers(by)
MayInvite(by, role) ==
    /\ CanManageMembers(by)
    /\ role \in {"owner", "admin"} => CanManageAdmins(by)

Unaccepted == {i \in Invites : invites[i].state \in {"pending", "expired"}}
UnacceptedFor(u) == {i \in Unaccepted : invites[i].email = u}

\* ListPendingByWorkspace.
Listed == {i \in Invites : invites[i].state = "pending"}

\* The checks of GetByTokenHash, AcceptForUser and RegisterAndAccept.
Usable(i) == i \in Listed

Invited(i) == [table |-> "invitation", key |-> i]
User(u) == [table |-> "user", key |-> u]
Member(u) == [table |-> "membership", key |-> u]

\* No other transaction has locked these rows.
Unlocked(r, rows) == \A q \in Requests \ {r} : locks[q] \cap rows = {}
Lock(r, row) == locks' = [locks EXCEPT ![r] = @ \cup {row}]

\* Who joins: the user who is logged in, or the one the invitation is for.
Joining(r) ==
    IF input[r].op = "accept" THEN input[r].user ELSE invites[input[r].row].email

At(r, point) == pc[r] = point
Goto(r, point) == pc' = [pc EXCEPT ![r] = point] /\ UNCHANGED outcome

\* The request is answered; its transaction, if it has one, is over.
Answer(r, result) ==
    /\ pc' = [pc EXCEPT ![r] = "idle"]
    /\ outcome' = result
    /\ locks' = [locks EXCEPT ![r] = {}]
    /\ input' = [input EXCEPT ![r] = NoInput]
    /\ found' = [found EXCEPT ![r] = {}]
    /\ made' = [made EXCEPT ![r] = NoOne]

Only(r, result) ==
    Answer(r, result) /\ UNCHANGED <<invites, members, accounts, sessions, ghosts>>

Asked(op) ==
    CASE op = "invite" -> [user : Guests, by : Roles, role : {"admin", "manager"}, row : {NoOne}]
      [] op = "revoke" -> [user : {NoOne}, by : {"owner"}, role : {"manager"}, row : Listed]
      [] op \in {"info", "register"} ->
            [user : {NoOne}, by : {"owner"}, role : {"manager"}, row : mailed]
      [] op = "accept" -> [user : {u \in Guests : accounts[u] # "none"}, by : {"owner"},
                           role : {"manager"}, row : mailed]
      [] op = "refresh" -> [user : {s.user : s \in held}, by : {"owner"}, role : {"manager"},
                            row : {NoOne}]
      [] OTHER -> [user : Guests, by : {"owner"}, role : {"manager"}, row : {NoOne}]

InFlight == {r \in Requests : ~At(r, "idle")}

\* Goroutines are interchangeable: one and the same serves while none is busy.
Arrive(r) ==
    /\ At(r, "idle")
    /\ InFlight = {} => r = CHOOSE q \in Requests : TRUE
    /\ served < MaxRequests
    /\ served' = served + 1
    /\ \E op \in Ops : \E a \in Asked(op) :
          /\ input' = [input EXCEPT ![r] = [op |-> op, by |-> a.by, user |-> a.user,
                                            role |-> a.role, row |-> a.row]]
          /\ Goto(r, Entry[op])
    /\ UNCHANGED <<store, found, made, held, mailed, admissions, faults>>

-------------------------------------------------------------------------------
\* Invite: the actor's rights, Create's check for a membership ...
InviteCheck(r) ==
    LET may == MayInvite(input[r].by, input[r].role) /\ members[input[r].user] = "none"
    IN /\ At(r, "check")
       /\ \/ ~may /\ Only(r, "refused")
          \/ may /\ Goto(r, "scan") /\ UNCHANGED <<store, local, ghosts>>

\* ... its DELETE, which finds rows, waits for those that others have locked and
\* deletes what is unaccepted still ...
ScanPending(r) ==
    /\ At(r, "scan")
    /\ found' = [found EXCEPT ![r] = UnacceptedFor(input[r].user)]
    /\ Goto(r, "delete")
    /\ UNCHANGED <<store, input, made, ghosts>>

Without_None(xs) == invites
Without(xs) == [i \in Invites |->
    IF i \in xs \cap Unaccepted THEN [invites[i] EXCEPT !.state = "deleted"] ELSE invites[i]]

DeletePending(r) ==
    /\ At(r, "delete")
    /\ Unlocked(r, {Invited(i) : i \in found[r]})
    /\ invites' = Without(found[r])
    /\ Goto(r, "insert")
    /\ UNCHANGED <<members, accounts, sessions, locks, local, ghosts>>

\* ... and whose error is dropped ...
LoseDelete(r) ==
    /\ pc[r] \in {"scan", "delete"}
    /\ faults < MaxFaults
    /\ faults' = faults + 1
    /\ Goto(r, "insert")
    /\ UNCHANGED <<store, local, held, mailed, admissions, served>>

\* ... the INSERT, and sendInviteEmail, whose error is dropped, too.
InsertInvite(r) ==
    LET i == CHOOSE x \in Invites : invites[x].state = "none"
    IN /\ At(r, "insert")
       /\ i \in Invites /\ invites[i].state = "none"    \* bound: an id is left
       /\ invites' = [invites EXCEPT ![i] =
             [state |-> "pending", email |-> input[r].user, role |-> input[r].role,
              by |-> input[r].by, knew |-> found[r]]]
       /\ made' = [made EXCEPT ![r] = i]
       /\ Goto(r, "mail")
       /\ UNCHANGED <<members, accounts, sessions, locks, input, found, ghosts>>

Mail(r) ==
    /\ At(r, "mail")
    /\ mailed' = mailed \cup {made[r]}
    /\ Answer(r, "done")
    /\ UNCHANGED <<invites, members, accounts, sessions, held, admissions, served, faults>>

LoseMail(r) ==
    /\ At(r, "mail")
    /\ faults < MaxFaults
    /\ faults' = faults + 1
    /\ Answer(r, "done")
    /\ UNCHANGED <<invites, members, accounts, sessions, held, mailed, admissions, served>>

-------------------------------------------------------------------------------
Revoke(r) ==
    /\ At(r, "revoke")
    /\ Unlocked(r, {Invited(input[r].row)})
    /\ \/ input[r].row \notin Unaccepted /\ Only(r, "refused")
       \/ /\ input[r].row \in Unaccepted
          /\ invites' = Without({input[r].row})
          /\ Answer(r, "done")
          /\ UNCHANGED <<members, accounts, sessions, ghosts>>

GetInfo(r) ==
    At(r, "info") /\ Only(r, IF Usable(input[r].row) THEN "done" ELSE "refused")

\* AcceptForUser and RegisterAndAccept: SELECT ... FOR UPDATE and the checks ...
LockInvite_Unlocked(r) ==
    /\ At(r, "lock")
    /\ \/ ~Usable(input[r].row) /\ Only(r, "refused")
       \/ /\ Usable(input[r].row)
          /\ Goto(r, IF input[r].op = "register" THEN "account" ELSE "member")
          /\ UNCHANGED <<store, local, ghosts>>

LockInvite(r) ==
    /\ At(r, "lock")
    /\ Unlocked(r, {Invited(input[r].row)})
    /\ \/ ~Usable(input[r].row) /\ Only(r, "refused")
       \/ /\ Usable(input[r].row)
          /\ Lock(r, Invited(input[r].row))
          /\ Goto(r, IF input[r].op = "register" THEN "account" ELSE "member")
          /\ UNCHANGED <<invites, members, accounts, sessions, local, ghosts>>

\* ... the user's row, if the guest registers, and the membership ...
UpsertUser(r) ==
    /\ At(r, "account")
    /\ Unlocked(r, {User(Joining(r))})
    /\ Lock(r, User(Joining(r)))
    /\ Goto(r, "member")
    /\ UNCHANGED <<invites, members, accounts, sessions, local, ghosts>>

UpsertMember(r) ==
    /\ At(r, "member")
    /\ Unlocked(r, {Member(Joining(r))})
    /\ Lock(r, Member(Joining(r)))
    /\ Goto(r, "commit")
    /\ UNCHANGED <<invites, members, accounts, sessions, local, ghosts>>

\* ... and accepted_at and the commit, which shows it all.  A guest who registered
\* is given a refresh token that is issued and not stored.
CommitAcceptance(r) ==
    LET i == input[r].row
    IN /\ At(r, "commit")
       /\ invites' = [invites EXCEPT ![i].state = "accepted"]
       /\ members' = [members EXCEPT ![Joining(r)] = invites[i].role]
       /\ admissions' = [admissions EXCEPT ![i] = @ + 1]
       /\ \/ /\ input[r].op = "register"
             /\ accounts' = [accounts EXCEPT ![Joining(r)] = "active"]
             /\ held' = held \cup {[from |-> "invitation", user |-> Joining(r)]}
          \/ input[r].op = "accept" /\ UNCHANGED <<accounts, held>>
       /\ Answer(r, "done")
       /\ UNCHANGED <<sessions, mailed, served, faults>>

\* The owner removes a member (memberships.Service.Delete).
Remove(r) ==
    /\ At(r, "remove")
    /\ Unlocked(r, {Member(input[r].user)})
    /\ members' = [members EXCEPT ![input[r].user] = "none"]
    /\ Answer(r, IF members[input[r].user] = "none" THEN "refused" ELSE "done")
    /\ UNCHANGED <<invites, accounts, sessions, ghosts>>

\* auth.Service.Login and the session lookup of Refresh.
Login(r) ==
    LET s == [from |-> "login", user |-> input[r].user]
    IN /\ At(r, "login")
       /\ \/ accounts[input[r].user] # "active" /\ Only(r, "refused")
          \/ /\ accounts[input[r].user] = "active"
             /\ sessions' = sessions \cup {s} /\ held' = held \cup {s}
             /\ Answer(r, "done")
             /\ UNCHANGED <<invites, members, accounts, mailed, admissions, served, faults>>

Refresh(r) ==
    /\ At(r, "refresh")
    /\ \E s \in held : s.user = input[r].user /\ Only(r, IF s \in sessions THEN "done" ELSE "refused")

\* A statement fails and the open transaction is rolled back.
Err(r) ==
    /\ pc[r] \notin {"idle", "scan", "delete", "mail"}
    /\ faults < MaxFaults
    /\ faults' = faults + 1
    /\ Answer(r, "error")
    /\ UNCHANGED <<invites, members, accounts, sessions, held, mailed, admissions, served>>

\* expires_at passes; a transaction that has checked it does not look again.
Expire(i) ==
    /\ i \in Listed
    /\ \A r \in Requests : Invited(i) \notin locks[r]
    /\ invites' = [invites EXCEPT ![i].state = "expired"]
    /\ UNCHANGED <<members, accounts, sessions, locks, pc, local, outcome, ghosts>>

Step(r) ==
    \/ InviteCheck(r) \/ ScanPending(r) \/ DeletePending(r) \/ InsertInvite(r) \/ Mail(r)
    \/ Revoke(r) \/ GetInfo(r)
    \/ LockInvite(r) \/ UpsertUser(r) \/ UpsertMember(r) \/ CommitAcceptance(r)
    \/ Remove(r) \/ Login(r) \/ Refresh(r)

Terminated ==
    /\ InFlight = {}
    /\ UNCHANGED vars

Next ==
    \/ \E r \in Requests : Arrive(r) \/ Step(r) \/ LoseDelete(r) \/ LoseMail(r) \/ Err(r)
    \/ \E i \in Invites : Expire(i)
    \/ Terminated

Spec == Init /\ [][Next]_vars /\ \A r \in Requests : WF_vars(Step(r))

-------------------------------------------------------------------------------
\* However accepting, registering, revoking and inviting again interleave, an
\* invitation admits once, and not after it was revoked, replaced or expired.
Ticket == [i \in Invites |->
    CASE invites[i].state = "none" -> "unissued"
      [] invites[i].state = "accepted" -> "spent"
      [] invites[i].state \in {"deleted", "expired"} -> "void"
      [] OTHER -> "open"]

Tickets == INSTANCE Admissions WITH ticket <- Ticket
ImplementsAdmissions == Tickets!Spec

\* Nobody is a member by an invitation that its sender may not have sent: admins
\* were invited by an owner (Invite's checks, kept in the row until it is used).
AdmittedByRank ==
    \A u \in Guests : members[u] \in {"owner", "admin"} =>
        \E i \in Invites : /\ invites[i].state = "accepted" /\ invites[i].role = members[u]
                           /\ invites[i].by = "owner"

\* Two invitations of an address wait for an answer only if the requests that
\* sent them overlapped, or a delete failed: a later one replaces what it finds.
PendingOverlap ==
    faults = 0 => \A i, j \in Unaccepted : invites[i].email = invites[j].email =>
                      i \notin invites[j].knew

\* What the rows of invitations and members keep, however requests interleave.
RowsHold == TypeOK /\ AdmittedByRank /\ PendingOverlap

\* A registration by invitation "issues tokens": the refresh token it hands out
\* can be refreshed.
IssuedIsStored ==
    [][\A r \in Requests : pc[r] = "refresh" /\ pc'[r] = "idle" => outcome' # "refused"]_vars

===============================================================================

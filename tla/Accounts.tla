------------------------------- MODULE Accounts -------------------------------
(***************************************************************************)
(* auth.Service and its store for one e-mail address: registration,        *)
(* confirmation, login, refresh, logout, password reset, the bootstrap of  *)
(* the first administrator and the platform's changes of a user.  A        *)
(* request is one step per statement; between them other requests run.     *)
(***************************************************************************)
EXTENDS AccountStore

CONSTANTS
    Ops,            \* the requests that clients make
    MaxRequests,    \* bound: requests in a behaviour
    MaxFaults       \* bound: statements and mails that fail

VARIABLES
    pc,         \* the next statement of each request
    input,      \* what the request asks for
    seen,       \* the user row as the request has read it
    found,      \* the rows its statement has found
    made,       \* the row it inserts
    outcome,    \* how the last request was answered
    held,       \* the refresh tokens that clients hold
    mailed,     \* the action tokens that were mailed
    ended,      \* history: the password that the last reset chose, of those that ran alone
    served, faults,
    solo        \* history: the request that no other has overlapped, if there is one

local == <<input, seen, found, made>>
ghosts == <<held, mailed, ended, served, faults, solo>>
vars == <<store, pc, local, outcome, ghosts>>

AllOps == {"login", "register", "resend", "forgot", "confirm", "reset", "refresh", "logout",
           "bootstrap", "suspend", "restore", "promote", "demote"}

ASSUME AccountsAssumption ==
    /\ InitialAccounts \subseteq Account /\ InitialSessions \subseteq Sessions
    /\ \A a \in InitialAccounts : a.password = 0
    /\ IsFiniteSet(Requests) /\ IsFiniteSet(Tokens)
    /\ NoRow \notin Sessions \cup Tokens /\ Sessions \cap Tokens = {}
    /\ Ops \subseteq AllOps
    /\ MaxRequests \in Nat /\ MaxFaults \in Nat
    \* A request inserts at most one session and one token.
    /\ Cardinality(Sessions) >= MaxRequests + Cardinality(InitialSessions)
    /\ Cardinality(Tokens) >= MaxRequests

\* The first statement of each request.
Entry == [login |-> "credentials", register |-> "create", resend |-> "lookup",
          forgot |-> "lookup", confirm |-> "consume", reset |-> "consume",
          refresh |-> "session", logout |-> "logout", bootstrap |-> "admin",
          suspend |-> "administer", restore |-> "administer",
          promote |-> "administer", demote |-> "administer"]

Points == {Entry[op] : op \in AllOps} \cup
          {"idle", "store", "existing", "scan", "replace", "publish", "mail", "verify",
           "password", "sessions", "revoke", "user", "rotate", "commit", "grant", "insert"}

NoInput == [op |-> "none", password |-> 0, row |-> NoRow]

TypeOK ==
    /\ StoreTypeOK
    /\ pc \in [Requests -> Points]
    /\ input \in [Requests -> [op : AllOps \cup {"none"}, password : Nat,
                               row : Sessions \cup Tokens \cup {NoRow}]]
    /\ seen \in [Requests -> Account]
    /\ found \in [Requests -> SUBSET (Sessions \cup Tokens)]
    /\ made \in [Requests -> Sessions \cup Tokens \cup {NoRow}]
    /\ outcome \in {"none", "done", "refused", "error"}
    /\ solo \subseteq Requests
    /\ held \subseteq Sessions /\ mailed \subseteq Tokens
    /\ ended \in Nat /\ served \in 0..MaxRequests /\ faults \in 0..MaxFaults

Init ==
    /\ StoreInit
    /\ pc = [r \in Requests |-> "idle"]
    /\ input = [r \in Requests |-> NoInput]
    /\ seen = [r \in Requests |-> NoAccount]
    /\ found = [r \in Requests |-> {}]
    /\ made = [r \in Requests |-> NoRow]
    /\ outcome = "none"
    /\ held = {s \in Sessions : sessions[s].state = "active"}
    /\ mailed = {} /\ ended = 0 /\ served = 0 /\ faults = 0 /\ solo = {}

-------------------------------------------------------------------------------
At(r, point) == pc[r] = point
Goto(r, point) == pc' = [pc EXCEPT ![r] = point] /\ UNCHANGED outcome

\* The request is answered; its transaction, if it has one, is over.
Answer(r, result) ==
    /\ pc' = [pc EXCEPT ![r] = "idle"]
    /\ outcome' = result
    /\ holds' = [holds EXCEPT ![r] = {}]
    /\ input' = [input EXCEPT ![r] = NoInput]
    /\ seen' = [seen EXCEPT ![r] = NoAccount]
    /\ found' = [found EXCEPT ![r] = {}]
    /\ made' = [made EXCEPT ![r] = NoRow]

Refuse(r) == Answer(r, "refused") /\ UNCHANGED <<account, sessions, tokens, ghosts>>

\* What a client can ask for: a password there has been, a token it was given.
Inputs(op) ==
    [op : {op},
     password : IF op = "login" THEN 0..account.password ELSE {0},
     row : CASE op \in {"confirm", "reset"} -> mailed
             [] op \in {"refresh", "logout"} -> held
             [] OTHER -> {NoRow}]

InFlight == {r \in Requests : ~At(r, "idle")}

\* Goroutines are interchangeable: one and the same serves while none is busy.
Arrive(r) ==
    /\ At(r, "idle")
    /\ InFlight = {} => r = CHOOSE q \in Requests : TRUE
    /\ served < MaxRequests
    /\ served' = served + 1
    /\ \E op \in Ops : \E i \in Inputs(op) :
          /\ input' = [input EXCEPT ![r] = i]
          /\ pc' = [pc EXCEPT ![r] = Entry[op]]
    /\ outcome' = "none"
    /\ solo' = IF InFlight = {} THEN {r} ELSE {}
    /\ UNCHANGED <<store, seen, found, made, held, mailed, ended, faults>>

-------------------------------------------------------------------------------
\* Login.
LoginFind(r) ==
    LET admitted == /\ account.exists /\ input[r].password = account.password
                    /\ account.verified /\ account.status # "suspended"
    IN /\ At(r, "credentials")
       /\ \/ ~admitted /\ Refuse(r)
          \/ /\ admitted
             /\ seen' = [seen EXCEPT ![r] = account]
             /\ Goto(r, "store")
             /\ UNCHANGED <<store, input, found, made, ghosts>>

LoginStore(r) ==
    /\ At(r, "store") /\ HasFresh(sessions)
    /\ InsertSession(Fresh(sessions), seen[r].password)
    /\ held' = held \cup {Fresh(sessions)}
    /\ Answer(r, "done")
    /\ UNCHANGED <<account, tokens, mailed, ended, served, faults, solo>>

\* Register: the user, its workspace and its membership in one transaction.
RegisterCreate(r) ==
    /\ At(r, "create")
    /\ \/ /\ ~account.exists
          /\ account' = NewAccount(FALSE, "user")
          /\ Goto(r, "scan")
       \/ /\ account.exists
          /\ Goto(r, "existing")
          /\ UNCHANGED account
    /\ UNCHANGED <<sessions, tokens, holds, local, ghosts>>

RegisterExisting(r) ==
    /\ At(r, "existing")
    /\ \/ account.verified /\ Refuse(r)
       \/ ~account.verified /\ Goto(r, "scan") /\ UNCHANGED <<store, local, ghosts>>

\* ResendVerification, RequestPasswordReset.
Lookup(r) ==
    LET mails == account.exists /\ (input[r].op = "forgot" \/ ~account.verified)
    IN /\ At(r, "lookup")
       /\ \/ mails /\ Goto(r, "scan") /\ UNCHANGED <<store, local, ghosts>>
          \/ ~mails /\ Answer(r, "done") /\ UNCHANGED <<account, sessions, tokens, ghosts>>

-------------------------------------------------------------------------------
\* sendActionEmail: CreateActionToken, whose DELETE finds the open tokens, waits
\* for those that others have changed and deletes what is open still, and Send.
Purpose_Raw(r) == input[r].op
Purpose(r) ==
    IF input[r].op \in {"forgot", "reset"} THEN "password_reset" ELSE "email_verification"

ScanTokens(r) ==
    /\ At(r, "scan")
    /\ found' = [found EXCEPT ![r] = Open(Purpose(r))]
    /\ Goto(r, "replace")
    /\ UNCHANGED <<store, input, seen, made, ghosts>>

ReplaceTokens(r) ==
    /\ At(r, "replace") /\ HasFresh(tokens)
    /\ Unlocked(r, found[r])
    /\ holds' = [holds EXCEPT ![r] = Still(found[r], Purpose(r))]
    /\ InsertToken(Fresh(tokens), Purpose(r), found[r])
    /\ made' = [made EXCEPT ![r] = Fresh(tokens)]
    /\ Goto(r, "publish")
    /\ UNCHANGED <<account, sessions, input, seen, found, ghosts>>

PublishToken(r) ==
    /\ At(r, "publish")
    /\ CommitToken(made[r], holds[r])
    /\ holds' = [holds EXCEPT ![r] = {}]
    /\ Goto(r, "mail")
    /\ UNCHANGED <<account, sessions, local, ghosts>>

Mail(r) ==
    /\ At(r, "mail")
    /\ mailed' = mailed \cup {made[r]}
    /\ Answer(r, "done")
    /\ UNCHANGED <<account, sessions, tokens, held, ended, served, faults, solo>>

\* ConfirmEmail and ResetPassword: the token, then what it is for.
ConsumeToken(r) ==
    /\ At(r, "consume")
    /\ Unlocked(r, {input[r].row})
    /\ \/ ~ConsumeCan(input[r].row, Purpose(r)) /\ Refuse(r)
       \/ /\ ConsumeCan(input[r].row, Purpose(r))
          /\ Consume(input[r].row)
          /\ Goto(r, IF input[r].op = "reset" THEN "password" ELSE "verify")
          /\ UNCHANGED <<account, sessions, holds, local, ghosts>>

MarkEmailVerified(r) ==
    /\ At(r, "verify")
    /\ account' = [account EXCEPT !.verified = TRUE]
    /\ Answer(r, "done")
    /\ UNCHANGED <<sessions, tokens, ghosts>>

UpdatePassword(r) ==
    /\ At(r, "password")
    /\ account' = [account EXCEPT !.password = @ + 1]
    /\ seen' = [seen EXCEPT ![r] = account']
    /\ Goto(r, "sessions")
    /\ UNCHANGED <<sessions, tokens, holds, input, found, made, ghosts>>

\* RevokeAllForUser finds the active sessions, waits for those that others have
\* changed and revokes what is active still.
ScanSessions_None(r) ==
    /\ At(r, "sessions")
    /\ Goto(r, "revoke")
    /\ UNCHANGED <<store, local, ghosts>>

ScanSessions(r) ==
    /\ At(r, "sessions")
    /\ found' = [found EXCEPT ![r] = Active]
    /\ Goto(r, "revoke")
    /\ UNCHANGED <<store, input, seen, made, ghosts>>

Later(a, b) == IF a > b THEN a ELSE b

RevokeSessions(r) ==
    /\ At(r, "revoke")
    /\ Unlocked(r, found[r])
    /\ Revoke(found[r])
    /\ ended' = IF r \in solo THEN Later(ended, seen[r].password) ELSE ended
    /\ Answer(r, "done")
    /\ UNCHANGED <<account, tokens, held, mailed, served, faults, solo>>

-------------------------------------------------------------------------------
\* Refresh.
RefreshFind(r) ==
    /\ At(r, "session")
    /\ \/ input[r].row \notin Active /\ Refuse(r)
       \/ input[r].row \in Active /\ Goto(r, "user") /\ UNCHANGED <<store, local, ghosts>>

RefreshUser(r) ==
    /\ At(r, "user")
    /\ \/ account.status = "suspended" /\ Refuse(r)
       \/ account.status # "suspended" /\ Goto(r, "rotate") /\ UNCHANGED <<store, local, ghosts>>

\* Rotate waits for the session, checks that it is active still and holds it.
Rotate(r) ==
    /\ At(r, "rotate")
    /\ Unlocked(r, {input[r].row})
    /\ \/ ~RotateCan(input[r].row) /\ Refuse(r)
       \/ /\ RotateCan(input[r].row) /\ HasFresh(sessions)
          /\ holds' = [holds EXCEPT ![r] = {input[r].row}]
          /\ InsertReplacement(Fresh(sessions), input[r].row)
          /\ made' = [made EXCEPT ![r] = Fresh(sessions)]
          /\ Goto(r, "commit")
          /\ UNCHANGED <<account, tokens, input, seen, found, ghosts>>

Commit(r) ==
    /\ At(r, "commit")
    /\ CommitRotation(made[r], input[r].row)
    /\ held' = held \cup {made[r]}
    /\ Answer(r, "done")
    /\ UNCHANGED <<account, tokens, mailed, ended, served, faults, solo>>

Logout(r) ==
    /\ At(r, "logout")
    /\ Unlocked(r, {input[r].row})
    /\ \/ input[r].row \notin Active /\ Refuse(r)
       \/ /\ input[r].row \in Active
          /\ Revoke({input[r].row})
          /\ Answer(r, "done")
          /\ UNCHANGED <<account, tokens, ghosts>>

-------------------------------------------------------------------------------
\* BootstrapAdmin.
BootstrapFind_KeepRole(r) ==
    /\ At(r, "admin")
    /\ \/ /\ account.exists
          /\ Answer(r, "done") /\ UNCHANGED <<account, sessions, tokens, ghosts>>
       \/ ~account.exists /\ Goto(r, "insert") /\ UNCHANGED <<store, local, ghosts>>

BootstrapFind(r) ==
    /\ At(r, "admin")
    /\ \/ /\ account.exists /\ account.platform = "super_admin"
          /\ Answer(r, "done") /\ UNCHANGED <<account, sessions, tokens, ghosts>>
       \/ /\ account.exists /\ account.platform # "super_admin"
          /\ Goto(r, "grant") /\ UNCHANGED <<store, local, ghosts>>
       \/ ~account.exists /\ Goto(r, "insert") /\ UNCHANGED <<store, local, ghosts>>

SetPlatformRole(r) ==
    /\ At(r, "grant")
    /\ account' = [account EXCEPT !.platform = "super_admin"]
    /\ Answer(r, "done")
    /\ UNCHANGED <<sessions, tokens, ghosts>>

\* An address that is registered meanwhile is left as it is.
BootstrapCreate(r) ==
    /\ At(r, "insert")
    /\ account' = IF account.exists THEN account ELSE NewAccount(TRUE, "super_admin")
    /\ Answer(r, "done")
    /\ UNCHANGED <<sessions, tokens, ghosts>>

\* SetUserStatus and SetUserPlatformRole, by an administrator of the platform.
Administer(r) ==
    /\ At(r, "administer")
    /\ account' = IF ~account.exists THEN account
                  ELSE CASE input[r].op = "suspend" -> [account EXCEPT !.status = "suspended"]
                         [] input[r].op = "restore" -> [account EXCEPT !.status = "active"]
                         [] input[r].op = "promote" -> [account EXCEPT !.platform = "super_admin"]
                         [] input[r].op = "demote" -> [account EXCEPT !.platform = "user"]
    /\ Answer(r, "done")
    /\ UNCHANGED <<sessions, tokens, ghosts>>

-------------------------------------------------------------------------------
\* A statement or a mail fails and the open transaction is rolled back.
Err(r) ==
    /\ ~At(r, "idle")
    /\ faults < MaxFaults
    /\ faults' = faults + 1
    /\ sessions' = WithoutPending(sessions, made[r], UnusedSession)
    /\ tokens' = WithoutPending(tokens, made[r], UnusedToken)
    /\ Answer(r, "error")
    /\ UNCHANGED <<account, held, mailed, ended, served, solo>>

Expire ==
    /\ \/ \E s \in Sessions : ExpireSession(s) /\ UNCHANGED tokens
       \/ \E t \in Tokens : ExpireToken(t) /\ UNCHANGED sessions
    /\ UNCHANGED <<account, holds, pc, local, outcome, ghosts>>

Step(r) ==
    \/ LoginFind(r) \/ LoginStore(r) \/ RegisterCreate(r) \/ RegisterExisting(r) \/ Lookup(r)
    \/ ScanTokens(r) \/ ReplaceTokens(r) \/ PublishToken(r) \/ Mail(r)
    \/ ConsumeToken(r) \/ MarkEmailVerified(r) \/ UpdatePassword(r)
    \/ ScanSessions(r) \/ RevokeSessions(r)
    \/ RefreshFind(r) \/ RefreshUser(r) \/ Rotate(r) \/ Commit(r) \/ Logout(r)
    \/ BootstrapFind(r) \/ SetPlatformRole(r) \/ BootstrapCreate(r) \/ Administer(r)

Terminated ==
    /\ InFlight = {}
    /\ UNCHANGED vars

Next ==
    \/ \E r \in Requests : Arrive(r) \/ Step(r) \/ Err(r)
    \/ Expire
    \/ Terminated

Spec == Init /\ [][Next]_vars

-------------------------------------------------------------------------------
\* A login has one session that can be refreshed ("atomically replaces").
OneActivePerLogin ==
    \A s, t \in Active : sessions[s].chain = sessions[t].chain => s = t

\* Every change of the password has spent a reset link of its own, although the
\* link and the password are written by two transactions.
ResetsSpendTokens ==
    account.password <= Cardinality({t \in Tokens :
        tokens[t].state = "used" /\ tokens[t].purpose = "password_reset"})

\* Two links of one purpose are open only if the requests that sent them
\* overlapped: a link stops working when a later request replaces it.
OpenLinksOverlap ==
    \A purpose \in Purposes : \A t, u \in Open(purpose) : t \notin tokens[u].knew

\* However logins, refreshes, logouts, resets and confirmations interleave and
\* fail, the rows stay as they were promised: what the row locks of Rotate,
\* ConsumeActionToken and CreateActionToken are for.
RowsHold == TypeOK /\ OneActivePerLogin /\ ResetsSpendTokens /\ OpenLinksOverlap

\* ResetPassword "changes the password, and revokes active sessions": after a
\* reset that no other request overlapped, no session lives that an older
\* password opened.
ResetEndsSessions == \A s \in Active : sessions[s].password >= ended

\* BootstrapAdmin leaves an administrator, whatever it finds, unless another
\* request overlaps it.
BootstrapMakesAdmin ==
    [][\A r \in Requests :
          /\ input[r].op = "bootstrap" /\ r \in solo
          /\ pc'[r] = "idle" /\ outcome' = "done"
          => account'.platform = "super_admin"]_vars

\* The sessions of the logins, seen as SessionChains: however refreshes of one
\* token race, a chain is continued once, and an ended one never.
Current == [c \in Sessions |->
    IF \E s \in Active : sessions[s].chain = c
    THEN CHOOSE s \in Active : sessions[s].chain = c ELSE NoRow]
Opened == {sessions[s].chain : s \in Sessions} \ {NoRow}

Chains == INSTANCE SessionChains WITH current <- Current, opened <- Opened
ImplementsChains == Chains!Spec

===============================================================================

---------------------------- MODULE AccountStore -----------------------------
(***************************************************************************)
(* The rows of one account in PostgreSQL: the user, its refresh sessions   *)
(* and its action tokens.  A row that a transaction has inserted is        *)
(* "pending", and one that it has changed is in holds, until it commits.   *)
(* Passwords are versions: every reset chooses a new one.                  *)
(***************************************************************************)
EXTENDS Naturals, FiniteSets

CONSTANTS
    Sessions,          \* ids of refresh sessions
    Tokens,            \* ids of action tokens
    NoRow,             \* no session, no token
    Requests,          \* goroutines of the API that serve requests
    InitialAccounts,   \* the user rows there may be at the start,
    InitialSessions    \* and the sessions of one that exists

VARIABLES
    account,     \* the user row
    sessions,    \* refresh_tokens
    tokens,      \* auth_action_tokens
    holds        \* the rows that each request's transaction has changed

store == <<account, sessions, tokens, holds>>

Account == [exists : BOOLEAN, password : Nat, verified : BOOLEAN,
            status : {"active", "suspended"}, platform : {"user", "super_admin"}]

Purposes == {"email_verification", "password_reset"}

\* chain is the session of the login that a session descends from; password is
\* the version that login presented.
Session == [state : {"none", "pending", "active", "revoked", "expired"},
            chain : Sessions \cup {NoRow}, password : Nat]

\* knew holds the tokens that the statement replacing them has seen.
Token == [state : {"none", "pending", "open", "used", "deleted", "expired"},
          purpose : Purposes, knew : SUBSET Tokens]

StoreTypeOK ==
    /\ account \in Account
    /\ sessions \in [Sessions -> Session]
    /\ tokens \in [Tokens -> Token]
    /\ holds \in [Requests -> SUBSET (Sessions \cup Tokens)]

UnusedSession == [state |-> "none", chain |-> NoRow, password |-> 0]
UnusedToken == [state |-> "none", purpose |-> "password_reset", knew |-> {}]

StoreInit ==
    /\ account \in InitialAccounts
    /\ sessions = [s \in Sessions |->
          IF account.exists /\ s \in InitialSessions
          THEN [state |-> "active", chain |-> s, password |-> 0] ELSE UnusedSession]
    /\ tokens = [t \in Tokens |-> UnusedToken]
    /\ holds = [r \in Requests |-> {}]

NoAccount == [exists |-> FALSE, password |-> 0, verified |-> FALSE, status |-> "active",
              platform |-> "user"]

\* A new user row.
NewAccount(verified, platform) ==
    [exists |-> TRUE, password |-> 0, verified |-> verified, status |-> "active",
     platform |-> platform]

Fresh(table) == CHOOSE x \in DOMAIN table : table[x].state = "none"

\* Bound: an id is left.
HasFresh(table) == \E x \in DOMAIN table : table[x].state = "none"

Active == {s \in Sessions : sessions[s].state = "active"}
Open(purpose) == {t \in Tokens : tokens[t].state = "open" /\ tokens[t].purpose = purpose}

\* No other transaction has changed these rows.
Unlocked(r, xs) == \A q \in Requests \ {r} : holds[q] \cap xs = {}

\* The rows of xs that still have the state for which a statement found them.
StillActive(xs) == xs \cap Active
Still(xs, purpose) == xs \cap Open(purpose)

Set(table, xs, state) == [x \in DOMAIN table |->
    IF x \in xs THEN [table[x] EXCEPT !.state = state] ELSE table[x]]

\* A rolled back transaction takes back the row it inserted.
WithoutPending(table, x, unused) ==
    IF x \in DOMAIN table /\ table[x].state = "pending"
    THEN [table EXCEPT ![x] = unused] ELSE table

-------------------------------------------------------------------------------
\* Store.
InsertSession(s, password) ==
    sessions' = [sessions EXCEPT ![s] =
        [state |-> "active", chain |-> s, password |-> password]]

\* Rotate up to its commit; the old session is still active, then.
RotateCan_Unchecked(old) == TRUE
RotateCan(old) == old \in Active

InsertReplacement(s, old) ==
    sessions' = [sessions EXCEPT ![s] = [sessions[old] EXCEPT !.state = "pending"]]

CommitRotation_KeepOld(s, old) == sessions' = Set(sessions, {s}, "active")
CommitRotation(s, old) ==
    sessions' = Set(Set(sessions, {old}, "revoked"), {s}, "active")

\* Revoke, RevokeAllForUser.
Revoke(xs) == sessions' = Set(sessions, StillActive(xs), "revoked")

\* CreateActionToken: its INSERT, and its commit, which deletes the others.
InsertToken(t, purpose, knew) ==
    tokens' = [tokens EXCEPT ![t] = [state |-> "pending", purpose |-> purpose, knew |-> knew]]

CommitToken_KeepOthers(t, deleted) == tokens' = Set(tokens, {t}, "open")
CommitToken(t, deleted) ==
    tokens' = Set(Set(tokens, deleted, "deleted"), {t}, "open")

\* ConsumeActionToken.
ConsumeCan_Unchecked(t, purpose) == tokens[t].purpose = purpose
ConsumeCan(t, purpose) == t \in Open(purpose)
Consume(t) == tokens' = Set(tokens, {t}, "used")

\* expires_at passes.  A transaction that has found its row valid does not look
\* again: that row expires, if it still can, after the transaction.
ExpireSession(s) ==
    /\ s \in Active /\ \A r \in DOMAIN holds : s \notin holds[r]
    /\ sessions' = Set(sessions, {s}, "expired")
ExpireToken(t) == tokens[t].state = "open" /\ tokens' = Set(tokens, {t}, "expired")

===============================================================================

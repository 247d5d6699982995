---------------------------- MODULE AccountsProofs -----------------------------
(***************************************************************************)
(* Theorems about Accounts for any sessions, tokens and requests.          *)
(***************************************************************************)
EXTENDS Accounts, FiniteSetTheorems, TLAPS

-------------------------------------------------------------------------------
(* The inductive invariant. *)

\* A link that will not open again; one that was published.
Closed(t) == tokens[t].state \in {"used", "deleted", "expired"}
Published(t) == tokens[t].state \notin {"none", "pending"}

\* What a request is about: rows of the right table, and an account that is there.
InputInv(r) ==
    /\ pc[r] = "idle" => input[r].op = "none"
    /\ input[r].op = "bootstrap" => pc[r] \in {"admin", "grant", "insert"}
    /\ pc[r] = "consume" => input[r].op \in {"confirm", "reset"}
    /\ pc[r] \in {"consume", "verify", "password"} => input[r].row \in Tokens
    /\ pc[r] = "consume" => Published(input[r].row)
    /\ pc[r] = "administer" => input[r].op \in {"suspend", "restore", "promote", "demote"}
    /\ pc[r] \in {"session", "user", "rotate", "logout", "commit"} => input[r].row \in Sessions
    /\ pc[r] \in {"existing", "scan", "replace", "publish", "password"} => account.exists

\* The rows that a request's transaction holds and the one it has inserted: a
\* rotation holds a session that is active and has inserted its copy; a
\* replacement of links has inserted one which knows only closed links and those
\* that the commit will delete.
RowInv(r) ==
    /\ pc[r] \notin {"publish", "commit"} => holds[r] = {}
    /\ pc[r] \notin {"publish", "commit", "mail"} => made[r] = NoRow
    /\ pc[r] = "commit" =>
          /\ input[r].row \in Active /\ holds[r] = {input[r].row}
          /\ made[r] \in Sessions /\ sessions[made[r]].state = "pending"
          /\ sessions[made[r]].chain = sessions[input[r].row].chain
          /\ sessions[made[r]].password = sessions[input[r].row].password
    /\ pc[r] = "replace" =>
          /\ found[r] \subseteq Tokens
          /\ \A t \in found[r] : Published(t) /\ tokens[t].purpose = Purpose(r)
    /\ pc[r] = "publish" =>
          /\ made[r] \in Tokens /\ tokens[made[r]].state = "pending" /\ holds[r] \subseteq Tokens
          /\ \A t \in holds[r] : tokens[t].state \in {"open", "expired"}
          /\ \A t \in tokens[made[r]].knew : t \in holds[r] \/ Closed(t)
    /\ pc[r] = "mail" => made[r] \in Tokens /\ Published(made[r])

\* What a request remembers of the password, and what it may rely on while no
\* other request has overlapped it.
PasswordInv(r) ==
    /\ pc[r] = "store" => seen[r].password >= ended
    /\ pc[r] \in {"sessions", "revoke"} => seen[r].password <= account.password
    /\ pc[r] = "revoke" => found[r] \subseteq Sessions
    /\ r \in solo =>
          /\ pc[r] = "revoke" => Active \subseteq found[r]
          /\ pc[r] = "insert" => ~account.exists
          /\ \A q \in Requests \ {r} : pc[q] = "idle"

RequestInv(r) == InputInv(r) /\ RowInv(r) /\ PasswordInv(r)

\* Transactions share no row.
ApartInv ==
    \A r, q \in Requests : r # q =>
        /\ holds[r] \cap holds[q] = {}
        /\ {pc[r], pc[q]} \subseteq {"publish", "commit"} => made[r] # made[q]

\* Every session descends from one that a login inserted; one active session of
\* each chain; none was opened with a password older than the last reset.
SessionInv(s) ==
    LET c == sessions[s].chain
    IN IF sessions[s].state = "none" THEN c = NoRow
       ELSE /\ c \in Sessions /\ sessions[c].state \notin {"none", "pending"}
            /\ sessions[c].chain = c

SessionsInv ==
    /\ \A s \in Sessions : SessionInv(s)
    /\ OneActivePerLogin /\ ResetEndsSessions

\* A published link knows closed ones only.
TokenInv(t) ==
    /\ \A u \in tokens[t].knew : Published(u)
    /\ Published(t) => \A u \in tokens[t].knew : Closed(u)
    /\ tokens[t].state # "none" => account.exists

TokensInv ==
    /\ \A t \in Tokens : TokenInv(t)
    /\ \A t \in mailed : Published(t)

AccountInv ==
    /\ ended <= account.password
    /\ ~account.exists => account.password = 0

\* The links that were spent for a password, and the requests that will change it.
Spent == {t \in Tokens : tokens[t].state = "used" /\ tokens[t].purpose = "password_reset"}
Changing == {r \in Requests : pc[r] = "password"}

SpentInv == account.password + Cardinality(Changing) <= Cardinality(Spent)

Inv ==
    /\ TypeOK
    /\ \A r \in Requests : RequestInv(r)
    /\ ApartInv /\ SessionsInv /\ TokensInv /\ AccountInv /\ SpentInv

-------------------------------------------------------------------------------
(* Rows and sets of rows. *)

SessionStates == {"none", "pending", "active", "revoked", "expired"}
TokenStates == {"none", "pending", "open", "used", "deleted", "expired"}

\* A statement that changes the state of some rows leaves the rest of them.
LEMMA SetSessions ==
    ASSUME NEW table \in [Sessions -> Session], NEW xs, NEW state \in SessionStates
    PROVE  /\ Set(table, xs, state) \in [Sessions -> Session]
           /\ \A s \in Sessions :
                 /\ Set(table, xs, state)[s].state = IF s \in xs THEN state ELSE table[s].state
                 /\ Set(table, xs, state)[s].chain = table[s].chain
                 /\ Set(table, xs, state)[s].password = table[s].password
                 /\ s \notin xs => Set(table, xs, state)[s] = table[s]
BY DEF Set, Session, SessionStates

\* What a statement on a set of action tokens leaves of the others.
LEMMA SetTokens ==
    ASSUME NEW table \in [Tokens -> Token], NEW xs, NEW state \in TokenStates
    PROVE  /\ Set(table, xs, state) \in [Tokens -> Token]
           /\ \A t \in Tokens :
                 /\ Set(table, xs, state)[t].state = IF t \in xs THEN state ELSE table[t].state
                 /\ Set(table, xs, state)[t].purpose = table[t].purpose
                 /\ Set(table, xs, state)[t].knew = table[t].knew
                 /\ t \notin xs => Set(table, xs, state)[t] = table[t]
BY DEF Set, Token, TokenStates

\* An id that no row has.
LEMMA FreshSession ==
    ASSUME TypeOK, HasFresh(sessions)
    PROVE  Fresh(sessions) \in Sessions /\ sessions[Fresh(sessions)].state = "none"
<1>1. DOMAIN sessions = Sessions
  BY DEF TypeOK, StoreTypeOK
<1> QED
  BY <1>1 DEF HasFresh, Fresh

\* A fresh token id is unused.
LEMMA FreshToken ==
    ASSUME TypeOK, HasFresh(tokens)
    PROVE  Fresh(tokens) \in Tokens /\ tokens[Fresh(tokens)].state = "none"
<1>1. DOMAIN tokens = Tokens
  BY DEF TypeOK, StoreTypeOK
<1> QED
  BY <1>1 DEF HasFresh, Fresh

\* The sets that are counted are finite.
LEMMA CountedFinite ==
    /\ IsFiniteSet(Spent) /\ Cardinality(Spent) \in Nat
    /\ IsFiniteSet(Changing) /\ Cardinality(Changing) \in Nat
    /\ IsFiniteSet(Spent)' /\ Cardinality(Spent)' \in Nat
    /\ IsFiniteSet(Changing)' /\ Cardinality(Changing)' \in Nat
<1>1. IsFiniteSet(Tokens) /\ IsFiniteSet(Requests)
  BY AccountsAssumption
<1>2. \A S : S \subseteq Tokens \/ S \subseteq Requests => IsFiniteSet(S) /\ Cardinality(S) \in Nat
  BY <1>1, FS_Subset, FS_CardinalityType
<1>3. /\ Spent \subseteq Tokens /\ Spent' \subseteq Tokens
      /\ Changing \subseteq Requests /\ Changing' \subseteq Requests
  BY DEF Spent, Changing
<1> QED
  BY <1>2, <1>3

\* The first statement of each request.
LEMMA EntryPoint ==
    /\ Entry["login"] = "credentials" /\ Entry["register"] = "create"
    /\ Entry["resend"] = "lookup" /\ Entry["forgot"] = "lookup"
    /\ Entry["confirm"] = "consume" /\ Entry["reset"] = "consume"
    /\ Entry["refresh"] = "session" /\ Entry["logout"] = "logout"
    /\ Entry["bootstrap"] = "admin" /\ Entry["suspend"] = "administer"
    /\ Entry["restore"] = "administer" /\ Entry["promote"] = "administer"
    /\ Entry["demote"] = "administer"
BY DEF Entry

\* Every place a request can be at.
LEMMA AllPoints ==
    Points = {"idle", "credentials", "create", "lookup", "consume", "session", "logout", "admin",
              "administer", "store", "existing", "scan", "replace", "publish", "mail", "verify",
              "password", "sessions", "revoke", "user", "rotate", "commit", "grant", "insert"}
BY EntryPoint DEF AllOps, Points

-------------------------------------------------------------------------------
(* What every step leaves to the requests that do not take it. *)

\* The variables of the other requests; rows of theirs that the step may change
\* only in ways that they do not notice.
OthersWait(r) ==
    \A q \in Requests \ {r} :
        /\ pc'[q] = pc[q] /\ input'[q] = input[q] /\ seen'[q] = seen[q]
        /\ found'[q] = found[q] /\ made'[q] = made[q] /\ holds'[q] = holds[q]
        /\ q \notin solo'

LinksMoveOn ==
    \A t \in Tokens :
        /\ Published(t) => Published(t)' /\ tokens'[t].purpose = tokens[t].purpose
        /\ Closed(t) => Closed(t)'

RowsAreKept(r) ==
    \A q \in Requests \ {r} :
        /\ pc[q] = "publish" =>
              /\ tokens'[made[q]] = tokens[made[q]]
              /\ \A t \in holds[q] : tokens'[t].state \in {"open", "expired"}
        /\ pc[q] = "commit" =>
              /\ sessions'[made[q]] = sessions[made[q]]
              /\ sessions'[input[q].row] = sessions[input[q].row]

AccountMovesOn(r) ==
    /\ account.exists => account'.exists
    /\ account.password <= account'.password
    /\ ended' = ended \/ \A q \in Requests \ {r} : pc[q] = "idle"

\* What the others ask for stays as the invariant has it,
LEMMA OthersKeepInput ==
    ASSUME Inv, TypeOK', NEW r \in Requests, OthersWait(r), LinksMoveOn, AccountMovesOn(r)
    PROVE  \A q \in Requests \ {r} : InputInv(q)'
BY DEF Inv, RequestInv, InputInv, OthersWait, LinksMoveOn, AccountMovesOn, TypeOK, StoreTypeOK

\* and the rows they hold, found or made,
LEMMA OthersKeepRows ==
    ASSUME Inv, TypeOK', NEW r \in Requests, OthersWait(r), LinksMoveOn, RowsAreKept(r)
    PROVE  \A q \in Requests \ {r} : RowInv(q)'
<1> SUFFICES ASSUME NEW q \in Requests \ {r} PROVE RowInv(q)'
  OBVIOUS
<1>1. RequestInv(q) /\ TypeOK
  BY DEF Inv
<1>2. /\ pc'[q] = pc[q] /\ input'[q] = input[q]
      /\ found'[q] = found[q] /\ made'[q] = made[q] /\ holds'[q] = holds[q]
      /\ Purpose(q)' = Purpose(q)
  BY DEF OthersWait, Purpose
<1>3. CASE pc[q] = "commit"
  BY <1>1, <1>2, <1>3 DEF RequestInv, RowInv, RowsAreKept, Active
<1>4. CASE pc[q] = "replace"
  BY <1>1, <1>2, <1>4 DEF RequestInv, RowInv, LinksMoveOn
<1>5. CASE pc[q] = "publish"
  <2>1. \A t \in tokens[made[q]].knew : t \in Tokens
    BY <1>1, <1>5 DEF RequestInv, RowInv, TypeOK, StoreTypeOK, Token
  <2> QED
    BY <1>1, <1>2, <1>5, <2>1 DEF RequestInv, RowInv, LinksMoveOn, RowsAreKept
<1>6. CASE pc[q] = "mail"
  BY <1>1, <1>2, <1>6 DEF RequestInv, RowInv, LinksMoveOn
<1>7. CASE pc[q] \notin {"commit", "replace", "publish", "mail"}
  BY <1>1, <1>2, <1>7 DEF RequestInv, RowInv
<1> QED
  BY <1>3, <1>4, <1>5, <1>6, <1>7

\* and the password they have seen.
LEMMA OthersKeepPassword ==
    ASSUME Inv, TypeOK', NEW r \in Requests, OthersWait(r), AccountMovesOn(r)
    PROVE  \A q \in Requests \ {r} : PasswordInv(q)'
<1> SUFFICES ASSUME NEW q \in Requests \ {r} PROVE PasswordInv(q)'
  OBVIOUS
<1>1. PasswordInv(q)
  BY DEF Inv, RequestInv
<1>2. pc'[q] = pc[q] /\ seen'[q] = seen[q] /\ found'[q] = found[q] /\ q \notin solo'
  BY DEF OthersWait
<1>3. seen[q].password \in Nat /\ account.password \in Nat /\ account'.password \in Nat
  BY DEF Inv, TypeOK, StoreTypeOK, Account
<1> QED
  BY <1>1, <1>2, <1>3 DEF PasswordInv, AccountMovesOn

\* A step that respects the others keeps all that is said of them.
LEMMA OthersKeepInv ==
    ASSUME Inv, TypeOK', NEW r \in Requests, OthersWait(r), LinksMoveOn, RowsAreKept(r),
           AccountMovesOn(r)
    PROVE  \A q \in Requests \ {r} : RequestInv(q)'
BY OthersKeepInput, OthersKeepRows, OthersKeepPassword DEF RequestInv

\* A request that takes no row from another keeps the transactions apart.
TakesNone(r) ==
    \A q \in Requests \ {r} :
        /\ holds'[r] \cap holds[q] = {}
        /\ {pc'[r], pc[q]} \subseteq {"publish", "commit"} => made'[r] # made[q]

\* Transactions stay apart when the one that steps takes no row of another.
LEMMA StayApart ==
    ASSUME Inv, NEW r \in Requests, OthersWait(r), TakesNone(r)
    PROVE  ApartInv'
<1> SUFFICES ASSUME NEW p \in Requests, NEW q \in Requests, p # q
             PROVE  /\ holds'[p] \cap holds'[q] = {}
                    /\ {pc'[p], pc'[q]} \subseteq {"publish", "commit"} => made'[p] # made'[q]
  BY DEF ApartInv
<1>1. CASE p # r /\ q # r
  BY <1>1 DEF Inv, ApartInv, OthersWait
<1>2. CASE p = r
  BY <1>2 DEF OthersWait, TakesNone
<1>3. CASE q = r
  BY <1>3 DEF OthersWait, TakesNone
<1> QED
  BY <1>1, <1>2, <1>3

-------------------------------------------------------------------------------
(* Steps that change no session and no token. *)

\* What such a step of r does.
Quiet(r) ==
    /\ OthersWait(r)
    /\ UNCHANGED <<sessions, tokens, ended>>
    /\ account.exists => account'.exists
    /\ account'.password = account.password
    /\ holds'[r] = {} /\ made'[r] \in {NoRow, made[r]}
    /\ pc'[r] \notin {"publish", "commit"}
    /\ pc[r] # "password" /\ pc'[r] # "password"
    /\ \A t \in mailed' : Published(t)

\* A quiet step keeps what is said of the other requests,
LEMMA QuietOthers ==
    ASSUME Inv, TypeOK', NEW r \in Requests, Quiet(r)
    PROVE  (\A q \in Requests \ {r} : RequestInv(q)') /\ ApartInv'
<1>1. OthersWait(r)
  BY DEF Quiet
<1>2. LinksMoveOn /\ AccountMovesOn(r)
  BY DEF Quiet, LinksMoveOn, AccountMovesOn, Published, Closed, Inv, TypeOK, StoreTypeOK, Account
<1>3. RowsAreKept(r)
  BY DEF Quiet, RowsAreKept, Inv, RequestInv, RowInv
<1>4. TakesNone(r)
  BY DEF Quiet, TakesNone
<1> QED
  BY <1>1, <1>2, <1>3, <1>4, OthersKeepInv, StayApart

\* and of the rows,
LEMMA QuietRows ==
    ASSUME Inv, TypeOK', NEW r \in Requests, Quiet(r)
    PROVE  SessionsInv' /\ TokensInv' /\ AccountInv' /\ SpentInv'
<1> USE DEF Quiet, Inv
<1>1. SessionsInv'
  BY DEF SessionsInv, SessionInv, OneActivePerLogin, ResetEndsSessions, Active
<1>2. TokensInv'
  <2>1. ASSUME NEW t \in Tokens PROVE TokenInv(t)'
    BY DEF TokensInv, TokenInv, Published, Closed
  <2>2. \A t \in mailed' : Published(t)'
    BY DEF Published
  <2> QED
    BY <2>1, <2>2 DEF TokensInv
<1>3. AccountInv'
  BY DEF AccountInv
<1>4. SpentInv'
  <2>1. Spent' = Spent
    BY DEF Spent
  <2>2. Changing' = Changing
    BY DEF Changing, OthersWait
  <2> QED
    BY <2>1, <2>2 DEF SpentInv
<1> QED
  BY <1>1, <1>2, <1>3, <1>4

\* and so the invariant, once its own request is looked at.
LEMMA QuietInv ==
    ASSUME Inv, TypeOK', NEW r \in Requests, Quiet(r), RequestInv(r)'
    PROVE  Inv'
BY QuietOthers, QuietRows DEF Inv

\* What an answer does to the variables of the requests.
LEMMA AnswerLocals ==
    ASSUME TypeOK, NEW r \in Requests, NEW result \in {"done", "refused", "error"},
           Answer(r, result)
    PROVE  /\ pc' \in [Requests -> Points] /\ input' \in [Requests ->
                 [op : AllOps \cup {"none"}, password : Nat,
                  row : Sessions \cup Tokens \cup {NoRow}]]
           /\ seen' \in [Requests -> Account]
           /\ found' \in [Requests -> SUBSET (Sessions \cup Tokens)]
           /\ made' \in [Requests -> Sessions \cup Tokens \cup {NoRow}]
           /\ holds' \in [Requests -> SUBSET (Sessions \cup Tokens)]
           /\ outcome' \in {"none", "done", "refused", "error"}
           /\ pc'[r] = "idle" /\ input'[r].op = "none" /\ holds'[r] = {} /\ made'[r] = NoRow
<1>1. NoInput \in [op : AllOps \cup {"none"}, password : Nat,
                   row : Sessions \cup Tokens \cup {NoRow}]
  BY DEF NoInput
<1>2. NoAccount \in Account
  BY DEF NoAccount, Account
<1>3. "idle" \in Points
  BY AllPoints
<1> QED
  BY <1>1, <1>2, <1>3 DEF TypeOK, StoreTypeOK, Answer, NoInput

\* Nobody else is left to overlap a request that none has overlapped.
LEMMA AnswerInv ==
    ASSUME Inv, NEW r \in Requests, NEW result \in {"done", "refused", "error"},
           Answer(r, result), pc[r] # "idle", solo' = solo
    PROVE  OthersWait(r) /\ RequestInv(r)'
<1>1. TypeOK /\ \A q \in Requests : PasswordInv(q)
  BY DEF Inv, RequestInv
<1>2. /\ pc'[r] = "idle" /\ input'[r].op = "none" /\ holds'[r] = {} /\ made'[r] = NoRow
      /\ pc' = [pc EXCEPT ![r] = "idle"]
  BY <1>1, AnswerLocals DEF Answer
<1>3. OthersWait(r)
  BY <1>1 DEF OthersWait, Answer, TypeOK, StoreTypeOK, PasswordInv
<1>4. InputInv(r)' /\ RowInv(r)'
  BY <1>2 DEF InputInv, RowInv
<1>5. PasswordInv(r)'
  BY <1>1, <1>2 DEF PasswordInv, TypeOK
<1> QED
  BY <1>3, <1>4, <1>5 DEF RequestInv

\* A request that is refused has changed nothing.
LEMMA RefuseInv ==
    ASSUME Inv, NEW r \in Requests, Refuse(r), pc[r] \notin {"idle", "password"}
    PROVE  Inv'
<1>1. Answer(r, "refused") /\ UNCHANGED <<account, sessions, tokens, ghosts>>
  BY DEF Refuse
<1>2. TypeOK'
  BY <1>1, AnswerLocals DEF Inv, TypeOK, StoreTypeOK, ghosts
<1>3. OthersWait(r) /\ RequestInv(r)'
  BY <1>1, AnswerInv DEF ghosts
<1>4. pc'[r] = "idle" /\ holds'[r] = {} /\ made'[r] = NoRow
  BY <1>1, AnswerLocals DEF Inv
<1>5. Quiet(r)
  BY <1>1, <1>3, <1>4 DEF Quiet, ghosts, Inv, TokensInv
<1> QED
  BY <1>2, <1>3, <1>5, QuietInv

\* A step to the next statement that changes no session, no token and no lock.
LEMMA GotoInv ==
    ASSUME Inv, NEW r \in Requests, NEW point \in Points, Goto(r, point),
           pc[r] \notin {"idle", "password", "publish", "commit"},
           point \notin {"idle", "password", "publish", "commit"},
           UNCHANGED <<sessions, tokens, holds, input, made, ghosts>>,
           account' \in Account, account.exists => account'.exists,
           account'.password = account.password,
           NEW user \in Account, seen' = [seen EXCEPT ![r] = user],
           NEW rows \in SUBSET (Sessions \cup Tokens), found' = [found EXCEPT ![r] = rows],
           RequestInv(r)'
    PROVE  Inv'
<1>1. TypeOK /\ \A q \in Requests : RequestInv(q)
  BY DEF Inv
<1>2. TypeOK'
  BY <1>1 DEF TypeOK, StoreTypeOK, Goto, ghosts
<1>3. OthersWait(r)
  BY <1>1 DEF OthersWait, TypeOK, StoreTypeOK, Goto, ghosts, RequestInv, PasswordInv
<1>4. holds'[r] = {} /\ made'[r] = made[r] /\ pc'[r] = point
  BY <1>1 DEF RequestInv, RowInv, TypeOK, Goto
<1>5. Quiet(r)
  BY <1>3, <1>4 DEF Quiet, ghosts, Inv, TokensInv
<1> QED
  BY <1>2, <1>5, QuietInv

\* A step whose answer ends the request and which changes at most the user row.
LEMMA AnswerQuietly ==
    ASSUME Inv, NEW r \in Requests, Answer(r, "done"), pc[r] \notin {"idle", "password"},
           UNCHANGED <<sessions, tokens, held, ended, served, faults, solo>>,
           account' \in Account, account.exists => account'.exists,
           account'.password = account.password,
           mailed' \subseteq Tokens, \A t \in mailed' : Published(t)
    PROVE  Inv'
<1>1. TypeOK'
  BY AnswerLocals DEF Inv, TypeOK, StoreTypeOK
<1>2. OthersWait(r) /\ RequestInv(r)'
  BY AnswerInv
<1>3. pc'[r] = "idle" /\ holds'[r] = {} /\ made'[r] = NoRow
  BY AnswerLocals DEF Inv
<1>4. Quiet(r)
  BY <1>2, <1>3 DEF Quiet
<1> QED
  BY <1>1, <1>2, <1>4, QuietInv

\* The variables of the request itself.
LEMMA OwnLocals ==
    ASSUME TypeOK, NEW r \in Requests
    PROVE  /\ pc[r] \in Points /\ seen[r] \in Account
           /\ found[r] \in SUBSET (Sessions \cup Tokens)
           /\ seen = [seen EXCEPT ![r] = seen[r]] /\ found = [found EXCEPT ![r] = found[r]]
           /\ account \in Account /\ account.password \in Nat
           /\ mailed \subseteq Tokens /\ held \subseteq Sessions
BY DEF TypeOK, StoreTypeOK, Account

\* Login finds the account, or refuses.
LEMMA LoginFindInv ==
    ASSUME Inv, NEW r \in Requests, LoginFind(r)
    PROVE  Inv'
<1>1. CASE Refuse(r)
  BY <1>1, RefuseInv DEF LoginFind, At
<1>2. CASE ~Refuse(r)
  <2>1. /\ pc[r] = "credentials" /\ Goto(r, "store") /\ seen' = [seen EXCEPT ![r] = account]
        /\ UNCHANGED <<store, input, found, made, ghosts>>
    BY <1>2 DEF LoginFind, At
  <2>2. TypeOK /\ RequestInv(r) /\ AccountInv
    BY DEF Inv
  <2>3. RequestInv(r)'
    <3>1. pc'[r] = "store" /\ seen'[r] = account
      BY <2>1, <2>2 DEF Goto, TypeOK
    <3>2. ended \in Nat /\ account.password \in Nat
      BY <2>2 DEF TypeOK, StoreTypeOK, Account
    <3>3. InputInv(r)'
      BY <2>1, <2>2, <3>1 DEF InputInv, RequestInv
    <3>4. RowInv(r)'
      BY <2>1, <2>2, <3>1 DEF RowInv, RequestInv, store
    <3>5. PasswordInv(r)'
      <4>1. \A q \in Requests \ {r} : pc'[q] = pc[q]
        BY <2>1, <2>2 DEF Goto, TypeOK
      <4> QED
        BY <2>1, <2>2, <3>1, <3>2, <4>1 DEF PasswordInv, RequestInv, AccountInv, store, ghosts
    <3> QED
      BY <3>3, <3>4, <3>5 DEF RequestInv
  <2>4. "store" \in Points
    BY AllPoints
  <2> QED
    BY <2>1, <2>2, <2>3, <2>4, OwnLocals, GotoInv DEF store
<1> QED
  BY <1>1, <1>2

\* A step to the next statement that remembers nothing new.
LEMMA NextStatement ==
    ASSUME Inv, NEW r \in Requests, NEW point \in {"scan", "existing", "user", "rotate",
                                                   "grant", "insert"},
           Goto(r, point), pc[r] \notin {"idle", "password", "publish", "commit", "mail"},
           UNCHANGED <<sessions, tokens, holds, local, ghosts>>,
           account' \in Account, account.exists => account'.exists,
           account'.password = account.password,
           point \in {"scan", "existing"} => account'.exists,
           point \in {"user", "rotate"} => input[r].row \in Sessions,
           input[r].op = "bootstrap" => point \in {"grant", "insert"},
           point = "insert" => ~account'.exists
    PROVE  Inv'
<1>1. TypeOK /\ RequestInv(r)
  BY DEF Inv
<1>2. pc'[r] = point /\ \A q \in Requests \ {r} : pc'[q] = pc[q]
  BY <1>1 DEF Goto, TypeOK
<1>3. RequestInv(r)'
  <2>1. InputInv(r)'
    BY <1>1, <1>2 DEF InputInv, RequestInv, local
  <2>2. RowInv(r)'
    BY <1>1, <1>2 DEF RowInv, RequestInv, local
  <2>3. PasswordInv(r)'
    BY <1>1, <1>2 DEF PasswordInv, RequestInv, local, ghosts
  <2> QED
    BY <2>1, <2>2, <2>3 DEF RequestInv
<1>4. point \in Points
  BY AllPoints
<1> QED
  BY <1>1, <1>3, <1>4, OwnLocals, GotoInv DEF local

\* A new user row, with its first password.
LEMMA NewAccountType ==
    ASSUME NEW verified \in BOOLEAN, NEW platform \in {"user", "super_admin"}
    PROVE  /\ NewAccount(verified, platform) \in Account
           /\ NewAccount(verified, platform).exists
           /\ NewAccount(verified, platform).password = 0
           /\ NewAccount(verified, platform).platform = platform
BY DEF NewAccount, Account

\* Register inserts the account.
LEMMA RegisterCreateInv ==
    ASSUME Inv, NEW r \in Requests, RegisterCreate(r)
    PROVE  Inv'
<1>1. TypeOK /\ RequestInv(r) /\ AccountInv
  BY DEF Inv
<1>2. pc[r] = "create" /\ UNCHANGED <<sessions, tokens, holds, local, ghosts>>
  BY DEF RegisterCreate, At
<1>3. account \in Account /\ (~account.exists => account.password = 0)
  BY <1>1 DEF AccountInv, TypeOK, StoreTypeOK
<1>4. account'.exists /\ account' \in Account /\ account'.password = account.password
  <2>1. CASE account.exists
    BY <1>3, <2>1 DEF RegisterCreate
  <2>2. CASE ~account.exists
    BY <1>3, <2>2, NewAccountType DEF RegisterCreate
  <2> QED
    BY <2>1, <2>2
<1>5. input[r].op # "bootstrap"
  BY <1>1, <1>2 DEF RequestInv, InputInv
<1>6. CASE Goto(r, "scan")
  BY <1>4, <1>2, <1>5, <1>6, NextStatement
<1>7. CASE Goto(r, "existing")
  BY <1>4, <1>2, <1>5, <1>7, NextStatement
<1> QED
  BY <1>6, <1>7 DEF RegisterCreate

\* Register reads the account that was there first.
LEMMA RegisterExistingInv ==
    ASSUME Inv, NEW r \in Requests, RegisterExisting(r)
    PROVE  Inv'
<1>1. TypeOK /\ RequestInv(r) /\ pc[r] = "existing"
  BY DEF Inv, RegisterExisting, At
<1>2. CASE Refuse(r)
  BY <1>1, <1>2, RefuseInv
<1>3. CASE Goto(r, "scan") /\ UNCHANGED <<store, local, ghosts>>
  <2>1. account \in Account /\ account.exists /\ input[r].op # "bootstrap"
    BY <1>1, OwnLocals DEF RequestInv, InputInv
  <2> QED
    BY <1>1, <1>3, <2>1, NextStatement DEF store
<1> QED
  BY <1>2, <1>3 DEF RegisterExisting

\* The request for a mail looks the account up.
LEMMA LookupInv ==
    ASSUME Inv, NEW r \in Requests, Lookup(r)
    PROVE  Inv'
<1>1. TypeOK /\ RequestInv(r) /\ TokensInv /\ pc[r] = "lookup" /\ account \in Account
  BY DEF Inv, Lookup, At, TypeOK, StoreTypeOK
<1>2. CASE Answer(r, "done") /\ UNCHANGED <<account, sessions, tokens, ghosts>>
  BY <1>1, <1>2, AnswerQuietly, OwnLocals DEF ghosts, TokensInv
<1>3. CASE account.exists /\ Goto(r, "scan") /\ UNCHANGED <<store, local, ghosts>>
  BY <1>1, <1>3, NextStatement DEF store, RequestInv, InputInv
<1> QED
  BY <1>2, <1>3 DEF Lookup

\* The link of a published token is mailed.
LEMMA MailInv ==
    ASSUME Inv, NEW r \in Requests, Mail(r)
    PROVE  Inv'
<1>1. TypeOK /\ RequestInv(r) /\ TokensInv /\ pc[r] = "mail" /\ account \in Account
  BY DEF Inv, Mail, At, TypeOK, StoreTypeOK
<1>2. made[r] \in Tokens /\ Published(made[r])
  BY <1>1 DEF RequestInv, RowInv
<1> QED
  BY <1>1, <1>2, AnswerQuietly, OwnLocals DEF Mail, TokensInv

\* The address is marked as verified.
LEMMA MarkEmailVerifiedInv ==
    ASSUME Inv, NEW r \in Requests, MarkEmailVerified(r)
    PROVE  Inv'
<1>1. TypeOK /\ TokensInv
  BY DEF Inv
<1>2. account' \in Account /\ account'.exists = account.exists /\ account'.password = account.password
  BY <1>1, OwnLocals DEF MarkEmailVerified, Account
<1> QED
  BY <1>1, <1>2, AnswerQuietly, OwnLocals DEF MarkEmailVerified, At, ghosts, TokensInv

\* Refresh finds the session of the token.
LEMMA RefreshFindInv ==
    ASSUME Inv, NEW r \in Requests, RefreshFind(r)
    PROVE  Inv'
<1>1. TypeOK /\ RequestInv(r) /\ pc[r] = "session" /\ account \in Account
  BY DEF Inv, RefreshFind, At, TypeOK, StoreTypeOK
<1>2. CASE Refuse(r)
  BY <1>1, <1>2, RefuseInv
<1>3. CASE Goto(r, "user") /\ UNCHANGED <<store, local, ghosts>>
  BY <1>1, <1>3, NextStatement DEF store, RequestInv, InputInv
<1> QED
  BY <1>2, <1>3 DEF RefreshFind

\* Refresh refuses a suspended account.
LEMMA RefreshUserInv ==
    ASSUME Inv, NEW r \in Requests, RefreshUser(r)
    PROVE  Inv'
<1>1. TypeOK /\ RequestInv(r) /\ pc[r] = "user" /\ account \in Account
  BY DEF Inv, RefreshUser, At, TypeOK, StoreTypeOK
<1>2. CASE Refuse(r)
  BY <1>1, <1>2, RefuseInv
<1>3. CASE Goto(r, "rotate") /\ UNCHANGED <<store, local, ghosts>>
  BY <1>1, <1>3, NextStatement DEF store, RequestInv, InputInv
<1> QED
  BY <1>2, <1>3 DEF RefreshUser

\* The start-up looks for the administrator.
LEMMA BootstrapFindInv ==
    ASSUME Inv, NEW r \in Requests, BootstrapFind(r)
    PROVE  Inv'
<1>1. TypeOK /\ RequestInv(r) /\ TokensInv /\ pc[r] = "admin" /\ account \in Account
  BY DEF Inv, BootstrapFind, At, TypeOK, StoreTypeOK
<1>2. CASE Answer(r, "done") /\ UNCHANGED <<account, sessions, tokens, ghosts>>
  BY <1>1, <1>2, AnswerQuietly, OwnLocals DEF ghosts, TokensInv
<1>3. CASE Goto(r, "grant") /\ UNCHANGED <<store, local, ghosts>>
  BY <1>1, <1>3, NextStatement DEF store
<1>4. CASE ~account.exists /\ Goto(r, "insert") /\ UNCHANGED <<store, local, ghosts>>
  BY <1>1, <1>4, NextStatement DEF store
<1> QED
  BY <1>2, <1>3, <1>4 DEF BootstrapFind

\* The start-up promotes the account that it found.
LEMMA SetPlatformRoleInv ==
    ASSUME Inv, NEW r \in Requests, SetPlatformRole(r)
    PROVE  Inv'
<1>1. TypeOK /\ TokensInv
  BY DEF Inv
<1>2. account' \in Account /\ account'.exists = account.exists /\ account'.password = account.password
  BY <1>1, OwnLocals DEF SetPlatformRole, Account
<1> QED
  BY <1>1, <1>2, AnswerQuietly, OwnLocals DEF SetPlatformRole, At, ghosts, TokensInv

\* The start-up creates the administrator.
LEMMA BootstrapCreateInv ==
    ASSUME Inv, NEW r \in Requests, BootstrapCreate(r)
    PROVE  Inv'
<1>1. /\ TypeOK /\ TokensInv /\ account \in Account
      /\ ~account.exists => account.password = 0
  BY OwnLocals DEF Inv, AccountInv
<1>2. account' = account \/ (~account.exists /\ account' = NewAccount(TRUE, "super_admin"))
  BY DEF BootstrapCreate
<1>3. account' \in Account
  BY <1>1, <1>2, NewAccountType
<1>4. (account.exists => account'.exists) /\ account'.password = account.password
  BY <1>1, <1>2, NewAccountType
<1> QED
  BY <1>1, <1>3, <1>4, AnswerQuietly, OwnLocals DEF BootstrapCreate, At, ghosts, TokensInv

\* An administrator changes the account.
LEMMA AdministerInv ==
    ASSUME Inv, NEW r \in Requests, Administer(r)
    PROVE  Inv'
<1>1. /\ TypeOK /\ TokensInv /\ account \in Account /\ pc[r] = "administer"
      /\ input[r].op \in {"suspend", "restore", "promote", "demote"}
  BY OwnLocals DEF Inv, RequestInv, InputInv, Administer, At
<1>2. /\ account' \in Account /\ account.exists = account'.exists
      /\ account'.password = account.password
  <2>1. CASE account.exists
    BY <1>1, <2>1 DEF Administer, Account
  <2>2. CASE ~account.exists
    BY <1>1, <2>2 DEF Administer
  <2> QED
    BY <2>1, <2>2
<1> QED
  BY <1>1, <1>2, AnswerQuietly, OwnLocals DEF Administer, ghosts, TokensInv

\* The active tokens of a purpose are read for their row locks.
LEMMA ScanTokensInv ==
    ASSUME Inv, NEW r \in Requests, ScanTokens(r)
    PROVE  Inv'
<1>1. /\ TypeOK /\ RequestInv(r)
      /\ pc[r] = "scan" /\ Goto(r, "replace") /\ found' = [found EXCEPT ![r] = Open(Purpose(r))]
      /\ UNCHANGED <<store, input, seen, made, ghosts>>
  BY DEF Inv, ScanTokens, At
<1>2. pc'[r] = "replace" /\ found'[r] = Open(Purpose(r)) /\ Purpose(r)' = Purpose(r)
  BY <1>1 DEF Goto, TypeOK, Purpose
<1>3. RequestInv(r)'
  <2>1. InputInv(r)'
    BY <1>1, <1>2 DEF InputInv, RequestInv, store
  <2>2. RowInv(r)'
    BY <1>1, <1>2 DEF RowInv, RequestInv, store, Open, Published
  <2>3. PasswordInv(r)'
    BY <1>1, <1>2 DEF PasswordInv, RequestInv, ghosts, Goto, TypeOK
  <2> QED
    BY <2>1, <2>2, <2>3 DEF RequestInv
<1>4. "replace" \in Points /\ Open(Purpose(r)) \in SUBSET (Sessions \cup Tokens)
  BY AllPoints DEF Open
<1> QED
  BY <1>1, <1>3, <1>4, OwnLocals, GotoInv DEF store

\* The active sessions are read for their row locks.
LEMMA ScanSessionsInv ==
    ASSUME Inv, NEW r \in Requests, ScanSessions(r)
    PROVE  Inv'
<1>1. /\ TypeOK /\ RequestInv(r)
      /\ pc[r] = "sessions" /\ Goto(r, "revoke") /\ found' = [found EXCEPT ![r] = Active]
      /\ UNCHANGED <<store, input, seen, made, ghosts>>
  BY DEF Inv, ScanSessions, At
<1>2. /\ pc'[r] = "revoke" /\ found'[r] = Active /\ \A q \in Requests \ {r} : pc'[q] = pc[q]
      /\ Active' = Active /\ Active \subseteq Sessions
  BY <1>1 DEF Goto, TypeOK, Active, store
<1>3. RequestInv(r)'
  <2>1. InputInv(r)'
    BY <1>1, <1>2 DEF InputInv, RequestInv, store
  <2>2. RowInv(r)'
    BY <1>1, <1>2 DEF RowInv, RequestInv, store
  <2>3. PasswordInv(r)'
    BY <1>1, <1>2 DEF PasswordInv, RequestInv, ghosts, store
  <2> QED
    BY <2>1, <2>2, <2>3 DEF RequestInv
<1>4. "revoke" \in Points
  BY AllPoints
<1> QED
  BY <1>1, <1>2, <1>3, <1>4, OwnLocals, GotoInv DEF store

-------------------------------------------------------------------------------
(* Steps that change sessions, tokens or the password. *)

\* An answer keeps what is said of every request.
LEMMA AnswerOthers ==
    ASSUME Inv, TypeOK', NEW r \in Requests, NEW result \in {"done", "refused", "error"},
           Answer(r, result), pc[r] # "idle", solo' = solo,
           LinksMoveOn, RowsAreKept(r), AccountMovesOn(r)
    PROVE  (\A q \in Requests : RequestInv(q)') /\ ApartInv'
<1>1. OthersWait(r) /\ RequestInv(r)'
  BY AnswerInv
<1>2. pc'[r] = "idle" /\ holds'[r] = {}
  BY AnswerLocals DEF Inv
<1>3. TakesNone(r)
  BY <1>2 DEF TakesNone
<1> QED
  BY <1>1, <1>3, OthersKeepInv, StayApart

\* What is said of the sessions holds while they stay,
LEMMA SessionsStay ==
    ASSUME SessionsInv, UNCHANGED <<sessions, ended>>
    PROVE  SessionsInv'
BY DEF SessionsInv, SessionInv, OneActivePerLogin, ResetEndsSessions, Active

\* and what is said of the action tokens likewise.
LEMMA TokensStay ==
    ASSUME TokensInv, UNCHANGED <<tokens, mailed, account>>
    PROVE  TokensInv'
<1>1. ASSUME NEW t \in Tokens PROVE TokenInv(t)'
  BY DEF TokensInv, TokenInv, Published, Closed
<1>2. \A t \in mailed' : Published(t)'
  BY DEF TokensInv, Published
<1> QED
  BY <1>1, <1>2 DEF TokensInv

\* No spent link is lost, and nobody else is about to change the password.
LEMMA SpentStay ==
    ASSUME Inv, Spent \subseteq Spent', Changing' \subseteq Changing,
           account'.password = account.password
    PROVE  SpentInv'
<1>1. Cardinality(Spent) <= Cardinality(Spent') /\ Cardinality(Changing') <= Cardinality(Changing)
  BY CountedFinite, FS_Subset
<1>2. account.password \in Nat
  BY OwnLocals DEF Inv, TypeOK, StoreTypeOK, Account
<1>3. /\ Cardinality(Spent) \in Nat /\ Cardinality(Spent') \in Nat
      /\ Cardinality(Changing) \in Nat /\ Cardinality(Changing') \in Nat
  BY CountedFinite
<1> QED
  BY <1>1, <1>2, <1>3 DEF Inv, SpentInv

\* An answer adds no request to those that change the password.
LEMMA AnswerChanges ==
    ASSUME TypeOK, NEW r \in Requests, NEW result \in {"done", "refused", "error"},
           Answer(r, result)
    PROVE  Changing' \subseteq Changing
BY DEF Changing, Answer, TypeOK

\* Sessions that end leave their chains as they are.
LEMMA SessionsEnd ==
    ASSUME Inv, NEW xs \in SUBSET Active, NEW state \in {"revoked", "expired"},
           sessions' = Set(sessions, xs, state)
    PROVE  /\ sessions' \in [Sessions -> Session]
           /\ \A s \in Sessions : SessionInv(s)'
           /\ OneActivePerLogin'
           /\ Active' = Active \ xs
           /\ \A s \in Sessions : sessions'[s].password = sessions[s].password
<1>1. /\ sessions \in [Sessions -> Session] /\ state \in SessionStates
      /\ \A s \in Sessions : SessionInv(s)
      /\ OneActivePerLogin
  BY DEF Inv, TypeOK, StoreTypeOK, SessionsInv, SessionStates
<1>2. /\ sessions' \in [Sessions -> Session]
      /\ \A s \in Sessions :
            /\ sessions'[s].state = IF s \in xs THEN state ELSE sessions[s].state
            /\ sessions'[s].chain = sessions[s].chain
            /\ sessions'[s].password = sessions[s].password
  BY <1>1, SetSessions
<1>3. Active' = Active \ xs
  BY <1>2 DEF Active
<1>4. \A s \in xs : s \in Sessions /\ sessions[s].state = "active"
  BY DEF Active
<1>5. ASSUME NEW s \in Sessions PROVE SessionInv(s)'
  BY <1>1, <1>2, <1>4 DEF SessionInv
<1>6. OneActivePerLogin'
  BY <1>1, <1>2, <1>3 DEF OneActivePerLogin, Active
<1> QED
  BY <1>2, <1>3, <1>5, <1>6

\* Login stores the session that it opens.
LEMMA LoginStoreInv ==
    ASSUME Inv, NEW r \in Requests, LoginStore(r)
    PROVE  Inv'
<1> DEFINE s0 == Fresh(sessions)
           new == [state |-> "active", chain |-> s0, password |-> seen[r].password]
<1>1. /\ TypeOK /\ RequestInv(r) /\ SessionsInv /\ TokensInv /\ AccountInv
      /\ pc[r] = "store" /\ s0 \in Sessions /\ sessions[s0].state = "none"
      /\ sessions' = [sessions EXCEPT ![s0] = new] /\ held' = held \cup {s0}
      /\ Answer(r, "done")
      /\ UNCHANGED <<account, tokens, mailed, ended, served, faults, solo>>
  BY FreshSession DEF Inv, LoginStore, At, InsertSession
<1>2. sessions \in [Sessions -> Session] /\ seen[r].password \in Nat /\ seen[r].password >= ended
  BY <1>1 DEF TypeOK, StoreTypeOK, Account, RequestInv, PasswordInv
<1>3. sessions' \in [Sessions -> Session]
  BY <1>1, <1>2 DEF Session
<1>4. TypeOK'
  BY <1>1, <1>3, AnswerLocals, OwnLocals DEF TypeOK, StoreTypeOK
<1>5. sessions'[s0] = new /\ \A s \in Sessions \ {s0} : sessions'[s] = sessions[s]
  BY <1>1, <1>2
<1>6. (\A q \in Requests : RequestInv(q)') /\ ApartInv'
  <2>1. LinksMoveOn /\ AccountMovesOn(r)
    BY <1>1 DEF LinksMoveOn, AccountMovesOn, Published, Closed, TypeOK, StoreTypeOK, Account
  <2>2. RowsAreKept(r)
    BY <1>1, <1>5 DEF RowsAreKept, Inv, RequestInv, RowInv, Active
  <2> QED
    BY <1>1, <1>4, <2>1, <2>2, AnswerOthers
<1>7. SessionsInv'
  <2>1. ASSUME NEW s \in Sessions PROVE SessionInv(s)'
    BY <1>1, <1>5 DEF SessionInv, SessionsInv
  <2>2. Active' = Active \cup {s0} /\ s0 \notin Active
    BY <1>1, <1>5 DEF Active
  <2>3. OneActivePerLogin'
    BY <1>1, <1>5, <2>2 DEF OneActivePerLogin, SessionsInv, SessionInv, Active
  <2>4. ResetEndsSessions'
    BY <1>1, <1>2, <1>5, <2>2 DEF ResetEndsSessions, SessionsInv, Active
  <2> QED
    BY <2>1, <2>3, <2>4 DEF SessionsInv
<1>8. TokensInv' /\ AccountInv'
  BY <1>1, TokensStay DEF AccountInv
<1>9. SpentInv'
  BY <1>1, AnswerChanges, SpentStay DEF Spent
<1> QED
  BY <1>4, <1>6, <1>7, <1>8, <1>9 DEF Inv

\* What other transactions hold stays active when these end.
LEMMA EndedAreFree ==
    ASSUME Inv, NEW r \in Requests, NEW xs \in SUBSET Active,
           NEW state \in {"revoked", "expired"}, sessions' = Set(sessions, xs, state),
           \A q \in Requests \ {r} : holds[q] \cap xs = {}, tokens' = tokens
    PROVE  RowsAreKept(r) /\ LinksMoveOn
<1>1. sessions \in [Sessions -> Session] /\ state \in SessionStates
  BY DEF Inv, TypeOK, StoreTypeOK, SessionStates
<1>2. \A s \in Sessions \ xs : sessions'[s] = sessions[s]
  BY <1>1, SetSessions
<1>3. LinksMoveOn
  BY DEF LinksMoveOn, Published, Closed
<1>4. ASSUME NEW q \in Requests \ {r}, pc[q] = "commit"
      PROVE  made[q] \in Sessions \ xs /\ input[q].row \in Sessions \ xs
  BY <1>4 DEF Inv, RequestInv, RowInv, Active
<1>5. ASSUME NEW q \in Requests \ {r}, pc[q] = "publish"
      PROVE  \A t \in holds[q] : tokens[t].state \in {"open", "expired"}
  BY <1>5 DEF Inv, RequestInv, RowInv
<1> QED
  BY <1>2, <1>3, <1>4, <1>5 DEF RowsAreKept

\* A reset or a new password revokes the active sessions.
LEMMA RevokeSessionsInv ==
    ASSUME Inv, NEW r \in Requests, RevokeSessions(r)
    PROVE  Inv'
<1> DEFINE xs == StillActive(found[r])
<1>1. /\ TypeOK /\ RequestInv(r) /\ SessionsInv /\ TokensInv /\ AccountInv
      /\ pc[r] = "revoke" /\ \A q \in Requests \ {r} : holds[q] \cap found[r] = {}
      /\ sessions' = Set(sessions, xs, "revoked")
      /\ ended' = IF r \in solo THEN Later(ended, seen[r].password) ELSE ended
      /\ Answer(r, "done")
      /\ UNCHANGED <<account, tokens, held, mailed, served, faults, solo>>
  BY DEF Inv, RevokeSessions, At, Revoke, Unlocked
<1>2. /\ xs \in SUBSET Active
      /\ \A q \in Requests \ {r} : holds[q] \cap xs = {}
  BY <1>1 DEF StillActive
<1>3. /\ sessions' \in [Sessions -> Session]
      /\ \A s \in Sessions : SessionInv(s)'
      /\ OneActivePerLogin'
      /\ Active' = Active \ xs
      /\ \A s \in Sessions : sessions'[s].password = sessions[s].password
  BY <1>1, <1>2, SessionsEnd
<1>4. /\ ended \in Nat /\ seen[r].password \in Nat /\ account.password \in Nat
      /\ seen[r].password <= account.password
  BY <1>1 DEF TypeOK, StoreTypeOK, Account, RequestInv, PasswordInv
<1>5. ended' \in Nat /\ ended' <= account.password
  BY <1>1, <1>4 DEF Later, AccountInv
<1>6. TypeOK'
  BY <1>1, <1>3, <1>5, AnswerLocals DEF TypeOK, StoreTypeOK
<1>7. (\A q \in Requests : RequestInv(q)') /\ ApartInv'
  <2>1. AccountMovesOn(r)
    BY <1>1, <1>4 DEF AccountMovesOn, RequestInv, PasswordInv
  <2>2. RowsAreKept(r) /\ LinksMoveOn
    BY <1>1, <1>2, EndedAreFree
  <2> QED
    BY <1>1, <1>6, <2>1, <2>2, AnswerOthers
<1>8. ResetEndsSessions'
  <2>1. CASE r \in solo
    BY <1>1, <1>3, <2>1 DEF ResetEndsSessions, RequestInv, PasswordInv, StillActive
  <2>2. CASE r \notin solo
    BY <1>1, <1>3, <2>2 DEF ResetEndsSessions, SessionsInv, Active
  <2> QED
    BY <2>1, <2>2
<1>9. TokensInv' /\ AccountInv' /\ SpentInv'
  BY <1>1, <1>5, TokensStay, AnswerChanges, SpentStay DEF AccountInv, Spent
<1> QED
  BY <1>3, <1>6, <1>7, <1>8, <1>9 DEF Inv, SessionsInv

\* Logout ends one session.
LEMMA LogoutInv ==
    ASSUME Inv, NEW r \in Requests, Logout(r)
    PROVE  Inv'
<1>1. CASE Refuse(r)
  BY <1>1, RefuseInv DEF Logout, At
<1>2. CASE ~Refuse(r)
  <2> DEFINE xs == StillActive({input[r].row})
  <2>1. /\ TypeOK /\ SessionsInv /\ TokensInv /\ AccountInv /\ pc[r] = "logout"
        /\ \A q \in Requests \ {r} : holds[q] \cap {input[r].row} = {}
        /\ sessions' = Set(sessions, xs, "revoked")
        /\ Answer(r, "done")
        /\ UNCHANGED <<account, tokens, ghosts>>
    BY <1>2 DEF Inv, Logout, At, Revoke, Unlocked
  <2>2. /\ xs \in SUBSET Active
        /\ \A q \in Requests \ {r} : holds[q] \cap xs = {}
    BY <2>1 DEF StillActive
  <2>3. /\ sessions' \in [Sessions -> Session]
        /\ \A s \in Sessions : SessionInv(s)'
        /\ OneActivePerLogin'
        /\ Active' = Active \ xs
        /\ \A s \in Sessions : sessions'[s].password = sessions[s].password
    BY <2>1, <2>2, SessionsEnd
  <2>4. TypeOK'
    BY <2>1, <2>3, AnswerLocals DEF TypeOK, StoreTypeOK, ghosts
  <2>5. (\A q \in Requests : RequestInv(q)') /\ ApartInv'
    <3>1. AccountMovesOn(r)
      BY <2>1 DEF AccountMovesOn, TypeOK, StoreTypeOK, Account, ghosts
    <3>2. RowsAreKept(r) /\ LinksMoveOn
      BY <2>1, <2>2, EndedAreFree
    <3> QED
      BY <2>1, <2>4, <3>1, <3>2, AnswerOthers DEF ghosts
  <2>6. ResetEndsSessions'
    BY <2>1, <2>3 DEF ResetEndsSessions, SessionsInv, Active, ghosts
  <2>7. TokensInv' /\ AccountInv' /\ SpentInv'
    BY <2>1, TokensStay, AnswerChanges, SpentStay DEF AccountInv, Spent, ghosts
  <2> QED
    BY <2>3, <2>4, <2>5, <2>6, <2>7 DEF Inv, SessionsInv
<1> QED
  BY <1>1, <1>2

\* Rotate locks the old session and inserts the next one, uncommitted.
LEMMA RotateInv ==
    ASSUME Inv, NEW r \in Requests, Rotate(r)
    PROVE  Inv'
<1>1. CASE Refuse(r)
  BY <1>1, RefuseInv DEF Rotate, At
<1>2. CASE ~Refuse(r)
  <2> DEFINE s0 == Fresh(sessions)
             old == input[r].row
             new == [sessions[old] EXCEPT !.state = "pending"]
  <2>1. /\ TypeOK /\ RequestInv(r) /\ SessionsInv /\ TokensInv /\ AccountInv /\ ApartInv
        /\ pc[r] = "rotate" /\ s0 \in Sessions /\ sessions[s0].state = "none"
        /\ \A q \in Requests \ {r} : old \notin holds[q]
        /\ old \in Active /\ old \in Sessions
        /\ holds' = [holds EXCEPT ![r] = {old}]
        /\ sessions' = [sessions EXCEPT ![s0] = new]
        /\ made' = [made EXCEPT ![r] = s0]
        /\ Goto(r, "commit")
        /\ UNCHANGED <<account, tokens, input, seen, found, ghosts>>
    BY <1>2, FreshSession
    DEF Inv, Rotate, At, RotateCan, InsertReplacement, Unlocked, Active
  <2>2. /\ sessions \in [Sessions -> Session] /\ new \in Session
        /\ new.state = "pending" /\ new.chain = sessions[old].chain
        /\ new.password = sessions[old].password /\ old # s0
    BY <2>1 DEF TypeOK, StoreTypeOK, Session, Active
  <2>3. /\ sessions' \in [Sessions -> Session] /\ sessions'[s0] = new
        /\ \A s \in Sessions \ {s0} : sessions'[s] = sessions[s]
    BY <2>1, <2>2
  <2>4. pc'[r] = "commit" /\ holds'[r] = {old} /\ made'[r] = s0 /\ "commit" \in Points
    BY <2>1, AllPoints DEF Goto, TypeOK, StoreTypeOK
  <2>5. TypeOK'
    BY <2>1, <2>3, <2>4 DEF TypeOK, StoreTypeOK, Goto, ghosts
  <2>6. OthersWait(r)
    BY <2>1 DEF OthersWait, TypeOK, StoreTypeOK, Goto, ghosts, Inv, RequestInv, PasswordInv
  <2>7. Active' = Active
    BY <2>1, <2>2, <2>3 DEF Active
  <2>8. RequestInv(r)'
    <3>1. InputInv(r)'
      BY <2>1, <2>4 DEF InputInv, RequestInv
    <3>2. RowInv(r)'
      BY <2>1, <2>2, <2>3, <2>4, <2>7 DEF RowInv
    <3>3. PasswordInv(r)'
      BY <2>1, <2>4, <2>6 DEF PasswordInv, RequestInv, OthersWait, ghosts
    <3> QED
      BY <3>1, <3>2, <3>3 DEF RequestInv
  <2>9. \A q \in Requests \ {r} : RequestInv(q)'
    <3>1. LinksMoveOn /\ AccountMovesOn(r)
      BY <2>1 DEF LinksMoveOn, AccountMovesOn, Published, Closed, TypeOK, StoreTypeOK, Account,
                  ghosts
    <3>2. RowsAreKept(r)
      BY <2>1, <2>3 DEF RowsAreKept, Inv, RequestInv, RowInv, Active
    <3> QED
      BY <2>5, <2>6, <3>1, <3>2, OthersKeepInv
  <2>10. ApartInv'
    <3>1. ASSUME NEW q \in Requests \ {r}, pc[q] \in {"publish", "commit"}
          PROVE  made[q] # s0
      BY <2>1, <3>1, AccountsAssumption DEF Inv, RequestInv, RowInv
    <3>2. TakesNone(r)
      BY <2>1, <2>4, <3>1 DEF TakesNone
    <3> QED
      BY <2>6, <3>2, StayApart
  <2>11. SessionsInv'
    <3>1. ASSUME NEW s \in Sessions PROVE SessionInv(s)'
      BY <2>1, <2>2, <2>3 DEF SessionInv, SessionsInv, Active
    <3>2. OneActivePerLogin' /\ ResetEndsSessions'
      BY <2>1, <2>3, <2>7 DEF OneActivePerLogin, ResetEndsSessions, SessionsInv, Active, ghosts
    <3> QED
      BY <3>1, <3>2 DEF SessionsInv
  <2>12. TokensInv' /\ AccountInv'
    BY <2>1, TokensStay DEF AccountInv, ghosts
  <2>13. SpentInv'
    <3>1. Changing' \subseteq Changing /\ Spent' = Spent
      BY <2>1, <2>6 DEF Changing, Spent, Goto, TypeOK
    <3> QED
      BY <2>1, <3>1, SpentStay
  <2> QED
    BY <2>5, <2>8, <2>9, <2>10, <2>11, <2>12, <2>13 DEF Inv
<1> QED
  BY <1>1, <1>2

\* The commit of a rotation: the old session is revoked, its copy is active.
LEMMA RotatedSessions ==
    ASSUME NEW table \in [Sessions -> Session], NEW old \in Sessions, NEW new \in Sessions,
           NEW result, result = Set(Set(table, {old}, "revoked"), {new}, "active")
    PROVE  /\ result \in [Sessions -> Session]
           /\ \A s \in Sessions :
                 /\ result[s].state = IF s = new THEN "active"
                                      ELSE IF s = old THEN "revoked" ELSE table[s].state
                 /\ result[s].chain = table[s].chain
                 /\ result[s].password = table[s].password
                 /\ s \notin {old, new} => result[s] = table[s]
<1> DEFINE mid == Set(table, {old}, "revoked")
<1>1. "revoked" \in SessionStates /\ "active" \in SessionStates
  BY DEF SessionStates
<1>2. /\ mid \in [Sessions -> Session]
      /\ \A s \in Sessions :
            /\ mid[s].state = IF s \in {old} THEN "revoked" ELSE table[s].state
            /\ mid[s].chain = table[s].chain
            /\ mid[s].password = table[s].password
            /\ s \notin {old} => mid[s] = table[s]
  BY <1>1, SetSessions
<1>3. result = Set(mid, {new}, "active")
  OBVIOUS
<1> HIDE DEF mid
<1>4. /\ result \in [Sessions -> Session]
      /\ \A s \in Sessions :
            /\ result[s].state = IF s \in {new} THEN "active" ELSE mid[s].state
            /\ result[s].chain = mid[s].chain
            /\ result[s].password = mid[s].password
            /\ s \notin {new} => result[s] = mid[s]
  BY <1>1, <1>2, <1>3, SetSessions
<1> QED
  BY <1>2, <1>4

\* The copy takes the place of its chain's active session.
LEMMA RotationKeepsSessions ==
    ASSUME SessionsInv, NEW old \in Active, NEW new \in Sessions,
           sessions[new].state = "pending", sessions[new].chain = sessions[old].chain,
           sessions[new].password = sessions[old].password,
           \A s \in Sessions :
                 /\ sessions'[s].state = IF s = new THEN "active"
                                         ELSE IF s = old THEN "revoked" ELSE sessions[s].state
                 /\ sessions'[s].chain = sessions[s].chain
                 /\ sessions'[s].password = sessions[s].password,
           ended' = ended
    PROVE  SessionsInv'
<1>1. old \in Sessions /\ sessions[old].state = "active"
  BY DEF Active
<1>2. Active' = (Active \ {old}) \cup {new}
  BY <1>1 DEF Active
<1>3. ASSUME NEW s \in Sessions PROVE SessionInv(s)'
  <2>1. SessionInv(s) /\ SessionInv(new)
    BY DEF SessionsInv
  <2> QED
    BY <1>1, <2>1 DEF SessionInv
<1>4. ASSUME NEW s \in Active', NEW t \in Active', sessions'[s].chain = sessions'[t].chain
      PROVE  s = t
  <2>1. s \in Sessions /\ t \in Sessions
    BY DEF Active
  <2>2. sessions[s].chain = sessions[t].chain
    BY <1>4, <2>1
  <2> QED
    BY <1>2, <2>1, <2>2 DEF SessionsInv, OneActivePerLogin
<1>5. ASSUME NEW s \in Active' PROVE sessions'[s].password >= ended'
  <2>1. s \in Sessions /\ (s = new \/ s \in Active)
    BY <1>2 DEF Active
  <2> QED
    BY <2>1 DEF SessionsInv, ResetEndsSessions
<1> QED
  BY <1>3, <1>4, <1>5 DEF SessionsInv, OneActivePerLogin, ResetEndsSessions

\* The rotation commits.
LEMMA CommitInv ==
    ASSUME Inv, NEW r \in Requests, Commit(r)
    PROVE  Inv'
<1> DEFINE new == made[r]
           old == input[r].row
<1>1. /\ TypeOK /\ RequestInv(r) /\ SessionsInv /\ TokensInv /\ AccountInv /\ ApartInv
      /\ pc[r] = "commit"
      /\ sessions' = Set(Set(sessions, {old}, "revoked"), {new}, "active")
      /\ held' = held \cup {new}
      /\ Answer(r, "done")
      /\ UNCHANGED <<account, tokens, mailed, ended, served, faults, solo>>
  BY DEF Inv, Commit, At, CommitRotation
<1>2. /\ sessions \in [Sessions -> Session] /\ old \in Active /\ old \in Sessions /\ holds[r] = {old}
      /\ new \in Sessions /\ sessions[new].state = "pending"
      /\ sessions[new].chain = sessions[old].chain
      /\ sessions[new].password = sessions[old].password /\ new # old
  BY <1>1 DEF TypeOK, StoreTypeOK, RequestInv, RowInv, Active
<1> HIDE DEF new, old
<1>3. /\ sessions' \in [Sessions -> Session]
      /\ \A s \in Sessions :
            /\ sessions'[s].state = IF s = new THEN "active"
                                    ELSE IF s = old THEN "revoked" ELSE sessions[s].state
            /\ sessions'[s].chain = sessions[s].chain
            /\ sessions'[s].password = sessions[s].password
            /\ s \notin {old, new} => sessions'[s] = sessions[s]
  BY <1>1, <1>2, RotatedSessions
<1>4. Active' = (Active \ {old}) \cup {new} /\ new \notin Active
  BY <1>2, <1>3 DEF Active
<1>5. TypeOK'
  BY <1>1, <1>2, <1>3, AnswerLocals, OwnLocals DEF TypeOK, StoreTypeOK, new
<1>6. (\A q \in Requests : RequestInv(q)') /\ ApartInv'
  <2>1. LinksMoveOn /\ AccountMovesOn(r)
    BY <1>1 DEF LinksMoveOn, AccountMovesOn, Published, Closed, TypeOK, StoreTypeOK, Account
  <2>2. ASSUME NEW q \in Requests \ {r}, pc[q] = "commit"
        PROVE  made[q] \in Sessions \ {old, new} /\ input[q].row \in Sessions \ {old, new}
    <3> USE DEF new, old
    <3>1. /\ input[q].row \in Active /\ holds[q] = {input[q].row} /\ made[q] \in Sessions
          /\ sessions[made[q]].state = "pending"
      BY <2>2 DEF Inv, RequestInv, RowInv
    <3>2. holds[q] \cap holds[r] = {} /\ made[q] # made[r]
      BY <1>1, <2>2 DEF ApartInv
    <3> QED
      BY <1>2, <3>1, <3>2 DEF Active
  <2>3. RowsAreKept(r)
    BY <1>1, <1>3, <2>2 DEF RowsAreKept, Inv, RequestInv, RowInv
  <2> QED
    BY <1>1, <1>5, <2>1, <2>3, AnswerOthers
<1>7. SessionsInv'
  BY <1>1, <1>2, <1>3, RotationKeepsSessions
<1>8. TokensInv' /\ AccountInv' /\ SpentInv'
  BY <1>1, TokensStay, AnswerChanges, SpentStay DEF AccountInv, Spent
<1> QED
  BY <1>5, <1>6, <1>7, <1>8 DEF Inv

\* A reset or a change sets the password.
LEMMA UpdatePasswordInv ==
    ASSUME Inv, NEW r \in Requests, UpdatePassword(r)
    PROVE  Inv'
<1>1. /\ TypeOK /\ RequestInv(r) /\ SessionsInv /\ TokensInv /\ AccountInv /\ SpentInv
      /\ pc[r] = "password" /\ Goto(r, "sessions")
      /\ account' = [account EXCEPT !.password = @ + 1]
      /\ seen' = [seen EXCEPT ![r] = account']
      /\ UNCHANGED <<sessions, tokens, holds, input, found, made, ghosts>>
  BY DEF Inv, UpdatePassword, At
<1>2. /\ account \in Account /\ account.password \in Nat /\ ended \in Nat
      /\ account.exists
  BY <1>1 DEF TypeOK, StoreTypeOK, Account, RequestInv, InputInv
<1>3. /\ account' \in Account /\ account'.exists = account.exists
      /\ account'.password = account.password + 1 /\ account'.password \in Nat
  <2>1. account.password + 1 \in Nat
    BY <1>2
  <2>2. /\ account'.exists = account.exists
        /\ account'.password = account.password + 1
    BY <1>1, <1>2 DEF Account
  <2>3. account' \in Account
    BY <1>1, <1>2, <2>1 DEF Account
  <2> QED
    BY <2>1, <2>2, <2>3
<1>4. /\ pc'[r] = "sessions" /\ seen'[r] = account' /\ "sessions" \in Points
      /\ holds'[r] = {} /\ made'[r] = NoRow
  BY <1>1, AllPoints DEF Goto, TypeOK, RequestInv, RowInv
<1>5. TypeOK'
  BY <1>1, <1>3, <1>4 DEF TypeOK, StoreTypeOK, Goto, ghosts
<1>6. OthersWait(r)
  BY <1>1 DEF OthersWait, TypeOK, StoreTypeOK, Goto, ghosts, Inv, RequestInv, PasswordInv
<1>7. \A q \in Requests \ {r} : RequestInv(q)'
  <2>1. LinksMoveOn /\ AccountMovesOn(r)
    BY <1>1, <1>2, <1>3 DEF LinksMoveOn, AccountMovesOn, Published, Closed, ghosts
  <2>2. RowsAreKept(r)
    BY <1>1 DEF RowsAreKept, Inv, RequestInv, RowInv
  <2> QED
    BY <1>5, <1>6, <2>1, <2>2, OthersKeepInv
<1>8. RequestInv(r)'
  <2>1. InputInv(r)'
    BY <1>1, <1>4 DEF InputInv, RequestInv
  <2>2. RowInv(r)'
    BY <1>4 DEF RowInv
  <2>3. PasswordInv(r)'
    <3>1. seen'[r].password <= account'.password
      BY <1>3, <1>4
    <3>2. r \in solo' => \A q \in Requests \ {r} : pc'[q] = "idle"
      BY <1>1, <1>6 DEF PasswordInv, RequestInv, OthersWait, ghosts
    <3> QED
      BY <1>4, <3>1, <3>2 DEF PasswordInv
  <2> QED
    BY <2>1, <2>2, <2>3 DEF RequestInv
<1>9. ApartInv'
  <2>1. TakesNone(r)
    BY <1>4 DEF TakesNone
  <2> QED
    BY <1>6, <2>1, StayApart
<1>10. SessionsInv' /\ AccountInv'
  BY <1>1, <1>2, <1>3, SessionsStay DEF AccountInv, ghosts
<1>11. TokensInv'
  <2>1. ASSUME NEW t \in Tokens PROVE TokenInv(t)'
    BY <1>1, <1>2, <1>3 DEF TokensInv, TokenInv, Published, Closed
  <2>2. \A t \in mailed' : Published(t)'
    BY <1>1 DEF TokensInv, Published, ghosts
  <2> QED
    BY <2>1, <2>2 DEF TokensInv
<1>12. SpentInv'
  <2>1. Spent' = Spent
    BY <1>1 DEF Spent
  <2>2. Changing' = Changing \ {r} /\ r \in Changing
    BY <1>1, <1>4, <1>6 DEF Changing, OthersWait
  <2>3. Cardinality(Changing') = Cardinality(Changing) - 1
    BY <2>2, CountedFinite, FS_RemoveElement
  <2> QED
    BY <1>1, <1>2, <1>3, <2>1, <2>3, CountedFinite DEF SpentInv
<1> QED
  BY <1>5, <1>7, <1>8, <1>9, <1>10, <1>11, <1>12 DEF Inv

\* Older tokens of the purpose are closed, in the transaction of the next.
LEMMA ReplaceTokensInv ==
    ASSUME Inv, NEW r \in Requests, ReplaceTokens(r)
    PROVE  Inv'
<1> DEFINE t0 == Fresh(tokens)
           new == [state |-> "pending", purpose |-> Purpose(r), knew |-> found[r]]
<1>1. /\ TypeOK /\ RequestInv(r) /\ SessionsInv /\ TokensInv /\ AccountInv /\ ApartInv
      /\ pc[r] = "replace" /\ t0 \in Tokens /\ tokens[t0].state = "none"
      /\ \A q \in Requests \ {r} : holds[q] \cap found[r] = {}
      /\ holds' = [holds EXCEPT ![r] = Still(found[r], Purpose(r))]
      /\ tokens' = [tokens EXCEPT ![t0] = new]
      /\ made' = [made EXCEPT ![r] = t0]
      /\ Goto(r, "publish")
      /\ UNCHANGED <<account, sessions, input, seen, found, ghosts>>
  BY FreshToken DEF Inv, ReplaceTokens, At, InsertToken, Unlocked
<1>2. /\ tokens \in [Tokens -> Token] /\ account.exists
      /\ found[r] \subseteq Tokens
      /\ \A t \in found[r] : Published(t) /\ tokens[t].purpose = Purpose(r)
  BY <1>1 DEF TypeOK, StoreTypeOK, RequestInv, RowInv, InputInv
<1>3. Purpose(r) \in Purposes /\ new \in Token
  BY <1>2 DEF Purpose, Purposes, Token
<1>4. /\ tokens' \in [Tokens -> Token] /\ tokens'[t0] = new
      /\ \A t \in Tokens \ {t0} : tokens'[t] = tokens[t]
  BY <1>1, <1>2, <1>3
<1>5. Still(found[r], Purpose(r)) \subseteq found[r] \cap Tokens
  BY <1>2 DEF Still, Open
<1>6. /\ pc'[r] = "publish" /\ holds'[r] = Still(found[r], Purpose(r)) /\ made'[r] = t0
      /\ "publish" \in Points
  BY <1>1, AllPoints DEF Goto, TypeOK, StoreTypeOK
<1>7. TypeOK'
  BY <1>1, <1>4, <1>5, <1>6 DEF TypeOK, StoreTypeOK, Goto, ghosts
<1>8. OthersWait(r)
  BY <1>1 DEF OthersWait, TypeOK, StoreTypeOK, Goto, ghosts, Inv, RequestInv, PasswordInv
<1>9. LinksMoveOn
  BY <1>1, <1>4 DEF LinksMoveOn, Published, Closed
<1>10. \A q \in Requests \ {r} : RequestInv(q)'
  <2>1. AccountMovesOn(r)
    BY <1>1 DEF AccountMovesOn, TypeOK, StoreTypeOK, Account, ghosts
  <2>2. ASSUME NEW q \in Requests \ {r}, pc[q] = "publish"
        PROVE  /\ made[q] \in Tokens \ {t0}
               /\ \A t \in holds[q] : t \in Tokens \ {t0} /\ tokens[t].state \in {"open", "expired"}
    BY <1>1, <2>2 DEF Inv, RequestInv, RowInv
  <2>3. RowsAreKept(r)
    BY <1>1, <1>4, <2>2 DEF RowsAreKept
  <2> QED
    BY <1>7, <1>8, <1>9, <2>1, <2>3, OthersKeepInv
<1>11. RequestInv(r)'
  <2>1. InputInv(r)'
    BY <1>1, <1>2, <1>6 DEF InputInv, RequestInv
  <2>2. RowInv(r)'
    <3>1. holds'[r] \subseteq Tokens /\ made'[r] \in Tokens /\ tokens'[made'[r]].state = "pending"
      BY <1>1, <1>4, <1>5, <1>6
    <3>2. \A t \in holds'[r] : tokens'[t].state \in {"open", "expired"}
      BY <1>1, <1>2, <1>4, <1>5, <1>6 DEF Still, Open
    <3>3. ASSUME NEW t \in tokens'[made'[r]].knew PROVE t \in holds'[r] \/ Closed(t)'
      <4>1. t \in found[r] /\ t \in Tokens \ {t0} /\ tokens'[t] = tokens[t]
        BY <1>1, <1>2, <1>4, <1>6 DEF Published
      <4>2. CASE tokens[t].state = "open"
        BY <1>2, <1>6, <4>1, <4>2 DEF Still, Open
      <4>3. CASE tokens[t].state # "open"
        <5>1. tokens[t].state \in {"none", "pending", "open", "used", "deleted", "expired"}
          BY <1>2, <4>1 DEF Token
        <5> QED
          BY <1>2, <4>1, <4>3, <5>1 DEF Closed, Published
      <4> QED
        BY <4>2, <4>3
    <3> QED
      BY <1>6, <3>1, <3>2, <3>3 DEF RowInv
  <2>3. PasswordInv(r)'
    BY <1>1, <1>6, <1>8 DEF PasswordInv, RequestInv, OthersWait, ghosts
  <2> QED
    BY <2>1, <2>2, <2>3 DEF RequestInv
<1>12. ApartInv'
  <2>1. ASSUME NEW q \in Requests \ {r}, pc[q] \in {"publish", "commit"}
        PROVE  made[q] # t0
    BY <1>1, <2>1, AccountsAssumption DEF Inv, RequestInv, RowInv
  <2>2. TakesNone(r)
    BY <1>1, <1>5, <1>6, <2>1 DEF TakesNone
  <2> QED
    BY <1>8, <2>2, StayApart
<1>13. SessionsInv' /\ AccountInv'
  BY <1>1, SessionsStay DEF AccountInv, ghosts
<1>14. TokensInv'
  <2>1. ASSUME NEW t \in Tokens PROVE TokenInv(t)'
    <3>1. CASE t = t0
      BY <1>1, <1>2, <1>4, <1>9, <3>1 DEF TokenInv, LinksMoveOn, Published
    <3>2. CASE t # t0
      <4>1. TokenInv(t) /\ tokens'[t] = tokens[t] /\ tokens[t].knew \subseteq Tokens
        BY <1>1, <1>2, <1>4, <3>2 DEF TokensInv, Token
      <4>2. Published(t)' <=> Published(t)
        BY <4>1 DEF Published
      <4> QED
        BY <1>1, <1>9, <4>1, <4>2 DEF TokenInv, LinksMoveOn
    <3> QED
      BY <3>1, <3>2
  <2>2. \A t \in mailed' : Published(t)'
    BY <1>1, <1>9 DEF TokensInv, LinksMoveOn, ghosts, TypeOK
  <2> QED
    BY <2>1, <2>2 DEF TokensInv
<1>15. SpentInv'
  <2>1. Changing' \subseteq Changing
    BY <1>6, <1>8 DEF Changing, OthersWait
  <2>2. Spent \subseteq Spent'
    BY <1>1, <1>4 DEF Spent
  <2> QED
    BY <1>1, <2>1, <2>2, SpentStay
<1> QED
  BY <1>7, <1>10, <1>11, <1>12, <1>13, <1>14, <1>15 DEF Inv

\* The commit of a replacement: the links it holds are deleted, its own is open.
LEMMA ReplacedTokens ==
    ASSUME NEW table \in [Tokens -> Token], NEW deleted, NEW new \in Tokens,
           NEW result, result = Set(Set(table, deleted, "deleted"), {new}, "open")
    PROVE  /\ result \in [Tokens -> Token]
           /\ \A t \in Tokens :
                 /\ result[t].state = IF t = new THEN "open"
                                      ELSE IF t \in deleted THEN "deleted" ELSE table[t].state
                 /\ result[t].purpose = table[t].purpose
                 /\ result[t].knew = table[t].knew
                 /\ t \notin deleted \cup {new} => result[t] = table[t]
<1> DEFINE mid == Set(table, deleted, "deleted")
<1>1. "deleted" \in TokenStates /\ "open" \in TokenStates
  BY DEF TokenStates
<1>2. /\ mid \in [Tokens -> Token]
      /\ \A t \in Tokens :
            /\ mid[t].state = IF t \in deleted THEN "deleted" ELSE table[t].state
            /\ mid[t].purpose = table[t].purpose
            /\ mid[t].knew = table[t].knew
            /\ t \notin deleted => mid[t] = table[t]
  BY <1>1, SetTokens
<1>3. result = Set(mid, {new}, "open")
  OBVIOUS
<1> HIDE DEF mid
<1>4. /\ result \in [Tokens -> Token]
      /\ \A t \in Tokens :
            /\ result[t].state = IF t \in {new} THEN "open" ELSE mid[t].state
            /\ result[t].purpose = mid[t].purpose
            /\ result[t].knew = mid[t].knew
            /\ t \notin {new} => result[t] = mid[t]
  BY <1>1, <1>2, <1>3, SetTokens
<1> QED
  BY <1>2, <1>4

\* The next token is committed.
LEMMA PublishTokenInv ==
    ASSUME Inv, NEW r \in Requests, PublishToken(r)
    PROVE  Inv'
<1> DEFINE new == made[r]
           gone == holds[r]
<1>1. /\ TypeOK /\ RequestInv(r) /\ SessionsInv /\ TokensInv /\ AccountInv /\ ApartInv
      /\ pc[r] = "publish"
      /\ tokens' = Set(Set(tokens, gone, "deleted"), {new}, "open")
      /\ holds' = [holds EXCEPT ![r] = {}]
      /\ Goto(r, "mail")
      /\ UNCHANGED <<account, sessions, local, ghosts>>
  BY DEF Inv, PublishToken, At, CommitToken
<1>2. /\ tokens \in [Tokens -> Token]
      /\ new \in Tokens /\ tokens[new].state = "pending" /\ gone \subseteq Tokens
      /\ \A t \in gone : tokens[t].state \in {"open", "expired"}
      /\ \A t \in tokens[new].knew : t \in gone \/ Closed(t)
  BY <1>1 DEF TypeOK, StoreTypeOK, RequestInv, RowInv
<1>3. /\ pc'[r] = "mail" /\ holds'[r] = {} /\ made'[r] = new /\ "mail" \in Points
  BY <1>1, AllPoints DEF Goto, TypeOK, StoreTypeOK, local
<1>4. /\ tokens' \in [Tokens -> Token]
      /\ \A t \in Tokens :
            /\ tokens'[t].state = IF t = new THEN "open"
                                  ELSE IF t \in gone THEN "deleted" ELSE tokens[t].state
            /\ tokens'[t].purpose = tokens[t].purpose
            /\ tokens'[t].knew = tokens[t].knew
            /\ t \notin gone \cup {new} => tokens'[t] = tokens[t]
  BY <1>1, <1>2, ReplacedTokens
<1>5. TypeOK'
  BY <1>1, <1>3, <1>4 DEF TypeOK, StoreTypeOK, Goto, local, ghosts
<1>6. OthersWait(r)
  BY <1>1 DEF OthersWait, TypeOK, StoreTypeOK, Goto, local, ghosts, Inv, RequestInv, PasswordInv
<1>7. ApartInv'
  <2>1. TakesNone(r)
    BY <1>3 DEF TakesNone
  <2> QED
    BY <1>6, <2>1, StayApart
<1>8. ASSUME NEW q \in Requests \ {r}, pc[q] = "publish"
      PROVE  /\ made[q] \in Tokens \ (gone \cup {new})
             /\ \A t \in holds[q] : /\ t \in Tokens \ (gone \cup {new})
                                    /\ tokens[t].state \in {"open", "expired"}
  <2>1. /\ made[q] \in Tokens /\ tokens[made[q]].state = "pending" /\ holds[q] \subseteq Tokens
        /\ \A t \in holds[q] : tokens[t].state \in {"open", "expired"}
    BY <1>8 DEF Inv, RequestInv, RowInv
  <2>2. holds[q] \cap holds[r] = {} /\ made[q] # made[r]
    BY <1>1, <1>8 DEF ApartInv
  <2> QED
    BY <1>2, <2>1, <2>2
<1> HIDE DEF new, gone
<1>9. LinksMoveOn
  BY <1>2, <1>4 DEF LinksMoveOn, Published, Closed
<1>10. \A q \in Requests \ {r} : RequestInv(q)'
  <2>1. AccountMovesOn(r)
    BY <1>1 DEF AccountMovesOn, TypeOK, StoreTypeOK, Account, ghosts
  <2>2. RowsAreKept(r)
    BY <1>1, <1>4, <1>8 DEF RowsAreKept
  <2> QED
    BY <1>5, <1>6, <1>9, <2>1, <2>2, OthersKeepInv
<1>11. RequestInv(r)'
  <2>1. InputInv(r)'
    BY <1>1, <1>3 DEF InputInv, RequestInv, local
  <2>2. RowInv(r)'
    BY <1>2, <1>3, <1>4 DEF RowInv, Published
  <2>3. PasswordInv(r)'
    BY <1>1, <1>3, <1>6 DEF PasswordInv, RequestInv, OthersWait, ghosts
  <2> QED
    BY <2>1, <2>2, <2>3 DEF RequestInv
<1>12. SessionsInv' /\ AccountInv'
  BY <1>1, SessionsStay DEF AccountInv, ghosts
<1>13. TokensInv'
  <2>1. ASSUME NEW t \in Tokens PROVE TokenInv(t)'
    <3>1. TokenInv(t) /\ tokens'[t].knew = tokens[t].knew /\ tokens[t].knew \subseteq Tokens
      BY <1>1, <1>2, <1>4 DEF TokensInv, Token
    <3>2. \A u \in tokens'[t].knew : Published(u)'
      BY <1>9, <3>1 DEF TokenInv, LinksMoveOn
    <3>3. tokens'[t].state # "none" => account'.exists
      BY <1>1, <1>2, <1>4, <3>1 DEF TokenInv
    <3>4. ASSUME Published(t)', NEW u \in tokens'[t].knew PROVE Closed(u)'
      <4>1. CASE t = new
        BY <1>2, <1>4, <1>9, <3>1, <3>4, <4>1 DEF LinksMoveOn, Closed
      <4>2. CASE t # new
        BY <1>2, <1>4, <1>9, <3>1, <3>4, <4>2 DEF LinksMoveOn, TokenInv, Published
      <4> QED
        BY <4>1, <4>2
    <3> QED
      BY <3>2, <3>3, <3>4 DEF TokenInv
  <2>2. \A t \in mailed' : Published(t)'
    BY <1>1, <1>9 DEF TokensInv, LinksMoveOn, ghosts, TypeOK
  <2> QED
    BY <2>1, <2>2 DEF TokensInv
<1>14. SpentInv'
  <2>1. Changing' \subseteq Changing
    BY <1>3, <1>6 DEF Changing, OthersWait
  <2>2. Spent \subseteq Spent'
    BY <1>2, <1>4 DEF Spent
  <2> QED
    BY <1>1, <2>1, <2>2, SpentStay
<1> QED
  BY <1>5, <1>7, <1>10, <1>11, <1>12, <1>13, <1>14 DEF Inv

\* A link that leaves "open" for good, unless a transaction is about to delete it.
LEMMA LinkCloses ==
    ASSUME Inv, NEW t0 \in Tokens, tokens[t0].state = "open",
           NEW state \in {"used", "expired"}, tokens' = Set(tokens, {t0}, state)
    PROVE  /\ tokens' \in [Tokens -> Token]
           /\ \A t \in Tokens :
                 /\ tokens'[t].state = IF t = t0 THEN state ELSE tokens[t].state
                 /\ tokens'[t].purpose = tokens[t].purpose
                 /\ tokens'[t].knew = tokens[t].knew
                 /\ t # t0 => tokens'[t] = tokens[t]
           /\ LinksMoveOn
           /\ (account.exists => account'.exists) /\ mailed' = mailed => TokensInv'
<1>1. tokens \in [Tokens -> Token] /\ TokensInv /\ mailed \subseteq Tokens
  BY DEF Inv, TypeOK, StoreTypeOK
<1>2. state \in TokenStates
  BY DEF TokenStates
<1>3. /\ tokens' \in [Tokens -> Token]
      /\ \A t \in Tokens :
            /\ tokens'[t].state = IF t = t0 THEN state ELSE tokens[t].state
            /\ tokens'[t].purpose = tokens[t].purpose
            /\ tokens'[t].knew = tokens[t].knew
            /\ t # t0 => tokens'[t] = tokens[t]
  <2>1. /\ Set(tokens, {t0}, state) \in [Tokens -> Token]
        /\ \A t \in Tokens :
              /\ Set(tokens, {t0}, state)[t].state = IF t \in {t0} THEN state ELSE tokens[t].state
              /\ Set(tokens, {t0}, state)[t].purpose = tokens[t].purpose
              /\ Set(tokens, {t0}, state)[t].knew = tokens[t].knew
              /\ t \notin {t0} => Set(tokens, {t0}, state)[t] = tokens[t]
    BY <1>1, <1>2, SetTokens
  <2> QED
    BY <2>1
<1>4. LinksMoveOn
  BY <1>3 DEF LinksMoveOn, Published, Closed
<1>5. ASSUME account.exists => account'.exists, mailed' = mailed PROVE TokensInv'
  <2>1. ASSUME NEW t \in Tokens PROVE TokenInv(t)'
    <3>1. /\ TokenInv(t) /\ tokens'[t].knew = tokens[t].knew /\ tokens[t].knew \subseteq Tokens
          /\ (Published(t)' <=> Published(t))
          /\ (tokens'[t].state = "none" <=> tokens[t].state = "none")
      BY <1>1, <1>3 DEF TokensInv, Token, Published
    <3> QED
      BY <1>4, <1>5, <3>1 DEF TokenInv, LinksMoveOn
  <2>2. \A t \in mailed' : Published(t)'
    BY <1>1, <1>4, <1>5 DEF TokensInv, LinksMoveOn
  <2> QED
    BY <2>1, <2>2 DEF TokensInv
<1> QED
  BY <1>3, <1>4, <1>5

\* A token is consumed, once.
LEMMA ConsumeTokenInv ==
    ASSUME Inv, NEW r \in Requests, ConsumeToken(r)
    PROVE  Inv'
<1>1. CASE Refuse(r)
  BY <1>1, RefuseInv DEF ConsumeToken, At
<1>2. CASE ~Refuse(r)
  <2> DEFINE t0 == input[r].row
             point == IF input[r].op = "reset" THEN "password" ELSE "verify"
  <2>1. /\ TypeOK /\ RequestInv(r) /\ SessionsInv /\ TokensInv /\ AccountInv /\ SpentInv
        /\ pc[r] = "consume" /\ \A q \in Requests \ {r} : t0 \notin holds[q]
        /\ tokens[t0].state = "open" /\ tokens[t0].purpose = Purpose(r)
        /\ tokens' = Set(tokens, {t0}, "used")
        /\ Goto(r, point)
        /\ UNCHANGED <<account, sessions, holds, local, ghosts>>
    BY <1>2 DEF Inv, ConsumeToken, At, ConsumeCan, Consume, Open, Unlocked
  <2>2. t0 \in Tokens /\ account.exists /\ input[r].op \in {"confirm", "reset"}
    BY <2>1 DEF RequestInv, InputInv, TokensInv, TokenInv
  <2>3. /\ tokens' \in [Tokens -> Token]
        /\ \A t \in Tokens :
              /\ tokens'[t].state = IF t = t0 THEN "used" ELSE tokens[t].state
              /\ tokens'[t].purpose = tokens[t].purpose
              /\ tokens'[t].knew = tokens[t].knew
              /\ t # t0 => tokens'[t] = tokens[t]
        /\ LinksMoveOn
        /\ TokensInv'
    BY <2>1, <2>2, LinkCloses DEF ghosts
  <2>4. pc'[r] = point /\ point \in {"password", "verify"} /\ point \in Points
    BY <2>1, AllPoints DEF Goto, TypeOK
  <2>5. /\ input' = input /\ holds'[r] = {} /\ made'[r] = NoRow
    BY <2>1 DEF local, RequestInv, RowInv
  <2>6. TypeOK'
    BY <2>1, <2>3, <2>4 DEF TypeOK, StoreTypeOK, Goto, local, ghosts
  <2>7. OthersWait(r)
    BY <2>1 DEF OthersWait, TypeOK, StoreTypeOK, Goto, local, ghosts, Inv, RequestInv, PasswordInv
  <2>8. ApartInv'
    <3>1. TakesNone(r)
      BY <2>4, <2>5 DEF TakesNone
    <3> QED
      BY <2>7, <3>1, StayApart
  <2>9. RowsAreKept(r)
    <3>1. ASSUME NEW q \in Requests \ {r}, pc[q] = "publish"
          PROVE  /\ made[q] \in Tokens \ {t0}
                 /\ \A t \in holds[q] : t \in Tokens \ {t0} /\ tokens[t].state \in {"open", "expired"}
      BY <2>1, <3>1 DEF Inv, RequestInv, RowInv
    <3> QED
      BY <2>1, <2>3, <3>1 DEF RowsAreKept
  <2>10. \A q \in Requests \ {r} : RequestInv(q)'
    <3>1. AccountMovesOn(r)
      BY <2>1 DEF AccountMovesOn, TypeOK, StoreTypeOK, Account, ghosts
    <3> QED
      BY <2>3, <2>6, <2>7, <2>9, <3>1, OthersKeepInv
  <2>11. RequestInv(r)'
    <3>1. InputInv(r)'
      BY <2>1, <2>2, <2>4, <2>5 DEF InputInv, RequestInv
    <3>2. RowInv(r)'
      BY <2>4, <2>5 DEF RowInv
    <3>3. PasswordInv(r)'
      BY <2>1, <2>4, <2>7 DEF PasswordInv, RequestInv, OthersWait, ghosts
    <3> QED
      BY <3>1, <3>2, <3>3 DEF RequestInv
  <2>12. SessionsInv' /\ AccountInv'
    BY <2>1, SessionsStay DEF AccountInv, ghosts
  <2>13. SpentInv'
    <3>1. CASE input[r].op = "confirm"
      <4>1. Changing' \subseteq Changing
        BY <2>4, <2>7, <3>1 DEF Changing, OthersWait
      <4>2. Spent \subseteq Spent'
        BY <2>1, <2>3 DEF Spent
      <4> QED
        BY <2>1, <4>1, <4>2, SpentStay
    <3>2. CASE input[r].op = "reset"
      <4>1. Changing' = Changing \cup {r} /\ r \notin Changing
        BY <2>1, <2>4, <2>7, <3>2 DEF Changing, OthersWait
      <4>2. Spent' = Spent \cup {t0} /\ t0 \notin Spent
        <5>1. tokens[t0].purpose = "password_reset"
          BY <2>1, <3>2 DEF Purpose
        <5>2. t0 \notin Spent
          BY <2>1 DEF Spent
        <5>3. \A t \in Tokens : t \in Spent' <=> t \in Spent \/ t = t0
          BY <2>3, <5>1 DEF Spent
        <5>4. Spent \subseteq Tokens /\ Spent' \subseteq Tokens
          BY DEF Spent
        <5> QED
          BY <2>2, <5>2, <5>3, <5>4
      <4>3. /\ Cardinality(Changing') = Cardinality(Changing) + 1
            /\ Cardinality(Spent') = Cardinality(Spent) + 1
        BY <4>1, <4>2, CountedFinite, FS_AddElement
      <4>4. account.password \in Nat
        BY <2>1, OwnLocals
      <4> QED
        BY <2>1, <4>3, <4>4, CountedFinite DEF SpentInv
    <3> QED
      BY <2>2, <3>1, <3>2
  <2> QED
    BY <2>3, <2>6, <2>8, <2>10, <2>11, <2>12, <2>13 DEF Inv
<1> QED
  BY <1>1, <1>2

\* A rolled back transaction takes back only the row that it had inserted.
LEMMA RolledBack ==
    ASSUME TypeOK, NEW x,
           sessions' = WithoutPending(sessions, x, UnusedSession),
           tokens' = WithoutPending(tokens, x, UnusedToken)
    PROVE  /\ sessions' \in [Sessions -> Session] /\ tokens' \in [Tokens -> Token]
           /\ \A s \in Sessions : sessions'[s] =
                 IF s = x /\ sessions[s].state = "pending" THEN UnusedSession ELSE sessions[s]
           /\ \A t \in Tokens : tokens'[t] =
                 IF t = x /\ tokens[t].state = "pending" THEN UnusedToken ELSE tokens[t]
<1>1. sessions \in [Sessions -> Session] /\ tokens \in [Tokens -> Token]
  BY DEF TypeOK, StoreTypeOK
<1>2. UnusedSession \in Session /\ UnusedToken \in Token
  BY DEF UnusedSession, UnusedToken, Session, Token, Purposes
<1>3. /\ sessions' \in [Sessions -> Session]
      /\ \A s \in Sessions : sessions'[s] =
            IF s = x /\ sessions[s].state = "pending" THEN UnusedSession ELSE sessions[s]
  BY <1>1, <1>2 DEF WithoutPending
<1>4. /\ tokens' \in [Tokens -> Token]
      /\ \A t \in Tokens : tokens'[t] =
            IF t = x /\ tokens[t].state = "pending" THEN UnusedToken ELSE tokens[t]
  BY <1>1, <1>2 DEF WithoutPending
<1> QED
  BY <1>3, <1>4

\* A statement fails, and the transaction it belongs to is rolled back.
LEMMA ErrInv ==
    ASSUME Inv, NEW r \in Requests, Err(r)
    PROVE  Inv'
<1> DEFINE x == made[r]
<1>1. /\ TypeOK /\ RequestInv(r) /\ SessionsInv /\ TokensInv /\ AccountInv /\ ApartInv
      /\ pc[r] # "idle" /\ faults < MaxFaults /\ faults' = faults + 1
      /\ sessions' = WithoutPending(sessions, x, UnusedSession)
      /\ tokens' = WithoutPending(tokens, x, UnusedToken)
      /\ Answer(r, "error")
      /\ UNCHANGED <<account, held, mailed, ended, served, solo>>
  BY DEF Inv, Err, At
<1>2. /\ sessions' \in [Sessions -> Session] /\ tokens' \in [Tokens -> Token]
      /\ \A s \in Sessions : sessions'[s] =
            IF s = x /\ sessions[s].state = "pending" THEN UnusedSession ELSE sessions[s]
      /\ \A t \in Tokens : tokens'[t] =
            IF t = x /\ tokens[t].state = "pending" THEN UnusedToken ELSE tokens[t]
  BY <1>1, RolledBack
<1>3. faults' \in 0..MaxFaults
  BY <1>1, AccountsAssumption DEF TypeOK
<1>4. TypeOK'
  BY <1>1, <1>2, <1>3, AnswerLocals DEF TypeOK, StoreTypeOK
<1>5. ASSUME NEW q \in Requests \ {r}, pc[q] \in {"publish", "commit"}
      PROVE  made[q] # x
  <2>1. made[q] \in Sessions \cup Tokens /\ ApartInv
    BY <1>1, <1>5 DEF Inv, RequestInv, RowInv
  <2>2. CASE pc[r] \in {"publish", "commit"}
    BY <1>5, <2>1, <2>2 DEF ApartInv
  <2>3. CASE pc[r] = "mail"
    <3>1. x \in Tokens /\ Published(x)
      BY <1>1, <2>3 DEF RequestInv, RowInv
    <3>2. \/ made[q] \in Sessions
          \/ made[q] \in Tokens /\ tokens[made[q]].state = "pending"
      BY <1>5 DEF Inv, RequestInv, RowInv
    <3> QED
      BY <3>1, <3>2, AccountsAssumption DEF Published
  <2>4. CASE pc[r] \notin {"publish", "commit", "mail"}
    BY <1>1, <2>1, <2>4, AccountsAssumption DEF RequestInv, RowInv
  <2> QED
    BY <2>2, <2>3, <2>4
<1> HIDE DEF x
<1>6. LinksMoveOn
  BY <1>2 DEF LinksMoveOn, Published, Closed
<1>7. (\A q \in Requests : RequestInv(q)') /\ ApartInv'
  <2>1. AccountMovesOn(r)
    BY <1>1 DEF AccountMovesOn, TypeOK, StoreTypeOK, Account
  <2>2. ASSUME NEW q \in Requests \ {r}, pc[q] = "publish"
        PROVE  /\ tokens'[made[q]] = tokens[made[q]]
               /\ \A t \in holds[q] : tokens'[t].state \in {"open", "expired"}
    <3>1. /\ made[q] \in Tokens /\ holds[q] \subseteq Tokens
          /\ \A t \in holds[q] : tokens[t].state \in {"open", "expired"}
      BY <2>2 DEF Inv, RequestInv, RowInv
    <3> QED
      BY <1>2, <1>5, <2>2, <3>1
  <2>3. ASSUME NEW q \in Requests \ {r}, pc[q] = "commit"
        PROVE  /\ sessions'[made[q]] = sessions[made[q]]
               /\ sessions'[input[q].row] = sessions[input[q].row]
    <3>1. made[q] \in Sessions /\ input[q].row \in Active
      BY <2>3 DEF Inv, RequestInv, RowInv
    <3> QED
      BY <1>2, <1>5, <2>3, <3>1 DEF Active
  <2>4. RowsAreKept(r)
    BY <2>2, <2>3 DEF RowsAreKept
  <2> QED
    BY <1>1, <1>4, <1>6, <2>1, <2>4, AnswerOthers
<1>8. SessionsInv'
  <2>1. ASSUME NEW s \in Sessions PROVE SessionInv(s)'
    BY <1>1, <1>2 DEF SessionInv, SessionsInv, UnusedSession
  <2>2. Active' = Active /\ \A s \in Active : sessions'[s] = sessions[s]
    BY <1>2 DEF Active, UnusedSession
  <2> QED
    BY <1>1, <2>1, <2>2 DEF SessionsInv, OneActivePerLogin, ResetEndsSessions
<1>9. TokensInv'
  <2>1. ASSUME NEW t \in Tokens PROVE TokenInv(t)'
    <3>1. TokenInv(t) /\ tokens[t].knew \subseteq Tokens
      BY <1>1 DEF TokensInv, TypeOK, StoreTypeOK, Token
    <3>2. CASE tokens'[t] = UnusedToken
      BY <3>2 DEF TokenInv, UnusedToken, Published
    <3>3. CASE tokens'[t] = tokens[t]
      <4>1. Published(t)' <=> Published(t)
        BY <3>3 DEF Published
      <4> QED
        BY <1>1, <1>6, <3>1, <3>3, <4>1 DEF TokenInv, LinksMoveOn
    <3> QED
      BY <1>2, <3>2, <3>3
  <2>2. \A t \in mailed' : Published(t)'
    BY <1>1, <1>6 DEF TokensInv, LinksMoveOn, TypeOK
  <2> QED
    BY <2>1, <2>2 DEF TokensInv
<1>10. AccountInv' /\ SpentInv'
  <2>1. Spent \subseteq Spent'
    BY <1>2 DEF Spent
  <2> QED
    BY <1>1, <2>1, AnswerChanges, SpentStay DEF AccountInv
<1> QED
  BY <1>4, <1>7, <1>8, <1>9, <1>10 DEF Inv

\* expires_at passes: no request moves.
LEMMA ExpireInv ==
    ASSUME Inv, Expire
    PROVE  Inv'
<1>1. /\ TypeOK /\ SessionsInv /\ TokensInv /\ AccountInv /\ SpentInv /\ ApartInv
      /\ \A q \in Requests : RequestInv(q)
      /\ UNCHANGED <<account, holds, pc, local, outcome, ghosts>>
  BY DEF Inv, Expire
<1>2. CASE \E s \in Sessions : ExpireSession(s) /\ UNCHANGED tokens
  <2>1. PICK s0 \in Sessions : ExpireSession(s0) /\ UNCHANGED tokens
    BY <1>2
  <2>2. /\ {s0} \in SUBSET Active /\ sessions' = Set(sessions, {s0}, "expired")
        /\ \A q \in Requests : s0 \notin holds[q]
    BY <1>1, <2>1 DEF ExpireSession, TypeOK, StoreTypeOK
  <2>3. /\ sessions' \in [Sessions -> Session]
        /\ \A s \in Sessions : SessionInv(s)'
        /\ OneActivePerLogin'
        /\ Active' = Active \ {s0}
        /\ \A s \in Sessions : sessions'[s].password = sessions[s].password
    BY <2>2, SessionsEnd
  <2>4. \A s \in Sessions : s # s0 => sessions'[s] = sessions[s]
    <3>1. sessions \in [Sessions -> Session] /\ "expired" \in SessionStates
      BY <1>1 DEF TypeOK, StoreTypeOK, SessionStates
    <3> QED
      BY <2>2, <3>1, SetSessions
  <2>5. TypeOK'
    BY <1>1, <2>1, <2>3 DEF TypeOK, StoreTypeOK, local, ghosts
  <2>6. ASSUME NEW q \in Requests PROVE RequestInv(q)'
    <3>1. InputInv(q)'
      BY <1>1, <2>1 DEF RequestInv, InputInv, Published, local
    <3>2. PasswordInv(q)'
      BY <1>1, <2>3 DEF RequestInv, PasswordInv, local, ghosts
    <3>3. RowInv(q)'
      <4>1. Purpose(q)' = Purpose(q)
        BY <1>1 DEF Purpose, local
      <4>2. CASE pc[q] # "commit"
        BY <1>1, <2>1, <4>1, <4>2 DEF RequestInv, RowInv, Published, Closed, local
      <4>3. CASE pc[q] = "commit"
        <5>1. /\ made[q] \in Sessions \ {s0} /\ input[q].row \in Sessions \ {s0}
              /\ input[q].row \in Active
          BY <1>1, <2>2, <4>3 DEF RequestInv, RowInv, Active
        <5> QED
          BY <1>1, <2>3, <2>4, <4>3, <5>1 DEF RequestInv, RowInv, local
      <4> QED
        BY <4>2, <4>3
    <3> QED
      BY <3>1, <3>2, <3>3 DEF RequestInv
  <2>7. ResetEndsSessions'
    BY <1>1, <2>3 DEF ResetEndsSessions, SessionsInv, Active, ghosts
  <2>8. ApartInv'
    BY <1>1 DEF ApartInv, local
  <2>9. TokensInv' /\ AccountInv'
    BY <1>1, <2>1, TokensStay DEF AccountInv, ghosts
  <2>10. SpentInv'
    BY <1>1, <2>1 DEF SpentInv, Spent, Changing
  <2> QED
    BY <2>3, <2>5, <2>6, <2>7, <2>8, <2>9, <2>10 DEF Inv, SessionsInv
<1>3. CASE \E t \in Tokens : ExpireToken(t) /\ UNCHANGED sessions
  <2>1. PICK t0 \in Tokens : ExpireToken(t0) /\ UNCHANGED sessions
    BY <1>3
  <2>2. tokens[t0].state = "open" /\ tokens' = Set(tokens, {t0}, "expired")
    BY <2>1 DEF ExpireToken
  <2>3. /\ tokens' \in [Tokens -> Token]
        /\ \A t \in Tokens :
              /\ tokens'[t].state = IF t = t0 THEN "expired" ELSE tokens[t].state
              /\ tokens'[t].purpose = tokens[t].purpose
              /\ tokens'[t].knew = tokens[t].knew
              /\ t # t0 => tokens'[t] = tokens[t]
        /\ LinksMoveOn
        /\ TokensInv'
    BY <1>1, <2>2, LinkCloses DEF ghosts
  <2>4. TypeOK'
    BY <1>1, <2>1, <2>3 DEF TypeOK, StoreTypeOK, local, ghosts
  <2>5. Active' = Active
    BY <2>1 DEF Active
  <2>6. ASSUME NEW q \in Requests PROVE RequestInv(q)'
    <3>1. InputInv(q)'
      BY <1>1, <2>3 DEF RequestInv, InputInv, LinksMoveOn, local
    <3>2. PasswordInv(q)'
      BY <1>1, <2>5 DEF RequestInv, PasswordInv, local, ghosts
    <3>3. RowInv(q)'
      <4>1. Purpose(q)' = Purpose(q)
        BY <1>1 DEF Purpose, local
      <4>2. CASE pc[q] = "commit"
        BY <1>1, <2>1, <2>5, <4>2 DEF RequestInv, RowInv, local
      <4>3. CASE pc[q] = "publish"
        <5>1. /\ made[q] \in Tokens \ {t0} /\ holds[q] \subseteq Tokens
              /\ tokens[made[q]].knew \subseteq Tokens
          BY <1>1, <2>2, <4>3 DEF RequestInv, RowInv, TypeOK, StoreTypeOK, Token
        <5> QED
          BY <1>1, <2>3, <4>3, <5>1 DEF RequestInv, RowInv, LinksMoveOn, local
      <4>4. CASE pc[q] \notin {"commit", "publish"}
        BY <1>1, <2>3, <4>1, <4>4 DEF RequestInv, RowInv, LinksMoveOn, local
      <4> QED
        BY <4>2, <4>3, <4>4
    <3> QED
      BY <3>1, <3>2, <3>3 DEF RequestInv
  <2>7. ApartInv'
    BY <1>1 DEF ApartInv, local
  <2>8. SessionsInv' /\ AccountInv'
    BY <1>1, <2>1, SessionsStay DEF AccountInv, ghosts
  <2>9. SpentInv'
    <3>1. Changing' = Changing /\ account' = account
      BY <1>1 DEF Changing
    <3>2. Spent \subseteq Spent'
      BY <2>2, <2>3 DEF Spent
    <3> QED
      BY <3>1, <3>2, SpentStay
  <2> QED
    BY <2>3, <2>4, <2>6, <2>7, <2>8, <2>9 DEF Inv
<1> QED
  BY <1>2, <1>3 DEF Expire

\* A request starts at the first step of its operation.
LEMMA ArriveInv ==
    ASSUME Inv, NEW r \in Requests, Arrive(r)
    PROVE  Inv'
<1>1. /\ TypeOK /\ RequestInv(r) /\ TokensInv
      /\ pc[r] = "idle" /\ served < MaxRequests /\ served' = served + 1
      /\ outcome' = "none" /\ solo' = IF InFlight = {} THEN {r} ELSE {}
      /\ UNCHANGED <<store, seen, found, made, held, mailed, ended, faults>>
  BY DEF Inv, Arrive, At
<1>2. PICK op \in Ops : \E i \in Inputs(op) :
          input' = [input EXCEPT ![r] = i] /\ pc' = [pc EXCEPT ![r] = Entry[op]]
  BY DEF Arrive
<1>3. PICK i \in Inputs(op) :
          input' = [input EXCEPT ![r] = i] /\ pc' = [pc EXCEPT ![r] = Entry[op]]
  BY <1>2
<1>4. op \in AllOps
  BY AccountsAssumption
<1>5. account.password \in Nat /\ mailed \subseteq Tokens /\ held \subseteq Sessions
  BY <1>1 DEF TypeOK, StoreTypeOK, Account
<1>6. /\ i \in [op : AllOps \cup {"none"}, password : Nat,
                row : Sessions \cup Tokens \cup {NoRow}]
      /\ i.op = op
      /\ op \in {"confirm", "reset"} => i.row \in mailed
      /\ op \in {"refresh", "logout"} => i.row \in held
  <2>1. i \in [op : {op}, password : IF op = "login" THEN 0..account.password ELSE {0},
               row : CASE op \in {"confirm", "reset"} -> mailed
                       [] op \in {"refresh", "logout"} -> held
                       [] OTHER -> {NoRow}]
    BY DEF Inputs
  <2>2. (IF op = "login" THEN 0..account.password ELSE {0}) \subseteq Nat
    BY <1>5
  <2>3. (CASE op \in {"confirm", "reset"} -> mailed
           [] op \in {"refresh", "logout"} -> held
           [] OTHER -> {NoRow}) \subseteq Sessions \cup Tokens \cup {NoRow}
    BY <1>5
  <2> QED
    BY <1>4, <2>1, <2>2, <2>3
<1>7. /\ Entry[op] \in Points
      /\ Entry[op] \in {"credentials", "create", "lookup", "consume", "session", "logout",
                        "admin", "administer"}
      /\ op = "bootstrap" => Entry[op] = "admin"
      /\ Entry[op] = "consume" => op \in {"confirm", "reset"}
      /\ Entry[op] \in {"session", "logout"} => op \in {"refresh", "logout"}
      /\ Entry[op] = "administer" => op \in {"suspend", "restore", "promote", "demote"}
  BY <1>4, EntryPoint, AllPoints DEF AllOps
<1>8. pc'[r] = Entry[op] /\ input'[r] = i /\ \A q \in Requests \ {r} : pc'[q] = pc[q]
  BY <1>1, <1>3 DEF TypeOK
<1>9. served' \in 0..MaxRequests
  BY <1>1, AccountsAssumption DEF TypeOK
<1>10. TypeOK'
  BY <1>1, <1>3, <1>6, <1>7, <1>9 DEF TypeOK, StoreTypeOK, store
<1>11. OthersWait(r)
  BY <1>1, <1>3 DEF OthersWait, TypeOK, StoreTypeOK, store
<1>12. holds'[r] = {} /\ made'[r] = NoRow
  BY <1>1 DEF RequestInv, RowInv, store
<1>13. RequestInv(r)'
  <2>1. InputInv(r)'
    <3>1. i.row \in mailed => i.row \in Tokens /\ Published(i.row)'
      BY <1>1, <1>5 DEF TokensInv, Published, store
    <3>2. i.row \in held => i.row \in Sessions
      BY <1>5
    <3> QED
      BY <1>6, <1>7, <1>8, <3>1, <3>2 DEF InputInv
  <2>2. RowInv(r)'
    BY <1>7, <1>8, <1>12 DEF RowInv
  <2>3. PasswordInv(r)'
    BY <1>1, <1>7, <1>8 DEF PasswordInv, InFlight, At
  <2> QED
    BY <2>1, <2>2, <2>3 DEF RequestInv
<1>14. Quiet(r)
  BY <1>1, <1>7, <1>8, <1>11, <1>12 DEF Quiet, TokensInv, store
<1> QED
  BY <1>10, <1>13, <1>14, QuietInv

-------------------------------------------------------------------------------
(* The invariant holds in every state. *)

\* The invariant holds before the first request.
LEMMA InitInv == Init => Inv
<1> SUFFICES ASSUME Init PROVE Inv
  OBVIOUS
<1>1. /\ account \in Account /\ account.password = 0
      /\ sessions \in [Sessions -> Session] /\ tokens = [t \in Tokens |-> UnusedToken]
      /\ holds = [r \in Requests |-> {}]
      /\ \A s \in Sessions : \/ sessions[s] = UnusedSession
                             \/ sessions[s] = [state |-> "active", chain |-> s, password |-> 0]
  BY AccountsAssumption DEF Init, StoreInit, Session, UnusedSession
<1>2. TypeOK
  <2>1. UnusedToken \in Token /\ NoAccount \in Account
    BY DEF UnusedToken, Token, Purposes, NoAccount, Account
  <2>2. NoInput \in [op : AllOps \cup {"none"}, password : Nat,
                     row : Sessions \cup Tokens \cup {NoRow}]
    BY DEF NoInput
  <2>3. "idle" \in Points
    BY AllPoints
  <2>4. 0 \in 0..MaxRequests /\ 0 \in 0..MaxFaults
    BY AccountsAssumption
  <2> QED
    BY <1>1, <2>1, <2>2, <2>3, <2>4 DEF Init, TypeOK, StoreTypeOK
<1>3. \A r \in Requests : RequestInv(r)
  BY <1>1 DEF Init, RequestInv, InputInv, RowInv, PasswordInv, NoInput
<1>4. ApartInv
  BY <1>1 DEF Init, ApartInv
<1>5. SessionsInv
  <2>1. \A s \in Sessions : SessionInv(s)
    BY <1>1 DEF SessionInv, UnusedSession
  <2>2. OneActivePerLogin /\ ResetEndsSessions
    BY <1>1 DEF OneActivePerLogin, ResetEndsSessions, Active, UnusedSession, Init
  <2> QED
    BY <2>1, <2>2 DEF SessionsInv
<1>6. TokensInv
  BY <1>1 DEF TokensInv, TokenInv, Published, UnusedToken, Init
<1>7. AccountInv
  BY <1>1 DEF AccountInv, Init
<1>8. SpentInv
  <2>1. Changing = {}
    BY DEF Changing, Init
  <2> QED
    BY <1>1, <2>1, FS_EmptySet, CountedFinite DEF SpentInv
<1> QED
  BY <1>2, <1>3, <1>4, <1>5, <1>6, <1>7, <1>8 DEF Inv

\* It does not depend on anything but the variables.
LEMMA StutterInv == Inv /\ UNCHANGED vars => Inv'
<1> SUFFICES ASSUME Inv, UNCHANGED vars PROVE Inv'
  OBVIOUS
<1> USE DEF vars, store, local, ghosts
<1>1. TypeOK'
  BY DEF Inv, TypeOK, StoreTypeOK
<1>2. \A q \in Requests : RequestInv(q)'
  BY DEF Inv, RequestInv, InputInv, RowInv, PasswordInv, Published, Closed, Purpose, Active
<1>3. ApartInv' /\ AccountInv'
  BY DEF Inv, ApartInv, AccountInv
<1>4. SessionsInv' /\ TokensInv'
  BY SessionsStay, TokensStay DEF Inv
<1>5. SpentInv'
  BY DEF Inv, SpentInv, Spent, Changing
<1> QED
  BY <1>1, <1>2, <1>3, <1>4, <1>5 DEF Inv

\* Every step of a request keeps it,
LEMMA StepInv ==
    ASSUME Inv, NEW r \in Requests, Step(r)
    PROVE  Inv'
BY LoginFindInv, LoginStoreInv, RegisterCreateInv, RegisterExistingInv, LookupInv,
   ScanTokensInv, ReplaceTokensInv, PublishTokenInv, MailInv, ConsumeTokenInv,
   MarkEmailVerifiedInv, UpdatePasswordInv, ScanSessionsInv, RevokeSessionsInv, RefreshFindInv,
   RefreshUserInv, RotateInv, CommitInv, LogoutInv, BootstrapFindInv, SetPlatformRoleInv,
   BootstrapCreateInv, AdministerInv
DEF Step

\* and so does every step.
LEMMA NextInv == Inv /\ [Next]_vars => Inv'
BY ArriveInv, StepInv, ErrInv, ExpireInv, StutterInv DEF Next, Terminated

\* The inductive invariant holds in every reachable state.
THEOREM Invariance == Spec => []Inv
BY InitInv, NextInv, PTL DEF Spec

\* However logins, refreshes, logouts, resets, confirmations, failures and expiries
\* interleave: one session of a login is active (Rotate's lock and its second look),
\* every change of the password has spent a reset link of its own (ConsumeActionToken)
\* and a link works no longer when a later request replaces it (CreateActionToken).
THEOREM AccountRowsHold == Spec => []RowsHold
<1>1. Inv => RowsHold
  <2> SUFFICES ASSUME Inv PROVE RowsHold
    OBVIOUS
  <2>1. TypeOK /\ OneActivePerLogin
    BY DEF Inv, SessionsInv
  <2>2. ResetsSpendTokens
    <3>1. Spent = {t \in Tokens : tokens[t].state = "used" /\ tokens[t].purpose = "password_reset"}
      BY DEF Spent
    <3>2. account.password \in Nat
      BY <2>1 DEF TypeOK, StoreTypeOK, Account
    <3>3. account.password <= Cardinality(Spent)
      BY <3>2, CountedFinite DEF Inv, SpentInv
    <3> QED
      BY <3>1, <3>3 DEF ResetsSpendTokens
  <2>3. OpenLinksOverlap
    <3> SUFFICES ASSUME NEW purpose \in Purposes, NEW t \in Open(purpose), NEW u \in Open(purpose),
                        t \in tokens[u].knew
                 PROVE  FALSE
      BY DEF OpenLinksOverlap
    <3> QED
      BY DEF Inv, TokensInv, TokenInv, Open, Published, Closed
  <2> QED
    BY <2>1, <2>2, <2>3 DEF RowsHold
<1> QED
  BY <1>1, Invariance, PTL

\* After a password reset that no other request has overlapped, no session lives
\* that an older password opened (ResetPassword, RevokeAllForUser).
THEOREM ResetsEndSessions == Spec => []ResetEndsSessions
<1>1. Inv => ResetEndsSessions
  BY DEF Inv, SessionsInv
<1> QED
  BY <1>1, Invariance, PTL

-------------------------------------------------------------------------------
(* BootstrapAdmin. *)

\* A request that is not idle is what a step is taken at.
LEMMA StepIsAt ==
    ASSUME NEW r \in Requests, Step(r)
    PROVE  /\ pc[r] # "idle"
           /\ pc[r] = "admin" => BootstrapFind(r)
           /\ pc[r] = "grant" => SetPlatformRole(r)
           /\ pc[r] = "insert" => BootstrapCreate(r)
BY DEF Step, At, LoginFind, LoginStore, RegisterCreate, RegisterExisting, Lookup, ScanTokens,
       ReplaceTokens, PublishToken, Mail, ConsumeToken, MarkEmailVerified, UpdatePassword,
       ScanSessions, RevokeSessions, RefreshFind, RefreshUser, Rotate, Commit, Logout,
       BootstrapFind, SetPlatformRole, BootstrapCreate, Administer

\* The step with which a start-up succeeds leaves an administrator.
LEMMA BootstrapStep ==
    ASSUME Inv, [Next]_vars, NEW r \in Requests, input[r].op = "bootstrap", r \in solo,
           pc'[r] = "idle", outcome' = "done", pc' # pc
    PROVE  account'.platform = "super_admin"
<1>1. /\ TypeOK /\ pc[r] \in {"admin", "grant", "insert"}
      /\ \A q \in Requests \ {r} : pc[q] = "idle"
      /\ pc[r] = "insert" => ~account.exists
  BY DEF Inv, RequestInv, InputInv, PasswordInv
<1>2. CASE \E q \in Requests : Step(q)
  <2>1. Step(r)
    BY <1>1, <1>2, StepIsAt
  <2>2. CASE pc[r] = "admin"
    BY <1>1, <2>1, <2>2, StepIsAt DEF BootstrapFind, Goto, TypeOK
  <2>3. CASE pc[r] = "grant"
    <3>1. SetPlatformRole(r) /\ account \in Account
      BY <1>1, <2>1, <2>3, StepIsAt, OwnLocals
    <3> QED
      BY <3>1 DEF SetPlatformRole, Account
  <2>4. CASE pc[r] = "insert"
    <3>1. BootstrapCreate(r) /\ ~account.exists
      BY <1>1, <2>1, <2>4, StepIsAt
    <3> QED
      BY <3>1, NewAccountType DEF BootstrapCreate
  <2> QED
    BY <1>1, <2>2, <2>3, <2>4
<1>3. CASE \E q \in Requests : Arrive(q)
  BY <1>3 DEF Arrive
<1>4. CASE \E q \in Requests : Err(q)
  BY <1>4 DEF Err, Answer
<1>5. CASE Expire
  BY <1>5 DEF Expire
<1>6. CASE Terminated \/ UNCHANGED vars
  BY <1>6 DEF Terminated, vars
<1> QED
  BY <1>2, <1>3, <1>4, <1>5, <1>6 DEF Next

\* A bootstrap that no other request overlaps leaves an administrator, whether the
\* address was registered, was one already or did not exist (BootstrapAdmin).
THEOREM BootstrapLeavesAdmin == Spec => BootstrapMakesAdmin
<1> DEFINE A == \A r \in Requests :
                   /\ input[r].op = "bootstrap" /\ r \in solo
                   /\ pc'[r] = "idle" /\ outcome' = "done"
                   => account'.platform = "super_admin"
<1>1. Inv /\ [Next]_vars => [A]_vars
  <2> SUFFICES ASSUME Inv, [Next]_vars, ~UNCHANGED vars, NEW r \in Requests,
                      input[r].op = "bootstrap", r \in solo, pc'[r] = "idle", outcome' = "done"
               PROVE  account'.platform = "super_admin"
    OBVIOUS
  <2>1. pc[r] # "idle"
    BY DEF Inv, RequestInv, InputInv
  <2> QED
    BY <2>1, BootstrapStep
<1> QED
  BY <1>1, Invariance, PTL DEF Spec, BootstrapMakesAdmin

-------------------------------------------------------------------------------
(* The sessions implement SessionChains. *)

\* What the refinement mapping shows of the rows: the active session of each
\* chain, and the chains that have a root.
ChainsInv ==
    /\ \A c \in Sessions : Current[c] \in Active \cup {NoRow}
    /\ \A c \in Sessions : Current[c] \in Active => sessions[Current[c]].chain = c
    /\ \A s \in Active : sessions[s].chain \in Sessions /\ Current[sessions[s].chain] = s
    /\ Opened = {c \in Sessions : sessions[c].chain = c}

\* What the chains need of the invariant.
LEMMA ChainsAreInv == Inv => ChainsInv
<1> SUFFICES ASSUME Inv PROVE ChainsInv
  OBVIOUS
<1>1. TypeOK /\ OneActivePerLogin /\ \A s \in Sessions : SessionInv(s)
  BY DEF Inv, SessionsInv
<1>2. ASSUME NEW c \in Sessions
      PROVE  /\ Current[c] \in Active \cup {NoRow}
             /\ Current[c] \in Active => sessions[Current[c]].chain = c
  <2>1. CASE \E s \in Active : sessions[s].chain = c
    BY <2>1 DEF Current
  <2>2. CASE ~\E s \in Active : sessions[s].chain = c
    <3>1. Current[c] = NoRow
      BY <2>2 DEF Current
    <3> QED
      BY <3>1, AccountsAssumption DEF Active
  <2> QED
    BY <2>1, <2>2
<1>3. ASSUME NEW s \in Active
      PROVE  sessions[s].chain \in Sessions /\ Current[sessions[s].chain] = s
  <2> DEFINE c == sessions[s].chain
  <2>1. c \in Sessions
    BY <1>1 DEF SessionInv, Active
  <2>2. Current[c] = CHOOSE t \in Active : sessions[t].chain = c
    BY <2>1 DEF Current
  <2>3. Current[c] \in Active /\ sessions[Current[c]].chain = c
    BY <2>2
  <2> QED
    BY <1>1, <2>1, <2>3 DEF OneActivePerLogin
<1>4. Opened = {c \in Sessions : sessions[c].chain = c}
  BY <1>1, AccountsAssumption DEF Opened, SessionInv
<1> QED
  BY <1>2, <1>3, <1>4 DEF ChainsInv

\* The refinement mapping is a function.
LEMMA CurrentFunction ==
    /\ Current = [c \in Sessions |-> Current[c]]
    /\ Current' = [c \in Sessions |-> Current'[c]]
BY DEF Current

\* A step after which the same sessions are active and the same chains have a root.
LEMMA SameChains ==
    ASSUME ChainsInv, ChainsInv', Active' = Active,
           \A s \in Active : sessions'[s].chain = sessions[s].chain,
           \A c \in Sessions : sessions'[c].chain = c <=> sessions[c].chain = c
    PROVE  Current' = Current /\ Opened' = Opened
<1>1. Opened' = Opened
  BY DEF ChainsInv
<1>2. ASSUME NEW c \in Sessions PROVE Current'[c] = Current[c]
  BY AccountsAssumption DEF ChainsInv
<1> QED
  BY <1>1, <1>2, CurrentFunction

\* Sessions that end, end their chains.
LEMMA EndedChains ==
    ASSUME ChainsInv, ChainsInv', NEW xs \in SUBSET Active, Active' = Active \ xs,
           \A s \in Sessions : sessions'[s].chain = sessions[s].chain
    PROVE  \E cs \in SUBSET Sessions : Chains!EndChains(cs)
<1> DEFINE cs == {sessions[s].chain : s \in xs}
<1>1. cs \in SUBSET Sessions
  BY DEF ChainsInv
<1>2. Opened' = Opened
  BY DEF ChainsInv
<1>3. ASSUME NEW c \in cs PROVE Current'[c] = NoRow
  <2>1. c \in Sessions /\ Current[c] \in xs
    BY <1>1 DEF ChainsInv
  <2>2. ~\E s \in Active' : sessions'[s].chain = c
    BY <2>1 DEF ChainsInv, Active
  <2> QED
    BY <2>1, <2>2 DEF ChainsInv
<1>4. ASSUME NEW c \in Sessions \ cs PROVE Current'[c] = Current[c]
  <2>1. CASE Current[c] \in Active
    <3>1. Current[c] \in Active' /\ sessions'[Current[c]].chain = c
      BY <1>4, <2>1 DEF ChainsInv, Active
    <3> QED
      BY <3>1 DEF ChainsInv
  <2>2. CASE Current[c] \notin Active
    <3>1. Current[c] = NoRow
      BY <2>2 DEF ChainsInv
    <3>2. ~\E s \in Active' : sessions'[s].chain = c
      BY <2>2 DEF ChainsInv, Active
    <3> QED
      BY <3>1, <3>2 DEF ChainsInv
  <2> QED
    BY <2>1, <2>2
<1>5. Current' = [c \in Sessions |-> IF c \in cs THEN NoRow ELSE Current[c]]
  BY <1>3, <1>4, CurrentFunction
<1> QED
  BY <1>1, <1>2, <1>5 DEF Chains!EndChains

\* Login opens a chain,
LEMMA LoginOpensChain ==
    ASSUME Inv, ChainsInv, ChainsInv', NEW r \in Requests, LoginStore(r)
    PROVE  \E c \in Sessions : Chains!OpenChain(c)
<1> DEFINE s0 == Fresh(sessions)
<1>1. /\ s0 \in Sessions /\ sessions[s0].state = "none" /\ SessionInv(s0)
      /\ sessions \in [Sessions -> Session]
      /\ sessions' = [sessions EXCEPT ![s0] =
            [state |-> "active", chain |-> s0, password |-> seen[r].password]]
      /\ NoRow \notin Sessions
  BY FreshSession, AccountsAssumption
  DEF Inv, TypeOK, StoreTypeOK, SessionsInv, LoginStore, InsertSession
<1>2. /\ sessions'[s0].state = "active" /\ sessions'[s0].chain = s0
      /\ \A s \in Sessions \ {s0} : sessions'[s] = sessions[s]
      /\ sessions[s0].chain = NoRow
  BY <1>1 DEF SessionInv
<1> HIDE DEF s0
<1>3. Active' = Active \cup {s0} /\ s0 \notin Active
  BY <1>1, <1>2 DEF Active
<1>4. Opened' = Opened \cup {s0} /\ s0 \notin Opened
  BY <1>1, <1>2 DEF ChainsInv
<1>5. Current'[s0] = s0
  BY <1>1, <1>2, <1>3 DEF ChainsInv
<1>6. ASSUME NEW c \in Sessions \ {s0} PROVE Current'[c] = Current[c]
  <2>1. CASE Current[c] \in Active
    <3>1. Current[c] \in Active' /\ sessions'[Current[c]].chain = c
      BY <1>2, <1>3, <2>1 DEF ChainsInv, Active
    <3> QED
      BY <3>1 DEF ChainsInv
  <2>2. CASE Current[c] \notin Active
    <3>1. Current[c] = NoRow
      BY <2>2 DEF ChainsInv
    <3>2. ~\E s \in Active' : sessions'[s].chain = c
      BY <1>2, <1>3, <2>2 DEF ChainsInv, Active
    <3> QED
      BY <3>1, <3>2 DEF ChainsInv
  <2> QED
    BY <2>1, <2>2
<1>7. Current' = [Current EXCEPT ![s0] = s0]
  BY <1>1, <1>5, <1>6, CurrentFunction
<1> QED
  BY <1>1, <1>4, <1>7 DEF Chains!OpenChain

\* a rotation replaces the current session of one,
LEMMA CommitReplaces ==
    ASSUME Inv, ChainsInv, ChainsInv', NEW r \in Requests, Commit(r)
    PROVE  \E c \in Sessions : Chains!Replace(c)
<1> DEFINE new == made[r]
           old == input[r].row
<1>1. /\ sessions \in [Sessions -> Session] /\ old \in Active /\ old \in Sessions
      /\ new \in Sessions /\ sessions[new].state = "pending" /\ new # old
      /\ sessions[new].chain = sessions[old].chain
      /\ sessions' = Set(Set(sessions, {old}, "revoked"), {new}, "active")
      /\ NoRow \notin Sessions
  BY AccountsAssumption
  DEF Inv, TypeOK, StoreTypeOK, RequestInv, RowInv, Commit, At, CommitRotation, Active
<1> HIDE DEF new, old
<1>2. \A s \in Sessions :
         /\ sessions'[s].state = IF s = new THEN "active"
                                 ELSE IF s = old THEN "revoked" ELSE sessions[s].state
         /\ sessions'[s].chain = sessions[s].chain
  BY <1>1, RotatedSessions
<1> DEFINE c0 == sessions[old].chain
<1>3. Active' = (Active \ {old}) \cup {new} /\ new \notin Active
  BY <1>1, <1>2 DEF Active
<1>4. Opened' = Opened
  BY <1>2 DEF ChainsInv
<1>5. c0 \in Sessions /\ sessions[old].chain = c0 /\ Current[c0] = old
  BY <1>1 DEF ChainsInv
<1>6. sessions'[new].chain = c0 /\ Current'[c0] = new
  <2>1. new \in Active' /\ sessions'[new].chain = c0
    BY <1>1, <1>2, <1>3
  <2> QED
    BY <2>1 DEF ChainsInv
<1> HIDE DEF c0
<1>7. ASSUME NEW c \in Sessions \ {c0} PROVE Current'[c] = Current[c]
  <2>1. CASE Current[c] \in Active
    <3>1. Current[c] # old /\ sessions[Current[c]].chain = c
      BY <1>5, <1>7, <2>1 DEF ChainsInv
    <3>2. Current[c] \in Active' /\ sessions'[Current[c]].chain = c
      BY <1>2, <1>3, <2>1, <3>1 DEF Active
    <3> QED
      BY <3>2 DEF ChainsInv
  <2>2. CASE Current[c] \notin Active
    <3>1. Current[c] = NoRow
      BY <2>2 DEF ChainsInv
    <3>2. ~\E s \in Active' : sessions'[s].chain = c
      <4> SUFFICES ASSUME NEW s \in Active', sessions'[s].chain = c PROVE FALSE
        OBVIOUS
      <4>1. s # new
        BY <1>6, <1>7
      <4>2. s \in Active /\ sessions[s].chain = c
        BY <1>2, <1>3, <4>1 DEF Active
      <4> QED
        BY <2>2, <4>2 DEF ChainsInv
    <3> QED
      BY <3>1, <3>2 DEF ChainsInv
  <2> QED
    BY <2>1, <2>2
<1>8. Current' = [Current EXCEPT ![c0] = new]
  BY <1>5, <1>6, <1>7, CurrentFunction
<1>9. new \in Sessions \ {Current[d] : d \in Sessions} /\ Current[c0] # NoRow
  BY <1>1, <1>3, <1>5 DEF ChainsInv
<1> QED
  BY <1>4, <1>5, <1>8, <1>9 DEF Chains!Replace

\* The requests that write sessions.
LEMMA SessionWriters ==
    ASSUME [Next]_vars
    PROVE  \/ sessions' = sessions
           \/ \E r \in Requests : LoginStore(r) \/ Commit(r) \/ RevokeSessions(r) \/ Rotate(r)
                                  \/ Logout(r) \/ Err(r)
           \/ Expire
<1>1. CASE \E r \in Requests : Step(r)
  <2>1. PICK r \in Requests : Step(r)
    BY <1>1
  <2> QED
    BY <2>1
    DEF Step, store, LoginFind, RegisterCreate, RegisterExisting, Lookup, ScanTokens, Refuse,
        ReplaceTokens, PublishToken, Mail, ConsumeToken, MarkEmailVerified, UpdatePassword,
        ScanSessions, RefreshFind, RefreshUser, BootstrapFind, SetPlatformRole,
        BootstrapCreate, Administer
<1>2. CASE \E r \in Requests : Arrive(r)
  BY <1>2 DEF Arrive, store
<1>3. CASE Terminated \/ UNCHANGED vars
  BY <1>3 DEF Terminated, vars, store
<1> QED
  BY <1>1, <1>2, <1>3 DEF Next

\* and what ends sessions ends their chains.
LEMMA EndingChains ==
    ASSUME Inv, ChainsInv, ChainsInv', NEW xs \in SUBSET Active,
           NEW state \in {"revoked", "expired"}, sessions' = Set(sessions, xs, state)
    PROVE  \E cs \in SUBSET Sessions : Chains!EndChains(cs)
<1>1. Active' = Active \ xs
  BY SessionsEnd
<1>2. sessions \in [Sessions -> Session] /\ state \in SessionStates
  BY DEF Inv, TypeOK, StoreTypeOK, SessionStates
<1>3. \A s \in Sessions : sessions'[s].chain = sessions[s].chain
  BY <1>2, SetSessions
<1> QED
  BY <1>1, <1>3, EndedChains

\* Every step is one of the chains, or leaves them alone.
LEMMA ChainsStep ==
    ASSUME Inv, ChainsInv, ChainsInv', [Next]_vars
    PROVE  [Chains!Next]_<<Current, Opened>>
<1>1. CASE sessions' = sessions
  BY <1>1 DEF Current, Opened, Active
<1>2. ASSUME NEW r \in Requests, LoginStore(r) PROVE Chains!Next
  BY <1>2, LoginOpensChain DEF Chains!Next
<1>3. ASSUME NEW r \in Requests, Commit(r) PROVE Chains!Next
  BY <1>3, CommitReplaces DEF Chains!Next
<1>4. ASSUME NEW r \in Requests, RevokeSessions(r) PROVE Chains!Next
  <2>1. StillActive(found[r]) \in SUBSET Active
    BY DEF StillActive
  <2> QED
    BY <1>4, <2>1, EndingChains DEF RevokeSessions, Revoke, Chains!Next
<1>5. ASSUME NEW r \in Requests, Logout(r) PROVE Chains!Next \/ sessions' = sessions
  <2>1. StillActive({input[r].row}) \in SUBSET Active
    BY DEF StillActive
  <2> QED
    BY <1>5, <2>1, EndingChains DEF Logout, Revoke, Refuse, Chains!Next
<1>6. ASSUME Expire PROVE Chains!Next \/ sessions' = sessions
  <2>1. CASE \E s \in Sessions : ExpireSession(s)
    <3>1. PICK s \in Sessions : ExpireSession(s)
      BY <2>1
    <3>2. {s} \in SUBSET Active /\ sessions' = Set(sessions, {s}, "expired")
      BY <3>1 DEF ExpireSession
    <3> QED
      BY <3>2, EndingChains DEF Chains!Next
  <2> QED
    BY <1>6, <2>1 DEF Expire
<1>7. ASSUME NEW r \in Requests, Rotate(r)
      PROVE  sessions' = sessions \/ (Current' = Current /\ Opened' = Opened)
  <2>1. CASE Refuse(r)
    BY <2>1 DEF Refuse
  <2>2. CASE ~Refuse(r)
    <3> DEFINE s0 == Fresh(sessions)
               old == input[r].row
    <3>1. /\ s0 \in Sessions /\ sessions[s0].state = "none" /\ SessionInv(s0)
          /\ old \in Active /\ sessions \in [Sessions -> Session]
          /\ sessions' = [sessions EXCEPT ![s0] = [sessions[old] EXCEPT !.state = "pending"]]
      BY <1>7, <2>2, FreshSession
      DEF Inv, TypeOK, StoreTypeOK, SessionsInv, Rotate, RotateCan, InsertReplacement
    <3> HIDE DEF s0, old
    <3>2. /\ sessions'[s0].state = "pending" /\ sessions'[s0].chain = sessions[old].chain
          /\ \A s \in Sessions \ {s0} : sessions'[s] = sessions[s]
          /\ sessions[s0].chain = NoRow /\ NoRow \notin Sessions
      BY <3>1, AccountsAssumption DEF Session, SessionInv, Active
    <3>3. Active' = Active /\ s0 \notin Active
      BY <3>1, <3>2 DEF Active
    <3>4. sessions[old].chain # s0
      <4>1. SessionInv(old)
        BY <3>1 DEF Inv, SessionsInv, Active
      <4> QED
        BY <3>1, <4>1 DEF SessionInv, Active
    <3>5. /\ \A s \in Active : sessions'[s].chain = sessions[s].chain
          /\ \A c \in Sessions : sessions'[c].chain = c <=> sessions[c].chain = c
      BY <3>1, <3>2, <3>3, <3>4 DEF Active
    <3> QED
      BY <3>3, <3>5, SameChains
  <2> QED
    BY <2>1, <2>2
<1>8. ASSUME NEW r \in Requests, Err(r) PROVE Current' = Current /\ Opened' = Opened
  <2>1. \A s \in Sessions : sessions'[s] =
           IF s = made[r] /\ sessions[s].state = "pending" THEN UnusedSession ELSE sessions[s]
    BY <1>8, RolledBack DEF Inv, Err
  <2>2. Active' = Active /\ \A s \in Active : sessions'[s] = sessions[s]
    BY <2>1 DEF Active, UnusedSession
  <2>3. ASSUME NEW c \in Sessions PROVE sessions'[c].chain = c <=> sessions[c].chain = c
    <3>1. SessionInv(c) /\ c # NoRow
      BY AccountsAssumption DEF Inv, SessionsInv
    <3> QED
      BY <2>1, <3>1 DEF SessionInv, UnusedSession
  <2> QED
    BY <2>2, <2>3, SameChains
<1> QED
  BY <1>1, <1>2, <1>3, <1>4, <1>5, <1>6, <1>7, <1>8, SessionWriters

\* Before the first request there is no chain.
LEMMA ChainsInit == Init => Chains!Init
<1> SUFFICES ASSUME Init PROVE Chains!Init
  OBVIOUS
<1>1. ChainsInv
  BY InitInv, ChainsAreInv
<1>2. /\ InitialSessions \subseteq Sessions /\ NoRow \notin Sessions
      /\ sessions = [s \in Sessions |->
            IF account.exists /\ s \in InitialSessions
            THEN [state |-> "active", chain |-> s, password |-> 0] ELSE UnusedSession]
  BY AccountsAssumption DEF Init, StoreInit
<1>3. \A c \in Sessions :
         /\ sessions[c].chain = c <=> c \in InitialSessions /\ account.exists
         /\ c \in Active <=> c \in InitialSessions /\ account.exists
  BY <1>2 DEF Active, UnusedSession
<1>4. Active \subseteq Sessions /\ Opened = {c \in Sessions : sessions[c].chain = c}
  BY <1>1 DEF ChainsInv, Active
<1>5. Opened = Active /\ Opened \in SUBSET InitialSessions
  BY <1>3, <1>4
<1>6. ASSUME NEW c \in Sessions PROVE Current[c] = IF c \in Opened THEN c ELSE NoRow
  <2>1. CASE c \in Active
    BY <1>1, <1>3, <1>5, <2>1 DEF ChainsInv
  <2>2. CASE c \notin Active
    <3>1. Current[c] \notin Active
      BY <1>1, <1>3, <1>4, <2>2 DEF ChainsInv
    <3> QED
      BY <1>1, <1>5, <2>2, <3>1 DEF ChainsInv
  <2> QED
    BY <2>1, <2>2
<1>7. Current = [c \in Sessions |-> IF c \in Opened THEN c ELSE NoRow]
  BY <1>6, CurrentFunction
<1> QED
  BY <1>5, <1>7 DEF Chains!Init

\* However logins, refreshes, logouts and resets of one address race and fail, the
\* sessions implement chains that are continued once and never reopened (Rotate,
\* Revoke, RevokeAllForUser, Login).
THEOREM SessionsAreChains == Spec => ImplementsChains
<1>1. Inv /\ ChainsInv /\ ChainsInv' /\ [Next]_vars => [Chains!Next]_<<Current, Opened>>
  BY ChainsStep
<1>2. Spec => []ChainsInv
  BY ChainsAreInv, Invariance, PTL
<1> QED
  BY <1>1, <1>2, ChainsInit, Invariance, PTL DEF Spec, ImplementsChains, Chains!Spec

===============================================================================

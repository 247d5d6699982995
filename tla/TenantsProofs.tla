----------------------------- MODULE TenantsProofs -----------------------------
(***************************************************************************)
(* Theorems about Tenants for any users, workspaces, requests and faults.  *)
(***************************************************************************)
EXTENDS Tenants, TLAPS

-------------------------------------------------------------------------------
(* The inductive invariant. *)

\* An id without a row, or one whose row is not committed.
Hidden(w) == workspaces[w].status \in {"none", "pending"}

\* The transaction of r has inserted a workspace.
Creates(r) == pc[r] = "commit" /\ input[r].op \in {"create", "found"}

\* What the place of a request says of its input and of the rows it is about.
RequestInv(r) ==
    /\ pc[r] # "idle" =>
          /\ input[r].op \in AllOps /\ input[r].user \in Users
          /\ input[r].op \in OnSpaces => input[r].space \in Spaces /\ ~Hidden(input[r].space)
          /\ input[r].op \in OnUsers \cup {"found"} => input[r].target \in Users
    /\ pc[r] = "insert" => input[r].op \in {"create", "found"}
    /\ pc[r] = "update" => input[r].op \in PlatformOps \ {"found"}
    /\ pc[r] = "commit" => input[r].op \in PlatformOps \cup {"create"}
    /\ pc[r] = "resolve" => input[r].op \in ByMembers
    /\ pc[r] \in ByMembers => input[r].op = pc[r]
    /\ Creates(r) =>
          input[r].space \in Spaces /\ workspaces[input[r].space].status = "pending"

\* Two transactions insert two workspaces.
CreatorsApart ==
    \A r, q \in Requests :
        Creates(r) /\ Creates(q) /\ input[r].space = input[q].space => r = q

\* What was deleted has shown before.
HiddenAreNew == \A w \in Spaces : Hidden(w) => ~workspaces[w].deleted

Inv ==
    /\ TransactionsAreWhole
    /\ HiddenAreNew /\ CreatorsApart
    /\ \A r \in Requests : RequestInv(r)

\* What is against a request is still so, and the request is not past the step
\* that looks for it.
BarredInv(r) ==
    pc[r] # "idle" =>
        /\ "user" \in barred[r] =>
              pc[r] = "authenticate" /\ users[input[r].user].status = "suspended"
        /\ "role" \in barred[r] =>
              /\ input[r].op \in PlatformOps
              /\ pc[r] # "authenticate" => input[r].admin
        /\ "member" \in barred[r] =>
              /\ pc[r] \in {"authenticate", "resolve"} /\ input[r].op \in ByMembers
              /\ members[input[r].space][input[r].user] \notin Roles
        /\ "deleted" \in barred[r] =>
              /\ pc[r] \in {"authenticate", "resolve"} /\ input[r].op \in ByMembers
              /\ workspaces[input[r].space].deleted
        /\ "space" \in barred[r] =>
              /\ input[r].op = "upload"
              /\ \/ workspaces[input[r].space].status = "suspended"
                 \/ workspaces[input[r].space].deleted
              /\ pc[r] = "upload" => actor[r].status # "active"

BarInv == \A r \in Requests : BarredInv(r)

-------------------------------------------------------------------------------
(* The parts of a step. *)

Points == {"idle", "authenticate", "resolve", "insert", "update", "commit",
           "get", "rename", "delete", "upload"}
Results == {"none", "done", "refused", "error"}
InputType == [op : Ops \cup {"none"}, user : Users \cup {NoOne}, admin : BOOLEAN,
              space : Spaces \cup {NoOne}, target : Users \cup {NoOne}]
ActorType == [role : Roles \cup {"none"}, status : {"none", "active", "suspended"}]
EventType == (Users \cup Spaces) \X {"created", "active", "suspended", "user", "admin"}

\* The variables of the requests have their types.
FlowTypes ==
    /\ tokens \subseteq [user : Users, admin : BOOLEAN]
    /\ locks \in [Requests -> SUBSET (Users \cup Spaces)]
    /\ pc \in [Requests -> Points]
    /\ input \in [Requests -> InputType]
    /\ actor \in [Requests -> ActorType]
    /\ outcome \in Results
    /\ alone \in BOOLEAN /\ served \in Nat

\* Those of the tables have theirs.
TableTypes ==
    /\ users \in [Users -> User]
    /\ workspaces \in [Spaces -> Space]
    /\ members \in [Spaces -> Members]
    /\ audit \subseteq EventType
    /\ uploads \subseteq Spaces

\* The type invariant in two halves.
LEMMA Types ==
    TypeOK <=> /\ FlowTypes /\ TableTypes
               /\ barred \in [Requests -> SUBSET Reasons]
               /\ faults \in 0..MaxFaults
BY DEF TypeOK, FlowTypes, TableTypes, Points, Results, InputType, ActorType, EventType

\* The next values keep the types, in the same halves.
LEMMA NextTypes ==
    TypeOK' <=> /\ FlowTypes' /\ TableTypes'
                /\ barred' \in [Requests -> SUBSET Reasons]
                /\ faults' \in 0..MaxFaults
BY DEF TypeOK, FlowTypes, TableTypes, Points, Results, InputType, ActorType, EventType

\* A step of r leaves the other requests where they are.
OthersWait(r) ==
    \A q \in Requests \ {r} :
        pc'[q] = pc[q] /\ input'[q] = input[q] /\ actor'[q] = actor[q]

\* An answer is one.
LEMMA AnswerParts ==
    ASSUME FlowTypes, NEW r \in Requests, NEW result \in Results, Answer(r, result)
    PROVE  FlowTypes' /\ OthersWait(r) /\ pc'[r] = "idle" /\ outcome' = result
<1>1. NoInput \in InputType /\ NoActor \in ActorType /\ "idle" \in Points
  BY DEF NoInput, NoActor, InputType, ActorType, Points
<1>2. /\ pc' = [pc EXCEPT ![r] = "idle"] /\ outcome' = result
      /\ locks' = [locks EXCEPT ![r] = {}]
      /\ input' = [input EXCEPT ![r] = NoInput]
      /\ actor' = [actor EXCEPT ![r] = NoActor]
      /\ tokens' = tokens /\ alone' = alone /\ served' = served
  BY DEF Answer
<1> QED
  BY <1>1, <1>2 DEF FlowTypes, OthersWait

\* So is going on to another statement.
LEMMA GotoParts ==
    ASSUME FlowTypes, NEW r \in Requests, NEW point \in Points, Goto(r, point),
           input' \in [Requests -> InputType], actor' \in [Requests -> ActorType],
           \A q \in Requests \ {r} : input'[q] = input[q] /\ actor'[q] = actor[q],
           locks' \in [Requests -> SUBSET (Users \cup Spaces)],
           UNCHANGED <<tokens, alone, served>>
    PROVE  FlowTypes' /\ OthersWait(r) /\ pc'[r] = point
BY DEF FlowTypes, OthersWait, Goto

-------------------------------------------------------------------------------
(* What keeps the invariant. *)

\* What a step of r may do to the workspaces: those that show go on to show, and
\* those that other transactions have inserted are left to them.
SparesRows(r) ==
    \A w \in Spaces :
        /\ ~Hidden(w) => ~Hidden(w)'
        /\ workspaces[w].status = "pending" =>
              workspaces'[w].status = "pending" \/ (Creates(r) /\ input[r].space = w)

\* The part of the invariant that is about requests.
LEMMA RequestsStay ==
    ASSUME Inv, NEW r \in Requests, OthersWait(r), SparesRows(r), RequestInv(r)',
           Creates(r)' => \/ workspaces[input'[r].space].status = "none"
                          \/ Creates(r) /\ input'[r] = input[r]
    PROVE  CreatorsApart' /\ \A q \in Requests : RequestInv(q)'
<1>1. ASSUME NEW q \in Requests \ {r}
      PROVE  /\ RequestInv(q)' /\ (Creates(q)' <=> Creates(q))
             /\ input'[q] = input[q]
             /\ Creates(q) => workspaces[input[q].space].status = "pending"
  <2>1. RequestInv(q) /\ pc'[q] = pc[q] /\ input'[q] = input[q] /\ (Creates(q)' <=> Creates(q))
    BY DEF Inv, OthersWait, Creates
  <2>2. input[q].space \in Spaces /\ ~Hidden(input[q].space) => ~Hidden(input[q].space)'
    BY <2>1 DEF SparesRows, Hidden
  <2>3. Creates(q) => /\ input[q].space \in Spaces
                      /\ workspaces[input[q].space].status = "pending"
    BY <2>1 DEF RequestInv
  <2>4. Creates(q) => workspaces'[input[q].space].status = "pending"
    BY <2>3 DEF SparesRows, Inv, CreatorsApart
  <2> QED
    BY <2>1, <2>2, <2>3, <2>4 DEF RequestInv, Hidden
<1>2. CreatorsApart'
  <2> SUFFICES ASSUME NEW p \in Requests, NEW q \in Requests, p # q,
                      Creates(p)', Creates(q)', input'[p].space = input'[q].space
               PROVE  FALSE
    BY DEF CreatorsApart
  <2>1. p # r /\ q # r => FALSE
    BY <1>1 DEF Inv, CreatorsApart
  <2>2. ASSUME NEW k \in Requests, k # r, Creates(k)', Creates(r)',
               input'[k].space = input'[r].space
        PROVE  FALSE
    BY <1>1, <2>2 DEF Inv, CreatorsApart
  <2> QED
    BY <2>1, <2>2
<1> QED
  BY <1>1, <1>2

\* A step that leaves the tables alone keeps what the invariant says of them.
LEMMA QuietTables ==
    ASSUME Inv, UNCHANGED <<tables, audit>>
    PROVE  ChangesAreAudited' /\ OwnedFromTheStart' /\ HiddenAreNew'
<1>1. users' = users /\ workspaces' = workspaces /\ members' = members /\ audit' = audit
  BY DEF tables
<1> QED
  BY <1>1 DEF Inv, TransactionsAreWhole, ChangesAreAudited, OwnedFromTheStart,
     HiddenAreNew, Hidden

\* All of it for a step of r that leaves the tables alone.
LEMMA QuietStep ==
    ASSUME Inv, NEW r \in Requests, UNCHANGED <<tables, audit, faults>>,
           uploads' \subseteq Spaces,
           barred' \in [Requests -> SUBSET Reasons],
           FlowTypes', OthersWait(r), RequestInv(r)', ~Creates(r)'
    PROVE  Inv'
<1>1. users' = users /\ workspaces' = workspaces /\ members' = members
  BY DEF tables
<1>2. ChangesAreAudited' /\ OwnedFromTheStart' /\ HiddenAreNew'
  BY QuietTables
<1>3. SparesRows(r)
  BY <1>1 DEF SparesRows, Hidden
<1>4. CreatorsApart' /\ \A q \in Requests : RequestInv(q)'
  BY <1>3, RequestsStay
<1>5. TypeOK'
  BY <1>1, Types, NextTypes DEF Inv, TransactionsAreWhole, TableTypes
<1> QED
  BY <1>2, <1>4, <1>5 DEF Inv, TransactionsAreWhole

\* An answered request is about nothing.
LEMMA IdleInv ==
    ASSUME NEW r \in Requests, pc'[r] = "idle"
    PROVE  RequestInv(r)' /\ ~Creates(r)'
BY DEF RequestInv, Creates, ByMembers

\* An answer that leaves the tables alone keeps the invariant.
LEMMA OnlyInv ==
    ASSUME Inv, NEW r \in Requests, NEW result \in Results, Only(r, result)
    PROVE  Inv'
<1>1. /\ Answer(r, result) /\ UNCHANGED <<tables, audit, faults>>
      /\ uploads' = uploads /\ barred' = barred
  BY DEF Only
<1>2. TypeOK
  BY DEF Inv, TransactionsAreWhole
<1>3. FlowTypes' /\ OthersWait(r) /\ pc'[r] = "idle"
  BY <1>1, <1>2, AnswerParts, Types
<1>4. uploads' \subseteq Spaces /\ barred' \in [Requests -> SUBSET Reasons]
  BY <1>1, <1>2, Types DEF TableTypes
<1> QED
  BY <1>1, <1>3, <1>4, IdleInv, QuietStep
-------------------------------------------------------------------------------
(* The steps. *)

\* The kinds of requests, and no two of them the same.
LEMMA Kinds ==
    /\ AllOps = {"found", "suspend space", "restore space", "suspend user", "restore user",
                 "promote", "demote", "create", "get", "rename", "delete", "upload"}
    /\ PlatformOps = {"found", "suspend space", "restore space", "suspend user",
                      "restore user", "promote", "demote"}
    /\ OnUsers = {"suspend user", "restore user", "promote", "demote"}
    /\ OnSpaces = {"suspend space", "restore space", "get", "rename", "delete", "upload"}
    /\ ByMembers = {"get", "rename", "delete", "upload"}
BY DEF AllOps, PlatformOps, OnUsers, OnSpaces, ByMembers

\* The invariant at the start.
LEMMA InitInv == Init => Inv
<1> SUFFICES ASSUME Init PROVE Inv
  OBVIOUS
<1>1. /\ \A w \in Spaces : workspaces[w].deleted = FALSE /\ workspaces[w].status \in {"none", "active"}
      /\ \A w \in Spaces : workspaces[w].status = "active" => w \in DOMAIN InitialMembers
      /\ \A w \in DOMAIN InitialMembers : members[w] = InitialMembers[w]
      /\ \A u \in Users : users[u] = [admin |-> u \in Admins, status |-> "active"]
      /\ \A r \in Requests : pc[r] = "idle"
  BY TenantsAssumption DEF Init
<1>2. FlowTypes
  <2>1. NoInput \in InputType /\ NoActor \in ActorType /\ "idle" \in Points
    BY DEF NoInput, NoActor, InputType, ActorType, Points
  <2> QED
    BY <2>1, TenantsAssumption DEF Init, FlowTypes, Results
<1>3. TableTypes
  <2>1. Nobody \in Members
    BY DEF Nobody, Members
  <2>2. users \in [Users -> User]
    BY DEF Init, User
  <2>3. workspaces \in [Spaces -> Space]
    BY DEF Init, Space
  <2> QED
    BY <2>1, <2>2, <2>3, TenantsAssumption DEF Init, TableTypes
<1>4. TypeOK
  BY <1>2, <1>3, Types, TenantsAssumption DEF Init
<1>5. ChangesAreAudited
  <2>1. ASSUME NEW u \in Users
        PROVE  users[u].status = "active" /\ (u \in Admins => users[u].admin = TRUE)
               /\ (u \notin Admins => users[u].admin = FALSE)
    <3> DEFINE admin == u \in Admins
    <3>1. users[u] = [admin |-> admin, status |-> "active"]
      BY <1>1
    <3>2. (u \in Admins => admin = TRUE) /\ (u \notin Admins => admin = FALSE)
      OBVIOUS
    <3> HIDE DEF admin
    <3> QED
      BY <3>1, <3>2
  <2>2. \A u \in Users : users[u].admin = (u \in Admins)
    <3> TAKE u \in Users
    <3>1. CASE u \in Admins
      <4>1. (u \in Admins) = TRUE
        BY <3>1
      <4> QED
        BY <2>1, <3>1, <4>1, Zenon
    <3>2. CASE u \notin Admins
      <4>1. (u \in Admins) = FALSE
        BY <3>2
      <4> QED
        BY <2>1, <3>2, <4>1, Zenon
    <3> QED
      BY <3>1, <3>2
  <2>3. \A w \in Spaces : workspaces[w].status # "suspended" /\ workspaces[w].deleted = FALSE
    BY <1>1
  <2> QED
    BY <2>1, <2>2, <2>3, Zenon DEF ChangesAreAudited
<1>6. OwnedFromTheStart
  BY <1>1, TenantsAssumption DEF OwnedFromTheStart
<1>7. HiddenAreNew /\ CreatorsApart
  BY <1>1 DEF HiddenAreNew, CreatorsApart, Creates
<1>8. \A r \in Requests : RequestInv(r)
  BY <1>1, Kinds DEF RequestInv, Creates
<1> QED
  BY <1>4, <1>5, <1>6, <1>7, <1>8 DEF Inv, TransactionsAreWhole

\* A client is told nothing of a hidden workspace, and nobody changes it.
LEMMA ArriveInv ==
    ASSUME Inv, NEW r \in Requests, Arrive(r)
    PROVE  Inv'
<1>1. /\ UNCHANGED <<tables, audit, faults>> /\ uploads' = uploads
      /\ tokens' = tokens /\ locks' = locks /\ actor' = actor
      /\ pc' = [pc EXCEPT ![r] = "authenticate"] /\ outcome' = "none"
      /\ served' = served + 1 /\ alone' = (alone /\ InFlight = {})
      /\ barred' = [barred EXCEPT ![r] = Against(input'[r])]
  BY DEF Arrive
<1>2. PICK op \in Ops, t \in tokens :
          \E w \in IF op \in OnSpaces THEN Spaces \ UnusedIds ELSE {NoOne},
             u \in IF op \in OnUsers \cup {"found"} THEN Users ELSE {t.user} :
             /\ op \in OnSpaces => workspaces[w].status # "pending"
             /\ input' = [input EXCEPT ![r] =
                   [op |-> op, user |-> t.user, admin |-> t.admin, space |-> w, target |-> u]]
  BY DEF Arrive
<1>3. PICK w, u :
          /\ w \in IF op \in OnSpaces THEN Spaces \ UnusedIds ELSE {NoOne}
          /\ u \in IF op \in OnUsers \cup {"found"} THEN Users ELSE {t.user}
          /\ op \in OnSpaces => workspaces[w].status # "pending"
          /\ input' = [input EXCEPT ![r] =
                [op |-> op, user |-> t.user, admin |-> t.admin, space |-> w, target |-> u]]
  BY <1>2
<1> DEFINE i == [op |-> op, user |-> t.user, admin |-> t.admin, space |-> w, target |-> u]
<1>4. FlowTypes /\ TableTypes
      /\ barred \in [Requests -> SUBSET Reasons]
  BY Types DEF Inv, TransactionsAreWhole
<1>5. /\ op \in AllOps /\ t.user \in Users /\ t.admin \in BOOLEAN
      /\ w \in Spaces \cup {NoOne} /\ u \in Users
      /\ op \in OnSpaces => w \in Spaces /\ ~Hidden(w)
  BY <1>3, <1>4, TenantsAssumption DEF FlowTypes, UnusedIds, Hidden
<1>6. i \in InputType
  BY <1>5 DEF InputType
<1>7. /\ input' \in [Requests -> InputType] /\ input'[r] = i
      /\ \A q \in Requests \ {r} : input'[q] = input[q]
  BY <1>3, <1>4, <1>6 DEF FlowTypes
<1>8. pc' \in [Requests -> Points] /\ pc'[r] = "authenticate"
      /\ \A q \in Requests \ {r} : pc'[q] = pc[q]
  BY <1>1, <1>4 DEF FlowTypes, Points
<1>9. FlowTypes' /\ OthersWait(r)
  BY <1>1, <1>4, <1>7, <1>8 DEF FlowTypes, OthersWait, Results
<1>10. Against(input'[r]) \in SUBSET Reasons
  BY DEF Against
<1>11. barred' \in [Requests -> SUBSET Reasons]
  BY <1>1, <1>4, <1>10
<1>12. workspaces' = workspaces
  BY <1>1 DEF tables
<1>13. RequestInv(r)' /\ ~Creates(r)'
  <2>1. /\ input'[r].op = op /\ input'[r].user = t.user /\ input'[r].space = w
        /\ input'[r].target = u
    BY <1>7
  <2>2. "authenticate" \notin ByMembers
    BY Kinds
  <2>3. Hidden(input[r].space)' <=> Hidden(w)
    BY <1>12, <2>1 DEF Hidden
  <2> QED
    BY <1>5, <1>8, <2>1, <2>2, <2>3 DEF RequestInv, Creates
<1>14. uploads' \subseteq Spaces
  BY <1>1, <1>4 DEF TableTypes
<1> QED
  BY <1>1, <1>9, <1>11, <1>13, <1>14, QuietStep

\* A step to another statement of a request whose tables stay as they are.
LEMMA ProceedInv ==
    ASSUME Inv, NEW r \in Requests, NEW point \in Points, Proceed(r, point),
           locks' \in [Requests -> SUBSET (Users \cup Spaces)],
           RequestInv(r)', ~Creates(r)'
    PROVE  Inv'
<1>1. /\ Goto(r, point) /\ UNCHANGED <<tables, audit, faults>> /\ uploads' = uploads
      /\ tokens' = tokens /\ input' = input /\ actor' = actor /\ barred' = barred
      /\ alone' = alone /\ served' = served
  BY DEF Proceed
<1>2. FlowTypes /\ TableTypes
      /\ barred \in [Requests -> SUBSET Reasons]
  BY Types DEF Inv, TransactionsAreWhole
<1>3. FlowTypes' /\ OthersWait(r)
  BY <1>1, <1>2, GotoParts DEF FlowTypes
<1> QED
  BY <1>1, <1>2, <1>3, QuietStep DEF TableTypes

\* A request whose input and tables stay goes on to a place that fits its input.
LEMMA OnwardInv ==
    ASSUME NEW r \in Requests, RequestInv(r), pc[r] # "idle",
           input'[r] = input[r], workspaces' = workspaces,
           \/ pc'[r] = "insert" /\ input[r].op \in {"create", "found"}
           \/ pc'[r] \in {"update", "commit"} /\ input[r].op \in PlatformOps \ {"found"}
           \/ pc'[r] = "resolve" /\ input[r].op \in ByMembers
           \/ pc'[r] = input[r].op /\ input[r].op \in ByMembers
    PROVE  RequestInv(r)' /\ ~Creates(r)'
<1>1. /\ input[r].op \in AllOps /\ input[r].user \in Users
      /\ input[r].op \in OnSpaces => input[r].space \in Spaces /\ ~Hidden(input[r].space)
      /\ input[r].op \in OnUsers \cup {"found"} => input[r].target \in Users
  BY DEF RequestInv
<1>2. Hidden(input[r].space)' <=> Hidden(input[r].space)
  BY DEF Hidden
<1>3. /\ \A op \in ByMembers : op \notin {"idle", "insert", "update", "commit", "resolve"}
      /\ \A op \in PlatformOps \ {"found"} : op \notin {"create", "found"}
  BY Kinds
<1> QED
  BY <1>1, <1>2, <1>3 DEF RequestInv, Creates

\* The middleware, and the service that asks the token for the role.
LEMMA AuthenticateInv ==
    ASSUME Inv, NEW r \in Requests, Authenticate(r)
    PROVE  Inv'
<1> DEFINE point == CASE input[r].op \in {"create", "found"} -> "insert"
                      [] input[r].op \in PlatformOps \ {"found"} -> "update"
                      [] OTHER -> "resolve"
<1>1. CASE Only(r, "refused")
  BY <1>1, OnlyInv DEF Results
<1>2. CASE Proceed(r, point) /\ UNCHANGED locks /\ At(r, "authenticate")
  <2>1. RequestInv(r) /\ pc[r] = "authenticate" /\ FlowTypes
    BY <1>2, Types DEF Inv, TransactionsAreWhole, At
  <2>2. point \in {"insert", "update", "resolve"}
        /\ (point = "insert" => input[r].op \in {"create", "found"})
        /\ (point = "update" => input[r].op \in PlatformOps \ {"found"})
        /\ (point = "resolve" => input[r].op \in ByMembers)
    BY <2>1, Kinds DEF RequestInv
  <2> HIDE DEF point
  <2>3. input' = input /\ pc' = [pc EXCEPT ![r] = point] /\ workspaces' = workspaces
    BY <1>2 DEF Proceed, Goto, tables
  <2>4. pc'[r] = point /\ point \in Points
    BY <2>1, <2>2, <2>3 DEF FlowTypes, Points
  <2>5. RequestInv(r)' /\ ~Creates(r)'
    BY <2>1, <2>2, <2>3, <2>4, OnwardInv
  <2>6. locks' \in [Requests -> SUBSET (Users \cup Spaces)]
    BY <1>2, <2>1 DEF FlowTypes
  <2> QED
    BY <1>2, <2>4, <2>5, <2>6, ProceedInv
<1> QED
  BY <1>1, <1>2 DEF Authenticate

\* The actor is made of what the tables show.
LEMMA ResolveInv ==
    ASSUME Inv, NEW r \in Requests, Resolve(r)
    PROVE  Inv'
<1> DEFINE w == input[r].space
           u == input[r].user
           made == [role |-> members[w][u], status |-> workspaces[w].status]
<1>1. CASE Only(r, "refused")
  BY <1>1, OnlyInv DEF Results
<1>2. CASE /\ At(r, "resolve") /\ Visible(w) /\ members[w][u] \in Roles
           /\ actor' = [actor EXCEPT ![r] = made] /\ Goto(r, input[r].op)
           /\ UNCHANGED <<tables, audit, uploads, tokens, locks, input, barred, alone, served, faults>>
  <2>1. RequestInv(r) /\ pc[r] = "resolve" /\ FlowTypes /\ TableTypes
        /\ barred \in [Requests -> SUBSET Reasons]
    BY <1>2, Types DEF Inv, TransactionsAreWhole, At
  <2>2. made \in ActorType
    BY <1>2 DEF Visible, ActorType
  <2> HIDE DEF made
  <2>3. actor' \in [Requests -> ActorType]
        /\ \A q \in Requests \ {r} : actor'[q] = actor[q] /\ input'[q] = input[q]
    BY <1>2, <2>1, <2>2 DEF FlowTypes
  <2>4. input[r].op \in ByMembers /\ input[r].op \in Points
    BY <2>1, Kinds DEF RequestInv, Points
  <2>5. FlowTypes' /\ OthersWait(r) /\ pc'[r] = input[r].op
    BY <1>2, <2>1, <2>3, <2>4, GotoParts DEF FlowTypes
  <2>6. input' = input /\ workspaces' = workspaces
    BY <1>2 DEF tables
  <2>7. RequestInv(r)' /\ ~Creates(r)'
    BY <2>1, <2>4, <2>5, <2>6, OnwardInv
  <2> QED
    BY <1>2, <2>1, <2>5, <2>7, QuietStep DEF TableTypes
<1> QED
  BY <1>1, <1>2 DEF Resolve

\* A change of a status.
LEMMA StatusSet ==
    ASSUME TableTypes, NEW w \in Spaces,
           NEW x \in {"none", "pending", "active", "suspended", "deleted"},
           workspaces' = [workspaces EXCEPT ![w].status = x]
    PROVE  /\ workspaces' \in [Spaces -> Space]
           /\ workspaces'[w].status = x
           /\ \A k \in Spaces : workspaces'[k].deleted = workspaces[k].deleted
           /\ \A k \in Spaces \ {w} : workspaces'[k] = workspaces[k]
BY DEF TableTypes, Space

\* A step of r that changes the tables.
LEMMA ChangeStep ==
    ASSUME Inv, NEW r \in Requests, FlowTypes', TableTypes',
           barred' \in [Requests -> SUBSET Reasons],
           faults' \in 0..MaxFaults, OthersWait(r), SparesRows(r), RequestInv(r)',
           Creates(r)' => workspaces[input'[r].space].status = "none",
           ChangesAreAudited', OwnedFromTheStart', HiddenAreNew'
    PROVE  Inv'
<1>1. CreatorsApart' /\ \A q \in Requests : RequestInv(q)'
  BY RequestsStay
<1>2. TypeOK'
  BY NextTypes
<1> QED
  BY <1>1, <1>2 DEF Inv, TransactionsAreWhole

\* The row of a new workspace, which nobody else sees.
LEMMA InsertCompanyInv ==
    ASSUME Inv, NEW r \in Requests, InsertCompany(r)
    PROVE  Inv'
<1> DEFINE w == CHOOSE x \in UnusedIds : TRUE
<1>1. /\ pc[r] = "insert" /\ UnusedIds # {}
      /\ workspaces' = [workspaces EXCEPT ![w].status = "pending"]
      /\ input' = [input EXCEPT ![r].space = w]
      /\ Goto(r, "commit")
      /\ UNCHANGED <<users, members, audit, uploads, tokens, locks, actor, barred, alone,
                     served, faults>>
  BY DEF InsertCompany, At
<1>2. w \in Spaces /\ workspaces[w].status = "none"
  BY <1>1 DEF UnusedIds
<1> HIDE DEF w
<1>3. /\ FlowTypes /\ TableTypes /\ RequestInv(r) /\ faults \in 0..MaxFaults
      /\ barred \in [Requests -> SUBSET Reasons]
      /\ ChangesAreAudited /\ OwnedFromTheStart /\ HiddenAreNew
  BY Types DEF Inv, TransactionsAreWhole
<1>4. /\ workspaces' \in [Spaces -> Space]
      /\ workspaces'[w].status = "pending"
      /\ \A k \in Spaces : workspaces'[k].deleted = workspaces[k].deleted
      /\ \A k \in Spaces \ {w} : workspaces'[k] = workspaces[k]
  BY <1>1, <1>2, <1>3, StatusSet
<1>5. /\ input' \in [Requests -> InputType]
      /\ input'[r].space = w /\ input'[r].op = input[r].op
      /\ input'[r].user = input[r].user /\ input'[r].target = input[r].target
      /\ \A q \in Requests \ {r} : input'[q] = input[q]
  BY <1>1, <1>2, <1>3 DEF FlowTypes, InputType
<1>6. FlowTypes' /\ OthersWait(r) /\ pc'[r] = "commit"
  BY <1>1, <1>3, <1>5, GotoParts DEF FlowTypes, Points
<1>7. input[r].op \in {"create", "found"}
  BY <1>1, <1>3 DEF RequestInv
<1>8. RequestInv(r)'
  <2>1. /\ input[r].op \in AllOps /\ input[r].user \in Users
        /\ input[r].op \notin OnSpaces
        /\ input[r].op \in OnUsers \cup {"found"} => input[r].target \in Users
        /\ input[r].op \in PlatformOps \cup {"create"}
    BY <1>1, <1>3, <1>7, Kinds DEF RequestInv
  <2>2. "commit" \notin ByMembers
    BY Kinds
  <2>3. workspaces'[input'[r].space].status = "pending"
    BY <1>4, <1>5
  <2> QED
    BY <1>2, <1>5, <1>6, <2>1, <2>2, <2>3 DEF RequestInv, Creates
<1>9. SparesRows(r)
  BY <1>2, <1>4 DEF SparesRows, Hidden
<1>10. TableTypes'
  BY <1>1, <1>3, <1>4 DEF TableTypes
<1>11. ChangesAreAudited'
  BY <1>1, <1>3, <1>4 DEF ChangesAreAudited
<1>12. OwnedFromTheStart' /\ HiddenAreNew'
  BY <1>1, <1>2, <1>3, <1>4 DEF OwnedFromTheStart, HiddenAreNew, Hidden
<1> QED
  BY <1>1, <1>2, <1>3, <1>5, <1>6, <1>8, <1>9, <1>10, <1>11, <1>12, ChangeStep

\* An answer keeps the rest of the invariant if what it does to the tables does.
LEMMA AnswerStep ==
    ASSUME Inv, NEW r \in Requests, NEW result \in Results, Answer(r, result), TableTypes',
           barred' \in [Requests -> SUBSET Reasons],
           faults' \in 0..MaxFaults, SparesRows(r),
           ChangesAreAudited', OwnedFromTheStart', HiddenAreNew'
    PROVE  Inv'
<1>1. FlowTypes
  BY Types DEF Inv, TransactionsAreWhole
<1>2. FlowTypes' /\ OthersWait(r) /\ pc'[r] = "idle"
  BY <1>1, AnswerParts
<1>3. RequestInv(r)' /\ ~Creates(r)'
  BY <1>2, IdleInv
<1> QED
  BY <1>2, <1>3, ChangeStep

\* The workspace and its owner show together.
LEMMA CommitCompanyInv ==
    ASSUME Inv, NEW r \in Requests, CommitCompany(r)
    PROVE  Inv'
<1> DEFINE w == input[r].space
           o == Owner(r)
<1>1. /\ pc[r] = "commit" /\ input[r].op \in {"create", "found"}
      /\ workspaces' = [workspaces EXCEPT ![w].status = "active"]
      /\ members' = [members EXCEPT ![w][o] = "owner"]
      /\ audit' = IF input[r].op = "found" THEN audit \cup {<<w, "created">>} ELSE audit
      /\ Answer(r, "done")
      /\ UNCHANGED <<users, uploads, barred, faults>>
  BY DEF CommitCompany, At
<1>2. /\ FlowTypes /\ TableTypes /\ RequestInv(r) /\ faults \in 0..MaxFaults
      /\ barred \in [Requests -> SUBSET Reasons]
      /\ ChangesAreAudited /\ OwnedFromTheStart /\ HiddenAreNew
  BY Types DEF Inv, TransactionsAreWhole
<1>3. Creates(r) /\ w \in Spaces /\ workspaces[w].status = "pending" /\ o \in Users
  BY <1>1, <1>2 DEF RequestInv, Creates, Owner
<1> HIDE DEF w, o
<1>4. /\ workspaces' \in [Spaces -> Space]
      /\ workspaces'[w].status = "active"
      /\ \A k \in Spaces : workspaces'[k].deleted = workspaces[k].deleted
      /\ \A k \in Spaces \ {w} : workspaces'[k] = workspaces[k]
  BY <1>1, <1>2, <1>3, StatusSet
<1>5. /\ members' \in [Spaces -> Members]
      /\ members'[w][o] = "owner"
      /\ \A k \in Spaces \ {w} : members'[k] = members[k]
  BY <1>1, <1>2, <1>3 DEF TableTypes, Members, Roles
<1>6. audit \subseteq audit' /\ audit' \subseteq EventType
  BY <1>1, <1>2, <1>3 DEF TableTypes, EventType
<1>7. TableTypes'
  BY <1>1, <1>2, <1>4, <1>5, <1>6 DEF TableTypes
<1>8. SparesRows(r)
  BY <1>3, <1>4 DEF SparesRows, Hidden, w
<1>9. ~workspaces[w].deleted
  BY <1>2, <1>3 DEF HiddenAreNew, Hidden
<1>10. ChangesAreAudited'
  <2>1. \A k \in Spaces :
            /\ workspaces'[k].status = "suspended" => <<k, "suspended">> \in audit'
            /\ workspaces'[k].status = "active" /\ workspaces'[k].deleted =>
                  <<k, "active">> \in audit'
    BY <1>2, <1>4, <1>6, <1>9 DEF ChangesAreAudited
  <2> QED
    BY <1>1, <1>2, <1>6, <2>1, Zenon DEF ChangesAreAudited
<1>11. OwnedFromTheStart'
  BY <1>2, <1>3, <1>4, <1>5 DEF OwnedFromTheStart
<1>12. HiddenAreNew'
  BY <1>2, <1>4 DEF HiddenAreNew, Hidden
<1> QED
  BY <1>1, <1>2, <1>7, <1>8, <1>10, <1>11, <1>12, AnswerStep DEF Results

\* The UPDATE of a transaction of the platform.
LEMMA LockTargetInv ==
    ASSUME Inv, NEW r \in Requests, LockTarget(r)
    PROVE  Inv'
<1>1. /\ pc[r] = "update" /\ locks' = [locks EXCEPT ![r] = {Target(r)}]
      /\ Proceed(r, "commit")
  BY DEF LockTarget, At
<1>2. FlowTypes /\ RequestInv(r)
  BY Types DEF Inv, TransactionsAreWhole
<1>3. input[r].op \in PlatformOps \ {"found"} /\ Target(r) \in Users \cup Spaces
  BY <1>1, <1>2, Kinds DEF RequestInv, Target
<1>4. locks' \in [Requests -> SUBSET (Users \cup Spaces)]
  BY <1>1, <1>2, <1>3 DEF FlowTypes
<1>5. /\ pc'[r] = "commit" /\ input'[r] = input[r] /\ workspaces' = workspaces
  BY <1>1, <1>2 DEF Proceed, Goto, FlowTypes, tables
<1>6. RequestInv(r)' /\ ~Creates(r)'
  BY <1>1, <1>2, <1>3, <1>5, OnwardInv
<1> QED
  BY <1>1, <1>4, <1>6, ProceedInv DEF Points

\* What a transaction of the platform changes, and to what.
LEMMA ChangeKinds ==
    ASSUME NEW r \in Requests, RequestInv(r), pc[r] = "commit",
           input[r].op \in PlatformOps \ {"found"}
    PROVE  \/ /\ input[r].op \in {"suspend space", "restore space"}
              /\ Target(r) \in Spaces /\ Target(r) \notin Users /\ Target(r) = input[r].space
              /\ ~Hidden(Target(r))
              /\ Value(r) = IF input[r].op = "suspend space" THEN "suspended" ELSE "active"
           \/ /\ input[r].op \in {"suspend user", "restore user"}
              /\ Target(r) \in Users /\ Target(r) \notin Spaces
              /\ Value(r) = IF input[r].op = "suspend user" THEN "suspended" ELSE "active"
           \/ /\ input[r].op \in {"promote", "demote"}
              /\ Target(r) \in Users /\ Target(r) \notin Spaces
              /\ Value(r) = IF input[r].op = "promote" THEN "admin" ELSE "user"
<1>1. input[r].op \in {"suspend space", "restore space"} =>
         input[r].space \in Spaces /\ ~Hidden(input[r].space)
  BY Kinds DEF RequestInv
<1>2. input[r].op \in {"suspend user", "restore user", "promote", "demote"} =>
         input[r].target \in Users
  BY Kinds DEF RequestInv
<1>3. input[r].op \in {"suspend space", "restore space", "suspend user", "restore user",
                       "promote", "demote"}
  BY Kinds
<1> QED
  BY <1>1, <1>2, <1>3, TenantsAssumption DEF Target, Value

\* What a transaction of the platform leaves alone.
LEMMA CommitChangeParts ==
    ASSUME Inv, NEW r \in Requests, CommitChange(r)
    PROVE  /\ pc[r] = "commit" /\ input[r].op \in PlatformOps \ {"found"}
           /\ Answer(r, "done") /\ members' = members /\ uploads' = uploads /\ faults' = faults
           /\ audit' = audit \cup {<<Target(r), Value(r)>>}
           /\ barred' \in [Requests -> SUBSET Reasons]
           /\ FlowTypes /\ TableTypes /\ RequestInv(r) /\ faults' \in 0..MaxFaults
           /\ ChangesAreAudited /\ OwnedFromTheStart /\ HiddenAreNew
<1>1. /\ FlowTypes /\ TableTypes /\ RequestInv(r) /\ faults \in 0..MaxFaults
      /\ barred \in [Requests -> SUBSET Reasons]
      /\ ChangesAreAudited /\ OwnedFromTheStart /\ HiddenAreNew
  BY Types DEF Inv, TransactionsAreWhole
<1>2. /\ pc[r] = "commit" /\ input[r].op \in PlatformOps \ {"found"}
      /\ Answer(r, "done") /\ members' = members /\ uploads' = uploads /\ faults' = faults
      /\ audit' = audit \cup {<<Target(r), Value(r)>>}
  BY DEF CommitChange, At, Events
<1>3. PICK lifted \in [Requests -> SUBSET {"user", "space", "role"}] :
         barred' = [q \in Requests |-> barred[q] \ lifted[q]]
  <2> DEFINE lifts(q) ==
                CASE input[r].op = "restore user" /\ input[q].user = Target(r) -> {"user"}
                  [] input[r].op = "promote" /\ input[q].user = Target(r) -> {"role"}
                  [] input[r].op = "restore space" /\ input[q].space = Target(r) -> {"space"}
                  [] OTHER -> {}
  <2>1. barred' = [q \in Requests |-> barred[q] \ lifts(q)]
    BY DEF CommitChange
  <2>2. \A q \in Requests : lifts(q) \in SUBSET {"user", "space", "role"}
    OBVIOUS
  <2> HIDE DEF lifts
  <2>3. [q \in Requests |-> lifts(q)] \in [Requests -> SUBSET {"user", "space", "role"}]
    BY <2>2
  <2> QED
    BY <2>1, <2>3
<1>4. \A q \in Requests :
          barred[q] \ lifted[q] \in SUBSET Reasons
  BY <1>1
<1>5. barred' \in [Requests -> SUBSET Reasons]
  BY <1>3, <1>4
<1> QED
  BY <1>1, <1>2, <1>5

\* The status of a workspace and its event.
LEMMA SpaceChangeInv ==
    ASSUME Inv, NEW r \in Requests, CommitChange(r), Target(r) \in Spaces
    PROVE  Inv'
<1> DEFINE w == Target(r)
           x == Value(r)
<1>1. /\ pc[r] = "commit" /\ input[r].op \in PlatformOps \ {"found"}
      /\ Answer(r, "done") /\ members' = members /\ uploads' = uploads
      /\ audit' = audit \cup {<<w, x>>}
      /\ barred' \in [Requests -> SUBSET Reasons]
      /\ FlowTypes /\ TableTypes /\ RequestInv(r) /\ faults' \in 0..MaxFaults
      /\ ChangesAreAudited /\ OwnedFromTheStart /\ HiddenAreNew
  BY CommitChangeParts
<1>2. w \in Spaces /\ w \notin Users /\ ~Hidden(w) /\ x \in {"suspended", "active"}
  BY <1>1, ChangeKinds, TenantsAssumption
<1>3. workspaces' = [workspaces EXCEPT ![w].status = x] /\ users' = users
  BY <1>2 DEF CommitChange
<1> HIDE DEF w, x
<1>4. /\ workspaces' \in [Spaces -> Space]
      /\ workspaces'[w].status = x
      /\ \A k \in Spaces : workspaces'[k].deleted = workspaces[k].deleted
      /\ \A k \in Spaces \ {w} : workspaces'[k] = workspaces[k]
  BY <1>1, <1>2, <1>3, StatusSet
<1>5. audit \subseteq audit' /\ audit' \subseteq EventType /\ <<w, x>> \in audit'
  BY <1>1, <1>2 DEF TableTypes, EventType
<1>6. TableTypes'
  BY <1>1, <1>3, <1>4, <1>5 DEF TableTypes
<1>7. SparesRows(r)
  BY <1>2, <1>4 DEF SparesRows, Hidden
<1>8. ChangesAreAudited'
  <2>1. \A k \in Spaces :
            /\ workspaces'[k].status = "suspended" => <<k, "suspended">> \in audit'
            /\ workspaces'[k].status = "active" /\ workspaces'[k].deleted =>
                  <<k, "active">> \in audit'
    BY <1>1, <1>2, <1>4, <1>5 DEF ChangesAreAudited
  <2> QED
    BY <1>1, <1>3, <1>5, <2>1, Zenon DEF ChangesAreAudited
<1>9. OwnedFromTheStart'
  BY <1>1, <1>2, <1>4 DEF OwnedFromTheStart, Hidden
<1>10. HiddenAreNew'
  BY <1>1, <1>2, <1>4 DEF HiddenAreNew, Hidden
<1> QED
  BY <1>1, <1>6, <1>7, <1>8, <1>9, <1>10, AnswerStep DEF Results

\* The status or the role of a user and its event.
LEMMA UserChangeInv ==
    ASSUME Inv, NEW r \in Requests, CommitChange(r), Target(r) \in Users
    PROVE  Inv'
<1> DEFINE t == Target(r)
           x == Value(r)
<1>1. /\ pc[r] = "commit" /\ input[r].op \in PlatformOps \ {"found"}
      /\ Answer(r, "done") /\ members' = members /\ uploads' = uploads
      /\ audit' = audit \cup {<<t, x>>}
      /\ barred' \in [Requests -> SUBSET Reasons]
      /\ FlowTypes /\ TableTypes /\ RequestInv(r) /\ faults' \in 0..MaxFaults
      /\ ChangesAreAudited /\ OwnedFromTheStart /\ HiddenAreNew
  BY CommitChangeParts
<1>2. t \in Users /\ t \notin Spaces /\ x \in {"suspended", "active", "admin", "user"}
  BY <1>1, ChangeKinds, TenantsAssumption
<1>3. /\ workspaces' = workspaces
      /\ users' = IF x \in {"admin", "user"} THEN [users EXCEPT ![t].admin = (x = "admin")]
                  ELSE [users EXCEPT ![t].status = x]
  BY <1>2 DEF CommitChange
<1> HIDE DEF t, x
<1>4. /\ users' \in [Users -> User]
      /\ \A k \in Users \ {t} : users'[k] = users[k]
      /\ users'[t].status = IF x \in {"suspended", "active"} THEN x ELSE users[t].status
      /\ users'[t].admin = IF x \in {"admin", "user"} THEN x = "admin" ELSE users[t].admin
  <2>1. (x = "admin") \in BOOLEAN /\ users \in [Users -> User]
    BY <1>1 DEF TableTypes
  <2>2. CASE x \in {"admin", "user"}
    <3> DEFINE flag == x = "admin"
    <3>1. users' = [users EXCEPT ![t].admin = flag] /\ flag \in BOOLEAN
      BY <1>3, <2>2
    <3> HIDE DEF flag
    <3>2. /\ users' \in [Users -> User] /\ users'[t].admin = flag
          /\ users'[t].status = users[t].status
          /\ \A k \in Users \ {t} : users'[k] = users[k]
      BY <1>2, <2>1, <3>1 DEF User
    <3> QED
      BY <1>2, <2>2, <3>2 DEF flag
  <2>3. CASE x \notin {"admin", "user"}
    <3>1. users' = [users EXCEPT ![t].status = x] /\ x \in {"active", "suspended"}
      BY <1>2, <1>3, <2>3
    <3> QED
      BY <1>2, <2>1, <3>1 DEF User
  <2> QED
    BY <2>2, <2>3
<1>5. audit \subseteq audit' /\ audit' \subseteq EventType /\ <<t, x>> \in audit'
  BY <1>1, <1>2 DEF TableTypes, EventType
<1>6. TableTypes'
  BY <1>1, <1>3, <1>4, <1>5 DEF TableTypes
<1>7. SparesRows(r)
  BY <1>3 DEF SparesRows, Hidden
<1>8. ChangesAreAudited'
  <2>1. ASSUME NEW u \in Users
        PROVE  /\ users'[u].status = "suspended" => <<u, "suspended">> \in audit'
               /\ users'[u].admin # (u \in Admins) =>
                     <<u, IF users'[u].admin THEN "admin" ELSE "user">> \in audit'
    <3>1. CASE u # t
      BY <1>1, <1>4, <1>5, <3>1, Zenon DEF ChangesAreAudited
    <3>2. CASE u = t /\ x = "admin"
      BY <1>1, <1>4, <1>5, <3>2 DEF ChangesAreAudited
    <3>3. CASE u = t /\ x = "user"
      BY <1>1, <1>4, <1>5, <3>3 DEF ChangesAreAudited
    <3>4. CASE u = t /\ x \in {"active", "suspended"}
      <4>1. users'[t].status = x /\ users'[t].admin = users[t].admin
        BY <1>4, <3>4
      <4> QED
        BY <1>1, <1>5, <3>4, <4>1, Zenon DEF ChangesAreAudited
    <3> QED
      BY <1>2, <3>1, <3>2, <3>3, <3>4
  <2> QED
    BY <1>1, <1>3, <1>5, <2>1, Zenon DEF ChangesAreAudited
<1>9. OwnedFromTheStart' /\ HiddenAreNew'
  BY <1>1, <1>3 DEF OwnedFromTheStart, HiddenAreNew, Hidden
<1> QED
  BY <1>1, <1>6, <1>7, <1>8, <1>9, AnswerStep DEF Results

\* The change and its event.
LEMMA CommitChangeInv ==
    ASSUME Inv, NEW r \in Requests, CommitChange(r)
    PROVE  Inv'
<1>1. Target(r) \in Spaces \/ Target(r) \in Users
  BY CommitChangeParts, ChangeKinds
<1> QED
  BY <1>1, SpaceChangeInv, UserChangeInv

\* The requests of members that change no table of the model.
LEMMA ReadersInv ==
    ASSUME Inv, NEW r \in Requests, Get(r) \/ Rename(r)
    PROVE  Inv'
<1>1. \E result \in Results : Only(r, result)
  BY DEF Get, Rename, Results
<1> QED
  BY <1>1, OnlyInv

\* An upload.
LEMMA UploadInv ==
    ASSUME Inv, NEW r \in Requests, Upload(r)
    PROVE  Inv'
<1>1. CASE Only(r, "refused")
  BY <1>1, OnlyInv DEF Results
<1>2. CASE /\ At(r, "upload") /\ uploads' = uploads \cup {input[r].space}
           /\ Answer(r, "done") /\ UNCHANGED <<tables, audit, barred, faults>>
  <2>1. /\ FlowTypes /\ TableTypes /\ RequestInv(r) /\ pc[r] = "upload"
        /\ barred \in [Requests -> SUBSET Reasons]
    BY <1>2, Types DEF Inv, TransactionsAreWhole, At
  <2>2. input[r].space \in Spaces
    BY <2>1, Kinds DEF RequestInv
  <2>3. FlowTypes' /\ OthersWait(r) /\ pc'[r] = "idle"
    BY <1>2, <2>1, AnswerParts DEF Results
  <2>4. uploads' \subseteq Spaces
    BY <1>2, <2>1, <2>2 DEF TableTypes
  <2>5. barred' = barred /\ UNCHANGED <<tables, audit, faults>>
    BY <1>2
  <2>6. RequestInv(r)' /\ ~Creates(r)'
    BY <2>3, IdleInv
  <2> QED
    BY <2>1, <2>3, <2>4, <2>5, <2>6, QuietStep
<1> QED
  BY <1>1, <1>2 DEF Upload

\* A deletion, which keeps the row.
LEMMA DeleteInv ==
    ASSUME Inv, NEW r \in Requests, Delete(r)
    PROVE  Inv'
<1> DEFINE w == input[r].space
           gone == [status |-> "deleted", deleted |-> TRUE]
<1>1. CASE Only(r, "refused")
  BY <1>1, OnlyInv DEF Results
<1>2. CASE /\ At(r, "delete") /\ workspaces' = [workspaces EXCEPT ![w] = gone]
           /\ Answer(r, "done")
           /\ UNCHANGED <<users, members, audit, uploads, barred, faults>>
  <2>1. /\ FlowTypes /\ TableTypes /\ RequestInv(r) /\ pc[r] = "delete" /\ faults \in 0..MaxFaults
        /\ barred \in [Requests -> SUBSET Reasons]
        /\ ChangesAreAudited /\ OwnedFromTheStart /\ HiddenAreNew
    BY <1>2, Types DEF Inv, TransactionsAreWhole, At
  <2>2. w \in Spaces /\ ~Hidden(w)
    BY <2>1, Kinds DEF RequestInv
  <2>3. gone \in Space /\ gone.status = "deleted"
    BY DEF Space
  <2> HIDE DEF w, gone
  <2>4. /\ workspaces' \in [Spaces -> Space] /\ workspaces'[w].status = "deleted"
        /\ \A k \in Spaces \ {w} : workspaces'[k] = workspaces[k]
    BY <1>2, <2>1, <2>2, <2>3 DEF TableTypes
  <2>5. TableTypes'
    BY <1>2, <2>1, <2>4 DEF TableTypes
  <2>6. SparesRows(r)
    BY <2>2, <2>4 DEF SparesRows, Hidden
  <2>7. ChangesAreAudited'
    <3>1. \A k \in Spaces :
              /\ workspaces'[k].status = "suspended" => <<k, "suspended">> \in audit'
              /\ workspaces'[k].status = "active" /\ workspaces'[k].deleted =>
                    <<k, "active">> \in audit'
      BY <1>2, <2>1, <2>4 DEF ChangesAreAudited
    <3> QED
      BY <1>2, <2>1, <3>1, Zenon DEF ChangesAreAudited
  <2>8. OwnedFromTheStart' /\ HiddenAreNew'
    BY <1>2, <2>1, <2>2, <2>4 DEF OwnedFromTheStart, HiddenAreNew, Hidden
  <2> QED
    BY <1>2, <2>1, <2>5, <2>6, <2>7, <2>8, AnswerStep DEF Results
<1> QED
  BY <1>1, <1>2 DEF Delete

\* A failure takes an inserted workspace back.
LEMMA ErrInv ==
    ASSUME Inv, NEW r \in Requests, Err(r)
    PROVE  Inv'
<1> DEFINE w == input[r].space
<1>1. /\ faults < MaxFaults /\ faults' = faults + 1 /\ Answer(r, "error")
      /\ UNCHANGED <<users, members, audit, uploads, barred>>
      /\ workspaces' = IF Creates(r) THEN [workspaces EXCEPT ![w].status = "none"]
                       ELSE workspaces
  BY DEF Err, Creates, At
<1>2. /\ FlowTypes /\ TableTypes /\ RequestInv(r) /\ faults \in 0..MaxFaults
      /\ barred \in [Requests -> SUBSET Reasons]
      /\ ChangesAreAudited /\ OwnedFromTheStart /\ HiddenAreNew
  BY Types DEF Inv, TransactionsAreWhole
<1>3. faults' \in 0..MaxFaults
  BY <1>1, <1>2, TenantsAssumption
<1>4. Creates(r) => w \in Spaces /\ workspaces[w].status = "pending"
  BY <1>2 DEF RequestInv
<1> HIDE DEF w
<1>5. /\ workspaces' \in [Spaces -> Space]
      /\ \A k \in Spaces : workspaces'[k].deleted = workspaces[k].deleted
      /\ \A k \in Spaces :
            \/ workspaces'[k] = workspaces[k]
            \/ Creates(r) /\ k = w /\ workspaces'[k].status = "none" /\ Hidden(k)
  <2>1. CASE Creates(r)
    <3>1. workspaces' = [workspaces EXCEPT ![w].status = "none"]
      BY <1>1, <2>1
    <3>2. Hidden(w)
      BY <1>4, <2>1 DEF Hidden
    <3> QED
      BY <1>2, <1>4, <2>1, <3>1, <3>2, StatusSet
  <2>2. CASE ~Creates(r)
    BY <1>1, <1>2, <2>2 DEF TableTypes
  <2> QED
    BY <2>1, <2>2
<1>6. TableTypes'
  BY <1>1, <1>2, <1>5 DEF TableTypes
<1>7. SparesRows(r)
  BY <1>5 DEF SparesRows, Hidden, w
<1>8. ChangesAreAudited'
  <2>1. \A k \in Spaces :
            /\ workspaces'[k].status = "suspended" => <<k, "suspended">> \in audit'
            /\ workspaces'[k].status = "active" /\ workspaces'[k].deleted =>
                  <<k, "active">> \in audit'
    BY <1>1, <1>2, <1>5 DEF ChangesAreAudited
  <2> QED
    BY <1>1, <1>2, <2>1, Zenon DEF ChangesAreAudited
<1>9. OwnedFromTheStart' /\ HiddenAreNew'
  BY <1>1, <1>2, <1>5 DEF OwnedFromTheStart, HiddenAreNew, Hidden
<1> QED
  BY <1>1, <1>2, <1>3, <1>6, <1>7, <1>8, <1>9, AnswerStep DEF Results

\* What is not of a request: access tokens and memberships.
LEMMA OutsideInv ==
    ASSUME Inv,
           \/ \E u \in Users : Renew(u)
           \/ \E w \in Spaces, u \in Users : Disable(w, u)
    PROVE  Inv'
<1>1. /\ users' = users /\ workspaces' = workspaces /\ audit' = audit /\ uploads' = uploads
      /\ locks' = locks /\ pc' = pc /\ input' = input /\ actor' = actor /\ outcome' = outcome
      /\ barred' = barred /\ alone' = alone /\ served' = served /\ faults' = faults
  BY DEF Renew, Disable, tables
<1>2. /\ FlowTypes /\ TableTypes /\ faults \in 0..MaxFaults
      /\ barred \in [Requests -> SUBSET Reasons]
      /\ ChangesAreAudited /\ OwnedFromTheStart /\ HiddenAreNew /\ CreatorsApart
      /\ \A r \in Requests : RequestInv(r)
  BY Types DEF Inv, TransactionsAreWhole
<1> DEFINE Typed == /\ tokens' \subseteq [user : Users, admin : BOOLEAN]
                    /\ members' \in [Spaces -> Members]
           OwnersStay == \A w \in Spaces, u \in Users :
                             members[w][u] = "owner" => members'[w][u] = "owner"
<1>3. Typed /\ OwnersStay
  <2>1. ASSUME NEW u \in Users, Renew(u)
        PROVE  Typed /\ OwnersStay
    BY <1>2, <2>1 DEF Renew, tables, FlowTypes, TableTypes, User
  <2>2. ASSUME NEW w \in Spaces, NEW u \in Users, Disable(w, u)
        PROVE  Typed /\ OwnersStay
    BY <1>2, <2>2 DEF Disable, FlowTypes, TableTypes, Members
  <2> QED
    BY <2>1, <2>2
<1>4. FlowTypes' /\ TableTypes'
  BY <1>1, <1>2, <1>3 DEF FlowTypes, TableTypes
<1>5. TypeOK'
  BY <1>1, <1>2, <1>4, NextTypes
<1>6. ChangesAreAudited' /\ HiddenAreNew' /\ CreatorsApart'
  BY <1>1, <1>2 DEF ChangesAreAudited, HiddenAreNew, CreatorsApart, Creates, Hidden
<1>7. OwnedFromTheStart'
  BY <1>1, <1>2, <1>3 DEF OwnedFromTheStart
<1>8. \A r \in Requests : RequestInv(r)'
  BY <1>1, <1>2 DEF RequestInv, Creates, Hidden
<1> QED
  BY <1>5, <1>6, <1>7, <1>8 DEF Inv, TransactionsAreWhole

\* No step breaks the invariant.
LEMMA NextInv ==
    ASSUME Inv, [Next]_vars
    PROVE  Inv'
<1>1. CASE UNCHANGED vars
  BY <1>1 DEF vars, Inv, TransactionsAreWhole, TypeOK, ChangesAreAudited, OwnedFromTheStart,
     HiddenAreNew, CreatorsApart, RequestInv, Creates, Hidden
<1>2. ASSUME NEW r \in Requests, Arrive(r) \/ Step(r) \/ Err(r)
      PROVE  Inv'
  BY <1>2, ArriveInv, AuthenticateInv, ResolveInv, InsertCompanyInv, CommitCompanyInv,
     LockTargetInv, CommitChangeInv, ReadersInv, UploadInv, DeleteInv, ErrInv DEF Step
<1> QED
  BY <1>1, <1>2, OutsideInv DEF Next, Terminated

\* The invariant holds in every state, for any users, workspaces and requests.
THEOREM Invariance == Spec => []Inv
BY InitInv, NextInv, PTL DEF Spec

\* A change of the platform shows together with its event and a workspace together
\* with its owner, however requests interleave and whatever statement fails.
THEOREM ChangesAreWhole == Spec => []TransactionsAreWhole
<1>1. Inv => TransactionsAreWhole
  BY DEF Inv
<1> QED
  BY <1>1, Invariance, PTL

-------------------------------------------------------------------------------
(* Changes take effect. *)

\* What has been against a request, and has not been taken back, still is.
StillAgainst(q) ==
    /\ barred'[q] \subseteq barred[q]
    /\ "user" \in barred'[q] /\ users[input[q].user].status = "suspended" =>
           users'[input[q].user].status = "suspended"
    /\ input[q].op \in ByMembers =>
          /\ members[input[q].space][input[q].user] \notin Roles =>
                members'[input[q].space][input[q].user] \notin Roles
          /\ workspaces[input[q].space].deleted => workspaces'[input[q].space].deleted
          /\ "space" \in barred'[q] /\ workspaces[input[q].space].status = "suspended" =>
                \/ workspaces'[input[q].space].status = "suspended"
                \/ workspaces'[input[q].space].deleted

\* A transaction of the platform that takes a change back clears it, and nothing else.
LEMMA CommitChangeAgainst ==
    ASSUME Inv, NEW r \in Requests, CommitChange(r), NEW q \in Requests, pc[q] # "idle"
    PROVE  StillAgainst(q)
<1> DEFINE t == Target(r)
           x == Value(r)
           u == input[q].user
           w == input[q].space
           lifted == CASE input[r].op = "restore user" /\ u = t -> {"user"}
                       [] input[r].op = "promote" /\ u = t -> {"role"}
                       [] input[r].op = "restore space" /\ w = t -> {"space"}
                       [] OTHER -> {}
<1>1. barred'[q] = barred[q] \ lifted
  BY DEF CommitChange
<1>2. /\ members' = members /\ TableTypes /\ RequestInv(q) /\ RequestInv(r)
      /\ pc[r] = "commit" /\ input[r].op \in PlatformOps \ {"found"}
  BY CommitChangeParts DEF Inv
<1>3. \/ t \in Spaces /\ workspaces' = [workspaces EXCEPT ![t].status = x] /\ users' = users
      \/ /\ t \in Users /\ workspaces' = workspaces
         /\ users' = IF x \in {"admin", "user"} THEN [users EXCEPT ![t].admin = (x = "admin")]
                     ELSE [users EXCEPT ![t].status = x]
  BY DEF CommitChange
<1>4. /\ u \in Users /\ (input[q].op \in ByMembers => w \in Spaces)
  BY <1>2, Kinds DEF RequestInv
<1>5. \/ /\ input[r].op \in {"suspend space", "restore space"} /\ t \notin Users
         /\ x = IF input[r].op = "suspend space" THEN "suspended" ELSE "active"
      \/ /\ input[r].op \in {"suspend user", "restore user"} /\ t \notin Spaces
         /\ x = IF input[r].op = "suspend user" THEN "suspended" ELSE "active"
      \/ /\ input[r].op \in {"promote", "demote"} /\ t \notin Spaces
         /\ x \in {"admin", "user"}
  BY <1>2, ChangeKinds
<1>6. "user" \in barred'[q] /\ input[r].op = "restore user" => u # t
  BY <1>1
<1>7. "space" \in barred'[q] /\ input[r].op = "restore space" => w # t
  BY <1>1, <1>5
<1>8. barred'[q] \subseteq barred[q]
  BY <1>1
<1> HIDE DEF lifted, t, x, u, w
<1>9. "user" \in barred'[q] /\ users[u].status = "suspended" => users'[u].status = "suspended"
  <2>1. CASE t \in Spaces /\ users' = users
    BY <2>1
  <2>2. CASE x \in {"admin", "user"} /\ users' = [users EXCEPT ![t].admin = (x = "admin")]
    <3> DEFINE flag == x = "admin"
    <3>1. users' = [users EXCEPT ![t].admin = flag]
      BY <2>2
    <3> HIDE DEF flag
    <3> QED
      BY <1>2, <1>4, <3>1 DEF TableTypes, User
  <2>3. CASE x \notin {"admin", "user"} /\ users' = [users EXCEPT ![t].status = x] /\ t \in Users
    BY <1>2, <1>4, <1>5, <1>6, <2>3 DEF TableTypes, User
  <2> QED
    BY <1>3, <1>5, <2>1, <2>2, <2>3
<1>10. w \in Spaces =>
          /\ workspaces[w].deleted => workspaces'[w].deleted
          /\ "space" \in barred'[q] /\ workspaces[w].status = "suspended" =>
                workspaces'[w].status = "suspended"
  <2>1. CASE workspaces' = workspaces
    BY <2>1
  <2>2. CASE t \in Spaces /\ workspaces' = [workspaces EXCEPT ![t].status = x]
    BY <1>2, <1>5, <1>7, <2>2 DEF TableTypes, Space
  <2> QED
    BY <1>3, <2>1, <2>2
<1> QED
  BY <1>2, <1>4, <1>8, <1>9, <1>10 DEF StillAgainst, u, w

\* No other step takes back what is against a request.
LEMMA TablesAgainst ==
    ASSUME Inv, NEW q \in Requests, pc[q] # "idle", [Next]_vars
    PROVE  StillAgainst(q)
<1>1. /\ TableTypes /\ RequestInv(q) /\ FlowTypes /\ barred \in [Requests -> SUBSET Reasons]
  BY Types DEF Inv, TransactionsAreWhole
<1>2. /\ input[q].user \in Users
      /\ input[q].op \in ByMembers => input[q].space \in Spaces /\ ~Hidden(input[q].space)
  BY <1>1, Kinds DEF RequestInv
<1>3. CASE UNCHANGED <<tables, barred>>
  BY <1>3 DEF StillAgainst, tables
<1>4. ASSUME NEW r \in Requests, Arrive(r)
      PROVE  StillAgainst(q)
  <2>1. r # q
    BY <1>4 DEF Arrive, At
  <2>2. barred'[q] = barred[q] /\ UNCHANGED tables
    BY <1>1, <1>4, <2>1 DEF Arrive
  <2> QED
    BY <2>2 DEF StillAgainst, tables
<1>5. ASSUME NEW r \in Requests, InsertCompany(r)
      PROVE  StillAgainst(q)
  <2> DEFINE w == CHOOSE k \in UnusedIds : TRUE
  <2>1. /\ users' = users /\ members' = members /\ barred' = barred /\ UnusedIds # {}
        /\ workspaces' = [workspaces EXCEPT ![w].status = "pending"]
    BY <1>5 DEF InsertCompany
  <2>2. w \in Spaces /\ Hidden(w)
    BY <2>1 DEF UnusedIds, Hidden
  <2> HIDE DEF w
  <2> QED
    BY <1>1, <1>2, <2>1, <2>2, StatusSet DEF StillAgainst
<1>6. ASSUME NEW r \in Requests, CommitCompany(r)
      PROVE  StillAgainst(q)
  <2> DEFINE w == input[r].space
  <2>1. /\ users' = users /\ barred' = barred /\ Creates(r)
        /\ workspaces' = [workspaces EXCEPT ![w].status = "active"]
        /\ members' = [members EXCEPT ![w][Owner(r)] = "owner"]
    BY <1>6 DEF CommitCompany, Creates, At
  <2>2. w \in Spaces /\ Hidden(w)
    BY <2>1 DEF Inv, RequestInv, Hidden
  <2> HIDE DEF w
  <2>3. \A k \in Spaces \ {w} : members'[k] = members[k] /\ workspaces'[k] = workspaces[k]
    BY <1>1, <2>1, <2>2 DEF TableTypes
  <2> QED
    BY <1>2, <2>1, <2>2, <2>3 DEF StillAgainst
<1>7. ASSUME NEW r \in Requests, Delete(r)
      PROVE  StillAgainst(q)
  <2>1. CASE Only(r, "refused")
    BY <1>3, <2>1 DEF Only
  <2>2. CASE /\ workspaces' = [workspaces EXCEPT ![input[r].space] =
                   [status |-> "deleted", deleted |-> TRUE]]
             /\ UNCHANGED <<users, members, barred>>
    BY <1>1, <1>2, <2>2 DEF StillAgainst, TableTypes, Space
  <2> QED
    BY <1>7, <2>1, <2>2 DEF Delete
<1>8. ASSUME NEW r \in Requests, Err(r)
      PROVE  StillAgainst(q)
  <2> DEFINE w == input[r].space
  <2>1. /\ users' = users /\ members' = members /\ barred' = barred
        /\ workspaces' = IF Creates(r) THEN [workspaces EXCEPT ![w].status = "none"]
                         ELSE workspaces
    BY <1>8 DEF Err, Creates, At
  <2>2. Creates(r) => w \in Spaces /\ Hidden(w)
    BY DEF Inv, RequestInv, Hidden
  <2> HIDE DEF w
  <2>3. \A k \in Spaces : Hidden(k) \/ workspaces'[k] = workspaces[k]
    BY <1>1, <2>1, <2>2 DEF TableTypes
  <2> QED
    BY <1>2, <2>1, <2>3 DEF StillAgainst
<1>9. ASSUME NEW w \in Spaces, NEW u \in Users, Disable(w, u)
      PROVE  StillAgainst(q)
  <2>1. /\ users' = users /\ workspaces' = workspaces /\ barred' = barred
        /\ members' = [members EXCEPT ![w][u] = "disabled"] /\ "disabled" \notin Roles
    BY <1>9 DEF Disable, Roles
  <2> QED
    BY <1>1, <1>2, <2>1 DEF StillAgainst, TableTypes, Members
<1>10. ASSUME NEW r \in Requests,
              \/ Authenticate(r) \/ Resolve(r) \/ LockTarget(r)
              \/ Get(r) \/ Rename(r) \/ Upload(r)
       PROVE  StillAgainst(q)
  <2>1. UNCHANGED <<tables, barred>>
    BY <1>10 DEF Authenticate, Resolve, LockTarget, Get, Rename, Upload, Only, Proceed
  <2> QED
    BY <1>3, <2>1
<1>11. CASE UNCHANGED vars \/ \E u \in Users : Renew(u)
  <2>1. UNCHANGED <<tables, barred>>
    BY <1>11 DEF vars, Renew, tables
  <2> QED
    BY <1>3, <2>1
<1> QED
  BY <1>4, <1>5, <1>6, <1>7, <1>8, <1>9, <1>10, <1>11, CommitChangeAgainst
     DEF Next, Step, Terminated

\* A request that stays where it is.
LEMMA BarredStays ==
    ASSUME Inv, NEW q \in Requests, BarredInv(q), StillAgainst(q),
           pc'[q] = pc[q], input'[q] = input[q], actor'[q] = actor[q]
    PROVE  BarredInv(q)'
<1>1. CASE pc[q] = "idle"
  BY <1>1 DEF BarredInv
<1>2. CASE pc[q] # "idle"
  <2>1. "upload" \in ByMembers
    BY Kinds
  <2> QED
    BY <1>2, <2>1 DEF BarredInv, StillAgainst
<1> QED
  BY <1>1, <1>2

\* A request that arrives.
LEMMA ArriveBarred ==
    ASSUME Inv, NEW r \in Requests, Arrive(r)
    PROVE  BarredInv(r)'
<1>1. /\ users' = users /\ workspaces' = workspaces /\ members' = members
      /\ pc' = [pc EXCEPT ![r] = "authenticate"]
      /\ barred' = [barred EXCEPT ![r] = Against(input'[r])]
  BY DEF Arrive, tables
<1>2. pc \in [Requests -> Points]
      /\ barred \in [Requests -> SUBSET Reasons]
  BY Types DEF Inv, TransactionsAreWhole, FlowTypes
<1> DEFINE i == input'[r]
<1>3. pc'[r] = "authenticate" /\ barred'[r] = Against(i)
  BY <1>1, <1>2
<1>4. /\ "user" \in Against(i) => users[i.user].status = "suspended"
      /\ "space" \in Against(i) => i.op = "upload" /\ workspaces[i.space].status = "suspended"
      /\ "role" \in Against(i) => i.op \in PlatformOps
      /\ "member" \in Against(i) => i.op \in ByMembers /\ members[i.space][i.user] \notin Roles
      /\ "deleted" \in Against(i) => i.op \in ByMembers /\ workspaces[i.space].deleted
  BY DEF Against
<1> QED
  BY <1>1, <1>3, <1>4 DEF BarredInv

\* authenticate lets nobody pass who is suspended.
LEMMA AuthenticateBarred ==
    ASSUME Inv, NEW r \in Requests, BarredInv(r), Authenticate(r), pc'[r] # "idle"
    PROVE  BarredInv(r)'
<1>1. FlowTypes /\ RequestInv(r)
  BY Types DEF Inv, TransactionsAreWhole
<1>2. ~Only(r, "refused")
  BY <1>1, AnswerParts DEF Only, Results
<1> DEFINE point == CASE input[r].op \in {"create", "found"} -> "insert"
                      [] input[r].op \in PlatformOps \ {"found"} -> "update"
                      [] OTHER -> "resolve"
<1>3. /\ pc[r] = "authenticate" /\ users[input[r].user].status # "suspended"
      /\ Proceed(r, point)
  BY <1>2 DEF Authenticate, At
<1>4. input[r].op \in ByMembers => point = "resolve"
  BY Kinds
<1>5. point \in {"insert", "update", "resolve"}
  OBVIOUS
<1> HIDE DEF point
<1>6. /\ pc'[r] = point /\ input' = input /\ actor' = actor /\ barred' = barred
      /\ users' = users /\ workspaces' = workspaces /\ members' = members
  BY <1>1, <1>3 DEF Proceed, Goto, tables, FlowTypes
<1>7. "upload" \in ByMembers
  BY Kinds
<1>8. input[r].op \in PlatformOps => input[r].admin
  BY <1>2 DEF Authenticate, MayAdminister
<1> QED
  BY <1>3, <1>4, <1>5, <1>6, <1>7, <1>8 DEF BarredInv

\* The actor is made of a membership and a workspace that admit it.
LEMMA ResolveBarred ==
    ASSUME Inv, NEW r \in Requests, BarredInv(r), Resolve(r), pc'[r] # "idle"
    PROVE  BarredInv(r)'
<1>1. FlowTypes /\ RequestInv(r)
  BY Types DEF Inv, TransactionsAreWhole
<1>2. ~Only(r, "refused")
  BY <1>1, AnswerParts DEF Only, Results
<1> DEFINE w == input[r].space
           u == input[r].user
           made == [role |-> members[w][u], status |-> workspaces[w].status]
<1>3. /\ pc[r] = "resolve" /\ Visible(w) /\ members[w][u] \in Roles
      /\ actor' = [actor EXCEPT ![r] = made] /\ Goto(r, input[r].op)
      /\ UNCHANGED <<tables, input, barred>>
  BY <1>2 DEF Resolve, At
<1>4. /\ pc'[r] = input[r].op /\ input' = input /\ barred' = barred
      /\ users' = users /\ workspaces' = workspaces /\ members' = members
  BY <1>1, <1>3 DEF Goto, tables, FlowTypes
<1>5. actor'[r].status = workspaces[w].status
  BY <1>1, <1>3 DEF FlowTypes
<1>6. input[r].op \in ByMembers /\ "upload" \in ByMembers
  BY <1>1, <1>3, Kinds DEF RequestInv
<1> QED
  BY <1>3, <1>4, <1>5, <1>6 DEF BarredInv, Visible

\* The invariant of what is against the requests, for the request that moves.
LEMMA MoverBarred ==
    ASSUME Inv, NEW r \in Requests, BarredInv(r), StillAgainst(r), Step(r) \/ Err(r)
    PROVE  BarredInv(r)'
<1>1. FlowTypes /\ RequestInv(r)
  BY Types DEF Inv, TransactionsAreWhole
<1>2. CASE pc'[r] = "idle"
  BY <1>2 DEF BarredInv
<1>3. CASE pc'[r] # "idle"
  <2>1. ~(\E result \in Results : Answer(r, result))
    BY <1>1, <1>3, AnswerParts
  <2>2. Authenticate(r) \/ Resolve(r) \/ InsertCompany(r) \/ LockTarget(r)
    BY <2>1 DEF Step, Err, CommitCompany, CommitChange, Get, Rename, Delete, Upload, Only,
       Results
  <2>3. CASE InsertCompany(r)
    <3>1. /\ pc[r] = "insert" /\ pc'[r] = "commit" /\ barred' = barred
          /\ input'[r].op = input[r].op /\ input[r].op \in {"create", "found"}
          /\ input'[r].admin = input[r].admin
      BY <1>1, <2>3 DEF InsertCompany, At, Goto, FlowTypes, InputType, RequestInv
    <3> QED
      BY <3>1 DEF BarredInv
  <2>4. CASE LockTarget(r)
    <3>1. /\ pc[r] = "update" /\ pc'[r] = "commit" /\ barred' = barred
          /\ input' = input /\ input[r].op \in PlatformOps
      BY <1>1, <2>4 DEF LockTarget, Proceed, At, Goto, FlowTypes, RequestInv
    <3>2. input[r].op # "upload"
      BY <3>1, Kinds
    <3> QED
      BY <3>1, <3>2 DEF BarredInv
  <2> QED
    BY <1>3, <2>2, <2>3, <2>4, AuthenticateBarred, ResolveBarred
<1> QED
  BY <1>2, <1>3

\* A step moves one request.
LEMMA OthersStay ==
    ASSUME Inv, NEW r \in Requests, Arrive(r) \/ Step(r) \/ Err(r)
    PROVE  OthersWait(r)
<1>1. FlowTypes
  BY Types DEF Inv, TransactionsAreWhole
<1>2. CASE \E result \in Results : Answer(r, result)
  BY <1>1, <1>2, AnswerParts
<1>3. CASE Arrive(r)
  BY <1>1, <1>3 DEF Arrive, OthersWait, FlowTypes
<1>4. CASE Authenticate(r) \/ Resolve(r) \/ InsertCompany(r) \/ LockTarget(r)
  <2>1. (\E result \in Results : Answer(r, result))
          \/ /\ \E point : pc' = [pc EXCEPT ![r] = point]
             /\ \A q \in Requests \ {r} : input'[q] = input[q] /\ actor'[q] = actor[q]
    BY <1>1, <1>4 DEF Authenticate, Resolve, InsertCompany, LockTarget, Only, Proceed, Goto,
       FlowTypes, Results
  <2> QED
    BY <1>1, <1>2, <2>1 DEF OthersWait, FlowTypes
<1> QED
  BY <1>2, <1>3, <1>4 DEF Step, Err, CommitCompany, CommitChange, Get, Rename, Delete, Upload,
     Only, Results

\* What is against a request is still so, or it was taken back.
LEMMA BarredNext ==
    ASSUME Inv, BarInv, [Next]_vars
    PROVE  BarInv'
<1> SUFFICES ASSUME NEW q \in Requests
             PROVE  BarredInv(q)'
  BY DEF BarInv
<1>1. BarredInv(q)
  BY DEF BarInv
<1>2. CASE pc'[q] = "idle"
  BY <1>2 DEF BarredInv
<1>3. CASE pc'[q] # "idle"
  <2>1. CASE \E r \in Requests : Arrive(r) \/ Step(r) \/ Err(r)
    <3>1. PICK r \in Requests : Arrive(r) \/ Step(r) \/ Err(r)
      BY <2>1
    <3>2. CASE q = r /\ Arrive(r)
      BY <3>2, ArriveBarred
    <3>3. CASE q = r /\ (Step(r) \/ Err(r))
      <4>1. pc[r] # "idle"
        BY <3>3 DEF Step, Err, Authenticate, Resolve, InsertCompany, CommitCompany, LockTarget,
           CommitChange, Get, Rename, Delete, Upload, At
      <4> QED
        BY <1>1, <3>3, <4>1, MoverBarred, TablesAgainst
    <3>4. CASE q # r
      <4>1. pc'[q] = pc[q] /\ input'[q] = input[q] /\ actor'[q] = actor[q]
        BY <3>1, <3>4, OthersStay DEF OthersWait
      <4> QED
        BY <1>1, <1>3, <4>1, TablesAgainst, BarredStays
    <3> QED
      BY <3>1, <3>2, <3>3, <3>4
  <2>2. CASE pc' = pc /\ input' = input /\ actor' = actor
    BY <1>1, <1>3, <2>2, TablesAgainst, BarredStays
  <2> QED
    BY <2>1, <2>2 DEF Next, Renew, Disable, Terminated, vars
<1> QED
  BY <1>2, <1>3

\* Who does a request is its own steps.
LEMMA DoneByItself ==
    ASSUME Inv, [Next]_vars, NEW r \in Requests, Done(r)
    PROVE  \/ Get(r) \/ Rename(r) \/ Delete(r) \/ Upload(r)
           \/ CommitCompany(r) \/ CommitChange(r)
<1>1. FlowTypes /\ pc[r] # "idle" /\ pc'[r] = "idle" /\ outcome' = "done"
  BY Types DEF Inv, TransactionsAreWhole, Done
<1>2. PICK q \in Requests : Arrive(q) \/ Step(q) \/ Err(q)
  BY <1>1 DEF Next, Renew, Disable, Terminated, vars
<1>3. q = r
  BY <1>1, <1>2, OthersStay DEF OthersWait
<1>4. ~Answer(r, "refused") /\ ~Answer(r, "error")
  BY <1>1 DEF Answer
<1>5. ~Arrive(r)
  BY <1>1 DEF Arrive, At
<1>6. \A point \in Points \ {"idle"} : ~Goto(r, point)
  BY <1>1 DEF Goto, FlowTypes
<1>7. ~InsertCompany(r) /\ ~LockTarget(r)
  BY <1>6 DEF InsertCompany, LockTarget, Proceed, Points
<1>8. ~Authenticate(r)
  BY <1>4, <1>6 DEF Authenticate, Only, Proceed, Points
<1>9. ~Resolve(r)
  <2>1. pc[r] = "resolve" => input[r].op \in Points \ {"idle"}
    BY Kinds DEF Inv, RequestInv, Points
  <2> QED
    BY <1>4, <1>6, <2>1 DEF Resolve, Only, At
<1> QED
  BY <1>2, <1>3, <1>4, <1>5, <1>7, <1>8, <1>9 DEF Step, Err

\* A request that is done had nothing against it but, perhaps, a role that its token
\* still claims.
LEMMA DoneUnbarred ==
    ASSUME Inv, BarInv, [Next]_vars, NEW r \in Requests, Done(r)
    PROVE  barred[r] \subseteq {"role"} /\ ("role" \in barred[r] => input[r].admin)
<1>1. /\ FlowTypes /\ RequestInv(r) /\ BarredInv(r)
      /\ barred \in [Requests -> SUBSET Reasons]
      /\ outcome' = "done" /\ pc[r] # "idle"
  BY Types DEF Inv, TransactionsAreWhole, BarInv, Done
<1>2. pc[r] \in {"get", "rename", "delete", "upload", "commit"}
  BY DoneByItself DEF Get, Rename, Delete, Upload, CommitCompany, CommitChange, At
<1>3. \A why \in {"user", "member", "deleted"} : why \notin barred[r]
  BY <1>1, <1>2 DEF BarredInv
<1>4. "space" \notin barred[r]
  <2>1. CASE pc[r] = "upload"
    <3>1. Upload(r)
      BY <2>1, DoneByItself DEF Get, Rename, Delete, Upload, CommitCompany, CommitChange, At
    <3>2. CanUpload(actor[r])
      BY <1>1, <3>1 DEF Upload, Only, Answer
    <3> QED
      BY <1>1, <2>1, <3>2 DEF CanUpload, BarredInv
  <2>2. CASE pc[r] # "upload"
    <3>1. input[r].op # "upload"
      BY <1>1, <1>2, <2>2, Kinds DEF RequestInv
    <3> QED
      BY <1>1, <3>1 DEF BarredInv
  <2> QED
    BY <2>1, <2>2
<1>5. "role" \in barred[r] => input[r].admin
  BY <1>1, <1>2 DEF BarredInv
<1> QED
  BY <1>1, <1>3, <1>4, <1>5 DEF Reasons

\* A request that arrives after its user was suspended, the membership disabled, the
\* workspace deleted or, for an upload, suspended is not done until that is taken
\* back; one of a user who has lost the platform's role is done only if its token
\* claims the role.
THEOREM ChangesHold == Spec => ChangesTakeEffect
<1>1. Init => BarInv
  BY DEF Init, BarInv, BarredInv
<1>2. Inv /\ BarInv /\ [Next]_vars => BarInv'
  BY BarredNext
<1> DEFINE Effect == \A r \in Requests : Done(r) =>
              /\ barred[r] \subseteq {"role"}
              /\ "role" \in barred[r] => input[r].admin
<1>3. Inv /\ BarInv /\ [Next]_vars => Effect
  BY DoneUnbarred
<1>4. Effect => [Effect]_vars
  OBVIOUS
<1> QED
  BY <1>1, <1>2, <1>3, <1>4, Invariance, PTL DEF Spec, ChangesTakeEffect
================================================================================

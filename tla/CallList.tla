------------------------------- MODULE CallList -------------------------------
(***************************************************************************)
(* What users see of the calls of a workspace: the scopes of the list, the *)
(* detail and the dashboard, and a client that walks through the pages of  *)
(* the workspace's or the platform's list, while calls are uploaded,       *)
(* processed and rolled back and memberships change.  A page is a request  *)
(* of three statements: the actor, the count and the rows.                 *)
(***************************************************************************)
EXTENDS Naturals, SequencesExt, FiniteSetsExt

CONSTANTS
    Users,
    InitialTeam,    \* memberships at the start
    MaxCalls,       \* bound: calls
    MaxChanges,     \* bound: changes of memberships and rollbacks, and of statuses
                    \* while a client reads
    Readers,        \* who walks through a list
    DefaultSize,    \* the size of a page if the client names none,
    MaxSize,        \* and the largest one
    NoOne

VARIABLES
    calls,       \* the calls, oldest first
    team,        \* workspace_memberships
    pc,
    reader,      \* the client: who, which list, which page and which filters
    actor,       \* the actor of its current request
    total,       \* what the request counted
    got,         \* the calls on the pages the client has got
    since,       \* history: the calls it could have seen when it began,
    moved,       \* that one was taken from its view since,
    torn,        \* and that one was added between a count and its rows
    changes

listVars == <<calls, team, pc, reader, actor, total, got, since, moved, torn, changes>>
walk == <<reader, actor, total, got, since>>

Roles == {"owner", "admin", "supervisor", "manager"}
Membership == [role : Roles, active : BOOLEAN, sup : Users \cup {NoOne}]

\* A call is queued until the worker ends its processing (allowedTransitions, with
\* the statuses on the way to the end as one), and gone when its upload fails.
Transitions ==
    [queued |-> {"completed", "failed"}, failed |-> {"queued"}, completed |-> {}, gone |-> {}]
Statuses == {"queued", "completed", "failed"}
Call == [owner : Users, status : Statuses \cup {"gone"}]

ASSUME CallListAssumption ==
    /\ InitialTeam \in [Users -> Membership] /\ NoOne \notin Users
    /\ MaxCalls \in Nat /\ MaxChanges \in Nat
    /\ Readers \subseteq Users
    /\ DefaultSize \in 1..MaxSize /\ MaxSize \in Nat

NoReader == [list |-> "workspace", user |-> NoOne, number |-> 1, size |-> 1, owner |-> NoOne,
             status |-> "any"]

\* normalizePage and platform.Service.ListCalls: whether a page is valid, and its
\* size; the platform cuts a size, the workspace refuses it.
Valid(rd) == rd.list = "platform" \/ rd.size <= MaxSize
Size(rd) ==
    IF rd.size = 0 THEN DefaultSize
    ELSE IF rd.size > MaxSize THEN MaxSize ELSE rd.size

ListTypeOK ==
    /\ calls \in Seq(Call)
    /\ team \in [Users -> Membership]
    /\ pc \in {"idle", "resolve", "count", "rows", "end", "refused"}
    /\ reader.number \in Nat /\ reader.size \in 0..(MaxSize + 1)
    /\ actor \in [user : Users \cup {NoOne}, role : Roles]
    /\ pc = "rows" => Size(reader) \in 1..MaxSize
    /\ total \in 0..MaxCalls
    /\ got \subseteq 1..MaxCalls /\ since \subseteq 1..MaxCalls
    /\ moved \in BOOLEAN /\ torn \in BOOLEAN /\ changes \in 0..MaxChanges

ListInit ==
    /\ calls = << >> /\ team = InitialTeam
    /\ pc = "idle" /\ reader = NoReader /\ actor = [user |-> NoOne, role |-> "manager"]
    /\ total = 0 /\ got = {} /\ since = {}
    /\ moved = FALSE /\ torn = FALSE /\ changes = 0

-------------------------------------------------------------------------------
Rows == {c \in DOMAIN calls : calls[c].status # "gone"}
OwnedBy(us) == {c \in Rows : calls[c].owner \in us}

\* The active managers whose supervisor the actor is.
Managed_Supervised(u) == {m \in Users : team[m].sup = u}
Managed(u) == {m \in Users : team[m].sup = u /\ team[m].role = "manager" /\ team[m].active}

ListScope_NoFilter(a, filter) ==
    IF a.role \in {"owner", "admin"} THEN [shape |-> "all", places |-> <<1>>, args |-> <<"w">>]
    ELSE IF a.role = "manager"
    THEN [shape |-> "owner", places |-> <<1, 2>>, args |-> <<"w", a.user>>]
    ELSE [shape |-> "team", places |-> <<1, 2, 1, 3>>, args |-> <<"w", a.user, a.user>>]

\* listScope: the shape of the condition, its placeholders in the order of the
\* text, and the arguments.  The workspace is "w".
ListScope(a, filter) ==
    IF a.role \in {"owner", "admin"}
    THEN IF filter = NoOne
         THEN [shape |-> "all", places |-> <<1>>, args |-> <<"w">>]
         ELSE [shape |-> "owner", places |-> <<1, 2>>, args |-> <<"w", filter>>]
    ELSE IF a.role = "manager"
         THEN [shape |-> "owner", places |-> <<1, 2>>, args |-> <<"w", a.user>>]
    ELSE IF filter = NoOne
         THEN [shape |-> "team", places |-> <<1, 2, 1, 3>>, args |-> <<"w", a.user, a.user>>]
         ELSE [shape |-> "owner in team", places |-> <<1, 2, 3, 1, 4>>,
               args |-> <<"w", filter, a.user, a.user>>]

\* detailScope renumbers the placeholders, from the last to the first, for the
\* query has the call's id as its first argument.
Replace(places, i) == [p \in DOMAIN places |-> IF places[p] = i THEN i + 1 ELSE places[p]]
Renumber_Upwards(places, n) == FoldLeft(Replace, places, [i \in 1..n |-> i])
Renumber(places, n) == FoldLeft(Replace, places, [i \in 1..n |-> n + 1 - i])

DetailScope(a, c) ==
    LET scope == ListScope(a, NoOne)
    IN [shape |-> scope.shape,
        places |-> Renumber(scope.places, Len(scope.args)),
        args |-> <<c>> \o scope.args]

\* dashboardScope is another text of the same conditions.
DashboardScope_Team(a) ==
    IF a.role \in {"owner", "admin"}
    THEN [shape |-> "all", places |-> <<1>>, args |-> <<"w">>]
    ELSE [shape |-> "owner", places |-> <<1, 2>>, args |-> <<"w", a.user>>]

DashboardScope(a) ==
    IF a.role \in {"owner", "admin"}
    THEN [shape |-> "all", places |-> <<1>>, args |-> <<"w">>]
    ELSE IF a.role = "manager"
         THEN [shape |-> "owner", places |-> <<1, 2>>, args |-> <<"w", a.user>>]
         ELSE [shape |-> "team", places |-> <<1, 2, 1, 3>>, args |-> <<"w", a.user, a.user>>]

\* What the query selects: the values at its placeholders decide.
Selected(query) ==
    LET v == [p \in DOMAIN query.places |-> query.args[query.places[p]]]
    IN CASE v[1] # "w" -> {}
         [] v[1] = "w" /\ query.shape = "all" -> Rows
         [] v[1] = "w" /\ query.shape = "owner" -> OwnedBy({v[2]})
         [] v[1] = "w" /\ query.shape = "team" ->
               IF v[3] = "w" THEN OwnedBy({v[2]} \cup Managed(v[4])) ELSE OwnedBy({v[2]})
         [] v[1] = "w" /\ query.shape = "owner in team" ->
               OwnedBy({v[2]} \cap ({v[3]} \cup Managed(v[5])))

\* Service.Detail: a call that is not selected is not found.
Detailed(a) == {c \in Rows : c \in Selected(DetailScope(a, c))}

\* Summary: its three counts.
Summary(a) ==
    LET seen == Selected(DashboardScope(a))
    IN [total |-> Cardinality(seen),
        completed |-> Cardinality({c \in seen : calls[c].status = "completed"}),
        failed |-> Cardinality({c \in seen : calls[c].status = "failed"})]

\* What the client's list selects; the platform's shows the calls of all owners, or
\* those of one status.
Listed(rd, a) ==
    IF rd.list = "platform" THEN {c \in Rows : rd.status \in {"any", calls[c].status}}
    ELSE Selected(ListScope(a, rd.owner))

TotalPages(n, size) == (n + size - 1) \div size

\* ORDER BY created_at DESC LIMIT size OFFSET (number - 1) * size
Offset_Number(number, size) == number * size
Offset(number, size) == (number - 1) * size
Newer(cs, c) == {d \in cs : d > c}
Page(cs, number, size) ==
    LET from == Offset(number, size)
    IN {c \in cs : Cardinality(Newer(cs, c)) \in from..(from + size - 1)}

-------------------------------------------------------------------------------
\* A client begins to read a list.
Begin ==
    /\ pc = "idle"
    /\ \E list \in {"workspace", "platform"}, u \in Readers, size \in {0, MaxSize, MaxSize + 1},
          owner \in Users \cup {NoOne}, status \in Statuses \cup {"any"} :
          /\ list = "platform" => owner = NoOne
          /\ list = "workspace" => status = "any"
          /\ reader' = [list |-> list, user |-> u, number |-> 1, size |-> size,
                        owner |-> owner, status |-> status]
    /\ pc' = "resolve"
    /\ since' = Listed(reader', [user |-> reader'.user, role |-> team[reader'.user].role])
    /\ got' = {} /\ moved' = FALSE /\ torn' = FALSE
    /\ UNCHANGED <<calls, team, actor, total, changes>>

\* ResolveActor, for every page, and the check of the page.
Resolve ==
    /\ pc = "resolve"
    /\ \/ /\ reader.list = "platform" \/ team[reader.user].active
          /\ Valid(reader)
          /\ actor' = [user |-> reader.user, role |-> team[reader.user].role]
          /\ pc' = "count"
       \/ /\ (reader.list = "workspace" /\ ~team[reader.user].active) \/ ~Valid(reader)
          /\ pc' = "refused"
          /\ UNCHANGED actor
    /\ UNCHANGED <<calls, team, reader, total, got, since, moved, torn, changes>>

Count ==
    /\ pc = "count"
    /\ total' = Cardinality(Listed(reader, actor))
    /\ pc' = "rows"
    /\ UNCHANGED <<calls, team, reader, actor, got, since, moved, torn, changes>>

\* The client asks for the next page until it has the last one.
ReadRows ==
    /\ pc = "rows"
    /\ got' = got \cup Page(Listed(reader, actor), reader.number, Size(reader))
    /\ \/ /\ reader.number < TotalPages(total, Size(reader))
          /\ reader' = [reader EXCEPT !.number = @ + 1]
          /\ pc' = "resolve"
       \/ /\ reader.number >= TotalPages(total, Size(reader))
          /\ pc' = "end"
          /\ UNCHANGED reader
    /\ UNCHANGED <<calls, team, actor, total, since, moved, torn, changes>>

-------------------------------------------------------------------------------
\* What others do meanwhile: uploads, the worker, RollbackCreate, Memberships.
Upload(u) ==
    /\ Len(calls) < MaxCalls
    /\ calls' = Append(calls, [owner |-> u, status |-> "queued"])
    /\ torn' = (torn \/ pc = "rows")
    /\ UNCHANGED <<team, pc, walk, moved, changes>>

\* The worker moves a call, maybe out of the view of a client that filters by
\* status, or into it.  Bound: MaxChanges while a client reads.
Process(c, status) ==
    /\ status \in Transitions[calls[c].status]
    /\ calls' = [calls EXCEPT ![c].status = status]
    /\ changes' = IF pc = "idle" THEN changes ELSE changes + 1
    /\ changes' <= MaxChanges
    /\ UNCHANGED <<team, pc, walk>>
    /\ moved' = (moved \/ ~(Listed(reader, actor) \subseteq Listed(reader, actor)'))
    /\ torn' = (torn \/ (pc = "rows" /\ ~(Listed(reader, actor)' \subseteq Listed(reader, actor))))

Change(newCalls, newTeam) ==
    /\ changes < MaxChanges
    /\ changes' = changes + 1
    /\ calls' = newCalls /\ team' = newTeam
    /\ moved' = TRUE
    /\ UNCHANGED <<pc, walk, torn>>

\* The roll-back of an upload deletes the row whatever the worker has made of it.
Rollback(c) ==
    calls[c].status # "gone" /\ Change([calls EXCEPT ![c].status = "gone"], team)

ChangeMember(u) ==
    \E m \in [role : {"supervisor", "manager"}, active : BOOLEAN, sup : {team[u].sup, NoOne}] :
        m # team[u] /\ team[u].role # "owner" /\ Change(calls, [team EXCEPT ![u] = m])

Terminated == (pc \in {"end", "refused"} \/ Readers = {}) /\ UNCHANGED listVars

ListNext ==
    \/ Begin \/ Resolve \/ Count \/ ReadRows
    \/ \E u \in Users : Upload(u) \/ ChangeMember(u)
    \/ \E c \in DOMAIN calls : Rollback(c) \/ \E s \in Statuses : Process(c, s)
    \/ Terminated

ListSpec == ListInit /\ [][ListNext]_listVars

-------------------------------------------------------------------------------
Actors == [user : Users, role : Roles]

\* A client that walks to the last page has got every call it could see when it
\* began, whatever was uploaded and processed meanwhile: calls that come into the
\* view push others to later pages, not past them.  Not promised when a call was
\* taken from its view, as the worker takes one from a client that asks for the
\* queued ones, and not when one came between the count and the rows of a page,
\* which are two statements.
NothingSkipped == ListTypeOK /\ (pc = "end" /\ ~moved /\ ~torn => since \subseteq got)

\* The detail's condition, renumbered for its other arguments, selects what the
\* list does: what a user can open is what the user can find.
DetailMatchesList == \A a \in Actors : Detailed(a) = Selected(ListScope(a, NoOne))

\* The dashboard counts the calls that the list shows, which has its own text of
\* the conditions, and counts none of them as both completed and failed.
DashboardMatchesList ==
    \A a \in Actors :
        /\ Summary(a).total = Cardinality(Selected(ListScope(a, NoOne)))
        /\ Summary(a).completed + Summary(a).failed <= Summary(a).total

\* A filter by owner shows the part of the list that this owner has.
FilterNarrows ==
    \A a \in Actors, u \in Users :
        a.role # "manager" =>
            Selected(ListScope(a, u)) = Selected(ListScope(a, NoOne)) \cap OwnedBy({u})

\* Three texts of one rule agree in every state of the workspace.
ScopesAgree == pc = "idle" => DetailMatchesList /\ DashboardMatchesList /\ FilterNarrows

\* "Managers see their own calls; supervisors see their own calls and assigned
\* active managers": a call that a page shows to one of them is theirs or of someone
\* who is such a manager when the rows are read, whatever memberships have become
\* since the request resolved its actor.
PagesStayInScope ==
    [][pc = "rows" /\ reader.list = "workspace" =>
          \A c \in got' \ got :
              \/ actor.role \in {"owner", "admin"}
              \/ calls[c].owner = actor.user
              \/ /\ actor.role = "supervisor"
                 /\ team[calls[c].owner].sup = actor.user
                 /\ team[calls[c].owner].active
                 /\ team[calls[c].owner].role = "manager"]_listVars

===============================================================================

------------------------------ MODULE Playbooks -------------------------------
(***************************************************************************)
(* The playbooks of one workspace: playbooks.Service and its store.  A     *)
(* request is one step per statement; between them other requests run.     *)
(* What a transaction has written stays in writes until it commits, and    *)
(* others that would change those rows wait.                               *)
(***************************************************************************)
EXTENDS Scoring, Transactions

CONSTANTS
    Books, Names, InitialRows,
    NoName,        \* a name of white space
    Requests,      \* goroutines of the API that serve requests
    Inputs,        \* what clients ask for
    MaxRequests,   \* bound: requests in a behaviour, one after the other
    Overlapping,   \* bound: the inputs of requests that run beside another one
    MaxOverlapping \* bound: requests in a behaviour in which two overlap

VARIABLES
    rows,       \* playbooks, as committed
    writes,     \* the uncommitted rows of each request's transaction
    pc,         \* the next statement of each request
    input,      \* what the request asks for
    draft,      \* the row it will write
    target,     \* and its id
    found,      \* the rows whose default flag it clears
    outcome,    \* how the last request was answered
    served,     \* requests so far
    alone       \* history: no two requests have overlapped so far

vars == <<rows, writes, pc, input, draft, target, found, outcome, served, alone>>

\* The lists of criteria that Validate accepts, the one that Create falls back to
\* among them.
Rubrics == {list \in Lists \cup {BuiltInCriteria} : Valid(list)}

Catalogue == INSTANCE PlaybookCatalogue
Row == Catalogue!Row

Input == [op : {"create", "update", "delete"}, book : Books,
          default : {"yes", "no", "keep"}, name : Names \cup {NoName, "keep"},
          named : BOOLEAN, criteria : Lists]

ASSUME PlaybooksAssumption ==
    /\ InitialRows \in [Books -> Row] /\ Books # {}
    /\ \A b, k \in Books :
          InitialRows[b].default /\ InitialRows[k].default =>
              b = k /\ InitialRows[b].state = "active"
    /\ Overlapping \subseteq Inputs /\ Inputs \subseteq Input /\ Inputs # {}
    /\ \A i \in Inputs : i.op = "create" => i.name # "keep"
    /\ {NoName, "keep"} \cap Names = {}
    /\ MaxRequests \in Nat /\ MaxOverlapping \in Nat

Points == {"idle", "create", "get", "scan", "unset", "insert", "write", "delete", "commit"}
Outcomes == {"none", "done", "invalid", "not found", "conflict", "deadlock"}

TypeOK ==
    /\ rows \in [Books -> Row]
    /\ DOMAIN writes = Requests
    /\ \A r \in Requests :
          /\ DOMAIN writes[r] \subseteq Books
          /\ writes[r] \in [DOMAIN writes[r] -> Row]
    /\ pc \in [Requests -> Points]
    /\ input \in [Requests -> Inputs]
    /\ draft \in [Requests -> Row]
    /\ target \in [Requests -> Books]
    /\ found \in [Requests -> SUBSET Books]
    /\ outcome \in Outcomes
    /\ alone \in BOOLEAN
    /\ served \in Nat

AnyInput == CHOOSE i \in Inputs : TRUE
AnyBook == CHOOSE b \in Books : TRUE

Init ==
    /\ rows = InitialRows
    /\ writes = [r \in Requests |-> NoWrites]
    /\ pc = [r \in Requests |-> "idle"]
    /\ input = [r \in Requests |-> AnyInput]
    /\ draft = [r \in Requests |-> InitialRows[AnyBook]]
    /\ target = [r \in Requests |-> AnyBook]
    /\ found = [r \in Requests |-> {}]
    /\ outcome = "none"
    /\ alone = TRUE
    /\ served = 0

-------------------------------------------------------------------------------
Active(b) == rows[b].state = "active"
ActiveBooks == {b \in Books : Active(b)}
Written(r) == DOMAIN writes[r]

Goto(r, point) == pc' = [pc EXCEPT ![r] = point]

\* The request is answered; a transaction it has open is rolled back.
Answer(r, result) ==
    /\ Goto(r, "idle")
    /\ outcome' = result
    /\ writes' = [writes EXCEPT ![r] = NoWrites]
    /\ input' = [input EXCEPT ![r] = AnyInput]
    /\ draft' = [draft EXCEPT ![r] = InitialRows[AnyBook]]
    /\ target' = [target EXCEPT ![r] = AnyBook]
    /\ found' = [found EXCEPT ![r] = {}]
    /\ UNCHANGED <<served, alone>>

Reject(r, result) == Answer(r, result) /\ UNCHANGED rows

\* The rows that the next statement of r changes, and those whose default flag
\* its unique index compares: r waits while q's transaction writes one of them.
Changes(r) ==
    CASE pc[r] = "unset" -> found[r]
      [] pc[r] \in {"write", "delete"} -> {target[r]}
      [] OTHER -> {}

Indexed(q) == {b \in Written(q) : rows[b].default \/ writes[q][b].default}

WaitsFor(r, q) ==
    /\ q # r
    /\ \/ Changes(r) \cap Written(q) # {}
       \/ pc[r] \in {"insert", "write"} /\ draft[r].default /\ Indexed(q) # {}

Free(r) == \A q \in Requests : ~WaitsFor(r, q)

\* idx_playbooks_workspace_default: no other default that r has not cleared.
IndexAdmits_Always(r, b) == TRUE
IndexAdmits(r, b) ==
    draft[r].default =>
        \A k \in Books \ {b} : ~Overlay(rows, writes[r])[k].default

Write(r, b) == writes' = [writes EXCEPT ![r] =
    [k \in Written(r) \cup {b} |-> IF k = b THEN draft[r] ELSE writes[r][k]]]

-------------------------------------------------------------------------------
\* The service.  Create makes a playbook of what it is given, or of the default
\* criteria; Update reads the playbook and merges the fields that are named into
\* it; both validate the result.
New(i) == [state |-> "active", default |-> i.default = "yes", name |-> i.name,
           criteria |-> Rubric(i.criteria)]

Merged_Default(row, i) ==
    [state |-> "active",
     default |-> i.default = "yes",
     name |-> IF i.name = "keep" THEN row.name ELSE i.name,
     criteria |-> IF i.named THEN i.criteria ELSE row.criteria]

Merged(row, i) ==
    [state |-> "active",
     default |-> IF i.default = "keep" THEN row.default ELSE i.default = "yes",
     name |-> IF i.name = "keep" THEN row.name ELSE i.name,
     criteria |-> IF i.named THEN i.criteria ELSE row.criteria]

Validates(book) == book.name # NoName /\ Valid(book.criteria)

InFlight == {r \in Requests : pc[r] # "idle"}

\* Goroutines are interchangeable: one and the same serves while none is busy.
Arrive(r, i) ==
    /\ pc[r] = "idle"
    /\ InFlight = {} => r = CHOOSE q \in Requests : TRUE
    /\ served' = served + 1
    /\ alone' = (alone /\ InFlight = {})
    /\ input' = [input EXCEPT ![r] = i]
    /\ IF alone' THEN served < MaxRequests
       ELSE served < MaxOverlapping /\ \A q \in InFlight \cup {r} : input'[q] \in Overlapping
    /\ outcome' = "none"
    /\ target' = [target EXCEPT ![r] = i.book]
    /\ Goto(r, CASE i.op = "create" -> "create" [] i.op = "update" -> "get"
                 [] i.op = "delete" -> "delete")
    /\ UNCHANGED <<rows, writes, draft, found>>

Create(r) ==
    LET book == New(input[r])
    IN /\ pc[r] = "create"
       /\ \/ ~Validates(book) /\ Reject(r, "invalid")
          \/ /\ Validates(book)
             /\ draft' = [draft EXCEPT ![r] = book]
             /\ Goto(r, IF book.default THEN "scan" ELSE "insert")
             /\ UNCHANGED <<rows, writes, input, target, found, outcome, served, alone>>

Get(r) ==
    LET merged == Merged(rows[target[r]], input[r])
    IN /\ pc[r] = "get"
       /\ \/ ~Active(target[r]) /\ Reject(r, "not found")
          \/ Active(target[r]) /\ ~Validates(merged) /\ Reject(r, "invalid")
          \/ /\ Active(target[r]) /\ Validates(merged)
             /\ draft' = [draft EXCEPT ![r] = merged]
             /\ Goto(r, IF merged.default THEN "scan" ELSE "write")
             /\ UNCHANGED <<rows, writes, input, target, found, outcome, served, alone>>

-------------------------------------------------------------------------------
\* The store: UPDATE ... SET is_default = FALSE finds its rows, waits for those
\* that others write, and changes what is active still.
ScanDefaults(r) ==
    /\ pc[r] = "scan"
    /\ found' = [found EXCEPT ![r] =
          ActiveBooks \ (IF input[r].op = "update" THEN {target[r]} ELSE {})]
    /\ Goto(r, "unset")
    /\ UNCHANGED <<rows, writes, input, draft, target, outcome, served, alone>>

UnsetDefaults(r) ==
    /\ pc[r] = "unset"
    /\ Free(r)
    /\ writes' = [writes EXCEPT ![r] =
          [k \in found[r] \cap ActiveBooks |-> [rows[k] EXCEPT !.default = FALSE]]]
    /\ Goto(r, IF input[r].op = "create" THEN "insert" ELSE "write")
    /\ UNCHANGED <<rows, input, draft, target, found, outcome, served, alone>>

\* The ids that no playbook has; that there is one is a bound.
FreshBooks == {k \in Books : rows[k].state = "absent" /\ \A q \in Requests : k \notin Written(q)}

Insert(r) ==
    /\ pc[r] = "insert"
    /\ Free(r)
    /\ FreshBooks # {}
    /\ LET b == CHOOSE k \in FreshBooks : TRUE
       IN \/ ~IndexAdmits(r, b) /\ Reject(r, "conflict")
          \/ /\ IndexAdmits(r, b)
             /\ target' = [target EXCEPT ![r] = b]
             /\ Write(r, b)
             /\ Goto(r, "commit")
             /\ UNCHANGED <<rows, input, draft, found, outcome, served, alone>>

\* UPDATE ... WHERE deleted_at IS NULL.
Updates_Deleted(r) == rows[target[r]].state # "absent"
Updates(r) == Active(target[r])

Update(r) ==
    /\ pc[r] = "write"
    /\ Free(r)
    /\ \/ ~Updates(r) /\ Reject(r, "not found")
       \/ Updates(r) /\ ~IndexAdmits(r, target[r]) /\ Reject(r, "conflict")
       \/ /\ Updates(r) /\ IndexAdmits(r, target[r])
          /\ Write(r, target[r])
          /\ Goto(r, "commit")
          /\ UNCHANGED <<rows, input, draft, target, found, outcome, served, alone>>

Commit(r) ==
    /\ pc[r] = "commit"
    /\ rows' = Overlay(rows, writes[r])
    /\ Answer(r, "done")

Delete_KeepFlag(r) ==
    /\ pc[r] = "delete"
    /\ Free(r)
    /\ Active(target[r])
    /\ rows' = [rows EXCEPT ![target[r]].state = "deleted"]
    /\ Answer(r, "done")

Delete(r) ==
    /\ pc[r] = "delete"
    /\ Free(r)
    /\ \/ ~Active(target[r]) /\ Reject(r, "not found")
       \/ /\ Active(target[r])
          /\ rows' = [rows EXCEPT ![target[r]].state = "deleted", ![target[r]].default = FALSE]
          /\ Answer(r, "done")

\* PostgreSQL aborts one of the transactions that wait for each other.
DeadlockVictim_Restart(r) ==
    /\ \E S \in SUBSET Requests : r \in S /\ \A q \in S : \E p \in S : WaitsFor(q, p)
    /\ Goto(r, "scan")
    /\ UNCHANGED <<rows, writes, input, draft, target, found, outcome, served, alone>>

DeadlockVictim(r) ==
    /\ \E S \in SUBSET Requests : r \in S /\ \A q \in S : \E p \in S : WaitsFor(q, p)
    /\ Reject(r, "deadlock")

Step(r) ==
    \/ Create(r) \/ Get(r) \/ ScanDefaults(r) \/ UnsetDefaults(r) \/ Insert(r) \/ Update(r)
    \/ Commit(r) \/ Delete(r) \/ DeadlockVictim(r)

Terminated ==
    /\ InFlight = {}
    /\ UNCHANGED vars

Next ==
    \/ \E r \in Requests : (\E i \in Inputs : Arrive(r, i)) \/ Step(r)
    \/ Terminated

-------------------------------------------------------------------------------
\* However creations and updates interleave, at most one active playbook is the
\* default one, and no deleted one is.
OneDefault ==
    \A b, k \in Books : rows[b].default /\ rows[k].default => b = k /\ Active(b)

RowsHold == TypeOK /\ OneDefault

\* Every request is answered, those that wait for each other's rows included.
Answered == \A r \in Requests : pc[r] # "idle" ~> pc[r] = "idle"

\* One request at a time, an update changes the fields it names and no others
\* (PATCH).
UpdateKeepsTheRest ==
    \A r \in Requests :
        pc[r] = "commit" /\ pc'[r] = "idle" /\ input[r].op = "update" =>
            LET old == rows[target[r]] new == rows'[target[r]] i == input[r]
            IN /\ i.default = "keep" => new.default = old.default
               /\ i.name = "keep" => new.name = old.name
               /\ ~i.named => new.criteria = old.criteria

\* As long as no two requests overlap, the playbooks change as PlaybookCatalogue
\* allows: a new default takes the place of the old one, and a change keeps what
\* it does not name. A playbook that is deleted, while an update of it is under
\* way or not, stays deleted.
ImplementsCatalogue ==
    Catalogue!Init
    /\ [][/\ \A b \in Books : rows[b].state = "deleted" => rows'[b] = rows[b]
          /\ alone' /\ rows' # rows => Catalogue!Next /\ UpdateKeepsTheRest]_vars

===============================================================================

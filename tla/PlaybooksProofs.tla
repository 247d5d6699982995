---------------------------- MODULE PlaybooksProofs ----------------------------
(***************************************************************************)
(* Theorems about Playbooks, and so about CallScoring, for any playbooks,  *)
(* requests and lists of criteria.                                         *)
(***************************************************************************)
EXTENDS CallScoring, FiniteSetTheorems, WellFoundedInduction, TLAPS

-------------------------------------------------------------------------------
(* The inductive invariant. *)

\* The transaction of r clears the default flag of an active playbook.
Clears(r, b) == Active(b) /\ writes[r][b] = [rows[b] EXCEPT !.default = FALSE]

\* What the place of a request says of its transaction: it writes the row it is
\* about and clears defaults, and when it makes a default no other one is left.
RequestInv(r) ==
    /\ pc[r] \notin {"insert", "write", "commit"} => Written(r) = {}
    /\ pc[r] \in {"create", "insert"} => input[r].op = "create"
    /\ pc[r] \in {"get", "write"} => input[r].op = "update"
    /\ pc[r] \in {"scan", "unset", "commit"} => input[r].op \in {"create", "update"}
    /\ pc[r] \in {"scan", "unset"} => draft[r].default
    /\ pc[r] \in {"scan", "unset", "insert", "write", "commit"} => draft[r].state = "active"
    /\ \A b \in Written(r) : (b = target[r] /\ pc[r] = "commit") \/ Clears(r, b)
    /\ pc[r] = "commit" =>
          /\ target[r] \in Written(r) /\ writes[r][target[r]] = draft[r]
          /\ rows[target[r]].state = IF input[r].op = "create" THEN "absent" ELSE "active"
          /\ draft[r].default =>
                \A k \in Books \ {target[r]} : ~Overlay(rows, writes[r])[k].default

\* Row locks: no row is written by two transactions.
Apart == \A r, q \in Requests : r # q => Written(r) \cap Written(q) = {}

\* The unique index: no two transactions are about to commit a default.
Commits(r) == pc[r] = "commit" /\ draft[r].default
OneSetter == \A r, q \in Requests : Commits(r) /\ Commits(q) => r = q

Inv ==
    /\ TypeOK /\ OneDefault /\ Apart /\ OneSetter
    /\ \A r \in Requests : RequestInv(r)

\* The active playbooks other than the one that an update is about.
Rest(r) == ActiveBooks \ (IF input[r].op = "update" THEN {target[r]} ELSE {})

\* What a request knows while it is the only one: the row it merged its fields
\* into is still so, and it clears every other active playbook or none.
AloneRequestInv(r) ==
    /\ input[r].op = "update" /\ pc[r] \in {"scan", "unset", "write", "commit"} =>
          Active(target[r]) /\ draft[r] = Merged(rows[target[r]], input[r])
    /\ pc[r] = "unset" => found[r] = Rest(r)
    /\ pc[r] \in {"insert", "write"} =>
          Written(r) = IF draft[r].default THEN Rest(r) ELSE {}
    /\ pc[r] = "commit" =>
          Written(r) = {target[r]} \cup (IF draft[r].default THEN Rest(r) ELSE {})

AloneInv ==
    alone =>
        /\ \A r, q \in InFlight : r = q
        /\ \A r \in Requests : AloneRequestInv(r)
-------------------------------------------------------------------------------
(* Inputs and rows. *)

\* What a client can ask for.
LEMMA InputTypes ==
    /\ AnyInput \in Inputs /\ AnyBook \in Books
    /\ \A i \in Inputs :
          /\ i.op \in {"create", "update", "delete"} /\ i.book \in Books
          /\ i.default \in {"yes", "no", "keep"}
          /\ i.name \in Names \cup {NoName, "keep"}
          /\ i.named \in BOOLEAN /\ i.criteria \in Lists
          /\ i.op = "create" => i.name # "keep"
BY PlaybooksAssumption DEF AnyInput, AnyBook, Input

\* The fields of a row.
LEMMA RowFields ==
    \A playbook \in Row :
        /\ playbook.state \in {"absent", "active", "deleted"} /\ playbook.default \in BOOLEAN
        /\ playbook.name \in Names /\ playbook.criteria \in Rubrics
BY DEF Row, Catalogue!Row

\* Create makes rows that the table can hold.
LEMMA NewRow ==
    ASSUME NEW i \in Inputs, i.op = "create", Validates(New(i))
    PROVE  New(i) \in Row /\ New(i).state = "active"
<1>1. Rubric(i.criteria) \in Lists \cup {BuiltInCriteria}
  BY InputTypes DEF Rubric
<1>2. Valid(Rubric(i.criteria)) /\ i.name # NoName
  BY DEF Validates, New
<1>3. Rubric(i.criteria) \in Rubrics
  BY <1>1, <1>2 DEF Rubrics
<1>4. i.name \in Names
  BY <1>2, InputTypes
<1> QED
  BY <1>3, <1>4 DEF New, Row, Catalogue!Row

\* So does Update.
LEMMA MergedRow ==
    ASSUME NEW playbook \in Row, NEW i \in Inputs, Validates(Merged(playbook, i))
    PROVE  Merged(playbook, i) \in Row /\ Merged(playbook, i).state = "active"
<1> DEFINE name == IF i.name = "keep" THEN playbook.name ELSE i.name
           list == IF i.named THEN i.criteria ELSE playbook.criteria
           flag == IF i.default = "keep" THEN playbook.default ELSE i.default = "yes"
<1>1. Valid(list) /\ name # NoName
  BY DEF Validates, Merged
<1>2. list \in Lists \cup {BuiltInCriteria}
  BY InputTypes, RowFields DEF Rubrics
<1>3. list \in Rubrics
  BY <1>1, <1>2 DEF Rubrics
<1>4. name \in Names
  BY <1>1, InputTypes, RowFields
<1>5. flag \in BOOLEAN
  BY RowFields
<1>6. Merged(playbook, i) = [state |-> "active", default |-> flag, name |-> name, criteria |-> list]
  BY DEF Merged
<1> HIDE DEF name, list, flag
<1> QED
  BY <1>3, <1>4, <1>5, <1>6 DEF Row, Catalogue!Row

\* A row whose flag is cleared is a row without the flag, otherwise the same.
LEMMA ClearedRow ==
    ASSUME NEW playbook \in Row
    PROVE  /\ [playbook EXCEPT !.default = FALSE] \in Row
           /\ ~[playbook EXCEPT !.default = FALSE].default
           /\ [playbook EXCEPT !.default = FALSE].state = playbook.state
BY DEF Row, Catalogue!Row

\* So is one that is deleted.
LEMMA DeletedRow ==
    ASSUME NEW playbook \in Row
    PROVE  /\ [playbook EXCEPT !.state = "deleted", !.default = FALSE] \in Row
           /\ ~[playbook EXCEPT !.state = "deleted", !.default = FALSE].default
BY DEF Row, Catalogue!Row

-------------------------------------------------------------------------------
(* What steps have in common. *)

\* A step of r changes nothing of the other requests nor of the rows they have
\* written, and gives no row the flag while one of them is about to.
Undisturbed(r) ==
    \A q \in Requests \ {r} :
        /\ pc'[q] = pc[q] /\ input'[q] = input[q] /\ draft'[q] = draft[q]
        /\ target'[q] = target[q] /\ writes'[q] = writes[q]
        /\ \A b \in Written(q) : rows'[b] = rows[b]
        /\ Commits(q) =>
              \A b \in Books \ {target[q]} : rows'[b].default => rows[b].default

\* The other requests are where they were.
LEMMA OthersWait ==
    ASSUME Inv, TypeOK', NEW r \in Requests, Undisturbed(r)
    PROVE  \A q \in Requests \ {r} : RequestInv(q)'
<1> TAKE q \in Requests \ {r}
<1>1. /\ pc'[q] = pc[q] /\ input'[q] = input[q] /\ draft'[q] = draft[q]
      /\ target'[q] = target[q] /\ writes'[q] = writes[q]
      /\ \A b \in Written(q) : rows'[b] = rows[b]
      /\ Commits(q) =>
            \A b \in Books \ {target[q]} : rows'[b].default => rows[b].default
  BY DEF Undisturbed
<1>2. RequestInv(q) /\ TypeOK
  BY DEF Inv
<1>3. /\ DOMAIN rows = Books /\ DOMAIN rows' = Books
      /\ Written(q)' = Written(q) /\ Written(q) \subseteq Books
  BY <1>1, <1>2 DEF TypeOK, Written
<1>4. \A b \in Written(q) : Clears(q, b) => Clears(q, b)'
  BY <1>1 DEF Clears, Active
<1>5. pc[q] = "commit" /\ draft[q].default =>
         \A k \in Books \ {target[q]} : ~Overlay(rows', writes'[q])[k].default
  <2> SUFFICES ASSUME pc[q] = "commit", draft[q].default,
                      NEW k \in Books \ {target[q]}
               PROVE  ~Overlay(rows', writes'[q])[k].default
    OBVIOUS
  <2>1. ~Overlay(rows, writes[q])[k].default
    BY <1>2 DEF RequestInv
  <2>2. CASE k \in DOMAIN writes[q]
    BY <1>1, <1>3, <2>1, <2>2 DEF Overlay
  <2>3. CASE k \notin DOMAIN writes[q]
    <3>1. ~rows[k].default
      BY <1>3, <2>1, <2>3 DEF Overlay
    <3>2. ~rows'[k].default
      BY <1>1, <3>1 DEF Commits
    <3> QED
      BY <1>1, <1>3, <2>3, <3>2 DEF Overlay
  <2> QED
    BY <2>2, <2>3
<1> QED
  BY <1>1, <1>2, <1>3, <1>4, <1>5 DEF RequestInv

\* The parts of the invariant after a step of r.
LEMMA StepParts ==
    ASSUME Inv, TypeOK', OneDefault', NEW r \in Requests, Undisturbed(r),
           RequestInv(r)',
           \A q \in Requests \ {r} : Written(r)' \cap Written(q) = {},
           Commits(r)' => \A q \in Requests \ {r} : ~Commits(q)
    PROVE  Inv'
<1>1. \A q \in Requests \ {r} : /\ Written(q)' = Written(q)
                                /\ Commits(q)' <=> Commits(q)
  BY DEF Undisturbed, Written, Commits
<1>2. Apart'
  BY <1>1 DEF Inv, Apart
<1>3. OneSetter'
  BY <1>1 DEF Inv, OneSetter
<1>4. \A q \in Requests : RequestInv(q)'
  BY OthersWait
<1> QED
  BY <1>2, <1>3, <1>4 DEF Inv

\* A request that is answered has written nothing.
LEMMA AnswerInv ==
    ASSUME Inv, NEW r \in Requests, NEW result \in Outcomes, Answer(r, result),
           rows' \in [Books -> Row], OneDefault',
           \A q \in Requests \ {r} : \A b \in Written(q) : rows'[b] = rows[b],
           \A q \in Requests \ {r} : Commits(q) =>
              \A b \in Books \ {target[q]} : rows'[b].default => rows[b].default
    PROVE  Inv'
<1> USE DEF Inv
<1>1. /\ pc' = [pc EXCEPT ![r] = "idle"]
      /\ outcome' = result
      /\ writes' = [writes EXCEPT ![r] = NoWrites]
      /\ input' = [input EXCEPT ![r] = AnyInput]
      /\ draft' = [draft EXCEPT ![r] = InitialRows[AnyBook]]
      /\ target' = [target EXCEPT ![r] = AnyBook]
      /\ found' = [found EXCEPT ![r] = {}]
      /\ served' = served /\ alone' = alone
  BY DEF Answer, Goto
<1>2. InitialRows[AnyBook] \in Row /\ AnyInput \in Inputs /\ AnyBook \in Books
  BY InputTypes, PlaybooksAssumption
<1>3. Written(r)' = {} /\ writes'[r] = NoWrites
  BY <1>1 DEF TypeOK, Written, NoWrites
<1>4. TypeOK'
  <2>1. /\ DOMAIN writes' = Requests
        /\ \A q \in Requests \ {r} : writes'[q] = writes[q]
    BY <1>1 DEF TypeOK
  <2>2. \A q \in Requests :
           /\ DOMAIN writes'[q] \subseteq Books
           /\ writes'[q] \in [DOMAIN writes'[q] -> Row]
    BY <1>3, <2>1 DEF TypeOK, NoWrites
  <2>3. /\ pc' \in [Requests -> Points] /\ input' \in [Requests -> Inputs]
        /\ draft' \in [Requests -> Row] /\ target' \in [Requests -> Books]
        /\ found' \in [Requests -> SUBSET Books]
    BY <1>1, <1>2 DEF TypeOK, Points
  <2> QED
    BY <1>1, <2>1, <2>2, <2>3 DEF TypeOK
<1>5. Undisturbed(r)
  BY <1>1 DEF Undisturbed, TypeOK
<1>6. RequestInv(r)'
  BY <1>1, <1>3 DEF RequestInv, TypeOK
<1>7. ~Commits(r)'
  BY <1>1 DEF Commits, TypeOK
<1> QED
  BY <1>3, <1>4, <1>5, <1>6, <1>7, StepParts

\* A rejected request has changed nothing.
LEMMA RejectInv ==
    ASSUME Inv, NEW r \in Requests, NEW result \in Outcomes, Reject(r, result)
    PROVE  Inv'
<1>1. Answer(r, result) /\ rows' = rows
  BY DEF Reject
<1>2. OneDefault'
  BY <1>1 DEF Inv, OneDefault, Active
<1> QED
  BY <1>1, <1>2, AnswerInv DEF Inv, TypeOK

\* A step that writes nothing, in its transaction or in the table, leaves the
\* others alone.
LEMMA QuietStep ==
    ASSUME Inv, TypeOK', NEW r \in Requests, rows' = rows, writes' = writes,
           \A q \in Requests \ {r} :
              /\ pc'[q] = pc[q] /\ input'[q] = input[q] /\ draft'[q] = draft[q]
              /\ target'[q] = target[q],
           RequestInv(r)', pc'[r] # "commit"
    PROVE  Inv'
<1>1. Undisturbed(r)
  BY DEF Undisturbed
<1>2. OneDefault'
  BY DEF Inv, OneDefault, Active
<1>3. \A q \in Requests \ {r} : Written(r)' \cap Written(q) = {}
  BY DEF Inv, Apart, Written
<1>4. ~Commits(r)'
  BY DEF Commits
<1> QED
  BY <1>1, <1>2, <1>3, <1>4, StepParts

-------------------------------------------------------------------------------
(* The steps of a request. *)

\* A request starts at the first statement of its operation.
LEMMA ArriveInv ==
    ASSUME Inv, NEW r \in Requests, NEW i \in Inputs, Arrive(r, i)
    PROVE  Inv'
<1> USE DEF Inv, TypeOK
<1> DEFINE point == CASE i.op = "create" -> "create" [] i.op = "update" -> "get"
                      [] i.op = "delete" -> "delete"
<1>1. i.op \in {"create", "update", "delete"} /\ i.book \in Books
  BY InputTypes
<1>2. /\ i.op = "create" => point = "create"
      /\ i.op = "update" => point = "get"
      /\ i.op = "delete" => point = "delete"
  OBVIOUS
<1>3. /\ pc[r] = "idle" /\ pc' = [pc EXCEPT ![r] = point]
      /\ input' = [input EXCEPT ![r] = i] /\ target' = [target EXCEPT ![r] = i.book]
      /\ served' = served + 1 /\ alone' = (alone /\ InFlight = {}) /\ outcome' = "none"
      /\ UNCHANGED <<rows, writes, draft, found>>
  BY DEF Arrive, Goto
<1> HIDE DEF point
<1>4. point \in {"create", "get", "delete"}
  BY <1>1, <1>2
<1>5. TypeOK'
  <2>1. alone' \in BOOLEAN
    BY <1>3
  <2>2. pc' \in [Requests -> Points]
    BY <1>3, <1>4 DEF Points
  <2>3. input' \in [Requests -> Inputs] /\ target' \in [Requests -> Books]
    BY <1>1, <1>3
  <2>4. outcome' \in Outcomes
    BY <1>3 DEF Outcomes
  <2>5. served \in Nat
    OBVIOUS
  <2>6. served' \in Nat
    BY <1>3, <2>5
  <2> QED
    BY <1>3, <2>1, <2>2, <2>3, <2>4, <2>6
<1>6. Written(r)' = {}
  BY <1>3 DEF RequestInv, Written
<1>7. pc'[r] = point /\ input'[r] = i
  BY <1>3
<1>8. RequestInv(r)'
  BY <1>1, <1>2, <1>4, <1>6, <1>7 DEF RequestInv
<1>9. \A q \in Requests \ {r} :
         /\ pc'[q] = pc[q] /\ input'[q] = input[q] /\ draft'[q] = draft[q]
         /\ target'[q] = target[q]
  BY <1>3
<1> QED
  BY <1>3, <1>4, <1>5, <1>7, <1>8, <1>9, QuietStep

\* A step that only decides what row will be written.
LEMMA DraftInv ==
    ASSUME Inv, NEW r \in Requests, NEW book \in Row, book.state = "active",
           pc[r] \in {"create", "get"},
           draft' = [draft EXCEPT ![r] = book],
           Goto(r, IF book.default THEN "scan"
                   ELSE IF pc[r] = "create" THEN "insert" ELSE "write"),
           UNCHANGED <<rows, writes, input, target, found, outcome, served, alone>>
    PROVE  Inv'
<1> USE DEF Inv, TypeOK
<1>1. pc'[r] \in {"scan", "insert", "write"} /\ draft'[r] = book
  BY DEF Goto
<1>2. TypeOK'
  BY DEF Goto, Points
<1>3. Written(r)' = {}
  BY DEF RequestInv, Written
<1>4. RequestInv(r)'
  BY <1>1, <1>3 DEF Goto, RequestInv
<1> QED
  BY <1>1, <1>2, <1>4, QuietStep DEF Goto

\* Create validates the playbook, and looks for other defaults if it is one.
LEMMA CreateInv ==
    ASSUME Inv, NEW r \in Requests, Create(r)
    PROVE  Inv'
<1>1. CASE Reject(r, "invalid")
  BY <1>1, RejectInv DEF Outcomes
<1>2. CASE Validates(New(input[r])) /\ ~Reject(r, "invalid")
  <2>1. input[r] \in Inputs /\ input[r].op = "create" /\ pc[r] = "create"
    BY DEF Create, Inv, TypeOK, RequestInv
  <2>2. New(input[r]) \in Row /\ New(input[r]).state = "active"
    BY <1>2, <2>1, NewRow
  <2> QED
    BY <1>2, <2>1, <2>2, DraftInv DEF Create
<1> QED
  BY <1>1, <1>2 DEF Create

\* Update reads the playbook and merges the request into it.
LEMMA GetInv ==
    ASSUME Inv, NEW r \in Requests, Get(r)
    PROVE  Inv'
<1>1. CASE Reject(r, "not found") \/ Reject(r, "invalid")
  BY <1>1, RejectInv DEF Outcomes
<1>2. CASE /\ Validates(Merged(rows[target[r]], input[r]))
           /\ ~Reject(r, "not found") /\ ~Reject(r, "invalid")
  <2>1. input[r] \in Inputs /\ rows[target[r]] \in Row /\ pc[r] = "get"
    BY DEF Get, Inv, TypeOK
  <2>2. /\ Merged(rows[target[r]], input[r]) \in Row
        /\ Merged(rows[target[r]], input[r]).state = "active"
    BY <1>2, <2>1, MergedRow
  <2> QED
    BY <1>2, <2>1, <2>2, DraftInv DEF Get
<1> QED
  BY <1>1, <1>2 DEF Get

\* The rows whose flag is to be cleared are found.
LEMMA ScanDefaultsInv ==
    ASSUME Inv, NEW r \in Requests, ScanDefaults(r)
    PROVE  Inv'
<1> USE DEF Inv, TypeOK, ScanDefaults, Goto
<1>1. TypeOK'
  BY DEF Points, ActiveBooks
<1>2. RequestInv(r)'
  BY DEF RequestInv, Written
<1> QED
  BY <1>1, <1>2, QuietStep

\* The statement that clears the defaults waits for the rows that others write.
LEMMA UnsetDefaultsInv ==
    ASSUME Inv, NEW r \in Requests, UnsetDefaults(r)
    PROVE  Inv'
<1> USE DEF Inv
<1> DEFINE W == [k \in found[r] \cap ActiveBooks |-> [rows[k] EXCEPT !.default = FALSE]]
<1>1. /\ pc[r] = "unset" /\ Free(r)
      /\ writes' = [writes EXCEPT ![r] = W]
      /\ pc' = [pc EXCEPT ![r] = IF input[r].op = "create" THEN "insert" ELSE "write"]
      /\ UNCHANGED <<rows, input, draft, target, found, outcome, served, alone>>
  BY DEF UnsetDefaults, Goto
<1>2. /\ DOMAIN W \subseteq Books /\ DOMAIN W \subseteq ActiveBooks
      /\ DOMAIN W \subseteq found[r]
      /\ \A k \in DOMAIN W : W[k] = [rows[k] EXCEPT !.default = FALSE]
      /\ W \in [DOMAIN W -> Row]
  BY ClearedRow DEF TypeOK, ActiveBooks
<1> HIDE DEF W
<1>3. writes'[r] = W /\ \A q \in Requests \ {r} : writes'[q] = writes[q]
  BY <1>1 DEF TypeOK
<1>4. TypeOK'
  <2>1. \A q \in Requests :
           /\ DOMAIN writes'[q] \subseteq Books
           /\ writes'[q] \in [DOMAIN writes'[q] -> Row]
    BY <1>2, <1>3 DEF TypeOK
  <2> QED
    BY <1>1, <2>1 DEF TypeOK, Points
<1>5. OneDefault'
  BY <1>1 DEF OneDefault, Active
<1>6. Undisturbed(r)
  BY <1>1, <1>3 DEF Undisturbed, TypeOK
<1>7. RequestInv(r)'
  <2>1. pc'[r] = IF input[r].op = "create" THEN "insert" ELSE "write"
    BY <1>1 DEF TypeOK
  <2>2. /\ draft[r].default /\ draft[r].state = "active"
        /\ input[r].op \in {"create", "update"}
    BY <1>1 DEF RequestInv
  <2>3. \A b \in Written(r)' : Clears(r, b)'
    BY <1>1, <1>2, <1>3 DEF Written, Clears, Active, ActiveBooks
  <2> QED
    BY <1>1, <2>1, <2>2, <2>3 DEF RequestInv
<1>8. \A q \in Requests \ {r} : Written(r)' \cap Written(q) = {}
  BY <1>1, <1>2, <1>3 DEF Free, WaitsFor, Changes, Written
<1>9. ~Commits(r)'
  BY <1>1 DEF Commits, TypeOK
<1> QED
  BY <1>4, <1>5, <1>6, <1>7, <1>8, <1>9, StepParts

\* The row that a transaction writes is its draft; the other rows it has written
\* are as they were.
LEMMA WriteDraft ==
    ASSUME TypeOK, NEW r \in Requests, NEW b \in Books, Write(r, b)
    PROVE  /\ Written(r)' = Written(r) \cup {b}
           /\ writes'[r][b] = draft[r]
           /\ \A k \in Written(r) \ {b} : writes'[r][k] = writes[r][k]
           /\ \A q \in Requests \ {r} : writes'[q] = writes[q]
           /\ writes'[r] \in [Written(r)' -> Row]
           /\ DOMAIN writes' = Requests
<1> DEFINE W == [k \in Written(r) \cup {b} |-> IF k = b THEN draft[r] ELSE writes[r][k]]
<1>1. /\ DOMAIN W = Written(r) \cup {b}
      /\ W[b] = draft[r]
      /\ \A k \in Written(r) \ {b} : W[k] = writes[r][k]
      /\ W \in [Written(r) \cup {b} -> Row]
  BY DEF TypeOK, Written
<1>2. writes' = [writes EXCEPT ![r] = W]
  BY DEF Write
<1> HIDE DEF W
<1>3. writes'[r] = W
  BY <1>2 DEF TypeOK
<1> QED
  BY <1>1, <1>2, <1>3 DEF TypeOK, Written

\* What Insert and Update have in common: the transaction writes its row, for
\* which it has waited, and is ready to commit.
LEMMA WriteInv ==
    ASSUME Inv, NEW r \in Requests, NEW b \in Books,
           pc[r] \in {"insert", "write"}, Free(r), IndexAdmits(r, b),
           \A q \in Requests \ {r} : b \notin Written(q),
           rows[b].state = IF pc[r] = "insert" THEN "absent" ELSE "active",
           target' = [target EXCEPT ![r] = b],
           Write(r, b), Goto(r, "commit"),
           UNCHANGED <<rows, input, draft, found, outcome, served, alone>>
    PROVE  Inv'
<1> USE DEF Inv
<1>1. /\ Written(r)' = Written(r) \cup {b}
      /\ writes'[r][b] = draft[r]
      /\ \A k \in Written(r) \ {b} : writes'[r][k] = writes[r][k]
      /\ \A q \in Requests \ {r} : writes'[q] = writes[q]
      /\ writes'[r] \in [Written(r)' -> Row]
      /\ DOMAIN writes' = Requests
  BY WriteDraft
<1>2. pc'[r] = "commit" /\ target'[r] = b
  BY DEF Goto, TypeOK
<1>3. TypeOK'
  <2>1. \A q \in Requests :
           /\ DOMAIN writes'[q] \subseteq Books
           /\ writes'[q] \in [DOMAIN writes'[q] -> Row]
    BY <1>1 DEF TypeOK, Written
  <2> QED
    BY <1>1, <2>1 DEF TypeOK, Goto, Points
<1>4. OneDefault'
  BY DEF OneDefault, Active
<1>5. Undisturbed(r)
  BY <1>1 DEF Undisturbed, TypeOK, Goto
<1>6. RequestInv(r)'
  <2>1. /\ draft[r].state = "active" /\ input[r].op \in {"create", "update"}
        /\ pc[r] = "insert" <=> input[r].op = "create"
        /\ \A k \in Written(r) : Clears(r, k)
    BY DEF RequestInv
  <2>2. \A k \in Written(r)' : k = b \/ Clears(r, k)'
    BY <1>1, <2>1 DEF Clears, Active
  <2>3. draft[r].default => \A k \in Books \ {b} : ~Overlay(rows, writes'[r])[k].default
    <3> SUFFICES ASSUME draft[r].default, NEW k \in Books \ {b}
                 PROVE  ~Overlay(rows, writes'[r])[k].default
      OBVIOUS
    <3>1. ~Overlay(rows, writes[r])[k].default
      BY DEF IndexAdmits
    <3>2. Overlay(rows, writes'[r])[k] = Overlay(rows, writes[r])[k]
      BY <1>1 DEF Overlay, Written, TypeOK
    <3> QED
      BY <3>1, <3>2
  <2> QED
    BY <1>1, <1>2, <2>1, <2>2, <2>3 DEF RequestInv
<1>7. \A q \in Requests \ {r} : Written(r)' \cap Written(q) = {}
  BY <1>1 DEF Apart
<1>8. ASSUME Commits(r)', NEW q \in Requests \ {r}, Commits(q)
      PROVE  FALSE
  <2>1. target[q] \in Written(q) /\ writes[q][target[q]].default
    BY <1>8 DEF Commits, RequestInv
  <2>2. draft[r].default
    BY <1>8 DEF Commits
  <2>3. target[q] \in Indexed(q)
    BY <2>1 DEF Indexed
  <2> QED
    BY <2>2, <2>3 DEF Free, WaitsFor
<1> QED
  BY <1>3, <1>4, <1>5, <1>6, <1>7, <1>8, StepParts

\* Create inserts the row, if the index admits it.
LEMMA InsertInv ==
    ASSUME Inv, NEW r \in Requests, Insert(r)
    PROVE  Inv'
<1>1. CASE Reject(r, "conflict")
  BY <1>1, RejectInv DEF Outcomes
<1>2. CASE ~Reject(r, "conflict")
  <2>1. PICK b \in FreshBooks :
           /\ IndexAdmits(r, b) /\ Write(r, b) /\ Goto(r, "commit")
           /\ target' = [target EXCEPT ![r] = b]
           /\ UNCHANGED <<rows, input, draft, found, outcome, served, alone>>
    BY <1>2 DEF Insert
  <2> QED
    BY <2>1, WriteInv DEF Insert, FreshBooks
<1> QED
  BY <1>1, <1>2

\* Update writes the row, if the index admits it.
LEMMA UpdateInv ==
    ASSUME Inv, NEW r \in Requests, Update(r)
    PROVE  Inv'
<1>1. CASE Reject(r, "not found") \/ Reject(r, "conflict")
  BY <1>1, RejectInv DEF Outcomes
<1>2. CASE ~Reject(r, "not found") /\ ~Reject(r, "conflict")
  <2>1. /\ pc[r] = "write" /\ Free(r) /\ rows[target[r]].state = "active"
        /\ IndexAdmits(r, target[r]) /\ Write(r, target[r]) /\ Goto(r, "commit")
        /\ UNCHANGED <<rows, input, draft, target, found, outcome, served, alone>>
    BY <1>2 DEF Update, Updates, Active
  <2>2. target' = [target EXCEPT ![r] = target[r]] /\ target[r] \in Books
    BY <2>1 DEF Inv, TypeOK
  <2>3. \A q \in Requests \ {r} : target[r] \notin Written(q)
    BY <2>1 DEF Free, WaitsFor, Changes
  <2> QED
    BY <2>1, <2>2, <2>3, WriteInv
<1> QED
  BY <1>1, <1>2

\* The rows after a commit.
LEMMA CommittedRows ==
    ASSUME Inv, NEW r \in Requests, Commit(r)
    PROVE  /\ rows' \in [Books -> Row]
           /\ target[r] \in Written(r) /\ rows'[target[r]] = draft[r]
           /\ \A b \in Books \ Written(r) : rows'[b] = rows[b]
           /\ \A b \in Written(r) \ {target[r]} :
                 /\ Active(b)
                 /\ rows'[b] = [rows[b] EXCEPT !.default = FALSE]
                 /\ ~rows'[b].default
           /\ draft[r].default => \A k \in Books \ {target[r]} : ~rows'[k].default
<1> USE DEF Inv
<1>1. rows' = Overlay(rows, writes[r]) /\ DOMAIN rows = Books /\ Written(r) \subseteq Books
  BY DEF Commit, TypeOK, Written
<1>2. /\ \A b \in Written(r) : rows'[b] = writes[r][b]
      /\ \A b \in Books \ Written(r) : rows'[b] = rows[b]
  BY <1>1 DEF Overlay, Written
<1>3. rows' \in [Books -> Row]
  BY <1>1 DEF Overlay, TypeOK
<1>4. pc[r] = "commit" /\ RequestInv(r)
  BY DEF Commit
<1>5. ASSUME NEW b \in Written(r) \ {target[r]}
      PROVE  /\ Active(b)
             /\ rows'[b] = [rows[b] EXCEPT !.default = FALSE]
             /\ ~rows'[b].default
  <2>1. Clears(r, b) /\ rows[b] \in Row
    BY <1>1, <1>4 DEF RequestInv, TypeOK
  <2> QED
    BY <1>2, <2>1, ClearedRow DEF Clears
<1>6. draft[r].default => \A k \in Books \ {target[r]} : ~rows'[k].default
  BY <1>1, <1>4 DEF RequestInv
<1> QED
  BY <1>2, <1>3, <1>4, <1>5, <1>6 DEF RequestInv

\* The writes of a transaction become the table's.
LEMMA CommitInv ==
    ASSUME Inv, NEW r \in Requests, Commit(r)
    PROVE  Inv'
<1> USE DEF Inv
<1>1. /\ rows' \in [Books -> Row]
      /\ target[r] \in Written(r) /\ rows'[target[r]] = draft[r]
      /\ \A b \in Books \ Written(r) : rows'[b] = rows[b]
      /\ \A b \in Written(r) \ {target[r]} : ~rows'[b].default
      /\ draft[r].default => \A k \in Books \ {target[r]} : ~rows'[k].default
  BY CommittedRows
<1>2. draft[r].state = "active" /\ pc[r] = "commit"
  BY DEF Commit, RequestInv
<1>3. OneDefault'
  BY <1>1, <1>2 DEF OneDefault, Active
<1>4. \A q \in Requests \ {r} : \A b \in Written(q) : rows'[b] = rows[b]
  BY <1>1 DEF Apart, TypeOK, Written
<1>5. \A q \in Requests \ {r} : Commits(q) =>
         \A b \in Books \ {target[q]} : rows'[b].default => rows[b].default
  BY <1>1, <1>2 DEF OneSetter, Commits
<1> QED
  BY <1>1, <1>3, <1>4, <1>5, AnswerInv DEF Commit, Outcomes

\* Delete marks the row.
LEMMA DeleteInv ==
    ASSUME Inv, NEW r \in Requests, Delete(r)
    PROVE  Inv'
<1> USE DEF Inv
<1>1. CASE Reject(r, "not found")
  BY <1>1, RejectInv DEF Outcomes
<1>2. CASE ~Reject(r, "not found")
  <2> DEFINE playbook == [rows[target[r]] EXCEPT !.state = "deleted", !.default = FALSE]
  <2>1. playbook \in Row /\ ~playbook.default /\ target[r] \in Books
    BY DeletedRow DEF TypeOK
  <2>2. rows' = [rows EXCEPT ![target[r]] = playbook]
    BY <1>2 DEF Delete
  <2>3. pc[r] = "delete" /\ Free(r) /\ Answer(r, "done")
    BY <1>2 DEF Delete
  <2> HIDE DEF playbook
  <2>4. rows' \in [Books -> Row] /\ OneDefault'
    BY <2>1, <2>2 DEF OneDefault, Active, TypeOK
  <2>5. \A q \in Requests \ {r} : \A b \in Written(q) : rows'[b] = rows[b]
    BY <2>2, <2>3 DEF Free, WaitsFor, Changes, TypeOK, Written
  <2>6. \A b \in Books : rows'[b].default => rows[b].default
    BY <2>1, <2>2 DEF TypeOK
  <2> QED
    BY <2>3, <2>4, <2>5, <2>6, AnswerInv DEF Outcomes
<1> QED
  BY <1>1, <1>2

\* One step of the playbooks keeps the invariant.
LEMMA StepInv ==
    ASSUME Inv, [Next]_vars
    PROVE  Inv'
<1>1. ASSUME NEW r \in Requests, Step(r)
      PROVE  Inv'
  <2>1. CASE DeadlockVictim(r)
    BY <2>1, RejectInv DEF DeadlockVictim, Outcomes
  <2> QED
    BY <1>1, <2>1, CreateInv, GetInv, ScanDefaultsInv, UnsetDefaultsInv, InsertInv,
       UpdateInv, CommitInv, DeleteInv DEF Step
<1>2. CASE UNCHANGED vars
  BY <1>2 DEF vars, Inv, TypeOK, OneDefault, Active, Apart, OneSetter, Commits, Written,
     RequestInv, Clears
<1> QED
  BY <1>1, <1>2, ArriveInv DEF Next, Terminated

\* The invariant holds before the first request.
LEMMA InitInv == Init => Inv
<1> SUFFICES ASSUME Init PROVE Inv
  OBVIOUS
<1>1. TypeOK
  BY InputTypes, PlaybooksAssumption DEF Init, TypeOK, Points, Outcomes, NoWrites
<1>2. OneDefault
  BY PlaybooksAssumption DEF Init, OneDefault, Active
<1>3. \A r \in Requests : Written(r) = {} /\ pc[r] = "idle"
  BY DEF Init, Written, NoWrites
<1> QED
  BY <1>1, <1>2, <1>3 DEF Inv, Apart, OneSetter, Commits, RequestInv

\* Every step of CallScoring is a step of the playbooks, or leaves them alone.
LEMMA ScoringSteps == [ScoringNext]_all => [Next]_vars
BY DEF ScoringNext, all

\* In every state of every behaviour, however the requests interleave.
THEOREM Invariance == Spec => []Inv
<1>1. ScoringInit => Inv
  BY InitInv DEF ScoringInit
<1>2. Inv /\ [ScoringNext]_all => Inv'
  BY StepInv, ScoringSteps
<1> QED
  BY <1>1, <1>2, PTL DEF Spec

\* At most one active playbook is the default one, and no deleted one is.
THEOREM PlaybookRowsHold == Spec => []RowsHold
<1>1. Inv => RowsHold
  BY DEF Inv, RowsHold
<1> QED
  BY <1>1, Invariance, PTL

-------------------------------------------------------------------------------
(* Sums.  A total adds up over a set, element by element in an order that        *)
(* CHOOSE settles; none of what follows depends on which one.                    *)

\* Among some subsets of a finite set, one has no other below it.
LEMMA LeastSubset ==
    ASSUME NEW S, IsFiniteSet(S), NEW T, T \subseteq SUBSET S, T # {}
    PROVE  \E s \in T : \A t \in T : t \subseteq s => t = s
<1>1. IsWellFoundedOn(StrictSubsetOrdering(S), SUBSET S)
  BY FS_StrictSubsetOrderingWellFounded, FS_FiniteSubsetsOfFinite
<1>2. PICK s \in T : \A t \in T : <<t, s>> \notin StrictSubsetOrdering(S)
  BY <1>1, WFMin
<1>3. \A t \in T : t \subseteq s => t = s
  BY <1>2 DEF StrictSubsetOrdering
<1> QED
  BY <1>3

\* Among some natural numbers, one is the least.
LEMMA LeastNumber ==
    ASSUME NEW T, T \subseteq Nat, T # {}
    PROVE  \E n \in T : \A m \in T : n <= m
<1> DEFINE Less == OpToRel(<, Nat)
<1>1. IsWellFoundedOn(Less, Nat)
  BY NatLessThanWellFounded
<1>2. \A m, n \in Nat : m < n => <<m, n>> \in Less
  BY DEF OpToRel
<1> HIDE DEF Less
<1>3. PICK n \in T : \A m \in T : <<m, n>> \notin Less
  BY <1>1, WFMin
<1>4. ASSUME NEW m \in T
      PROVE  n <= m
  <2>1. m \in Nat /\ n \in Nat /\ ~(m < n)
    BY <1>2, <1>3
  <2> QED
    BY <2>1
<1> QED
  BY <1>4

\* The element that MapThenSumSet takes out of a set,
Chosen(s) == CHOOSE x \in s : TRUE

\* the equation by which it adds up f over the subsets of S,
Computes(S, f, h) ==
    /\ h = [s \in SUBSET S |-> h[s]]
    /\ \A s \in SUBSET S : h[s] = IF s = {} THEN 0 ELSE f[Chosen(s)] + h[s \ {Chosen(s)}]

\* and the function of integers that does.
Sums(S, f, h) == h \in [SUBSET S -> Int] /\ Computes(S, f, h)

\* There is such a function: one that is right for the subsets up to a size can be
\* made right for those with one more element,
LEMMA SumsExist ==
    ASSUME NEW S, IsFiniteSet(S), NEW f \in [S -> Int]
    PROVE  \E h : Sums(S, f, h)
<1> DEFINE Upto(n) == \E h \in [SUBSET S -> Int] : \A s \in SUBSET S :
                          Cardinality(s) <= n =>
                             h[s] = IF s = {} THEN 0 ELSE f[Chosen(s)] + h[s \ {Chosen(s)}]
           Bad == {n \in Nat : ~Upto(n)}
<1>0. \A s \in SUBSET S : /\ IsFiniteSet(s) /\ Cardinality(s) \in Nat
                          /\ Cardinality(s) <= Cardinality(S)
                          /\ Cardinality(s) = 0 <=> s = {}
  BY FS_Subset, FS_CardinalityType, FS_EmptySet
<1>1. \A s \in SUBSET S : s # {} =>
         /\ Chosen(s) \in s /\ s \ {Chosen(s)} \in SUBSET S
         /\ Cardinality(s \ {Chosen(s)}) = Cardinality(s) - 1
  BY <1>0, FS_RemoveElement DEF Chosen
<1>2. Upto(0)
  <2> DEFINE h == [s \in SUBSET S |-> 0]
  <2>1. h \in [SUBSET S -> Int]
    OBVIOUS
  <2>2. \A s \in SUBSET S : Cardinality(s) <= 0 => h[s] = 0 /\ s = {}
    BY <1>0
  <2> HIDE DEF h
  <2> QED
    BY <2>1, <2>2
<1>3. ASSUME NEW n \in Nat, Upto(n)
      PROVE  Upto(n + 1)
  <2>1. PICK h \in [SUBSET S -> Int] : \A s \in SUBSET S :
                Cardinality(s) <= n =>
                    h[s] = IF s = {} THEN 0 ELSE f[Chosen(s)] + h[s \ {Chosen(s)}]
    BY <1>3
  <2> DEFINE g == [s \in SUBSET S |-> IF Cardinality(s) <= n THEN h[s]
                                      ELSE f[Chosen(s)] + h[s \ {Chosen(s)}]]
  <2>2. \A s \in SUBSET S : s # {} => f[Chosen(s)] \in Int /\ h[s \ {Chosen(s)}] \in Int
    BY <1>1
  <2>3. \A s \in SUBSET S : ~(Cardinality(s) <= n) => s # {}
    BY <1>0
  <2>4. g \in [SUBSET S -> Int]
    BY <2>2, <2>3
  <2>5. ASSUME NEW s \in SUBSET S, Cardinality(s) <= n + 1
        PROVE  g[s] = IF s = {} THEN 0 ELSE f[Chosen(s)] + g[s \ {Chosen(s)}]
    <3>1. CASE s = {}
      BY <3>1, <2>1, <1>0
    <3>2. CASE s # {}
      <4>1. s \ {Chosen(s)} \in SUBSET S /\ Cardinality(s \ {Chosen(s)}) <= n
        BY <3>2, <1>0, <1>1, <2>5
      <4>2. g[s \ {Chosen(s)}] = h[s \ {Chosen(s)}]
        BY <4>1
      <4>3. g[s] = f[Chosen(s)] + h[s \ {Chosen(s)}]
        BY <2>1, <3>2
      <4> QED
        BY <3>2, <4>2, <4>3
    <3> QED
      BY <3>1, <3>2
  <2> HIDE DEF g
  <2> QED
    BY <2>4, <2>5
<1>4. Bad = {}
  <2> SUFFICES ASSUME Bad # {} PROVE FALSE
    OBVIOUS
  <2>1. PICK n \in Bad : \A m \in Bad : n <= m
    BY LeastNumber
  <2>2. n # 0 /\ n \in Nat
    BY <1>2
  <2>3. n - 1 \in Nat /\ n - 1 \notin Bad
    <3>1. n - 1 \in Nat /\ ~(n <= n - 1)
      BY <2>2
    <3> HIDE DEF Bad
    <3> QED
      BY <2>1, <3>1
  <2>4. Upto(n - 1)
    BY <2>3
  <2>5. Upto((n - 1) + 1)
    BY <2>3, <2>4, <1>3
  <2>6. (n - 1) + 1 = n
    BY <2>2
  <2> QED
    BY <2>5, <2>6
<1>5. Upto(Cardinality(S))
  BY <1>4, FS_CardinalityType
<1> QED
  BY <1>0, <1>5 DEF Sums, Computes

\* and there is one.
LEMMA SumsUnique ==
    ASSUME NEW S, IsFiniteSet(S), NEW f \in [S -> Int], NEW h, Sums(S, f, h),
           NEW g, Computes(S, f, g)
    PROVE  g = h
<1> USE DEF Computes
<1> DEFINE Bad == {t \in SUBSET S : g[t] # h[t]}
<1>1. Bad = {}
  <2> SUFFICES ASSUME Bad # {} PROVE FALSE
    OBVIOUS
  <2>1. PICK t \in Bad : \A u \in Bad : u \subseteq t => u = t
    <3>1. Bad \subseteq SUBSET S
      OBVIOUS
    <3> HIDE DEF Bad
    <3> QED
      BY <3>1, LeastSubset
  <2>2. t \in SUBSET S /\ g[t] # h[t]
    OBVIOUS
  <2>3. t # {}
    BY <2>2 DEF Sums, Computes
  <2>4. Chosen(t) \in t
    BY <2>3 DEF Chosen
  <2>5. t \ {Chosen(t)} \in SUBSET S /\ t \ {Chosen(t)} \notin Bad
    <3> HIDE DEF Bad
    <3> QED
      BY <2>1, <2>2, <2>4
  <2>6. g[t \ {Chosen(t)}] = h[t \ {Chosen(t)}]
    BY <2>5
  <2> QED
    BY <2>2, <2>3, <2>6 DEF Sums, Computes
<1>2. \A t \in SUBSET S : g[t] = h[t]
  BY <1>1
<1>3. DOMAIN g = SUBSET S /\ h \in [SUBSET S -> Int]
  BY DEF Sums, Computes
<1> QED
  BY <1>2, <1>3

\* The order in which a sum takes its terms does not matter.
LEMMA SumsTakeAny ==
    ASSUME NEW S, IsFiniteSet(S), NEW f \in [S -> Int], NEW h, Sums(S, f, h),
           NEW s \in SUBSET S, NEW x \in s
    PROVE  h[s] = f[x] + h[s \ {x}]
<1> DEFINE Bad == {t \in SUBSET S : \E y \in t : h[t] # f[y] + h[t \ {y}]}
<1>1. Bad = {}
  <2> SUFFICES ASSUME Bad # {} PROVE FALSE
    OBVIOUS
  <2>1. PICK t \in Bad : \A u \in Bad : u \subseteq t => u = t
    <3>1. Bad \subseteq SUBSET S
      OBVIOUS
    <3> HIDE DEF Bad
    <3> QED
      BY <3>1, LeastSubset
  <2>2. PICK y \in t : h[t] # f[y] + h[t \ {y}]
    OBVIOUS
  <2> DEFINE a == Chosen(t)
             rest == t \ {a, y}
  <2>3. a \in t /\ t \in SUBSET S
    BY <2>2 DEF Chosen
  <2>4. h[t] = f[a] + h[t \ {a}]
    BY <2>2, <2>3 DEF Sums, Computes
  <2>5. a # y
    BY <2>2, <2>4
  <2>6. t \ {a} \notin Bad /\ t \ {y} \notin Bad
    <3> HIDE DEF Bad, a
    <3> QED
      BY <2>1, <2>2, <2>3
  <2>7. h[t \ {a}] = f[y] + h[rest]
    <3>1. y \in t \ {a} /\ t \ {a} \in SUBSET S /\ (t \ {a}) \ {y} = rest
      BY <2>2, <2>3, <2>5
    <3> HIDE DEF a, rest
    <3> QED
      BY <2>6, <3>1
  <2>8. h[t \ {y}] = f[a] + h[rest]
    <3>1. a \in t \ {y} /\ t \ {y} \in SUBSET S /\ (t \ {y}) \ {a} = rest
      BY <2>2, <2>3, <2>5
    <3> HIDE DEF a, rest
    <3> QED
      BY <2>6, <3>1
  <2>9. f[a] \in Int /\ f[y] \in Int /\ h[rest] \in Int
    BY <2>2, <2>3 DEF Sums, Computes
  <2> HIDE DEF a, rest, Bad
  <2> QED
    BY <2>2, <2>4, <2>7, <2>8, <2>9
<1> QED
  BY <1>1

\* A sum of natural numbers is one, and not less than any of them.
LEMMA SumsOfNaturals ==
    ASSUME NEW S, IsFiniteSet(S), NEW f \in [S -> Nat], NEW h, Sums(S, f, h),
           NEW s \in SUBSET S
    PROVE  h[s] \in Nat /\ \A x \in s : f[x] <= h[s]
<1> DEFINE Bad == {t \in SUBSET S : h[t] \notin Nat}
<1>1. Bad = {}
  <2> SUFFICES ASSUME Bad # {} PROVE FALSE
    OBVIOUS
  <2>1. PICK t \in Bad : \A u \in Bad : u \subseteq t => u = t
    <3>1. Bad \subseteq SUBSET S
      OBVIOUS
    <3> HIDE DEF Bad
    <3> QED
      BY <3>1, LeastSubset
  <2>2. h[{}] = 0
    BY DEF Sums, Computes
  <2>3. PICK x \in t : TRUE
    BY <2>2
  <2>4. t \ {x} \in SUBSET S /\ t \ {x} \notin Bad
    <3>1. t \ {x} \in SUBSET S
      OBVIOUS
    <3> HIDE DEF Bad
    <3> QED
      BY <2>1, <2>3, <3>1
  <2>5. h[t] = f[x] + h[t \ {x}]
    BY SumsTakeAny
  <2> QED
    BY <2>4, <2>5
<1>2. ASSUME NEW x \in s
      PROVE  f[x] <= h[s]
  <2>1. h[s] = f[x] + h[s \ {x}]
    BY SumsTakeAny
  <2>2. h[s \ {x}] \in Nat /\ f[x] \in Nat
    BY <1>1
  <2> QED
    BY <2>1, <2>2
<1> QED
  BY <1>1, <1>2

\* A sum over indices is the sum over what they index, if no two index the same.
LEMMA SumsReindex ==
    ASSUME NEW S, IsFiniteSet(S), NEW f \in [S -> Int], NEW h, Sums(S, f, h),
           NEW T, IsFiniteSet(T), NEW g \in [T -> Int], NEW j, Sums(T, g, j),
           NEW b \in Bijection(S, T), \A x \in S : f[x] = g[b[x]]
    PROVE  h[S] = j[T]
<1> DEFINE Image(s) == {b[x] : x \in s}
           Bad == {s \in SUBSET S : h[s] # j[Image(s)]}
<1>1. /\ b \in [S -> T] /\ \A x, y \in S : b[x] = b[y] => x = y
      /\ T = {b[x] : x \in S}
  BY DEF Bijection, Injection, IsInjective, Surjection
<1>2. Bad = {}
  <2> SUFFICES ASSUME Bad # {} PROVE FALSE
    OBVIOUS
  <2>1. PICK s \in Bad : \A u \in Bad : u \subseteq s => u = s
    <3>1. Bad \subseteq SUBSET S
      OBVIOUS
    <3> HIDE DEF Bad
    <3> QED
      BY <3>1, LeastSubset
  <2>2. h[{}] = 0 /\ j[{}] = 0 /\ Image({}) = {}
    <3>1. h[{}] = 0 /\ j[{}] = 0
      BY DEF Sums, Computes
    <3> QED
      BY <3>1
  <2>3. PICK x \in s : TRUE
    BY <2>2
  <2>4. s \ {x} \in SUBSET S /\ s \ {x} \notin Bad
    <3>1. s \ {x} \in SUBSET S
      OBVIOUS
    <3> HIDE DEF Bad
    <3> QED
      BY <2>1, <2>3, <3>1
  <2>5. h[s] = f[x] + h[s \ {x}]
    <3>1. s \in SUBSET S
      OBVIOUS
    <3> HIDE DEF Bad, Image
    <3> QED
      BY <2>3, <3>1, SumsTakeAny
  <2>6. Image(s) \in SUBSET T /\ b[x] \in Image(s) /\ Image(s) \ {b[x]} = Image(s \ {x})
    BY <1>1
  <2>7. j[Image(s)] = g[b[x]] + j[Image(s) \ {b[x]}]
    <3> HIDE DEF Image
    <3> QED
      BY <2>6, SumsTakeAny
  <2> QED
    BY <2>4, <2>5, <2>6, <2>7
<1>3. S \in SUBSET S /\ Image(S) = T
  BY <1>1
<1> HIDE DEF Image
<1> QED
  BY <1>2, <1>3

\* What MapThenSumSet adds up of the scores by their keys,
LEMMA KeySum ==
    ASSUME NEW K, IsFiniteSet(K), NEW scores \in [K -> Nat], NEW h, Sums(K, scores, h)
    PROVE  MapThenSumSet(LAMBDA k : scores[k], K) = h[K]
<1>1. h = [s \in SUBSET K |-> IF s = {} THEN 0
                              ELSE LET x == CHOOSE x \in s : TRUE IN scores[x] + h[s \ {x}]]
  BY DEF Sums, Computes, Chosen
<1> DEFINE g == CHOOSE g : g = [s \in SUBSET K |->
                  IF s = {} THEN 0
                  ELSE LET x == CHOOSE x \in s : TRUE IN scores[x] + g[s \ {x}]]
<1>2. g = [s \in SUBSET K |-> IF s = {} THEN 0
                              ELSE LET x == CHOOSE x \in s : TRUE IN scores[x] + g[s \ {x}]]
  BY <1>1
<1>3. MapThenSumSet(LAMBDA k : scores[k], K) = g[K]
  BY DEF MapThenSumSet, MapThenFoldSet
<1> HIDE DEF g
<1>4. g = [s \in SUBSET K |-> g[s]]
  BY <1>2
<1>5. \A s \in SUBSET K : g[s] = IF s = {} THEN 0 ELSE scores[Chosen(s)] + g[s \ {Chosen(s)}]
  BY <1>2 DEF Chosen
<1>6. scores \in [K -> Int]
  OBVIOUS
<1>7. Computes(K, scores, g)
  BY <1>4, <1>5 DEF Computes
<1>8. g = h
  BY <1>6, <1>7, SumsUnique
<1> QED
  BY <1>3, <1>8

\* and what the calculator does, criterion by criterion.
LEMMA ScoreSum ==
    ASSUME NEW list, IsFiniteSet(DOMAIN list), NEW scores,
           NEW f \in [DOMAIN list -> Int], NEW h, Sums(DOMAIN list, f, h),
           \A i \in DOMAIN list : f[i] = ScoreFor(scores, list[i].key)
    PROVE  TotalOf(scores, list) = h[DOMAIN list]
<1> DEFINE D == DOMAIN list
<1>1. \A s \in SUBSET D : s # {} => Chosen(s) \in D
  BY DEF Chosen
<1>2. h = [s \in SUBSET D |-> IF s = {} THEN 0
                              ELSE LET x == CHOOSE x \in s : TRUE
                                   IN ScoreFor(scores, list[x].key) + h[s \ {x}]]
  <2>1. \A s \in SUBSET D : h[s] = IF s = {} THEN 0
           ELSE ScoreFor(scores, list[Chosen(s)].key) + h[s \ {Chosen(s)}]
    BY <1>1 DEF Sums, Computes
  <2> QED
    BY <2>1 DEF Sums, Computes, Chosen
<1> DEFINE g == CHOOSE g : g = [s \in SUBSET D |->
                  IF s = {} THEN 0
                  ELSE LET x == CHOOSE x \in s : TRUE
                       IN ScoreFor(scores, list[x].key) + g[s \ {x}]]
<1>3. g = [s \in SUBSET D |-> IF s = {} THEN 0
                              ELSE LET x == CHOOSE x \in s : TRUE
                                   IN ScoreFor(scores, list[x].key) + g[s \ {x}]]
  BY <1>2
<1>4. TotalOf(scores, list) = g[D]
  BY DEF TotalOf, MapThenSumSet, MapThenFoldSet
<1> HIDE DEF g
<1>5. \A s \in SUBSET D : g[s] = IF s = {} THEN 0 ELSE f[Chosen(s)] + g[s \ {Chosen(s)}]
  BY <1>1, <1>3 DEF Chosen
<1>6. g = h
  <2>1. g = [s \in SUBSET D |-> g[s]]
    BY <1>3
  <2>2. Computes(D, f, g)
    BY <1>5, <2>1 DEF Computes
  <2> QED
    BY <2>2, SumsUnique
<1> QED
  BY <1>4, <1>6

-------------------------------------------------------------------------------
(* What a call is scored by.                                                 *)

\* The list has the keys of the answer, each once and with a score in range.
Whole(list, scores) ==
    /\ scores \in [KeysOf(list) -> Nat]
    /\ \A i \in DOMAIN list : scores[list[i].key] <= list[i].max

\* A total that can be stored if the maxima of its criteria add up to less.
Bounded(list, scores) == SumOfMax(list) <= TotalMax => TotalOf(scores, list) <= TotalMax

\* How far the call is says what is settled of its score.
Scored == stage \in {"score", "save", "saved", "shown"}

CallInv ==
    /\ stage \in Stages
    /\ criteria \in Rubrics \cup {<< >>}
    /\ DOMAIN answer \subseteq Keys /\ \A k \in DOMAIN answer : answer[k] \in Int
    /\ Scored => Whole(Rubric(criteria), answer) /\ Bounded(Rubric(criteria), answer)
    /\ total \in Int
    /\ stage \in {"save", "saved", "shown"} => total = TotalOf(answer, Rubric(criteria))
    /\ IF stage \in {"saved", "shown"}
       THEN row = Columns(answer, total) /\ Checked(row)
       ELSE row = NoScores
    /\ view = IF stage = "shown" THEN [k \in BuiltIn |-> row[k]] ELSE NoScores

\* A list that a call is scored by is one that Validate accepts, of finitely many
\* criteria.
Finite(list) == IsFiniteSet(DOMAIN list) /\ \A i \in DOMAIN list : list[i].max \in Int

LEMMA RubricValid ==
    ASSUME criteria \in Rubrics \cup {<< >>}
    PROVE  Valid(Rubric(criteria)) /\ Finite(Rubric(criteria))
<1>1. Valid(Rubric(criteria)) /\ Rubric(criteria) \in Lists \cup {BuiltInCriteria}
  BY BuiltInAssumption DEF Rubrics, Rubric
<1>2. ASSUME NEW list \in Lists
      PROVE  Finite(list)
  <2>1. list \in Seq(Criterion)
    BY ScoringAssumption
  <2>2. DOMAIN list = 1..Len(list) /\ Len(list) \in Nat
    BY <2>1
  <2>3. \A i \in 1..Len(list) : list[i] \in Criterion
    BY <2>1
  <2>4. \A i \in DOMAIN list : list[i].max \in Int
    BY <2>2, <2>3 DEF Criterion
  <2> QED
    BY <2>2, <2>4, FS_Interval DEF Finite
<1>3. Finite(BuiltInCriteria)
  <2> DEFINE n == Cardinality(BuiltIn)
  <2>1. n \in Nat /\ \E f : f \in Bijection(1..n, BuiltIn)
    BY ScoringAssumption, FS_CardinalityType DEF ExistsBijection
  <2>2. \E f \in [1..n -> BuiltIn] : IsInjective(f)
    BY <2>1 DEF Bijection, Injection
  <2>3. SetToSeq(BuiltIn) \in [1..n -> BuiltIn]
    BY <2>2 DEF SetToSeq
  <2>4. /\ DOMAIN BuiltInCriteria = 1..n
        /\ \A i \in 1..n : BuiltInCriteria[i].max = Maximum[SetToSeq(BuiltIn)[i]]
    BY <2>3 DEF BuiltInCriteria
  <2>5. \A i \in 1..n : BuiltInCriteria[i].max \in Int
    BY <2>3, <2>4, ScoringAssumption
  <2>6. IsFiniteSet(1..n)
    BY <2>1, FS_Interval
  <2> HIDE DEF n
  <2> QED
    BY <2>4, <2>5, <2>6 DEF Finite
<1> QED
  BY <1>1, <1>2, <1>3

\* Keys that are told apart once trimmed are told apart.
LEMMA KeysOnce ==
    ASSUME NEW list, Valid(list), NEW i \in DOMAIN list, NEW j \in DOMAIN list,
           list[i].key = list[j].key
    PROVE  i = j
<1>1. Trim[list[i].key] = Trim[list[j].key]
  OBVIOUS
<1> QED
  BY <1>1 DEF Valid

LEMMA MaxOfKey ==
    ASSUME NEW list, Valid(list), NEW i \in DOMAIN list
    PROVE  MaxOf(list, list[i].key) = list[i].max
<1> DEFINE j == CHOOSE j \in DOMAIN list : list[j].key = list[i].key
<1>1. j \in DOMAIN list /\ list[j].key = list[i].key
  OBVIOUS
<1> HIDE DEF j
<1>2. j = i
  BY <1>1, KeysOnce
<1> QED
  BY <1>2 DEF MaxOf, j

\* An answer that the calculator accepts is whole and its total is bounded.
LEMMA AcceptedIsWhole ==
    ASSUME NEW list, Valid(list), NEW ks, NEW scores \in [ks -> Scores], Accepts(scores, list)
    PROVE  Whole(list, scores) /\ Bounded(list, scores)
<1>1. /\ ks = KeysOf(list)
      /\ \A k \in KeysOf(list) : scores[k] \in 0..MaxOf(list, k)
  BY DEF Accepts
<1>2. \A k \in KeysOf(list) : scores[k] \in Nat
  <2>1. ASSUME NEW k \in KeysOf(list)
        PROVE  scores[k] \in Nat
    <3>1. scores[k] \in Int /\ scores[k] \in 0..MaxOf(list, k)
      BY <1>1, ScoringAssumption
    <3> QED
      BY <3>1
  <2> QED
    BY <2>1
<1>3. ASSUME NEW i \in DOMAIN list
      PROVE  scores[list[i].key] <= list[i].max
  <2>1. list[i].key \in KeysOf(list)
    BY DEF KeysOf
  <2>2. scores[list[i].key] \in 0..list[i].max
    BY <1>1, <2>1, MaxOfKey
  <2> QED
    BY <2>2
<1>4. Bounded(list, scores)
  BY DEF Accepts, Bounded
<1> QED
  BY <1>1, <1>2, <1>3, <1>4 DEF Whole

\* The sum of the scores of some keys, as the properties state it.
SumOf(scores, keys) == MapThenSumSet(LAMBDA k : scores[k], keys)

\* The total of a whole answer is the sum of its scores, and none is above it.
LEMMA TotalOfWhole ==
    ASSUME NEW list, Valid(list), Finite(list), NEW scores, Whole(list, scores)
    PROVE  /\ TotalOf(scores, list) \in Nat
           /\ TotalOf(scores, list) = SumOf(scores, KeysOf(list))
           /\ \A k \in KeysOf(list) : scores[k] <= TotalOf(scores, list)
<1> DEFINE D == DOMAIN list
           K == KeysOf(list)
           b == [i \in D |-> list[i].key]
           f == [i \in D |-> scores[list[i].key]]
<1>0. IsFiniteSet(D)
  BY DEF Finite
<1>1. scores \in [K -> Nat] /\ b \in [D -> K] /\ K = {b[i] : i \in D}
  BY DEF Whole, KeysOf
<1>2. f \in [D -> Nat] /\ \A i \in D : f[i] = scores[b[i]] /\ f[i] = ScoreFor(scores, list[i].key)
  BY <1>1 DEF ScoreFor
<1>3. IsFiniteSet(K)
  <2>1. b \in Surjection(D, K)
    BY <1>1 DEF Surjection
  <2> HIDE DEF D, K, b
  <2> QED
    BY <2>1, <1>0, FS_Surjection
<1>4. \A i, j \in D : b[i] = b[j] => i = j
  BY KeysOnce
<1> HIDE DEF K, b, f
<1>5. f \in [D -> Int] /\ scores \in [K -> Int]
  BY <1>1, <1>2
<1>6. PICK h : Sums(D, f, h)
  BY <1>0, <1>5, SumsExist
<1>7. PICK j : Sums(K, scores, j)
  BY <1>3, <1>5, SumsExist
<1>8. TotalOf(scores, list) = h[D]
  BY <1>0, <1>2, <1>5, <1>6, ScoreSum
<1>9. MapThenSumSet(LAMBDA k : scores[k], K) = j[K]
  BY <1>1, <1>3, <1>7, KeySum
<1>10. h[D] = j[K]
  <2>1. b \in Bijection(D, K)
    BY <1>1, <1>4 DEF Bijection, Injection, IsInjective, Surjection
  <2> HIDE DEF D
  <2> QED
    BY <2>1, <1>0, <1>2, <1>3, <1>5, <1>6, <1>7, SumsReindex
<1>11. j[K] \in Nat /\ \A k \in K : scores[k] <= j[K]
  <2>1. K \in SUBSET K
    OBVIOUS
  <2> QED
    BY <1>1, <1>3, <1>7, <2>1, SumsOfNaturals
<1> QED
  BY <1>8, <1>9, <1>10, <1>11 DEF K, SumOf

\* No step of the call, and no request before it is scored, breaks the invariant.
LEMMA CallStepInv ==
    ASSUME Inv, CallInv, [ScoringNext]_all
    PROVE  CallInv'
<1> USE DEF CallInv, Scored, Stages
<1>0. Valid(Rubric(criteria)) /\ Finite(Rubric(criteria))
  BY RubricValid
<1>1. CASE UNCHANGED call
  BY <1>1 DEF call, Rubric
<1>2. CASE LoadPlaybook
  <2>1. \A b \in ActiveBooks : rows[b].criteria \in Rubrics
    BY RowFields DEF Inv, TypeOK, ActiveBooks
  <2> QED
    BY <1>2, <2>1 DEF LoadPlaybook
<1>3. CASE Analyze
  <2>1. /\ stage' \in {"score", "failed"}
        /\ UNCHANGED <<criteria, total, row, view>> /\ row = NoScores /\ view = NoScores
    BY <1>3 DEF Analyze
  <2>2. PICK ks \in SUBSET Keys, wellFormed \in BOOLEAN : \E scores \in [ks -> Scores] :
           \/ /\ ParseAccepts(scores, wellFormed, Rubric(criteria))
              /\ stage' = "score" /\ answer' = scores
           \/ stage' = "failed" /\ UNCHANGED answer
    BY <1>3 DEF Analyze
  <2>3. PICK scores \in [ks -> Scores] :
           \/ /\ ParseAccepts(scores, wellFormed, Rubric(criteria))
              /\ stage' = "score" /\ answer' = scores
           \/ stage' = "failed" /\ UNCHANGED answer
    BY <2>2
  <2>4. DOMAIN scores \subseteq Keys /\ \A k \in DOMAIN scores : scores[k] \in Int
    BY ScoringAssumption
  <2>5. DOMAIN answer' \subseteq Keys /\ \A k \in DOMAIN answer' : answer'[k] \in Int
    BY <2>3, <2>4
  <2>6. stage' = "score" =>
           Whole(Rubric(criteria), answer') /\ Bounded(Rubric(criteria), answer')
    BY <2>3, <1>0, AcceptedIsWhole DEF ParseAccepts
  <2> QED
    BY <2>1, <2>5, <2>6 DEF Rubric
<1>4. CASE CalculateScore
  <2>1. /\ stage = "score" /\ stage' = "save" /\ total' = TotalOf(answer, Rubric(criteria))
        /\ UNCHANGED <<criteria, answer, row, view>>
    BY <1>4 DEF CalculateScore
  <2>2. TotalOf(answer, Rubric(criteria)) \in Int
    <3> DEFINE list == Rubric(criteria)
    <3>1. Whole(list, answer)
      BY <2>1
    <3> HIDE DEF list
    <3>2. TotalOf(answer, list) \in Nat
      BY <1>0, <3>1, TotalOfWhole DEF list
    <3> QED
      BY <3>2 DEF list
  <2> QED
    BY <2>1, <2>2 DEF Rubric
<1>5. CASE Save
  BY <1>5 DEF Save, Rubric
<1>6. CASE Retry
  BY <1>6 DEF Retry, NoScores
<1>7. CASE Show
  BY <1>7 DEF Show, Rubric
<1> QED
  BY <1>1, <1>2, <1>3, <1>4, <1>5, <1>6, <1>7 DEF ScoringNext, all

LEMMA CallInvariance == Spec => []CallInv
<1>1. ScoringInit => CallInv
  BY DEF ScoringInit, CallInit, CallInv, Scored, Stages, NoScores
<1>2. Inv /\ CallInv /\ [ScoringNext]_all => CallInv'
  BY CallStepInv
<1> QED
  BY <1>1, <1>2, Invariance, PTL DEF Spec

\* What the invariant says of a scored call.
LEMMA ScoredCall ==
    ASSUME CallInv, stage \in {"save", "saved", "shown"}
    PROVE  /\ answer \in [KeysOf(Rubric(criteria)) -> Nat]
           /\ DOMAIN answer = KeysOf(Rubric(criteria))
           /\ total \in Nat /\ total = TotalOf(answer, Rubric(criteria))
           /\ total = SumOf(answer, KeysOf(Rubric(criteria)))
           /\ \A k \in KeysOf(Rubric(criteria)) : answer[k] <= total
<1> DEFINE list == Rubric(criteria)
<1>1. /\ Valid(list) /\ Finite(list) /\ Whole(list, answer)
      /\ total = TotalOf(answer, list)
  BY RubricValid DEF CallInv, Scored
<1>2. answer \in [KeysOf(list) -> Nat]
  BY <1>1 DEF Whole
<1> HIDE DEF list
<1>3. /\ total \in Nat /\ total = SumOf(answer, KeysOf(list))
      /\ \A k \in KeysOf(list) : answer[k] <= total
  BY <1>1, TotalOfWhole
<1> QED
  BY <1>1, <1>2, <1>3 DEF list

\* The stored row is within what the table admits.
LEMMA CallTypes == CallInv => CallTypeOK
<1> SUFFICES ASSUME CallInv PROVE CallTypeOK
  OBVIOUS
<1>1. DOMAIN row \in {{}, BuiltIn \cup {"total"}} /\ \A c \in DOMAIN row : row[c] \in 0..TotalMax
  <2>1. CASE stage \in {"saved", "shown"}
    <3>1. row = Columns(answer, total) /\ Checked(row)
      BY <2>1 DEF CallInv
    <3>2. DOMAIN row = BuiltIn \cup {"total"} /\ row["total"] = total /\ total <= TotalMax
      BY <3>1 DEF Columns, Checked
    <3>3. ASSUME NEW c \in BuiltIn
          PROVE  row[c] \in 0..TotalMax
      <4>1. c # "total" /\ row[c] = ScoreFor(answer, c)
        BY <3>1, BuiltInAssumption DEF Columns
      <4>2. CASE c \in DOMAIN answer
        <5>1. answer[c] \in Nat /\ answer[c] <= total /\ total \in Nat
          BY <4>2, <2>1, ScoredCall
        <5> QED
          BY <4>1, <4>2, <5>1, <3>2, ScoringAssumption DEF ScoreFor
      <4>3. CASE c \notin DOMAIN answer
        BY <4>1, <4>3, ScoringAssumption DEF ScoreFor
      <4> QED
        BY <4>2, <4>3
    <3>4. row["total"] \in 0..TotalMax
      BY <3>2, <2>1, ScoredCall, ScoringAssumption
    <3> QED
      BY <3>2, <3>3, <3>4
  <2>2. CASE stage \notin {"saved", "shown"}
    BY <2>2 DEF CallInv, NoScores
  <2> QED
    BY <2>1, <2>2
<1>2. DOMAIN view \in {{}, BuiltIn}
  BY DEF CallInv, NoScores
<1> QED
  BY <1>1, <1>2 DEF CallInv, CallTypeOK

\* A call is scored by criteria that can be told apart, on a whole answer with every
\* score in the range of its criterion; its total, and the one that is stored, are
\* the sum of what the answer gave, and it shows what the answer gave.
THEOREM CallsShowWhatWasGiven ==
    Spec => [](/\ CallTypeOK /\ KeysToldApart /\ AnswerIsWhole
               /\ TotalIsSum /\ ShownIsGiven /\ StoredIsSum)
<1>1. CallInv => KeysToldApart
  <2> SUFFICES ASSUME CallInv PROVE KeysToldApart
    OBVIOUS
  <2>1. CASE criteria = << >>
    BY <2>1 DEF KeysToldApart, KeysOf
  <2>2. CASE criteria \in Rubrics
    BY <2>2 DEF KeysToldApart, KeysOf, Rubrics, Valid
  <2> QED
    BY <2>1, <2>2 DEF CallInv
<1>2. CallInv => AnswerIsWhole
  BY DEF CallInv, AnswerIsWhole, Scored, Whole
<1>3. CallInv => TotalIsSum
  BY ScoredCall DEF TotalIsSum, SumOf
<1>4. CallInv => ShownIsGiven
  <2> SUFFICES ASSUME CallInv, stage = "shown", NEW k \in BuiltIn
               PROVE  view[k] = IF k \in DOMAIN answer THEN answer[k] ELSE 0
    BY DEF ShownIsGiven
  <2>1. view[k] = row[k] /\ row = Columns(answer, total)
    BY DEF CallInv
  <2>2. k # "total"
    BY BuiltInAssumption
  <2> QED
    BY <2>1, <2>2 DEF Columns, ScoreFor
<1>5. CallInv => StoredIsSum
  <2> SUFFICES ASSUME CallInv, stage = "shown"
               PROVE  row["total"] = SumOf(answer, DOMAIN answer)
    BY DEF StoredIsSum, SumOf
  <2>1. row["total"] = total
    BY DEF CallInv, Columns
  <2>2. /\ total = SumOf(answer, KeysOf(Rubric(criteria)))
        /\ DOMAIN answer = KeysOf(Rubric(criteria))
    BY ScoredCall
  <2> QED
    BY <2>1, <2>2
<1> QED
  BY <1>1, <1>2, <1>3, <1>4, <1>5, CallTypes, CallInvariance, PTL

\* Where no criterion of the calculator goes beyond the CHECK of its column, as in
\* the repository's two files, a score by a playbook that fits can be saved, and so
\* a call shows the whole score by the playbook it was given, or none.
THEOREM CallsShowWholeScores ==
    ASSUME \A k \in BuiltIn : Maximum[k] <= ColumnMax[k]
    PROVE  Spec => []CallsShowTheirScore
<1>1. CallInv => FittingIsSaved
  <2> DEFINE list == Rubric(criteria)
  <2> SUFFICES ASSUME CallInv, stage = "save", Fits(list)
               PROVE  Checked(Columns(answer, total))
    BY DEF FittingIsSaved
  <2>1. Columns(answer, total)["total"] \in 0..TotalMax
    <3>1. total \in Nat /\ total = TotalOf(answer, list) /\ Bounded(list, answer)
      BY ScoredCall DEF CallInv, Scored
    <3>2. total <= TotalMax
      BY <3>1 DEF Bounded, Fits
    <3> QED
      BY <3>1, <3>2, ScoringAssumption DEF Columns
  <2>2. ASSUME NEW k \in BuiltIn
        PROVE  Columns(answer, total)[k] \in 0..ColumnMax[k]
    <3>1. Columns(answer, total)[k] = ScoreFor(answer, k) /\ ColumnMax[k] \in Nat
      BY BuiltInAssumption, ScoringAssumption DEF Columns
    <3>2. CASE k \in DOMAIN answer
      <4>1. PICK i \in DOMAIN list : list[i].key = k
        BY <3>2, ScoredCall DEF KeysOf
      <4>2. answer[k] \in Nat /\ answer[k] <= list[i].max
        BY <3>2, <4>1, ScoredCall DEF CallInv, Scored, Whole
      <4>3. list[i].max <= Maximum[k] /\ Maximum[k] \in Nat /\ list[i].max \in Int
        BY <4>1, ScoringAssumption, RubricValid DEF CallInv, Fits, Finite
      <4> QED
        BY <3>1, <3>2, <4>2, <4>3 DEF ScoreFor
    <3>3. CASE k \notin DOMAIN answer
      BY <3>1, <3>3 DEF ScoreFor
    <3> QED
      BY <3>2, <3>3
  <2> QED
    BY <2>1, <2>2 DEF Checked
<1> QED
  BY <1>1, CallsShowWhatWasGiven, CallInvariance, PTL DEF CallsShowTheirScore

-------------------------------------------------------------------------------
(* One request at a time, the playbooks implement the catalogue.             *)

\* A request at rest knows nothing.
LEMMA IdleKnowsNothing ==
    ASSUME NEW r \in Requests, pc[r] = "idle"
    PROVE  AloneRequestInv(r)
BY DEF AloneRequestInv

\* A step of the only request keeps what it knows.
LEMMA AloneStepInv ==
    ASSUME Inv, NEW r \in Requests, AloneRequestInv(r), Step(r)
    PROVE  AloneRequestInv(r)'
<1> USE DEF Inv, TypeOK, Goto
<1>1. CASE pc'[r] = "idle"
  BY <1>1 DEF AloneRequestInv
<1>2. \A result : Answer(r, result) => pc'[r] = "idle"
  BY DEF Answer
<1>3. CASE Create(r) /\ pc'[r] # "idle"
  <2>1. input[r].op = "create" /\ Written(r) = {} /\ pc[r] = "create"
    BY <1>3 DEF Create, RequestInv
  <2>2. /\ pc' = [pc EXCEPT ![r] = IF New(input[r]).default THEN "scan" ELSE "insert"]
        /\ draft'[r] = New(input[r]) /\ input' = input /\ writes' = writes
    BY <1>2, <1>3 DEF Create, Reject
  <2>3. /\ pc'[r] \in {"scan", "insert"} /\ (pc'[r] = "insert" => ~draft'[r].default)
    BY <2>2
  <2> QED
    BY <2>1, <2>2, <2>3 DEF AloneRequestInv, Written
<1>4. CASE Get(r) /\ pc'[r] # "idle"
  <2> DEFINE merged == Merged(rows[target[r]], input[r])
  <2>1. Active(target[r]) /\ Written(r) = {} /\ pc[r] = "get"
    BY <1>2, <1>4 DEF Get, Reject, RequestInv
  <2>2. /\ pc' = [pc EXCEPT ![r] = IF merged.default THEN "scan" ELSE "write"]
        /\ draft'[r] = merged
        /\ input' = input /\ writes' = writes /\ rows' = rows /\ target' = target
    BY <1>2, <1>4 DEF Get, Reject
  <2>3. Merged(rows'[target'[r]], input'[r]) = merged
    BY <2>2
  <2> HIDE DEF merged
  <2>4. /\ pc'[r] \in {"scan", "write"} /\ (pc'[r] = "write" => ~draft'[r].default)
    BY <2>2
  <2> QED
    BY <2>1, <2>2, <2>3, <2>4 DEF AloneRequestInv, Written, Active
<1>5. CASE ScanDefaults(r)
  <2>1. /\ pc[r] = "scan" /\ pc'[r] = "unset" /\ found'[r] = Rest(r)
        /\ UNCHANGED <<rows, writes, input, draft, target>>
    BY <1>5 DEF ScanDefaults, Rest
  <2> QED
    BY <2>1 DEF AloneRequestInv, Active, Rest, ActiveBooks
<1>6. CASE UnsetDefaults(r)
  <2>1. /\ pc[r] = "unset" /\ pc'[r] \in {"insert", "write"}
        /\ Written(r)' = found[r] \cap ActiveBooks
        /\ UNCHANGED <<rows, input, draft, target>>
    BY <1>6 DEF UnsetDefaults, Written
  <2>2. draft[r].default
    BY <2>1 DEF RequestInv
  <2>3. Written(r)' = Rest(r)
    BY <2>1 DEF AloneRequestInv, Rest
  <2> QED
    BY <2>1, <2>2, <2>3 DEF AloneRequestInv, Active, Rest, ActiveBooks
<1>7. CASE Insert(r) /\ pc'[r] # "idle"
  <2>1. PICK b \in FreshBooks :
           /\ Write(r, b) /\ target' = [target EXCEPT ![r] = b]
           /\ pc' = [pc EXCEPT ![r] = "commit"]
           /\ UNCHANGED <<rows, input, draft>>
    BY <1>2, <1>7 DEF Insert, Reject
  <2>2. pc[r] = "insert" /\ input[r].op = "create" /\ b \in Books
    BY <1>7 DEF Insert, RequestInv, FreshBooks
  <2>3. Written(r)' = Written(r) \cup {b} /\ target'[r] = b
    BY <2>1, <2>2, WriteDraft
  <2>4. Rest(r)' = Rest(r)
    BY <2>1, <2>2 DEF Rest, ActiveBooks, Active
  <2> QED
    BY <2>1, <2>2, <2>3, <2>4 DEF AloneRequestInv
<1>8. CASE Update(r) /\ pc'[r] # "idle"
  <2>1. /\ Write(r, target[r]) /\ pc' = [pc EXCEPT ![r] = "commit"]
        /\ UNCHANGED <<rows, input, draft, target>>
    BY <1>2, <1>8 DEF Update, Reject
  <2>2. pc[r] = "write" /\ input[r].op = "update" /\ target[r] \in Books
    BY <1>8 DEF Update, RequestInv
  <2>3. Written(r)' = Written(r) \cup {target[r]}
    BY <2>1, <2>2, WriteDraft
  <2>4. Rest(r)' = Rest(r)
    BY <2>1, <2>2 DEF Rest, ActiveBooks, Active
  <2>5. Active(target[r])' /\ draft'[r] = Merged(rows'[target'[r]], input'[r])
    BY <2>1, <2>2 DEF AloneRequestInv, Active
  <2> QED
    BY <2>1, <2>2, <2>3, <2>4, <2>5 DEF AloneRequestInv
<1>9. CASE Commit(r) \/ Delete(r) \/ DeadlockVictim(r)
  BY <1>1, <1>2, <1>9 DEF Commit, Delete, DeadlockVictim, Reject
<1> QED
  BY <1>1, <1>3, <1>4, <1>5, <1>6, <1>7, <1>8, <1>9 DEF Step

\* A step of r is the step of a request that is being served, and moves no other.
LEMMA StepOfOne ==
    ASSUME Inv, NEW r \in Requests, Step(r)
    PROVE  /\ pc[r] # "idle" /\ alone' = alone
           /\ \A q \in Requests \ {r} : pc'[q] = pc[q]
<1>1. CASE DeadlockVictim(r)
  <2>1. PICK q \in Requests : WaitsFor(r, q)
    BY <1>1 DEF DeadlockVictim
  <2>2. pc[r] # "idle"
    BY <2>1 DEF WaitsFor, Changes
  <2> QED
    BY <1>1, <2>2 DEF DeadlockVictim, Reject, Answer, Goto, Inv, TypeOK
<1> QED
  BY <1>1 DEF Step, Create, Get, ScanDefaults, UnsetDefaults, Insert, Update, Commit,
     Delete, Reject, Answer, Goto, Inv, TypeOK

\* As long as no requests have overlapped, there is at most one, and it knows
\* what it does.
LEMMA AloneInvariant ==
    ASSUME Inv, AloneInv, [Next]_vars
    PROVE  AloneInv'
<1> USE DEF Inv, TypeOK
<1> SUFFICES ASSUME alone'
             PROVE  /\ \A q, p \in InFlight' : q = p
                    /\ \A q \in Requests : AloneRequestInv(q)'
  BY DEF AloneInv
<1>1. ASSUME NEW r \in Requests, Step(r)
      PROVE  /\ \A q, p \in InFlight' : q = p
             /\ \A q \in Requests : AloneRequestInv(q)'
  <2>1. /\ alone /\ pc[r] # "idle"
        /\ \A q \in Requests \ {r} : pc'[q] = pc[q]
    BY <1>1, StepOfOne
  <2>2. \A q \in Requests \ {r} : pc[q] = "idle"
    BY <2>1 DEF AloneInv, InFlight
  <2>3. AloneRequestInv(r)'
    BY <1>1, <2>1, AloneStepInv DEF AloneInv
  <2>4. \A q \in Requests \ {r} : AloneRequestInv(q)'
    BY <2>1, <2>2 DEF AloneRequestInv
  <2> QED
    BY <2>1, <2>2, <2>3, <2>4 DEF InFlight
<1>2. ASSUME NEW r \in Requests, NEW i \in Inputs, Arrive(r, i)
      PROVE  /\ \A q, p \in InFlight' : q = p
             /\ \A q \in Requests : AloneRequestInv(q)'
  <2>1. InFlight = {} /\ pc'[r] \in {"create", "get", "delete"}
    BY <1>2, InputTypes DEF Arrive, Goto
  <2>2. \A q \in Requests \ {r} : pc'[q] = "idle"
    BY <1>2, <2>1 DEF Arrive, Goto, InFlight
  <2>3. \A q \in Requests : AloneRequestInv(q)'
    BY <2>1, <2>2 DEF AloneRequestInv
  <2> QED
    BY <2>2, <2>3 DEF InFlight
<1>3. CASE UNCHANGED vars
  BY <1>3 DEF vars, AloneInv, InFlight, AloneRequestInv, Written, Rest, ActiveBooks, Active
<1> QED
  BY <1>1, <1>2, <1>3 DEF Next, Terminated

\* A row that a commit changes is not a deleted one.
LEMMA DeletedStays ==
    ASSUME Inv, [Next]_vars, NEW b \in Books, rows[b].state = "deleted"
    PROVE  rows'[b] = rows[b]
<1> USE DEF Inv, TypeOK
<1>1. CASE rows' = rows
  BY <1>1
<1>2. ASSUME NEW r \in Requests, Commit(r)
      PROVE  rows'[b] = rows[b]
  <2>1. b # target[r]
    BY <1>2 DEF Commit, RequestInv
  <2> QED
    BY <1>2, <2>1, CommittedRows DEF Active
<1>3. ASSUME NEW r \in Requests, Delete(r)
      PROVE  rows'[b] = rows[b]
  BY <1>3 DEF Delete, Reject, Active
<1>4. \/ rows' = rows
      \/ \E r \in Requests : Commit(r) \/ Delete(r)
  BY DEF Next, Terminated, vars, Arrive, Step, Create, Get, ScanDefaults, UnsetDefaults,
     Insert, Update, DeadlockVictim, Reject
<1> QED
  BY <1>1, <1>2, <1>3, <1>4

\* The commit of the only request is a change that the catalogue allows.
LEMMA CommitOfOne ==
    ASSUME Inv, NEW r \in Requests, AloneRequestInv(r), Commit(r)
    PROVE  Catalogue!Next /\ UpdateKeepsTheRest
<1> USE DEF Inv, TypeOK
<1> DEFINE t == target[r]
<1>1. /\ pc[r] = "commit" /\ t \in Books /\ draft[r] \in Row /\ rows[t] \in Row
      /\ draft[r].state = "active"
  BY DEF Commit, RequestInv
<1>2. /\ rows' \in [Books -> Row] /\ rows'[t] = draft[r]
      /\ \A b \in Books \ Written(r) : rows'[b] = rows[b]
      /\ \A b \in Written(r) \ {t} : rows'[b] = [rows[b] EXCEPT !.default = FALSE]
  BY CommittedRows
<1>3. Written(r) = {t} \cup (IF draft[r].default THEN Rest(r) ELSE {})
  BY <1>1 DEF AloneRequestInv
<1>4. \A k \in Books \ {t} :
         k \in Written(r) <=> draft[r].default /\ Active(k)
  BY <1>3 DEF Rest, ActiveBooks
<1>5. Catalogue!Others(t, rows'[t])
  BY <1>2, <1>4 DEF Catalogue!Others, Catalogue!Active, Active
<1>6. Catalogue!Next
  <2>1. CASE input[r].op = "create"
    <3>1. rows[t].state = "absent"
      BY <1>1, <2>1 DEF RequestInv
    <3>2. Catalogue!Create(t)
      BY <1>1, <1>2, <1>5, <3>1 DEF Catalogue!Create, Row
    <3> QED
      BY <1>1, <3>2 DEF Catalogue!Next
  <2>2. CASE input[r].op # "create"
    <3>1. rows[t].state = "active"
      BY <1>1, <2>2 DEF RequestInv
    <3>2. rows'[t] = [state |-> "active", default |-> draft[r].default,
                      name |-> draft[r].name, criteria |-> draft[r].criteria]
      BY <1>1, <1>2 DEF Row, Catalogue!Row
    <3>3. Catalogue!Change(t)
      BY <1>1, <1>5, <3>1, <3>2, RowFields DEF Catalogue!Change, Catalogue!Active
    <3> QED
      BY <1>1, <3>3 DEF Catalogue!Next
  <2> QED
    BY <2>1, <2>2
<1>7. \A q \in Requests : pc[q] = "commit" /\ pc'[q] = "idle" => q = r
  BY DEF Commit, Answer, Goto
<1>8. input[r].op = "update" =>
         /\ input[r].default = "keep" => draft[r].default = rows[t].default
         /\ input[r].name = "keep" => draft[r].name = rows[t].name
         /\ ~input[r].named => draft[r].criteria = rows[t].criteria
  BY <1>1 DEF AloneRequestInv, Merged
<1>9. UpdateKeepsTheRest
  BY <1>2, <1>7, <1>8 DEF UpdateKeepsTheRest
<1> QED
  BY <1>6, <1>9

\* So is its deletion.
LEMMA DeleteOfOne ==
    ASSUME Inv, NEW r \in Requests, Delete(r), rows' # rows
    PROVE  Catalogue!Next /\ UpdateKeepsTheRest
<1> USE DEF Inv, TypeOK
<1>1. /\ pc[r] = "delete" /\ target[r] \in Books /\ Active(target[r])
      /\ rows' = [rows EXCEPT ![target[r]].state = "deleted", ![target[r]].default = FALSE]
  BY DEF Delete, Reject
<1>2. Catalogue!Remove(target[r])
  BY <1>1 DEF Catalogue!Remove, Catalogue!Active, Active
<1>3. \A q \in Requests : pc[q] = "commit" => pc'[q] = "commit"
  BY <1>1 DEF Delete, Reject, Answer, Goto
<1> QED
  BY <1>1, <1>2, <1>3 DEF Catalogue!Next, UpdateKeepsTheRest

\* The playbooks implement the catalogue, for any number of requests and
\* playbooks: however requests interleave a deleted playbook stays deleted, and
\* as long as none overlap each change is one that the catalogue allows and
\* keeps the fields that the client did not name.
THEOREM CatalogueImplemented == Spec => ImplementsCatalogue
<1> DEFINE A == /\ \A b \in Books : rows[b].state = "deleted" => rows'[b] = rows[b]
                /\ alone' /\ rows' # rows => Catalogue!Next /\ UpdateKeepsTheRest
<1>1. ScoringInit => Catalogue!Init /\ AloneInv
  <2> SUFFICES ASSUME ScoringInit PROVE Catalogue!Init /\ AloneInv
    OBVIOUS
  <2>1. \A r \in Requests : pc[r] = "idle"
    BY DEF ScoringInit, Init
  <2> QED
    BY <2>1 DEF ScoringInit, Init, Catalogue!Init, AloneInv, InFlight, AloneRequestInv
<1>2. Inv /\ AloneInv /\ [ScoringNext]_all => AloneInv'
  BY AloneInvariant, ScoringSteps
<1>3. ASSUME Inv, AloneInv, [ScoringNext]_all
      PROVE  [A]_vars
  <2>1. [Next]_vars
    BY <1>3, ScoringSteps
  <2>2. \A b \in Books : rows[b].state = "deleted" => rows'[b] = rows[b]
    BY <1>3, <2>1, DeletedStays
  <2>3. ASSUME alone', rows' # rows
        PROVE  Catalogue!Next /\ UpdateKeepsTheRest
    <3>1. PICK r \in Requests : Step(r) /\ (Commit(r) \/ Delete(r))
      BY <2>1, <2>3 DEF Next, Terminated, vars, Arrive, Step, Create, Get, ScanDefaults,
         UnsetDefaults, Insert, Update, DeadlockVictim, Reject
    <3>2. AloneRequestInv(r)
      BY <1>3, <2>3, <3>1, StepOfOne DEF AloneInv
    <3> QED
      BY <1>3, <2>3, <3>1, <3>2, CommitOfOne, DeleteOfOne
  <2> QED
    BY <2>2, <2>3
<1> QED
  BY <1>1, <1>2, <1>3, Invariance, PTL DEF Spec, ImplementsCatalogue

===============================================================================

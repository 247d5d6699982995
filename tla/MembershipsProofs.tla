--------------------------- MODULE MembershipsProofs ---------------------------
(***************************************************************************)
(* Theorems about Memberships, for any memberships, users and requests.    *)
(***************************************************************************)
EXTENDS Memberships, TLAPS

-------------------------------------------------------------------------------
(* The inductive invariant. *)

\* The request holds this lock.
Holds(r, m, mode) == [by |-> r, row |-> m, mode |-> mode] \in locks

Written(r) == DOMAIN writes[r]

\* Row locks exclude each other.
LocksApart ==
    \A l, h \in locks : l.by # h.by /\ l.row = h.row => ~Conflicts(l.mode, h.mode)

\* What is locked exists, or is about to.
LocksHeld == \A l \in locks : Present(rows[l.row]) \/ l.row \in Written(l.by)

\* The unique key: nobody else writes a membership of a user who gets a new one.
UsersApart ==
    \A r, q \in Requests : r # q =>
        \A m \in Written(r), k \in Written(q) :
            rows[m].status = "absent" => UserOf[m] # UserOf[k]

\* A membership that is not there names no supervisor.
Vacant == \A m \in Members : ~Present(rows[m]) => rows[m].sup = NoMember

\* A transaction changes a membership that it has locked,
Known(r) ==
    /\ Present(rows[target[r]])
    /\ Holds(r, target[r], IF input[r].op = "join" THEN "update" ELSE "key")

\* or adds one for a user who has none.
Fresh(r) ==
    /\ pc[r] = "commit" /\ input[r].op = "join"
    /\ rows[target[r]].status = "absent" /\ MembershipsOf(UserOf[target[r]]) = {}
    /\ Holds(r, target[r], "key")
    /\ draft[r].status = "active" /\ draft[r].sup = NoMember
    /\ Written(r) = {target[r]}

\* The points at which a request has locked its target, and has written.
Locked == {"supervisor", "guard", "clear", "reference", "commit"}
Wrote == {"reference", "commit"}

\* The rows that refer to the target of r.
Reports(r) == {k \in Members : rows[k].sup = target[r]}

\* What the place of a request says of its transaction.
RequestInv(r) ==
    /\ pc[r] \in {"resolve", "get"} => input[r].op # "join"
    /\ pc[r] = "insert" => input[r].op = "create" /\ input[r].role # "keep"
    /\ pc[r] = "lock" /\ input[r].op # "join" => target[r] \in Members
    /\ pc[r] = "supervisor" => input[r].op = "update" /\ input[r].sup \in Members
    /\ pc[r] \notin Wrote => Written(r) = {}
    /\ pc[r] \in Locked =>
          /\ target[r] \in Members
          /\ input[r].op = "join" => UserOf[target[r]] = input[r].user
          /\ Known(r) \/ Fresh(r)
          /\ Present(draft[r]) \/ (draft[r].status = "deleted" /\ draft[r].sup = NoMember)
          /\ draft[r].status = "deleted" => input[r].op = "delete"
    /\ pc[r] \in Wrote =>
          /\ target[r] \in Written(r) /\ writes[r][target[r]] = draft[r]
          /\ draft[r].sup # NoMember => draft[r].role = "manager"
          /\ \A k \in Written(r) \ {target[r]} :
                /\ Present(rows[k]) /\ Holds(r, k, "update")
                /\ writes[r][k] = [rows[k] EXCEPT !.sup = NoMember]
          /\ draft[r].status = "deleted" => Reports(r) \subseteq Written(r)
    /\ pc[r] = "clear" /\ draft[r].status = "deleted" => Reports(r) \subseteq reports[r]
    /\ pc[r] = "reference" => draft[r].sup # NoMember
    /\ pc[r] = "commit" /\ draft[r].sup \notin {NoMember, rows[target[r]].sup} =>
          /\ Holds(r, draft[r].sup, "share")
          /\ Present(rows[draft[r].sup])

Inv ==
    /\ TypeOK /\ ReferencesHold /\ OneMembershipEach
    /\ Vacant /\ LocksApart /\ LocksHeld /\ UsersApart
    /\ \A r \in Requests : RequestInv(r)

-------------------------------------------------------------------------------
(* Inputs and rows. *)

\* What a client can ask for.
LEMMA InputTypes ==
    \A i \in Inputs :
        /\ i.op \in {"create", "update", "delete", "join"} /\ i.target \in Members
        /\ i.role \in Roles \cup {"keep"} /\ i.status \in Statuses \cup {"keep"}
        /\ i.sup \in Members \cup {"keep", "clear"}
        /\ i.op = "join" => i.role # "keep"
BY MembershipsAssumption DEF Input

\* The fields of a row, and the row without its supervisor.
LEMMA RowFields ==
    \A row \in Row :
        /\ row.role \in Roles /\ row.status \in Statuses \cup {"absent", "deleted"}
        /\ row.sup \in Members \cup {NoMember}
        /\ [row EXCEPT !.sup = NoMember] \in Row
        /\ [row EXCEPT !.sup = NoMember].sup = NoMember
        /\ [row EXCEPT !.sup = NoMember].role = row.role
        /\ [row EXCEPT !.sup = NoMember].status = row.status
BY DEF Row

\* Rows the requests make.
LEMMA NewRows ==
    /\ NoRow \in Row
    /\ [NoRow EXCEPT !.status = "deleted"] \in Row
    /\ [NoRow EXCEPT !.status = "deleted"].status = "deleted"
    /\ [NoRow EXCEPT !.status = "deleted"].sup = NoMember
    /\ \A role \in Roles :
          [role |-> role, status |-> "active", sup |-> NoMember] \in Row
BY DEF NoRow, Row, Roles, Statuses

\* Two transactions may refer to one row, but no other pair of locks goes together.
LEMMA ConflictTable ==
    /\ \A mode \in LockModes : Conflicts("key", mode) /\ Conflicts(mode, "key")
    /\ Conflicts("update", "update")
BY DEF Conflicts, LockModes

\* What a request that need not wait may lock.
LEMMA FreeLocks ==
    ASSUME TypeOK, NEW r \in Requests, Free(r), NEW w \in Wanted(r)
    PROVE  ~Blocked(locks, r, w.row, w.mode)
<1> SUFFICES ASSUME NEW l \in locks, l.by # r, l.row = w.row, Conflicts(l.mode, w.mode)
             PROVE  FALSE
  BY DEF Blocked
<1>1. l.by \in Requests
  BY DEF TypeOK
<1>2. WaitsFor(r, l.by)
  BY DEF WaitsFor, Blocked
<1> QED
  BY <1>1, <1>2 DEF Free

-------------------------------------------------------------------------------
(* What steps have in common. *)

\* The table changes only where the other requests have no say: not in what
\* they locked, nor by a reference to what they delete, nor by a membership
\* of the user to whom they give one.
Spares(r) ==
    /\ \A k \in Members : rows'[k].status = "absent" => rows[k].status = "absent"
    /\ \A q \in Requests \ {r} :
          /\ \A k \in Members :
                /\ Holds(q, k, "key") \/ Holds(q, k, "update") => rows'[k] = rows[k]
                /\ Holds(q, k, "share") /\ Present(rows[k]) => Present(rows'[k])
          /\ \A k, m \in Members :
                Holds(q, m, "key") /\ rows'[k].sup = m => rows[k].sup = m
          /\ Fresh(q) =>
                \A k \in Members : UserOf[k] = UserOf[target[q]] => ~Present(rows'[k])

\* A step of r changes nothing of the other requests.
Undisturbed(r) ==
    \A q \in Requests \ {r} :
        /\ pc'[q] = pc[q] /\ input'[q] = input[q] /\ draft'[q] = draft[q]
        /\ target'[q] = target[q] /\ reports'[q] = reports[q] /\ writes'[q] = writes[q]
        /\ \A m \in Members, mode \in LockModes : Holds(q, m, mode)' <=> Holds(q, m, mode)

\* The other requests are where they were.
LEMMA OthersWait ==
    ASSUME Inv, TypeOK', NEW r \in Requests, Undisturbed(r), Spares(r)
    PROVE  \A q \in Requests \ {r} : RequestInv(q)'
<1> TAKE q \in Requests \ {r}
<1>1. /\ pc'[q] = pc[q] /\ input'[q] = input[q] /\ draft'[q] = draft[q]
      /\ target'[q] = target[q] /\ reports'[q] = reports[q] /\ writes'[q] = writes[q]
      /\ \A m \in Members, mode \in LockModes : Holds(q, m, mode)' <=> Holds(q, m, mode)
  BY DEF Undisturbed
<1>2. /\ \A k \in Members :
            /\ Holds(q, k, "key") \/ Holds(q, k, "update") => rows'[k] = rows[k]
            /\ Holds(q, k, "share") /\ Present(rows[k]) => Present(rows'[k])
      /\ \A k, m \in Members :
            Holds(q, m, "key") /\ rows'[k].sup = m => rows[k].sup = m
      /\ Fresh(q) =>
            \A k \in Members : UserOf[k] = UserOf[target[q]] => ~Present(rows'[k])
  BY DEF Spares
<1>3. RequestInv(q) /\ TypeOK
  BY DEF Inv
<1>4. Written(q)' = Written(q) /\ Written(q) \subseteq Members
  BY <1>1, <1>3 DEF TypeOK, Written
<1>5. {"key", "update", "share"} \subseteq LockModes
  BY DEF LockModes
<1>6. pc[q] \in Locked => target[q] \in Members /\ rows'[target[q]] = rows[target[q]]
  BY <1>2, <1>3 DEF RequestInv, Known, Fresh
<1>7. pc[q] \in Locked /\ Known(q) => Known(q)'
  BY <1>1, <1>5, <1>6 DEF Known
<1>8. pc[q] \in Locked /\ Fresh(q) => Fresh(q)'
  <2> SUFFICES ASSUME pc[q] \in Locked, Fresh(q)
               PROVE  Fresh(q)'
    OBVIOUS
  <2>1. MembershipsOf(UserOf[target[q]])' = {}
    BY <1>1, <1>2 DEF MembershipsOf
  <2>2. Holds(q, target[q], "key")'
    BY <1>1, <1>5, <1>6 DEF Fresh
  <2> QED
    BY <1>1, <1>4, <1>6, <2>1, <2>2 DEF Fresh
<1>9. pc[q] \in Wrote => \A k \in Written(q) \ {target[q]} : rows'[k] = rows[k]
  BY <1>2, <1>3, <1>4 DEF RequestInv
<1>10. pc[q] \in Locked /\ draft[q].status = "deleted" => Reports(q)' \subseteq Reports(q)
  <2> SUFFICES ASSUME pc[q] \in Locked, draft[q].status = "deleted"
               PROVE  Reports(q)' \subseteq Reports(q)
    OBVIOUS
  <2>1. Holds(q, target[q], "key")
    BY <1>3 DEF RequestInv, Known, Fresh
  <2> QED
    BY <1>1, <1>2, <1>6, <2>1 DEF Reports
<1>11. pc[q] = "commit" /\ draft[q].sup \notin {NoMember, rows[target[q]].sup} =>
         /\ Holds(q, draft[q].sup, "share")'
         /\ Present(rows'[draft[q].sup])
  <2> SUFFICES ASSUME pc[q] = "commit", draft[q].sup \notin {NoMember, rows[target[q]].sup}
               PROVE  /\ Holds(q, draft[q].sup, "share")'
                      /\ Present(rows'[draft[q].sup])
    OBVIOUS
  <2>1. draft[q].sup \in Members
    BY <1>3, RowFields DEF TypeOK
  <2> QED
    BY <1>1, <1>2, <1>3, <1>5, <2>1 DEF RequestInv
<1> QED
  <2>1. Wrote \subseteq Locked /\ "clear" \in Locked /\ "commit" \in Locked
    BY DEF Wrote, Locked
  <2>2. pc[q] \in Locked =>
          /\ target[q] \in Members
          /\ input[q].op = "join" => UserOf[target[q]] = input[q].user
          /\ Known(q)' \/ Fresh(q)'
          /\ Present(draft[q]) \/ (draft[q].status = "deleted" /\ draft[q].sup = NoMember)
          /\ draft[q].status = "deleted" => input[q].op = "delete"
    BY <1>3, <1>7, <1>8 DEF RequestInv
  <2>3. pc[q] \in Wrote =>
          /\ target[q] \in Written(q) /\ writes[q][target[q]] = draft[q]
          /\ draft[q].sup # NoMember => draft[q].role = "manager"
          /\ \A k \in Written(q) \ {target[q]} :
                /\ Present(rows'[k]) /\ Holds(q, k, "update")'
                /\ writes[q][k] = [rows'[k] EXCEPT !.sup = NoMember]
          /\ draft[q].status = "deleted" => Reports(q)' \subseteq Written(q)
    BY <1>1, <1>3, <1>4, <1>5, <1>9, <1>10, <2>1 DEF RequestInv
  <2>4. pc[q] = "clear" /\ draft[q].status = "deleted" => Reports(q)' \subseteq reports[q]
    BY <1>3, <1>10, <2>1 DEF RequestInv
  <2> QED
    BY <1>1, <1>3, <1>4, <1>6, <1>11, <2>1, <2>2, <2>3, <2>4 DEF RequestInv

\* The parts of the invariant after a step of r.
LEMMA StepParts ==
    ASSUME Inv, TypeOK', ReferencesHold', OneMembershipEach', Vacant',
           NEW r \in Requests, Undisturbed(r), Spares(r), RequestInv(r)',
           LocksApart', LocksHeld', UsersApart'
    PROVE  Inv'
BY OthersWait DEF Inv

\* A request that is answered holds and has written nothing.
LEMMA FinishInv ==
    ASSUME Inv, NEW r \in Requests, NEW result \in Outcomes, Finish(r, result),
           rows' \in [Members -> Row], ReferencesHold', OneMembershipEach', Vacant',
           Spares(r)
    PROVE  Inv'
<1> USE DEF Inv
<1>1. /\ pc' = [pc EXCEPT ![r] = "idle"]
      /\ outcome' = result
      /\ writes' = [writes EXCEPT ![r] = NoWrites]
      /\ locks' = {l \in locks : l.by # r}
      /\ input' = [input EXCEPT ![r] = NoMember]
      /\ actor' = [actor EXCEPT ![r] = NoRow]
      /\ target' = [target EXCEPT ![r] = NoMember]
      /\ draft' = [draft EXCEPT ![r] = NoRow]
      /\ reports' = [reports EXCEPT ![r] = {}]
      /\ served' = served /\ alone' = alone
  BY DEF Finish, Goto, WithoutLocks
<1>2. Written(r)' = {} /\ writes'[r] = NoWrites /\ pc'[r] = "idle"
  BY <1>1 DEF TypeOK, Written, NoWrites
<1>3. TypeOK'
  <2>1. /\ DOMAIN writes' = Requests /\ DOMAIN input' = Requests
        /\ \A q \in Requests \ {r} : writes'[q] = writes[q]
    BY <1>1 DEF TypeOK
  <2>2. \A q \in Requests :
           /\ DOMAIN writes'[q] \subseteq Members
           /\ writes'[q] \in [DOMAIN writes'[q] -> Row]
    BY <1>2, <2>1 DEF TypeOK, NoWrites
  <2>3. /\ pc' \in [Requests -> Points]
        /\ \A q \in Requests : pc'[q] # "idle" => input'[q] \in Inputs
    BY <1>1 DEF TypeOK, Points
  <2>4. /\ actor' \in [Requests -> Row] /\ draft' \in [Requests -> Row]
        /\ target' \in [Requests -> Members \cup {NoMember}]
        /\ reports' \in [Requests -> SUBSET Members]
    BY <1>1, NewRows DEF TypeOK
  <2>5. locks' \subseteq [by : Requests, row : Members, mode : LockModes]
    BY <1>1 DEF TypeOK
  <2> QED
    BY <1>1, <2>1, <2>2, <2>3, <2>4, <2>5 DEF TypeOK
<1>4. Undisturbed(r)
  <2>1. \A q \in Requests \ {r}, m \in Members, mode \in LockModes :
           Holds(q, m, mode)' <=> Holds(q, m, mode)
    BY <1>1 DEF Holds
  <2> QED
    BY <1>1, <2>1 DEF Undisturbed, TypeOK
<1>5. RequestInv(r)'
  BY <1>2 DEF RequestInv, Wrote, Locked
<1>6. LocksApart'
  BY <1>1 DEF LocksApart
<1>7. LocksHeld'
  <2> SUFFICES ASSUME NEW l \in locks'
               PROVE  Present(rows'[l.row]) \/ l.row \in Written(l.by)'
    BY DEF LocksHeld
  <2>1. l \in locks /\ l.by \in Requests \ {r} /\ l.row \in Members /\ l.mode \in LockModes
    BY <1>1 DEF TypeOK
  <2>2. l = [by |-> l.by, row |-> l.row, mode |-> l.mode]
    BY <2>1 DEF TypeOK
  <2>3. Holds(l.by, l.row, l.mode)
    BY <2>1, <2>2 DEF Holds
  <2>4. Written(l.by)' = Written(l.by)
    BY <1>1, <2>1 DEF Written, TypeOK
  <2>5. Present(rows[l.row]) => Present(rows'[l.row])
    BY <2>1, <2>3 DEF Spares, LockModes
  <2> QED
    BY <2>1, <2>4, <2>5 DEF LocksHeld
<1>8. UsersApart'
  <2>1. \A q \in Requests \ {r} : Written(q)' = Written(q)
    BY <1>1 DEF Written, TypeOK
  <2>2. \A q \in Requests : Written(q) \subseteq Members
    BY DEF Written, TypeOK
  <2> QED
    BY <1>2, <2>1, <2>2 DEF UsersApart, Spares
<1> QED
  BY <1>3, <1>4, <1>5, <1>6, <1>7, <1>8, StepParts

\* A rejected request has changed nothing.
LEMMA RejectInv ==
    ASSUME Inv, NEW r \in Requests, NEW result \in Outcomes, Reject(r, result)
    PROVE  Inv'
<1>1. Finish(r, result) /\ rows' = rows
  BY DEF Reject
<1>2. ReferencesHold' /\ OneMembershipEach' /\ Vacant'
  BY <1>1 DEF Inv, ReferencesHold, OneMembershipEach, Vacant
<1>3. Spares(r)
  BY <1>1 DEF Spares, Fresh, MembershipsOf
<1> QED
  BY <1>1, <1>2, <1>3, FinishInv DEF Inv, TypeOK

\* A step that leaves the table alone, and locks what it may.
LEMMA LockStep ==
    ASSUME Inv, TypeOK', NEW r \in Requests, NEW S \in SUBSET Members, NEW mode \in LockModes,
           rows' = rows, locks' = WithLocks(locks, r, S, mode),
           \A q \in Requests \ {r} :
              /\ pc'[q] = pc[q] /\ input'[q] = input[q] /\ draft'[q] = draft[q]
              /\ target'[q] = target[q] /\ reports'[q] = reports[q]
              /\ writes'[q] = writes[q],
           RequestInv(r)', Written(r) \subseteq Written(r)',
           \A k \in S : /\ ~Blocked(locks, r, k, mode)
                        /\ Present(rows[k]) \/ k \in Written(r)',
           \A q \in Requests \ {r} : \A m \in Written(r)', k \in Written(q) :
              "absent" \in {rows[m].status, rows[k].status} => UserOf[m] # UserOf[k]
    PROVE  Inv'
<1> USE DEF Inv
<1>1. \A l \in locks' : l \in locks \/ (l.by = r /\ l.row \in S /\ l.mode = mode)
  BY DEF WithLocks
<1>2. locks \subseteq locks'
  BY DEF WithLocks
<1>3. ReferencesHold' /\ OneMembershipEach' /\ Vacant'
  BY DEF ReferencesHold, OneMembershipEach, Vacant
<1>4. Spares(r)
  BY DEF Spares, Fresh, MembershipsOf
<1>5. \A q \in Requests \ {r} : Written(q)' = Written(q)
  BY DEF Written
<1>6. Undisturbed(r)
  <2>1. \A q \in Requests \ {r}, m \in Members, md \in LockModes :
           Holds(q, m, md)' <=> Holds(q, m, md)
    BY <1>1, <1>2 DEF Holds
  <2> QED
    BY <2>1 DEF Undisturbed
<1>7. LocksApart'
  <2> SUFFICES ASSUME NEW l \in locks', NEW h \in locks', l.by # h.by, l.row = h.row,
                      Conflicts(l.mode, h.mode)
               PROVE  FALSE
    BY DEF LocksApart
  <2>1. CASE l \in locks /\ h \in locks
    BY <2>1 DEF LocksApart
  <2>2. CASE h.by = r /\ h.row \in S /\ h.mode = mode /\ l \in locks
    BY <2>2 DEF Blocked
  <2>3. CASE l.by = r /\ l.row \in S /\ l.mode = mode /\ h \in locks
    <3>1. Conflicts(h.mode, l.mode)
      BY DEF Conflicts
    <3> QED
      BY <2>3, <3>1 DEF Blocked
  <2> QED
    BY <1>1, <2>1, <2>2, <2>3
<1>8. LocksHeld'
  <2> SUFFICES ASSUME NEW l \in locks'
               PROVE  Present(rows[l.row]) \/ l.row \in Written(l.by)'
    BY DEF LocksHeld
  <2>1. l.by \in Requests
    BY DEF TypeOK
  <2> QED
    BY <1>1, <1>5, <2>1 DEF LocksHeld
<1>9. UsersApart'
  <2> SUFFICES ASSUME NEW p \in Requests, NEW q \in Requests, p # q,
                      NEW m \in Written(p)', NEW k \in Written(q)',
                      rows[m].status = "absent"
               PROVE  UserOf[m] # UserOf[k]
    BY DEF UsersApart
  <2>1. CASE p # r /\ q # r
    BY <1>5, <2>1 DEF UsersApart
  <2>2. CASE p = r
    BY <1>5, <2>2
  <2>3. CASE q = r
    <3>1. m \in Written(p)
      BY <1>5, <2>3
    <3> QED
      BY <2>3, <3>1
  <2> QED
    BY <2>1, <2>2, <2>3
<1> QED
  BY <1>3, <1>4, <1>6, <1>7, <1>8, <1>9, StepParts

\* A step that neither locks nor writes.
LEMMA QuietStep ==
    ASSUME Inv, TypeOK', NEW r \in Requests,
           rows' = rows, locks' = locks, writes' = writes,
           \A q \in Requests \ {r} :
              /\ pc'[q] = pc[q] /\ input'[q] = input[q] /\ draft'[q] = draft[q]
              /\ target'[q] = target[q] /\ reports'[q] = reports[q],
           RequestInv(r)'
    PROVE  Inv'
<1>1. locks' = WithLocks(locks, r, {}, "key")
  BY DEF WithLocks
<1>2. Written(r)' = Written(r)
  BY DEF Written
<1>3. \A q \in Requests \ {r} : \A m \in Written(r)', k \in Written(q) :
         "absent" \in {rows[m].status, rows[k].status} => UserOf[m] # UserOf[k]
  BY <1>2 DEF Inv, UsersApart
<1>4. "key" \in LockModes /\ {} \in SUBSET Members
  BY DEF LockModes
<1> QED
  BY <1>1, <1>2, <1>3, <1>4, LockStep
-------------------------------------------------------------------------------
(* The steps of a request. *)

\* A request starts: an acceptance at its upsert, the others with their actor.
LEMMA ArriveInv ==
    ASSUME Inv, NEW r \in Requests, NEW i \in Inputs, Arrive(r, i)
    PROVE  Inv'
<1> USE DEF Inv
<1> DEFINE point == IF i.op = "join" THEN "lock" ELSE "resolve"
<1>1. /\ pc[r] = "idle" /\ pc' = [pc EXCEPT ![r] = point]
      /\ input' = [input EXCEPT ![r] = i]
      /\ served' = served + 1 /\ alone' = (alone /\ InFlight = {}) /\ outcome' = "none"
      /\ UNCHANGED <<rows, locks, writes, actor, target, draft, reports>>
  BY DEF Arrive, Goto
<1>2. /\ point \in {"lock", "resolve"}
      /\ point = "lock" <=> i.op = "join"
  OBVIOUS
<1> HIDE DEF point
<1>3. served' \in 0..MaxRequests
  <2>1. served < MaxRequests
    BY DEF Arrive
  <2> QED
    BY <1>1, <2>1, MembershipsAssumption DEF TypeOK
<1>4. TypeOK'
  <2>1. alone' \in BOOLEAN
    BY <1>1
  <2>2. pc' \in [Requests -> Points]
    BY <1>1, <1>2 DEF TypeOK, Points
  <2>3. /\ DOMAIN input' = Requests
        /\ \A q \in Requests : pc'[q] # "idle" => input'[q] \in Inputs
    BY <1>1, <1>2 DEF TypeOK
  <2>4. outcome' \in Outcomes
    BY <1>1 DEF Outcomes
  <2> QED
    BY <1>1, <1>3, <2>1, <2>2, <2>3, <2>4 DEF TypeOK
<1>5. pc'[r] = point /\ input'[r] = i
  BY <1>1 DEF TypeOK
<1>6. Written(r)' = {}
  BY <1>1 DEF RequestInv, Written, Wrote
<1>7. RequestInv(r)'
  BY <1>2, <1>5, <1>6 DEF RequestInv, Locked, Wrote
<1> QED
  BY <1>1, <1>4, <1>7, QuietStep DEF TypeOK

\* The membership of the actor is read.
LEMMA ResolveInv ==
    ASSUME Inv, NEW r \in Requests, ResolveActor(r)
    PROVE  Inv'
<1> USE DEF Inv
<1>1. CASE Reject(r, "refused")
  BY <1>1, RejectInv DEF Outcomes
<1>2. CASE \E m \in MembershipsOf(input[r].by) :
             /\ MayAct(rows[m], input[r])
             /\ actor' = [actor EXCEPT ![r] = rows[m]]
             /\ Goto(r, IF input[r].op = "create" THEN "insert" ELSE "get")
             /\ UNCHANGED <<rows, locks, writes, input, target, draft, reports, outcome, served, alone>>
  <2> DEFINE point == IF input[r].op = "create" THEN "insert" ELSE "get"
  <2>1. PICK m \in MembershipsOf(input[r].by) :
           /\ MayAct(rows[m], input[r])
           /\ actor' = [actor EXCEPT ![r] = rows[m]]
           /\ pc' = [pc EXCEPT ![r] = point]
           /\ UNCHANGED <<rows, locks, writes, input, target, draft, reports, outcome, served, alone>>
    BY <1>2 DEF Goto
  <2>2. /\ point \in {"insert", "get"}
        /\ point = "insert" => input[r].op = "create"
        /\ point = "get" => input[r].op # "create"
    OBVIOUS
  <2> HIDE DEF point
  <2>3. pc[r] = "resolve" /\ m \in Members
    BY DEF ResolveActor, MembershipsOf
  <2>4. TypeOK'
    BY <2>1, <2>2, <2>3 DEF TypeOK, Points
  <2>5. pc'[r] = point
    BY <2>1 DEF TypeOK
  <2>6. RequestInv(r)'
    <3>1. Written(r)' = {}
      BY <2>1, <2>3 DEF RequestInv, Written, Wrote
    <3>2. input[r].op # "join"
      BY <2>3 DEF RequestInv
    <3> QED
      BY <2>1, <2>2, <2>5, <3>1, <3>2 DEF RequestInv, Locked, Wrote, MayAct
  <2> QED
    BY <2>1, <2>4, <2>6, QuietStep DEF TypeOK
<1> QED
  BY <1>1, <1>2 DEF ResolveActor

\* The membership to change is read, without a lock.
LEMMA GetInv ==
    ASSUME Inv, NEW r \in Requests, GetTarget(r)
    PROVE  Inv'
<1> USE DEF Inv
<1> DEFINE m == input[r].target
<1>1. CASE Reject(r, "refused")
  BY <1>1, RejectInv DEF Outcomes
<1>2. CASE Reject(r, "not found")
  BY <1>2, RejectInv DEF Outcomes
<1>3. CASE /\ target' = [target EXCEPT ![r] = m]
           /\ Goto(r, "lock")
           /\ UNCHANGED <<rows, locks, writes, input, actor, draft, reports, outcome, served, alone>>
  <2>1. pc[r] = "get" /\ pc' = [pc EXCEPT ![r] = "lock"]
    BY <1>3 DEF GetTarget, Goto
  <2>2. m \in Members
    BY <2>1, InputTypes DEF TypeOK
  <2>3. TypeOK'
    BY <1>3, <2>1, <2>2 DEF TypeOK, Points
  <2>4. pc'[r] = "lock" /\ target'[r] = m
    BY <1>3, <2>1 DEF TypeOK
  <2>5. RequestInv(r)'
    <3>1. Written(r)' = {}
      BY <1>3, <2>1 DEF RequestInv, Written, Wrote
    <3> QED
      BY <2>1, <2>2, <2>4, <3>1 DEF RequestInv, Locked, Wrote
  <2> QED
    BY <1>3, <2>1, <2>3, <2>5, QuietStep DEF TypeOK
<1> QED
  BY <1>1, <1>2, <1>3 DEF GetTarget

\* The supervisor named in an update is looked up, and the draft completed.
LEMMA CheckSupervisorInv ==
    ASSUME Inv, NEW r \in Requests, CheckSupervisor(r)
    PROVE  Inv'
<1> USE DEF Inv
<1> DEFINE row == OnlyManagersReport([draft[r] EXCEPT !.sup = input[r].sup])
<1>1. CASE Reject(r, "invalid supervisor")
  BY <1>1, RejectInv DEF Outcomes
<1>2. CASE /\ draft' = [draft EXCEPT ![r] = row]
           /\ Goto(r, "guard")
           /\ UNCHANGED <<rows, locks, writes, input, actor, target, reports, outcome, served, alone>>
  <2>1. pc[r] = "supervisor" /\ pc' = [pc EXCEPT ![r] = "guard"]
    BY <1>2 DEF CheckSupervisor, Goto
  <2>2. input[r].sup \in Members /\ draft[r] \in Row /\ input[r].op = "update"
    BY <2>1 DEF RequestInv, TypeOK
  <2>3. row \in Row /\ row.status = draft[r].status
    BY <2>2 DEF OnlyManagersReport, Row
  <2> HIDE DEF row
  <2>4. TypeOK'
    BY <1>2, <2>1, <2>3 DEF TypeOK, Points
  <2>5. pc'[r] = "guard" /\ draft'[r] = row
    BY <1>2, <2>1 DEF TypeOK
  <2>6. Written(r)' = {}
    BY <1>2, <2>1 DEF RequestInv, Written, Wrote
  <2>7. Known(r) /\ target[r] \in Members /\ Present(draft[r])
    BY <2>1, <2>2 DEF RequestInv, Locked, Fresh
  <2>8. Known(r)' /\ Present(row)
    BY <1>2, <2>3, <2>7 DEF Known, Holds, Present
  <2>9. RequestInv(r)'
    BY <1>2, <2>2, <2>3, <2>5, <2>6, <2>7, <2>8 DEF RequestInv, Locked, Wrote, Present, Statuses
  <2> QED
    BY <1>2, <2>1, <2>4, <2>9, QuietStep DEF TypeOK
<1> QED
  BY <1>1, <1>2 DEF CheckSupervisor

\* The first trigger lets the row pass, and the rows to clear are chosen.
LEMMA GuardInv ==
    ASSUME Inv, NEW r \in Requests, Guard(r)
    PROVE  Inv'
<1> USE DEF Inv
<1> DEFINE freed == Cleared(target[r], draft[r])
<1>1. CASE Reject(r, "raised")
  BY <1>1, RejectInv DEF Outcomes
<1>2. CASE /\ reports' = [reports EXCEPT ![r] = freed]
           /\ Goto(r, "clear")
           /\ UNCHANGED <<rows, locks, writes, input, actor, target, draft, outcome, served, alone>>
  <2>1. pc[r] = "guard" /\ pc' = [pc EXCEPT ![r] = "clear"]
    BY <1>2 DEF Guard, Goto
  <2>2. freed \subseteq Members
    BY DEF Cleared
  <2>3. draft[r].status = "deleted" => Reports(r) \subseteq freed
    BY DEF Cleared, Reports
  <2> HIDE DEF freed
  <2>4. TypeOK'
    BY <1>2, <2>1, <2>2 DEF TypeOK, Points
  <2>5. pc'[r] = "clear" /\ reports'[r] = freed
    BY <1>2, <2>1 DEF TypeOK
  <2>6. Written(r)' = {}
    BY <1>2, <2>1 DEF RequestInv, Written, Wrote
  <2>7. Known(r)' /\ Reports(r)' = Reports(r)
    BY <1>2, <2>1 DEF RequestInv, Locked, Fresh, Known, Holds, Reports
  <2>8. RequestInv(r)'
    BY <1>2, <2>1, <2>3, <2>5, <2>6, <2>7 DEF RequestInv, Locked, Wrote
  <2> QED
    BY <1>2, <2>1, <2>4, <2>8, QuietStep DEF TypeOK
<1> QED
  BY <1>1, <1>2 DEF Guard
\* The row as it will be after the fields of the request.
LEMMA MergedRow ==
    ASSUME NEW row \in Row, Present(row), NEW i \in Inputs
    PROVE  /\ Merged(row, i) \in Row /\ Present(Merged(row, i))
           /\ OnlyManagersReport(Merged(row, i)) \in Row
           /\ Present(OnlyManagersReport(Merged(row, i)))
<1>1. Merged(row, i) \in Row /\ Present(Merged(row, i))
  BY InputTypes DEF Merged, Row, Present
<1>2. \A x \in Row : OnlyManagersReport(x) \in Row /\ OnlyManagersReport(x).status = x.status
  BY RowFields DEF OnlyManagersReport
<1> QED
  BY <1>1, <1>2 DEF Present

\* The target is locked, and read again.
LEMMA LockTargetInv ==
    ASSUME Inv, NEW r \in Requests, LockTarget(r)
    PROVE  Inv'
<1> USE DEF Inv
<1> DEFINE m == target[r]
<1>1. CASE Reject(r, "not found")
  BY <1>1, RejectInv DEF Outcomes
<1>2. ASSUME NEW row \in Row, NEW point \in {"guard", "supervisor"},
             Present(rows[m]), locks' = WithLocks(locks, r, {m}, "key"),
             pc' = [pc EXCEPT ![r] = point],
             draft' = [draft EXCEPT ![r] = row],
             UNCHANGED <<rows, writes, input, actor, target, reports, outcome, served, alone>>,
             \/ input[r].op = "delete" /\ row.status = "deleted" /\ row.sup = NoMember
             \/ input[r].op = "update" /\ Present(row),
             point = "supervisor" => input[r].op = "update" /\ input[r].sup \in Members
      PROVE  Inv'
  <2>1. pc[r] = "lock" /\ Free(r) /\ input[r].op \in {"update", "delete"}
    BY DEF LockTarget
  <2>2. m \in Members
    BY <2>1 DEF RequestInv
  <2>3. ~Blocked(locks, r, m, "key")
    <3>1. [row |-> m, mode |-> "key"] \in Wanted(r)
      BY <2>1 DEF Wanted
    <3> QED
      BY <2>1, <3>1, FreeLocks
  <2>4. TypeOK'
    <3>1. locks' \subseteq [by : Requests, row : Members, mode : LockModes]
      BY <1>2, <2>2 DEF TypeOK, WithLocks, LockModes
    <3>2. pc' \in [Requests -> Points] /\ draft' \in [Requests -> Row]
      BY <1>2 DEF TypeOK, Points
    <3>3. \A q \in Requests : pc'[q] # "idle" => input'[q] \in Inputs
      BY <1>2, <2>1 DEF TypeOK
    <3> QED
      BY <1>2, <3>1, <3>2, <3>3 DEF TypeOK
  <2>5. pc'[r] = point /\ draft'[r] = row
    BY <1>2 DEF TypeOK
  <2>6. Written(r) = {} /\ Written(r)' = {}
    BY <1>2, <2>1 DEF RequestInv, Written, Wrote
  <2>7. Holds(r, m, "key")'
    BY <1>2 DEF Holds, WithLocks
  <2>8. Known(r)'
    BY <1>2, <2>1, <2>7 DEF Known
  <2>9. RequestInv(r)'
    BY <1>2, <2>1, <2>2, <2>5, <2>6, <2>8 DEF RequestInv, Locked, Wrote, Present, Statuses
  <2>10. {m} \in SUBSET Members /\ "key" \in LockModes
    BY <2>2 DEF LockModes
  <2>11. \A q \in Requests \ {r} :
            /\ pc'[q] = pc[q] /\ input'[q] = input[q] /\ draft'[q] = draft[q]
            /\ target'[q] = target[q] /\ reports'[q] = reports[q]
            /\ writes'[q] = writes[q]
    BY <1>2 DEF TypeOK
  <2>12. rows' = rows /\ locks' = WithLocks(locks, r, {m}, "key")
    BY <1>2
  <2> HIDE DEF m
  <2> QED
    BY <1>2, <2>3, <2>4, <2>6, <2>9, <2>10, <2>11, <2>12, LockStep
<1>3. ASSUME Present(rows[m]), locks' = WithLocks(locks, r, {m}, "key"),
             UNCHANGED <<rows, writes, input, actor, target, reports, outcome, served, alone>>
      PROVE  /\ input[r].op = "delete"
             /\ draft' = [draft EXCEPT ![r] = [NoRow EXCEPT !.status = "deleted"]]
             /\ Goto(r, "guard")
             => Inv'
  BY <1>2, <1>3, NewRows DEF Goto
<1>4. LockTarget(r) /\ Present(rows[m]) => rows[m] \in Row /\ input[r] \in Inputs
  BY DEF LockTarget, TypeOK, RequestInv
<1>5. ASSUME Present(rows[m]), locks' = WithLocks(locks, r, {m}, "key"),
             UNCHANGED <<rows, writes, input, actor, target, reports, outcome, served, alone>>
      PROVE  /\ input[r].op = "update" /\ input[r].sup \in Members
             /\ draft' = [draft EXCEPT ![r] = Merged(rows[m], input[r])]
             /\ Goto(r, "supervisor")
             => Inv'
  BY <1>2, <1>4, <1>5, MergedRow DEF Goto
<1>6. ASSUME Present(rows[m]), locks' = WithLocks(locks, r, {m}, "key"),
             UNCHANGED <<rows, writes, input, actor, target, reports, outcome, served, alone>>
      PROVE  /\ input[r].op = "update" /\ input[r].sup \notin Members
             /\ draft' = [draft EXCEPT ![r] = OnlyManagersReport(Merged(rows[m], input[r]))]
             /\ Goto(r, "guard")
             => Inv'
  BY <1>2, <1>4, <1>6, MergedRow DEF Goto
<1> QED
  BY <1>1, <1>3, <1>5, <1>6 DEF LockTarget

\* An acceptance adds a membership, or locks the one its user has.
LEMMA JoinInv ==
    ASSUME Inv, NEW r \in Requests, Join(r)
    PROVE  Inv'
<1> USE DEF Inv
<1> DEFINE u == input[r].user
<1>1. /\ pc[r] = "lock" /\ input[r].op = "join" /\ input[r] \in Inputs
      /\ UNCHANGED <<rows, input, actor, reports, outcome, served, alone>>
  BY DEF Join, TypeOK
<1>2. input[r].role \in Roles
  BY <1>1, InputTypes
<1>3. Written(r) = {} /\ writes[r] \in [{} -> Row]
  BY <1>1 DEF RequestInv, Wrote, Written, TypeOK
<1>4. CASE \E m \in MembershipsOf(u) :
              /\ Free(r)
              /\ target' = [target EXCEPT ![r] = m]
              /\ draft' = [draft EXCEPT ![r] =
                    [rows[m] EXCEPT !.role = input[r].role, !.status = "active"]]
              /\ locks' = WithLocks(locks, r, {m}, "update")
              /\ Goto(r, "guard")
              /\ UNCHANGED writes
  <2>1. PICK m \in MembershipsOf(u) :
              /\ Free(r)
              /\ target' = [target EXCEPT ![r] = m]
              /\ draft' = [draft EXCEPT ![r] =
                    [rows[m] EXCEPT !.role = input[r].role, !.status = "active"]]
              /\ locks' = WithLocks(locks, r, {m}, "update")
              /\ pc' = [pc EXCEPT ![r] = "guard"]
              /\ writes' = writes
    BY <1>4 DEF Goto
  <2> DEFINE row == [rows[m] EXCEPT !.role = input[r].role, !.status = "active"]
  <2>0. draft' = [draft EXCEPT ![r] = row]
    BY <2>1
  <2>2. m \in Members /\ UserOf[m] = u /\ Present(rows[m])
    BY DEF MembershipsOf
  <2>3. row \in Row /\ row.status = "active"
    <3>1. rows[m] \in Row
      BY <2>2 DEF TypeOK
    <3> QED
      BY <1>2, <3>1 DEF Row, Statuses
  <2> HIDE DEF row
  <2>4. ~Blocked(locks, r, m, "update")
    <3>1. [row |-> m, mode |-> "update"] \in Wanted(r)
      BY <1>1 DEF Wanted
    <3> QED
      BY <2>1, <3>1, FreeLocks
  <2>5. TypeOK'
    <3>1. locks' \subseteq [by : Requests, row : Members, mode : LockModes]
      BY <2>1, <2>2 DEF TypeOK, WithLocks, LockModes
    <3>2. /\ pc' \in [Requests -> Points] /\ draft' \in [Requests -> Row]
          /\ target' \in [Requests -> Members \cup {NoMember}]
      BY <2>0, <2>1, <2>2, <2>3 DEF TypeOK, Points
    <3>3. \A q \in Requests : pc'[q] # "idle" => input'[q] \in Inputs
      BY <1>1, <2>1 DEF TypeOK
    <3> QED
      BY <1>1, <2>1, <3>1, <3>2, <3>3 DEF TypeOK
  <2>6. pc'[r] = "guard" /\ draft'[r] = row /\ target'[r] = m
    BY <2>0, <2>1 DEF TypeOK
  <2>7. Written(r)' = {}
    BY <1>3, <2>1 DEF Written
  <2>8. Holds(r, m, "update")'
    BY <2>1 DEF Holds, WithLocks
  <2>9. Known(r)'
    BY <1>1, <2>2, <2>6, <2>8 DEF Known
  <2>10. RequestInv(r)'
    BY <1>1, <2>2, <2>3, <2>6, <2>7, <2>9 DEF RequestInv, Locked, Wrote, Present, Statuses
  <2>11. {m} \in SUBSET Members /\ "update" \in LockModes
    BY <2>2 DEF LockModes
  <2>12. \A q \in Requests \ {r} :
            /\ pc'[q] = pc[q] /\ input'[q] = input[q] /\ draft'[q] = draft[q]
            /\ target'[q] = target[q] /\ reports'[q] = reports[q]
            /\ writes'[q] = writes[q]
    BY <1>1, <2>0, <2>1 DEF TypeOK
  <2> QED
    BY <1>1, <1>3, <2>1, <2>2, <2>4, <2>5, <2>7, <2>10, <2>11, <2>12, LockStep
<1>5. CASE /\ MembershipsOf(u) = {}
           /\ UserFree(u)
           /\ \E m \in Members :
                 /\ UserOf[m] = u /\ rows[m].status = "absent"
                 /\ target' = [target EXCEPT ![r] = m]
                 /\ draft' = [draft EXCEPT ![r] =
                       [role |-> input[r].role, status |-> "active", sup |-> NoMember]]
                 /\ writes' = [writes EXCEPT ![r] = [k \in {m} |-> draft'[r]]]
                 /\ locks' = WithLocks(locks, r, {m}, "key")
           /\ Goto(r, "commit")
  <2> DEFINE row == [role |-> input[r].role, status |-> "active", sup |-> NoMember]
  <2>1. PICK m \in Members :
              /\ UserOf[m] = u /\ rows[m].status = "absent"
              /\ target' = [target EXCEPT ![r] = m]
              /\ draft' = [draft EXCEPT ![r] = row]
              /\ writes' = [writes EXCEPT ![r] = [k \in {m} |-> draft'[r]]]
              /\ locks' = WithLocks(locks, r, {m}, "key")
    BY <1>5
  <2>2. pc' = [pc EXCEPT ![r] = "commit"]
    BY <1>5 DEF Goto
  <2>3. row \in Row /\ row.status = "active" /\ row.sup = NoMember
    BY <1>2, NewRows
  <2> HIDE DEF row
  <2>4. pc'[r] = "commit" /\ draft'[r] = row /\ target'[r] = m
    BY <2>1, <2>2 DEF TypeOK
  <2>5. /\ writes'[r] = [k \in {m} |-> row] /\ Written(r)' = {m} /\ writes'[r][m] = row
        /\ \A q \in Requests \ {r} : writes'[q] = writes[q]
    BY <2>1, <2>4 DEF TypeOK, Written
  <2>6. TypeOK'
    <3>1. locks' \subseteq [by : Requests, row : Members, mode : LockModes]
      BY <2>1 DEF TypeOK, WithLocks, LockModes
    <3>2. DOMAIN writes' = Requests
      BY <2>1 DEF TypeOK
    <3>3. \A q \in Requests :
           /\ DOMAIN writes'[q] \subseteq Members
           /\ writes'[q] \in [DOMAIN writes'[q] -> Row]
      BY <2>3, <2>5 DEF TypeOK
    <3> QED
      BY <1>1, <2>1, <2>2, <2>3, <3>1, <3>2, <3>3 DEF TypeOK, Points
  <2>7. Holds(r, m, "key")'
    BY <2>1 DEF Holds, WithLocks
  <2>8. MembershipsOf(UserOf[m])' = {} /\ MembershipsOf(UserOf[m]) = {}
    BY <1>1, <1>5, <2>1 DEF MembershipsOf
  <2>9. Fresh(r)'
    BY <1>1, <2>1, <2>3, <2>4, <2>5, <2>7, <2>8 DEF Fresh
  <2>10. RequestInv(r)'
    <3>1. Present(row) /\ row.status # "deleted"
      BY <2>3 DEF Present, Statuses
    <3> QED
      BY <1>1, <2>1, <2>3, <2>4, <2>5, <2>9, <3>1 DEF RequestInv, Locked, Wrote
  <2>11. ~Blocked(locks, r, m, "key")
    <3> SUFFICES ASSUME NEW l \in locks, l.by # r, l.row = m
                 PROVE  FALSE
      BY DEF Blocked
    <3>1. l.by \in Requests /\ m \in Written(l.by)
      BY <2>1 DEF LocksHeld, TypeOK, Present, Statuses
    <3> QED
      BY <1>5, <2>1, <3>1 DEF UserFree, Written
  <2>12. \A q \in Requests \ {r}, k \in Members : k \in Written(q) => UserOf[m] # UserOf[k]
    BY <1>5, <2>1 DEF UserFree, Written
  <2>13. {m} \in SUBSET Members /\ "key" \in LockModes
    BY DEF LockModes
  <2>14. \A q \in Requests : Written(q) \subseteq Members
    BY DEF Written, TypeOK
  <2>15. \A q \in Requests \ {r} :
            /\ pc'[q] = pc[q] /\ input'[q] = input[q] /\ draft'[q] = draft[q]
            /\ target'[q] = target[q] /\ reports'[q] = reports[q]
            /\ writes'[q] = writes[q]
    BY <1>1, <2>1, <2>2, <2>5 DEF TypeOK
  <2>16. \A k \in {m} : ~Blocked(locks, r, k, "key") /\ k \in Written(r)'
    BY <2>5, <2>11
  <2>17. \A q \in Requests \ {r} : \A x \in Written(r)', k \in Written(q) :
            "absent" \in {rows[x].status, rows[k].status} => UserOf[x] # UserOf[k]
    BY <2>5, <2>12, <2>14
  <2>18. Written(r) \subseteq Written(r)' /\ rows' = rows
    BY <1>1, <1>3
  <2>19. locks' = WithLocks(locks, r, {m}, "key")
    BY <2>1
  <2> QED
    BY <2>6, <2>10, <2>13, <2>15, <2>16, <2>17, <2>18, <2>19, LockStep
<1> QED
  BY <1>4, <1>5 DEF Join
\* The reports are locked, and the transaction writes them and its target.
LEMMA ClearInv ==
    ASSUME Inv, NEW r \in Requests, ClearReports(r)
    PROVE  Inv'
<1> USE DEF Inv
<1> DEFINE m == target[r]
           row == draft[r]
           freed == {k \in reports[r] : rows[k].sup = m}
           point == IF row.sup \in {NoMember, rows[m].sup} THEN "commit" ELSE "reference"
           changes == [k \in freed \cup {m} |->
                          IF k = m THEN row ELSE [rows[k] EXCEPT !.sup = NoMember]]
<1>1. CASE Reject(r, "raised")
  BY <1>1, RejectInv DEF Outcomes
<1>2. CASE /\ ValidSupervisor(row)
           /\ writes' = [writes EXCEPT ![r] = changes]
           /\ locks' = WithLocks(locks, r, freed, "update")
           /\ Goto(r, point)
           /\ UNCHANGED <<rows, input, actor, target, draft, reports, outcome, served, alone>>
  <2>1. pc[r] = "clear" /\ Free(r) /\ pc' = [pc EXCEPT ![r] = point]
    BY <1>2 DEF ClearReports, Goto
  <2>2. /\ m \in Members /\ Known(r)
        /\ Present(row) \/ (row.status = "deleted" /\ row.sup = NoMember)
        /\ row.status = "deleted" => input[r].op = "delete" /\ Reports(r) \subseteq reports[r]
        /\ input[r].op = "join" => UserOf[m] = input[r].user
        /\ Written(r) = {}
    BY <2>1 DEF RequestInv, Locked, Wrote, Fresh
  <2>3. reports[r] \subseteq Members /\ freed \subseteq Members /\ row \in Row
    BY DEF TypeOK
  <2>4. \A k \in freed : Present(rows[k])
    BY <2>2, <2>3, NoMemberAssumption DEF Vacant
  <2>5. \A k \in freed : ~Blocked(locks, r, k, "update")
    <3> TAKE k \in freed
    <3>1. [row |-> k, mode |-> "update"] \in Wanted(r)
      BY <2>1 DEF Wanted
    <3> QED
      BY <2>1, <3>1, FreeLocks
  <2>6. changes \in [freed \cup {m} -> Row]
    BY <2>2, <2>3, RowFields DEF TypeOK
  <2>7. /\ changes[m] = row
        /\ \A k \in freed \ {m} : changes[k] = [rows[k] EXCEPT !.sup = NoMember]
        /\ DOMAIN changes = freed \cup {m}
    OBVIOUS
  <2>8. /\ row.status = "deleted" => Reports(r) \subseteq freed
        /\ \A k \in freed : k \in reports[r]
    BY <2>2 DEF Reports
  <2>9. /\ point \in {"commit", "reference"}
        /\ point = "commit" => row.sup \in {NoMember, rows[m].sup}
        /\ point = "reference" => row.sup # NoMember
    OBVIOUS
  <2> HIDE DEF m, row, freed, point, changes
  <2>10. /\ writes'[r] = changes /\ Written(r)' = freed \cup {m}
         /\ \A q \in Requests \ {r} : writes'[q] = writes[q]
    BY <1>2, <2>7 DEF TypeOK, Written
  <2>11. TypeOK'
    <3>1. locks' \subseteq [by : Requests, row : Members, mode : LockModes]
      BY <1>2, <2>3 DEF TypeOK, WithLocks, LockModes
    <3>2. DOMAIN writes' = Requests
      BY <1>2 DEF TypeOK
    <3>3. \A q \in Requests :
             /\ DOMAIN writes'[q] \subseteq Members
             /\ writes'[q] \in [DOMAIN writes'[q] -> Row]
      BY <2>2, <2>3, <2>6, <2>7, <2>10 DEF TypeOK
    <3>4. pc' \in [Requests -> Points]
      BY <2>1, <2>9 DEF TypeOK, Points
    <3>5. \A q \in Requests : pc'[q] # "idle" => input'[q] \in Inputs
      BY <1>2, <2>1 DEF TypeOK
    <3> QED
      BY <1>2, <3>1, <3>2, <3>3, <3>4, <3>5 DEF TypeOK
  <2>12. /\ pc'[r] = point /\ rows' = rows /\ target'[r] = m /\ draft'[r] = row
         /\ input'[r] = input[r]
    BY <1>2, <2>1 DEF TypeOK, m, row
  <2>13. /\ \A k \in freed : Holds(r, k, "update")'
         /\ \A k, mode : Holds(r, k, mode) => Holds(r, k, mode)'
    BY <1>2 DEF Holds, WithLocks
  <2>14. Known(r)'
    BY <1>2, <2>2, <2>12, <2>13 DEF Known, m
  <2>15. Reports(r)' = Reports(r)
    BY <1>2 DEF Reports
  <2>16. RequestInv(r)'
    <3>1. row.sup # NoMember => row.role = "manager"
      BY <1>2 DEF ValidSupervisor
    <3>2. pc'[r] \in Wrote =>
             /\ target'[r] \in Written(r)' /\ writes'[r][target'[r]] = draft'[r]
             /\ draft'[r].sup # NoMember => draft'[r].role = "manager"
             /\ \A k \in Written(r)' \ {target'[r]} :
                   /\ Present(rows'[k]) /\ Holds(r, k, "update")'
                   /\ writes'[r][k] = [rows'[k] EXCEPT !.sup = NoMember]
             /\ draft'[r].status = "deleted" => Reports(r)' \subseteq Written(r)'
      BY <2>4, <2>7, <2>8, <2>10, <2>12, <2>13, <2>15, <3>1
    <3>3. pc'[r] \in Locked /\ pc'[r] \in Wrote
      BY <2>9, <2>12 DEF Locked, Wrote
    <3> QED
      BY <2>2, <2>9, <2>12, <2>14, <3>2, <3>3 DEF RequestInv
  <2>17. \A q \in Requests \ {r} : \A x \in Written(r)', k \in Written(q) :
            "absent" \in {rows[x].status, rows[k].status} => UserOf[x] # UserOf[k]
    <3> SUFFICES ASSUME NEW q \in Requests \ {r}, NEW x \in Written(r)', NEW k \in Written(q),
                        "absent" \in {rows[x].status, rows[k].status},
                        UserOf[x] = UserOf[k]
                 PROVE  FALSE
      OBVIOUS
    <3>1. Present(rows[x]) /\ x \in Members
      BY <2>2, <2>3, <2>4, <2>10 DEF Known, m
    <3>2. rows[k].status = "absent"
      BY <3>1 DEF Present, Statuses
    <3>3. ~Present(rows[k])
      BY <3>2 DEF Present, Statuses
    <3>4. pc[q] \in Wrote /\ Wrote \subseteq Locked
      BY DEF RequestInv, Wrote, Locked
    <3>5. k = target[q] /\ Fresh(q)
      BY <3>3, <3>4 DEF RequestInv, Known
    <3> QED
      BY <3>1, <3>5 DEF Fresh, MembershipsOf
  <2>18. \A q \in Requests \ {r} :
            /\ pc'[q] = pc[q] /\ input'[q] = input[q] /\ draft'[q] = draft[q]
            /\ target'[q] = target[q] /\ reports'[q] = reports[q]
            /\ writes'[q] = writes[q]
    BY <1>2, <2>1, <2>10 DEF TypeOK
  <2>19. freed \in SUBSET Members /\ "update" \in LockModes /\ rows' = rows
    BY <1>2, <2>3 DEF LockModes
  <2>20. locks' = WithLocks(locks, r, freed, "update")
    BY <1>2
  <2> QED
    BY <2>2, <2>4, <2>5, <2>11, <2>16, <2>17, <2>18, <2>19, <2>20, LockStep
<1> QED
  BY <1>1, <1>2 DEF ClearReports

\* The foreign key locks the supervisor.
LEMMA ReferenceInv ==
    ASSUME Inv, NEW r \in Requests, Reference(r)
    PROVE  Inv'
<1> USE DEF Inv
<1> DEFINE s == draft[r].sup
<1>1. CASE Reject(r, "raised")
  BY <1>1, RejectInv DEF Outcomes
<1>2. CASE /\ Present(rows[s])
           /\ locks' = WithLocks(locks, r, {s}, "share")
           /\ Goto(r, "commit")
           /\ UNCHANGED <<rows, writes, input, actor, target, draft, reports, outcome, served, alone>>
  <2>1. pc[r] = "reference" /\ Free(r) /\ pc' = [pc EXCEPT ![r] = "commit"]
    BY <1>2 DEF Reference, Goto
  <2>2. s \in Members
    <3>1. draft[r] \in Row /\ s # NoMember
      BY <2>1 DEF TypeOK, RequestInv
    <3> QED
      BY <3>1, RowFields
  <2>3. /\ target[r] \in Members /\ Known(r)
        /\ input[r].op = "join" => UserOf[target[r]] = input[r].user
        /\ Present(draft[r]) \/ (draft[r].status = "deleted" /\ draft[r].sup = NoMember)
        /\ draft[r].status = "deleted" => input[r].op = "delete"
    BY <2>1 DEF RequestInv, Locked, Fresh
  <2> HIDE DEF s
  <2>4. ~Blocked(locks, r, s, "share")
    <3>1. [row |-> s, mode |-> "share"] \in Wanted(r)
      BY <2>1 DEF Wanted, s
    <3> QED
      BY <2>1, <3>1, FreeLocks
  <2>5. TypeOK'
    <3>1. locks' \subseteq [by : Requests, row : Members, mode : LockModes]
      BY <1>2, <2>2 DEF TypeOK, WithLocks, LockModes
    <3> QED
      BY <1>2, <2>1, <3>1 DEF TypeOK, Points
  <2>6. /\ pc'[r] = "commit" /\ rows' = rows /\ target' = target /\ draft' = draft
        /\ input' = input /\ writes' = writes /\ reports' = reports
        /\ Written(r)' = Written(r) /\ Reports(r)' = Reports(r)
    BY <1>2, <2>1 DEF TypeOK, Written, Reports
  <2>7. /\ \A k : k = s => Holds(r, k, "share")'
        /\ \A k, mode : Holds(r, k, mode) => Holds(r, k, mode)'
    BY <1>2 DEF Holds, WithLocks
  <2>8. Known(r)'
    BY <2>3, <2>6, <2>7 DEF Known
  <2>9. RequestInv(r)'
    BY <1>2, <2>1, <2>3, <2>6, <2>7, <2>8 DEF RequestInv, Locked, Wrote, s
  <2>10. \A q \in Requests \ {r} : pc'[q] = pc[q]
    BY <2>1 DEF TypeOK
  <2>11. {s} \in SUBSET Members /\ "share" \in LockModes
    BY <2>2 DEF LockModes
  <2>12. \A q \in Requests \ {r} : \A m \in Written(r)', k \in Written(q) :
            "absent" \in {rows[m].status, rows[k].status} => UserOf[m] # UserOf[k]
    BY <2>6 DEF UsersApart
  <2>13. /\ \A k \in {s} : ~Blocked(locks, r, k, "share") /\ Present(rows[k])
         /\ locks' = WithLocks(locks, r, {s}, "share")
    BY <1>2, <2>4 DEF s
  <2> QED
    BY <2>5, <2>6, <2>9, <2>10, <2>11, <2>12, <2>13, LockStep
<1> QED
  BY <1>1, <1>2 DEF Reference

\* PostgreSQL rolls a transaction back to end a deadlock.
LEMMA DeadlockInv ==
    ASSUME Inv, NEW r \in Requests, DeadlockVictim(r)
    PROVE  Inv'
BY RejectInv DEF DeadlockVictim, Outcomes

\* A membership created by an administrator.
LEMMA CreateInv ==
    ASSUME Inv, NEW r \in Requests, CreateByEmail(r)
    PROVE  Inv'
<1> USE DEF Inv
<1> DEFINE u == input[r].user
           row == [role |-> input[r].role, status |-> "active", sup |-> NoMember]
<1>1. CASE Reject(r, "duplicate")
  BY <1>1, RejectInv DEF Outcomes
<1>2. CASE /\ MembershipsOf(u) = {}
           /\ \E m \in Members :
                 /\ UserOf[m] = u /\ rows[m].status = "absent"
                 /\ rows' = [rows EXCEPT ![m] = row]
           /\ Finish(r, "done")
  <2>1. PICK m \in Members :
           /\ UserOf[m] = u /\ rows[m].status = "absent"
           /\ rows' = [rows EXCEPT ![m] = row]
    BY <1>2
  <2>2. /\ pc[r] = "insert" /\ UserFree(u)
        /\ \A k \in Members : UserOf[k] = u => ~Present(rows[k])
    BY <1>2 DEF CreateByEmail, MembershipsOf
  <2>3. row \in Row /\ Present(row) /\ row.sup = NoMember
    <3>1. input[r].role \in Roles
      BY <2>2, InputTypes DEF RequestInv, TypeOK
    <3> QED
      BY <3>1, NewRows DEF Present, Statuses
  <2> HIDE DEF row
  <2>4. /\ rows' \in [Members -> Row] /\ rows'[m] = row /\ ~Present(rows[m])
        /\ \A k \in Members \ {m} : rows'[k] = rows[k]
    BY <2>1, <2>3 DEF TypeOK, Present, Statuses
  <2>5. ReferencesHold'
    <3> SUFFICES ASSUME NEW k \in Members, Present(rows'[k]), rows'[k].sup # NoMember
                 PROVE  rows'[k].role = "manager" /\ Present(rows'[rows'[k].sup])
      BY DEF ReferencesHold
    <3>1. k # m /\ rows'[k] = rows[k]
      BY <2>3, <2>4
    <3>2. rows[k].role = "manager" /\ Present(rows[rows[k].sup]) /\ rows[k].sup \in Members
      BY <3>1, RowFields DEF ReferencesHold, TypeOK
    <3> QED
      BY <2>4, <3>1, <3>2
  <2>6. OneMembershipEach'
    BY <2>1, <2>2, <2>4 DEF OneMembershipEach
  <2>7. Vacant'
    BY <2>3, <2>4 DEF Vacant
  <2>8. \A q \in Requests \ {r} : \A mode : Holds(q, m, mode) => m \in Written(q)
    BY <2>4 DEF Holds, LocksHeld
  <2>9. Spares(r)
    <3>1. \A q \in Requests : m \notin Written(q)
      BY <2>1, <2>2 DEF UserFree, Written
    <3>2. \A q \in Requests \ {r} : Fresh(q) => UserOf[target[q]] # u
      BY <2>2, <3>1 DEF Fresh, UserFree, Written, TypeOK
    <3>3. \A k \in Members : rows'[k].status = "absent" => rows[k].status = "absent"
      BY <2>1, <2>4
    <3>4. \A q \in Requests \ {r} : \A k \in Members :
             /\ Holds(q, k, "key") \/ Holds(q, k, "update") => rows'[k] = rows[k]
             /\ Holds(q, k, "share") /\ Present(rows[k]) => Present(rows'[k])
      BY <2>4, <2>8, <3>1
    <3>5. \A q \in Requests \ {r} : \A k, x \in Members :
             Holds(q, x, "key") /\ rows'[k].sup = x => rows[k].sup = x
      BY <2>3, <2>4, NoMemberAssumption
    <3>6. \A q \in Requests \ {r} : Fresh(q) =>
             \A k \in Members : UserOf[k] = UserOf[target[q]] => ~Present(rows'[k])
      BY <2>1, <2>4, <3>2 DEF Fresh, MembershipsOf
    <3> QED
      BY <3>3, <3>4, <3>5, <3>6 DEF Spares
  <2> QED
    BY <1>2, <2>4, <2>5, <2>6, <2>7, <2>9, FinishInv DEF Outcomes
<1> QED
  BY <1>1, <1>2 DEF CreateByEmail
\* Locks that two requests hold on one row go together.
LEMMA HeldApart ==
    ASSUME LocksApart, NEW r, NEW q, r # q, NEW m, NEW a, NEW b,
           Holds(r, m, a), Holds(q, m, b)
    PROVE  ~Conflicts(a, b)
BY DEF LocksApart, Holds

\* What a commit makes of the table: its target has the row it drafted, and
\* among the others only supervisors are cleared, in rows it has locked.
LEMMA CommittedRows ==
    ASSUME Inv, NEW r \in Requests, pc[r] = "commit", rows' = Overlay(rows, writes[r])
    PROVE  /\ rows' \in [Members -> Row]
           /\ target[r] \in Members /\ rows'[target[r]] = draft[r]
           /\ \A k \in Members \ {target[r]} :
                 /\ rows'[k] # rows[k] => k \in Written(r) /\ Holds(r, k, "update")
                 /\ k \in Written(r) =>
                       /\ rows'[k] = [rows[k] EXCEPT !.sup = NoMember]
                       /\ rows'[k].sup = NoMember
                 /\ k \notin Written(r) => rows'[k] = rows[k]
                 /\ rows'[k].status = rows[k].status /\ rows'[k].role = rows[k].role
                 /\ rows'[k].sup \in {rows[k].sup, NoMember}
<1> DEFINE m == target[r]
<1> USE DEF Inv
<1>1. /\ m \in Members /\ m \in Written(r) /\ writes[r][m] = draft[r]
      /\ \A k \in Written(r) \ {m} :
            Holds(r, k, "update") /\ writes[r][k] = [rows[k] EXCEPT !.sup = NoMember]
  BY DEF RequestInv, Locked, Wrote
<1>2. /\ rows \in [Members -> Row] /\ Written(r) \subseteq Members
      /\ writes[r] \in [Written(r) -> Row]
  BY DEF TypeOK, Written
<1>3. \A k \in Members : rows'[k] = IF k \in Written(r) THEN writes[r][k] ELSE rows[k]
  BY <1>2 DEF Overlay, Written
<1>4. rows' \in [Members -> Row]
  <2>1. rows' = [k \in Members |-> IF k \in Written(r) THEN writes[r][k] ELSE rows[k]]
    BY <1>2 DEF Overlay, Written
  <2> QED
    BY <1>2, <2>1
<1>5. rows'[m] = draft[r]
  BY <1>1, <1>3
<1>6. ASSUME NEW k \in Members \ {m}
      PROVE  /\ rows'[k] # rows[k] => k \in Written(r) /\ Holds(r, k, "update")
             /\ k \in Written(r) =>
                   /\ rows'[k] = [rows[k] EXCEPT !.sup = NoMember]
                   /\ rows'[k].sup = NoMember
             /\ k \notin Written(r) => rows'[k] = rows[k]
             /\ rows'[k].status = rows[k].status /\ rows'[k].role = rows[k].role
             /\ rows'[k].sup \in {rows[k].sup, NoMember}
  <2>1. rows[k] \in Row
    BY <1>2
  <2>2. CASE k \in Written(r)
    <3>1. Holds(r, k, "update") /\ rows'[k] = [rows[k] EXCEPT !.sup = NoMember]
      BY <1>1, <1>3, <2>2
    <3>2. /\ [rows[k] EXCEPT !.sup = NoMember].sup = NoMember
          /\ [rows[k] EXCEPT !.sup = NoMember].role = rows[k].role
          /\ [rows[k] EXCEPT !.sup = NoMember].status = rows[k].status
      BY <2>1, RowFields
    <3> QED
      BY <2>2, <3>1, <3>2
  <2>3. CASE k \notin Written(r)
    BY <1>3, <2>3
  <2> QED
    BY <2>2, <2>3
<1> QED
  BY <1>1, <1>4, <1>5, <1>6

\* The writes of a transaction become the table's.
LEMMA CommitInv ==
    ASSUME Inv, NEW r \in Requests, Commit(r)
    PROVE  Inv'
<1> USE DEF Inv
<1> DEFINE m == target[r]
           row == draft[r]
<1>1. pc[r] = "commit" /\ rows' = Overlay(rows, writes[r]) /\ Finish(r, "done")
  BY DEF Commit
<1>2. /\ rows' \in [Members -> Row]
      /\ m \in Members /\ rows'[m] = row
      /\ \A k \in Members \ {m} :
            /\ rows'[k] # rows[k] => k \in Written(r) /\ Holds(r, k, "update")
            /\ k \in Written(r) => rows'[k].sup = NoMember
            /\ k \notin Written(r) => rows'[k] = rows[k]
            /\ rows'[k].status = rows[k].status /\ rows'[k].role = rows[k].role
            /\ rows'[k].sup \in {rows[k].sup, NoMember}
  BY <1>1, CommittedRows
<1>3. /\ Known(r) \/ Fresh(r)
      /\ m \in Written(r)
      /\ row.sup # NoMember => row.role = "manager"
      /\ row.sup \notin {NoMember, rows[m].sup} => Holds(r, row.sup, "share") /\ Present(rows[row.sup])
      /\ Present(row) \/ (row.status = "deleted" /\ row.sup = NoMember)
      /\ row.status = "deleted" => input[r].op = "delete" /\ Reports(r) \subseteq Written(r)
  BY <1>1 DEF RequestInv, Locked, Wrote
<1>4. row \in Row /\ \A k \in Members : rows[k] \in Row
  BY DEF TypeOK
<1>5. /\ Holds(r, m, "key") \/ Holds(r, m, "update")
      /\ row.status = "deleted" => Holds(r, m, "key")
  BY <1>3 DEF Known, Fresh
<1>6. \A k \in Members : rows[k].sup = m => k \in Reports(r)
  BY DEF Reports
<1>7. Known(r) => Present(rows[m])
  BY DEF Known
<1>8. Fresh(r) => row.sup = NoMember /\ rows[m].status = "absent"
                  /\ \A k \in Members : UserOf[k] = UserOf[m] => ~Present(rows[k])
  BY DEF Fresh, MembershipsOf
<1> HIDE DEF m, row
<1>9. Vacant'
  <2> SUFFICES ASSUME NEW k \in Members, ~Present(rows'[k])
               PROVE  rows'[k].sup = NoMember
    BY DEF Vacant
  <2>1. CASE k = m
    BY <1>2, <1>3, <2>1
  <2>2. CASE k # m
    <3>1. ~Present(rows[k])
      BY <1>2, <2>2 DEF Present
    <3> QED
      BY <1>2, <2>2, <3>1 DEF Vacant
  <2> QED
    BY <2>1, <2>2
<1>10. OneMembershipEach'
  <2>1. \A k \in Members \ {m} : Present(rows'[k]) => Present(rows[k])
    BY <1>2 DEF Present
  <2>2. CASE Known(r)
    BY <1>2, <1>7, <2>1, <2>2 DEF OneMembershipEach
  <2>3. CASE Fresh(r)
    BY <1>2, <1>8, <2>1, <2>3 DEF OneMembershipEach
  <2> QED
    BY <1>3, <2>2, <2>3
<1>11. ReferencesHold'
  <2> SUFFICES ASSUME NEW k \in Members, Present(rows'[k]), rows'[k].sup # NoMember
               PROVE  rows'[k].role = "manager" /\ Present(rows'[rows'[k].sup])
    BY DEF ReferencesHold
  <2> DEFINE s == rows'[k].sup
  <2>1. s \in Members
    BY <1>2, RowFields
  <2>2. Present(rows[s]) /\ s # m => Present(rows'[s])
    BY <1>2, <2>1 DEF Present
  <2>3. CASE k = m
    <3>1. row.role = "manager" /\ s = row.sup /\ Present(row)
      BY <1>2, <1>3, <2>3
    <3>2. s # m => Present(rows[s])
      <4>1. CASE s = rows[m].sup
        <5>1. Known(r)
          BY <1>3, <1>8, <3>1
        <5> QED
          BY <1>2, <1>7, <4>1, <5>1 DEF ReferencesHold
      <4>2. CASE s # rows[m].sup
        BY <1>3, <3>1, <4>2
      <4> QED
        BY <4>1, <4>2
    <3> QED
      BY <1>2, <2>2, <2>3, <3>1, <3>2
  <2>4. CASE k # m
    <3>1. Present(rows[k]) /\ s = rows[k].sup /\ k \notin Written(r)
      BY <1>2, <2>4 DEF Present
    <3>2. rows[k].role = "manager" /\ Present(rows[s])
      BY <3>1 DEF ReferencesHold
    <3>3. s = m => Present(row)
      BY <1>3, <1>6, <3>1
    <3> QED
      BY <1>2, <2>2, <2>4, <3>2, <3>3
  <2> QED
    BY <2>3, <2>4
<1>12. Spares(r)
  <2>1. \A k \in Members : rows'[k].status = "absent" => rows[k].status = "absent"
    BY <1>2, <1>3 DEF Present, Statuses
  <2>2. ASSUME NEW q \in Requests \ {r}, NEW k \in Members,
               Holds(q, k, "key") \/ Holds(q, k, "update")
        PROVE  rows'[k] = rows[k]
    <3>1. ~Holds(r, k, "key") /\ ~Holds(r, k, "update")
      BY <2>2, HeldApart, ConflictTable DEF LockModes
    <3> QED
      BY <1>2, <1>5, <3>1
  <2>3. ASSUME NEW q \in Requests \ {r}, NEW k \in Members,
               Holds(q, k, "share"), Present(rows[k])
        PROVE  Present(rows'[k])
    <3>1. ~Holds(r, k, "key")
      BY <2>3, HeldApart, ConflictTable DEF LockModes
    <3> QED
      BY <1>2, <1>3, <1>5, <2>3, <3>1 DEF Present
  <2>4. ASSUME NEW q \in Requests \ {r}, NEW k \in Members, NEW x \in Members,
               Holds(q, x, "key"), rows'[k].sup = x
        PROVE  rows[k].sup = x
    <3>1. ~Holds(r, x, "share")
      BY <2>4, HeldApart, ConflictTable DEF LockModes
    <3> QED
      BY <1>2, <1>3, <2>4, <3>1, NoMemberAssumption
  <2>5. ASSUME NEW q \in Requests \ {r}, Fresh(q),
               NEW k \in Members, UserOf[k] = UserOf[target[q]], Present(rows'[k])
        PROVE  FALSE
    <3>1. ~Present(rows[k])
      BY <2>5 DEF Fresh, MembershipsOf
    <3>2. k = m /\ Fresh(r)
      BY <1>2, <1>3, <1>7, <2>5, <3>1 DEF Present
    <3> QED
      BY <1>3, <1>8, <2>5, <3>2 DEF Fresh, UsersApart
  <2> QED
    BY <2>1, <2>2, <2>3, <2>4, <2>5 DEF Spares
<1> QED
  BY <1>1, <1>2, <1>9, <1>10, <1>11, <1>12, FinishInv DEF Outcomes

-------------------------------------------------------------------------------
(* The invariant. *)

\* It holds before the first request.
LEMMA InitInv == Init => Inv
<1> SUFFICES ASSUME Init PROVE Inv
  OBVIOUS
<1> USE DEF Init
<1>1. \A r \in Requests : Written(r) = {} /\ writes[r] = NoWrites
  BY DEF Written, NoWrites
<1>2. TypeOK
  <2>1. \A r \in Requests :
           /\ DOMAIN writes[r] \subseteq Members
           /\ writes[r] \in [DOMAIN writes[r] -> Row]
    BY <1>1 DEF NoWrites
  <2>2. served \in 0..MaxRequests
    BY MembershipsAssumption
  <2> QED
    BY <2>1, <2>2, NewRows, MembershipsAssumption DEF TypeOK, Points, Outcomes
<1>3. Vacant /\ OneMembershipEach
  BY MembershipsAssumption DEF Vacant, OneMembershipEach
<1>4. ReferencesHold
  BY MembershipsAssumption DEF ReferencesHold, ActiveSupervisor, Present, Statuses
<1>5. LocksApart /\ LocksHeld /\ UsersApart
  BY <1>1 DEF LocksApart, LocksHeld, UsersApart
<1>6. \A r \in Requests : RequestInv(r)
  BY <1>1 DEF RequestInv, Locked, Wrote
<1> QED
  BY <1>2, <1>3, <1>4, <1>5, <1>6 DEF Inv

\* Steps preserve it.
LEMMA NextInv == Inv /\ [Next]_vars => Inv'
<1> SUFFICES ASSUME Inv, [Next]_vars PROVE Inv'
  OBVIOUS
<1>1. CASE UNCHANGED vars
  BY <1>1 DEF vars, Inv, TypeOK, ReferencesHold, OneMembershipEach, Vacant, LocksApart,
     LocksHeld, UsersApart, RequestInv, Known, Fresh, Holds, Written, Reports, MembershipsOf
<1>2. ASSUME NEW r \in Requests, NEW i \in Inputs, Arrive(r, i) PROVE Inv'
  BY <1>2, ArriveInv
<1>3. ASSUME NEW r \in Requests, Step(r) PROVE Inv'
  BY <1>3, ResolveInv, GetInv, CreateInv, LockTargetInv, CheckSupervisorInv, JoinInv, GuardInv,
     ClearInv, ReferenceInv, CommitInv, DeadlockInv DEF Step
<1>4. CASE Terminated
  BY <1>1, <1>4 DEF Terminated
<1> QED
  BY <1>1, <1>2, <1>3, <1>4 DEF Next

\* The inductive invariant is an invariant.
THEOREM Invariance == Spec => []Inv
BY InitInv, NextInv, PTL DEF Spec

\* However requests interleave, wait and are rolled back, the table keeps its
\* references and each user has one membership.
THEOREM MembershipTableHolds == Spec => []TableHolds
<1>1. Inv => TableHolds
  BY DEF Inv, TableHolds
<1> QED
  BY <1>1, Invariance, PTL
-------------------------------------------------------------------------------
(* A request that runs alone. *)

\* The rank of a target and the owner that is left are as the request read
\* them, and it lets go every report it has to.
AloneRequestInv(r) ==
    /\ pc[r] \in {"lock"} \cup Locked /\ input[r].op # "join" =>
          CanManageTarget(actor[r], rows[target[r]])
    /\ pc[r] \in {"clear"} \cup Wrote /\ ~Fresh(r) => KeepsOwner(target[r], draft[r])
    /\ pc[r] = "clear" => reports[r] = Cleared(target[r], draft[r])
    /\ pc[r] \in Wrote /\ ~Fresh(r) =>
          /\ ValidSupervisor(draft[r])
          /\ Written(r) = {target[r]} \cup Cleared(target[r], draft[r])

\* The supervisors named are active ones, but for a supervisor that names
\* itself as it becomes a manager.
SupervisorsNamed ==
    \A k \in Members :
        rows[k].sup \notin {NoMember, k} => ActiveSupervisor(rows[rows[k].sup])

AloneInv ==
    alone =>
        /\ HasOwner(rows) /\ SupervisorsNamed
        /\ \A r, q \in InFlight : r = q
        /\ \A r \in Requests : AloneRequestInv(r)

\* It is enough to look at the request that steps.
LEMMA AloneStep ==
    ASSUME TypeOK, AloneInv, NEW r \in Requests, pc[r] # "idle", alone' = alone,
           \A q \in Requests \ {r} : pc'[q] = pc[q],
           alone => HasOwner(rows') /\ SupervisorsNamed' /\ AloneRequestInv(r)'
    PROVE  AloneInv'
<1> SUFFICES ASSUME alone
             PROVE  /\ HasOwner(rows') /\ SupervisorsNamed'
                    /\ \A p, q \in InFlight' : p = q
                    /\ \A q \in Requests : AloneRequestInv(q)'
  BY DEF AloneInv
<1>1. \A q \in Requests \ {r} : pc[q] = "idle"
  BY DEF AloneInv, InFlight
<1>2. \A q \in Requests \ {r} : pc'[q] = "idle"
  BY <1>1
<1>3. \A q \in Requests \ {r} : AloneRequestInv(q)'
  BY <1>2 DEF AloneRequestInv, Locked, Wrote
<1> QED
  BY <1>2, <1>3 DEF InFlight

\* A request that is answered knows nothing any more.
LEMMA AloneFinish ==
    ASSUME TypeOK, AloneInv, NEW r \in Requests, NEW result, Finish(r, result), pc[r] # "idle",
           alone => HasOwner(rows') /\ SupervisorsNamed'
    PROVE  AloneInv'
<1>1. pc' = [pc EXCEPT ![r] = "idle"] /\ alone' = alone
  BY DEF Finish, Goto
<1>2. pc'[r] = "idle"
  BY <1>1 DEF TypeOK
<1>3. AloneRequestInv(r)'
  BY <1>2 DEF AloneRequestInv, Locked, Wrote
<1>4. \A q \in Requests \ {r} : pc'[q] = pc[q]
  BY <1>1 DEF TypeOK
<1> QED
  BY <1>1, <1>3, <1>4, AloneStep

\* Nor one that is refused.
LEMMA AloneReject ==
    ASSUME TypeOK, AloneInv, NEW r \in Requests, NEW result, Reject(r, result), pc[r] # "idle"
    PROVE  AloneInv'
<1>1. Finish(r, result) /\ rows' = rows
  BY DEF Reject
<1>2. alone => HasOwner(rows') /\ SupervisorsNamed'
  BY <1>1 DEF AloneInv, SupervisorsNamed
<1> QED
  BY <1>1, <1>2, AloneFinish

\* What is asked of the tables of two equal states.
LEMMA SameRows ==
    ASSUME rows' = rows
    PROVE  /\ \A m, row : KeepsOwner(m, row)' <=> KeepsOwner(m, row)
           /\ \A m, row : Cleared(m, row)' = Cleared(m, row)
           /\ \A row : ValidSupervisor(row)' <=> ValidSupervisor(row)
           /\ SupervisorsNamed' <=> SupervisorsNamed
BY DEF KeepsOwner, Cleared, ValidSupervisor, SupervisorsNamed

\* A step that changes neither the table nor its request's reading of it.
LEMMA AloneQuiet ==
    ASSUME TypeOK, AloneInv, NEW r \in Requests, pc[r] # "idle",
           rows' = rows, alone' = alone,
           \A q \in Requests \ {r} : pc'[q] = pc[q],
           alone => AloneRequestInv(r)'
    PROVE  AloneInv'
BY AloneStep, SameRows DEF AloneInv

\* The first request of all, or one that comes after another was answered.
LEMMA AloneArrive ==
    ASSUME TypeOK, AloneInv, NEW r \in Requests, NEW i \in Inputs, Arrive(r, i)
    PROVE  AloneInv'
<1> DEFINE point == IF i.op = "join" THEN "lock" ELSE "resolve"
<1>1. /\ pc[r] = "idle" /\ pc' = [pc EXCEPT ![r] = point]
      /\ input' = [input EXCEPT ![r] = i]
      /\ alone' = (alone /\ InFlight = {}) /\ rows' = rows
  BY DEF Arrive, Goto
<1>2. /\ point \in {"lock", "resolve"}
      /\ point = "lock" => i.op = "join"
  OBVIOUS
<1> HIDE DEF point
<1>3. pc'[r] = point /\ input'[r] = i
  BY <1>1 DEF TypeOK
<1> SUFFICES ASSUME alone, InFlight = {}
             PROVE  /\ HasOwner(rows') /\ SupervisorsNamed'
                    /\ \A p, q \in InFlight' : p = q
                    /\ \A q \in Requests : AloneRequestInv(q)'
  BY <1>1 DEF AloneInv
<1>4. \A q \in Requests \ {r} : pc'[q] = "idle"
  BY <1>1 DEF InFlight, TypeOK
<1>5. \A q \in Requests : AloneRequestInv(q)'
  BY <1>2, <1>3, <1>4 DEF AloneRequestInv, Locked, Wrote
<1> QED
  BY <1>1, <1>4, <1>5, SameRows DEF AloneInv, InFlight

\* GetTarget lets through only what canManageTarget allows.
LEMMA AloneGet ==
    ASSUME Inv, AloneInv, NEW r \in Requests, GetTarget(r)
    PROVE  AloneInv'
<1> USE DEF Inv
<1> DEFINE m == input[r].target
<1>0. pc[r] = "get"
  BY DEF GetTarget
<1>1. CASE \E result \in Outcomes : Reject(r, result)
  BY <1>0, <1>1, AloneReject
<1>2. CASE /\ GetAllows(actor[r], input[r], rows[m])
           /\ target' = [target EXCEPT ![r] = m]
           /\ Goto(r, "lock")
           /\ UNCHANGED <<rows, locks, writes, input, actor, draft, reports, outcome, served, alone>>
  <2>1. pc'[r] = "lock" /\ target'[r] = m /\ \A q \in Requests \ {r} : pc'[q] = pc[q]
    BY <1>2 DEF Goto, TypeOK
  <2>2. AloneRequestInv(r)'
    BY <1>2, <2>1 DEF AloneRequestInv, Locked, Wrote, GetAllows
  <2> QED
    BY <1>0, <1>2, <2>1, <2>2, AloneQuiet
<1> QED
  BY <1>1, <1>2 DEF GetTarget, Outcomes

\* A step of a request before it has passed the triggers.
LEMMA AloneBefore ==
    ASSUME Inv, AloneInv, NEW r \in Requests, pc[r] # "idle",
           rows' = rows, alone' = alone, input' = input, actor' = actor,
           \A q \in Requests \ {r} : pc'[q] = pc[q],
           pc[r] \in {"lock", "supervisor"}, pc'[r] \in {"guard", "supervisor"},
           target' = target \/ input[r].op = "join"
    PROVE  AloneInv'
<1>1. alone => AloneRequestInv(r)'
  BY DEF AloneInv, AloneRequestInv, Locked, Wrote
<1> QED
  BY <1>1, AloneQuiet DEF Inv

\* The steps up to the first trigger.
LEMMA AloneEarly ==
    ASSUME Inv, AloneInv, NEW r \in Requests,
           ResolveActor(r) \/ LockTarget(r) \/ CheckSupervisor(r)
    PROVE  AloneInv'
<1> USE DEF Inv
<1>1. pc[r] \in {"resolve", "lock", "supervisor"}
  BY DEF ResolveActor, LockTarget, CheckSupervisor
<1>2. CASE \E result \in Outcomes : Reject(r, result)
  BY <1>1, <1>2, AloneReject
<1>3. ASSUME NEW point, Goto(r, point)
      PROVE  pc'[r] = point /\ \A q \in Requests \ {r} : pc'[q] = pc[q]
  BY <1>3 DEF Goto, TypeOK
<1>4. CASE ResolveActor(r) /\ ~\E result \in Outcomes : Reject(r, result)
  <2>1. /\ \E m \in MembershipsOf(input[r].by) :
              Goto(r, IF input[r].op = "create" THEN "insert" ELSE "get")
        /\ UNCHANGED <<rows, input, alone>>
    BY <1>4 DEF ResolveActor, Outcomes
  <2>2. pc'[r] \in {"insert", "get"} /\ \A q \in Requests \ {r} : pc'[q] = pc[q]
    BY <1>3, <2>1
  <2>3. alone => AloneRequestInv(r)'
    BY <2>2 DEF AloneRequestInv, Locked, Wrote
  <2> QED
    BY <1>1, <2>1, <2>2, <2>3, AloneQuiet
<1>5. CASE LockTarget(r) /\ ~\E result \in Outcomes : Reject(r, result)
  <2>1. /\ Goto(r, "guard") \/ Goto(r, "supervisor")
        /\ UNCHANGED <<rows, input, actor, target, alone>> /\ pc[r] = "lock"
    BY <1>5 DEF LockTarget, Outcomes
  <2>2. pc'[r] \in {"guard", "supervisor"} /\ \A q \in Requests \ {r} : pc'[q] = pc[q]
    BY <1>3, <2>1
  <2> QED
    BY <2>1, <2>2, AloneBefore
<1>6. CASE CheckSupervisor(r) /\ ~\E result \in Outcomes : Reject(r, result)
  <2>1. /\ Goto(r, "guard") /\ UNCHANGED <<rows, input, actor, target, alone>>
        /\ pc[r] = "supervisor"
    BY <1>6 DEF CheckSupervisor, Outcomes
  <2>2. pc'[r] = "guard" /\ \A q \in Requests \ {r} : pc'[q] = pc[q]
    BY <1>3, <2>1
  <2> QED
    BY <2>1, <2>2, AloneBefore
<1> QED
  BY <1>2, <1>4, <1>5, <1>6
\* An acceptance ranks nobody by the rank of an actor.
LEMMA AloneJoin ==
    ASSUME Inv, Inv', AloneInv, NEW r \in Requests, Join(r)
    PROVE  AloneInv'
<1> USE DEF Inv
<1>1. /\ pc[r] = "lock" /\ input[r].op = "join"
      /\ UNCHANGED <<rows, input, actor, alone>>
      /\ Goto(r, "guard") \/ Goto(r, "commit")
  BY DEF Join
<1>2. pc'[r] \in {"guard", "commit"} /\ \A q \in Requests \ {r} : pc'[q] = pc[q]
  BY <1>1 DEF Goto, TypeOK
<1>3. CASE pc'[r] = "guard"
  BY <1>1, <1>2, <1>3, AloneBefore
<1>4. CASE pc'[r] = "commit"
  <2>1. Goto(r, "commit")
    BY <1>1, <1>4 DEF Goto, TypeOK
  <2>2. \E m \in Members : target' = [target EXCEPT ![r] = m] /\ rows[m].status = "absent"
    BY <1>4, <1>2 DEF Join, Goto, TypeOK
  <2>3. ~Known(r)'
    BY <1>1, <2>2 DEF Known, TypeOK, Present, Statuses
  <2>4. Fresh(r)'
    BY <1>4, <2>3 DEF RequestInv, Locked
  <2>5. AloneRequestInv(r)'
    BY <1>1, <1>4, <2>4 DEF AloneRequestInv, Locked, Wrote
  <2> QED
    BY <1>1, <1>2, <2>5, AloneQuiet
<1> QED
  BY <1>2, <1>3, <1>4

\* The first trigger looks for another owner, and for the reports.
LEMMA AloneGuard ==
    ASSUME Inv, AloneInv, NEW r \in Requests, Guard(r)
    PROVE  AloneInv'
<1> USE DEF Inv
<1> DEFINE freed == Cleared(target[r], draft[r])
<1>1. CASE Reject(r, "raised")
  BY <1>1, AloneReject DEF Guard
<1>2. CASE /\ KeepsOwner(target[r], draft[r])
           /\ reports' = [reports EXCEPT ![r] = freed]
           /\ Goto(r, "clear")
           /\ UNCHANGED <<rows, locks, writes, input, actor, target, draft, outcome, served, alone>>
  <2>1. /\ pc[r] = "guard" /\ pc'[r] = "clear" /\ reports'[r] = freed
        /\ \A q \in Requests \ {r} : pc'[q] = pc[q]
    BY <1>2 DEF Guard, Goto, TypeOK
  <2>2. KeepsOwner(target[r], draft[r])' /\ reports'[r] = Cleared(target[r], draft[r])'
    BY <1>2, <2>1 DEF KeepsOwner, Cleared
  <2>3. alone => AloneRequestInv(r)'
    BY <1>2, <2>1, <2>2 DEF AloneInv, AloneRequestInv, Locked, Wrote
  <2> QED
    BY <1>2, <2>1, <2>3, AloneQuiet
<1> QED
  BY <1>1, <1>2 DEF Guard

\* The second one's rows are those that the first snapshot saw.
LEMMA AloneClear ==
    ASSUME Inv, AloneInv, NEW r \in Requests, ClearReports(r)
    PROVE  AloneInv'
<1> USE DEF Inv
<1> DEFINE m == target[r]
           row == draft[r]
           freed == {k \in reports[r] : rows[k].sup = m}
           point == IF row.sup \in {NoMember, rows[m].sup} THEN "commit" ELSE "reference"
           changes == [k \in freed \cup {m} |->
                          IF k = m THEN row ELSE [rows[k] EXCEPT !.sup = NoMember]]
<1>1. CASE Reject(r, "raised")
  BY <1>1, AloneReject DEF ClearReports
<1>2. CASE /\ ValidSupervisor(row)
           /\ writes' = [writes EXCEPT ![r] = changes]
           /\ Goto(r, point)
           /\ UNCHANGED <<rows, input, actor, target, draft, reports, outcome, served, alone>>
  <2>1. pc[r] = "clear"
    BY DEF ClearReports
  <2>2. DOMAIN changes = freed \cup {m} /\ point \in {"commit", "reference"}
    OBVIOUS
  <2>3. alone => reports[r] = Cleared(m, row) /\ KeepsOwner(m, row)
    BY <2>1 DEF AloneInv, AloneRequestInv, Fresh
  <2>4. alone => freed = Cleared(m, row)
    BY <2>3 DEF Cleared
  <2>5. alone /\ input[r].op # "join" => CanManageTarget(actor[r], rows[m])
    BY <2>1 DEF AloneInv, AloneRequestInv, Locked
  <2> HIDE DEF m, row, freed, point, changes
  <2>6. /\ pc'[r] = point /\ writes'[r] = changes /\ Written(r)' = freed \cup {m}
        /\ \A q \in Requests \ {r} : pc'[q] = pc[q]
    BY <1>2, <2>2 DEF Goto, TypeOK, Written
  <2>7. /\ KeepsOwner(target[r], draft[r])' <=> KeepsOwner(m, row)
        /\ Cleared(target[r], draft[r])' = Cleared(m, row)
        /\ ValidSupervisor(draft[r])'
    BY <1>2 DEF KeepsOwner, Cleared, ValidSupervisor, m, row
  <2>8. target'[r] = m
    BY <1>2 DEF m
  <2>9. ASSUME alone PROVE AloneRequestInv(r)'
    <3>1. input'[r].op # "join" => CanManageTarget(actor'[r], rows'[m])
      BY <1>2, <2>5, <2>9
    <3>2. Written(r)' = {target'[r]} \cup Cleared(target[r], draft[r])'
      BY <2>4, <2>6, <2>7, <2>8, <2>9
    <3>3. KeepsOwner(target[r], draft[r])'
      BY <2>3, <2>7, <2>9
    <3>4. pc'[r] # "clear"
      BY <2>2, <2>6
    <3> QED
      BY <2>7, <2>8, <3>1, <3>2, <3>3, <3>4 DEF AloneRequestInv
  <2> QED
    BY <1>2, <2>1, <2>6, <2>9, AloneQuiet
<1> QED
  BY <1>1, <1>2 DEF ClearReports

\* The foreign key changes nothing.
LEMMA AloneReference ==
    ASSUME Inv, AloneInv, NEW r \in Requests, Reference(r)
    PROVE  AloneInv'
<1> USE DEF Inv
<1>1. CASE Reject(r, "raised")
  BY <1>1, AloneReject DEF Reference
<1>2. CASE /\ Goto(r, "commit")
           /\ UNCHANGED <<rows, writes, input, actor, target, draft, reports, outcome, served, alone>>
  <2>1. /\ pc[r] = "reference" /\ pc'[r] = "commit"
        /\ \A q \in Requests \ {r} : pc'[q] = pc[q]
    BY <1>2 DEF Reference, Goto, TypeOK
  <2>2. /\ KeepsOwner(target[r], draft[r])' <=> KeepsOwner(target[r], draft[r])
        /\ Cleared(target[r], draft[r])' = Cleared(target[r], draft[r])
        /\ ValidSupervisor(draft[r])' <=> ValidSupervisor(draft[r])
        /\ Written(r)' = Written(r)
    BY <1>2 DEF KeepsOwner, Cleared, ValidSupervisor, Written
  <2>3. ~Fresh(r)
    BY <2>1 DEF Fresh
  <2>4. alone => AloneRequestInv(r)'
    BY <1>2, <2>1, <2>2, <2>3 DEF AloneInv, AloneRequestInv, Locked, Wrote
  <2> QED
    BY <1>2, <2>1, <2>4, AloneQuiet
<1> QED
  BY <1>1, <1>2 DEF Reference

\* A new membership takes no owner away, and nobody refers to it.
LEMMA AddedRow ==
    ASSUME Inv, HasOwner(rows), SupervisorsNamed, rows' \in [Members -> Row], NEW m \in Members,
           rows[m].status = "absent", rows'[m].sup = NoMember,
           \A k \in Members \ {m} : rows'[k] = rows[k]
    PROVE  HasOwner(rows') /\ SupervisorsNamed'
<1>1. HasOwner(rows')
  BY DEF HasOwner, ActiveOwner
<1>2. SupervisorsNamed'
  <2> SUFFICES ASSUME NEW k \in Members, rows'[k].sup \notin {NoMember, k}
               PROVE  ActiveSupervisor(rows'[rows'[k].sup])
    BY DEF SupervisorsNamed
  <2>1. k # m /\ rows'[k] = rows[k]
    OBVIOUS
  <2>2. ActiveSupervisor(rows[rows[k].sup])
    BY <2>1 DEF SupervisorsNamed
  <2>3. rows[k].sup \in Members \ {m}
    BY <2>1, <2>2, RowFields DEF Inv, TypeOK, ActiveSupervisor
  <2> QED
    BY <2>1, <2>2, <2>3
<1> QED
  BY <1>1, <1>2
\* A commit of a request that runs alone is a change that the workspace
\* promises, or a supervisor's demotion to a manager of their own: the reports of
\* its target follow it, and the others stay.
LEMMA CommitAlone ==
    ASSUME Inv, AloneInv, alone, NEW r \in Requests, Commit(r)
    PROVE  HasOwner(rows') /\ SupervisorsNamed' /\ (Promise!Next \/ DemotedToItself)
<1> USE DEF Inv
<1> DEFINE m == target[r]
           row == draft[r]
<1>1. pc[r] = "commit" /\ rows' = Overlay(rows, writes[r])
  BY DEF Commit
<1>2. /\ rows' \in [Members -> Row]
      /\ m \in Members /\ rows'[m] = row
      /\ \A k \in Members \ {m} :
            /\ k \in Written(r) => rows'[k] = [rows[k] EXCEPT !.sup = NoMember]
            /\ k \notin Written(r) => rows'[k] = rows[k]
            /\ rows'[k].status = rows[k].status /\ rows'[k].role = rows[k].role
            /\ rows'[k].sup \in {rows[k].sup, NoMember}
  BY <1>1, CommittedRows
<1>3. HasOwner(rows) /\ SupervisorsNamed
  BY DEF AloneInv
<1>4. row \in Row /\ \A k \in Members : rows[k] \in Row
  BY DEF TypeOK
<1>5. CASE Fresh(r)
  <2>1. /\ rows[m].status = "absent" /\ row.status = "active" /\ row.sup = NoMember
        /\ Written(r) = {m} /\ \A k \in Members : UserOf[k] = UserOf[m] => ~Present(rows[k])
    BY <1>5 DEF Fresh, MembershipsOf
  <2> HIDE DEF m, row
  <2>2. \A k \in Members \ {m} : rows'[k] = rows[k]
    BY <1>2, <2>1
  <2>3. HasOwner(rows') /\ SupervisorsNamed'
    BY <1>2, <1>3, <2>1, <2>2, AddedRow
  <2>4. Promise!Admit(m)
    BY <1>2, <1>4, <2>1 DEF Promise!Admit, Promise!Present, Present, Row, Promise!Roles, Roles,
       Promise!Statuses, Statuses
  <2>5. Promise!OthersFollow(m)
    <3>1. \A k \in Members : rows[k].sup # m
      <4> SUFFICES ASSUME NEW k \in Members, rows[k].sup = m PROVE FALSE
        OBVIOUS
      <4>1. Present(rows[k]) /\ rows[k].sup # NoMember
        BY <1>2, NoMemberAssumption DEF Vacant
      <4>2. Present(rows[m])
        BY <4>1 DEF ReferencesHold
      <4> QED
        BY <2>1, <4>2 DEF Present, Statuses
    <3> QED
      BY <2>2, <3>1 DEF Promise!OthersFollow
  <2> QED
    BY <1>2, <2>3, <2>4, <2>5 DEF Promise!Next, Promise!Row, Row, Promise!Roles, Roles,
       Promise!Statuses, Statuses, Promise!HasOwner, HasOwner, Promise!ActiveOwner, ActiveOwner
<1>6. CASE ~Fresh(r)
  <2>1. /\ Present(rows[m])
        /\ Present(row) \/ (row.status = "deleted" /\ row.sup = NoMember)
    BY <1>1, <1>6 DEF RequestInv, Locked, Known
  <2>2. AloneRequestInv(r)
    BY DEF AloneInv
  <2>3. KeepsOwner(m, row) /\ ValidSupervisor(row) /\ Written(r) = {m} \cup Cleared(m, row)
    BY <1>1, <1>6, <2>2 DEF AloneRequestInv, Wrote
  <2> HIDE DEF m, row
  <2>4. \A k \in Members \ {m} :
           k \in Written(r) <=> rows[k].sup = m /\ ~ActiveSupervisor(row)
    <3> TAKE k \in Members \ {m}
    <3>1. rows[k].sup = m => ActiveSupervisor(rows[m])
      BY <1>2, <1>3, NoMemberAssumption DEF SupervisorsNamed
    <3>2. row.status = "deleted" => ~ActiveSupervisor(row)
      BY DEF ActiveSupervisor
    <3> QED
      BY <2>3, <3>1, <3>2 DEF Cleared
  <2>5. \A k \in Members \ {m} :
           rows'[k] = IF rows[k].sup = m /\ ~ActiveSupervisor(row)
                      THEN [rows[k] EXCEPT !.sup = NoMember] ELSE rows[k]
    BY <1>2, <2>4
  <2>6. HasOwner(rows')
    <3>1. \A k \in Members \ {m} : ActiveOwner(rows[k]) => ActiveOwner(rows'[k])
      BY <1>2 DEF ActiveOwner
    <3>2. PICK w \in Members : ActiveOwner(rows[w])
      BY <1>3 DEF HasOwner
    <3>3. CASE w # m
      BY <3>1, <3>2, <3>3 DEF HasOwner
    <3>4. CASE w = m
      BY <1>2, <2>3, <3>1, <3>2, <3>4 DEF HasOwner, KeepsOwner
    <3> QED
      BY <3>3, <3>4
  <2>7. SupervisorsNamed'
    <3> SUFFICES ASSUME NEW k \in Members, rows'[k].sup \notin {NoMember, k}
                 PROVE  ActiveSupervisor(rows'[rows'[k].sup])
      BY DEF SupervisorsNamed
    <3> DEFINE s == rows'[k].sup
    <3>1. s \in Members
      BY <1>2, RowFields
    <3>2. ActiveSupervisor(rows[s]) /\ s # m => ActiveSupervisor(rows'[s])
      BY <1>2, <3>1 DEF ActiveSupervisor
    <3>3. CASE k = m
      <4>1. ActiveSupervisor(rows[s])
        BY <1>2, <2>3, <3>3 DEF ValidSupervisor
      <4> QED
        BY <3>2, <3>3, <4>1
    <3>4. CASE k # m
      <4>1. s = rows[k].sup
        BY <1>2, <3>4
      <4>2. ActiveSupervisor(rows[s])
        BY <1>3, <4>1 DEF SupervisorsNamed
      <4>3. s = m => ActiveSupervisor(row)
        <5> SUFFICES ASSUME s = m, ~ActiveSupervisor(row) PROVE FALSE
          OBVIOUS
        <5>1. rows'[k] = [rows[k] EXCEPT !.sup = NoMember]
          BY <2>5, <3>4, <4>1
        <5>2. [rows[k] EXCEPT !.sup = NoMember].sup = NoMember
          BY <1>4, RowFields
        <5> QED
          BY <5>1, <5>2
      <4> QED
        BY <1>2, <3>2, <4>2, <4>3
    <3> QED
      BY <3>3, <3>4
  <2>8. Promise!OthersFollow(m)
    BY <1>2, <2>5 DEF Promise!OthersFollow, Promise!ActiveSupervisor, ActiveSupervisor
  <2>9. CASE row.sup = m /\ row.sup # NoMember
    <3>1. row.role = "manager" /\ ActiveSupervisor(rows[m]) /\ Present(row)
      BY <2>1, <2>3, <2>9 DEF ValidSupervisor
    <3>2. DemotedToItself
      BY <1>2, <2>8, <2>9, <3>1 DEF DemotedToItself
    <3> QED
      BY <2>6, <2>7, <3>2
  <2>10. CASE row.sup # m \/ row.sup = NoMember
    <3>1. row.sup # NoMember => row.role = "manager" /\ ActiveSupervisor(rows'[row.sup])
      <4> SUFFICES ASSUME row.sup # NoMember
                   PROVE  row.role = "manager" /\ ActiveSupervisor(rows'[row.sup])
        OBVIOUS
      <4>1. row.role = "manager" /\ ActiveSupervisor(rows[row.sup])
        BY <2>3 DEF ValidSupervisor
      <4>2. row.sup \in Members \ {m}
        BY <1>4, <2>10, RowFields
      <4>3. rows'[row.sup].role = rows[row.sup].role /\ rows'[row.sup].status = rows[row.sup].status
        BY <1>2, <4>2
      <4> QED
        BY <4>1, <4>3 DEF ActiveSupervisor
    <3>2. Promise!Change(m) \/ Promise!Remove(m)
      BY <1>2, <2>1, <3>1 DEF Promise!Change, Promise!Remove, Promise!Present, Present,
         Promise!Statuses, Statuses, Promise!ActiveSupervisor, ActiveSupervisor
    <3> QED
      BY <1>2, <2>6, <2>7, <2>8, <3>2 DEF Promise!Next, Promise!Row, Row, Promise!Roles, Roles,
         Promise!Statuses, Statuses, Promise!HasOwner, HasOwner, Promise!ActiveOwner, ActiveOwner
  <2> QED
    BY <2>9, <2>10
<1> QED
  BY <1>5, <1>6

\* So is a creation.
LEMMA CreateAlone ==
    ASSUME Inv, AloneInv, NEW r \in Requests, CreateByEmail(r)
    PROVE  \/ Reject(r, "duplicate")
           \/ /\ Finish(r, "done")
              /\ \A k \in Members : Present(rows[k]) => rows'[k] = rows[k]
              /\ alone => HasOwner(rows') /\ SupervisorsNamed' /\ Promise!Next
<1> USE DEF Inv
<1> DEFINE u == input[r].user
           row == [role |-> input[r].role, status |-> "active", sup |-> NoMember]
<1> SUFFICES ASSUME /\ MembershipsOf(u) = {}
                    /\ \E m \in Members :
                          /\ UserOf[m] = u /\ rows[m].status = "absent"
                          /\ rows' = [rows EXCEPT ![m] = row]
                    /\ Finish(r, "done")
             PROVE  /\ \A k \in Members : Present(rows[k]) => rows'[k] = rows[k]
                    /\ alone => HasOwner(rows') /\ SupervisorsNamed' /\ Promise!Next
  BY DEF CreateByEmail
<1>1. PICK m \in Members : /\ UserOf[m] = u /\ rows[m].status = "absent"
                           /\ rows' = [rows EXCEPT ![m] = row]
  OBVIOUS
<1>2. input[r].role \in Roles
  BY InputTypes DEF CreateByEmail, RequestInv, TypeOK
<1>3. row.sup = NoMember /\ row \in [role : Roles, status : {"active"}, sup : {NoMember}]
      /\ row \in Row
  BY <1>2, NewRows
<1>4. \A k \in Members : UserOf[k] = u => ~Present(rows[k])
  BY DEF MembershipsOf
<1> HIDE DEF u, row
<1>5. /\ rows' \in [Members -> Row] /\ rows'[m] = row
      /\ \A k \in Members \ {m} : rows'[k] = rows[k]
  BY <1>1, <1>3 DEF TypeOK
<1>6. \A k \in Members : Present(rows[k]) => rows'[k] = rows[k]
  BY <1>1, <1>5 DEF Present, Statuses
<1>7. ASSUME alone PROVE HasOwner(rows') /\ SupervisorsNamed' /\ Promise!Next
  <2>1. HasOwner(rows') /\ SupervisorsNamed'
    BY <1>1, <1>3, <1>5, <1>7, AddedRow DEF AloneInv
  <2>2. Promise!Admit(m)
    BY <1>1, <1>3, <1>4, <1>5 DEF Promise!Admit, Promise!Present, Present, Promise!Roles, Roles,
       Promise!Statuses, Statuses
  <2>3. Promise!OthersFollow(m)
    <3>1. \A k \in Members : rows[k].sup # m
      <4> SUFFICES ASSUME NEW k \in Members, rows[k].sup = m PROVE FALSE
        OBVIOUS
      <4>1. Present(rows[k]) /\ rows[k].sup # NoMember
        BY NoMemberAssumption DEF Vacant
      <4>2. Present(rows[m])
        BY <4>1 DEF ReferencesHold
      <4> QED
        BY <1>1, <4>2 DEF Present, Statuses
    <3> QED
      BY <1>5, <3>1 DEF Promise!OthersFollow
  <2> QED
    BY <1>5, <2>1, <2>2, <2>3 DEF Promise!Next, Promise!Row, Row, Promise!Roles, Roles,
       Promise!Statuses, Statuses, Promise!HasOwner, HasOwner, Promise!ActiveOwner, ActiveOwner
<1> QED
  BY <1>6, <1>7
\* Every step keeps what a request that runs alone knows.
LEMMA AloneNext == Inv /\ AloneInv /\ [Next]_vars => AloneInv'
<1> SUFFICES ASSUME Inv, AloneInv, [Next]_vars PROVE AloneInv'
  OBVIOUS
<1>0. TypeOK /\ Inv'
  BY NextInv DEF Inv
<1>1. ASSUME UNCHANGED vars PROVE AloneInv'
  BY <1>1 DEF vars, AloneInv, AloneRequestInv, HasOwner, ActiveOwner, SupervisorsNamed, InFlight,
     CanManageTarget, KeepsOwner, Cleared, ValidSupervisor, Fresh, Written, Holds, MembershipsOf
<1>2. ASSUME NEW r \in Requests, NEW i \in Inputs, Arrive(r, i) PROVE AloneInv'
  BY <1>0, <1>2, AloneArrive
<1>3. ASSUME NEW r \in Requests, ResolveActor(r) \/ LockTarget(r) \/ CheckSupervisor(r)
      PROVE  AloneInv'
  BY <1>3, AloneEarly
<1>4. ASSUME NEW r \in Requests,
             GetTarget(r) \/ Join(r) \/ Guard(r) \/ ClearReports(r) \/ Reference(r)
      PROVE  AloneInv'
  BY <1>0, <1>4, AloneGet, AloneJoin, AloneGuard, AloneClear, AloneReference
<1>5. ASSUME NEW r \in Requests, CreateByEmail(r) PROVE AloneInv'
  <2>1. pc[r] # "idle"
    BY <1>5 DEF CreateByEmail
  <2> QED
    BY <1>0, <1>5, <2>1, CreateAlone, AloneReject, AloneFinish
<1>6. ASSUME NEW r \in Requests, Commit(r) PROVE AloneInv'
  <2>1. pc[r] # "idle" /\ Finish(r, "done")
    BY <1>6 DEF Commit
  <2> QED
    BY <1>0, <1>6, <2>1, CommitAlone, AloneFinish
<1>7. ASSUME NEW r \in Requests, DeadlockVictim(r) PROVE AloneInv'
  <2>1. PICK S \in SUBSET Requests : r \in S /\ \A q \in S : \E p \in S : WaitsFor(q, p)
    BY <1>7 DEF DeadlockVictim
  <2>2. \E p \in Requests : WaitsFor(r, p)
    BY <2>1
  <2>3. pc[r] # "idle"
    BY <2>2 DEF WaitsFor, Wanted
  <2> QED
    BY <1>0, <1>7, <2>3, AloneReject DEF DeadlockVictim
<1>8. ASSUME Terminated PROVE AloneInv'
  BY <1>1, <1>8 DEF Terminated
<1> QED
  BY <1>1, <1>2, <1>3, <1>4, <1>5, <1>6, <1>7, <1>8 DEF Next, Step

\* Nothing is known of a request before the first one.
LEMMA AloneInit == Init => AloneInv
<1> SUFFICES ASSUME Init PROVE AloneInv
  OBVIOUS
<1>1. HasOwner(rows) /\ SupervisorsNamed
  BY MembershipsAssumption DEF Init, SupervisorsNamed
<1>2. \A r \in Requests : pc[r] = "idle"
  BY DEF Init
<1> QED
  BY <1>1, <1>2 DEF AloneInv, AloneRequestInv, InFlight, Locked, Wrote

\* Both invariants hold in every state.
THEOREM AloneInvariance == Spec => [](Inv /\ AloneInv)
<1>1. Init => Inv /\ AloneInv
  BY InitInv, AloneInit
<1>2. Inv /\ AloneInv /\ [Next]_vars => Inv' /\ AloneInv'
  BY NextInv, AloneNext
<1> QED
  BY <1>1, <1>2, PTL DEF Spec

-------------------------------------------------------------------------------
(* What a request that runs alone does. *)

\* Only creations and commits change the table.
LEMMA RowsChange ==
    ASSUME Next, rows' # rows
    PROVE  \E r \in Requests : CreateByEmail(r) \/ Commit(r)
BY DEF Next, Step, Terminated, vars, Arrive, ResolveActor, GetTarget, LockTarget, CheckSupervisor,
   Join, Guard, ClearReports, Reference, DeadlockVictim, Reject

\* Requests that have overlapped stay so.
LEMMA StillAlone ==
    ASSUME NEW r \in Requests, CreateByEmail(r) \/ Commit(r)
    PROVE  alone' = alone
BY DEF CreateByEmail, Commit, Reject, Finish

\* As long as requests do not overlap, owners and admins change by a request of
\* an owner, or by an acceptance of their own.
THEOREM RanksAreProtected == Spec => RankIsProtected
<1> DEFINE A == \A m \in Members :
          /\ alone'
          /\ Present(rows[m]) /\ rows[m].role \in {"owner", "admin"}
          /\ rows'[m] # rows[m]
          => \E r \in Requests :
                /\ m \in DOMAIN writes[r] /\ pc[r] = "commit"
                /\ actor[r].role = "owner" \/ (input[r].op = "join" /\ input[r].user = UserOf[m])
<1>1. ASSUME Inv, AloneInv, [Next]_vars PROVE [A]_vars
  <2> SUFFICES ASSUME Next, NEW m \in Members, alone',
                      Present(rows[m]), rows[m].role \in {"owner", "admin"},
                      rows'[m] # rows[m]
               PROVE  \E r \in Requests :
                         /\ m \in DOMAIN writes[r] /\ pc[r] = "commit"
                         /\ \/ actor[r].role = "owner"
                            \/ input[r].op = "join" /\ input[r].user = UserOf[m]
    BY <1>1 DEF vars
  <2>1. PICK r \in Requests : CreateByEmail(r) \/ Commit(r)
    BY RowsChange
  <2>2. Commit(r)
    BY <1>1, <2>1, CreateAlone DEF Reject
  <2>3. pc[r] = "commit" /\ rows' = Overlay(rows, writes[r]) /\ alone
    BY <2>1, <2>2, StillAlone DEF Commit
  <2>4. m = target[r]
    <3> SUFFICES ASSUME m # target[r] PROVE FALSE
      OBVIOUS
    <3>1. rows'[m] = [rows[m] EXCEPT !.sup = NoMember]
      BY <1>1, <2>3, CommittedRows
    <3>2. rows[m].sup = NoMember
      BY <1>1 DEF Inv, ReferencesHold
    <3>3. [rows[m] EXCEPT !.sup = NoMember] = rows[m]
      BY <1>1, <3>2 DEF Inv, TypeOK, Row
    <3> QED
      BY <3>1, <3>3
  <2>5. m \in Written(r) /\ (input[r].op = "join" => UserOf[m] = input[r].user)
    BY <1>1, <2>3, <2>4 DEF Inv, RequestInv, Locked, Wrote
  <2>6. input[r].op # "join" => actor[r].role = "owner"
    BY <1>1, <2>3, <2>4 DEF AloneInv, AloneRequestInv, Locked, CanManageTarget, CanManageAdmins
  <2> QED
    BY <2>3, <2>5, <2>6 DEF Written
<1>2. Spec => [][A]_vars
  BY <1>1, AloneInvariance, PTL DEF Spec
<1> QED
  BY <1>2 DEF RankIsProtected

\* As long as requests do not overlap, the memberships change as Roster allows,
\* but for a supervisor's demotion to a manager of their own.
THEOREM RosterImplemented == Spec => ImplementsRoster
<1> DEFINE A == alone' /\ rows' # rows => Promise!Next \/ DemotedToItself
<1>1. Init => Promise!Init
  BY DEF Init, Promise!Init
<1>2. ASSUME Inv, AloneInv, [Next]_vars PROVE [A]_vars
  <2> SUFFICES ASSUME Next, alone', rows' # rows PROVE Promise!Next \/ DemotedToItself
    BY <1>2 DEF vars
  <2>1. PICK r \in Requests : CreateByEmail(r) \/ Commit(r)
    BY RowsChange
  <2>2. alone
    BY <2>1, StillAlone
  <2> QED
    BY <1>2, <2>1, <2>2, CreateAlone, CommitAlone DEF Reject
<1>3. Spec => Promise!Init /\ [][A]_vars
  BY <1>1, <1>2, AloneInvariance, PTL DEF Spec
<1> QED
  BY <1>3 DEF ImplementsRoster

===============================================================================

--------------------------- MODULE InvitationsProofs ---------------------------
(***************************************************************************)
(* Theorems about Invitations for any invitations, guests and requests.    *)
(***************************************************************************)
EXTENDS Invitations, TLAPS

-------------------------------------------------------------------------------
(* The inductive invariant. *)

\* What the place of a request says of its input and of the rows it is about: a
\* transaction that is accepting has locked its invitation, which is pending for
\* that reason until it ends; one that is inserting has deleted what it found,
\* unless a delete failed.
RequestInv(r) ==
    /\ pc[r] \notin {"account", "member", "commit"} => locks[r] = {}
    /\ pc[r] \in {"check", "scan", "delete", "insert", "remove", "login"} =>
           input[r].user \in Guests
    /\ pc[r] \in {"scan", "delete", "insert"} => MayInvite(input[r].by, input[r].role)
    /\ pc[r] = "mail" => made[r] \in Invites /\ invites[made[r]].state # "none"
    /\ pc[r] \in {"revoke", "info", "lock", "account", "member", "commit"} =>
           input[r].row \in Invites /\ invites[input[r].row].state # "none"
    /\ pc[r] \in {"lock", "account", "member", "commit"} =>
           \/ input[r].op = "accept" /\ input[r].user \in Guests
           \/ input[r].op = "register"
    /\ pc[r] \in {"account", "member", "commit"} =>
           Invited(input[r].row) \in locks[r] /\ invites[input[r].row].state = "pending"
    /\ \A i \in Invites : Invited(i) \in locks[r] => i = input[r].row
    /\ \A i \in found[r] : invites[i].state # "none"
    /\ pc[r] = "insert" /\ faults = 0 => \A i \in found[r] : i \notin Unaccepted

\* No row is locked twice.
LocksInv == \A r, q \in Requests : r # q => locks[r] \cap locks[q] = {}

\* An invitation that was issued is for a guest, by somebody who may send it; it
\* knows issued ones only; and its admissions are those of its state.
InviteInv(i) ==
    /\ invites[i].state # "none" =>
           invites[i].email \in Guests /\ MayInvite(invites[i].by, invites[i].role)
    /\ \A k \in invites[i].knew : invites[k].state # "none"
    /\ admissions[i] = IF invites[i].state = "accepted" THEN 1 ELSE 0

InvitesInv ==
    /\ \A i \in Invites : InviteInv(i)
    /\ \A i \in mailed : invites[i].state # "none"

Inv ==
    /\ TypeOK
    /\ \A r \in Requests : RequestInv(r)
    /\ LocksInv /\ InvitesInv /\ AdmittedByRank /\ PendingOverlap

-------------------------------------------------------------------------------
(* Inputs and rows. *)

\* The first statement of each request.
LEMMA EntryPoint ==
    /\ Entry["invite"] = "check" /\ Entry["revoke"] = "revoke" /\ Entry["info"] = "info"
    /\ Entry["accept"] = "lock" /\ Entry["register"] = "lock" /\ Entry["remove"] = "remove"
    /\ Entry["login"] = "login" /\ Entry["refresh"] = "refresh"
BY DEF Entry

\* All the points at which a request can be.
Points ==
    {"idle", "check", "scan", "delete", "insert", "mail", "revoke", "info", "lock", "account",
     "member", "commit", "remove", "login", "refresh"}

\* Every place a request can be at.
LEMMA AllPoints ==
    {Entry[op] : op \in AllOps} \cup
        {"idle", "scan", "delete", "insert", "mail", "account", "member", "commit"} = Points
BY EntryPoint DEF AllOps, Points

\* What a client can ask for.
LEMMA AskedInput ==
    ASSUME TypeOK, NEW op \in Ops, NEW a \in Asked(op)
    PROVE  /\ a.user \in Guests \cup {NoOne} /\ a.by \in Roles /\ a.role \in Roles
           /\ a.row \in Invites \cup {NoOne}
           /\ op \in {"invite", "remove", "login", "accept"} => a.user \in Guests
           /\ op = "revoke" => a.row \in Listed
           /\ op \in {"info", "register", "accept"} => a.row \in mailed
<1> USE DEF Roles
<1>1. op \in AllOps
  BY InvitationsAssumption
<1>2. CASE op = "invite"
  BY <1>2 DEF Asked
<1>3. CASE op = "revoke"
  BY <1>3 DEF Asked, Listed
<1>4. CASE op \in {"info", "register"}
  BY <1>4 DEF Asked, TypeOK
<1>5. CASE op = "accept"
  BY <1>5 DEF Asked, TypeOK
<1>6. CASE op = "refresh"
  BY <1>6 DEF Asked, TypeOK, Sessions
<1>7. CASE op \in {"remove", "login"}
  BY <1>7 DEF Asked
<1> QED
  BY <1>1, <1>2, <1>3, <1>4, <1>5, <1>6, <1>7 DEF AllOps

-------------------------------------------------------------------------------
(* What steps have in common. *)

\* The rows of invitations only move on: one that was issued stays as it was
\* issued, and one that is not waiting for an answer never does so again.
Evolves ==
    \A i \in Invites : invites[i].state # "none" =>
        /\ invites'[i].state # "none"
        /\ invites'[i].email = invites[i].email /\ invites'[i].by = invites[i].by
        /\ invites'[i].role = invites[i].role /\ invites'[i].knew = invites[i].knew
        /\ invites[i].state \in {"deleted", "accepted"} => invites'[i] = invites[i]

\* A step of r changes nothing of the other requests, nor of the rows they have
\* locked.
Elsewhere(r) ==
    \A q \in Requests \ {r} :
        /\ pc'[q] = pc[q] /\ input'[q] = input[q] /\ found'[q] = found[q]
        /\ made'[q] = made[q] /\ locks'[q] = locks[q]
        /\ \A i \in Invites : Invited(i) \in locks[q] => invites'[i] = invites[i]

\* The other requests are where they were.
LEMMA OtherRequests ==
    ASSUME Inv, NEW r \in Requests, Evolves, Elsewhere(r), faults' = 0 => faults = 0,
           invites' \in [Invites -> Invitation]
    PROVE  \A q \in Requests \ {r} : RequestInv(q)'
<1> TAKE q \in Requests \ {r}
<1>1. /\ pc'[q] = pc[q] /\ input'[q] = input[q] /\ found'[q] = found[q]
      /\ made'[q] = made[q] /\ locks'[q] = locks[q]
      /\ \A i \in Invites : Invited(i) \in locks[q] => invites'[i] = invites[i]
  BY DEF Elsewhere
<1>2. \A i \in Invites : invites[i].state # "none" => invites'[i].state # "none"
  BY DEF Evolves
<1>3. found[q] \subseteq Invites
  BY DEF Inv, TypeOK
<1>4. \A i \in Invites : invites[i].state # "none" /\ i \notin Unaccepted => i \notin Unaccepted'
  BY DEF Evolves, Unaccepted, Inv, TypeOK, Invitation
<1>5. RequestInv(q)
  BY DEF Inv
<1> QED
  BY <1>1, <1>2, <1>3, <1>4, <1>5 DEF RequestInv, Invited

\* A request that is answered has no transaction, and found and made nothing.
LEMMA AnsweredRequest ==
    ASSUME Inv, NEW r \in Requests, NEW result, Answer(r, result),
           result \in {"done", "refused", "error"}
    PROVE  /\ pc' \in [Requests -> Points] /\ input' \in [Requests -> Input]
           /\ found' \in [Requests -> SUBSET Invites]
           /\ made' \in [Requests -> Invites \cup {NoOne}]
           /\ locks' \in [Requests -> SUBSET Rows]
           /\ outcome' \in {"none", "done", "refused", "error"}
           /\ RequestInv(r)' /\ LocksInv'
           /\ \A q \in Requests \ {r} :
                 /\ pc'[q] = pc[q] /\ input'[q] = input[q] /\ found'[q] = found[q]
                 /\ made'[q] = made[q] /\ locks'[q] = locks[q]
<1> USE DEF Inv, TypeOK, Answer
<1>1. pc' \in [Requests -> Points] /\ pc'[r] = "idle"
  BY AllPoints DEF Points
<1>2. input' \in [Requests -> Input]
  BY DEF Input, NoInput, Roles
<1>3. /\ found' \in [Requests -> SUBSET Invites] /\ found'[r] = {}
      /\ made' \in [Requests -> Invites \cup {NoOne}]
      /\ locks' \in [Requests -> SUBSET Rows] /\ locks'[r] = {}
  OBVIOUS
<1>4. RequestInv(r)'
  BY <1>1, <1>3 DEF RequestInv
<1>5. \A q \in Requests \ {r} :
         /\ pc'[q] = pc[q] /\ input'[q] = input[q] /\ found'[q] = found[q]
         /\ made'[q] = made[q] /\ locks'[q] = locks[q]
  OBVIOUS
<1>6. LocksInv'
  BY <1>3, <1>5 DEF LocksInv
<1> QED
  BY <1>1, <1>2, <1>3, <1>4, <1>5, <1>6

\* The rows of invitations when a step leaves them, or issues none.
LEMMA UntouchedInvites ==
    ASSUME Inv, UNCHANGED <<invites, admissions, mailed>>
    PROVE  Evolves /\ InvitesInv'
<1>1. \A i \in Invites : InviteInv(i)'
  BY DEF Inv, InvitesInv, InviteInv
<1> QED
  BY <1>1 DEF Inv, InvitesInv, Evolves

\* Pending invitations do not overlap by a step that leaves them alone.
LEMMA UntouchedPending ==
    ASSUME Inv, UNCHANGED invites, faults' = 0 => faults = 0
    PROVE  PendingOverlap'
BY DEF Inv, PendingOverlap, Unaccepted

\* The members when a step leaves their roles: an accepted invitation stays so.
LEMMA UntouchedMembers ==
    ASSUME Inv, Evolves,
           \A u \in Guests : members'[u] \in {members[u], "none"}
    PROVE  AdmittedByRank'
<1> SUFFICES ASSUME NEW u \in Guests, members'[u] \in {"owner", "admin"}
             PROVE  \E i \in Invites : /\ invites'[i].state = "accepted"
                                       /\ invites'[i].role = members'[u]
                                       /\ invites'[i].by = "owner"
  BY DEF AdmittedByRank
<1>1. members'[u] = members[u]
  OBVIOUS
<1>2. PICK i \in Invites : /\ invites[i].state = "accepted" /\ invites[i].role = members[u]
                           /\ invites[i].by = "owner"
  BY <1>1 DEF Inv, AdmittedByRank
<1>3. invites'[i] = invites[i]
  BY <1>2 DEF Evolves
<1> QED
  BY <1>1, <1>2, <1>3

\* A request that ends without a change to an invitation.
LEMMA AnsweredInv ==
    ASSUME Inv, NEW r \in Requests, NEW result, Answer(r, result),
           result \in {"done", "refused", "error"},
           UNCHANGED <<invites, mailed, admissions, served>>,
           members' \in [Guests -> Roles \cup {"none"}],
           \A u \in Guests : members'[u] \in {members[u], "none"},
           accounts' = accounts,
           sessions' \subseteq Sessions, held' \subseteq Sessions,
           faults' \in 0..MaxFaults, faults' = 0 => faults = 0
    PROVE  Inv'
<1>1. Evolves /\ InvitesInv' /\ PendingOverlap'
  BY UntouchedInvites, UntouchedPending
<1>2. AdmittedByRank'
  BY <1>1, UntouchedMembers
<1>3. RequestInv(r)' /\ LocksInv'
  BY AnsweredRequest
<1>4. Elsewhere(r)
  BY AnsweredRequest DEF Elsewhere
<1>5. \A q \in Requests \ {r} : RequestInv(q)'
  BY <1>1, <1>4, OtherRequests DEF Inv, TypeOK
<1>6. TypeOK'
  <2>1. /\ pc' \in [Requests -> Points] /\ input' \in [Requests -> Input]
        /\ found' \in [Requests -> SUBSET Invites]
        /\ made' \in [Requests -> Invites \cup {NoOne}]
        /\ locks' \in [Requests -> SUBSET Rows]
        /\ outcome' \in {"none", "done", "refused", "error"}
    BY AnsweredRequest
  <2>2. invites' \in [Invites -> Invitation] /\ mailed' \subseteq Invites
        /\ accounts' \in [Guests -> {"none", "unverified", "active"}]
        /\ admissions' \in [Invites -> Nat] /\ served' \in 0..MaxRequests
    BY DEF Inv, TypeOK
  <2> QED
    BY <2>1, <2>2, AllPoints DEF TypeOK
<1> QED
  BY <1>1, <1>2, <1>3, <1>5, <1>6 DEF Inv

\* A request that goes on, and changes no invitation.
LEMMA GoesOnInv ==
    ASSUME Inv, NEW r \in Requests, NEW point \in Points, Goto(r, point),
           UNCHANGED <<invites, members, accounts, sessions, ghosts, input, made>>,
           found' \in [Requests -> SUBSET Invites], locks' \in [Requests -> SUBSET Rows],
           \A q \in Requests \ {r} : found'[q] = found[q] /\ locks'[q] = locks[q],
           RequestInv(r)', LocksInv'
    PROVE  Inv'
<1> USE DEF ghosts
<1>1. Evolves /\ InvitesInv' /\ PendingOverlap'
  BY UntouchedInvites, UntouchedPending
<1>2. AdmittedByRank'
  BY <1>1, UntouchedMembers
<1>3. Elsewhere(r)
  BY DEF Elsewhere, Goto, Inv, TypeOK
<1>4. \A q \in Requests \ {r} : RequestInv(q)'
  BY <1>1, <1>3, OtherRequests DEF Inv, TypeOK
<1>5. TypeOK'
  <2>1. pc' \in [Requests -> Points] /\ outcome' = outcome
    BY AllPoints DEF Inv, TypeOK, Goto
  <2> QED
    BY <2>1, AllPoints DEF Inv, TypeOK
<1> QED
  BY <1>1, <1>2, <1>4, <1>5 DEF Inv

-------------------------------------------------------------------------------
(* The steps. *)

\* Nothing is issued, locked or asked for in the beginning.
LEMMA InitInv == Init => Inv
<1> SUFFICES ASSUME Init PROVE Inv
  OBVIOUS
<1> USE DEF Init
<1>1. TypeOK
  <2>1. invites \in [Invites -> Invitation]
    BY DEF Invitation, Roles
  <2>2. pc \in [Requests -> Points] /\ input \in [Requests -> Input]
    BY DEF Points, Input, NoInput, Roles
  <2>3. 0 \in 0..MaxRequests /\ 0 \in 0..MaxFaults
    BY InvitationsAssumption
  <2> QED
    BY <2>1, <2>2, <2>3, AllPoints DEF TypeOK
<1>2. \A r \in Requests : RequestInv(r)
  BY DEF RequestInv
<1>3. LocksInv /\ InvitesInv
  BY DEF LocksInv, InvitesInv, InviteInv
<1>4. AdmittedByRank /\ PendingOverlap
  BY DEF AdmittedByRank, PendingOverlap, Unaccepted
<1> QED
  BY <1>1, <1>2, <1>3, <1>4 DEF Inv

\* A request arrives with an input that a client can have.
LEMMA ArriveInv ==
    ASSUME Inv, NEW r \in Requests, Arrive(r)
    PROVE  Inv'
<1>0. PICK op \in Ops : \E a \in Asked(op) :
         /\ input' = [input EXCEPT ![r] = [op |-> op, by |-> a.by, user |-> a.user,
                                           role |-> a.role, row |-> a.row]]
         /\ Goto(r, Entry[op])
  BY DEF Arrive
<1>1. PICK a \in Asked(op) :
         /\ input' = [input EXCEPT ![r] = [op |-> op, by |-> a.by, user |-> a.user,
                                           role |-> a.role, row |-> a.row]]
         /\ Goto(r, Entry[op])
  BY <1>0
<1>2. /\ pc[r] = "idle" /\ served' \in 0..MaxRequests
      /\ UNCHANGED <<invites, members, accounts, sessions, locks, found, made, held, mailed,
                     admissions, faults, outcome>>
  BY <1>1, InvitationsAssumption DEF Arrive, At, store, Inv, TypeOK, Goto
<1>3. /\ a.user \in Guests \cup {NoOne} /\ a.by \in Roles /\ a.role \in Roles
      /\ a.row \in Invites \cup {NoOne}
      /\ op \in {"invite", "remove", "login", "accept"} => a.user \in Guests
      /\ op = "revoke" => a.row \in Listed
      /\ op \in {"info", "register", "accept"} => a.row \in mailed
  BY AskedInput DEF Inv
<1>4. op \in AllOps
  BY InvitationsAssumption
<1>5. /\ input' \in [Requests -> Input]
      /\ input'[r].op = op /\ input'[r].user = a.user /\ input'[r].row = a.row
  BY <1>1, <1>3 DEF Inv, TypeOK, Input
<1>6. pc' \in [Requests -> Points] /\ pc'[r] = Entry[op]
  <2>1. Entry[op] \in Points
    BY <1>4, EntryPoint DEF AllOps, Points
  <2> QED
    BY <1>1, <2>1, AllPoints DEF Goto, Inv, TypeOK
<1>7. Evolves /\ InvitesInv' /\ PendingOverlap'
  BY <1>2, UntouchedInvites, UntouchedPending
<1>8. AdmittedByRank' /\ LocksInv'
  BY <1>2, <1>7, UntouchedMembers DEF Inv, LocksInv
<1>9. \A q \in Requests \ {r} : RequestInv(q)'
  <2>1. Elsewhere(r)
    BY <1>1, <1>2 DEF Elsewhere, Goto, Inv, TypeOK
  <2> QED
    BY <1>2, <1>7, <2>1, OtherRequests DEF Inv, TypeOK
<1>10. RequestInv(r)'
  <2>1. locks[r] = {} /\ \A i \in found[r] : invites[i].state # "none"
    BY <1>2 DEF Inv, RequestInv
  <2>2. /\ op = "revoke" => a.row \in Invites /\ invites[a.row].state # "none"
        /\ op \in {"info", "register", "accept"} =>
               a.row \in Invites /\ invites[a.row].state # "none"
    BY <1>3 DEF Listed, Inv, TypeOK, InvitesInv
  <2>3. pc'[r] \in {"check", "revoke", "info", "lock", "remove", "login", "refresh"}
    BY <1>4, <1>6, EntryPoint DEF AllOps
  <2>4. /\ pc'[r] \in {"check", "remove", "login"} => op \in {"invite", "remove", "login"}
        /\ pc'[r] \in {"revoke", "info"} => op \in {"revoke", "info"}
        /\ pc'[r] = "lock" => op \in {"accept", "register"}
    BY <1>4, <1>6, EntryPoint DEF AllOps
  <2> QED
    BY <1>2, <1>3, <1>5, <2>1, <2>2, <2>3, <2>4 DEF RequestInv
<1>11. TypeOK'
  BY <1>2, <1>5, <1>6, AllPoints DEF Inv, TypeOK
<1> QED
  BY <1>7, <1>8, <1>9, <1>10, <1>11 DEF Inv

\* Invite's checks let pass only what the actor may send.
LEMMA InviteCheckInv ==
    ASSUME Inv, NEW r \in Requests, InviteCheck(r)
    PROVE  Inv'
<1>1. CASE Only(r, "refused")
  BY <1>1, AnsweredInv DEF Only, ghosts, Inv, TypeOK
<1>2. CASE ~Only(r, "refused")
  <2>1. /\ pc[r] = "check" /\ MayInvite(input[r].by, input[r].role)
        /\ Goto(r, "scan") /\ UNCHANGED <<store, local, ghosts>>
    BY <1>2 DEF InviteCheck, At
  <2>2. UNCHANGED <<invites, members, accounts, sessions, locks, input, found, made, faults>>
    BY <2>1 DEF store, local, ghosts
  <2>3. pc'[r] = "scan"
    BY <2>1 DEF Goto, Inv, TypeOK
  <2>4. RequestInv(r)' /\ LocksInv'
    BY <2>1, <2>2, <2>3 DEF Inv, RequestInv, LocksInv
  <2> QED
    BY <2>1, <2>2, <2>4, GoesOnInv DEF Points, Inv, TypeOK
<1> QED
  BY <1>1, <1>2

\* The delete finds rows that were issued.
LEMMA ScanPendingInv ==
    ASSUME Inv, NEW r \in Requests, ScanPending(r)
    PROVE  Inv'
<1>1. /\ pc[r] = "scan" /\ Goto(r, "delete") /\ found' = [found EXCEPT ![r] = UnacceptedFor(input[r].user)]
      /\ UNCHANGED <<invites, members, accounts, sessions, locks, input, made, ghosts>>
  BY DEF ScanPending, At, store
<1>2. pc'[r] = "delete" /\ faults' = faults
  BY <1>1 DEF Goto, Inv, TypeOK, ghosts
<1>3. /\ UnacceptedFor(input[r].user) \subseteq Invites
      /\ \A i \in UnacceptedFor(input[r].user) : invites[i].state # "none"
  BY DEF UnacceptedFor, Unaccepted
<1>4. /\ found' \in [Requests -> SUBSET Invites] /\ found'[r] = UnacceptedFor(input[r].user)
      /\ \A q \in Requests \ {r} : found'[q] = found[q]
  BY <1>1, <1>3 DEF Inv, TypeOK
<1>5. RequestInv(r)' /\ LocksInv'
  BY <1>1, <1>2, <1>3, <1>4 DEF Inv, RequestInv, LocksInv
<1> QED
  BY <1>1, <1>4, <1>5, GoesOnInv DEF Points, Inv, TypeOK

\* Invitations that were waiting for an answer and that no transaction has locked
\* are withdrawn.
LEMMA WithdrawnInvites ==
    ASSUME Inv, NEW r \in Requests, NEW xs \in SUBSET Invites, invites' = Without(xs),
           Unlocked(r, {Invited(i) : i \in xs}),
           UNCHANGED <<mailed, admissions, faults, members>>
    PROVE  /\ Evolves /\ invites' \in [Invites -> Invitation]
           /\ InvitesInv' /\ PendingOverlap' /\ AdmittedByRank'
           /\ \A i \in xs : i \notin Unaccepted'
           /\ \A q \in Requests \ {r}, i \in Invites :
                 Invited(i) \in locks[q] => invites'[i] = invites[i]
<1>1. \A i \in Invites : invites'[i] = IF i \in xs \cap Unaccepted
                                       THEN [invites[i] EXCEPT !.state = "deleted"]
                                       ELSE invites[i]
  BY DEF Without
<1>2. invites \in [Invites -> Invitation]
  BY DEF Inv, TypeOK
<1>3. invites' \in [Invites -> Invitation]
  BY <1>2 DEF Without, Invitation
<1>4. \A i \in Invites :
         /\ invites'[i].email = invites[i].email /\ invites'[i].by = invites[i].by
         /\ invites'[i].role = invites[i].role /\ invites'[i].knew = invites[i].knew
         /\ invites'[i].state = IF i \in xs \cap Unaccepted THEN "deleted" ELSE invites[i].state
  BY <1>1, <1>2 DEF Invitation
<1>5. \A i \in Unaccepted : invites[i].state \in {"pending", "expired"}
  BY DEF Unaccepted
<1>6. Evolves
  BY <1>1, <1>4, <1>5 DEF Evolves
<1>7. InvitesInv'
  <2>1. \A i \in Invites : InviteInv(i)
    BY DEF Inv, InvitesInv
  <2>2. \A i \in Invites : invites[i].knew \subseteq Invites
    BY <1>2 DEF Invitation
  <2>3. \A i \in Invites : /\ invites'[i].state = "none" <=> invites[i].state = "none"
                           /\ invites'[i].state = "accepted" <=> invites[i].state = "accepted"
    BY <1>4, <1>5
  <2>4. \A i \in Invites : InviteInv(i)'
    BY <1>4, <2>1, <2>2, <2>3 DEF InviteInv
  <2>5. \A i \in mailed' : invites'[i].state # "none"
    BY <2>3 DEF Inv, InvitesInv, TypeOK
  <2> QED
    BY <2>4, <2>5 DEF InvitesInv
<1>8. Unaccepted' = Unaccepted \ xs
  BY <1>4 DEF Unaccepted
<1>9. PendingOverlap'
  <2>1. Unaccepted \subseteq Invites
    BY DEF Unaccepted
  <2> QED
    BY <1>4, <1>8, <2>1 DEF Inv, PendingOverlap
<1>10. AdmittedByRank'
  BY <1>6, UntouchedMembers
<1>11. \A q \in Requests \ {r}, i \in Invites :
          Invited(i) \in locks[q] => invites'[i] = invites[i]
  <2> SUFFICES ASSUME NEW q \in Requests \ {r}, NEW i \in Invites, Invited(i) \in locks[q]
               PROVE  i \notin xs
    BY <1>1
  <2>1. locks[q] \cap {Invited(j) : j \in xs} = {}
    BY DEF Unlocked
  <2> QED
    BY <2>1
<1> QED
  BY <1>3, <1>6, <1>7, <1>8, <1>9, <1>10, <1>11

\* Older pending invitations of the address are deleted.
LEMMA DeletePendingInv ==
    ASSUME Inv, NEW r \in Requests, DeletePending(r)
    PROVE  Inv'
<1>1. /\ pc[r] = "delete" /\ Goto(r, "insert") /\ invites' = Without(found[r])
      /\ Unlocked(r, {Invited(i) : i \in found[r]})
      /\ UNCHANGED <<members, accounts, sessions, locks, input, found, made, held, mailed,
                     admissions, served, faults>>
  BY DEF DeletePending, At, local, ghosts
<1>2. found[r] \in SUBSET Invites
  BY DEF Inv, TypeOK
<1>3. /\ Evolves /\ invites' \in [Invites -> Invitation]
      /\ InvitesInv' /\ PendingOverlap' /\ AdmittedByRank'
      /\ \A i \in found[r] : i \notin Unaccepted'
      /\ \A q \in Requests \ {r}, i \in Invites :
            Invited(i) \in locks[q] => invites'[i] = invites[i]
  BY <1>1, <1>2, WithdrawnInvites
<1>4. pc' = [pc EXCEPT ![r] = "insert"] /\ outcome' = outcome /\ pc'[r] = "insert"
  BY <1>1 DEF Goto, Inv, TypeOK
<1>5. \A q \in Requests \ {r} : RequestInv(q)'
  <2>1. Elsewhere(r)
    BY <1>1, <1>3, <1>4 DEF Elsewhere, Inv, TypeOK
  <2> QED
    BY <1>1, <1>3, <2>1, OtherRequests
<1>6. RequestInv(r)' /\ LocksInv'
  <2>1. \A i \in found[r] : invites'[i].state # "none"
    BY <1>2, <1>3 DEF Evolves, Inv, RequestInv
  <2> QED
    BY <1>1, <1>3, <1>4, <2>1 DEF Inv, RequestInv, LocksInv
<1>7. TypeOK'
  <2>1. pc' \in [Requests -> Points]
    BY <1>4, AllPoints DEF Inv, TypeOK, Points
  <2> QED
    BY <1>1, <1>3, <1>4, <2>1, AllPoints DEF Inv, TypeOK
<1> QED
  BY <1>3, <1>5, <1>6, <1>7 DEF Inv

\* A delete that fails is counted as a fault.
LEMMA LoseDeleteInv ==
    ASSUME Inv, NEW r \in Requests, LoseDelete(r)
    PROVE  Inv'
<1>1. /\ pc[r] \in {"scan", "delete"} /\ faults' \in 0..MaxFaults /\ faults' # 0
      /\ pc' = [pc EXCEPT ![r] = "insert"]
      /\ UNCHANGED <<invites, members, accounts, sessions, locks, input, found, made, outcome,
                     held, mailed, admissions, served>>
  BY InvitationsAssumption DEF LoseDelete, Goto, store, local, Inv, TypeOK
<1>2. pc'[r] = "insert"
  BY <1>1 DEF Inv, TypeOK
<1>3. Evolves /\ InvitesInv' /\ PendingOverlap'
  BY <1>1, UntouchedInvites, UntouchedPending
<1>4. AdmittedByRank'
  BY <1>1, <1>3, UntouchedMembers
<1>5. \A q \in Requests \ {r} : RequestInv(q)'
  <2>1. Elsewhere(r)
    BY <1>1 DEF Elsewhere, Inv, TypeOK
  <2> QED
    BY <1>1, <1>3, <2>1, OtherRequests DEF Inv, TypeOK
<1>6. RequestInv(r)' /\ LocksInv'
  BY <1>1, <1>2 DEF Inv, RequestInv, LocksInv
<1>7. TypeOK'
  <2>1. pc' \in [Requests -> Points]
    BY <1>1, AllPoints DEF Inv, TypeOK, Points
  <2> QED
    BY <1>1, <2>1, AllPoints DEF Inv, TypeOK
<1> QED
  BY <1>3, <1>4, <1>5, <1>6, <1>7 DEF Inv

\* A new invitation knows what its request found; nobody knows it yet.
LEMMA InsertInviteInv ==
    ASSUME Inv, NEW r \in Requests, InsertInvite(r)
    PROVE  Inv'
<1>1. PICK i \in Invites :
         /\ invites[i].state = "none"
         /\ invites' = [invites EXCEPT ![i] =
               [state |-> "pending", email |-> input[r].user, role |-> input[r].role,
                by |-> input[r].by, knew |-> found[r]]]
         /\ made' = [made EXCEPT ![r] = i]
  BY DEF InsertInvite
<1>2. /\ pc[r] = "insert" /\ Goto(r, "mail")
      /\ UNCHANGED <<members, accounts, sessions, locks, input, found, held, mailed,
                     admissions, served, faults>>
  BY DEF InsertInvite, At, ghosts
<1>3. /\ input[r].user \in Guests /\ MayInvite(input[r].by, input[r].role)
      /\ input[r].by \in Roles /\ input[r].role \in Roles
      /\ found[r] \subseteq Invites /\ \A k \in found[r] : invites[k].state # "none"
      /\ faults = 0 => \A k \in found[r] : k \notin Unaccepted
      /\ invites \in [Invites -> Invitation]
  BY <1>2 DEF Inv, RequestInv, TypeOK, Input
<1>4. /\ invites' \in [Invites -> Invitation]
      /\ invites'[i].state = "pending" /\ invites'[i].email = input[r].user
      /\ invites'[i].role = input[r].role /\ invites'[i].by = input[r].by
      /\ invites'[i].knew = found[r]
      /\ \A k \in Invites \ {i} : invites'[k] = invites[k]
  BY <1>1, <1>3 DEF Invitation
<1>5. Evolves
  BY <1>1, <1>4 DEF Evolves
<1>6. InvitesInv'
  <2>1. i \notin mailed /\ admissions[i] = 0
    BY <1>1 DEF Inv, InvitesInv, InviteInv
  <2>2. \A k \in Invites : invites[k].state # "none" => invites'[k].state # "none"
    BY <1>5 DEF Evolves
  <2>3. InviteInv(i)'
    BY <1>2, <1>3, <1>4, <2>1, <2>2 DEF InviteInv
  <2>4. ASSUME NEW k \in Invites \ {i} PROVE InviteInv(k)'
    <3>1. InviteInv(k) /\ invites[k].knew \subseteq Invites
      BY <1>3 DEF Inv, InvitesInv, Invitation
    <3> QED
      BY <1>2, <1>4, <2>2, <3>1 DEF InviteInv
  <2>5. mailed' \subseteq Invites /\ \A k \in mailed' : invites'[k].state # "none"
    BY <1>2, <2>2 DEF Inv, InvitesInv, TypeOK
  <2> QED
    BY <2>3, <2>4, <2>5 DEF InvitesInv
<1>7. AdmittedByRank'
  BY <1>2, <1>5, UntouchedMembers
<1>8. PendingOverlap'
  <2> SUFFICES ASSUME faults = 0, NEW j \in Unaccepted', NEW k \in Unaccepted',
                      invites'[j].email = invites'[k].email
               PROVE  j \notin invites'[k].knew
    BY <1>2 DEF PendingOverlap
  <2>1. Unaccepted' = Unaccepted \cup {i} /\ i \notin Unaccepted
    BY <1>1, <1>4 DEF Unaccepted
  <2>2. CASE k = i
    BY <1>1, <1>3, <1>4, <2>1, <2>2
  <2>3. CASE k # i /\ j # i
    BY <1>4, <2>1, <2>3 DEF Inv, PendingOverlap, Unaccepted
  <2>4. CASE k # i /\ j = i
    <3>1. k \in Invites /\ \A x \in invites[k].knew : invites[x].state # "none"
      BY <2>1, <2>4 DEF Inv, InvitesInv, InviteInv, Unaccepted
    <3> QED
      BY <1>1, <1>4, <2>4, <3>1
  <2> QED
    BY <2>2, <2>3, <2>4
<1>9. pc' = [pc EXCEPT ![r] = "mail"] /\ outcome' = outcome /\ pc'[r] = "mail"
  BY <1>2 DEF Goto, Inv, TypeOK
<1>10. \A q \in Requests \ {r} : RequestInv(q)'
  <2>1. \A q \in Requests \ {r}, k \in Invites :
           Invited(k) \in locks[q] => invites'[k] = invites[k]
    <3> SUFFICES ASSUME NEW q \in Requests \ {r}, Invited(i) \in locks[q] PROVE FALSE
      BY <1>4
    <3>1. pc[q] \in {"account", "member", "commit"} /\ i = input[q].row
      BY DEF Inv, RequestInv
    <3>2. invites[i].state = "pending"
      BY <3>1 DEF Inv, RequestInv
    <3> QED
      BY <1>1, <3>2
  <2>2. Elsewhere(r)
    BY <1>1, <1>2, <1>9, <2>1 DEF Elsewhere, Inv, TypeOK
  <2> QED
    BY <1>2, <1>4, <1>5, <2>2, OtherRequests
<1>11. RequestInv(r)' /\ LocksInv'
  <2>1. made'[r] = i
    BY <1>1 DEF Inv, TypeOK
  <2>2. \A k \in found[r] : invites'[k].state # "none"
    BY <1>3, <1>5 DEF Evolves
  <2> QED
    BY <1>2, <1>4, <1>9, <2>1, <2>2 DEF Inv, RequestInv, LocksInv
<1>12. TypeOK'
  <2>1. pc' \in [Requests -> Points] /\ made' \in [Requests -> Invites \cup {NoOne}]
    BY <1>1, <1>9, AllPoints DEF Inv, TypeOK, Points
  <2> QED
    BY <1>2, <1>4, <1>9, <2>1, AllPoints DEF Inv, TypeOK
<1> QED
  BY <1>6, <1>7, <1>8, <1>10, <1>11, <1>12 DEF Inv

\* A mail that is sent names the invitation that was made.
LEMMA MailInv ==
    ASSUME Inv, NEW r \in Requests, Mail(r)
    PROVE  Inv'
<1>1. /\ pc[r] = "mail" /\ Answer(r, "done") /\ mailed' = mailed \cup {made[r]}
      /\ UNCHANGED <<invites, members, accounts, sessions, held, admissions, served, faults>>
  BY DEF Mail, At
<1>2. made[r] \in Invites /\ invites[made[r]].state # "none"
  BY <1>1 DEF Inv, RequestInv
<1>3. Evolves /\ PendingOverlap'
  BY <1>1, UntouchedPending DEF Evolves
<1>4. InvitesInv'
  <2>1. \A i \in Invites : InviteInv(i)'
    BY <1>1 DEF Inv, InvitesInv, InviteInv
  <2> QED
    BY <1>1, <1>2, <2>1 DEF Inv, InvitesInv
<1>5. AdmittedByRank'
  BY <1>1, <1>3, UntouchedMembers
<1>6. RequestInv(r)' /\ LocksInv'
  BY <1>1, AnsweredRequest
<1>7. \A q \in Requests \ {r} : RequestInv(q)'
  <2>1. Elsewhere(r)
    BY <1>1, AnsweredRequest DEF Elsewhere
  <2> QED
    BY <1>1, <1>3, <2>1, OtherRequests DEF Inv, TypeOK
<1>8. TypeOK'
  <2>1. /\ pc' \in [Requests -> Points] /\ input' \in [Requests -> Input]
        /\ found' \in [Requests -> SUBSET Invites]
        /\ made' \in [Requests -> Invites \cup {NoOne}]
        /\ locks' \in [Requests -> SUBSET Rows]
        /\ outcome' \in {"none", "done", "refused", "error"}
    BY <1>1, AnsweredRequest
  <2> QED
    BY <1>1, <1>2, <2>1, AllPoints DEF Inv, TypeOK
<1> QED
  BY <1>3, <1>4, <1>5, <1>6, <1>7, <1>8 DEF Inv

\* One that is lost leaves the invitation to the list of the pending ones.
LEMMA LoseMailInv ==
    ASSUME Inv, NEW r \in Requests, LoseMail(r)
    PROVE  Inv'
<1>1. faults' \in 0..MaxFaults /\ faults' # 0
  BY InvitationsAssumption DEF LoseMail, Inv, TypeOK
<1>2. Answer(r, "done") /\ UNCHANGED <<invites, members, accounts, sessions, held, mailed,
                                        admissions, served>>
  BY DEF LoseMail
<1> QED
  BY <1>1, <1>2, AnsweredInv DEF Inv, TypeOK

\* A request that only reads.
LEMMA OnlyInv ==
    ASSUME Inv, NEW r \in Requests, NEW result \in {"done", "refused", "error"},
           Only(r, result)
    PROVE  Inv'
<1>1. /\ Answer(r, result)
      /\ UNCHANGED <<invites, members, accounts, sessions, held, mailed, admissions, served,
                     faults>>
  BY DEF Only, ghosts
<1> QED
  BY <1>1, AnsweredInv DEF Inv, TypeOK

\* Revoking withdraws an invitation that no transaction is accepting.
LEMMA RevokeInv ==
    ASSUME Inv, NEW r \in Requests, Revoke(r)
    PROVE  Inv'
<1> DEFINE i == input[r].row
<1>1. CASE Only(r, "refused")
  BY <1>1, OnlyInv
<1>2. CASE ~Only(r, "refused")
  <2>1. /\ pc[r] = "revoke" /\ Unlocked(r, {Invited(i)}) /\ invites' = Without({i})
        /\ Answer(r, "done")
        /\ UNCHANGED <<members, accounts, sessions, held, mailed, admissions, served, faults>>
    BY <1>2 DEF Revoke, At, ghosts
  <2>2. i \in Invites
    BY <2>1 DEF Inv, RequestInv
  <2> HIDE DEF i
  <2>3. {i} \in SUBSET Invites /\ {Invited(k) : k \in {i}} = {Invited(i)}
    BY <2>2
  <2>4. /\ Evolves /\ invites' \in [Invites -> Invitation]
        /\ InvitesInv' /\ PendingOverlap' /\ AdmittedByRank'
        /\ \A q \in Requests \ {r}, k \in Invites :
              Invited(k) \in locks[q] => invites'[k] = invites[k]
    BY <2>1, <2>3, WithdrawnInvites
  <2>5. RequestInv(r)' /\ LocksInv'
    BY <2>1, AnsweredRequest
  <2>6. \A q \in Requests \ {r} : RequestInv(q)'
    <3>1. Elsewhere(r)
      BY <2>1, <2>4, AnsweredRequest DEF Elsewhere
    <3> QED
      BY <2>1, <2>4, <3>1, OtherRequests
  <2>7. TypeOK'
    <3>1. /\ pc' \in [Requests -> Points] /\ input' \in [Requests -> Input]
          /\ found' \in [Requests -> SUBSET Invites]
          /\ made' \in [Requests -> Invites \cup {NoOne}]
          /\ locks' \in [Requests -> SUBSET Rows]
          /\ outcome' \in {"none", "done", "refused", "error"}
      BY <2>1, AnsweredRequest
    <3> QED
      BY <2>1, <2>4, <3>1, AllPoints DEF Inv, TypeOK
  <2> QED
    BY <2>4, <2>5, <2>6, <2>7 DEF Inv
<1> QED
  BY <1>1, <1>2

\* A transaction that locks a row which nobody else has locked.
LEMMA LockedRow ==
    ASSUME Inv, NEW r \in Requests, NEW row \in Rows, Lock(r, row), Unlocked(r, {row})
    PROVE  /\ locks' \in [Requests -> SUBSET Rows] /\ locks'[r] = locks[r] \cup {row}
           /\ \A q \in Requests \ {r} : locks'[q] = locks[q]
           /\ LocksInv'
<1>1. /\ locks' \in [Requests -> SUBSET Rows] /\ locks'[r] = locks[r] \cup {row}
      /\ \A q \in Requests \ {r} : locks'[q] = locks[q]
  BY DEF Lock, Inv, TypeOK
<1>2. \A q \in Requests \ {r} : row \notin locks[q]
  BY DEF Unlocked
<1> QED
  BY <1>1, <1>2 DEF Inv, LocksInv

\* SELECT ... FOR UPDATE: what was usable stays so while the row is locked.
LEMMA LockInviteInv ==
    ASSUME Inv, NEW r \in Requests, LockInvite(r)
    PROVE  Inv'
<1> DEFINE i == input[r].row
<1>1. CASE Only(r, "refused")
  BY <1>1, OnlyInv
<1>2. CASE ~Only(r, "refused")
  <2>1. /\ pc[r] = "lock" /\ Unlocked(r, {Invited(i)}) /\ Usable(i) /\ Lock(r, Invited(i))
        /\ Goto(r, IF input[r].op = "register" THEN "account" ELSE "member")
        /\ UNCHANGED <<invites, members, accounts, sessions, input, found, made, ghosts>>
    BY <1>2 DEF LockInvite, At, local
  <2>2. /\ i \in Invites /\ invites[i].state = "pending" /\ locks[r] = {}
        /\ \/ input[r].op = "accept" /\ input[r].user \in Guests
           \/ input[r].op = "register"
        /\ \A k \in found[r] : invites[k].state # "none"
    BY <2>1 DEF Inv, RequestInv, Usable, Listed
  <2>3. Invited(i) \in Rows
    BY <2>2 DEF Invited, Rows
  <2>4. /\ locks' \in [Requests -> SUBSET Rows] /\ locks'[r] = {Invited(i)}
        /\ \A q \in Requests \ {r} : locks'[q] = locks[q]
        /\ LocksInv'
    BY <2>1, <2>2, <2>3, LockedRow
  <2>5. pc'[r] \in {"account", "member"}
    BY <2>1 DEF Goto, Inv, TypeOK
  <2>6. \A k \in Invites : Invited(k) = Invited(i) => k = i
    BY DEF Invited
  <2>7. RequestInv(r)'
    BY <2>1, <2>2, <2>4, <2>5, <2>6 DEF RequestInv, Invited
  <2>8. \E point \in {"account", "member"} : Goto(r, point)
    BY <2>1
  <2> QED
    BY <2>1, <2>4, <2>7, <2>8, GoesOnInv DEF Points, Inv, TypeOK
<1> QED
  BY <1>1, <1>2

\* Who joins is a guest.
LEMMA JoiningGuest ==
    ASSUME Inv, NEW r \in Requests, pc[r] \in {"account", "member", "commit"}
    PROVE  Joining(r) \in Guests
BY DEF Inv, RequestInv, InvitesInv, InviteInv, Joining

\* The next statement of a transaction that accepts: it keeps what it has locked.
LEMMA LocksMoreInv ==
    ASSUME Inv, NEW r \in Requests, NEW row \in Rows, NEW point \in {"member", "commit"},
           pc[r] \in {"account", "member"}, row.table # "invitation",
           Unlocked(r, {row}), Lock(r, row), Goto(r, point),
           UNCHANGED <<invites, members, accounts, sessions, local, ghosts>>
    PROVE  Inv'
<1>1. UNCHANGED <<input, found, made, faults>>
  BY DEF local, ghosts
<1>2. /\ locks' \in [Requests -> SUBSET Rows] /\ locks'[r] = locks[r] \cup {row}
      /\ \A q \in Requests \ {r} : locks'[q] = locks[q]
      /\ LocksInv'
  BY LockedRow
<1>3. pc'[r] = point
  BY DEF Goto, Inv, TypeOK
<1>4. \A i \in Invites : Invited(i) # row
  BY DEF Invited
<1>5. RequestInv(r)'
  BY <1>1, <1>2, <1>3, <1>4 DEF Inv, RequestInv, Invited
<1> QED
  BY <1>1, <1>2, <1>5, GoesOnInv DEF Points, Inv, TypeOK

\* The acceptance locks the account,
LEMMA UpsertUserInv ==
    ASSUME Inv, NEW r \in Requests, UpsertUser(r)
    PROVE  Inv'
<1>1. pc[r] = "account" /\ Joining(r) \in Guests
  BY JoiningGuest DEF UpsertUser, At
<1>2. User(Joining(r)) \in Rows /\ User(Joining(r)).table # "invitation"
  BY <1>1 DEF User, Rows
<1> QED
  BY <1>1, <1>2, LocksMoreInv DEF UpsertUser

\* and the membership.
LEMMA UpsertMemberInv ==
    ASSUME Inv, NEW r \in Requests, UpsertMember(r)
    PROVE  Inv'
<1>1. pc[r] = "member" /\ Joining(r) \in Guests
  BY JoiningGuest DEF UpsertMember, At
<1>2. Member(Joining(r)) \in Rows /\ Member(Joining(r)).table # "invitation"
  BY <1>1 DEF Member, Rows
<1> QED
  BY <1>1, <1>2, LocksMoreInv DEF UpsertMember

\* An accepted invitation was pending, and its guest gets the role it names.
LEMMA CommitAcceptanceInv ==
    ASSUME Inv, NEW r \in Requests, CommitAcceptance(r)
    PROVE  Inv'
<1> DEFINE i == input[r].row
           u == Joining(r)
<1>1. /\ pc[r] = "commit" /\ Answer(r, "done")
      /\ invites' = [invites EXCEPT ![i].state = "accepted"]
      /\ members' = [members EXCEPT ![u] = invites[i].role]
      /\ admissions' = [admissions EXCEPT ![i] = @ + 1]
      /\ UNCHANGED <<sessions, mailed, served, faults>>
  BY DEF CommitAcceptance, At
<1>2. \/ accounts' = [accounts EXCEPT ![u] = "active"]
         /\ held' = held \cup {[from |-> "invitation", user |-> u]}
      \/ UNCHANGED <<accounts, held>>
  BY DEF CommitAcceptance
<1>3. u \in Guests
  BY <1>1, JoiningGuest
<1>4. /\ i \in Invites /\ invites[i].state = "pending" /\ Invited(i) \in locks[r]
      /\ invites \in [Invites -> Invitation]
  BY <1>1 DEF Inv, RequestInv, TypeOK
<1> HIDE DEF i, u
<1>5. /\ invites' \in [Invites -> Invitation]
      /\ \A k \in Invites :
            /\ invites'[k].email = invites[k].email /\ invites'[k].by = invites[k].by
            /\ invites'[k].role = invites[k].role /\ invites'[k].knew = invites[k].knew
            /\ k # i => invites'[k] = invites[k]
      /\ invites'[i].state = "accepted"
  BY <1>1, <1>4 DEF Invitation
<1>6. Evolves
  BY <1>4, <1>5 DEF Evolves
<1>7. InvitesInv'
  <2>1. \A k \in Invites : InviteInv(k) /\ invites[k].knew \subseteq Invites
    BY <1>4 DEF Inv, InvitesInv, Invitation
  <2>2. \A k \in Invites : invites[k].state # "none" => invites'[k].state # "none"
    BY <1>6 DEF Evolves
  <2>3. /\ admissions[i] = 0 /\ admissions'[i] = 1
        /\ \A k \in Invites \ {i} : admissions'[k] = admissions[k]
    BY <1>1, <1>4, <2>1 DEF Inv, TypeOK, InviteInv
  <2>4. \A k \in Invites : k = i => InviteInv(k)'
    BY <1>4, <1>5, <2>1, <2>2, <2>3 DEF InviteInv
  <2>5. \A k \in Invites : k # i => InviteInv(k)'
    BY <1>5, <2>1, <2>2, <2>3 DEF InviteInv
  <2>6. mailed' \subseteq Invites /\ \A k \in mailed' : invites'[k].state # "none"
    BY <1>1, <2>2 DEF Inv, InvitesInv, TypeOK
  <2> QED
    BY <2>4, <2>5, <2>6 DEF InvitesInv
<1>8. PendingOverlap'
  <2>1. Unaccepted' = Unaccepted \ {i} /\ Unaccepted \subseteq Invites
    BY <1>4, <1>5 DEF Unaccepted
  <2> QED
    BY <1>1, <1>5, <2>1 DEF Inv, PendingOverlap
<1>9. AdmittedByRank'
  <2> SUFFICES ASSUME NEW v \in Guests, members'[v] \in {"owner", "admin"}
               PROVE  \E k \in Invites : /\ invites'[k].state = "accepted"
                                         /\ invites'[k].role = members'[v]
                                         /\ invites'[k].by = "owner"
    BY DEF AdmittedByRank
  <2>1. CASE v = u
    <3>1. members'[v] = invites[i].role
      BY <1>1, <1>3, <2>1 DEF Inv, TypeOK
    <3>2. MayInvite(invites[i].by, invites[i].role)
      BY <1>4 DEF Inv, InvitesInv, InviteInv
    <3>3. invites[i].by = "owner"
      BY <3>1, <3>2 DEF MayInvite, CanManageAdmins
    <3> QED
      BY <1>4, <1>5, <3>1, <3>3
  <2>2. CASE v # u
    <3>1. members'[v] = members[v]
      BY <1>1, <2>2 DEF Inv, TypeOK
    <3>2. PICK k \in Invites : /\ invites[k].state = "accepted"
                               /\ invites[k].role = members[v] /\ invites[k].by = "owner"
      BY <3>1 DEF Inv, AdmittedByRank
    <3> QED
      BY <1>6, <3>1, <3>2 DEF Evolves
  <2> QED
    BY <2>1, <2>2
<1>10. RequestInv(r)' /\ LocksInv'
  BY <1>1, AnsweredRequest
<1>11. \A q \in Requests \ {r} : RequestInv(q)'
  <2>1. \A q \in Requests \ {r}, k \in Invites :
           Invited(k) \in locks[q] => invites'[k] = invites[k]
    BY <1>4, <1>5 DEF Inv, LocksInv
  <2>2. Elsewhere(r)
    BY <1>1, <2>1, AnsweredRequest DEF Elsewhere
  <2> QED
    BY <1>1, <1>5, <1>6, <2>2, OtherRequests
<1>12. TypeOK'
  <2>1. /\ pc' \in [Requests -> Points] /\ input' \in [Requests -> Input]
        /\ found' \in [Requests -> SUBSET Invites]
        /\ made' \in [Requests -> Invites \cup {NoOne}]
        /\ locks' \in [Requests -> SUBSET Rows]
        /\ outcome' \in {"none", "done", "refused", "error"}
    BY <1>1, AnsweredRequest
  <2>2. members' \in [Guests -> Roles \cup {"none"}]
    BY <1>1, <1>3, <1>4 DEF Inv, TypeOK, Invitation
  <2>3. /\ accounts' \in [Guests -> {"none", "unverified", "active"}]
        /\ held' \subseteq Sessions
    BY <1>2, <1>3 DEF Inv, TypeOK, Sessions
  <2>4. admissions' \in [Invites -> Nat]
    BY <1>1, <1>4 DEF Inv, TypeOK
  <2> QED
    BY <1>1, <1>5, <2>1, <2>2, <2>3, <2>4, AllPoints DEF Inv, TypeOK
<1> QED
  BY <1>7, <1>8, <1>9, <1>10, <1>11, <1>12 DEF Inv

\* The other requests change members, sessions or nothing.
LEMMA OtherOpsInv ==
    ASSUME Inv, NEW r \in Requests,
           GetInfo(r) \/ Remove(r) \/ Login(r) \/ Refresh(r) \/ Err(r)
    PROVE  Inv'
<1>1. CASE GetInfo(r)
  <2>1. (IF Usable(input[r].row) THEN "done" ELSE "refused") \in {"done", "refused", "error"}
    OBVIOUS
  <2> QED
    BY <1>1, <2>1, OnlyInv DEF GetInfo
<1>2. CASE Remove(r)
  <2>1. /\ pc[r] = "remove" /\ members' = [members EXCEPT ![input[r].user] = "none"]
        /\ UNCHANGED <<invites, accounts, sessions, held, mailed, admissions, served, faults>>
    BY <1>2 DEF Remove, At, ghosts
  <2>2. PICK result \in {"done", "refused"} : Answer(r, result)
    BY <1>2 DEF Remove
  <2>3. input[r].user \in Guests
    BY <2>1 DEF Inv, RequestInv
  <2>4. /\ members' \in [Guests -> Roles \cup {"none"}]
        /\ \A u \in Guests : members'[u] \in {members[u], "none"}
    BY <2>1, <2>3 DEF Inv, TypeOK
  <2> QED
    BY <2>1, <2>2, <2>4, AnsweredInv DEF Inv, TypeOK
<1>3. CASE Login(r) /\ ~Only(r, "refused")
  <2> DEFINE login == [from |-> "login", user |-> input[r].user]
  <2>1. /\ pc[r] = "login" /\ Answer(r, "done")
        /\ sessions' = sessions \cup {login} /\ held' = held \cup {login}
        /\ UNCHANGED <<invites, members, accounts, mailed, admissions, served, faults>>
    BY <1>3 DEF Login, At
  <2>2. login \in Sessions
    BY <2>1 DEF Inv, RequestInv, Sessions
  <2>3. sessions' \subseteq Sessions /\ held' \subseteq Sessions
    BY <2>1, <2>2 DEF Inv, TypeOK
  <2> QED
    BY <2>1, <2>3, AnsweredInv DEF Inv, TypeOK
<1>4. CASE Login(r) /\ Only(r, "refused")
  BY <1>4, OnlyInv
<1>5. CASE Refresh(r)
  <2>1. PICK result \in {"done", "refused"} : Only(r, result)
    BY <1>5 DEF Refresh
  <2> QED
    BY <2>1, OnlyInv
<1>6. CASE Err(r)
  <2>1. faults' \in 0..MaxFaults /\ faults' # 0
    BY <1>6, InvitationsAssumption DEF Err, Inv, TypeOK
  <2>2. Answer(r, "error") /\ UNCHANGED <<invites, members, accounts, sessions, held, mailed,
                                           admissions, served>>
    BY <1>6 DEF Err
  <2> QED
    BY <2>1, <2>2, AnsweredInv DEF Inv, TypeOK
<1> QED
  BY <1>1, <1>2, <1>3, <1>4, <1>5, <1>6

\* An invitation that no transaction has locked runs out.
LEMMA ExpireInv ==
    ASSUME Inv, NEW i \in Invites, Expire(i)
    PROVE  Inv'
<1>1. /\ invites[i].state = "pending" /\ \A r \in Requests : Invited(i) \notin locks[r]
      /\ invites' = [invites EXCEPT ![i].state = "expired"]
      /\ UNCHANGED <<members, accounts, sessions, locks, pc, input, found, made, outcome, held,
                     mailed, admissions, served, faults>>
      /\ invites \in [Invites -> Invitation]
  BY DEF Expire, Listed, local, ghosts, Inv, TypeOK
<1>2. /\ invites' \in [Invites -> Invitation]
      /\ \A k \in Invites :
            /\ invites'[k].email = invites[k].email /\ invites'[k].by = invites[k].by
            /\ invites'[k].role = invites[k].role /\ invites'[k].knew = invites[k].knew
            /\ k # i => invites'[k] = invites[k]
      /\ invites'[i].state = "expired"
  BY <1>1 DEF Invitation
<1>3. Evolves
  BY <1>1, <1>2 DEF Evolves
<1>4. InvitesInv'
  <2>1. \A k \in Invites : InviteInv(k) /\ invites[k].knew \subseteq Invites
    BY <1>1 DEF Inv, InvitesInv, Invitation
  <2>2. \A k \in Invites : invites[k].state # "none" => invites'[k].state # "none"
    BY <1>3 DEF Evolves
  <2>3. \A k \in Invites : InviteInv(k)'
    BY <1>1, <1>2, <2>1, <2>2 DEF InviteInv
  <2>4. mailed' \subseteq Invites /\ \A k \in mailed' : invites'[k].state # "none"
    BY <1>1, <2>2 DEF Inv, InvitesInv, TypeOK
  <2> QED
    BY <2>3, <2>4 DEF InvitesInv
<1>5. Unaccepted' = Unaccepted /\ Unaccepted \subseteq Invites
  BY <1>1, <1>2 DEF Unaccepted
<1>6. PendingOverlap'
  BY <1>1, <1>2, <1>5 DEF Inv, PendingOverlap
<1>7. AdmittedByRank'
  BY <1>1, <1>3, UntouchedMembers
<1>8. ASSUME NEW r \in Requests PROVE RequestInv(r)'
  <2>1. found[r] \subseteq Invites
    BY DEF Inv, TypeOK
  <2>2. \A k \in Invites : Invited(k) \in locks[r] => invites'[k] = invites[k]
    BY <1>1, <1>2
  <2>3. \A k \in Invites : invites[k].state # "none" => invites'[k].state # "none"
    BY <1>3 DEF Evolves
  <2>4. RequestInv(r)
    BY DEF Inv
  <2> QED
    BY <1>1, <1>5, <2>1, <2>2, <2>3, <2>4 DEF RequestInv, Invited
<1>9. LocksInv' /\ TypeOK'
  BY <1>1, <1>2 DEF Inv, LocksInv, TypeOK
<1> QED
  BY <1>4, <1>6, <1>7, <1>8, <1>9 DEF Inv

\* A step that changes no variable.
LEMMA StutterInv == Inv /\ UNCHANGED vars => Inv'
<1> SUFFICES ASSUME Inv, UNCHANGED vars PROVE Inv'
  OBVIOUS
<1>1. UNCHANGED <<invites, members, accounts, sessions, locks, input, found, made, held, mailed,
                  admissions, served, faults, pc, outcome>>
  BY DEF vars, store, local, ghosts
<1>2. InvitesInv' /\ PendingOverlap' /\ AdmittedByRank'
  BY <1>1, UntouchedInvites, UntouchedPending DEF Inv, AdmittedByRank
<1>3. \A r \in Requests : RequestInv(r)'
  BY <1>1 DEF Inv, RequestInv, Invited, Unaccepted
<1>4. LocksInv' /\ TypeOK'
  BY <1>1 DEF Inv, LocksInv, TypeOK
<1> QED
  BY <1>2, <1>3, <1>4 DEF Inv

\* Every step keeps the invariant.
LEMMA StepInv == Inv /\ [Next]_vars => Inv'
<1> SUFFICES ASSUME Inv, [Next]_vars PROVE Inv'
  OBVIOUS
<1>1. CASE UNCHANGED vars
  BY <1>1, StutterInv
<1>2. ASSUME NEW r \in Requests, Arrive(r) \/ Step(r) \/ LoseDelete(r) \/ LoseMail(r) \/ Err(r)
      PROVE  Inv'
  BY <1>2, ArriveInv, InviteCheckInv, ScanPendingInv, DeletePendingInv, InsertInviteInv,
     MailInv, RevokeInv, LockInviteInv, UpsertUserInv, UpsertMemberInv, CommitAcceptanceInv,
     LoseDeleteInv, LoseMailInv, OtherOpsInv DEF Step
<1>3. ASSUME NEW i \in Invites, Expire(i) PROVE Inv'
  BY <1>3, ExpireInv
<1> QED
  BY <1>1, <1>2, <1>3 DEF Next, Terminated

-------------------------------------------------------------------------------
(* The theorems. *)

\* Requests, locks and rows fit together in every reachable state.
THEOREM Invariance == Spec => []Inv
BY InitInv, StepInv, PTL DEF Spec

\* However inviting, accepting, revoking and removing interleave and fail, a guest
\* is an admin or owner only by an invitation that an owner sent, and a later
\* invitation of an address replaces those it finds.
THEOREM InvitationRowsHold == Spec => []RowsHold
<1>1. Inv => RowsHold
  BY DEF Inv, RowsHold
<1> QED
  BY <1>1, Invariance, PTL

-------------------------------------------------------------------------------
(* The requests implement Admissions. *)

\* The ticket that an invitation is.
LEMMA TicketOf ==
    ASSUME TypeOK, NEW i \in Invites
    PROVE  /\ Ticket[i] = "unissued" <=> invites[i].state = "none"
           /\ Ticket[i] = "spent" <=> invites[i].state = "accepted"
           /\ Ticket[i] = "void" <=> invites[i].state \in {"deleted", "expired"}
           /\ Ticket[i] = "open" <=> invites[i].state = "pending"
<1>1. invites[i].state \in {"none", "pending", "expired", "accepted", "deleted"}
  BY DEF TypeOK, Invitation
<1> QED
  BY <1>1 DEF Ticket

\* How the tickets change with the rows.
TicketsAre(state, tickets) ==
    \A i \in Invites :
        tickets[i] = CASE state[i].state = "none" -> "unissued"
                       [] state[i].state = "accepted" -> "spent"
                       [] state[i].state \in {"deleted", "expired"} -> "void"
                       [] OTHER -> "open"

\* The refinement mapping is a function.
LEMMA TicketFunction ==
    /\ Ticket = [i \in Invites |-> Ticket[i]] /\ Ticket' = [i \in Invites |-> Ticket'[i]]
    /\ TicketsAre(invites, Ticket) /\ TicketsAre(invites', Ticket')
BY DEF Ticket, TicketsAre

\* A step that changes no row and no admission is none of the tickets'.
LEMMA TicketsStutter ==
    ASSUME UNCHANGED <<invites, admissions>>
    PROVE  UNCHANGED <<Ticket, admissions>>
BY DEF Ticket

\* The INSERT issues a ticket.
LEMMA InsertIssues ==
    ASSUME Inv, NEW r \in Requests, InsertInvite(r)
    PROVE  \E i \in Invites : Tickets!Issue(i)
<1>1. PICK i \in Invites :
         /\ invites[i].state = "none"
         /\ invites' = [invites EXCEPT ![i] =
               [state |-> "pending", email |-> input[r].user, role |-> input[r].role,
                by |-> input[r].by, knew |-> found[r]]]
  BY DEF InsertInvite
<1>2. admissions' = admissions
  BY DEF InsertInvite, ghosts
<1>3. invites'[i].state = "pending" /\ \A k \in Invites \ {i} : invites'[k] = invites[k]
  BY <1>1 DEF Inv, TypeOK
<1>4. /\ Ticket[i] = "unissued" /\ Ticket'[i] = "open"
      /\ \A k \in Invites \ {i} : Ticket'[k] = Ticket[k]
  BY <1>1, <1>3, TicketFunction DEF TicketsAre
<1>5. Ticket' = [Ticket EXCEPT ![i] = "open"]
  BY <1>4, TicketFunction
<1> QED
  BY <1>2, <1>4, <1>5 DEF Tickets!Issue

\* The commit of an acceptance spends an open ticket, for the first time.
LEMMA CommitAdmits ==
    ASSUME Inv, NEW r \in Requests, CommitAcceptance(r)
    PROVE  \E i \in Invites : Tickets!Admit(i)
<1>1. PICK i \in Invites :
         /\ invites[i].state = "pending"
         /\ invites' = [invites EXCEPT ![i].state = "accepted"]
         /\ admissions' = [admissions EXCEPT ![i] = @ + 1]
  BY DEF CommitAcceptance, At, Inv, RequestInv
<1>2. invites'[i].state = "accepted" /\ \A k \in Invites \ {i} : invites'[k] = invites[k]
  BY <1>1 DEF Inv, TypeOK, Invitation
<1>3. admissions[i] = 0
  BY <1>1 DEF Inv, InvitesInv, InviteInv
<1>4. admissions' = [admissions EXCEPT ![i] = 1]
  BY <1>1, <1>3 DEF Inv, TypeOK
<1>5. /\ Ticket[i] = "open" /\ Ticket'[i] = "spent"
      /\ \A k \in Invites \ {i} : Ticket'[k] = Ticket[k]
  BY <1>1, <1>2, TicketFunction DEF TicketsAre
<1>6. Ticket' = [Ticket EXCEPT ![i] = "spent"]
  BY <1>5, TicketFunction
<1> QED
  BY <1>4, <1>5, <1>6 DEF Tickets!Admit

\* Deleting, revoking and running out withdraw the tickets that are open.
LEMMA WithdrawsOpen ==
    ASSUME Inv, UNCHANGED admissions,
           \A i \in Invites :
               \/ invites'[i] = invites[i]
               \/ /\ invites[i].state \in {"pending", "expired"}
                  /\ invites'[i].state \in {"deleted", "expired"}
    PROVE  \E is \in SUBSET Invites : Tickets!Withdraw(is)
<1> DEFINE is == {i \in Invites : Ticket[i] = "open" /\ Ticket'[i] # "open"}
<1>1. \A i \in Invites : i \in is => Ticket'[i] = "void"
  BY TicketFunction DEF TicketsAre
<1>2. \A i \in Invites : i \notin is => Ticket'[i] = Ticket[i]
  BY TicketFunction DEF TicketsAre
<1>3. \A i \in is : Ticket[i] = "open"
  OBVIOUS
<1>4. is \in SUBSET Invites
  OBVIOUS
<1> HIDE DEF is
<1>5. Ticket' = [i \in Invites |-> IF i \in is THEN "void" ELSE Ticket[i]]
  BY <1>1, <1>2, TicketFunction
<1>6. Tickets!Withdraw(is)
  BY <1>3, <1>5 DEF Tickets!Withdraw
<1> QED
  BY <1>4, <1>6

\* The invitations that Without deletes.
LEMMA WithoutDeletes ==
    ASSUME Inv, NEW xs, invites' = Without(xs)
    PROVE  \A i \in Invites :
               \/ invites'[i] = invites[i]
               \/ /\ invites[i].state \in {"pending", "expired"}
                  /\ invites'[i].state \in {"deleted", "expired"}
<1> TAKE i \in Invites
<1>1. CASE i \in xs \cap Unaccepted
  <2>1. invites'[i] = [invites[i] EXCEPT !.state = "deleted"]
    BY <1>1 DEF Without
  <2>2. invites'[i].state = "deleted"
    BY <2>1 DEF Inv, TypeOK, Invitation
  <2> QED
    BY <1>1, <2>2 DEF Unaccepted
<1>2. CASE i \notin xs \cap Unaccepted
  BY <1>2 DEF Without
<1> QED
  BY <1>1, <1>2

\* Invitations implement Admissions: however requests interleave, an invitation
\* admits once, and not after it was revoked, replaced or has expired.
THEOREM InvitationsAdmitOnce == Spec => ImplementsAdmissions
<1>1. Init => Tickets!Init
  BY DEF Init, Ticket, Tickets!Init
<1>2. Inv /\ [Next]_vars => [Tickets!Next]_<<Ticket, admissions>>
  <2> SUFFICES ASSUME Inv, [Next]_vars
               PROVE  Tickets!Next \/ UNCHANGED <<Ticket, admissions>>
    OBVIOUS
  <2>1. CASE UNCHANGED <<invites, admissions>>
    BY <2>1, TicketsStutter
  <2>2. CASE \E r \in Requests : InsertInvite(r)
    BY <2>2, InsertIssues DEF Tickets!Next
  <2>3. CASE \E r \in Requests : CommitAcceptance(r)
    BY <2>3, CommitAdmits DEF Tickets!Next
  <2>4. CASE /\ UNCHANGED admissions
             /\ \E xs \in SUBSET Invites : invites' = Without(xs)
    BY <2>4, WithoutDeletes, WithdrawsOpen DEF Tickets!Next
  <2>5. CASE \E i \in Invites : Expire(i)
    <3>1. PICK i \in Invites : Expire(i)
      BY <2>5
    <3>2. /\ invites[i].state = "pending" /\ invites' = [invites EXCEPT ![i].state = "expired"]
          /\ UNCHANGED admissions
      BY <3>1 DEF Expire, Listed, ghosts
    <3>3. invites'[i].state = "expired" /\ \A k \in Invites \ {i} : invites'[k] = invites[k]
      BY <3>2 DEF Inv, TypeOK, Invitation
    <3> QED
      BY <3>2, <3>3, WithdrawsOpen DEF Tickets!Next
  <2>6. ASSUME NEW r \in Requests, DeletePending(r) \/ Revoke(r),
               ~UNCHANGED <<invites, admissions>>
        PROVE  /\ UNCHANGED admissions
               /\ \E xs \in SUBSET Invites : invites' = Without(xs)
    <3>1. CASE DeletePending(r)
      BY <3>1 DEF DeletePending, ghosts, Inv, TypeOK
    <3>2. CASE Revoke(r)
      <4>1. ~Only(r, "refused")
        BY <2>6 DEF Only, ghosts
      <4>2. invites' = Without({input[r].row}) /\ UNCHANGED admissions /\ pc[r] = "revoke"
        BY <3>2, <4>1 DEF Revoke, ghosts, At
      <4>3. {input[r].row} \in SUBSET Invites
        BY <4>2 DEF Inv, RequestInv
      <4> QED
        BY <4>2, <4>3
    <3> QED
      BY <2>6, <3>1, <3>2
  <2>7. \/ UNCHANGED <<invites, admissions>>
        \/ \E r \in Requests : \/ InsertInvite(r) \/ CommitAcceptance(r)
                               \/ DeletePending(r) \/ Revoke(r)
        \/ \E i \in Invites : Expire(i)
    BY DEF Next, Terminated, vars, store, ghosts, local, Step, Arrive, InviteCheck, ScanPending,
       Mail, GetInfo, LockInvite, UpsertUser, UpsertMember, Remove, Login, Refresh, LoseDelete,
       LoseMail, Err, Only
  <2> QED
    BY <2>1, <2>2, <2>3, <2>4, <2>5, <2>6, <2>7
<1> QED
  BY <1>1, <1>2, Invariance, PTL DEF Spec, ImplementsAdmissions, Tickets!Spec

===============================================================================

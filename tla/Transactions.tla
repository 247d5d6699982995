----------------------------- MODULE Transactions -----------------------------
(***************************************************************************)
(* What the stores rely on PostgreSQL for at its default level, READ       *)
(* COMMITTED: a statement reads what was committed when it began and what  *)
(* its own transaction wrote, and rows are locked until the transaction    *)
(* ends.                                                                   *)
(*                                                                         *)
(* Lock modes: "share" is FOR KEY SHARE, which a foreign key takes on the  *)
(* row it refers to; "update" is FOR NO KEY UPDATE, taken by an UPDATE;    *)
(* "key" is FOR UPDATE, taken by SELECT ... FOR UPDATE and by a DELETE.    *)
(***************************************************************************)

LockModes == {"share", "update", "key"}

Conflicts(a, b) == "key" \in {a, b} \/ {a, b} = {"update"}

\* Another transaction holds a lock on the row that conflicts with mode.
Blocked(locks, t, row, mode) ==
    \E l \in locks : l.by # t /\ l.row = row /\ Conflicts(l.mode, mode)

WithLocks(locks, t, rows, mode) ==
    locks \cup [by : {t}, row : rows, mode : {mode}]

WithoutLocks(locks, t) == {l \in locks : l.by # t}

\* The table as the transaction that made these writes sees it.
Overlay(table, writes) ==
    [x \in DOMAIN table |-> IF x \in DOMAIN writes THEN writes[x] ELSE table[x]]

NoWrites == [x \in {} |-> x]

===============================================================================

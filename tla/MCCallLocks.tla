------------------------------ MODULE MCCallLocks -----------------------------
(***************************************************************************)
(* An instance of CallLocks for TLC: enough goroutines for a holder, a     *)
(* waiter and a late comer on one of two calls.                            *)
(***************************************************************************)
EXTENDS CallLocks

===============================================================================

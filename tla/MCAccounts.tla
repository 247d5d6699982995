------------------------------ MODULE MCAccounts ------------------------------
(***************************************************************************)
(* An instance of Accounts for TLC: an address that nobody has registered, *)
(* or one that is verified and logged in.                                  *)
(***************************************************************************)
EXTENDS Accounts

EitherAccount == {NoAccount, NewAccount(TRUE, "user")}

===============================================================================

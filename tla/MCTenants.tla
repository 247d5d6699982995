------------------------------ MODULE MCTenants -------------------------------
(* An instance of Tenants for TLC: an administrator, an owner and a member, a  *)
(* workspace of theirs and ids for new ones.                                    *)
EXTENDS Tenants, TLC

CONSTANTS root, olga, mira, w1, w2, w3, q1, q2

MCMembers == w1 :> (olga :> "owner" @@ mira :> "manager" @@ root :> "none")

===============================================================================

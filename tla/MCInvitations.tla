---------------------------- MODULE MCInvitations -----------------------------
(* Instances of Invitations for TLC. *)
EXTENDS Invitations, TLC

CONSTANTS i1, i2, i3, anna, boris, q1, q2

===============================================================================

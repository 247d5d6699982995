------------------------------ MODULE MCCallList ------------------------------
(* An instance of CallList for TLC: an owner, a supervisor and a manager of     *)
(* theirs.                                                                      *)
EXTENDS CallList, TLC

CONSTANTS olga, sven, mira

M(role, sup) == [role |-> role, active |-> TRUE, sup |-> sup]
MCTeam == olga :> M("owner", NoOne) @@ sven :> M("supervisor", NoOne)
            @@ mira :> M("manager", sven)

===============================================================================

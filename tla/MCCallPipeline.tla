---------------------------- MODULE MCCallPipeline ----------------------------
(***************************************************************************)
(* Instances of CallPipeline for TLC.                                      *)
(***************************************************************************)
EXTENDS CallPipeline, TLC

CONSTANTS c1, c2, w1, w2, p1, p2

\* Both workers in one process, and each in its own.
OneProcess == w1 :> p1 @@ w2 :> p1
TwoProcesses == w1 :> p1 @@ w2 :> p2

===============================================================================

---------------------------- MODULE MCDeployFlow ----------------------------
(* Two processors, a start that leaves room for a timer, and a clock that    *)
(* runs until every attempt is over.                                         *)
EXTENDS DeployFlow
=============================================================================

--------------------------- MODULE MCChainService ---------------------------
(* The application's service, with two subscribers, two submissions and a    *)
(* call of disconnect(), and one setEnvVars() made with the queue it was     *)
(* given (set-env-vars.ts:71).                                               *)
EXTENDS ChainService

CONSTANTS app, env, s1, s2, c1, c2, c3, k1
TwoServices == [o \in Ops |-> IF o = c3 THEN env ELSE app]
=============================================================================

------------------------- MODULE MCSequentialQueue -------------------------
(* Three calls, one foreign extrinsic and one lost submission: enough for a *)
(* call behind a call behind the one that fails, with a race on its nonce.  *)
EXTENDS SequentialQueue
=============================================================================

-------------------------- MODULE MCBatchingQueue --------------------------
(* Three calls in batches of two: a full batch, a batch that waits for its   *)
(* age, and one that waits behind another. One foreign extrinsic, one       *)
(* failure and one misread error take the queue past its one retry.         *)
EXTENDS BatchingQueue
=============================================================================

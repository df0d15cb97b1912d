-------------------------- MODULE SubmissionQueue --------------------------
(***************************************************************************)
(* What a TransactionQueue promises its callers, whatever adapter is used: *)
(* calls wait in the order they were enqueued, and are settled from the    *)
(* front, at most MaxBatch at a time, each once, all of a batch alike.     *)
(***************************************************************************)
EXTENDS Naturals, Sequences

CONSTANTS Items,     \* the calls to enqueue(), each with its promise
          MaxBatch   \* calls one extrinsic may carry

VARIABLES pending,   \* enqueued calls whose promise is not settled, in order
          promise    \* the state of every call's promise

vars == <<pending, promise>>

Settled == {"resolved", "rejected"}

Init == pending = <<>> /\ promise = [i \in Items |-> "unborn"]

Enqueue(i) == /\ promise[i] = "unborn"
              /\ promise' = [promise EXCEPT ![i] = "pending"]
              /\ pending' = Append(pending, i)

Settle(k, v) ==
  /\ k <= Len(pending)
  /\ pending' = SubSeq(pending, k + 1, Len(pending))
  /\ promise' = [i \in Items |-> IF \E j \in 1..k : pending[j] = i
                                 THEN v ELSE promise[i]]

Next == \/ \E i \in Items : Enqueue(i)
        \/ \E k \in 1..MaxBatch, v \in Settled : Settle(k, v)

Spec == Init /\ [][Next]_vars
=============================================================================

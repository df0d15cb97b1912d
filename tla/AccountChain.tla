---------------------------- MODULE AccountChain ----------------------------
(***************************************************************************)
(* The node, as the transaction queues use it, for ONE account: the nonce  *)
(* the chain expects next, the extrinsics waiting in the pool, and the     *)
(* answers to system_accountNextIndex and author_submitAndWatchExtrinsic.  *)
(* Not code of this repository: src/ reaches it through @polkadot/api.     *)
(***************************************************************************)
EXTENDS Naturals, FiniteSets

VARIABLES chainNonce,  \* nonce of the next extrinsic a block can include
          pool         \* extrinsics accepted and not yet in a block

chainVars == <<chainNonce, pool>>

\* Txs: whatever the pool may hold for the account.
ChainTypeOK(Txs) == /\ chainNonce \in Nat
                    /\ pool \subseteq [nonce : Nat, tx : Txs]
                    /\ IsFiniteSet(pool)

ChainInit == chainNonce = 0 /\ pool = {}

Pooled(n) == \E t \in pool : t.nonce = n

\* accountNextIndex: the first nonce neither on the chain nor in the pool.
IsNextIndex(n) == /\ n >= chainNonce
                  /\ ~Pooled(n)
                  /\ \A m \in chainNonce..(n - 1) : Pooled(m)

IndexRange == chainNonce..(chainNonce + Cardinality(pool))

\* 1010 "Transaction is outdated", or 1014 "Priority is too low".
Refuses(n) == n < chainNonce \/ Pooled(n)

\* A nonce above the next index is accepted too: it waits for the gap to fill.
Accept(x, n) == /\ ~Refuses(n)
                /\ pool' = pool \cup {[nonce |-> n, tx |-> x]}
                /\ UNCHANGED chainNonce

IncludeTx(t) == /\ t \in pool
                /\ t.nonce = chainNonce
                /\ pool' = pool \ {t}
                /\ chainNonce' = chainNonce + 1

DropTx(t) == t \in pool /\ pool' = pool \ {t} /\ UNCHANGED chainNonce
=============================================================================

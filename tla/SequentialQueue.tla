-------------------------- MODULE SequentialQueue --------------------------
(***************************************************************************)
(* BaseTransactionQueue with the SequentialTransactionQueue adapter        *)
(* (acurast-sdk/src/chain/tx-queue.ts), over one account of the chain.     *)
(*                                                                         *)
(* JavaScript runs one callback at a time, so an action is the code        *)
(* between two awaits. step[i] says where the runOnce activation that      *)
(* carries item i is suspended; nothing but the `processing` flag keeps    *)
(* two activations from being under way at once.                           *)
(***************************************************************************)
EXTENDS AccountChain, Sequences

CONSTANTS Items,       \* the calls to enqueue()
          Foreign,     \* an extrinsic of the same account not sent by this queue
          MaxForeign,  \* bound: how many of those
          MaxLosses    \* bound: submissions whose updates stop before a block

ASSUME SequentialAssumption ==
  Foreign \notin Items /\ MaxForeign \in Nat /\ MaxLosses \in Nat

VARIABLES
  queue,       \* this.queue
  processing,  \* this.processing
  kick,        \* a queueMicrotask(runOnce) is due
  step,        \* Items -> where its activation of runOnce is
  nonce,       \* Items -> the account nonce signAndSend took for it
  verdict,     \* Items -> how send() settled
  promise,     \* Items -> the promise enqueue() returned
  sub,         \* Items -> the status subscription of signAndSend
  fate,        \* Items -> what became of its extrinsic on the chain
  refused,     \* history: items whose nonce the node refused
  raced,       \* history: items overtaken by a foreign extrinsic while signing
  met,         \* history: Items -> what the pool held under its nonce when read
  lost,        \* history: items whose status updates stopped
  unanswered,  \* history: accepted submissions whose RPC reply was lost
  foreigners   \* foreign extrinsics so far

queueVars == <<queue, processing, kick, step, nonce, verdict, promise, sub>>
historyVars == <<refused, raced, met, lost, unanswered, foreigners>>
vars == <<queueVars, fate, chainNonce, pool, historyVars>>

Carrying == {"preparing", "signing", "submitting", "watching", "settling"}
InFlight == {i \in Items : step[i] \in Carrying}
StatusVerdicts == {"inBlock", "dispatchError"}
SettledByStatus(i) == verdict[i] \in StatusVerdicts

TypeOK ==
  /\ queue \in Seq(Items)
  /\ processing \in BOOLEAN
  /\ kick \in BOOLEAN
  /\ step \in [Items -> Carrying \cup {"new", "queued", "done"}]
  /\ nonce \in [Items -> Nat]
  /\ verdict \in [Items -> StatusVerdicts \cup {"none", "refused", "error"}]
  /\ promise \in [Items -> {"unborn", "pending", "resolved", "rejected"}]
  /\ sub \in [Items -> {"none", "opening", "open", "closed"}]
  /\ fate \in [Items -> {"none", "pooled", "ok", "failed", "dropped"}]
  /\ ChainTypeOK(Items \cup {Foreign})
  /\ refused \subseteq Items
  /\ raced \subseteq Items
  /\ met \in [Items -> SUBSET (Items \cup {Foreign})]
  /\ lost \subseteq Items
  /\ unanswered \subseteq Items
  /\ foreigners \in Nat

Init ==
  /\ queue = <<>> /\ processing = FALSE /\ kick = FALSE
  /\ step = [i \in Items |-> "new"]
  /\ nonce = [i \in Items |-> 0]
  /\ verdict = [i \in Items |-> "none"]
  /\ promise = [i \in Items |-> "unborn"]
  /\ sub = [i \in Items |-> "none"]
  /\ fate = [i \in Items |-> "none"]
  /\ ChainInit
  /\ met = [i \in Items |-> {}]
  /\ refused = {} /\ raced = {} /\ lost = {} /\ unanswered = {}
  /\ foreigners = 0

-----------------------------------------------------------------------------
\* Mutant: runOnce without its `processing` guard.
RunOnceUnguarded(q, st) ==
  IF q = <<>>
  THEN queue' = q /\ step' = st /\ UNCHANGED processing
  ELSE /\ queue' = Tail(q)
       /\ step' = [st EXCEPT ![Head(q)] = "preparing"]
       /\ processing' = TRUE

\* Mutant: dequeue takes the newest item.
RunOnceNewest(q, st) ==
  IF processing \/ q = <<>>
  THEN queue' = q /\ step' = st /\ UNCHANGED processing
  ELSE /\ queue' = SubSeq(q, 1, Len(q) - 1)
       /\ step' = [st EXCEPT ![q[Len(q)]] = "preparing"]
       /\ processing' = TRUE

\* The part of runOnce that runs before its first await, on queue q: it
\* leaves if an activation is under way or there is nothing to take, and
\* otherwise shifts one item and marks the queue busy.
RunOnce(q, st) ==
  IF processing \/ q = <<>>
  THEN queue' = q /\ step' = st /\ UNCHANGED processing
  ELSE /\ queue' = Tail(q)
       /\ step' = [st EXCEPT ![Head(q)] = "preparing"]
       /\ processing' = TRUE

\* enqueue(): push the item and call runOnce in the same turn.
Enqueue(i) ==
  /\ step[i] = "new"
  /\ promise' = [promise EXCEPT ![i] = "pending"]
  /\ RunOnce(Append(queue, i), [step EXCEPT ![i] = "queued"])
  /\ UNCHANGED <<kick, nonce, verdict, sub, fate, chainNonce, pool, historyVars>>

\* The microtask that the end of a round left behind.
Kick ==
  /\ kick
  /\ kick' = FALSE
  /\ RunOnce(queue, step)
  /\ UNCHANGED <<nonce, verdict, promise, sub, fate, chainNonce, pool, historyVars>>

\* prepareNonce() gave undefined; combine() is the call itself; send() calls
\* signAndSend without a nonce option.
Send(i) ==
  /\ step[i] = "preparing"
  /\ step' = [step EXCEPT ![i] = "signing"]
  /\ UNCHANGED <<queue, processing, kick, nonce, verdict, promise, sub, fate,
                 chainNonce, pool, historyVars>>

\* Without the option @polkadot/api signs with the account nonce of the chain
\* state. It asks accountNextIndex, which counts the pool, for nonce -1 only;
\* tx-queue.ts:96-97 and 225-226 speak of accountNextIndex all the same.
FetchNonce(i) ==
  /\ step[i] = "signing"
  /\ nonce' = [nonce EXCEPT ![i] = chainNonce]
  /\ met' = [met EXCEPT ![i] = {t.tx : t \in {u \in pool : u.nonce = chainNonce}}]
  /\ step' = [step EXCEPT ![i] = "submitting"]
  /\ UNCHANGED <<queue, processing, kick, verdict, promise, sub, fate,
                 chainNonce, pool, refused, raced, lost, unanswered, foreigners>>

\* The node took the extrinsic; signAndSend will resolve with an unsubscribe.
Submit(i) ==
  /\ step[i] = "submitting"
  /\ Accept(i, nonce[i])
  /\ fate' = [fate EXCEPT ![i] = "pooled"]
  /\ sub' = [sub EXCEPT ![i] = "opening"]
  /\ step' = [step EXCEPT ![i] = "watching"]
  /\ UNCHANGED <<queue, processing, kick, nonce, verdict, promise, historyVars>>

\* .catch(reject): the node refused the nonce.
SubmitRefused(i) ==
  /\ step[i] = "submitting"
  /\ Refuses(nonce[i])
  /\ refused' = refused \cup {i}
  /\ verdict' = [verdict EXCEPT ![i] = "refused"]
  /\ step' = [step EXCEPT ![i] = "settling"]
  /\ UNCHANGED <<queue, processing, kick, nonce, promise, sub, fate,
                 chainNonce, pool, raced, met, lost, unanswered, foreigners>>

\* .catch(reject): the wallet declined, or the connection broke before the
\* extrinsic reached the node.
SubmitFails(i) ==
  /\ step[i] \in {"signing", "submitting"}
  /\ verdict' = [verdict EXCEPT ![i] = "error"]
  /\ step' = [step EXCEPT ![i] = "settling"]
  /\ UNCHANGED <<queue, processing, kick, nonce, promise, sub, fate,
                 chainNonce, pool, historyVars>>

\* .catch(reject): the connection broke after the node took the extrinsic.
SubmitUnanswered(i) ==
  /\ step[i] = "submitting"
  /\ Cardinality(lost) + Cardinality(unanswered) < MaxLosses
  /\ Accept(i, nonce[i])
  /\ fate' = [fate EXCEPT ![i] = "pooled"]
  /\ unanswered' = unanswered \cup {i}
  /\ verdict' = [verdict EXCEPT ![i] = "error"]
  /\ step' = [step EXCEPT ![i] = "settling"]
  /\ UNCHANGED <<queue, processing, kick, nonce, promise, sub, refused, raced,
                 met, lost, foreigners>>

\* Mutant: .then(u) only remembers u.
AfterThenKeeps(settled) == "open"

\* What .then(u) does with the subscription.
AfterThen(settled) == IF settled THEN "closed" ELSE "open"

\* .then(u): unsubscribe at once if the callback has settled already.
Opened(i) ==
  /\ sub[i] = "opening"
  /\ sub' = [sub EXCEPT ![i] = AfterThen(SettledByStatus(i))]
  /\ UNCHANGED <<queue, processing, kick, step, nonce, verdict, promise, fate,
                 chainNonce, pool, historyVars>>

\* Mutant: unsub is not tested before it is called.
UnsubUnchecked(s) == IF s = "open" THEN "closed" ELSE "undefined"

\* settled = true; unsub?.() -- a no-op while .then(u) has not run.
Unsub(s) == IF s = "open" THEN "closed" ELSE s

\* Mutant: isInBlock is tested and dispatchError is not.
StatusVerdictNoError(f) == "inBlock"

\* dispatchError is looked at first: a failed call is in a block as well.
StatusVerdict(f) == IF f = "failed" THEN "dispatchError" ELSE "inBlock"

\* Mutant: settle as soon as the pool has the extrinsic.
SettlingFatesReady == {"pooled", "ok", "failed"}

\* isInBlock or a dispatchError: what settles send().
SettlingFates == {"ok", "failed"}

\* The status callback with an in-block result: dispatchError, else isInBlock.
Notify(i) ==
  /\ step[i] = "watching"
  /\ sub[i] \in {"opening", "open"}
  /\ i \notin lost
  /\ fate[i] \in SettlingFates
  /\ verdict' = [verdict EXCEPT ![i] = StatusVerdict(fate[i])]
  /\ sub' = [sub EXCEPT ![i] = Unsub(@)]
  /\ step' = [step EXCEPT ![i] = "settling"]
  /\ UNCHANGED <<queue, processing, kick, nonce, promise, fate, chainNonce, pool,
                 historyVars>>

\* Mutant: the finally block forgets to go on with the queue.
RekickNever == kick

\* finally: if the queue is not empty, queueMicrotask(runOnce).
Rekick == kick \/ queue # <<>>

\* resolve the item, or onSubmitError rejects it; then the finally block.
Finish(i) ==
  /\ step[i] = "settling"
  /\ promise' = [promise EXCEPT ![i] = IF verdict[i] = "inBlock" THEN "resolved"
                                                                 ELSE "rejected"]
  /\ step' = [step EXCEPT ![i] = "done"]
  /\ processing' = FALSE
  /\ kick' = Rekick
  /\ UNCHANGED <<queue, nonce, verdict, sub, fate, chainNonce, pool, historyVars>>

-----------------------------------------------------------------------------
\* A block takes the account's next extrinsic; its dispatch succeeds or fails.
Include(t) ==
  /\ IncludeTx(t)
  /\ IF t.tx = Foreign
     THEN UNCHANGED fate
     ELSE \E f \in {"ok", "failed"} : fate' = [fate EXCEPT ![t.tx] = f]
  /\ UNCHANGED <<queueVars, historyVars>>

\* dropped / invalid / usurped: statuses the callback forwards and ignores.
Drop(t) ==
  /\ t.tx # Foreign
  /\ Cardinality(lost) + Cardinality(unanswered) < MaxLosses
  /\ DropTx(t)
  /\ fate' = [fate EXCEPT ![t.tx] = "dropped"]
  /\ lost' = lost \cup {t.tx}
  /\ UNCHANGED <<queueVars, refused, raced, met, unanswered, foreigners>>

\* The connection breaks and comes back: author_ subscriptions are not renewed.
Disconnect(i) ==
  /\ step[i] = "watching" /\ i \notin lost
  /\ Cardinality(lost) + Cardinality(unanswered) < MaxLosses
  /\ lost' = lost \cup {i}
  /\ UNCHANGED <<queueVars, fate, chainNonce, pool, refused, raced, met,
                 unanswered, foreigners>>

\* Another sender of the same account, with the next index of this moment.
SubmitForeign ==
  /\ foreigners < MaxForeign
  /\ foreigners' = foreigners + 1
  /\ \E n \in IndexRange : IsNextIndex(n) /\ Accept(Foreign, n)
  /\ raced' = raced \cup {i \in Items : step[i] = "submitting"}
  /\ UNCHANGED <<queueVars, fate, refused, met, lost, unanswered>>

-----------------------------------------------------------------------------
Next ==
  \/ Kick
  \/ \E i \in Items :
       \/ Enqueue(i) \/ Send(i) \/ FetchNonce(i)
       \/ Submit(i) \/ SubmitRefused(i) \/ SubmitFails(i) \/ SubmitUnanswered(i)
       \/ Opened(i) \/ Notify(i) \/ Finish(i) \/ Disconnect(i)
  \/ \E t \in pool : Include(t) \/ Drop(t)
  \/ SubmitForeign

\* The event loop runs what is due, the node answers, and blocks are produced;
\* nobody has to enqueue, and nothing has to fail.
Fairness ==
  /\ WF_vars(Kick)
  /\ \A i \in Items :
       /\ WF_vars(Send(i)) /\ WF_vars(FetchNonce(i))
       /\ WF_vars(Submit(i) \/ SubmitRefused(i))
       /\ WF_vars(Opened(i)) /\ WF_vars(Notify(i)) /\ WF_vars(Finish(i))
  /\ WF_vars(\E t \in pool : Include(t))

Spec == Init /\ [][Next]_vars
FairSpec == Spec /\ Fairness

-----------------------------------------------------------------------------
\* What may hold a nonce in the pool without the queue's doing or knowledge: an
\* extrinsic of another sender, or an own one whose reply was lost.
Unowned == unanswered \cup {Foreign}

\* "so that nonces never collide" (tx-queue.ts:21-24): the queue's calls never
\* collide with each other. The node refuses a submission only if a foreign
\* extrinsic took its nonce while it was signed, or one that no call of the
\* queue is waiting for was in the pool under that nonce when it was read.
NoNonceCollision ==
  \A i \in refused : i \in raced \/ met[i] \cap Unowned # {}

\* "only starting the next once the previous is in a block"
\* (tx-queue.ts:224-225): one activation at a time, and none signs while an earlier
\* extrinsic of the queue is still in the pool, unless its reply was lost.
OneAtATime ==
  /\ \A i, j \in InFlight : i = j
  /\ \A i \in Items : step[i] \in {"preparing", "signing", "submitting"} =>
       \A t \in pool : t.tx \in Unowned

\* How send() settled agrees with what happened to the call's extrinsic.
VerdictTrue(i) ==
  CASE verdict[i] = "inBlock"       -> fate[i] = "ok"
    [] verdict[i] = "dispatchError" -> fate[i] = "failed"
    [] verdict[i] = "refused"       -> fate[i] = "none"
    [] verdict[i] = "error"         -> fate[i] = "none" \/ i \in unanswered
    [] OTHER                        -> FALSE

\* What a settled promise says is what happened: resolved means the call is in
\* a block and succeeded, a dispatch error that it is in a block and failed,
\* and a refusal that it never entered the pool and may be enqueued anew.
OutcomeMatchesChain ==
  \A i \in Items :
    /\ promise[i] = "resolved" => fate[i] = "ok"
    /\ promise[i] = "rejected" => VerdictTrue(i) /\ verdict[i] # "inBlock"

\* Whichever of the status callback and .then(u) runs first, no subscription
\* stays open behind a settled send().
NoOpenSubscriptionLeft == \A i \in Items : SettledByStatus(i) => sub[i] # "open"

\* The abstract queue: an item carried by runOnce is still the first pending.
PendingView == IF InFlight = {} THEN queue
               ELSE <<CHOOSE i \in InFlight : TRUE>> \o queue

Abstract == INSTANCE SubmissionQueue WITH MaxBatch <- 1, pending <- PendingView

\* Calls are settled in the order they were enqueued, each exactly once.
ImplementsSubmissionQueue == Abstract!Spec

\* Every enqueue settles, as long as no submission loses its status updates.
EveryEnqueueSettles ==
  \A i \in Items :
    promise[i] = "pending" ~> (promise[i] \in Abstract!Settled \/ lost # {})

\* tx-queue.ts:31, "Resolves with the in-block hash; rejects on dispatchError":
\* as the comment has it, with no proviso.
EveryEnqueueSettlesAlways ==
  \A i \in Items : promise[i] = "pending" ~> promise[i] \in Abstract!Settled

-----------------------------------------------------------------------------
\* The inductive invariant behind the four invariants above.

Unsent == {"new", "queued", "preparing", "signing", "submitting"}

\* Activations are serialised, and only the flag does it.
SerialInv == /\ \A i, j \in InFlight : i = j
             /\ InFlight # {} => processing

\* What waits in the queue waits once and has not been carried yet.
QueueInv == /\ \A k \in 1..Len(queue) : step[queue[k]] = "queued"
            /\ \A k, l \in 1..Len(queue) : queue[k] = queue[l] => k = l

\* A nonce read while nothing in the pool had it is good until it is used or a
\* foreigner takes it; what had it was no extrinsic that a call waits for.
NonceInv ==
  \A i \in Items :
    /\ step[i] = "submitting" => i \in raced \/ met[i] # {} \/ ~Refuses(nonce[i])
    /\ i \in refused => step[i] \notin Unsent /\ (i \in raced \/ met[i] # {})
    /\ met[i] \subseteq Unowned

\* An own extrinsic is in the pool once, and its activation watches it.
PoolInv ==
  \A t \in pool : t.tx # Foreign =>
    /\ fate[t.tx] = "pooled"
    /\ step[t.tx] = "watching" \/ t.tx \in unanswered
    /\ \A u \in pool : u.tx = t.tx => u = t

ItemInv ==
  \A i \in Items :
    /\ step[i] \in Unsent => verdict[i] = "none" /\ fate[i] = "none"
    /\ step[i] \in Unsent => sub[i] = "none"
    /\ step[i] = "watching" => verdict[i] = "none"
    /\ step[i] \in {"settling", "done"} => VerdictTrue(i)
    /\ SettledByStatus(i) => sub[i] # "open"
    /\ promise[i] = "unborn" <=> step[i] = "new"
    /\ promise[i] = "resolved" <=> step[i] = "done" /\ verdict[i] = "inBlock"
    /\ promise[i] = "rejected" <=> step[i] = "done" /\ verdict[i] # "inBlock"

IInv == SerialInv /\ QueueInv /\ NonceInv /\ PoolInv /\ ItemInv
=============================================================================

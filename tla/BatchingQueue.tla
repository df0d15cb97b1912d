--------------------------- MODULE BatchingQueue ---------------------------
(***************************************************************************)
(* BaseTransactionQueue with the BatchingTransactionQueue adapter          *)
(* (acurast-sdk/src/chain/tx-queue.ts): calls wait for a full batch or for *)
(* MaxBlockAge blocks, the nonce is kept by the client, and a batch the    *)
(* node refuses for its nonce goes back to the front of the queue.         *)
(*                                                                         *)
(* An action is the code between two awaits. The subscription that         *)
(* send() opens is the one of SequentialQueue and is not repeated here;    *)
(* there is one runOnce activation at a time, as proved there.             *)
(***************************************************************************)
EXTENDS AccountChain, BatchEvents

CONSTANTS
  Items,            \* the calls to enqueue(), numbered in their order
  Foreign,          \* an extrinsic of the account sent by somebody else
  None,             \* null
  MaxBatchSize, MaxBlockAge, MaxNonceRetries,  \* BatchingQueueOptions
  MaxForeign,       \* bound: foreign extrinsics
  MaxStops,         \* bound: calls to stop()
  MaxTroubles,      \* bound: those, and submissions that fail for another
                    \* reason than the nonce
  MaxMisreads       \* bound: errors that are taken for a nonce error

ASSUME BatchingAssumption ==
  /\ Items \subseteq Nat
  /\ Foreign \notin Items /\ Foreign \notin Seq(Items) /\ None \notin Nat
  /\ MaxBatchSize \in Nat \ {0} /\ MaxBlockAge \in Nat \ {0}
  /\ MaxNonceRetries \in Nat
  /\ MaxForeign \in Nat /\ MaxTroubles \in Nat /\ MaxStops \in Nat
  /\ MaxMisreads \in Nat

VARIABLES
  queue,         \* this.queue
  processing,    \* this.processing
  kick,          \* a queueMicrotask(runOnce) is due
  step,          \* where the activation of runOnce is suspended
  round,         \* `items`: what it took from the queue
  nonce,         \* `nonce`: what prepareNonce gave it
  verdict,       \* how send() settled
  currentNonce,  \* this.currentNonce
  nonceRetries,  \* this.nonceRetries
  seenHead,      \* this.currentBlock # 0
  age,           \* Items -> currentBlock - enqueuedAtBlock, up to MaxBlockAge
  timer,         \* this.timer # null
  unsubHeads,    \* this.unsubHeads: the subscription it would close
  opening,       \* subscribeNewHeads calls that have not resolved
  live,          \* heads subscriptions the node serves
  promise,       \* Items -> the promise enqueue() returned
  executions,    \* Items -> how many blocks carry it
  batchFate,     \* what the block did with the round: "none", "ok" or "failed"
  foreigners, failures, stops,  \* how often the environment interfered
  skipped,       \* history: nonces taken by prepareNonce and never submitted
  refusals,      \* history: submissions the node refused for their nonce
  inARow,        \* history: the last rounds, all of them, that were retried
  unanswered,    \* history: items whose submission was accepted, reply lost
  dispatchErrors,  \* history: items whose batch failed in a block
  misreads,      \* history: errors that are no nonce error, read as one
  resent,        \* history: items retried for it after the node took them
  stoppedEarly   \* history: stop() ran while subscribeNewHeads was pending

loopVars == <<queue, processing, kick, step, round, nonce, verdict>>
nonceVars == <<currentNonce, nonceRetries>>
headVars == <<seenHead, age, timer, unsubHeads, opening, live>>
envVars == <<foreigners, failures, stops>>
historyVars ==
  <<skipped, refusals, inARow, unanswered, dispatchErrors, misreads, resent,
    stoppedEarly>>
vars == <<loopVars, nonceVars, headVars, promise, executions, batchFate,
          chainNonce, pool, envVars, historyVars>>

Subs == 1..(MaxStops + 1)
Elems(s) == {s[k] : k \in 1..Len(s)}

TypeOK ==
  /\ queue \in Seq(Items) /\ round \in Seq(Items)
  /\ processing \in BOOLEAN /\ kick \in BOOLEAN
  /\ step \in {"idle", "preparing", "submitting", "watching", "settling"}
  /\ nonce \in Nat
  /\ verdict \in {"none", "inBlock", "dispatchError", "nonceError", "error"}
  /\ currentNonce \in Nat \cup {None}
  /\ nonceRetries \in 0..MaxNonceRetries
  /\ seenHead \in BOOLEAN /\ timer \in BOOLEAN
  /\ age \in [Items -> 0..MaxBlockAge]
  /\ unsubHeads \in Subs \cup {None}
  /\ opening \subseteq live /\ live \subseteq Subs
  /\ promise \in [Items -> {"unborn", "pending", "resolved", "rejected"}]
  /\ executions \in [Items -> Nat]
  /\ batchFate \in {"none", "ok", "failed"}
  /\ ChainTypeOK(Seq(Items) \cup {Foreign})
  /\ foreigners \in Nat /\ failures \in Nat /\ stops \in Nat
  /\ skipped \in Nat /\ refusals \in Nat /\ inARow \in Nat
  /\ unanswered \subseteq Items /\ dispatchErrors \subseteq Items
  /\ misreads \in Nat /\ resent \subseteq Items
  /\ stoppedEarly \in BOOLEAN

Init ==
  /\ queue = <<>> /\ processing = FALSE /\ kick = FALSE
  /\ step = "idle" /\ round = <<>> /\ nonce = 0 /\ verdict = "none"
  /\ currentNonce = None /\ nonceRetries = 0
  /\ seenHead = FALSE /\ age = [i \in Items |-> 0]
  /\ timer = FALSE /\ unsubHeads = None /\ opening = {} /\ live = {}
  /\ promise = [i \in Items |-> "unborn"]
  /\ executions = [i \in Items |-> 0]
  /\ batchFate = "none"
  /\ ChainInit
  /\ foreigners = 0 /\ failures = 0 /\ stops = 0
  /\ skipped = 0 /\ refusals = 0 /\ inARow = 0 /\ unanswered = {}
  /\ dispatchErrors = {} /\ misreads = 0 /\ resent = {}
  /\ stoppedEarly = FALSE

-----------------------------------------------------------------------------
\* dequeue(): flush when the batch is full or its oldest call is old enough.
Ready(q, ages) == /\ q # <<>>
                  /\ Len(q) >= MaxBatchSize \/ ages[Head(q)] >= MaxBlockAge

\* splice(0, maxBatchSize): what it returns, and what it leaves.
BatchLength(q) == IF Len(q) <= MaxBatchSize THEN Len(q) ELSE MaxBatchSize

\* Mutant: slice for splice, the calls stay in the queue.
RestOfSliced(q) == q

RestOf(q) == SubSeq(q, BatchLength(q) + 1, Len(q))

\* runOnce up to its first await, on queue q with the ages of its calls.
RunOnce(q, ages) ==
  IF processing \/ ~Ready(q, ages)
  THEN queue' = q /\ UNCHANGED <<processing, step, round>>
  ELSE /\ round' = SubSeq(q, 1, BatchLength(q))
       /\ queue' = RestOf(q)
       /\ processing' = TRUE
       /\ step' = "preparing"

\* Mutant: every enqueue subscribes to the heads anew.
MustStartAlways == TRUE

\* ensureStarted(): only the timer tells whether it ran.
MustStart == ~timer

EnsureStarted ==
  LET s == CHOOSE u \in Subs : u \notin live
  IN  IF MustStart /\ live # Subs
      THEN timer' = TRUE /\ opening' = opening \cup {s} /\ live' = live \cup {s}
      ELSE UNCHANGED <<timer, opening, live>>

\* Mutant: the call is not stamped, and dequeue takes its age to be 0.
OlderNever(a) == a

\* A new head: currentBlock grows by one. The first head takes currentBlock
\* from 0 to the height of the chain, and what was stamped 0 is old at once.
OlderByBlock(a) ==
  IF ~seenHead \/ a = MaxBlockAge THEN MaxBlockAge ELSE a + 1

\* enqueue(): push, stamp with currentBlock, ensureStarted, runOnce.
Enqueue(i) ==
  LET ages == [age EXCEPT ![i] = 0] IN
  /\ promise[i] = "unborn" /\ \A j \in Items : j < i => promise[j] # "unborn"
  /\ promise' = [promise EXCEPT ![i] = "pending"]
  /\ age' = ages
  /\ EnsureStarted
  /\ RunOnce(Append(queue, i), ages)
  /\ UNCHANGED <<kick, nonce, verdict, nonceVars, seenHead, unsubHeads, executions,
                 batchFate, chainNonce, pool, envVars, historyVars>>

\* The heads callback of a live subscription.
NewHead(s) ==
  /\ s \in live
  /\ seenHead' = TRUE
  /\ age' = [i \in Items |-> IF promise[i] = "pending" THEN OlderByBlock(age[i])
                                                       ELSE age[i]]
  /\ RunOnce(queue, age')
  /\ UNCHANGED <<kick, nonce, verdict, nonceVars, timer, unsubHeads, opening, live,
                 promise, executions, batchFate, chainNonce, pool, envVars,
                 historyVars>>

\* .then(u): remember how to close the subscription.
HeadsOpened(s) ==
  /\ s \in opening
  /\ opening' = opening \ {s}
  /\ unsubHeads' = s
  /\ UNCHANGED <<loopVars, nonceVars, seenHead, age, timer, live, promise,
                 executions, batchFate, chainNonce, pool, envVars, historyVars>>

\* setInterval(runOnce)
Tick ==
  /\ timer
  /\ RunOnce(queue, age)
  /\ UNCHANGED <<kick, nonce, verdict, nonceVars, headVars, promise, executions,
                 batchFate, chainNonce, pool, envVars, historyVars>>

Kick ==
  /\ kick
  /\ kick' = FALSE
  /\ RunOnce(queue, age)
  /\ UNCHANGED <<nonce, verdict, nonceVars, headVars, promise, executions,
                 batchFate, chainNonce, pool, envVars, historyVars>>

\* stop(): the timer, and the heads subscription if it is known yet.
Stop ==
  /\ stops < MaxStops /\ stops + failures < MaxTroubles
  /\ stops' = stops + 1
  /\ timer' = FALSE
  /\ live' = live \ {unsubHeads}
  /\ unsubHeads' = None
  /\ stoppedEarly' = (stoppedEarly \/ opening # {})
  /\ UNCHANGED <<loopVars, nonceVars, seenHead, age, opening, promise, executions,
                 batchFate, chainNonce, pool, foreigners, failures, skipped,
                 refusals, inARow, unanswered, dispatchErrors, misreads, resent>>

-----------------------------------------------------------------------------
\* Mutant: the nonce is handed out without counting it.
NextNonceStuck(n) == n

\* Mutant: the nonce is counted twice.
NextNonceTwice(n) == n + 2

\* this.currentNonce = nonce + 1
NextNonce(n) == n + 1

\* prepareNonce(): seed from accountNextIndex if need be, then count.
PrepareNonce ==
  /\ step = "preparing"
  /\ \E n \in IF currentNonce = None THEN {m \in IndexRange : IsNextIndex(m)}
                                     ELSE {currentNonce} :
       nonce' = n /\ currentNonce' = NextNonce(n)
  /\ step' = "submitting"
  /\ UNCHANGED <<queue, processing, kick, round, verdict, nonceRetries, headVars,
                 promise, executions, batchFate, chainNonce, pool, envVars,
                 historyVars>>

\* resetNonce(): the RPC fails, before any nonce is taken.
PrepareFails ==
  /\ step = "preparing" /\ currentNonce = None
  /\ failures + stops < MaxTroubles /\ failures' = failures + 1
  /\ verdict' = "error" /\ step' = "settling"
  /\ UNCHANGED <<queue, processing, kick, round, nonce, nonceVars, headVars,
                 promise, executions, batchFate, chainNonce, pool, foreigners,
                 stops, historyVars>>

\* combine, sign with the explicit nonce, and the node takes the extrinsic.
Submit ==
  /\ step = "submitting"
  /\ Accept(round, nonce)
  /\ batchFate' = "none"
  /\ step' = "watching"
  /\ UNCHANGED <<queue, processing, kick, round, nonce, verdict, nonceVars, headVars,
                 promise, executions, envVars, historyVars>>

SubmitRefused ==
  /\ step = "submitting"
  /\ Refuses(nonce)
  /\ refusals' = refusals + 1
  /\ verdict' = "nonceError" /\ step' = "settling"
  /\ UNCHANGED <<queue, processing, kick, round, nonce, nonceVars, headVars, promise,
                 executions, batchFate, chainNonce, pool, envVars, skipped, inARow,
                 unanswered, dispatchErrors, misreads, resent, stoppedEarly>>

\* The wallet declines, combine throws, or the connection breaks on the way
\* out: the nonce that prepareNonce counted was not used.
SubmitFails ==
  /\ step = "submitting"
  /\ failures + stops < MaxTroubles /\ failures' = failures + 1
  /\ skipped' = skipped + 1
  /\ verdict' = "error" /\ step' = "settling"
  /\ UNCHANGED <<queue, processing, kick, round, nonce, nonceVars, headVars, promise,
                 executions, batchFate, chainNonce, pool, foreigners, stops,
                 refusals, inARow, unanswered, dispatchErrors, misreads, resent,
                 stoppedEarly>>

\* The connection breaks after the node took the extrinsic.
SubmitUnanswered ==
  /\ step = "submitting"
  /\ failures + stops < MaxTroubles /\ failures' = failures + 1
  /\ Accept(round, nonce)
  /\ unanswered' = unanswered \cup Elems(round)
  /\ verdict' = "error" /\ step' = "settling"
  /\ UNCHANGED <<queue, processing, kick, round, nonce, nonceVars, headVars, promise,
                 executions, batchFate, foreigners, stops, skipped, refusals,
                 inARow, dispatchErrors, misreads, resent, stoppedEarly>>

\* Mutant: settle as soon as the pool has the extrinsic.
SettlesAtReady(f) == TRUE

\* isInBlock or a dispatchError: what settles send().
Settles(f) == f # "none"

Notify ==
  /\ step = "watching"
  /\ Settles(batchFate)
  /\ verdict' = IF batchFate = "failed" THEN "dispatchError" ELSE "inBlock"
  /\ step' = "settling"
  /\ UNCHANGED <<queue, processing, kick, round, nonce, nonceVars, headVars, promise,
                 executions, batchFate, chainNonce, pool, envVars, historyVars>>

\* isNonceError(error), the values it may have for a verdict. A refusal has
\* 1010 or 1014 in its text; but the text of any other error, of a lost reply or
\* a dispatch error too, is searched for the same words, and may hold one.
IsNonceError(v) == CASE v = "inBlock"    -> {FALSE}
                     [] v = "nonceError" -> {TRUE}
                     [] OTHER            -> {FALSE} \cup {misreads < MaxMisreads}

\* Mutant: the calls of a refused batch go to the end of the queue.
RequeuedBehind(items) == queue \o items

\* queue.unshift(...items)
Requeued(items) == items \o queue

\* Another try, if the error is read as a nonce error and retries are left.
Retries(isNonceError) == isNonceError /\ nonceRetries < MaxNonceRetries

\* Mutant: the nonce is cleared to -1.
AfterNonceErrorNegative == 0 - 1

\* this.currentNonce = null
AfterNonceError == None

\* onSubmitError with a nonce error and retries left: nothing is settled.
Requeue ==
  /\ nonceRetries' = nonceRetries + 1
  /\ currentNonce' = AfterNonceError
  /\ queue' = Requeued(round)
  /\ UNCHANGED promise
  /\ inARow' = inARow + 1
  /\ misreads' = IF verdict = "nonceError" THEN misreads ELSE misreads + 1
  /\ resent' = resent \cup {i \in Elems(round) : verdict = "dispatchError"
                                                 \/ i \in unanswered}

\* resolve every item, or onSubmitError rejects every one; currentNonce stays.
SettleRound ==
  /\ nonceRetries' = IF verdict = "inBlock" THEN nonceRetries ELSE 0
  /\ promise' = [i \in Items |->
                   IF i \in Elems(round)
                   THEN IF verdict = "inBlock" THEN "resolved" ELSE "rejected"
                   ELSE promise[i]]
  /\ inARow' = 0
  /\ UNCHANGED <<currentNonce, queue, misreads, resent>>

Finish ==
  /\ step = "settling"
  /\ \E b \in IsNonceError(verdict) : IF Retries(b) THEN Requeue ELSE SettleRound
  /\ dispatchErrors' = dispatchErrors \cup
                       IF verdict = "dispatchError" THEN Elems(round) ELSE {}
  /\ processing' = FALSE /\ step' = "idle"
  /\ round' = <<>> /\ nonce' = 0 /\ verdict' = "none" /\ batchFate' = "none"
  /\ age' = [i \in Items |-> IF promise'[i] = "pending" THEN age[i] ELSE 0]
  /\ kick' = (kick \/ queue' # <<>>)
  /\ UNCHANGED <<seenHead, timer, unsubHeads, opening, live, executions, chainNonce,
                 pool, envVars, skipped, refusals, unanswered, stoppedEarly>>

-----------------------------------------------------------------------------
\* A block carries the account's next extrinsic: every call of it is executed.
Include(t) ==
  /\ IncludeTx(t)
  /\ IF t.tx = Foreign
     THEN UNCHANGED <<executions, batchFate>>
     ELSE /\ executions' = [i \in Items |-> IF i \in Elems(t.tx) THEN executions[i] + 1
                                                                ELSE executions[i]]
          /\ IF step = "watching" /\ t.tx = round /\ t.nonce = nonce
             THEN batchFate' \in {"ok", "failed"}
             ELSE UNCHANGED batchFate
  /\ UNCHANGED <<loopVars, nonceVars, headVars, promise, envVars, historyVars>>

SubmitForeign ==
  /\ foreigners < MaxForeign
  /\ foreigners' = foreigners + 1
  /\ \E n \in IndexRange : IsNextIndex(n) /\ Accept(Foreign, n)
  /\ UNCHANGED <<loopVars, nonceVars, headVars, promise, executions, batchFate,
                 failures, stops, historyVars>>

-----------------------------------------------------------------------------
Next ==
  \/ \E i \in Items : Enqueue(i)
  \/ \E s \in Subs : NewHead(s) \/ HeadsOpened(s)
  \/ Tick \/ Kick \/ Stop
  \/ PrepareNonce \/ PrepareFails
  \/ Submit \/ SubmitRefused \/ SubmitFails \/ SubmitUnanswered
  \/ Notify \/ Finish
  \/ \E t \in pool : Include(t)
  \/ SubmitForeign

\* The event loop runs what is due, the node answers and announces its blocks,
\* and blocks carry what is ready. Nobody has to enqueue, stop or fail.
Fairness ==
  /\ \A s \in Subs : WF_vars(NewHead(s)) /\ WF_vars(HeadsOpened(s))
  /\ WF_vars(Kick) /\ WF_vars(PrepareNonce) /\ WF_vars(Submit \/ SubmitRefused)
  /\ WF_vars(Notify) /\ WF_vars(Finish)
  /\ WF_vars(\E t \in pool : Include(t))

Spec == Init /\ [][Next]_vars
FairSpec == Spec /\ Fairness

-----------------------------------------------------------------------------
\* A call is executed at most once, however often its batch is submitted,
\* unless an error that came after the node took it was read as a nonce error
\* (tx-queue.ts:260-263). Then its batch is sent again, and only the retry limit
\* of the rounds bounds how often it runs.
AtMostOnce ==
  \A i \in Items : /\ i \notin resent => executions[i] <= 1
                   /\ executions[i] <= 1 + MaxNonceRetries

\* A resolved call is in a block, and one that waits (again) is in none, but for
\* one that was resent. A rejected call is in none either, now or later, unless
\* its batch failed in a block or the node's reply to a submission was lost.
OutcomeMatchesChain ==
  \A i \in Items :
    /\ promise[i] = "resolved" => executions[i] >= 1
    /\ i \in Elems(queue) /\ i \notin resent => executions[i] = 0
    /\ promise[i] = "rejected" /\ i \notin unanswered \cup dispatchErrors
         => executions[i] = 0

\* "so that nonces never collide": with no foreign extrinsic the node refuses
\* no batch for its nonce, whatever else fails -- unless a counted nonce was
\* never used and a misread error makes the client go back and use it.
NoNonceCollision ==
  foreigners = 0 /\ (skipped = 0 \/ misreads = 0) => refusals = 0

\* The nonces the pool holds follow on from the chain's, so that the account's
\* extrinsics can be included, unless a nonce was taken and not used.
NoNonceGap ==
  skipped = 0 =>
    \A t \in pool : \A m \in chainNonce..(t.nonce - 1) : Pooled(m)

\* ensureStarted and stop keep one heads subscription while the queue runs and
\* none after, provided stop() finds subscribeNewHeads resolved.
OneHeadsSubscription ==
  ~stoppedEarly =>
    /\ \A s, u \in live : s = u
    /\ live # {} => timer

\* A call in a block is shown its own events, whichever calls it was batched
\* with, in whatever order, after a retry, and whichever of them failed
\* (tx-queue.ts:362, "latch onto the wrong job id"). A call that is itself a
\* batch would shift the others; src/ enqueues none.
EventsScoped ==
  step = "watching" /\ batchFate = "ok" =>
    \A Failed \in SUBSET DOMAIN round : ScopedTo(round, Failed)

Abstract == INSTANCE SubmissionQueue
              WITH MaxBatch <- MaxBatchSize, pending <- round \o queue

\* Batches of at most maxBatchSize are settled in the order of their calls,
\* each call once; a retry leaves the abstract queue as it was.
ImplementsSubmissionQueue == Abstract!Spec

\* Every enqueued call settles, as long as nothing but the nonce fails and
\* stop() is not called.
EveryEnqueueSettles ==
  \A i \in Items :
    promise[i] = "pending" ~>
      (promise[i] \in Abstract!Settled \/ failures > 0 \/ stops > 0)

\* tx-queue.ts:31, "Resolves with the in-block hash; rejects on dispatchError":
\* also after a submission that failed, e.g. one the wallet declined.
SettlesAfterFailure ==
  \A i \in Items :
    promise[i] = "pending" ~> (promise[i] \in Abstract!Settled \/ stops > 0)

=============================================================================

------------------------ MODULE BatchingQueueProofs ------------------------
(***************************************************************************)
(* Proofs about BatchingQueue for any set of calls, batch size, number of  *)
(* retries, of foreign extrinsics, of failures and of stops.               *)
(***************************************************************************)
EXTENDS BatchingQueue, SetInduction, SequenceTheorems, FiniteSetTheorems, TLAPS

\* One activation: what it took from the queue, and what its verdict is for.
LoopInv ==
  /\ processing <=> step # "idle"
  /\ step = "idle" <=> round = <<>>
  /\ Len(round) <= MaxBatchSize
  /\ step = "settling" <=> verdict # "none"

\* No element twice.
Distinct(s) == \A k, l \in 1..Len(s) : s[k] = s[l] => k = l

\* Every call that waits or is under way is there once, and is not settled.
WaitingInv ==
  /\ Distinct(round \o queue)
  /\ \A i \in Elems(round \o queue) : promise[i] = "pending"

\* The calls an extrinsic of the pool carries.
Carried(t) == IF t.tx = Foreign THEN {} ELSE Elems(t.tx)

\* A call that is in no block and no extrinsic of the pool.
Clean(i) == executions[i] = 0 /\ \A t \in pool : i \notin Carried(t)

\* The calls of the current round, as far as it is from the node.
RoundOK(i) ==
  /\ step \in {"preparing", "submitting"} \/ verdict = "nonceError" => Clean(i)
  /\ verdict = "error" /\ i \notin unanswered => Clean(i)

\* A call is executed at most once, and carried by one extrinsic until then.
ChainOK(i) ==
  /\ executions[i] <= 1
  /\ \A t \in pool : i \in Carried(t) => executions[i] = 0
  /\ \A t, u \in pool : i \in Carried(t) /\ i \in Carried(u) => t = u

\* What the promise of a call, and its place, say of the chain.
PromiseOK(i) ==
  /\ promise[i] = "unborn" \/ i \in Elems(queue) => Clean(i)
  /\ promise[i] = "rejected" /\ i \notin unanswered \cup dispatchErrors => Clean(i)

ItemOK(i) == ChainOK(i) /\ PromiseOK(i) /\ (i \in Elems(round) => RoundOK(i))

\* So it is with every call but those a misread error sent once more.
ItemsInv == \A i \in Items \ resent : ItemOK(i)

\* Those are calls whose reply was lost or whose batch failed in a block.
ResentInv == resent \subseteq unanswered \cup dispatchErrors

\* A call that is told of a block is in one.
ExecutedOK(i) ==
  /\ promise[i] = "resolved" => executions[i] >= 1
  /\ i \in Elems(round) /\ (verdict = "inBlock" \/ (step = "watching" /\ batchFate = "ok"))
       => executions[i] >= 1

ExecutedInv == \A i \in Items : ExecutedOK(i)

\* How often a call ran or may still run: its blocks, and its extrinsics in the
\* pool.
Carriers(i) == {t \in pool : i \in Carried(t)}
Sent(i) == executions[i] + Cardinality(Carriers(i))

\* The first calls of the queue: those the next batch takes.
InFront(i) == \E k \in 1..Len(queue) : k <= MaxBatchSize /\ queue[k] = i

\* A call is sent once more with every retry at most: one that goes back to the
\* queue is in the next batch, and the retries are counted afresh only when the
\* calls that were retried are settled.
BudgetOK(i) ==
  /\ Sent(i) <= 1 + MaxNonceRetries
  /\ promise[i] = "unborn" => Sent(i) = 0
  /\ i \in Elems(queue) =>
       Sent(i) = 0 \/ (round = <<>> /\ InFront(i) /\ Sent(i) <= nonceRetries)
  /\ i \in Elems(round) =>
       Sent(i) <= nonceRetries + IF step \in {"preparing", "submitting"} THEN 0 ELSE 1

BudgetInv == \A i \in Items : BudgetOK(i)

\* The client's nonce, while nobody else uses the account, and while what a
\* misread error makes it read again leaves no counted nonce behind.
OwnNonces == foreigners = 0 /\ (skipped = 0 \/ misreads = 0)

NonceInv ==
  OwnNonces =>
    /\ refusals = 0 /\ verdict # "nonceError"
    /\ currentNonce = None => (pool = {} \/ misreads # 0) /\ step # "submitting"
    /\ currentNonce # None =>
         LET n == IF step = "submitting" THEN nonce ELSE currentNonce IN
         chainNonce <= n /\ \A t \in pool : t.nonce < n

\* No nonce from the chain's up to n is missing in the pool.
GapFree(n) == \A m \in chainNonce..(n - 1) : Pooled(m)

\* The nonces below the one the client will use next are in the pool, as long
\* as each it counted was used.
GapInv ==
  skipped = 0 =>
    /\ step = "submitting" => GapFree(nonce)
    /\ step # "submitting" /\ currentNonce # None => GapFree(currentNonce)
    /\ \A t \in pool : GapFree(t.nonce)

\* The subscription to the heads that stop() would close.
UnsubInv == unsubHeads = None \/ unsubHeads \in live \ opening

HeadsInv ==
  ~stoppedEarly =>
    /\ \A s, u \in live : s = u
    /\ live # {} => timer
    /\ live \ opening \subseteq {unsubHeads}

\* While it submits, the client has counted the nonce it uses.
NonceCount == step = "submitting" => currentNonce = nonce + 1

IInv == /\ LoopInv /\ WaitingInv /\ ItemsInv /\ ResentInv /\ ExecutedInv
        /\ BudgetInv /\ NonceCount /\ NonceInv /\ GapInv /\ UnsubInv /\ HeadsInv

-----------------------------------------------------------------------------
\* Where an activation of runOnce can be, and how send() can have settled.
Steps == {"idle", "preparing", "submitting", "watching", "settling"}

\* splice() cuts a non-empty queue into the batch and the rest.
LEMMA Splice ==
  ASSUME NEW q \in Seq(Items), q # <<>>
  PROVE  LET n == BatchLength(q) IN
         /\ n \in 1..Len(q) /\ n <= MaxBatchSize
         /\ SubSeq(q, 1, n) \in Seq(Items) /\ Len(SubSeq(q, 1, n)) = n
         /\ SubSeq(q, 1, n) # <<>>
         /\ SubSeq(q, n + 1, Len(q)) \in Seq(Items)
         /\ SubSeq(q, 1, n) \o SubSeq(q, n + 1, Len(q)) = q
<1> DEFINE n == BatchLength(q)
<1>1. Len(q) \in Nat \ {0}
  BY EmptySeq
<1>2. n \in 1..Len(q) /\ n <= MaxBatchSize
  BY <1>1, BatchingAssumption DEF BatchLength
<1> HIDE DEF n
<1>3. \A k \in 1..Len(q) : q[k] \in Items
  BY ElementOfSeq
<1>4. SubSeq(q, 1, n) \in Seq(Items) /\ Len(SubSeq(q, 1, n)) = n
  <2>1. \A k \in 1..n : q[k] \in Items
    BY <1>1, <1>2, <1>3
  <2>2. QED
    BY <1>2, <2>1, SubSeqProperties
<1>5. SubSeq(q, 1, n) # <<>>
  BY <1>2, <1>4, EmptySeq
<1>6. SubSeq(q, n + 1, Len(q)) \in Seq(Items)
  <2>1. \A k \in (n + 1)..Len(q) : q[k] \in Items
    BY <1>1, <1>2, <1>3
  <2>2. QED
    BY <1>1, <1>2, <2>1, SubSeqProperties
<1>7. SubSeq(q, 1, n) \o SubSeq(q, n + 1, Len(q)) = q
  <2>1. SubSeq(q, 1, n) \o SubSeq(q, n + 1, Len(q)) = SubSeq(q, 1, Len(q))
    BY <1>1, <1>2, ConcatAdjacentSubSeq
  <2>2. QED
    BY <2>1, SubSeqFull
<1>8. QED
  BY <1>2, <1>4, <1>5, <1>6, <1>7 DEF n

\* RunOnce does nothing, or takes a batch from the queue it is given.
LEMMA RunOnceEffect ==
  ASSUME TypeOK, NEW q \in Seq(Items), NEW ages, RunOnce(q, ages)
  PROVE  /\ queue' \in Seq(Items) /\ round' \in Seq(Items)
         /\ processing' \in BOOLEAN /\ step' \in Steps
         /\ \/ queue' = q /\ UNCHANGED <<processing, step, round>>
            \/ /\ ~processing /\ processing' /\ step' = "preparing"
               /\ round' # <<>> /\ Len(round') <= MaxBatchSize
               /\ round' \o queue' = q
<1>1. CASE processing \/ ~Ready(q, ages)
  BY <1>1 DEF RunOnce, TypeOK, Steps
<1>2. CASE ~processing /\ Ready(q, ages)
  <2>1. q # <<>>
    BY <1>2 DEF Ready
  <2>2. /\ round' = SubSeq(q, 1, BatchLength(q))
        /\ queue' = SubSeq(q, BatchLength(q) + 1, Len(q))
        /\ processing' = TRUE /\ step' = "preparing"
    BY <1>2 DEF RunOnce, RestOf
  <2>3. QED
    BY <1>2, <2>1, <2>2, Splice DEF Steps
<1>3. QED
  BY <1>1, <1>2

\* ensureStarted() opens a subscription the node does not serve yet, or none.
LEMMA EnsureStartedEffect ==
  ASSUME TypeOK, EnsureStarted
  PROVE  \/ UNCHANGED <<timer, opening, live>>
         \/ /\ ~timer /\ timer' = TRUE
            /\ \E s \in Subs \ live : opening' = opening \cup {s}
                                      /\ live' = live \cup {s}
<1>1. CASE MustStart /\ live # Subs
  <2> DEFINE s == CHOOSE u \in Subs : u \notin live
  <2>1. \E u \in Subs : u \notin live
    BY <1>1 DEF TypeOK
  <2>2. s \in Subs \ live
    BY <2>1
  <2>3. timer' = TRUE /\ opening' = opening \cup {s} /\ live' = live \cup {s}
    BY <1>1 DEF EnsureStarted
  <2>4. QED
    BY <1>1, <2>2, <2>3 DEF MustStart
<1>2. CASE ~(MustStart /\ live # Subs)
  BY <1>2 DEF EnsureStarted
<1>3. QED
  BY <1>1, <1>2

\* A nonce the node or the client gives is a natural number.
LEMMA PrepareNonceEffect ==
  ASSUME TypeOK, PrepareNonce
  PROVE  /\ nonce' \in Nat /\ currentNonce' = nonce' + 1
         /\ IF currentNonce = None THEN IsNextIndex(nonce') ELSE nonce' = currentNonce
<1>1. PICK n \in IF currentNonce = None THEN {m \in IndexRange : IsNextIndex(m)}
                                       ELSE {currentNonce} :
        nonce' = n /\ currentNonce' = NextNonce(n)
  BY DEF PrepareNonce
<1>2. IndexRange \subseteq Nat
  BY FS_CardinalityType DEF TypeOK, ChainTypeOK, IndexRange
<1>3. QED
  BY <1>1, <1>2 DEF NextNonce, TypeOK

\* What the pool may hold for the account.
Txs == Seq(Items) \cup {Foreign}

\* Accepting an extrinsic keeps the account well typed.
LEMMA AcceptType ==
  ASSUME ChainTypeOK(Txs), NEW x \in Txs, NEW n \in Nat, Accept(x, n)
  PROVE  ChainTypeOK(Txs)'
<1>1. IsFiniteSet(pool \cup {[nonce |-> n, tx |-> x]})
  BY FS_AddElement DEF ChainTypeOK
<1>2. QED
  BY <1>1 DEF ChainTypeOK, Accept

\* So does including one.
LEMMA IncludeType ==
  ASSUME ChainTypeOK(Txs), NEW t \in pool, IncludeTx(t)
  PROVE  ChainTypeOK(Txs)'
<1>1. IsFiniteSet(pool \ {t})
  BY FS_RemoveElement DEF ChainTypeOK
<1>2. QED
  BY <1>1 DEF ChainTypeOK, IncludeTx

\* TypeOK without the account's part.
LoopTypeOK ==
  /\ queue \in Seq(Items) /\ round \in Seq(Items)
  /\ processing \in BOOLEAN /\ kick \in BOOLEAN
  /\ step \in Steps
  /\ nonce \in Nat
  /\ verdict \in {"none", "inBlock", "dispatchError", "nonceError", "error"}
  /\ currentNonce \in Nat \cup {None}
  /\ nonceRetries \in 0..MaxNonceRetries
HeadsTypeOK ==
  /\ seenHead \in BOOLEAN /\ timer \in BOOLEAN
  /\ age \in [Items -> 0..MaxBlockAge]
  /\ unsubHeads \in Subs \cup {None}
  /\ opening \subseteq live /\ live \subseteq Subs
OutcomeTypeOK ==
  /\ promise \in [Items -> {"unborn", "pending", "resolved", "rejected"}]
  /\ executions \in [Items -> Nat]
  /\ batchFate \in {"none", "ok", "failed"}
HistoryTypeOK ==
  /\ foreigners \in Nat /\ failures \in Nat /\ stops \in Nat
  /\ skipped \in Nat /\ refusals \in Nat /\ inARow \in Nat
  /\ unanswered \subseteq Items /\ dispatchErrors \subseteq Items
  /\ misreads \in Nat /\ resent \subseteq Items
  /\ stoppedEarly \in BOOLEAN

LEMMA TypePartsNext ==
  ASSUME LoopTypeOK', HeadsTypeOK', OutcomeTypeOK', HistoryTypeOK', ChainTypeOK(Txs)'
  PROVE  TypeOK'
BY DEF TypeOK, LoopTypeOK, HeadsTypeOK, OutcomeTypeOK, HistoryTypeOK, Steps, Txs

LEMMA TypeParts ==
  TypeOK <=> /\ LoopTypeOK /\ HeadsTypeOK /\ OutcomeTypeOK /\ HistoryTypeOK
             /\ ChainTypeOK(Txs)
BY DEF TypeOK, LoopTypeOK, HeadsTypeOK, OutcomeTypeOK, HistoryTypeOK, Steps, Txs

LEMMA TypeInit == Init => TypeOK
<1> SUFFICES ASSUME Init PROVE TypeOK
  OBVIOUS
<1>1. ChainTypeOK(Txs)
  BY FS_EmptySet DEF Init, ChainInit, ChainTypeOK
<1>2. LoopTypeOK
  <2>1. 0 \in 0..MaxNonceRetries
    BY BatchingAssumption
  <2>2. <<>> \in Seq(Items)
    BY EmptySeq
  <2>3. QED
    BY <2>1, <2>2 DEF Init, LoopTypeOK, Steps
<1>3. HeadsTypeOK
  <2>1. 0 \in 0..MaxBlockAge
    BY BatchingAssumption
  <2>2. QED
    BY <2>1 DEF Init, HeadsTypeOK
<1>4. OutcomeTypeOK /\ HistoryTypeOK
  BY DEF Init, OutcomeTypeOK, HistoryTypeOK
<1>5. QED
  BY <1>1, <1>2, <1>3, <1>4, TypeParts

\* The actions that run the loop, and the queue they give it.
LEMMA RunsLoop ==
  ASSUME TypeOK, [Next]_vars
  PROVE  \/ \E i \in Items : Enqueue(i) /\ RunOnce(Append(queue, i), [age EXCEPT ![i] = 0])
         \/ ((\E s \in Subs : NewHead(s)) \/ Tick \/ Kick) /\ \E ages : RunOnce(queue, ages)
         \/ PrepareNonce \/ PrepareFails
         \/ Submit \/ SubmitRefused \/ SubmitFails \/ SubmitUnanswered
         \/ Notify \/ Finish
         \/ (\E s \in Subs : HeadsOpened(s)) \/ Stop
         \/ (\E t \in pool : Include(t)) \/ SubmitForeign \/ UNCHANGED vars
<1>1. ASSUME NEW i \in Items, Enqueue(i)
      PROVE  RunOnce(Append(queue, i), [age EXCEPT ![i] = 0])
  BY <1>1 DEF Enqueue
<1>2. ASSUME NEW s \in Subs, NewHead(s) PROVE \E ages : RunOnce(queue, ages)
  BY <1>2 DEF NewHead
<1>3. Tick \/ Kick => \E ages : RunOnce(queue, ages)
  BY DEF Tick, Kick
<1>4. QED
  BY <1>1, <1>2, <1>3 DEF Next

\* A round is retried, for an error that is not its success and while there are
\* retries left, or it is settled.
LEMMA FinishCases ==
  ASSUME Finish
  PROVE  \/ Requeue /\ nonceRetries < MaxNonceRetries /\ verdict # "inBlock"
         \/ SettleRound
<1>1. PICK b \in IsNonceError(verdict) : IF Retries(b) THEN Requeue ELSE SettleRound
  BY DEF Finish
<1>2. CASE Retries(b)
  <2>1. Requeue /\ nonceRetries < MaxNonceRetries
    BY <1>1, <1>2, Zenon DEF Retries
  <2>2. verdict # "inBlock"
    <3>1. b # FALSE
      BY <1>2 DEF Retries
    <3>2. QED
      BY <3>1 DEF IsNonceError
  <2>3. QED
    BY <2>1, <2>2
<1>3. CASE ~Retries(b)
  BY <1>1, <1>3
<1>4. QED
  BY <1>2, <1>3

LEMMA LoopTypeStep ==
  ASSUME TypeOK, [Next]_vars PROVE LoopTypeOK'
<1>1. LoopTypeOK
  BY TypeParts
<1>2. ASSUME NEW i \in Items, Enqueue(i),
             RunOnce(Append(queue, i), [age EXCEPT ![i] = 0])
      PROVE  LoopTypeOK'
  <2>1. Append(queue, i) \in Seq(Items)
    BY <1>1, AppendProperties DEF LoopTypeOK
  <2>2. QED
    BY <1>1, <1>2, <2>1, RunOnceEffect DEF LoopTypeOK, Enqueue, nonceVars
<1>3. ASSUME (\E s \in Subs : NewHead(s)) \/ Tick \/ Kick,
             NEW ages, RunOnce(queue, ages)
      PROVE  LoopTypeOK'
  <2>1. /\ queue' \in Seq(Items) /\ round' \in Seq(Items)
        /\ processing' \in BOOLEAN /\ step' \in Steps
    BY <1>1, <1>3, RunOnceEffect DEF LoopTypeOK
  <2>2. UNCHANGED <<nonce, verdict, nonceVars>> /\ kick' \in BOOLEAN
    BY <1>1, <1>3 DEF LoopTypeOK, NewHead, Tick, Kick
  <2>3. QED
    BY <1>1, <2>1, <2>2 DEF LoopTypeOK, nonceVars
<1>4. CASE PrepareNonce
  BY <1>1, <1>4, PrepareNonceEffect DEF LoopTypeOK, Steps, PrepareNonce
<1>5. CASE \/ PrepareFails \/ Submit \/ SubmitRefused \/ SubmitFails
           \/ SubmitUnanswered \/ Notify
  BY <1>1, <1>5 DEF LoopTypeOK, Steps, PrepareFails, Submit, SubmitRefused,
                    SubmitFails, SubmitUnanswered, Notify, nonceVars
<1>6. CASE Finish
  <2>1. /\ queue' \in Seq(Items) /\ currentNonce' \in Nat \cup {None}
        /\ nonceRetries' \in 0..MaxNonceRetries
    <3>1. CASE Requeue /\ nonceRetries < MaxNonceRetries
      BY <1>1, <3>1, ConcatProperties, BatchingAssumption
         DEF LoopTypeOK, Requeue, Requeued, AfterNonceError
    <3>2. CASE SettleRound
      BY <1>1, <3>2, BatchingAssumption DEF LoopTypeOK, SettleRound
    <3>3. QED
      BY <1>6, <3>1, <3>2, FinishCases
  <2>2. /\ round' = <<>> /\ processing' = FALSE /\ step' = "idle" /\ nonce' = 0
        /\ verdict' = "none" /\ kick' = (kick \/ queue' # <<>>)
    BY <1>6 DEF Finish
  <2>3. <<>> \in Seq(Items) /\ kick' \in BOOLEAN
    BY <2>2, EmptySeq DEF LoopTypeOK
  <2>4. QED
    BY <2>1, <2>2, <2>3 DEF LoopTypeOK, Steps
<1>7. CASE \/ (\E s \in Subs : HeadsOpened(s)) \/ Stop
           \/ (\E t \in pool : Include(t)) \/ SubmitForeign \/ UNCHANGED vars
  <2>1. UNCHANGED <<loopVars, nonceVars>>
    BY <1>7 DEF HeadsOpened, Stop, Include, SubmitForeign, vars
  <2>2. QED
    BY <1>1, <2>1 DEF LoopTypeOK, loopVars, nonceVars
<1>8. QED
  BY <1>2, <1>3, <1>4, <1>5, <1>6, <1>7, RunsLoop

\* The actions that leave the subscription to the heads alone.
LEMMA HeadsFrame ==
  ASSUME [Next]_vars,
         ~ \E i \in Items : Enqueue(i), ~ \E s \in Subs : HeadsOpened(s), ~Stop
  PROVE  UNCHANGED <<timer, unsubHeads, opening, live, stoppedEarly>>
BY DEF Next, NewHead, Tick, Kick, PrepareNonce, PrepareFails, Submit, SubmitRefused,
       SubmitFails, SubmitUnanswered, Notify, Finish, Include, SubmitForeign, vars,
       headVars, historyVars

LEMMA AgeType ==
  ASSUME HeadsTypeOK, [Next]_vars
  PROVE  seenHead' \in BOOLEAN /\ age' \in [Items -> 0..MaxBlockAge]
<1>1. 0 \in 0..MaxBlockAge /\ MaxBlockAge \in 0..MaxBlockAge /\ MaxBlockAge \in Nat
  BY BatchingAssumption
<1>2. ASSUME NEW i \in Items, Enqueue(i)
      PROVE  seenHead' \in BOOLEAN /\ age' \in [Items -> 0..MaxBlockAge]
  BY <1>1, <1>2 DEF Enqueue, HeadsTypeOK
<1>3. ASSUME NEW s \in Subs, NewHead(s)
      PROVE  seenHead' \in BOOLEAN /\ age' \in [Items -> 0..MaxBlockAge]
  <2>1. \A a \in 0..MaxBlockAge : OlderByBlock(a) \in 0..MaxBlockAge
    BY <1>1 DEF OlderByBlock
  <2>2. \A i \in Items : age[i] \in 0..MaxBlockAge
    BY DEF HeadsTypeOK
  <2>3. QED
    BY <1>3, <2>1, <2>2 DEF NewHead
<1>4. CASE Finish
  <2>1. \A i \in Items : age[i] \in 0..MaxBlockAge
    BY DEF HeadsTypeOK
  <2>2. QED
    BY <1>1, <1>4, <2>1 DEF Finish, HeadsTypeOK
<1>5. CASE ~ \/ \E i \in Items : Enqueue(i)
             \/ \E s \in Subs : NewHead(s)
             \/ Finish
  <2>1. UNCHANGED <<seenHead, age>>
    BY <1>5 DEF Next, HeadsOpened, Tick, Kick, Stop, PrepareNonce, PrepareFails, Submit,
       SubmitRefused, SubmitFails, SubmitUnanswered, Notify, Include, SubmitForeign,
       vars, headVars
  <2>2. QED
    BY <2>1 DEF HeadsTypeOK
<1>6. QED
  BY <1>2, <1>3, <1>4, <1>5

\* A subscription is closed by the stop() that finds it, or stays to be closed.
LEMMA HeadsStep ==
  ASSUME TypeOK, UnsubInv, HeadsInv, [Next]_vars
  PROVE  HeadsTypeOK' /\ UnsubInv' /\ HeadsInv'
<1>1. HeadsTypeOK
  BY TypeParts
<1>2. None \notin Subs
  BY BatchingAssumption DEF Subs
<1>3. seenHead' \in BOOLEAN /\ age' \in [Items -> 0..MaxBlockAge]
  BY <1>1, AgeType
<1>4. ASSUME NEW i \in Items, Enqueue(i) PROVE HeadsTypeOK' /\ UnsubInv' /\ HeadsInv'
  <2>1. UNCHANGED <<unsubHeads, stoppedEarly>>
    BY <1>4 DEF Enqueue, historyVars
  <2>2. EnsureStarted
    BY <1>4 DEF Enqueue
  <2>3. CASE UNCHANGED <<timer, opening, live>>
    BY <1>1, <1>3, <2>1, <2>3 DEF HeadsTypeOK, UnsubInv, HeadsInv
  <2>4. ASSUME ~timer, timer' = TRUE, NEW s \in Subs \ live,
               opening' = opening \cup {s}, live' = live \cup {s}
        PROVE  HeadsTypeOK' /\ UnsubInv' /\ HeadsInv'
    BY <1>1, <1>2, <1>3, <2>1, <2>4 DEF HeadsTypeOK, UnsubInv, HeadsInv
  <2>5. QED
    BY <2>2, <2>3, <2>4, EnsureStartedEffect
<1>5. ASSUME NEW s \in Subs, HeadsOpened(s)
      PROVE  HeadsTypeOK' /\ UnsubInv' /\ HeadsInv'
  BY <1>1, <1>3, <1>5 DEF HeadsOpened, historyVars, HeadsTypeOK, UnsubInv, HeadsInv
<1>6. CASE Stop
  BY <1>1, <1>2, <1>3, <1>6 DEF Stop, HeadsTypeOK, UnsubInv, HeadsInv
<1>7. CASE UNCHANGED <<timer, unsubHeads, opening, live, stoppedEarly>>
  BY <1>1, <1>3, <1>7 DEF HeadsTypeOK, UnsubInv, HeadsInv
<1>8. QED
  BY <1>4, <1>5, <1>6, <1>7, HeadsFrame

LEMMA OutcomeTypeStep ==
  ASSUME OutcomeTypeOK, [Next]_vars PROVE OutcomeTypeOK'
<1>1. ASSUME NEW i \in Items, Enqueue(i) PROVE OutcomeTypeOK'
  BY <1>1 DEF Enqueue, OutcomeTypeOK
<1>2. CASE Submit
  BY <1>2 DEF Submit, OutcomeTypeOK
<1>3. CASE Finish
  <2>1. batchFate' = "none" /\ executions' = executions
    BY <1>3 DEF Finish
  <2>2. promise' = promise \/ SettleRound
    BY <1>3, FinishCases DEF Requeue
  <2>3. QED
    BY <2>1, <2>2 DEF SettleRound, OutcomeTypeOK
<1>4. ASSUME NEW t \in pool, Include(t) PROVE OutcomeTypeOK'
  BY <1>4 DEF Include, OutcomeTypeOK
<1>5. CASE ~ \/ \E i \in Items : Enqueue(i)
             \/ Submit \/ Finish \/ \E t \in pool : Include(t)
  <2>1. UNCHANGED <<promise, executions, batchFate>>
    BY <1>5 DEF Next, NewHead, HeadsOpened, Tick, Kick, Stop, PrepareNonce,
       PrepareFails, SubmitRefused, SubmitFails, SubmitUnanswered, Notify,
       SubmitForeign, vars
  <2>2. QED
    BY <2>1 DEF OutcomeTypeOK
<1>6. QED
  BY <1>1, <1>2, <1>3, <1>4, <1>5

LEMMA HistoryTypeStep ==
  ASSUME TypeOK, [Next]_vars PROVE HistoryTypeOK'
<1>1. HistoryTypeOK /\ \A k \in 1..Len(round) : round[k] \in Items
  BY TypeParts, ElementOfSeq DEF LoopTypeOK
<1>2. CASE Stop \/ PrepareFails \/ SubmitRefused \/ SubmitFails \/ SubmitForeign
  <2>1. CASE Stop
    <3>1. stoppedEarly' \in BOOLEAN
      BY <2>1 DEF Stop
    <3>2. QED
      BY <1>1, <2>1, <3>1 DEF Stop, HistoryTypeOK
  <2>2. CASE PrepareFails \/ SubmitForeign
    BY <1>1, <2>2 DEF PrepareFails, SubmitForeign, HistoryTypeOK, historyVars
  <2>3. CASE SubmitRefused \/ SubmitFails
    BY <1>1, <2>3 DEF SubmitRefused, SubmitFails, HistoryTypeOK, envVars
  <2>4. QED
    BY <1>2, <2>1, <2>2, <2>3
<1>3. CASE SubmitUnanswered \/ Finish
  <2>1. Elems(round) \subseteq Items
    BY <1>1 DEF Elems
  <2>2. CASE SubmitUnanswered
    BY <1>1, <2>1, <2>2 DEF SubmitUnanswered, HistoryTypeOK
  <2>3. CASE Finish
    <3>1. inARow' \in Nat /\ misreads' \in Nat /\ resent' \subseteq Items
      <4>1. CASE Requeue
        BY <1>1, <2>1, <4>1 DEF Requeue, HistoryTypeOK
      <4>2. CASE SettleRound
        BY <1>1, <4>2 DEF SettleRound, HistoryTypeOK
      <4>3. QED
        BY <2>3, <4>1, <4>2, FinishCases
    <3>2. dispatchErrors' \subseteq Items
      BY <1>1, <2>1, <2>3 DEF Finish, HistoryTypeOK
    <3>3. UNCHANGED <<envVars, skipped, refusals, unanswered, stoppedEarly>>
      BY <2>3 DEF Finish
    <3>4. QED
      BY <1>1, <3>1, <3>2, <3>3 DEF HistoryTypeOK, envVars
  <2>4. QED
    BY <1>3, <2>2, <2>3
<1>4. CASE ~ (Stop \/ PrepareFails \/ SubmitRefused \/ SubmitFails \/ SubmitForeign
              \/ SubmitUnanswered \/ Finish)
  <2>1. UNCHANGED <<envVars, historyVars>>
    BY <1>4 DEF Next, Enqueue, NewHead, HeadsOpened, Tick, Kick, PrepareNonce, Submit,
       Notify, Include, vars
  <2>2. QED
    BY <1>1, <2>1 DEF HistoryTypeOK, envVars, historyVars
<1>5. QED
  BY <1>2, <1>3, <1>4

\* The actions that reach the account on the chain.
LEMMA ChainFrame ==
  ASSUME [Next]_vars,
         ~ (Submit \/ SubmitUnanswered \/ SubmitForeign \/ \E t \in pool : Include(t))
  PROVE  UNCHANGED <<chainNonce, pool>>
BY DEF Next, Enqueue, NewHead, HeadsOpened, Tick, Kick, Stop, PrepareNonce,
       PrepareFails, SubmitRefused, SubmitFails, Notify, Finish, vars

LEMMA ChainTypeStep ==
  ASSUME TypeOK, [Next]_vars PROVE ChainTypeOK(Txs)'
<1>1. ChainTypeOK(Txs) /\ round \in Txs /\ nonce \in Nat
  BY TypeParts DEF LoopTypeOK, Txs
<1>2. CASE Submit \/ SubmitUnanswered
  BY <1>1, <1>2, AcceptType DEF Submit, SubmitUnanswered
<1>3. CASE SubmitForeign
  <2>1. PICK n \in IndexRange : Accept(Foreign, n)
    BY <1>3 DEF SubmitForeign
  <2>2. n \in Nat
    BY <1>1, FS_CardinalityType DEF ChainTypeOK, IndexRange
  <2>3. QED
    BY <1>1, <2>1, <2>2, AcceptType DEF Txs
<1>4. ASSUME NEW t \in pool, Include(t) PROVE ChainTypeOK(Txs)'
  BY <1>1, <1>4, IncludeType DEF Include
<1>5. CASE UNCHANGED <<chainNonce, pool>>
  BY <1>1, <1>5 DEF ChainTypeOK
<1>6. QED
  BY <1>2, <1>3, <1>4, <1>5, ChainFrame

LEMMA TypeStep ==
  TypeOK /\ UnsubInv /\ HeadsInv /\ [Next]_vars => TypeOK' /\ UnsubInv' /\ HeadsInv'
<1> SUFFICES ASSUME TypeOK, UnsubInv, HeadsInv, [Next]_vars
             PROVE  TypeOK' /\ UnsubInv' /\ HeadsInv'
  OBVIOUS
<1>1. OutcomeTypeOK
  BY TypeParts
<1>2. LoopTypeOK' /\ OutcomeTypeOK' /\ HistoryTypeOK' /\ ChainTypeOK(Txs)'
  BY <1>1, LoopTypeStep, OutcomeTypeStep, HistoryTypeStep, ChainTypeStep
<1>3. HeadsTypeOK' /\ UnsubInv' /\ HeadsInv'
  BY HeadsStep
<1>4. TypeOK'
  BY <1>2, <1>3, TypePartsNext
<1>5. QED
  BY <1>3, <1>4

LEMMA TypedHeads == Spec => [](TypeOK /\ UnsubInv /\ HeadsInv)
<1>1. Init => TypeOK /\ UnsubInv /\ HeadsInv
  BY TypeInit DEF Init, UnsubInv, HeadsInv
<1>2. QED
  BY <1>1, TypeStep, PTL DEF Spec

\* Every state of the queue, its nonce, its subscription and the account is
\* well typed.
THEOREM TypeCorrect == Spec => []TypeOK
BY TypedHeads, PTL

\* There is one subscription to the heads while the queue runs and none after,
\* whenever stop() ran with no subscribeNewHeads pending.
THEOREM OneSubscription == Spec => []OneHeadsSubscription
<1>1. HeadsInv => OneHeadsSubscription
  BY DEF HeadsInv, OneHeadsSubscription
<1>2. QED
  BY <1>1, TypedHeads, PTL

-----------------------------------------------------------------------------
\* The actions that run the loop and nothing else of this component's state.
Runs == \/ \E i \in Items : Enqueue(i)
        \/ \E s \in Subs : NewHead(s)
        \/ Tick \/ Kick

\* What the loop does with its state when it runs: nothing, or it starts.
LEMMA RunsEffect ==
  ASSUME TypeOK, [Next]_vars, Runs
  PROVE  /\ UNCHANGED <<nonce, verdict, nonceVars, executions, batchFate, chainNonce,
                        pool, envVars, historyVars>>
         /\ \/ UNCHANGED <<processing, step, round>>
            \/ /\ ~processing /\ processing' /\ step' = "preparing"
               /\ round' # <<>> /\ Len(round') <= MaxBatchSize
<1>1. ASSUME NEW i \in Items, Enqueue(i)
      PROVE  Append(queue, i) \in Seq(Items) /\ \E ages : RunOnce(Append(queue, i), ages)
  BY <1>1, TypeParts, AppendProperties DEF LoopTypeOK, Enqueue
<1>2. queue \in Seq(Items)
  BY TypeParts DEF LoopTypeOK
<1>3. \E q \in Seq(Items) : \E ages : RunOnce(q, ages)
  <2>1. CASE \E s \in Subs : NewHead(s)
    BY <1>2, <2>1 DEF NewHead
  <2>2. CASE Tick \/ Kick
    BY <1>2, <2>2 DEF Tick, Kick
  <2>3. QED
    BY <1>1, <2>1, <2>2 DEF Runs
<1>4. UNCHANGED <<nonce, verdict, nonceVars, executions, batchFate, chainNonce,
                  pool, envVars, historyVars>>
  BY DEF Runs, Enqueue, NewHead, Tick, Kick
<1>5. QED
  BY <1>3, <1>4, RunOnceEffect

LEMMA StepCases ==
  ASSUME [Next]_vars
  PROVE  \/ Runs \/ PrepareNonce \/ PrepareFails
         \/ Submit \/ SubmitRefused \/ SubmitFails \/ SubmitUnanswered
         \/ Notify \/ Finish
         \/ (\E s \in Subs : HeadsOpened(s)) \/ Stop
         \/ (\E t \in pool : Include(t)) \/ SubmitForeign \/ UNCHANGED vars
BY DEF Next, Runs

\* The actions that leave the loop and its nonce alone.
LEMMA LoopFrame ==
  ASSUME \/ (\E s \in Subs : HeadsOpened(s)) \/ Stop
         \/ (\E t \in pool : Include(t)) \/ SubmitForeign \/ UNCHANGED vars
  PROVE  UNCHANGED <<loopVars, nonceVars>>
BY DEF HeadsOpened, Stop, Include, SubmitForeign, vars

\* One activation at a time, and its verdict when it settles.
LEMMA LoopStep ==
  ASSUME TypeOK, LoopInv, [Next]_vars PROVE LoopInv'
<1>1. CASE Runs
  BY <1>1, RunsEffect DEF LoopInv
<1>2. CASE \/ PrepareNonce \/ PrepareFails \/ Submit \/ SubmitRefused \/ SubmitFails
           \/ SubmitUnanswered \/ Notify
  BY <1>2 DEF LoopInv, PrepareNonce, PrepareFails, Submit, SubmitRefused, SubmitFails,
              SubmitUnanswered, Notify
<1>3. CASE Finish
  <2>1. Len(<<>>) <= MaxBatchSize
    BY BatchingAssumption
  <2>2. QED
    BY <1>3, <2>1 DEF LoopInv, Finish
<1>4. CASE UNCHANGED <<loopVars, nonceVars>>
  BY <1>4 DEF LoopInv, loopVars
<1>5. QED
  BY <1>1, <1>2, <1>3, <1>4, LoopFrame, StepCases

LEMMA NonceCountStep ==
  ASSUME TypeOK, NonceCount, [Next]_vars PROVE NonceCount'
<1>1. CASE Runs
  BY <1>1, RunsEffect DEF NonceCount, nonceVars
<1>2. CASE PrepareNonce
  BY <1>2, PrepareNonceEffect DEF NonceCount
<1>3. CASE \/ PrepareFails \/ Submit \/ SubmitRefused \/ SubmitFails
           \/ SubmitUnanswered \/ Notify \/ Finish
  BY <1>3 DEF NonceCount, PrepareFails, Submit, SubmitRefused, SubmitFails,
              SubmitUnanswered, Notify, Finish
<1>4. CASE UNCHANGED <<loopVars, nonceVars>>
  BY <1>4 DEF NonceCount, loopVars, nonceVars
<1>5. QED
  BY <1>1, <1>2, <1>3, <1>4, LoopFrame, StepCases

\* The nonces of the pool are natural numbers, and so is the client's.
LEMMA NonceTypes ==
  ASSUME TypeOK
  PROVE  /\ chainNonce \in Nat /\ nonce \in Nat /\ foreigners \in Nat
         /\ skipped \in Nat /\ misreads \in Nat
         /\ \A t \in pool : t.nonce \in Nat
         /\ currentNonce = None \/ currentNonce \in Nat
         /\ None \notin Nat
BY TypeParts, BatchingAssumption DEF LoopTypeOK, HistoryTypeOK, ChainTypeOK

\* What is not counted now was not counted before.
LEMMA OwnNoncesBefore ==
  ASSUME TypeOK, [Next]_vars, OwnNonces' PROVE OwnNonces
<1>1. /\ foreigners \in Nat /\ skipped \in Nat /\ misreads \in Nat
  BY NonceTypes
<1>2. foreigners' \in {foreigners, foreigners + 1}
  BY DEF Next, Enqueue, NewHead, HeadsOpened, Tick, Kick, Stop, PrepareNonce,
         PrepareFails, Submit, SubmitRefused, SubmitFails, SubmitUnanswered, Notify,
         Finish, Include, SubmitForeign, vars, envVars
<1>3. skipped' \in {skipped, skipped + 1}
  BY DEF Next, Enqueue, NewHead, HeadsOpened, Tick, Kick, Stop, PrepareNonce,
         PrepareFails, Submit, SubmitRefused, SubmitFails, SubmitUnanswered, Notify,
         Finish, Include, SubmitForeign, vars, historyVars
<1>4. misreads' \in {misreads, misreads + 1}
  <2>1. CASE Finish
    BY <2>1, FinishCases DEF Requeue, SettleRound
  <2>2. CASE ~Finish
    BY <2>2 DEF Next, Enqueue, NewHead, HeadsOpened, Tick, Kick, Stop, PrepareNonce,
         PrepareFails, Submit, SubmitRefused, SubmitFails, SubmitUnanswered, Notify,
         Include, SubmitForeign, vars, historyVars
  <2>3. QED
    BY <2>1, <2>2
<1>5. QED
  BY <1>1, <1>2, <1>3, <1>4 DEF OwnNonces

\* The next index is above the pool if the pool has no gap.
LEMMA NextIndexAbove ==
  ASSUME TypeOK, NEW n \in Nat, IsNextIndex(n), \A t \in pool : GapFree(t.nonce)
  PROVE  chainNonce <= n /\ \A t \in pool : t.nonce < n
<1>1. chainNonce \in Nat /\ \A t \in pool : t.nonce \in Nat
  BY NonceTypes
<1>2. ASSUME NEW t \in pool, ~(t.nonce < n) PROVE FALSE
  <2>1. t.nonce # n
    BY DEF IsNextIndex, Pooled
  <2>2. n \in chainNonce..(t.nonce - 1)
    BY <1>1, <1>2, <2>1 DEF IsNextIndex
  <2>3. QED
    BY <2>2 DEF GapFree, IsNextIndex
<1>3. QED
  BY <1>1, <1>2 DEF IsNextIndex

\* While nobody else uses the account, the client's nonce is above the pool's.
LEMMA NonceStep ==
  ASSUME TypeOK, LoopInv, NonceCount, NonceInv, GapInv, [Next]_vars PROVE NonceInv'
<1> SUFFICES ASSUME OwnNonces', OwnNonces PROVE NonceInv'
  BY OwnNoncesBefore DEF NonceInv
<1>1. CASE Runs
  BY <1>1, RunsEffect DEF NonceInv, LoopInv, nonceVars, historyVars
<1>2. CASE PrepareNonce
  <2>1. UNCHANGED <<refusals, verdict, pool, chainNonce>>
        /\ step = "preparing" /\ step' = "submitting"
    BY <1>2 DEF PrepareNonce, historyVars
  <2>2. nonce' \in Nat /\ currentNonce' = nonce' + 1
        /\ IF currentNonce = None THEN IsNextIndex(nonce') ELSE nonce' = currentNonce
    BY <1>2, PrepareNonceEffect
  <2>3. currentNonce' # None
    BY <2>2, NonceTypes
  <2>4. chainNonce <= nonce' /\ \A t \in pool : t.nonce < nonce'
    <3>1. CASE currentNonce = None
      <4>1. IsNextIndex(nonce') /\ (pool = {} \/ misreads # 0)
        BY <2>2, <3>1 DEF NonceInv
      <4>2. CASE pool = {}
        BY <4>1, <4>2 DEF IsNextIndex
      <4>3. CASE misreads # 0
        <5>1. \A t \in pool : GapFree(t.nonce)
          BY <4>3 DEF OwnNonces, GapInv
        <5>2. QED
          BY <2>2, <4>1, <5>1, NextIndexAbove
      <4>4. QED
        BY <4>1, <4>2, <4>3
    <3>2. CASE currentNonce # None
      BY <2>1, <2>2, <3>2 DEF NonceInv
    <3>3. QED
      BY <3>1, <3>2
  <2>5. QED
    BY <2>1, <2>3, <2>4 DEF NonceInv
<1>3. CASE PrepareFails \/ Notify
  BY <1>3 DEF PrepareFails, Notify, NonceInv, nonceVars, historyVars
<1>4. CASE Submit \/ SubmitUnanswered
  <2>1. /\ UNCHANGED <<refusals, chainNonce, currentNonce>>
        /\ step = "submitting" /\ step' # "submitting" /\ verdict' # "nonceError"
        /\ pool' = pool \cup {[nonce |-> nonce, tx |-> round]}
    BY <1>4 DEF Submit, SubmitUnanswered, Accept, nonceVars, historyVars, LoopInv
  <2>2. currentNonce = nonce + 1 /\ currentNonce # None
    BY <2>1, NonceTypes DEF NonceCount
  <2>3. chainNonce <= nonce /\ \A t \in pool : t.nonce < nonce
    BY <2>1, <2>2 DEF NonceInv
  <2>4. \A t \in pool' : t.nonce < currentNonce
    BY <2>1, <2>2, <2>3, NonceTypes
  <2>5. chainNonce <= currentNonce
    BY <2>2, <2>3, NonceTypes
  <2>6. QED
    BY <2>1, <2>2, <2>4, <2>5 DEF NonceInv
<1>5. CASE SubmitRefused
  <2>1. step = "submitting" /\ Refuses(nonce)
    BY <1>5 DEF SubmitRefused
  <2>2. currentNonce # None
    BY <2>1, NonceTypes DEF NonceCount
  <2>3. chainNonce <= nonce /\ \A t \in pool : t.nonce < nonce
    BY <2>1, <2>2 DEF NonceInv
  <2>4. FALSE
    BY <2>1, <2>3, NonceTypes DEF Refuses, Pooled
  <2>5. QED
    BY <2>4
<1>6. CASE SubmitFails
  <2>1. /\ UNCHANGED <<refusals, chainNonce, currentNonce, pool>>
        /\ step = "submitting" /\ step' # "submitting" /\ verdict' # "nonceError"
    BY <1>6 DEF SubmitFails, nonceVars
  <2>2. currentNonce = nonce + 1 /\ currentNonce # None
    BY <2>1, NonceTypes DEF NonceCount
  <2>3. chainNonce <= nonce /\ \A t \in pool : t.nonce < nonce
    BY <2>1, <2>2 DEF NonceInv
  <2>4. chainNonce <= currentNonce /\ \A t \in pool : t.nonce < currentNonce
    BY <2>2, <2>3, NonceTypes
  <2>5. QED
    BY <2>1, <2>2, <2>4 DEF NonceInv
<1>7. CASE Finish
  <2>1. /\ UNCHANGED <<refusals, chainNonce, pool>>
        /\ step = "settling" /\ step' = "idle" /\ verdict' = "none"
    BY <1>7 DEF Finish
  <2>2. refusals = 0 /\ verdict # "nonceError"
    BY DEF NonceInv
  <2>3. CASE Requeue
    <3>1. currentNonce' = None /\ misreads' = misreads + 1
      BY <2>2, <2>3 DEF Requeue, AfterNonceError
    <3>2. misreads' # 0
      BY <3>1, NonceTypes
    <3>3. QED
      BY <2>1, <2>2, <3>1, <3>2 DEF NonceInv
  <2>4. CASE SettleRound
    <3>1. UNCHANGED <<currentNonce, misreads>>
      BY <2>4 DEF SettleRound
    <3>2. QED
      BY <2>1, <3>1 DEF NonceInv
  <2>5. QED
    BY <1>7, <2>3, <2>4, FinishCases
<1>8. ASSUME NEW t \in pool, Include(t) PROVE NonceInv'
  <2>1. /\ UNCHANGED <<refusals, currentNonce, nonce, step, verdict, misreads>>
        /\ t.nonce = chainNonce /\ pool' = pool \ {t} /\ chainNonce' = chainNonce + 1
    BY <1>8 DEF Include, IncludeTx, loopVars, nonceVars, historyVars
  <2> DEFINE n == IF step = "submitting" THEN nonce ELSE currentNonce
  <2> SUFFICES ASSUME currentNonce # None PROVE NonceInv'
    BY <2>1 DEF NonceInv
  <2>2. currentNonce # None
    OBVIOUS
  <2>3. t.nonce < n /\ \A u \in pool : u.nonce < n
    BY <2>1, <2>2 DEF NonceInv
  <2>4. chainNonce' <= n
    BY <2>1, <2>2, <2>3, NonceTypes
  <2>5. QED
    BY <2>1, <2>2, <2>3, <2>4 DEF NonceInv
<1>9. CASE SubmitForeign
  BY <1>9, NonceTypes DEF SubmitForeign, OwnNonces
<1>10. CASE (\E s \in Subs : HeadsOpened(s)) \/ Stop \/ UNCHANGED vars
  <2>1. UNCHANGED <<refusals, misreads, currentNonce, nonce, step, verdict, pool,
                    chainNonce>>
    BY <1>10 DEF HeadsOpened, Stop, vars, loopVars, nonceVars, historyVars
  <2>2. QED
    BY <2>1 DEF NonceInv
<1>11. QED
  BY <1>1, <1>2, <1>3, <1>4, <1>5, <1>6, <1>7, <1>8, <1>9, <1>10, StepCases

\* Nonces that are in the pool stay there until a block includes them.
LEMMA GapFreeKept ==
  ASSUME ChainTypeOK(Txs), NEW n \in Nat, GapFree(n),
         \/ pool \subseteq pool' /\ chainNonce' = chainNonce
         \/ \E t \in pool : IncludeTx(t)
  PROVE  \A m \in chainNonce'..(n - 1) : Pooled(m)'
<1>1. CASE pool \subseteq pool' /\ chainNonce' = chainNonce
  BY <1>1 DEF GapFree, Pooled
<1>2. ASSUME NEW t \in pool, IncludeTx(t)
      PROVE  \A m \in chainNonce'..(n - 1) : Pooled(m)'
  <2> SUFFICES ASSUME NEW m \in chainNonce'..(n - 1) PROVE Pooled(m)'
    OBVIOUS
  <2>1. m \in chainNonce..(n - 1) /\ m # chainNonce
    BY <1>2 DEF IncludeTx, ChainTypeOK
  <2>2. PICK u \in pool : u.nonce = m
    BY <2>1 DEF GapFree, Pooled
  <2>3. u \in pool'
    BY <1>2, <2>1, <2>2 DEF IncludeTx
  <2>4. QED
    BY <2>2, <2>3 DEF Pooled
<1>3. QED
  BY <1>1, <1>2

\* One more nonce is in the pool, or was used.
LEMMA GapFreeNext ==
  ASSUME ChainTypeOK(Txs), NEW n \in Nat, GapFree(n), Refuses(n)
  PROVE  GapFree(n + 1)
BY DEF GapFree, Refuses, ChainTypeOK

\* As long as no counted nonce is skipped, the pool has no gap, foreign
\* extrinsics or not.
LEMMA GapStep ==
  ASSUME TypeOK, LoopInv, NonceCount, GapInv, [Next]_vars PROVE GapInv'
<1> SUFFICES ASSUME skipped' = 0 PROVE GapInv'
  BY DEF GapInv
<1>0. /\ ChainTypeOK(Txs) /\ nonce \in Nat
      /\ currentNonce = None \/ currentNonce \in Nat
      /\ \A t \in pool : t.nonce \in Nat
  BY TypeParts, NonceTypes
<1>1. CASE Runs
  BY <1>1, RunsEffect DEF GapInv, LoopInv, nonceVars, historyVars, GapFree, Pooled
<1>2. CASE PrepareNonce
  <2>1. UNCHANGED <<skipped, pool, chainNonce>>
        /\ step = "preparing" /\ step' = "submitting"
    BY <1>2 DEF PrepareNonce, historyVars
  <2>2. nonce' \in Nat
        /\ IF currentNonce = None THEN IsNextIndex(nonce') ELSE nonce' = currentNonce
    BY <1>2, PrepareNonceEffect
  <2>3. \A m \in chainNonce..(nonce' - 1) : Pooled(m)
    BY <2>1, <2>2 DEF GapInv, IsNextIndex, GapFree
  <2>4. QED
    BY <2>1, <2>3 DEF GapInv, GapFree, Pooled
<1>3. CASE PrepareFails \/ Notify
  BY <1>3 DEF PrepareFails, Notify, GapInv, nonceVars, historyVars, GapFree, Pooled
<1>4. CASE Submit \/ SubmitUnanswered
  <2>1. /\ UNCHANGED <<skipped, chainNonce, currentNonce>>
        /\ step = "submitting" /\ step' # "submitting"
        /\ pool' = pool \cup {[nonce |-> nonce, tx |-> round]}
    BY <1>4 DEF Submit, SubmitUnanswered, Accept, nonceVars, historyVars
  <2>2. currentNonce = nonce + 1 /\ GapFree(nonce) /\ \A t \in pool : GapFree(t.nonce)
    BY <2>1 DEF NonceCount, GapInv
  <2>3. \A n \in Nat : GapFree(n) => \A m \in chainNonce'..(n - 1) : Pooled(m)'
    BY <1>0, <2>1, GapFreeKept
  <2>4. \A m \in chainNonce'..(nonce - 1) : Pooled(m)'
    BY <1>0, <2>2, <2>3
  <2>5. Pooled(nonce)'
    <3>1. [nonce |-> nonce, tx |-> round] \in pool'
      BY <2>1
    <3>2. nonce' = nonce
      BY <1>4 DEF Submit, SubmitUnanswered
    <3>3. QED
      BY <3>1, <3>2 DEF Pooled
  <2>6. nonce' = nonce
    BY <1>4 DEF Submit, SubmitUnanswered
  <2>7. \A m \in chainNonce'..(currentNonce' - 1) : Pooled(m)'
    BY <1>0, <2>1, <2>2, <2>4, <2>5, <2>6, NonceTypes DEF Pooled
  <2>8. \A t \in pool' : \A m \in chainNonce'..(t.nonce - 1) : Pooled(m)'
    BY <1>0, <2>1, <2>2, <2>3, <2>4
  <2>9. QED
    BY <2>1, <2>7, <2>8 DEF GapInv, GapFree
<1>5. CASE SubmitRefused
  <2>1. /\ UNCHANGED <<skipped, chainNonce, currentNonce, pool>>
        /\ step = "submitting" /\ step' # "submitting" /\ Refuses(nonce)
    BY <1>5 DEF SubmitRefused, nonceVars
  <2>2. currentNonce = nonce + 1 /\ GapFree(nonce + 1)
    BY <1>0, <2>1, GapFreeNext DEF NonceCount, GapInv
  <2>3. QED
    BY <2>1, <2>2 DEF GapInv, GapFree, Pooled
<1>6. CASE SubmitFails
  BY <1>6, NonceTypes DEF SubmitFails
<1>7. CASE Finish
  <2>1. /\ UNCHANGED <<skipped, chainNonce, pool>>
        /\ step = "settling" /\ step' = "idle"
        /\ currentNonce' \in {currentNonce, None}
    BY <1>7, FinishCases DEF Finish, Requeue, SettleRound, AfterNonceError
  <2>2. QED
    BY <2>1 DEF GapInv, GapFree, Pooled
<1>8. ASSUME \/ \E t \in pool : Include(t)
             \/ SubmitForeign
      PROVE  GapInv'
  <2>1. UNCHANGED <<currentNonce, nonce, step, skipped>>
    BY <1>8 DEF Include, SubmitForeign, loopVars, nonceVars, historyVars
  <2>2. \/ pool \subseteq pool' /\ chainNonce' = chainNonce
        \/ \E t \in pool : IncludeTx(t)
    BY <1>8 DEF Include, SubmitForeign, Accept
  <2>3. \A n \in Nat : GapFree(n) => \A m \in chainNonce'..(n - 1) : Pooled(m)'
    BY <1>0, <2>2, GapFreeKept
  <2>4. step' = "submitting" => \A m \in chainNonce'..(nonce' - 1) : Pooled(m)'
    BY <1>0, <2>1, <2>3 DEF GapInv
  <2>5. step' # "submitting" /\ currentNonce' # None
          => \A m \in chainNonce'..(currentNonce' - 1) : Pooled(m)'
    BY <1>0, <2>1, <2>3 DEF GapInv
  <2>6. \A t \in pool' : \A m \in chainNonce'..(t.nonce - 1) : Pooled(m)'
    <3>1. ASSUME NEW t \in pool', t \in pool
          PROVE  \A m \in chainNonce'..(t.nonce - 1) : Pooled(m)'
      BY <1>0, <2>1, <2>3, <3>1 DEF GapInv
    <3>2. ASSUME NEW n \in IndexRange, IsNextIndex(n), Accept(Foreign, n),
                 NEW t \in pool', t \notin pool
          PROVE  \A m \in chainNonce'..(t.nonce - 1) : Pooled(m)'
      BY <3>2 DEF Accept, IsNextIndex, Pooled
    <3>3. QED
      BY <1>8, <3>1, <3>2 DEF Include, IncludeTx, SubmitForeign
  <2>7. QED
    BY <2>4, <2>5, <2>6 DEF GapInv, GapFree
<1>9. CASE (\E s \in Subs : HeadsOpened(s)) \/ Stop \/ UNCHANGED vars
  <2>1. UNCHANGED <<currentNonce, nonce, step, skipped, pool, chainNonce>>
    BY <1>9 DEF HeadsOpened, Stop, vars, loopVars, nonceVars, historyVars
  <2>2. QED
    BY <2>1 DEF GapInv, GapFree, Pooled
<1>10. QED
  BY <1>1, <1>2, <1>3, <1>4, <1>5, <1>6, <1>7, <1>8, <1>9, StepCases

\* The nonce the client counts is good: what the loop takes for granted when
\* it submits with it.
LEMMA Counted == Spec => [](TypeOK /\ LoopInv /\ NonceCount /\ NonceInv /\ GapInv)
<1>1. Init => LoopInv /\ NonceCount /\ NonceInv /\ GapInv
  <2>1. Len(<<>>) <= MaxBatchSize
    BY BatchingAssumption
  <2>2. QED
    BY <2>1 DEF Init, ChainInit, LoopInv, NonceCount, NonceInv, GapInv
<1>2. TypeOK /\ LoopInv /\ NonceCount /\ NonceInv /\ GapInv /\ [Next]_vars
        => LoopInv' /\ NonceCount' /\ NonceInv' /\ GapInv'
  BY LoopStep, NonceCountStep, NonceStep, GapStep
<1>3. QED
  BY <1>1, <1>2, TypeCorrect, PTL DEF Spec

\* With no foreign extrinsic no batch is refused for its nonce, whatever else
\* fails, unless both a counted nonce was never used and an error was misread.
THEOREM NonceSafety == Spec => []NoNonceCollision
<1>1. NonceInv => NoNonceCollision
  BY DEF NonceInv, OwnNonces, NoNonceCollision
<1>2. QED
  BY <1>1, Counted, PTL

\* The pool's nonces follow on from the chain's, unless one was skipped.
THEOREM NonceContinuity == Spec => []NoNonceGap
<1>1. GapInv => NoNonceGap
  BY DEF GapInv, GapFree, NoNonceGap
<1>2. QED
  BY <1>1, Counted, PTL

-----------------------------------------------------------------------------
\* The elements of a concatenation.
LEMMA ElemsConcat ==
  ASSUME NEW s \in Seq(Items), NEW t \in Seq(Items)
  PROVE  Elems(s \o t) = Elems(s) \cup Elems(t)
<1>1. /\ Len(s) \in Nat /\ Len(t) \in Nat /\ Len(s \o t) = Len(s) + Len(t)
      /\ \A k \in 1..(Len(s) + Len(t)) :
           (s \o t)[k] = IF k <= Len(s) THEN s[k] ELSE t[k - Len(s)]
  BY ConcatProperties, LenProperties
<1>2. ASSUME NEW x \in Elems(s \o t) PROVE x \in Elems(s) \cup Elems(t)
  <2>1. PICK k \in 1..(Len(s) + Len(t)) : x = (s \o t)[k]
    BY <1>1, <1>2 DEF Elems
  <2>2. CASE k <= Len(s)
    BY <1>1, <2>1, <2>2 DEF Elems
  <2>3. CASE ~(k <= Len(s))
    <3>1. k - Len(s) \in 1..Len(t) /\ x = t[k - Len(s)]
      BY <1>1, <2>1, <2>3
    <3>2. QED
      BY <3>1 DEF Elems
  <2>4. QED
    BY <2>2, <2>3
<1>3. ASSUME NEW x \in Elems(s) PROVE x \in Elems(s \o t)
  <2>1. PICK k \in 1..Len(s) : x = s[k]
    BY DEF Elems
  <2>2. k \in 1..Len(s \o t) /\ (s \o t)[k] = x
    BY <1>1, <2>1
  <2>3. QED
    BY <2>2 DEF Elems
<1>4. ASSUME NEW x \in Elems(t) PROVE x \in Elems(s \o t)
  <2>1. PICK k \in 1..Len(t) : x = t[k]
    BY DEF Elems
  <2>2. k + Len(s) \in 1..Len(s \o t) /\ (s \o t)[k + Len(s)] = x
    BY <1>1, <2>1
  <2>3. QED
    BY <2>2 DEF Elems
<1>5. QED
  BY <1>2, <1>3, <1>4

\* A sequence without repetitions splits into two that share nothing.
LEMMA DistinctConcat ==
  ASSUME NEW s \in Seq(Items), NEW t \in Seq(Items), Distinct(s \o t)
  PROVE  Distinct(t) /\ Elems(s) \cap Elems(t) = {}
<1>1. /\ Len(s) \in Nat /\ Len(t) \in Nat /\ Len(s \o t) = Len(s) + Len(t)
      /\ \A k \in 1..(Len(s) + Len(t)) :
           (s \o t)[k] = IF k <= Len(s) THEN s[k] ELSE t[k - Len(s)]
  BY ConcatProperties, LenProperties
<1>2. \A k \in 1..Len(t) : /\ k + Len(s) \in 1..Len(s \o t)
                           /\ (s \o t)[k + Len(s)] = t[k]
  BY <1>1
<1>3. \A k \in 1..Len(s) : k \in 1..Len(s \o t) /\ (s \o t)[k] = s[k]
  BY <1>1
<1>4. ASSUME NEW k \in 1..Len(t), NEW l \in 1..Len(t), t[k] = t[l] PROVE k = l
  <2>1. k + Len(s) = l + Len(s)
    BY <1>2, <1>4 DEF Distinct
  <2>2. QED
    BY <1>1, <2>1
<1>5. ASSUME NEW k \in 1..Len(s), NEW l \in 1..Len(t), s[k] = t[l] PROVE FALSE
  <2>1. k = l + Len(s)
    BY <1>2, <1>3, <1>5 DEF Distinct
  <2>2. QED
    BY <1>1, <2>1
<1>6. QED
  BY <1>4, <1>5 DEF Distinct, Elems

\* A new element at the end.
LEMMA DistinctAppend ==
  ASSUME NEW s \in Seq(Items), NEW i \in Items, Distinct(s), i \notin Elems(s)
  PROVE  Distinct(Append(s, i)) /\ Elems(Append(s, i)) = Elems(s) \cup {i}
<1> DEFINE t == Append(s, i)
<1>1. /\ Len(s) \in Nat /\ Len(t) = Len(s) + 1 /\ t[Len(s) + 1] = i
      /\ \A k \in 1..Len(s) : t[k] = s[k] /\ s[k] # i
  BY AppendProperties, LenProperties DEF Elems
<1> HIDE DEF t
<1>2. Distinct(t)
  BY <1>1 DEF Distinct
<1>3. Elems(t) = Elems(s) \cup {i}
  BY <1>1 DEF Elems
<1>4. QED
  BY <1>2, <1>3 DEF t

\* What a step does to the calls that wait or are under way: one is appended,
\* the round is settled, or they stay as they are.
LEMMA PendingEffect ==
  ASSUME TypeOK, LoopInv, [Next]_vars
  PROVE  \/ \E i \in Items : /\ Enqueue(i)
                             /\ round' \o queue' = Append(round \o queue, i)
         \/ Finish /\ SettleRound /\ round' \o queue' = queue
         \/ UNCHANGED <<round \o queue, promise>>
<1>1. queue \in Seq(Items) /\ round \in Seq(Items)
  BY TypeParts DEF LoopTypeOK
<1>2. ASSUME NEW q \in Seq(Items), NEW ages, RunOnce(q, ages)
      PROVE  round' \o queue' = round \o q
  <2>1. CASE queue' = q /\ UNCHANGED <<processing, step, round>>
    BY <2>1
  <2>2. CASE ~processing /\ round' \o queue' = q
    <3>1. round = <<>>
      BY <2>2 DEF LoopInv
    <3>2. QED
      BY <2>2, <3>1, ConcatEmptySeq
  <2>3. QED
    BY <1>2, <2>1, <2>2, RunOnceEffect
<1>3. ASSUME NEW i \in Items, Enqueue(i)
      PROVE  round' \o queue' = Append(round \o queue, i)
  <2>1. Append(queue, i) \in Seq(Items) /\ <<i>> \in Seq(Items)
        /\ round \o queue \in Seq(Items)
    BY <1>1, AppendProperties, ConcatProperties
  <2>2. round' \o queue' = round \o Append(queue, i)
    BY <1>2, <1>3, <2>1 DEF Enqueue
  <2>3. round \o Append(queue, i) = round \o (queue \o <<i>>)
    BY <1>1, AppendIsConcat
  <2>4. round \o (queue \o <<i>>) = (round \o queue) \o <<i>>
    BY <1>1, <2>1, ConcatAssociative
  <2>5. QED
    BY <2>1, <2>2, <2>3, <2>4, AppendIsConcat
<1>4. CASE (\E s \in Subs : NewHead(s)) \/ Tick \/ Kick
  <2>1. \E ages : RunOnce(queue, ages)
    BY <1>4 DEF NewHead, Tick, Kick
  <2>2. promise' = promise
    BY <1>4 DEF NewHead, Tick, Kick
  <2>3. QED
    BY <1>1, <1>2, <2>1, <2>2
<1>5. CASE Finish
  <2>1. round' = <<>>
    BY <1>5 DEF Finish
  <2>2. CASE Requeue
    <3>1. queue' = round \o queue /\ promise' = promise /\ round \o queue \in Seq(Items)
      BY <1>1, <2>2, ConcatProperties DEF Requeue, Requeued
    <3>2. round' \o queue' = round \o queue
      BY <2>1, <3>1, ConcatEmptySeq
    <3>3. QED
      BY <3>1, <3>2
  <2>3. CASE SettleRound
    <3>1. queue' = queue
      BY <2>3 DEF SettleRound
    <3>2. round' \o queue' = queue
      BY <1>1, <2>1, <3>1, ConcatEmptySeq
    <3>3. QED
      BY <1>5, <2>3, <3>2
  <2>4. QED
    BY <1>5, <2>2, <2>3, FinishCases
<1>6. CASE ~ \/ \E i \in Items : Enqueue(i)
             \/ \E s \in Subs : NewHead(s)
             \/ Tick \/ Kick \/ Finish
  <2>1. UNCHANGED <<round, queue, promise>>
    BY <1>6 DEF Next, HeadsOpened, Stop, PrepareNonce, PrepareFails, Submit,
       SubmitRefused, SubmitFails, SubmitUnanswered, Notify, Include, SubmitForeign,
       vars, loopVars
  <2>2. QED
    BY <2>1
<1>7. QED
  BY <1>3, <1>4, <1>5, <1>6

\* A call waits, or is under way, once, from enqueue() until it is settled.
LEMMA WaitingStep ==
  ASSUME TypeOK, LoopInv, WaitingInv, [Next]_vars PROVE WaitingInv'
<1>1. /\ queue \in Seq(Items) /\ round \in Seq(Items) /\ round \o queue \in Seq(Items)
      /\ promise \in [Items -> {"unborn", "pending", "resolved", "rejected"}]
  BY TypeParts, ConcatProperties DEF LoopTypeOK, OutcomeTypeOK
<1>2. ASSUME NEW i \in Items, Enqueue(i), round' \o queue' = Append(round \o queue, i)
      PROVE  WaitingInv'
  <2>1. promise[i] = "unborn" /\ promise' = [promise EXCEPT ![i] = "pending"]
    BY <1>2 DEF Enqueue
  <2>2. i \notin Elems(round \o queue)
    BY <2>1 DEF WaitingInv
  <2>3. Distinct(Append(round \o queue, i))
        /\ Elems(Append(round \o queue, i)) = Elems(round \o queue) \cup {i}
    BY <1>1, <2>2, DistinctAppend DEF WaitingInv
  <2>4. \A j \in Elems(round \o queue) \cup {i} : promise'[j] = "pending"
    BY <1>1, <2>1 DEF WaitingInv
  <2>5. QED
    BY <1>2, <2>3, <2>4 DEF WaitingInv, Distinct, Elems
<1>3. CASE Finish /\ SettleRound /\ round' \o queue' = queue
  <2>1. Distinct(queue) /\ Elems(round) \cap Elems(queue) = {}
        /\ Elems(round \o queue) = Elems(round) \cup Elems(queue)
    BY <1>1, DistinctConcat, ElemsConcat DEF WaitingInv
  <2>2. Elems(queue) \subseteq Items
    BY <1>1, ElementOfSeq DEF Elems
  <2>3. \A j \in Elems(queue) : promise'[j] = "pending"
    BY <1>3, <2>1, <2>2 DEF SettleRound, WaitingInv
  <2>4. QED
    BY <1>3, <2>1, <2>3 DEF WaitingInv, Distinct, Elems
<1>4. CASE UNCHANGED <<round \o queue, promise>>
  BY <1>4 DEF WaitingInv, Distinct, Elems
<1>5. QED
  BY <1>2, <1>3, <1>4, PendingEffect

\* How a run of the loop moves calls: those in the queue afterwards were in it,
\* or are new; those of a round that starts as well.
LEMMA RunsMoves ==
  ASSUME TypeOK, LoopInv, [Next]_vars, Runs, NEW j \in Items
  PROVE  /\ j \in Elems(queue') => j \in Elems(queue) \/ promise[j] = "unborn"
         /\ j \in Elems(round') =>
              \/ j \in Elems(round) /\ UNCHANGED step
              \/ /\ step' = "preparing" /\ verdict = "none"
                 /\ j \in Elems(queue) \/ promise[j] = "unborn"
<1>1. queue \in Seq(Items)
  BY TypeParts DEF LoopTypeOK
<1>2. ASSUME NEW q \in Seq(Items), NEW ages, RunOnce(q, ages),
             \A x \in Items : x \in Elems(q) => x \in Elems(queue) \/ promise[x] = "unborn"
      PROVE  /\ j \in Elems(queue') => j \in Elems(queue) \/ promise[j] = "unborn"
             /\ j \in Elems(round') =>
                  \/ j \in Elems(round) /\ UNCHANGED step
                  \/ /\ step' = "preparing" /\ verdict = "none"
                     /\ j \in Elems(queue) \/ promise[j] = "unborn"
  <2>1. CASE queue' = q /\ UNCHANGED <<processing, step, round>>
    BY <1>2, <2>1
  <2>2. CASE ~processing /\ step' = "preparing" /\ round' \o queue' = q
    <3>1. queue' \in Seq(Items) /\ round' \in Seq(Items)
      BY <1>2, RunOnceEffect
    <3>2. Elems(q) = Elems(round') \cup Elems(queue')
      BY <2>2, <3>1, ElemsConcat
    <3>3. verdict = "none"
      BY <2>2 DEF LoopInv
    <3>4. QED
      BY <1>2, <2>2, <3>2, <3>3
  <2>3. QED
    BY <1>2, <2>1, <2>2, RunOnceEffect
<1>3. ASSUME NEW i \in Items, Enqueue(i)
      PROVE  \E q \in Seq(Items) : \E ages :
               /\ RunOnce(q, ages)
               /\ \A x \in Items : x \in Elems(q) => x \in Elems(queue)
                                                     \/ promise[x] = "unborn"
  <2>1. Append(queue, i) \in Seq(Items) /\ promise[i] = "unborn"
        /\ \E ages : RunOnce(Append(queue, i), ages)
    BY <1>1, <1>3, AppendProperties DEF Enqueue
  <2>2. Elems(Append(queue, i)) \subseteq Elems(queue) \cup {i}
    <3>1. /\ Len(queue) \in Nat /\ Len(Append(queue, i)) = Len(queue) + 1
          /\ Append(queue, i)[Len(queue) + 1] = i
          /\ \A k \in 1..Len(queue) : Append(queue, i)[k] = queue[k]
      BY <1>1, AppendProperties, LenProperties
    <3>2. QED
      BY <3>1 DEF Elems
  <2>3. QED
    BY <2>1, <2>2
<1>4. CASE (\E s \in Subs : NewHead(s)) \/ Tick \/ Kick
  BY <1>1, <1>2, <1>4 DEF NewHead, Tick, Kick
<1>5. QED
  BY <1>2, <1>3, <1>4 DEF Runs

\* Nothing about a call changes on the chain: what its promise says of it holds
\* as long as the promise, and its place in the queue, allow it.
LEMMA CleanKept ==
  ASSUME NEW j, Clean(j), executions'[j] = executions[j],
         \A t \in pool' : t \in pool \/ j \notin Carried(t)
  PROVE  Clean(j)'
BY DEF Clean

LEMMA ChainKept ==
  ASSUME NEW j, ChainOK(j), executions'[j] = executions[j],
         \A t \in pool' : t \in pool \/ j \notin Carried(t)
  PROVE  ChainOK(j)'
BY DEF ChainOK

\* What a batch leaves behind in the queue or a round has no other call twice.
LEMMA RoundApart ==
  ASSUME TypeOK, WaitingInv, NEW j \in Elems(round)
  PROVE  j \in Items /\ promise[j] = "pending" /\ j \notin Elems(queue)
<1>1. round \in Seq(Items) /\ queue \in Seq(Items)
  BY TypeParts DEF LoopTypeOK
<1>2. Elems(round) \cap Elems(queue) = {} /\ j \in Elems(round \o queue)
  BY <1>1, DistinctConcat, ElemsConcat DEF WaitingInv
<1>3. j \in Items
  BY <1>1, ElementOfSeq DEF Elems
<1>4. QED
  BY <1>2, <1>3 DEF WaitingInv

\* While the loop runs, no call moves on the chain.
LEMMA ItemRuns ==
  ASSUME TypeOK, LoopInv, [Next]_vars, Runs, NEW j \in Items, ItemOK(j)
  PROVE  ItemOK(j)'
<1>1. UNCHANGED <<executions, pool, verdict, batchFate, unanswered, dispatchErrors>>
  BY RunsEffect DEF historyVars
<1>2. ChainOK(j) /\ PromiseOK(j) /\ (j \in Elems(round) => RoundOK(j))
  BY DEF ItemOK
<1>3. (Clean(j) <=> Clean(j)') /\ ChainOK(j)'
  BY <1>1, <1>2 DEF Clean, ChainOK
<1>4. promise'[j] \in {promise[j], "pending"}
  BY TypeParts DEF Runs, Enqueue, NewHead, Tick, Kick, OutcomeTypeOK
<1>5. j \in Elems(queue') => Clean(j)
  BY <1>2, RunsMoves DEF PromiseOK
<1>6. Elems(queue)' = Elems(queue') /\ Elems(round)' = Elems(round')
  BY DEF Elems
<1>7. PromiseOK(j)'
  BY <1>1, <1>2, <1>3, <1>4, <1>5, <1>6 DEF PromiseOK
<1>8. ASSUME j \in Elems(round') PROVE RoundOK(j)'
  <2>1. CASE j \in Elems(round) /\ UNCHANGED step
    BY <1>1, <1>2, <1>3, <2>1 DEF RoundOK
  <2>2. CASE step' = "preparing" /\ verdict = "none"
             /\ (j \in Elems(queue) \/ promise[j] = "unborn")
    BY <1>1, <1>2, <1>3, <2>2 DEF RoundOK, PromiseOK
  <2>3. QED
    BY <1>8, <2>1, <2>2, RunsMoves
<1>9. QED
  BY <1>3, <1>6, <1>7, <1>8 DEF ItemOK

\* Nor while the client and the node say what became of the submission.
LEMMA ItemQuiet ==
  ASSUME TypeOK, LoopInv, NEW j \in Items, ItemOK(j),
         PrepareNonce \/ PrepareFails \/ SubmitRefused \/ SubmitFails \/ Notify
  PROVE  ItemOK(j)'
<1>1. UNCHANGED <<executions, pool, promise, queue, round, batchFate, unanswered,
                  dispatchErrors>>
  BY DEF PrepareNonce, PrepareFails, SubmitRefused, SubmitFails, Notify, historyVars
<1>2. ChainOK(j) /\ PromiseOK(j) /\ (j \in Elems(round) => RoundOK(j))
  BY DEF ItemOK
<1>3. (Clean(j) <=> Clean(j)') /\ ChainOK(j)'
  BY <1>1, <1>2 DEF Clean, ChainOK
<1>4. PromiseOK(j)'
  BY <1>1, <1>2, <1>3 DEF PromiseOK, Elems
<1>5. ASSUME j \in Elems(round) PROVE RoundOK(j)'
  <2>1. RoundOK(j)
    BY <1>2, <1>5
  <2>2. CASE PrepareNonce
    BY <1>1, <1>3, <2>1, <2>2 DEF PrepareNonce, RoundOK
  <2>3. CASE PrepareFails \/ SubmitRefused \/ SubmitFails
    <3>1. Clean(j)' /\ step' = "settling" /\ verdict' # "inBlock"
      BY <1>3, <2>1, <2>3 DEF PrepareFails, SubmitRefused, SubmitFails, RoundOK
    <3>2. QED
      BY <3>1 DEF RoundOK
  <2>4. CASE Notify
    <3>1. step' = "settling" /\ verdict' \in {"inBlock", "dispatchError"}
      BY <2>4 DEF Notify
    <3>2. QED
      BY <1>1, <2>1, <3>1 DEF RoundOK
  <2>5. QED
    BY <2>2, <2>3, <2>4
<1>6. QED
  BY <1>1, <1>3, <1>4, <1>5 DEF ItemOK, Elems

\* An extrinsic the node accepts carries calls that no other one does.
LEMMA ItemAccepted ==
  ASSUME TypeOK, LoopInv, WaitingInv, NEW j \in Items, ItemOK(j),
         Submit \/ SubmitUnanswered
  PROVE  ItemOK(j)'
<1> DEFINE r == [nonce |-> nonce, tx |-> round]
<1>1. /\ step = "submitting" /\ pool' = pool \cup {r}
      /\ UNCHANGED <<executions, promise, queue, round, dispatchErrors>>
      /\ unanswered \subseteq unanswered'
  BY DEF Submit, SubmitUnanswered, Accept, historyVars
<1>2. ChainOK(j) /\ PromiseOK(j) /\ (j \in Elems(round) => RoundOK(j))
  BY DEF ItemOK
<1>3. Carried(r) = Elems(round)
  <2>1. round # Foreign
    BY TypeParts, BatchingAssumption DEF LoopTypeOK
  <2>2. QED
    BY <2>1 DEF Carried
<1> HIDE DEF r
<1>4. CASE j \in Elems(round)
  <2>1. Clean(j)
    BY <1>1, <1>2, <1>4 DEF RoundOK
  <2>2. ChainOK(j)'
    BY <1>1, <1>2, <2>1 DEF ChainOK, Clean
  <2>3. PromiseOK(j)'
    BY <1>1, <1>4, RoundApart DEF PromiseOK, Elems
  <2>4. RoundOK(j)'
    <3>1. CASE Submit
      BY <3>1 DEF Submit, RoundOK, LoopInv
    <3>2. CASE SubmitUnanswered
      BY <1>4, <3>2 DEF SubmitUnanswered, RoundOK
    <3>3. QED
      BY <3>1, <3>2
  <2>5. QED
    BY <2>2, <2>3, <2>4 DEF ItemOK
<1>5. CASE j \notin Elems(round)
  <2>1. \A t \in pool' : t \in pool \/ j \notin Carried(t)
    BY <1>1, <1>3, <1>5
  <2>2. ChainOK(j)' /\ (Clean(j) => Clean(j)')
    BY <1>1, <1>2, <2>1, ChainKept, CleanKept
  <2>3. PromiseOK(j)'
    BY <1>1, <1>2, <2>2 DEF PromiseOK, Elems
  <2>4. j \notin Elems(round)'
    BY <1>1, <1>5 DEF Elems
  <2>5. QED
    BY <2>2, <2>3, <2>4 DEF ItemOK
<1>6. QED
  BY <1>4, <1>5

\* A round that ends settles its calls truthfully, or gives clean ones back.
LEMMA ItemFinished ==
  ASSUME TypeOK, LoopInv, WaitingInv, NEW j \in Items, ItemOK(j), Finish,
         j \notin resent'
  PROVE  ItemOK(j)'
<1>1. /\ UNCHANGED <<executions, pool, unanswered>> /\ round' = <<>>
      /\ step = "settling"
      /\ Requeue \/ SettleRound
      /\ dispatchErrors' = dispatchErrors \cup
                           IF verdict = "dispatchError" THEN Elems(round) ELSE {}
  BY FinishCases DEF Finish
<1>2. ChainOK(j) /\ PromiseOK(j) /\ (j \in Elems(round) => RoundOK(j))
  BY DEF ItemOK
<1>3. (Clean(j) <=> Clean(j)') /\ ChainOK(j)'
  BY <1>1, <1>2 DEF Clean, ChainOK
<1>4. j \notin Elems(round)'
  BY <1>1 DEF Elems
<1>5. CASE Requeue /\ verdict # "inBlock"
  <2>1. queue' = round \o queue /\ promise' = promise
    BY <1>5 DEF Requeue, Requeued
  <2>2. Elems(queue)' = Elems(round) \cup Elems(queue)
    <3>1. round \in Seq(Items) /\ queue \in Seq(Items)
      BY TypeParts DEF LoopTypeOK
    <3>2. Elems(round \o queue) = Elems(round) \cup Elems(queue)
      BY <3>1, ElemsConcat
    <3>3. QED
      BY <2>1, <3>2 DEF Elems
  <2>3. j \in Elems(round) => Clean(j)
    <3> SUFFICES ASSUME j \in Elems(round) PROVE Clean(j)
      OBVIOUS
    <3>1. verdict # "dispatchError" /\ j \notin unanswered
      BY <1>5 DEF Requeue
    <3>2. verdict \in {"nonceError", "error"}
      <4>1. LoopTypeOK /\ verdict # "none"
        BY <1>1, TypeParts DEF LoopInv
      <4>2. QED
        BY <1>5, <3>1, <4>1 DEF LoopTypeOK
    <3>3. QED
      BY <1>2, <3>1, <3>2 DEF RoundOK
  <2>4. PromiseOK(j)'
    BY <1>1, <1>2, <1>3, <2>1, <2>2, <2>3 DEF PromiseOK
  <2>5. QED
    BY <1>3, <1>4, <2>4 DEF ItemOK
<1>6. CASE SettleRound
  <2>1. queue' = queue
    BY <1>6 DEF SettleRound
  <2>2. CASE j \notin Elems(round)
    <3>1. promise'[j] = promise[j]
      BY <1>6, <2>2 DEF SettleRound
    <3>2. PromiseOK(j)'
      BY <1>1, <1>2, <1>3, <2>1, <3>1 DEF PromiseOK, Elems
    <3>3. QED
      BY <1>3, <1>4, <3>2 DEF ItemOK
  <2>3. CASE j \in Elems(round)
    <3>1. promise'[j] = IF verdict = "inBlock" THEN "resolved" ELSE "rejected"
      BY <1>6, <2>3 DEF SettleRound
    <3>2. j \notin Elems(queue)
      BY <2>3, RoundApart
    <3>3. verdict \in {"inBlock", "dispatchError", "nonceError", "error"}
      <4>1. LoopTypeOK /\ verdict # "none"
        BY <1>1, TypeParts DEF LoopInv
      <4>2. QED
        BY <4>1 DEF LoopTypeOK
    <3>4. PromiseOK(j)'
      BY <1>1, <1>2, <1>3, <2>1, <2>3, <3>1, <3>2, <3>3 DEF PromiseOK, RoundOK, Elems
    <3>5. QED
      BY <1>3, <1>4, <3>4 DEF ItemOK
  <2>4. QED
    BY <2>2, <2>3
<1>7. QED
  BY <1>5, <1>6, FinishCases

\* A block executes each call of an extrinsic, for the first time.
LEMMA ItemIncluded ==
  ASSUME TypeOK, LoopInv, WaitingInv, NEW j \in Items, ItemOK(j),
         NEW t \in pool, Include(t)
  PROVE  ItemOK(j)'
<1>1. /\ UNCHANGED <<promise, queue, round, step, verdict, unanswered, dispatchErrors>>
      /\ pool' = pool \ {t}
  BY DEF Include, IncludeTx, loopVars, historyVars
<1>2. ChainOK(j) /\ PromiseOK(j) /\ (j \in Elems(round) => RoundOK(j))
  BY DEF ItemOK
<1>3. \A i \in Items : executions'[i] = IF i \in Carried(t) THEN executions[i] + 1
                                                            ELSE executions[i]
  <2>1. CASE t.tx = Foreign
    BY <2>1 DEF Include, Carried
  <2>2. CASE t.tx # Foreign
    BY <2>2 DEF Include, Carried
  <2>3. QED
    BY <2>1, <2>2
<1>5. Elems(queue)' = Elems(queue) /\ Elems(round)' = Elems(round)
  BY <1>1 DEF Elems
<1>6. CASE j \in Carried(t)
  <2>1. executions[j] = 0 /\ executions'[j] = 1 /\ ~Clean(j)
    BY <1>2, <1>3, <1>6 DEF ChainOK, Clean
  <2>2. \A u \in pool' : j \notin Carried(u)
    BY <1>1, <1>2, <1>6 DEF ChainOK
  <2>3. ChainOK(j)'
    BY <2>1, <2>2 DEF ChainOK
  <2>4. PromiseOK(j)'
    BY <1>1, <1>2, <1>5, <2>1 DEF PromiseOK
  <2>5. j \in Elems(round) => RoundOK(j)'
    BY <1>1, <1>2, <2>1 DEF RoundOK
  <2>6. QED
    BY <1>5, <2>3, <2>4, <2>5 DEF ItemOK
<1>7. CASE j \notin Carried(t)
  <2>1. executions'[j] = executions[j] /\ \A u \in pool' : u \in pool
    BY <1>1, <1>3, <1>7
  <2>2. ChainOK(j)' /\ (Clean(j) => Clean(j)')
    BY <1>2, <2>1, ChainKept, CleanKept
  <2>3. PromiseOK(j)'
    BY <1>1, <1>2, <1>5, <2>1, <2>2 DEF PromiseOK
  <2>4. j \in Elems(round) => RoundOK(j)'
    BY <1>1, <1>2, <2>2 DEF RoundOK
  <2>5. QED
    BY <1>5, <2>2, <2>3, <2>4 DEF ItemOK
<1>8. QED
  BY <1>6, <1>7

\* Nothing else happens to the calls.
LEMMA ItemAside ==
  ASSUME NEW j \in Items, ItemOK(j),
         (\E s \in Subs : HeadsOpened(s)) \/ Stop \/ SubmitForeign \/ UNCHANGED vars
  PROVE  ItemOK(j)'
<1>1. UNCHANGED <<executions, promise, queue, round, step, verdict, unanswered,
                  dispatchErrors>>
  BY DEF HeadsOpened, Stop, SubmitForeign, vars, loopVars, historyVars
<1>2. \A t \in pool' : t \in pool \/ j \notin Carried(t)
  BY DEF HeadsOpened, Stop, SubmitForeign, Accept, vars, Carried
<1>3. ChainOK(j) /\ PromiseOK(j) /\ (j \in Elems(round) => RoundOK(j))
  BY DEF ItemOK
<1>4. ChainOK(j)' /\ (Clean(j) => Clean(j)')
  BY <1>1, <1>2, <1>3, ChainKept, CleanKept
<1>5. PromiseOK(j)' /\ (j \in Elems(round) => RoundOK(j)')
  BY <1>1, <1>3, <1>4 DEF PromiseOK, RoundOK, Elems
<1>6. Elems(round)' = Elems(round)
  BY <1>1 DEF Elems
<1>7. QED
  BY <1>4, <1>5, <1>6 DEF ItemOK

\* A call that was resent stays one.
LEMMA ResentGrows ==
  ASSUME [Next]_vars
  PROVE  resent \subseteq resent'
<1>1. CASE Finish
  BY <1>1, FinishCases DEF Requeue, SettleRound
<1>2. CASE ~Finish
  BY <1>2 DEF Next, Enqueue, NewHead, HeadsOpened, Tick, Kick, Stop, PrepareNonce,
       PrepareFails, Submit, SubmitRefused, SubmitFails, SubmitUnanswered, Notify,
       Include, SubmitForeign, vars, historyVars
<1>3. QED
  BY <1>1, <1>2

LEMMA ItemsStep ==
  ASSUME TypeOK, LoopInv, WaitingInv, ItemsInv, [Next]_vars PROVE ItemsInv'
<1> SUFFICES ASSUME NEW j \in Items, j \notin resent' PROVE ItemOK(j)'
  BY DEF ItemsInv
<1>1. ItemOK(j)
  BY ResentGrows DEF ItemsInv
<1>2. QED
  BY <1>1, ItemAside, ItemRuns, ItemQuiet, ItemAccepted, ItemFinished, ItemIncluded,
     StepCases

\* A call is resent after a reply was lost or its batch failed.
LEMMA ResentStep ==
  ASSUME ResentInv, [Next]_vars PROVE ResentInv'
<1>1. CASE Finish
  <2>1. /\ unanswered' = unanswered
        /\ dispatchErrors' = dispatchErrors \cup
                             IF verdict = "dispatchError" THEN Elems(round) ELSE {}
    BY <1>1 DEF Finish
  <2>2. CASE Requeue
    BY <2>1, <2>2 DEF Requeue, ResentInv
  <2>3. CASE SettleRound
    BY <2>1, <2>3 DEF SettleRound, ResentInv
  <2>4. QED
    BY <1>1, <2>2, <2>3, FinishCases
<1>2. CASE ~Finish
  <2>1. resent' = resent /\ unanswered \subseteq unanswered'
        /\ dispatchErrors' = dispatchErrors
    BY <1>2 DEF Next, Enqueue, NewHead, HeadsOpened, Tick, Kick, Stop, PrepareNonce,
         PrepareFails, Submit, SubmitRefused, SubmitFails, SubmitUnanswered, Notify,
         Include, SubmitForeign, vars, historyVars
  <2>2. QED
    BY <2>1 DEF ResentInv
<1>3. QED
  BY <1>1, <1>2

-----------------------------------------------------------------------------
\* What an included extrinsic does to the executions of a call.
LEMMA IncludedCount ==
  ASSUME TypeOK, NEW j \in Items, NEW t \in pool, Include(t)
  PROVE  executions'[j] = IF j \in Carried(t) THEN executions[j] + 1 ELSE executions[j]
<1>1. CASE t.tx = Foreign
  BY <1>1 DEF Include, Carried
<1>2. CASE t.tx # Foreign
  BY <1>2 DEF Include, Carried
<1>3. QED
  BY <1>1, <1>2

\* The actions that change nothing of a call but its way to the node.
LEMMA ExecutionsFrame ==
  ASSUME [Next]_vars, ~ \E t \in pool : Include(t)
  PROVE  executions' = executions
BY DEF Next, Enqueue, NewHead, HeadsOpened, Tick, Kick, Stop, PrepareNonce,
       PrepareFails, Submit, SubmitRefused, SubmitFails, SubmitUnanswered, Notify,
       Finish, SubmitForeign, vars

\* A call is told of a block once it is in one.
LEMMA ExecutedStep ==
  ASSUME TypeOK, LoopInv, ExecutedInv, [Next]_vars PROVE ExecutedInv'
<1> SUFFICES ASSUME NEW j \in Items PROVE ExecutedOK(j)'
  BY DEF ExecutedInv
<1>0. ExecutedOK(j) /\ executions[j] \in Nat
  BY TypeParts DEF ExecutedInv, OutcomeTypeOK
<1>1. CASE Runs
  <2>1. UNCHANGED <<executions, verdict, batchFate>>
    BY <1>1, RunsEffect
  <2>2. promise'[j] \in {promise[j], "pending"}
    BY <1>1, TypeParts DEF Runs, Enqueue, NewHead, Tick, Kick, OutcomeTypeOK
  <2>3. j \in Elems(round') => \/ j \in Elems(round) /\ UNCHANGED step
                               \/ step' = "preparing" /\ verdict = "none"
    BY <1>1, RunsMoves
  <2>4. Elems(round)' = Elems(round')
    BY DEF Elems
  <2>5. QED
    BY <1>0, <2>1, <2>2, <2>3, <2>4 DEF ExecutedOK
<1>2. CASE PrepareNonce \/ PrepareFails \/ SubmitRefused \/ SubmitFails
           \/ SubmitUnanswered
  <2>1. UNCHANGED <<executions, promise, round>> /\ step' # "watching"
        /\ verdict' \in {"error", "nonceError", verdict}
    BY <1>2 DEF PrepareNonce, PrepareFails, SubmitRefused, SubmitFails,
                SubmitUnanswered
  <2>2. QED
    BY <1>0, <2>1 DEF ExecutedOK, Elems
<1>3. CASE Submit
  <2>1. UNCHANGED <<executions, promise, round, verdict>> /\ batchFate' = "none"
    BY <1>3 DEF Submit
  <2>2. QED
    BY <1>0, <2>1 DEF ExecutedOK, Elems
<1>4. CASE Notify
  <2>1. UNCHANGED <<executions, promise, round>>
        /\ step = "watching" /\ step' = "settling" /\ batchFate # "none"
        /\ verdict' = IF batchFate = "failed" THEN "dispatchError" ELSE "inBlock"
    BY <1>4 DEF Notify, Settles
  <2>2. verdict' = "inBlock" => batchFate = "ok"
    BY <2>1, TypeParts DEF OutcomeTypeOK
  <2>3. QED
    BY <1>0, <2>1, <2>2 DEF ExecutedOK, Elems
<1>5. CASE Finish
  <2>1. executions' = executions /\ round' = <<>>
    BY <1>5 DEF Finish
  <2>2. promise'[j] = "resolved" => executions[j] >= 1
    <3>1. CASE Requeue
      BY <1>0, <3>1 DEF Requeue, ExecutedOK
    <3>2. CASE SettleRound
      BY <1>0, <3>2 DEF SettleRound, ExecutedOK
    <3>3. QED
      BY <1>5, <3>1, <3>2, FinishCases
  <2>3. Elems(<<>>) = {}
    BY DEF Elems
  <2>4. QED
    BY <2>1, <2>2, <2>3 DEF ExecutedOK, Elems
<1>6. ASSUME NEW t \in pool, Include(t) PROVE ExecutedOK(j)'
  <2>1. UNCHANGED <<promise, round, step, verdict>>
    BY <1>6 DEF Include, loopVars
  <2>2. executions'[j] = IF j \in Carried(t) THEN executions[j] + 1 ELSE executions[j]
    BY <1>6, IncludedCount
  <2>3. batchFate' = "ok" => batchFate = "ok" \/ Carried(t) = Elems(round)
    BY <1>6 DEF Include, Carried
  <2>4. Elems(round)' = Elems(round)
    BY <2>1 DEF Elems
  <2>5. CASE j \in Carried(t)
    BY <1>0, <2>2, <2>5 DEF ExecutedOK
  <2>6. CASE j \notin Carried(t)
    BY <1>0, <2>1, <2>2, <2>3, <2>4, <2>6 DEF ExecutedOK
  <2>7. QED
    BY <2>5, <2>6
<1>7. CASE (\E s \in Subs : HeadsOpened(s)) \/ Stop \/ SubmitForeign \/ UNCHANGED vars
  <2>1. UNCHANGED <<executions, promise, round, step, verdict, batchFate>>
    BY <1>7 DEF HeadsOpened, Stop, SubmitForeign, vars, loopVars
  <2>2. QED
    BY <1>0, <2>1 DEF ExecutedOK, Elems
<1>8. QED
  BY <1>1, <1>2, <1>3, <1>4, <1>5, <1>6, <1>7, StepCases

-----------------------------------------------------------------------------
LEMMA SentType ==
  ASSUME TypeOK, NEW j \in Items
  PROVE  /\ executions[j] \in Nat /\ IsFiniteSet(Carriers(j))
         /\ Cardinality(Carriers(j)) \in Nat /\ Sent(j) \in Nat
<1>1. executions[j] \in Nat /\ IsFiniteSet(pool)
  BY TypeParts DEF OutcomeTypeOK, ChainTypeOK
<1>2. IsFiniteSet(Carriers(j))
  BY <1>1, FS_Subset DEF Carriers
<1>3. QED
  BY <1>1, <1>2, FS_CardinalityType DEF Sent

\* Only a submission sends a call once more; a block only moves it.
LEMMA SentStep ==
  ASSUME TypeOK, [Next]_vars, NEW j \in Items
  PROVE  \/ Sent(j)' = Sent(j)
         \/ /\ Submit \/ SubmitUnanswered
            /\ j \in Elems(round) /\ Sent(j)' = Sent(j) + 1
<1>0. /\ executions[j] \in Nat /\ IsFiniteSet(Carriers(j))
      /\ Cardinality(Carriers(j)) \in Nat
  BY SentType
<1>1. CASE Submit \/ SubmitUnanswered
  <2> DEFINE r == [nonce |-> nonce, tx |-> round]
  <2>1. pool' = pool \cup {r} /\ r \notin pool /\ executions' = executions
    BY <1>1 DEF Submit, SubmitUnanswered, Accept, Refuses, Pooled
  <2>2. Carried(r) = Elems(round)
    <3>1. round # Foreign
      BY TypeParts, BatchingAssumption DEF LoopTypeOK
    <3>2. QED
      BY <3>1 DEF Carried
  <2> HIDE DEF r
  <2>3. CASE j \in Elems(round)
    <3>1. Carriers(j)' = Carriers(j) \cup {r} /\ r \notin Carriers(j)
      BY <2>1, <2>2, <2>3 DEF Carriers, Carried, Elems
    <3>2. Cardinality(Carriers(j)') = Cardinality(Carriers(j)) + 1
      BY <1>0, <3>1, FS_AddElement
    <3>3. Sent(j)' = Sent(j) + 1
      BY <1>0, <2>1, <3>2 DEF Sent
    <3>4. QED
      BY <1>1, <2>3, <3>3
  <2>4. CASE j \notin Elems(round)
    <3>1. Carriers(j)' = Carriers(j)
      BY <2>1, <2>2, <2>4 DEF Carriers, Carried, Elems
    <3>2. QED
      BY <2>1, <3>1 DEF Sent
  <2>5. QED
    BY <2>3, <2>4
<1>2. ASSUME NEW t \in pool, Include(t) PROVE Sent(j)' = Sent(j)
  <2>1. pool' = pool \ {t}
    BY <1>2 DEF Include, IncludeTx
  <2>2. executions'[j] = IF j \in Carried(t) THEN executions[j] + 1 ELSE executions[j]
    BY <1>2, IncludedCount
  <2>3. CASE j \in Carried(t)
    <3>1. Carriers(j)' = Carriers(j) \ {t} /\ t \in Carriers(j)
      BY <2>1, <2>3 DEF Carriers, Carried, Elems
    <3>2. Cardinality(Carriers(j)') = Cardinality(Carriers(j)) - 1
      BY <1>0, <3>1, FS_RemoveElement
    <3>3. QED
      BY <1>0, <2>2, <2>3, <3>2 DEF Sent
  <2>4. CASE j \notin Carried(t)
    <3>1. Carriers(j)' = Carriers(j)
      BY <2>1, <2>4 DEF Carriers, Carried, Elems
    <3>2. QED
      BY <2>2, <2>4, <3>1 DEF Sent
  <2>5. QED
    BY <2>3, <2>4
<1>3. CASE SubmitForeign
  <2>1. PICK n \in IndexRange : Accept(Foreign, n)
    BY <1>3 DEF SubmitForeign
  <2>2. pool' = pool \cup {[nonce |-> n, tx |-> Foreign]} /\ executions' = executions
    BY <1>3, <2>1 DEF Accept, SubmitForeign
  <2>3. Carriers(j)' = Carriers(j)
    BY <2>2 DEF Carriers, Carried, Elems
  <2>4. QED
    BY <2>2, <2>3 DEF Sent
<1>4. CASE ~ (Submit \/ SubmitUnanswered \/ SubmitForeign \/ \E t \in pool : Include(t))
  <2>1. executions' = executions /\ pool' = pool
    BY <1>4, ExecutionsFrame, ChainFrame
  <2>2. QED
    BY <2>1 DEF Sent, Carriers, Carried, Elems
<1>5. QED
  BY <1>1, <1>2, <1>3, <1>4

\* The first part of a concatenation is what a settled batch drops.
LEMMA DropPrefix ==
  ASSUME NEW s \in Seq(Items), NEW t \in Seq(Items)
  PROVE  /\ SubSeq(s \o t, Len(s) + 1, Len(s \o t)) = t
         /\ Len(s) <= Len(s \o t)
         /\ \A k \in 1..Len(s) : (s \o t)[k] = s[k]
<1> DEFINE c == s \o t
<1>1. /\ c \in Seq(Items) /\ Len(c) = Len(s) + Len(t)
      /\ Len(s) \in Nat /\ Len(t) \in Nat
      /\ \A k \in 1..Len(s) : c[k] = s[k]
      /\ \A k \in 1..Len(t) : c[Len(s) + k] = t[k]
  <2>1. \A k \in 1..(Len(s) + Len(t)) : c[k] = IF k <= Len(s) THEN s[k] ELSE t[k - Len(s)]
    BY ConcatProperties
  <2>2. c \in Seq(Items) /\ Len(c) = Len(s) + Len(t) /\ Len(s) \in Nat /\ Len(t) \in Nat
    BY ConcatProperties, LenProperties
  <2> HIDE DEF c
  <2>3. \A k \in 1..Len(s) : c[k] = s[k]
    BY <2>1, <2>2
  <2>4. ASSUME NEW k \in 1..Len(t) PROVE c[Len(s) + k] = t[k]
    <3>1. /\ Len(s) + k \in 1..(Len(s) + Len(t)) /\ ~(Len(s) + k <= Len(s))
          /\ (Len(s) + k) - Len(s) = k
      BY <2>2
    <3>2. QED
      BY <2>1, <3>1
  <2>5. QED
    BY <2>2, <2>3, <2>4
<1> HIDE DEF c
<1>2. /\ SubSeq(c, Len(s) + 1, Len(c)) \in Seq(Items)
      /\ Len(SubSeq(c, Len(s) + 1, Len(c))) = Len(t)
      /\ \A k \in 1..Len(t) : SubSeq(c, Len(s) + 1, Len(c))[k] = c[Len(s) + k]
  <2>1. \A k \in (Len(s) + 1)..Len(c) : c[k] \in Items
    BY <1>1, ElementOfSeq
  <2>2. QED
    BY <1>1, <2>1, SubSeqProperties
<1>3. SubSeq(c, Len(s) + 1, Len(c)) = t
  BY <1>1, <1>2, SeqEqual
<1>4. QED
  BY <1>1, <1>3 DEF c

\* The first calls of the queue stay in front until a batch takes them.
LEMMA FrontTaken ==
  ASSUME TypeOK, NEW q \in Seq(Items), NEW ages, RunOnce(q, ages),
         Len(queue) <= Len(q), \A k \in 1..Len(queue) : q[k] = queue[k],
         NEW j \in Items, InFront(j)
  PROVE  (InFront(j)' /\ round' = round) \/ j \in Elems(round')
<1>1. Len(queue) \in Nat /\ Len(q) \in Nat
  BY TypeParts, LenProperties DEF LoopTypeOK
<1>2. PICK k \in 1..Len(queue) : k <= MaxBatchSize /\ queue[k] = j
  BY DEF InFront
<1>3. k \in 1..Len(q) /\ q[k] = j
  BY <1>1, <1>2
<1>4. CASE queue' = q /\ round' = round
  BY <1>2, <1>3, <1>4 DEF InFront
<1>5. CASE round' = SubSeq(q, 1, BatchLength(q))
  <2>1. k \in 1..BatchLength(q) /\ BatchLength(q) \in 0..Len(q)
    BY <1>1, <1>2, <1>3, BatchingAssumption DEF BatchLength
  <2>2. Len(SubSeq(q, 1, BatchLength(q))) = BatchLength(q)
        /\ SubSeq(q, 1, BatchLength(q))[k] = q[k]
    <3>1. q # <<>>
      BY <1>1, <1>3, EmptySeq
    <3>2. /\ BatchLength(q) \in 1..Len(q)
          /\ Len(SubSeq(q, 1, BatchLength(q))) = BatchLength(q)
      BY <3>1, Splice
    <3>3. \A l \in 1..BatchLength(q) : q[l] \in Items
      BY <1>1, <3>2, ElementOfSeq
    <3>4. SubSeq(q, 1, BatchLength(q))[k] = q[1 + k - 1]
      <4> DEFINE n == BatchLength(q)
      <4>1. n \in Int /\ n \in 1..Len(q) /\ k \in 1..n /\ \A l \in 1..n : q[l] \in Items
        BY <1>1, <2>1, <3>2, <3>3
      <4> HIDE DEF n
      <4>2. SubSeq(q, 1, n)[k] = q[1 + k - 1]
        BY <1>1, <4>1, SubSeqProperties
      <4>3. QED
        BY <4>2 DEF n
    <3>5. 1 + k - 1 = k
      BY <1>1, <1>2
    <3>6. QED
      BY <3>2, <3>4, <3>5
  <2>3. QED
    BY <1>3, <1>5, <2>1, <2>2 DEF Elems
<1>6. QED
  BY <1>4, <1>5 DEF RunOnce

LEMMA RunsFront ==
  ASSUME TypeOK, Runs, NEW j \in Items, InFront(j)
  PROVE  (InFront(j)' /\ round' = round) \/ j \in Elems(round')
<1>1. queue \in Seq(Items) /\ Len(queue) \in Nat
  BY TypeParts, LenProperties DEF LoopTypeOK
<1>2. ASSUME NEW i \in Items, Enqueue(i)
      PROVE  (InFront(j)' /\ round' = round) \/ j \in Elems(round')
  <2> DEFINE q == Append(queue, i)
  <2>1. /\ q \in Seq(Items) /\ Len(queue) <= Len(q)
        /\ \A k \in 1..Len(queue) : q[k] = queue[k]
    BY <1>1, AppendProperties
  <2>2. RunOnce(q, [age EXCEPT ![i] = 0])
    BY <1>2 DEF Enqueue
  <2> HIDE DEF q
  <2>3. QED
    BY <2>1, <2>2, FrontTaken
<1>3. CASE (\E s \in Subs : NewHead(s)) \/ Tick \/ Kick
  <2>1. \E ages : RunOnce(queue, ages)
    BY <1>3 DEF NewHead, Tick, Kick
  <2>2. QED
    BY <1>1, <2>1, FrontTaken
<1>4. QED
  BY <1>2, <1>3 DEF Runs

\* The loop takes what was retried, or leaves it in front.
LEMMA BudgetRuns ==
  ASSUME TypeOK, LoopInv, WaitingInv', TypeOK', [Next]_vars, Runs,
         NEW j \in Items, BudgetOK(j)
  PROVE  BudgetOK(j)'
<1>1. Sent(j)' = Sent(j) /\ nonceRetries' = nonceRetries
  BY SentStep, RunsEffect DEF nonceVars, Sent, Carriers, Carried, Elems
<1>2. promise'[j] \in {promise[j], "pending"}
  BY TypeParts DEF Runs, Enqueue, NewHead, Tick, Kick, OutcomeTypeOK
<1>3. nonceRetries \in Nat /\ Sent(j) \in Nat
  BY TypeParts, SentType DEF LoopTypeOK
<1>4. Elems(queue)' = Elems(queue') /\ Elems(round)' = Elems(round')
  BY DEF Elems
<1>5. ASSUME j \in Elems(queue'), Sent(j) # 0
      PROVE  round' = <<>> /\ InFront(j)' /\ Sent(j) <= nonceRetries
  <2>1. j \in Elems(queue)
    BY <1>5, RunsMoves DEF BudgetOK
  <2>2. round = <<>> /\ InFront(j) /\ Sent(j) <= nonceRetries
    BY <1>5, <2>1 DEF BudgetOK
  <2>3. j \notin Elems(round')
    <3>1. round' \in Seq(Items) /\ queue' \in Seq(Items) /\ Distinct(round' \o queue')
      BY TypeParts DEF TypeOK, WaitingInv, Distinct
    <3>2. Elems(round') \cap Elems(queue') = {}
      BY <3>1, DistinctConcat
    <3>3. QED
      BY <1>5, <3>2
  <2>4. QED
    BY <2>2, <2>3, RunsFront
<1>6. ASSUME j \in Elems(round')
      PROVE  Sent(j) <= nonceRetries + IF step' \in {"preparing", "submitting"} THEN 0 ELSE 1
  <2>1. CASE j \in Elems(round) /\ UNCHANGED step
    BY <2>1 DEF BudgetOK
  <2>2. CASE step' = "preparing" /\ (j \in Elems(queue) \/ promise[j] = "unborn")
    <3>1. Sent(j) <= nonceRetries
      BY <1>3, <2>2 DEF BudgetOK
    <3>2. QED
      BY <1>3, <2>2, <3>1
  <2>3. QED
    BY <1>6, <2>1, <2>2, RunsMoves
<1>7. QED
  BY <1>1, <1>2, <1>3, <1>4, <1>5, <1>6 DEF BudgetOK

\* A retried round goes to the front with one retry more to its account.
LEMMA BudgetFinish ==
  ASSUME TypeOK, LoopInv, WaitingInv, [Next]_vars, Finish, NEW j \in Items, BudgetOK(j)
  PROVE  BudgetOK(j)'
<1>1. Sent(j)' = Sent(j)
  BY SentStep DEF Finish, Submit, SubmitUnanswered
<1>2. /\ step = "settling" /\ round' = <<>> /\ round # <<>> /\ Len(round) <= MaxBatchSize
      /\ round \in Seq(Items) /\ queue \in Seq(Items)
  BY TypeParts DEF Finish, LoopInv, LoopTypeOK
<1>3. nonceRetries \in Nat /\ Sent(j) \in Nat /\ MaxNonceRetries \in Nat
  BY TypeParts, SentType, BatchingAssumption DEF LoopTypeOK
<1>4. j \in Elems(queue) => Sent(j) = 0
  BY <1>2 DEF BudgetOK
<1>5. j \in Elems(round) => Sent(j) <= nonceRetries + 1
  BY <1>2 DEF BudgetOK
<1>6. j \notin Elems(round)'
  BY <1>2 DEF Elems
<1>7. CASE Requeue
  <2>1. queue' = round \o queue /\ promise' = promise /\ nonceRetries' = nonceRetries + 1
    BY <1>7 DEF Requeue, Requeued
  <2>2. Elems(queue)' = Elems(round) \cup Elems(queue)
    <3>1. Elems(round \o queue) = Elems(round) \cup Elems(queue)
      BY <1>2, ElemsConcat
    <3>2. QED
      BY <2>1, <3>1 DEF Elems
  <2>3. j \in Elems(round) => InFront(j)'
    <3>1. ASSUME NEW k \in 1..Len(round), round[k] = j
          PROVE  k \in 1..Len(queue') /\ k <= MaxBatchSize /\ queue'[k] = j
      <4>1. /\ Len(round) \in Nat /\ Len(queue) \in Nat
            /\ Len(round \o queue) = Len(round) + Len(queue)
            /\ \A l \in 1..Len(round) : (round \o queue)[l] = round[l]
        BY <1>2, ConcatProperties, LenProperties, DropPrefix
      <4>2. QED
        BY <1>2, <2>1, <3>1, <4>1, BatchingAssumption
    <3>2. QED
      BY <3>1 DEF InFront, Elems
  <2>4. j \in Elems(queue)' =>
          Sent(j) = 0 \/ (round' = <<>> /\ InFront(j)' /\ Sent(j) <= nonceRetries')
    BY <1>2, <1>4, <1>5, <2>1, <2>2, <2>3
  <2>5. QED
    BY <1>1, <1>6, <2>1, <2>4 DEF BudgetOK
<1>8. CASE SettleRound
  <2>1. queue' = queue
    BY <1>8 DEF SettleRound
  <2>2. promise'[j] = "unborn" => promise[j] = "unborn"
    BY <1>8 DEF SettleRound
  <2>3. Elems(queue)' = Elems(queue)
    BY <2>1 DEF Elems
  <2>4. QED
    BY <1>1, <1>4, <1>6, <2>2, <2>3 DEF BudgetOK
<1>9. QED
  BY <1>7, <1>8, FinishCases

LEMMA BudgetStep ==
  ASSUME TypeOK, TypeOK', LoopInv, WaitingInv, WaitingInv', BudgetInv, [Next]_vars
  PROVE  BudgetInv'
<1> SUFFICES ASSUME NEW j \in Items PROVE BudgetOK(j)'
  BY DEF BudgetInv
<1>0. /\ BudgetOK(j) /\ Sent(j) \in Nat /\ nonceRetries \in Nat
      /\ MaxNonceRetries \in Nat /\ nonceRetries <= MaxNonceRetries
  BY TypeParts, SentType, BatchingAssumption DEF BudgetInv, LoopTypeOK
<1>1. CASE Runs
  BY <1>0, <1>1, BudgetRuns
<1>2. CASE Finish
  BY <1>0, <1>2, BudgetFinish
<1>3. CASE Submit \/ SubmitUnanswered
  <2>1. /\ UNCHANGED <<queue, round, promise, nonceRetries>>
        /\ step = "submitting" /\ step' \notin {"preparing", "submitting"}
    BY <1>3 DEF Submit, SubmitUnanswered, nonceVars
  <2>2. InFront(j)' = InFront(j) /\ Elems(queue)' = Elems(queue)
        /\ Elems(round)' = Elems(round)
    BY <2>1 DEF InFront, Elems
  <2>3. CASE j \in Elems(round) /\ Sent(j)' = Sent(j) + 1
    <3>1. promise[j] = "pending" /\ j \notin Elems(queue)
      BY <2>3, RoundApart
    <3>2. Sent(j) <= nonceRetries
      BY <1>0, <2>1, <2>3 DEF BudgetOK
    <3>3. Sent(j)' <= nonceRetries' + 1 /\ Sent(j)' <= 1 + MaxNonceRetries
      BY <1>0, <2>1, <2>3, <3>2
    <3>4. QED
      BY <2>1, <2>2, <3>1, <3>3 DEF BudgetOK
  <2>4. CASE Sent(j)' = Sent(j)
    <3>1. j \in Elems(round) => Sent(j) <= nonceRetries + 1
      BY <1>0 DEF BudgetOK
    <3>2. QED
      BY <1>0, <2>1, <2>2, <2>4, <3>1 DEF BudgetOK
  <2>5. QED
    BY <2>3, <2>4, SentStep
<1>4. CASE PrepareNonce \/ PrepareFails \/ SubmitRefused \/ SubmitFails \/ Notify
  <2>1. /\ UNCHANGED <<queue, round, promise, nonceRetries>>
        /\ step' \in {"submitting", "settling"}
        /\ step' = "submitting" => step = "preparing"
    BY <1>4 DEF PrepareNonce, PrepareFails, SubmitRefused, SubmitFails, Notify, nonceVars
  <2>2. InFront(j)' = InFront(j) /\ Elems(queue)' = Elems(queue)
        /\ Elems(round)' = Elems(round)
    BY <2>1 DEF InFront, Elems
  <2>3. Sent(j)' = Sent(j)
    <3>1. UNCHANGED <<executions, pool>>
      BY <1>4 DEF PrepareNonce, PrepareFails, SubmitRefused, SubmitFails, Notify
    <3>2. QED
      BY <3>1 DEF Sent, Carriers, Carried, Elems
  <2>4. j \in Elems(round) =>
          Sent(j) <= nonceRetries + IF step' \in {"preparing", "submitting"} THEN 0 ELSE 1
    BY <1>0, <2>1 DEF BudgetOK
  <2>5. QED
    BY <1>0, <2>1, <2>2, <2>3, <2>4 DEF BudgetOK
<1>5. CASE \/ (\E s \in Subs : HeadsOpened(s)) \/ Stop
           \/ (\E t \in pool : Include(t)) \/ SubmitForeign \/ UNCHANGED vars
  <2>1. UNCHANGED <<queue, round, promise, nonceRetries, step>>
    BY <1>5 DEF HeadsOpened, Stop, Include, SubmitForeign, vars, loopVars, nonceVars
  <2>2. InFront(j)' = InFront(j) /\ Elems(queue)' = Elems(queue)
        /\ Elems(round)' = Elems(round)
    BY <2>1 DEF InFront, Elems
  <2>3. Sent(j)' = Sent(j)
    <3>1. CASE Submit \/ SubmitUnanswered
      BY <2>1, <3>1 DEF Submit, SubmitUnanswered
    <3>2. QED
      BY <3>1, SentStep
  <2>4. QED
    BY <1>0, <2>1, <2>2, <2>3 DEF BudgetOK
<1>6. QED
  BY <1>1, <1>2, <1>3, <1>4, <1>5, StepCases

\* The invariant the outcome of every call follows from.
THEOREM Inductive == Spec => []IInv
<1> DEFINE Places == /\ LoopInv /\ WaitingInv /\ ItemsInv /\ ResentInv /\ ExecutedInv
                     /\ BudgetInv
<1>1. Init => Places
  <2> SUFFICES ASSUME Init PROVE Places
    OBVIOUS
  <2>1. /\ round = <<>> /\ queue = <<>> /\ <<>> \o <<>> = <<>> /\ Len(<<>>) = 0
        /\ 0 <= MaxBatchSize /\ MaxNonceRetries \in Nat
    BY BatchingAssumption DEF Init
  <2>2. Elems(<<>>) = {} /\ Distinct(<<>>)
    BY <2>1 DEF Elems, Distinct
  <2>3. LoopInv
    BY <2>1 DEF Init, LoopInv
  <2>4. WaitingInv
    BY <2>1, <2>2 DEF WaitingInv
  <2>5. ItemsInv /\ ResentInv
    BY <2>1, <2>2 DEF Init, ChainInit, ItemsInv, ItemOK, ChainOK, PromiseOK, Clean,
                      ResentInv
  <2>6. ExecutedInv
    BY <2>1, <2>2 DEF Init, ExecutedInv, ExecutedOK
  <2>7. ASSUME NEW j \in Items PROVE BudgetOK(j)
    <3>1. executions[j] = 0 /\ Carriers(j) = {}
      BY DEF Init, ChainInit, Carriers
    <3>2. Sent(j) = 0
      BY <3>1, FS_EmptySet DEF Sent
    <3>3. QED
      BY <2>1, <2>2, <3>2 DEF BudgetOK
  <2>8. QED
    BY <2>3, <2>4, <2>5, <2>6, <2>7 DEF BudgetInv
<1>2. TypeOK /\ TypeOK' /\ Places /\ [Next]_vars => Places'
  BY LoopStep, WaitingStep, ItemsStep, ResentStep, ExecutedStep, BudgetStep
<1>3. TypeOK /\ UnsubInv /\ HeadsInv /\ NonceCount /\ NonceInv /\ GapInv /\ Places => IInv
  BY DEF IInv
<1> HIDE DEF Places
<1>4. QED
  BY <1>1, <1>2, <1>3, TypedHeads, Counted, PTL DEF Spec

\* No call is executed twice, however often its batch goes back to the queue,
\* but one whose error was misread; and that one no oftener than it is retried.
THEOREM ExecutedOnce == Spec => []AtMostOnce
<1>1. TypeOK /\ IInv => AtMostOnce
  <2> SUFFICES ASSUME TypeOK, IInv, NEW i \in Items
               PROVE  /\ i \notin resent => executions[i] <= 1
                      /\ executions[i] <= 1 + MaxNonceRetries
    BY DEF AtMostOnce
  <2>1. i \notin resent => executions[i] <= 1
    BY DEF IInv, ItemsInv, ItemOK, ChainOK
  <2>2. Sent(i) <= 1 + MaxNonceRetries
    BY DEF IInv, BudgetInv, BudgetOK
  <2>3. executions[i] <= 1 + MaxNonceRetries
    BY <2>2, SentType, BatchingAssumption DEF Sent
  <2>4. QED
    BY <2>1, <2>3
<1>2. QED
  BY <1>1, TypeCorrect, Inductive, PTL

\* A settled promise, and a waiting call, tell what is on the chain.
THEOREM Truthful == Spec => []OutcomeMatchesChain
<1>1. IInv => OutcomeMatchesChain
  <2> SUFFICES ASSUME IInv, NEW i \in Items
               PROVE  /\ promise[i] = "resolved" => executions[i] >= 1
                      /\ i \in Elems(queue) /\ i \notin resent => executions[i] = 0
                      /\ promise[i] = "rejected" /\ i \notin unanswered \cup dispatchErrors
                           => executions[i] = 0
    BY DEF OutcomeMatchesChain
  <2>1. promise[i] = "resolved" => executions[i] >= 1
    BY DEF IInv, ExecutedInv, ExecutedOK
  <2>2. i \notin resent => PromiseOK(i)
    BY DEF IInv, ItemsInv, ItemOK
  <2>3. i \notin unanswered \cup dispatchErrors => i \notin resent
    BY DEF IInv, ResentInv
  <2>4. QED
    BY <2>1, <2>2, <2>3 DEF PromiseOK, Clean
<1>2. QED
  BY <1>1, Inductive, PTL

-----------------------------------------------------------------------------
\* Every step is one of the abstract queue's, or none of its business.
LEMMA RefinementStep ==
  TypeOK /\ IInv /\ [Next]_vars => [Abstract!Next]_(Abstract!vars)
<1> SUFFICES ASSUME TypeOK, IInv, [Next]_vars
             PROVE  \/ \E i \in Items : Abstract!Enqueue(i)
                    \/ \E k \in 1..MaxBatchSize, v \in Abstract!Settled :
                         Abstract!Settle(k, v)
                    \/ UNCHANGED <<round \o queue, promise>>
  BY DEF Abstract!Next, Abstract!vars
<1>1. LoopInv /\ queue \in Seq(Items) /\ round \in Seq(Items)
  BY TypeParts DEF IInv, LoopTypeOK
<1>2. ASSUME NEW i \in Items, Enqueue(i), round' \o queue' = Append(round \o queue, i)
      PROVE  Abstract!Enqueue(i)
  BY <1>2 DEF Enqueue, Abstract!Enqueue
<1>3. ASSUME Finish, SettleRound, round' \o queue' = queue
      PROVE  \E k \in 1..MaxBatchSize, v \in Abstract!Settled : Abstract!Settle(k, v)
  <2> DEFINE v == IF verdict = "inBlock" THEN "resolved" ELSE "rejected"
             k == Len(round)
             p == round \o queue
  <2>1. k \in 1..MaxBatchSize
    <3>1. round # <<>> /\ Len(round) <= MaxBatchSize
      BY <1>1, <1>3 DEF LoopInv, Finish
    <3>2. Len(round) \in Nat \ {0}
      BY <1>1, <3>1, EmptySeq
    <3>3. QED
      BY <3>1, <3>2, BatchingAssumption
  <2>2. v \in Abstract!Settled
    BY DEF Abstract!Settled
  <2>3. /\ SubSeq(p, k + 1, Len(p)) = queue /\ k <= Len(p)
        /\ \A n \in 1..k : p[n] = round[n]
    BY <1>1, DropPrefix
  <2>4. promise' = [i \in Items |-> IF i \in Elems(round) THEN v ELSE promise[i]]
    <3>1. promise' = [i \in Items |-> IF i \in Elems(round)
                                      THEN IF verdict = "inBlock" THEN "resolved"
                                                                  ELSE "rejected"
                                      ELSE promise[i]]
      BY <1>3 DEF SettleRound
    <3>2. QED
      BY <3>1
  <2> HIDE DEF v, k
  <2>5. \A i : i \in Elems(round) <=> \E n \in 1..k : p[n] = i
    BY <2>3 DEF Elems, k
  <2> HIDE DEF p
  <2>6. promise' = [i \in Items |-> IF \E n \in 1..k : p[n] = i THEN v ELSE promise[i]]
    BY <2>4, <2>5, Zenon
  <2>7. (round \o queue)' = SubSeq(p, k + 1, Len(p))
    BY <1>3, <2>3
  <2>8. Abstract!Settle(k, v)
    BY <2>3, <2>6, <2>7 DEF Abstract!Settle, p
  <2>9. QED
    BY <2>1, <2>2, <2>8
<1>4. QED
  BY <1>1, <1>2, <1>3, PendingEffect

\* The batching queue implements the abstract one: batches are settled in the
\* order of their calls, each call once, and a retry is not seen at all.
THEOREM Refinement == Spec => ImplementsSubmissionQueue
<1>1. Init => Abstract!Init
  BY DEF Init, Abstract!Init
<1>2. QED
  BY <1>1, RefinementStep, TypeCorrect, Inductive, PTL
     DEF Spec, ImplementsSubmissionQueue, Abstract!Spec

-----------------------------------------------------------------------------
(* The events of a batch.                                                    *)

Names == {"Withdraw"} \cup ItemMarkers \cup BatchMarkers
Events == ({"system", "utility"} \X Names) \cup ({"acurast"} \X Items)
Slices == [groups : Seq(Seq(Events)), current : Seq(Events)]
NoSlice == [groups |-> <<>>, current |-> <<>>]

LEMMA EventKinds ==
  /\ Fee \in Events /\ ~IsJobEvent(Fee) /\ ~EndsItem(Fee)
  /\ \A s : TakeEvent(s, Fee) = [s EXCEPT !.current = Append(@, Fee)]
  /\ \A i \in Items : /\ JobEvent(i) \in Events /\ IsJobEvent(JobEvent(i))
                      /\ \A s : TakeEvent(s, JobEvent(i)) =
                                  [s EXCEPT !.current = Append(@, JobEvent(i))]
  /\ \A n \in ItemMarkers : /\ Marker(n) \in Events /\ ~IsJobEvent(Marker(n))
                            /\ \A s : TakeEvent(s, Marker(n)) =
                                        [groups |-> Append(s.groups, s.current), current |-> <<>>]
  /\ \A n \in BatchMarkers : /\ Marker(n) \in Events /\ ~IsJobEvent(Marker(n))
                             /\ \A s : TakeEvent(s, Marker(n)) = s
<1> USE DEF Events, Names, ItemMarkers, BatchMarkers
<1>1. /\ Fee \in Events /\ ~IsJobEvent(Fee) /\ ~EndsItem(Fee) /\ Fee[1] = "system"
  BY DEF Fee, IsJobEvent, EndsItem
<1>2. ASSUME NEW i \in Items
      PROVE  /\ JobEvent(i) \in Events /\ IsJobEvent(JobEvent(i))
             /\ ~EndsItem(JobEvent(i)) /\ JobEvent(i)[1] = "acurast"
  BY DEF JobEvent, IsJobEvent, EndsItem
<1>3. ASSUME NEW n \in ItemMarkers
      PROVE  /\ Marker(n) \in Events /\ ~IsJobEvent(Marker(n)) /\ EndsItem(Marker(n))
  BY DEF Marker, IsJobEvent, EndsItem
<1>4. ASSUME NEW n \in BatchMarkers
      PROVE  /\ Marker(n) \in Events /\ ~IsJobEvent(Marker(n)) /\ ~EndsItem(Marker(n))
             /\ Marker(n)[1] = "utility" /\ Marker(n)[2] \in BatchMarkers
  BY DEF Marker, IsJobEvent, EndsItem
<1> QED BY <1>1, <1>2, <1>3, <1>4 DEF TakeEvent

LEMMA TakeEventType ==
  ASSUME NEW s \in Slices, NEW e \in Events
  PROVE  TakeEvent(s, e) \in Slices
<1>1. s.groups \in Seq(Seq(Events)) /\ s.current \in Seq(Events)
  BY DEF Slices
<1>2. /\ Append(s.groups, s.current) \in Seq(Seq(Events)) /\ Append(s.current, e) \in Seq(Events)
      /\ <<>> \in Seq(Events)
  BY <1>1, AppendProperties
<1>3. CASE EndsItem(e)
  BY <1>2, <1>3 DEF TakeEvent, Slices
<1>4. CASE ~EndsItem(e) /\ e[1] = "utility" /\ e[2] \in BatchMarkers
  BY <1>4 DEF TakeEvent
<1>5. CASE ~EndsItem(e) /\ ~(e[1] = "utility" /\ e[2] \in BatchMarkers)
  <2>1. TakeEvent(s, e) = [s EXCEPT !.current = Append(@, e)]
    BY <1>5 DEF TakeEvent
  <2> QED BY <1>1, <1>2, <2>1 DEF Slices
<1> QED BY <1>3, <1>4, <1>5

\* Taken() satisfies its recursive equation.
LEMMA TakenUnfold ==
  ASSUME NEW s \in Seq(Events)
  PROVE  /\ Taken(s)[0] = NoSlice
         /\ \A k \in 1..Len(s) : Taken(s)[k] = TakeEvent(Taken(s)[k-1], s[k])
<1> DEFINE N == Len(s)
           walk == [k \in 1..N |-> [a \in Slices |-> TakeEvent(a, s[k])]]
           F(f) == f = [k \in 0..N |-> IF k = 0 THEN NoSlice ELSE TakeEvent(f[k-1], s[k])]
<1>1. N \in Nat /\ \A k \in 1..N : s[k] \in Events
  BY ElementOfSeq, LenProperties
<1>2. NoSlice \in Slices
  BY DEF NoSlice, Slices
<1>3. walk \in [1..N -> [Slices -> Slices]]
  BY <1>1, TakeEventType
<1>4. PICK g \in [0..N -> Slices] : RecursiveUpto(g, N, NoSlice, walk)
  <2> HIDE DEF walk, N, F
  <2> QED BY <1>1, <1>2, <1>3, RecursionExists
<1>5. F(g)
  <2> DEFINE h == [k \in 0..N |-> IF k = 0 THEN NoSlice ELSE TakeEvent(g[k-1], s[k])]
  <2>1. ASSUME NEW k \in 0..N PROVE g[k] = h[k]
    <3>1. CASE k = 0
      BY <3>1, <1>4 DEF RecursiveUpto
    <3>2. CASE k # 0
      <4>1. k \in 1..N /\ k - 1 \in 0..N
        BY <3>2, <1>1
      <4>2. g[k-1] \in Slices
        BY <4>1
      <4> QED BY <4>1, <4>2, <1>4, <3>2 DEF RecursiveUpto
    <3> QED BY <3>1, <3>2
  <2>2. h \in [0..N -> {h[k] : k \in 0..N}]
    OBVIOUS
  <2> HIDE DEF h
  <2>3. g = h
    BY <2>1, <2>2
  <2> QED BY <2>3 DEF h
<1>6. F(CHOOSE f : F(f))
  <2> HIDE DEF F
  <2> QED BY <1>5
<1>7. Taken(s) = (CHOOSE f : F(f))
  BY DEF Taken, NoSlice
<1>8. F(Taken(s))
  <2> HIDE DEF F
  <2> QED BY <1>6, <1>7
<1> HIDE DEF walk
<1> DEFINE t == Taken(s)
<1> HIDE DEF t
<1>9. t = [k \in 0..N |-> IF k = 0 THEN NoSlice ELSE TakeEvent(t[k-1], s[k])]
  BY <1>8 DEF t
<1>10. t[0] = NoSlice /\ \A k \in 1..N : t[k] = TakeEvent(t[k-1], s[k])
  BY <1>1, <1>9
<1> QED BY <1>10 DEF t

Slice(s) == Taken(s)[Len(s)]

\* One event more is taken after those before it.
LEMMA SliceAppend ==
  ASSUME NEW s \in Seq(Events), NEW e \in Events
  PROVE  Slice(Append(s, e)) = TakeEvent(Slice(s), e)
<1> DEFINE N == Len(s)
           r == Append(s, e)
<1>1. /\ N \in Nat /\ r \in Seq(Events) /\ Len(r) = N + 1 /\ r[N+1] = e
      /\ \A k \in 1..N : r[k] = s[k]
  BY AppendProperties, LenProperties
<1>2. Taken(s)[0] = NoSlice /\ \A k \in 1..N : Taken(s)[k] = TakeEvent(Taken(s)[k-1], s[k])
  BY TakenUnfold
<1> HIDE DEF r
<1>3. /\ Taken(r)[0] = NoSlice
      /\ \A k \in 1..(N+1) : Taken(r)[k] = TakeEvent(Taken(r)[k-1], r[k])
  BY <1>1, TakenUnfold
<1> DEFINE T == {k \in 0..N : Taken(r)[k] = Taken(s)[k]}
<1>4. 0 \in T
  BY <1>1, <1>2, <1>3
<1>5. ASSUME NEW k \in 0..N, k \in T, k < N PROVE k + 1 \in T
  <2>1. k + 1 \in 0..N /\ k + 1 \in 1..N /\ k + 1 \in 1..(N+1) /\ (k + 1) - 1 = k
    BY <1>1, <1>5
  <2>2. /\ Taken(r)[k+1] = TakeEvent(Taken(r)[k], r[k+1])
        /\ Taken(s)[k+1] = TakeEvent(Taken(s)[k], s[k+1])
    BY <1>2, <1>3, <2>1
  <2> QED BY <1>1, <1>5, <2>1, <2>2
<1> HIDE DEF T
<1>6. 0..N \subseteq T
  BY <1>1, <1>4, <1>5, RangeInduction
<1>7. Taken(r)[N] = Taken(s)[N]
  BY <1>1, <1>6 DEF T
<1>8. N + 1 \in 1..(N+1) /\ (N + 1) - 1 = N
  BY <1>1
<1>9. Taken(r)[N+1] = TakeEvent(Taken(s)[N], e)
  BY <1>1, <1>3, <1>7, <1>8
<1> QED BY <1>1, <1>9 DEF r, Slice


-----------------------------------------------------------------------------
\* What JobsUpto() makes of one event more.
JobsStep(s, e) == IF IsJobEvent(e) THEN Append(s, e) ELSE s

LEMMA JobsStepType ==
  ASSUME NEW s \in Seq(Events), NEW e \in Events
  PROVE  JobsStep(s, e) \in Seq(Events)
BY AppendProperties DEF JobsStep

\* JobsUpto() satisfies its recursive equation.
LEMMA JobsUnfold ==
  ASSUME NEW s \in Seq(Events)
  PROVE  /\ JobsUpto(s)[0] = <<>>
         /\ \A k \in 1..Len(s) : JobsUpto(s)[k] = JobsStep(JobsUpto(s)[k-1], s[k])
<1> DEFINE N == Len(s)
           walk == [k \in 1..N |-> [a \in Seq(Events) |-> JobsStep(a, s[k])]]
           F(f) == f = [k \in 0..N |-> IF k = 0 THEN <<>> ELSE JobsStep(f[k-1], s[k])]
<1>1. N \in Nat /\ \A k \in 1..N : s[k] \in Events
  BY ElementOfSeq, LenProperties
<1>2. <<>> \in Seq(Events)
  OBVIOUS
<1>3. walk \in [1..N -> [Seq(Events) -> Seq(Events)]]
  BY <1>1, JobsStepType
<1>4. PICK g \in [0..N -> Seq(Events)] : RecursiveUpto(g, N, <<>>, walk)
  <2> HIDE DEF walk, N, F
  <2> QED BY <1>1, <1>2, <1>3, RecursionExists
<1>5. F(g)
  <2> DEFINE h == [k \in 0..N |-> IF k = 0 THEN <<>> ELSE JobsStep(g[k-1], s[k])]
  <2>1. ASSUME NEW k \in 0..N PROVE g[k] = h[k]
    <3>1. CASE k = 0
      BY <3>1, <1>4 DEF RecursiveUpto
    <3>2. CASE k # 0
      <4>1. k \in 1..N /\ k - 1 \in 0..N
        BY <3>2, <1>1
      <4>2. g[k-1] \in Seq(Events)
        BY <4>1
      <4> QED BY <4>1, <4>2, <1>4, <3>2 DEF RecursiveUpto
    <3> QED BY <3>1, <3>2
  <2>2. h \in [0..N -> {h[k] : k \in 0..N}]
    OBVIOUS
  <2> HIDE DEF h
  <2>3. g = h
    BY <2>1, <2>2
  <2> QED BY <2>3 DEF h
<1>6. F(CHOOSE f : F(f))
  <2> HIDE DEF F
  <2> QED BY <1>5
<1>7. JobsUpto(s) = (CHOOSE f : F(f))
  BY DEF JobsUpto, JobsStep
<1>8. F(JobsUpto(s))
  <2> HIDE DEF F
  <2> QED BY <1>6, <1>7
<1> HIDE DEF walk
<1> DEFINE t == JobsUpto(s)
<1> HIDE DEF t
<1>9. t = [k \in 0..N |-> IF k = 0 THEN <<>> ELSE JobsStep(t[k-1], s[k])]
  BY <1>8 DEF t
<1>10. t[0] = <<>> /\ \A k \in 1..N : t[k] = JobsStep(t[k-1], s[k])
  BY <1>1, <1>9
<1> QED BY <1>10 DEF t

\* One event more is looked at after those before it.
LEMMA JobsAppend ==
  ASSUME NEW s \in Seq(Events), NEW e \in Events
  PROVE  JobEvents(Append(s, e)) = JobsStep(JobEvents(s), e)
<1> DEFINE N == Len(s)
           r == Append(s, e)
<1>1. /\ N \in Nat /\ r \in Seq(Events) /\ Len(r) = N + 1 /\ r[N+1] = e
      /\ \A k \in 1..N : r[k] = s[k]
  BY AppendProperties, LenProperties
<1>2. JobsUpto(s)[0] = <<>> /\ \A k \in 1..N : JobsUpto(s)[k] = JobsStep(JobsUpto(s)[k-1], s[k])
  BY JobsUnfold
<1> HIDE DEF r
<1>3. /\ JobsUpto(r)[0] = <<>>
      /\ \A k \in 1..(N+1) : JobsUpto(r)[k] = JobsStep(JobsUpto(r)[k-1], r[k])
  BY <1>1, JobsUnfold
<1> DEFINE T == {k \in 0..N : JobsUpto(r)[k] = JobsUpto(s)[k]}
<1>4. 0 \in T
  BY <1>1, <1>2, <1>3
<1>5. ASSUME NEW k \in 0..N, k \in T, k < N PROVE k + 1 \in T
  <2>1. k + 1 \in 0..N /\ k + 1 \in 1..N /\ k + 1 \in 1..(N+1) /\ (k + 1) - 1 = k
    BY <1>1, <1>5
  <2>2. /\ JobsUpto(r)[k+1] = JobsStep(JobsUpto(r)[k], r[k+1])
        /\ JobsUpto(s)[k+1] = JobsStep(JobsUpto(s)[k], s[k+1])
    BY <1>2, <1>3, <2>1
  <2> QED BY <1>1, <1>5, <2>1, <2>2
<1> HIDE DEF T
<1>6. 0..N \subseteq T
  BY <1>1, <1>4, <1>5, RangeInduction
<1>7. JobsUpto(r)[N] = JobsUpto(s)[N]
  BY <1>1, <1>6 DEF T
<1>8. N + 1 \in 1..(N+1) /\ (N + 1) - 1 = N
  BY <1>1
<1>9. JobsUpto(r)[N+1] = JobsStep(JobsUpto(s)[N], e)
  BY <1>1, <1>3, <1>7, <1>8
<1> QED BY <1>1, <1>9 DEF r, JobEvents

-----------------------------------------------------------------------------
\* The events of one item more.
ItemStep(s, i, failed) ==
  IF failed THEN Append(s, Marker("ItemFailed"))
  ELSE Append(Append(s, JobEvent(i)), Marker("ItemCompleted"))

LEMMA ItemStepType ==
  ASSUME NEW s \in Seq(Events), NEW i \in Items, NEW failed
  PROVE  ItemStep(s, i, failed) \in Seq(Events)
<1>1. /\ Marker("ItemFailed") \in Events /\ Marker("ItemCompleted") \in Events
      /\ JobEvent(i) \in Events
  BY EventKinds DEF ItemMarkers
<1>2. Append(s, JobEvent(i)) \in Seq(Events) /\ Append(s, Marker("ItemFailed")) \in Seq(Events)
  BY <1>1, AppendProperties
<1>3. Append(Append(s, JobEvent(i)), Marker("ItemCompleted")) \in Seq(Events)
  BY <1>1, <1>2, AppendProperties
<1> QED BY <1>2, <1>3 DEF ItemStep

\* ItemEvents() satisfies its recursive equation.
LEMMA ItemEventsUnfold ==
  ASSUME NEW s \in Seq(Items), NEW Failed
  PROVE  /\ ItemEvents(s, Failed)[0] = <<Fee>>
         /\ \A k \in 1..Len(s) :
              ItemEvents(s, Failed)[k] = ItemStep(ItemEvents(s, Failed)[k-1], s[k], k \in Failed)
<1> DEFINE N == Len(s)
           walk == [k \in 1..N |-> [a \in Seq(Events) |-> ItemStep(a, s[k], k \in Failed)]]
           F(f) == f = [k \in 0..N |-> IF k = 0 THEN <<Fee>>
                                       ELSE ItemStep(f[k-1], s[k], k \in Failed)]
<1>1. N \in Nat /\ \A k \in 1..N : s[k] \in Items
  BY ElementOfSeq, LenProperties
<1>2. <<Fee>> \in Seq(Events)
  BY EventKinds
<1>3. walk \in [1..N -> [Seq(Events) -> Seq(Events)]]
  BY <1>1, ItemStepType
<1>4. PICK g \in [0..N -> Seq(Events)] : RecursiveUpto(g, N, <<Fee>>, walk)
  <2> HIDE DEF walk, N, F
  <2> QED BY <1>1, <1>2, <1>3, RecursionExists
<1>5. F(g)
  <2> DEFINE h == [k \in 0..N |-> IF k = 0 THEN <<Fee>> ELSE ItemStep(g[k-1], s[k], k \in Failed)]
  <2>1. ASSUME NEW k \in 0..N PROVE g[k] = h[k]
    <3>1. CASE k = 0
      BY <3>1, <1>4 DEF RecursiveUpto
    <3>2. CASE k # 0
      <4>1. k \in 1..N /\ k - 1 \in 0..N
        BY <3>2, <1>1
      <4>2. g[k-1] \in Seq(Events)
        BY <4>1
      <4> QED BY <4>1, <4>2, <1>4, <3>2 DEF RecursiveUpto
    <3> QED BY <3>1, <3>2
  <2>2. h \in [0..N -> {h[k] : k \in 0..N}]
    OBVIOUS
  <2> HIDE DEF h
  <2>3. g = h
    BY <2>1, <2>2
  <2> QED BY <2>3 DEF h
<1>6. F(CHOOSE f : F(f))
  <2> HIDE DEF F
  <2> QED BY <1>5
<1>7. ItemEvents(s, Failed) = (CHOOSE f : F(f))
  BY DEF ItemEvents, ItemStep
<1>8. F(ItemEvents(s, Failed))
  <2> HIDE DEF F
  <2> QED BY <1>6, <1>7
<1> HIDE DEF walk
<1> DEFINE t == ItemEvents(s, Failed)
<1> HIDE DEF t
<1>9. t = [k \in 0..N |-> IF k = 0 THEN <<Fee>> ELSE ItemStep(t[k-1], s[k], k \in Failed)]
  BY <1>8 DEF t
<1>10. t[0] = <<Fee>> /\ \A k \in 1..N : t[k] = ItemStep(t[k-1], s[k], k \in Failed)
  BY <1>1, <1>9
<1> QED BY <1>10 DEF t

-----------------------------------------------------------------------------
\* The events item k of a batch is shown: the fee if it is the first, and its
\* job event if it did not fail.
Before(k) == IF k = 1 THEN <<Fee>> ELSE <<>>
Group(items, Failed, k) ==
  IF k \in Failed THEN Before(k) ELSE Append(Before(k), JobEvent(items[k]))

LEMMA BeforeKinds ==
  /\ <<>> \in Seq(Events) /\ <<Fee>> \in Seq(Events) /\ <<Fee>> = Append(<<>>, Fee)
  /\ \A k : Before(k) \in Seq(Events) /\ JobEvents(Before(k)) = <<>>
  /\ Slice(<<Fee>>) = [groups |-> <<>>, current |-> <<Fee>>]
  /\ Slice(<<Fee>>) \in Slices
<1>1. <<>> \in Seq(Events) /\ Len(<<>>) = 0 /\ Fee \in Events /\ ~IsJobEvent(Fee)
  BY EventKinds, EmptySeq
<1>2. <<Fee>> = Append(<<>>, Fee) /\ <<Fee>> \in Seq(Events)
  BY <1>1
<1>3. JobEvents(<<>>) = <<>>
  BY <1>1, JobsUnfold DEF JobEvents
<1>4. JobEvents(<<Fee>>) = <<>>
  <2>1. JobEvents(Append(<<>>, Fee)) = JobsStep(JobEvents(<<>>), Fee)
    BY <1>1, JobsAppend
  <2> QED BY <1>1, <1>2, <1>3, <2>1 DEF JobsStep
<1>5. Slice(<<>>) = NoSlice
  BY <1>1, TakenUnfold DEF Slice
<1>6. Slice(<<Fee>>) = [groups |-> <<>>, current |-> <<Fee>>]
  <2>1. Slice(Append(<<>>, Fee)) = TakeEvent(NoSlice, Fee)
    BY <1>1, <1>5, SliceAppend
  <2>2. TakeEvent(NoSlice, Fee) = [NoSlice EXCEPT !.current = Append(@, Fee)]
    BY EventKinds
  <2>3. [NoSlice EXCEPT !.current = Append(@, Fee)] =
          [groups |-> <<>>, current |-> Append(<<>>, Fee)]
    BY DEF NoSlice
  <2> QED BY <1>2, <2>1, <2>2, <2>3
<1>7. Slice(<<Fee>>) \in Slices
  <2> DEFINE none == <<>>
             fee == <<Fee>>
  <2>1. none \in Seq(Seq(Events)) /\ fee \in Seq(Events)
    BY <1>2, EmptySeq
  <2>2. Slice(<<Fee>>) = [groups |-> none, current |-> fee]
    BY <1>6
  <2> HIDE DEF none, fee
  <2>3. [groups |-> none, current |-> fee] \in Slices
    BY <2>1 DEF Slices
  <2> QED BY <2>2, <2>3
<1>8. ASSUME NEW k PROVE Before(k) \in Seq(Events) /\ JobEvents(Before(k)) = <<>>
  <2>1. CASE k = 1
    <3>1. Before(k) = <<Fee>>
      BY <2>1 DEF Before
    <3> QED BY <1>2, <1>4, <3>1
  <2>2. CASE k # 1
    <3>1. Before(k) = <<>>
      BY <2>2 DEF Before
    <3> QED BY <1>1, <1>3, <3>1
  <2> QED BY <2>1, <2>2
<1> QED BY <1>1, <1>2, <1>6, <1>7, <1>8

\* Of the events of a batch, its own group holds just the job event of an item.
LEMMA GroupScoped ==
  ASSUME NEW items \in Seq(Items), NEW Failed, NEW k \in 1..Len(items)
  PROVE  /\ Group(items, Failed, k) \in Seq(Events)
         /\ JobEvents(Group(items, Failed, k)) =
              IF k \in Failed THEN <<>> ELSE <<JobEvent(items[k])>>
<1> DEFINE e == JobEvent(items[k])
<1>1. e \in Events /\ IsJobEvent(e)
  <2>1. items[k] \in Items
    BY ElementOfSeq
  <2> QED BY <2>1, EventKinds
<1>2. Before(k) \in Seq(Events) /\ JobEvents(Before(k)) = <<>>
  BY BeforeKinds
<1> HIDE DEF e
<1>3. Append(Before(k), e) \in Seq(Events)
  BY <1>1, <1>2, AppendProperties
<1>4. JobEvents(Append(Before(k), e)) = <<e>>
  <2>1. JobEvents(Append(Before(k), e)) = JobsStep(<<>>, e)
    BY <1>1, <1>2, JobsAppend
  <2>2. JobsStep(<<>>, e) = Append(<<>>, e)
    BY <1>1 DEF JobsStep
  <2>3. Append(<<>>, e) = <<e>>
    BY <1>1
  <2> QED BY <2>1, <2>2, <2>3
<1> QED BY <1>2, <1>3, <1>4 DEF Group, e

\* After k items, their groups are the first k, and nothing is left but the fee
\* if there was none.
Grouped(items, Failed, k, s) ==
  /\ s \in Seq(Events) /\ Slice(s) \in Slices /\ Slice(s).current = Before(k + 1)
  /\ Len(Slice(s).groups) = k
  /\ \A j \in 1..k : Slice(s).groups[j] = Group(items, Failed, j)

LEMMA GroupedStep ==
  ASSUME NEW items \in Seq(Items), NEW Failed, NEW k \in Nat, k + 1 \in 1..Len(items),
         NEW s, Grouped(items, Failed, k, s)
  PROVE  Grouped(items, Failed, k + 1, ItemStep(s, items[k+1], k + 1 \in Failed))
<1> DEFINE e == JobEvent(items[k+1])
           g == Slice(s).groups
           c == Slice(s).current
           own == Group(items, Failed, k + 1)
           r == ItemStep(s, items[k+1], k + 1 \in Failed)
           bad == Marker("ItemFailed")
           good == Marker("ItemCompleted")
<1>1. /\ s \in Seq(Events) /\ Slice(s) \in Slices /\ c = Before(k + 1) /\ Len(g) = k
      /\ \A j \in 1..k : g[j] = Group(items, Failed, j)
  BY DEF Grouped
<1>2. g \in Seq(Seq(Events)) /\ c \in Seq(Events)
  BY <1>1 DEF Slices
<1>3. e \in Events /\ \A t : TakeEvent(t, e) = [t EXCEPT !.current = Append(@, e)]
  <2>1. items[k+1] \in Items
    BY ElementOfSeq
  <2> QED BY <2>1, EventKinds
<1>4. /\ bad \in Events /\ good \in Events
      /\ \A t : TakeEvent(t, bad) = [groups |-> Append(t.groups, t.current), current |-> <<>>]
      /\ \A t : TakeEvent(t, good) = [groups |-> Append(t.groups, t.current), current |-> <<>>]
  <2>1. "ItemFailed" \in ItemMarkers /\ "ItemCompleted" \in ItemMarkers
    BY DEF ItemMarkers
  <2> QED BY <2>1, EventKinds
<1>5. own \in Seq(Events) /\ <<>> \in Seq(Events)
  BY GroupScoped, BeforeKinds
<1>6. r \in Seq(Events) /\ Slice(r) = [groups |-> Append(g, own), current |-> <<>>]
  <2>1. CASE k + 1 \in Failed
    <3>1. r = Append(s, bad)
      BY <2>1 DEF ItemStep
    <3>2. own = c
      BY <1>1, <2>1 DEF Group
    <3> HIDE DEF r, bad, own
    <3>3. Slice(r) = TakeEvent(Slice(s), bad)
      BY <1>1, <1>4, <3>1, SliceAppend
    <3>4. r \in Seq(Events)
      BY <1>1, <1>4, <3>1, AppendProperties
    <3> QED BY <1>4, <3>2, <3>3, <3>4
  <2>2. CASE ~(k + 1 \in Failed)
    <3> DEFINE q == Append(s, e)
    <3>1. r = Append(q, good)
      BY <2>2 DEF ItemStep
    <3>2. own = Append(c, e)
      BY <1>1, <2>2 DEF Group
    <3> HIDE DEF r, good, own, e
    <3>3. Slice(q) = TakeEvent(Slice(s), e) /\ q \in Seq(Events)
      BY <1>1, <1>3, SliceAppend, AppendProperties
    <3>4. Slice(q).groups = g /\ Slice(q).current = own
      BY <1>1, <1>3, <3>2, <3>3 DEF Slices
    <3> HIDE DEF q
    <3>5. Slice(r) = TakeEvent(Slice(q), good) /\ r \in Seq(Events)
      BY <1>4, <3>1, <3>3, SliceAppend, AppendProperties
    <3>6. TakeEvent(Slice(q), good) = [groups |-> Append(g, own), current |-> <<>>]
      BY <1>4, <3>4
    <3> QED BY <3>5, <3>6
  <2> QED BY <2>1, <2>2
<1> HIDE DEF r, g, own, e
<1>7. /\ Append(g, own) \in Seq(Seq(Events)) /\ Len(Append(g, own)) = k + 1
      /\ Append(g, own)[k+1] = own /\ \A j \in 1..k : Append(g, own)[j] = g[j]
  BY <1>1, <1>2, <1>5, AppendProperties
<1>8. Slice(r) \in Slices /\ Slice(r).current = Before((k + 1) + 1)
  <2>1. (k + 1) + 1 # 1
    OBVIOUS
  <2> QED BY <1>5, <1>6, <1>7, <2>1 DEF Slices, Before
<1>9. ASSUME NEW j \in 1..(k + 1) PROVE Slice(r).groups[j] = Group(items, Failed, j)
  <2>1. Slice(r).groups = Append(g, own)
    BY <1>6
  <2>2. CASE j = k + 1
    BY <1>7, <2>1, <2>2 DEF own
  <2>3. CASE j # k + 1
    <3>1. j \in 1..k
      BY <2>3
    <3> QED BY <1>1, <1>7, <2>1, <3>1
  <2> QED BY <2>2, <2>3
<1>10. Len(Slice(r).groups) = k + 1
  BY <1>6, <1>7
<1> QED BY <1>6, <1>8, <1>9, <1>10 DEF Grouped, r

\* Every call of a batch is shown its own events.
LEMMA BatchScoped ==
  ASSUME NEW items \in Seq(Items), NEW Failed
  PROVE  ScopedTo(items, Failed)
<1> DEFINE n == Len(items)
           I == ItemEvents(items, Failed)
<1>1. n \in Nat /\ DOMAIN items = 1..n /\ \A k \in 1..n : items[k] \in Items
  BY LenProperties, ElementOfSeq
<1>2. I[0] = <<Fee>> /\ \A k \in 1..n : I[k] = ItemStep(I[k-1], items[k], k \in Failed)
  BY ItemEventsUnfold
<1> DEFINE T == {k \in 0..n : Grouped(items, Failed, k, I[k])}
<1>3. 0 \in T
  <2>1. Len(<<>>) = 0 /\ Before(0 + 1) = <<Fee>>
    BY DEF Before
  <2>2. Grouped(items, Failed, 0, <<Fee>>)
    BY <2>1, BeforeKinds DEF Grouped
  <2> QED BY <1>1, <1>2, <2>2
<1>4. ASSUME NEW k \in 0..n, k \in T, k < n PROVE k + 1 \in T
  <2>1. k \in Nat /\ k + 1 \in 0..n /\ k + 1 \in 1..n /\ (k + 1) - 1 = k
    BY <1>1, <1>4
  <2>2. I[k+1] = ItemStep(I[k], items[k+1], k + 1 \in Failed)
    BY <1>2, <2>1
  <2>3. Grouped(items, Failed, k + 1, ItemStep(I[k], items[k+1], k + 1 \in Failed))
    <3> HIDE DEF I
    <3> QED BY <1>4, <2>1, GroupedStep
  <2> QED BY <2>1, <2>2, <2>3
<1> HIDE DEF T
<1>5. 0..n \subseteq T
  BY <1>1, <1>3, <1>4, RangeInduction
<1>6. Grouped(items, Failed, n, I[n])
  BY <1>1, <1>5 DEF T
<1> DEFINE shown == ScopeResults(EventsOf(items, Failed), items)
<1>7. ASSUME NEW k \in 1..n PROVE shown[k] = Group(items, Failed, k)
  <2>1. CASE n = 1
    <3>1. k = 1 /\ shown[k] = EventsOf(items, Failed)
      BY <1>1, <2>1 DEF ScopeResults
    <3>2. EventsOf(items, Failed) = IF 1 \in Failed THEN <<Fee>> ELSE <<Fee, JobEvent(items[1])>>
      BY <2>1 DEF EventsOf
    <3>3. <<Fee, JobEvent(items[1])>> = Append(<<Fee>>, JobEvent(items[1]))
      OBVIOUS
    <3> QED BY <3>1, <3>2, <3>3 DEF Group, Before
  <2>2. CASE n # 1
    <3> DEFINE end == Marker(IF Failed = {} THEN "BatchCompleted" ELSE "BatchCompletedWithErrors")
               s == I[n]
               all == Append(Append(s, end), Fee)
    <3>1. EventsOf(items, Failed) = all
      BY <2>2 DEF EventsOf
    <3>2. end \in Events /\ Fee \in Events /\ \A t : TakeEvent(t, end) = t
      <4>1. "BatchCompleted" \in BatchMarkers /\ "BatchCompletedWithErrors" \in BatchMarkers
        BY DEF BatchMarkers
      <4>2. (IF Failed = {} THEN "BatchCompleted" ELSE "BatchCompletedWithErrors") \in BatchMarkers
        BY <4>1
      <4> QED BY <4>2, EventKinds
    <3>3. s \in Seq(Events) /\ Slice(s) \in Slices
      BY <1>6 DEF Grouped
    <3> HIDE DEF end, s, I
    <3>4. Append(s, end) \in Seq(Events) /\ Slice(Append(s, end)) = Slice(s)
      BY <3>2, <3>3, SliceAppend, AppendProperties
    <3>5. Slice(all) = [Slice(s) EXCEPT !.current = Append(@, Fee)]
      BY <3>2, <3>4, SliceAppend, EventKinds
    <3>6. Slice(all).groups = Slice(s).groups
      BY <3>3, <3>5 DEF Slices
    <3>7. SliceBatchEvents(all) = Slice(s).groups
      BY <3>6 DEF SliceBatchEvents, Slice
    <3>8. /\ DOMAIN Slice(s).groups = 1..n
          /\ \A j \in 1..n : Slice(s).groups[j] = Group(items, Failed, j)
      <4>1. /\ Len(Slice(s).groups) = n
            /\ \A j \in 1..n : Slice(s).groups[j] = Group(items, Failed, j)
        BY <1>6 DEF Grouped, s
      <4>2. Slice(s).groups \in Seq(Seq(Events))
        BY <3>3 DEF Slices
      <4> QED BY <4>1, <4>2, LenProperties
    <3>9. ~(n <= 1)
      BY <1>1, <2>2
    <3>10. shown[k] = Slice(s).groups[k]
      BY <1>1, <3>1, <3>7, <3>8, <3>9 DEF ScopeResults
    <3> QED BY <3>8, <3>10
  <2> QED BY <2>1, <2>2
<1> HIDE DEF shown
<1>8. \A k \in DOMAIN items :
        JobEvents(shown[k]) = IF k \in Failed THEN <<>> ELSE <<JobEvent(items[k])>>
  BY <1>1, <1>7, GroupScoped
<1> QED BY <1>8 DEF ScopedTo, shown

\* A call in a block is shown its own events, in a batch of any length, after
\* any retries, and whichever of the calls failed (tx-queue.ts:362).
THEOREM Scoped == Spec => []EventsScoped
<1>1. TypeOK => EventsScoped
  BY TypeParts, BatchScoped DEF LoopTypeOK, EventsScoped
<1>2. QED
  BY <1>1, TypeCorrect, PTL
=============================================================================

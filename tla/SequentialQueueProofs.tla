----------------------- MODULE SequentialQueueProofs -----------------------
(***************************************************************************)
(* Proofs about SequentialQueue for any set of calls, any number of        *)
(* foreign extrinsics and any number of lost submissions.                  *)
(***************************************************************************)
EXTENDS SequentialQueue, SequenceTheorems, FiniteSetTheorems, TLAPS

\* RunOnce keeps the queue, the steps and the flag well typed.
LEMMA RunOnceType ==
  ASSUME TypeOK,
         NEW q \in Seq(Items),
         NEW st \in [Items -> Carrying \cup {"new", "queued", "done"}],
         RunOnce(q, st)
  PROVE  /\ queue' \in Seq(Items)
         /\ step' \in [Items -> Carrying \cup {"new", "queued", "done"}]
         /\ processing' \in BOOLEAN
<1>1. CASE processing \/ q = <<>>
  BY <1>1 DEF RunOnce, TypeOK
<1>2. CASE ~(processing \/ q = <<>>)
  <2>1. Tail(q) \in Seq(Items) /\ Head(q) \in Items
    BY <1>2, HeadTailProperties
  <2>2. QED
    BY <1>2, <2>1 DEF RunOnce, Carrying
<1>3. QED
  BY <1>1, <1>2

\* A fetched nonce is a natural number.
LEMMA IndexRangeNat ==
  ASSUME TypeOK, NEW n \in IndexRange
  PROVE  n \in Nat
BY FS_CardinalityType DEF TypeOK, ChainTypeOK, IndexRange

\* Accepting an extrinsic keeps the account well typed.
LEMMA AcceptType ==
  ASSUME TypeOK, NEW x \in Items \cup {Foreign}, NEW n \in Nat, Accept(x, n)
  PROVE  ChainTypeOK(Items \cup {Foreign})'
<1>1. IsFiniteSet(pool \cup {[nonce |-> n, tx |-> x]})
  BY FS_AddElement DEF TypeOK, ChainTypeOK
<1>2. pool' \subseteq [nonce : Nat, tx : Items \cup {Foreign}]
  BY DEF TypeOK, ChainTypeOK, Accept
<1>3. QED
  BY <1>1, <1>2 DEF TypeOK, ChainTypeOK, Accept

\* So does taking one away, in a block or dropped.
LEMMA RemoveType ==
  ASSUME TypeOK, NEW t \in pool, pool' = pool \ {t},
         chainNonce' \in {chainNonce, chainNonce + 1}
  PROVE  ChainTypeOK(Items \cup {Foreign})'
<1>1. IsFiniteSet(pool \ {t})
  BY FS_RemoveElement DEF TypeOK, ChainTypeOK
<1>2. pool' \subseteq [nonce : Nat, tx : Items \cup {Foreign}]
  BY DEF TypeOK, ChainTypeOK
<1>3. QED
  BY <1>1, <1>2 DEF TypeOK, ChainTypeOK

LEMMA TypeStep == TypeOK /\ [Next]_vars => TypeOK'
<1> SUFFICES ASSUME TypeOK, [Next]_vars PROVE TypeOK'
  OBVIOUS
<1> USE DEF queueVars, historyVars
<1>1. CASE Kick
  BY <1>1, RunOnceType DEF TypeOK, Kick, ChainTypeOK
<1>2. ASSUME NEW i \in Items, Enqueue(i) PROVE TypeOK'
  <2>1. /\ Append(queue, i) \in Seq(Items)
        /\ [step EXCEPT ![i] = "queued"]
             \in [Items -> Carrying \cup {"new", "queued", "done"}]
    BY AppendProperties DEF TypeOK
  <2>2. QED
    BY <1>2, <2>1, RunOnceType DEF TypeOK, Enqueue, ChainTypeOK
<1>3. ASSUME NEW i \in Items, Send(i) PROVE TypeOK'
  BY <1>3 DEF TypeOK, Send, Carrying, ChainTypeOK
<1>4. ASSUME NEW i \in Items, FetchNonce(i) PROVE TypeOK'
  <2>1. nonce' \in [Items -> Nat]
    BY <1>4 DEF TypeOK, ChainTypeOK, FetchNonce
  <2>2. met' \in [Items -> SUBSET (Items \cup {Foreign})]
    BY <1>4 DEF TypeOK, ChainTypeOK, FetchNonce
  <2>3. QED
    BY <1>4, <2>1, <2>2 DEF TypeOK, FetchNonce, Carrying, ChainTypeOK
<1>5. ASSUME NEW i \in Items, Submit(i) PROVE TypeOK'
  <2>1. nonce[i] \in Nat
    BY DEF TypeOK
  <2>2. ChainTypeOK(Items \cup {Foreign})'
    BY <1>5, <2>1, AcceptType DEF Submit
  <2>3. QED
    BY <1>5, <2>2 DEF TypeOK, Submit, Carrying
<1>6. ASSUME NEW i \in Items, SubmitRefused(i) PROVE TypeOK'
  BY <1>6 DEF TypeOK, SubmitRefused, Carrying, ChainTypeOK
<1>7. ASSUME NEW i \in Items, SubmitFails(i) PROVE TypeOK'
  BY <1>7 DEF TypeOK, SubmitFails, Carrying, ChainTypeOK
<1>8. ASSUME NEW i \in Items, SubmitUnanswered(i) PROVE TypeOK'
  <2>1. nonce[i] \in Nat
    BY DEF TypeOK
  <2>2. ChainTypeOK(Items \cup {Foreign})'
    BY <1>8, <2>1, AcceptType DEF SubmitUnanswered
  <2>3. QED
    BY <1>8, <2>2 DEF TypeOK, SubmitUnanswered, Carrying
<1>9. ASSUME NEW i \in Items, Opened(i) PROVE TypeOK'
  BY <1>9 DEF TypeOK, Opened, AfterThen, ChainTypeOK
<1>10. ASSUME NEW i \in Items, Notify(i) PROVE TypeOK'
  BY <1>10 DEF TypeOK, Notify, Unsub, StatusVerdict, StatusVerdicts, Carrying,
               ChainTypeOK
<1>11. ASSUME NEW i \in Items, Finish(i) PROVE TypeOK'
  BY <1>11 DEF TypeOK, Finish, Rekick, Carrying, ChainTypeOK
<1>12. ASSUME NEW i \in Items, Disconnect(i) PROVE TypeOK'
  BY <1>12 DEF TypeOK, Disconnect, ChainTypeOK
<1>13. ASSUME NEW t \in pool, Include(t) PROVE TypeOK'
  <2>1. ChainTypeOK(Items \cup {Foreign})'
    BY <1>13, RemoveType DEF Include, IncludeTx
  <2>2. fate' \in [Items -> {"none", "pooled", "ok", "failed", "dropped"}]
    BY <1>13 DEF TypeOK, Include
  <2>3. QED
    BY <1>13, <2>1, <2>2 DEF TypeOK, Include
<1>14. ASSUME NEW t \in pool, Drop(t) PROVE TypeOK'
  <2>1. ChainTypeOK(Items \cup {Foreign})'
    BY <1>14, RemoveType DEF Drop, DropTx
  <2>2. t.tx \in Items
    BY <1>14 DEF TypeOK, ChainTypeOK, Drop
  <2>3. QED
    BY <1>14, <2>1, <2>2 DEF TypeOK, Drop
<1>15. CASE SubmitForeign
  <2>1. PICK n \in IndexRange : Accept(Foreign, n)
    BY <1>15 DEF SubmitForeign
  <2>2. ChainTypeOK(Items \cup {Foreign})'
    BY <2>1, IndexRangeNat, AcceptType
  <2>3. QED
    BY <1>15, <2>2 DEF TypeOK, SubmitForeign
<1>16. CASE UNCHANGED vars
  BY <1>16 DEF TypeOK, vars, ChainTypeOK
<1>17. QED
  BY <1>1, <1>2, <1>3, <1>4, <1>5, <1>6, <1>7, <1>8, <1>9, <1>10, <1>11, <1>12,
     <1>13, <1>14, <1>15, <1>16 DEF Next

LEMMA TypeInit == Init => TypeOK
<1> SUFFICES ASSUME Init PROVE TypeOK
  OBVIOUS
<1>1. ChainTypeOK(Items \cup {Foreign})
  BY FS_EmptySet DEF Init, ChainInit, ChainTypeOK
<1>2. queue \in Seq(Items)
  BY EmptySeq DEF Init
<1>3. QED
  BY <1>1, <1>2 DEF Init, TypeOK

\* Every state the queue and the account can be in is well typed.
THEOREM TypeCorrect == Spec => []TypeOK
<1>1. QED
  BY TypeInit, TypeStep, PTL DEF Spec

-----------------------------------------------------------------------------
\* Steps is the range of `step`.
Steps == Carrying \cup {"new", "queued", "done"}

\* QueueInv, of any queue and steps.
Waiting(q, st) == /\ \A k \in 1..Len(q) : st[q[k]] = "queued"
                  /\ \A k, l \in 1..Len(q) : q[k] = q[l] => k = l

\* RunOnce changes nothing, or starts the activation of the head of a queue
\* when none is under way; either way the rest keeps waiting.
LEMMA RunOnceEffect ==
  ASSUME TypeOK, NEW q \in Seq(Items), NEW st \in [Items -> Steps],
         Waiting(q, st), RunOnce(q, st)
  PROVE  /\ Waiting(queue', step')
         /\ \/ step' = st /\ processing' = processing
            \/ /\ ~processing /\ processing'
               /\ \E h \in Items : /\ st[h] = "queued"
                                   /\ step' = [st EXCEPT ![h] = "preparing"]
<1>1. CASE processing \/ q = <<>>
  BY <1>1 DEF RunOnce
<1>2. CASE ~(processing \/ q = <<>>)
  <2>1. /\ Head(q) \in Items /\ Head(q) = q[1] /\ 1 \in 1..Len(q)
        /\ Tail(q) \in Seq(Items) /\ Len(Tail(q)) = Len(q) - 1
        /\ \A k \in 1..Len(Tail(q)) : Tail(q)[k] = q[k + 1] /\ k + 1 \in 1..Len(q)
    BY <1>2, HeadTailProperties, LenProperties
  <2>2. /\ queue' = Tail(q)
        /\ step' = [st EXCEPT ![q[1]] = "preparing"]
        /\ processing'
    BY <1>2, <2>1 DEF RunOnce
  <2>3. \A k \in 1..Len(q) : q[k] \in Items
    BY ElementOfSeq
  <2>4. ASSUME NEW k \in 1..Len(Tail(q)) PROVE step'[Tail(q)[k]] = "queued"
    <3>1. q[k + 1] # q[1]
      BY <2>1 DEF Waiting
    <3>2. QED
      BY <2>1, <2>2, <2>3, <3>1 DEF Waiting
  <2>5. ASSUME NEW k \in 1..Len(Tail(q)), NEW l \in 1..Len(Tail(q)),
               Tail(q)[k] = Tail(q)[l]
        PROVE  k = l
    BY <2>1, <2>5 DEF Waiting
  <2>6. QED
    BY <1>2, <2>1, <2>2, <2>4, <2>5 DEF Waiting
<1>3. QED
  BY <1>1, <1>2

\* Enqueue, seen as an appended item and a RunOnce.
LEMMA EnqueueEffect ==
  ASSUME TypeOK, IInv, NEW i \in Items, Enqueue(i)
  PROVE  LET st == [step EXCEPT ![i] = "queued"]
         IN  /\ st \in [Items -> Steps]
             /\ Waiting(queue', step')
             /\ \/ step' = st /\ processing' = processing
                \/ /\ ~processing /\ processing'
                   /\ \E h \in Items : /\ st[h] = "queued"
                                       /\ step' = [st EXCEPT ![h] = "preparing"]
<1> DEFINE st == [step EXCEPT ![i] = "queued"]
           q == Append(queue, i)
<1>1. /\ q \in Seq(Items) /\ Len(q) = Len(queue) + 1 /\ q[Len(q)] = i
      /\ \A k \in 1..Len(queue) : q[k] = queue[k]
      /\ Len(queue) \in Nat
  BY AppendProperties, LenProperties DEF TypeOK
<1>2. st \in [Items -> Steps] /\ st[i] = "queued"
  BY DEF TypeOK, Steps
<1>3. \A k \in 1..Len(queue) : queue[k] \in Items /\ queue[k] # i
  BY ElementOfSeq DEF TypeOK, IInv, QueueInv, Enqueue
<1>4. \A k \in 1..Len(queue) : st[queue[k]] = "queued"
  BY <1>3 DEF TypeOK, IInv, QueueInv
<1>5. \A k \in 1..Len(q) : st[q[k]] = "queued"
  <2> HIDE DEF st, q
  <2>1. QED
    BY <1>1, <1>2, <1>4
<1>6. \A k, l \in 1..Len(q) : q[k] = q[l] => k = l
  <2> HIDE DEF st, q
  <2>1. QED
    BY <1>1, <1>3 DEF IInv, QueueInv
<1>7. Waiting(q, st)
  BY <1>5, <1>6 DEF Waiting
<1>8. RunOnce(q, st)
  BY DEF Enqueue
<1>9. QED
  <2> HIDE DEF st, q
  <2>1. QED
    BY <1>1, <1>2, <1>7, <1>8, RunOnceEffect DEF st

LEMMA KickEffect ==
  ASSUME TypeOK, IInv, Kick
  PROVE  /\ Waiting(queue', step')
         /\ \/ step' = step /\ processing' = processing
            \/ /\ ~processing /\ processing'
               /\ \E h \in Items : /\ step[h] = "queued"
                                   /\ step' = [step EXCEPT ![h] = "preparing"]
<1>1. step \in [Items -> Steps] /\ queue \in Seq(Items)
  BY DEF TypeOK, Steps
<1>2. Waiting(queue, step) /\ RunOnce(queue, step)
  BY DEF IInv, QueueInv, Waiting, Kick
<1>3. QED
  BY <1>1, <1>2, RunOnceEffect

-----------------------------------------------------------------------------
\* The actions that move one item from one suspension to another, or none.
Quiet(i) == \/ Send(i) \/ FetchNonce(i) \/ Submit(i) \/ SubmitRefused(i)
            \/ SubmitFails(i) \/ SubmitUnanswered(i) \/ Opened(i) \/ Notify(i)
            \/ Disconnect(i)

ChainStep == SubmitForeign \/ \E t \in pool : Include(t) \/ Drop(t)

LEMMA StepCases ==
  ASSUME [Next]_vars
  PROVE  \/ Kick \/ ChainStep \/ UNCHANGED vars
         \/ \E i \in Items : Enqueue(i) \/ Quiet(i) \/ Finish(i)
BY DEF Next, Quiet, ChainStep

\* A quiet action touches no waiting item and ends no activation.
LEMMA QuietEffect ==
  ASSUME TypeOK, NEW i \in Items, Quiet(i)
  PROVE  /\ queue' = queue /\ processing' = processing /\ promise' = promise
         /\ \A j \in Items : j # i => step'[j] = step[j]
         /\ \/ step'[i] = step[i]
            \/ step[i] \in Carrying /\ step'[i] \in Carrying
         /\ step'[i] = "preparing" => step[i] = "preparing"
<1>1. CASE Opened(i) \/ Disconnect(i)
  BY <1>1 DEF Opened, Disconnect, queueVars
<1>2. CASE ~(Opened(i) \/ Disconnect(i))
  BY <1>2 DEF Quiet, Send, FetchNonce, Submit, SubmitRefused, SubmitFails,
              SubmitUnanswered, Notify, Carrying, TypeOK
<1>3. QED
  BY <1>1, <1>2

LEMMA ChainEffect ==
  ASSUME ChainStep PROVE UNCHANGED queueVars
BY DEF ChainStep, Include, Drop, SubmitForeign

\* Activations stay serialised, and what waits keeps waiting.
LEMMA SerialStep ==
  ASSUME TypeOK, IInv, [Next]_vars PROVE SerialInv' /\ QueueInv'
<1> USE DEF InFlight
<1>1. CASE Kick
  <2>1. step \in [Items -> Steps]
    BY DEF TypeOK, Steps
  <2>2. /\ Waiting(queue', step')
        /\ \/ step' = step /\ processing' = processing
           \/ /\ ~processing /\ processing'
              /\ \E h \in Items : step' = [step EXCEPT ![h] = "preparing"]
    BY <1>1, KickEffect
  <2>3. SerialInv'
    BY <2>1, <2>2 DEF IInv, SerialInv
  <2>4. QED
    BY <2>2, <2>3 DEF QueueInv, Waiting
<1>2. ASSUME NEW i \in Items, Enqueue(i) PROVE SerialInv' /\ QueueInv'
  <2> DEFINE st == [step EXCEPT ![i] = "queued"]
  <2>1. \A j \in Items : st[j] \in Carrying => step[j] \in Carrying
    BY DEF Carrying, TypeOK
  <2>2. /\ st \in [Items -> Steps]
        /\ \/ step' = st /\ processing' = processing
           \/ /\ ~processing /\ processing'
              /\ \E h \in Items : step' = [st EXCEPT ![h] = "preparing"]
    BY <1>2, EnqueueEffect
  <2>3. SerialInv'
    <3> HIDE DEF st
    <3>1. CASE step' = st /\ processing' = processing
      BY <2>1, <3>1 DEF IInv, SerialInv
    <3>2. ASSUME ~processing, processing',
                 NEW h \in Items, step' = [st EXCEPT ![h] = "preparing"]
          PROVE  SerialInv'
      BY <2>1, <2>2, <3>2 DEF IInv, SerialInv
    <3>3. QED
      BY <2>2, <3>1, <3>2
  <2>4. QED
    BY <1>2, <2>3, EnqueueEffect DEF QueueInv, Waiting
<1>3. ASSUME NEW i \in Items, Quiet(i) PROVE SerialInv' /\ QueueInv'
  <2>1. \A j \in Items : step'[j] \in Carrying <=> step[j] \in Carrying
    BY <1>3, QuietEffect
  <2>2. \A j \in Items : step[j] = "queued" => step'[j] = "queued"
    BY <1>3, QuietEffect DEF Carrying
  <2>3. \A k \in 1..Len(queue) : queue[k] \in Items
    BY ElementOfSeq DEF TypeOK
  <2>4. queue' = queue /\ processing' = processing
    BY <1>3, QuietEffect
  <2>5. SerialInv'
    BY <2>1, <2>4 DEF IInv, SerialInv
  <2>6. QED
    BY <2>2, <2>3, <2>4, <2>5 DEF IInv, QueueInv
<1>4. ASSUME NEW i \in Items, Finish(i) PROVE SerialInv' /\ QueueInv'
  <2>1. \A k \in 1..Len(queue) : queue[k] \in Items /\ queue[k] # i
    BY <1>4, ElementOfSeq DEF TypeOK, IInv, QueueInv, Finish
  <2>2. SerialInv'
    BY <1>4 DEF IInv, SerialInv, Finish, Carrying, TypeOK
  <2>3. QED
    BY <1>4, <2>1, <2>2 DEF IInv, QueueInv, Finish, TypeOK
<1>5. CASE ChainStep \/ UNCHANGED vars
  BY <1>5, ChainEffect DEF queueVars, vars, IInv, SerialInv, QueueInv
<1>6. QED
  BY <1>1, <1>2, <1>3, <1>4, <1>5, StepCases

\* A RunOnce disturbs no item that is past its dequeue.
LEMMA StartEffect ==
  ASSUME TypeOK, IInv, NEW i \in Items, Kick \/ Enqueue(i)
  PROVE  \A j \in Items :
           /\ step[j] \notin {"new", "queued"} => step'[j] = step[j]
           /\ step[j] \in {"new", "queued"} => step'[j] \in {"new", "queued", "preparing"}
           /\ step'[j] = "new" => step[j] = "new" /\ (Enqueue(i) => j # i)
           /\ step[j] = "new" /\ (Enqueue(i) => j # i) => step'[j] = "new"
<1>1. CASE Enqueue(i)
  <2>1. step[i] = "new" /\ step \in [Items -> Steps]
    BY <1>1 DEF Enqueue, TypeOK, Steps
  <2>2. QED
    BY <1>1, <2>1, EnqueueEffect DEF Steps
<1>2. CASE ~Enqueue(i) /\ Kick
  BY <1>2, KickEffect DEF TypeOK
<1>3. QED
  BY <1>1, <1>2

\* While a call is prepared and signed, the pool holds no extrinsic that a call
\* of the queue waits for.
LEMMA NothingOwnPooled ==
  ASSUME TypeOK, IInv, NEW i \in Items,
         step[i] \in {"preparing", "signing", "submitting"}, NEW t \in pool
  PROVE  t.tx \in Unowned
<1>1. CASE t.tx = Foreign
  BY <1>1 DEF Unowned
<1>2. CASE t.tx # Foreign
  <2>1. t.tx \in Items
    BY <1>2 DEF TypeOK, ChainTypeOK
  <2>2. step[t.tx] = "watching" \/ t.tx \in unanswered
    BY <1>2 DEF IInv, PoolInv
  <2>3. step[t.tx] # "watching"
    BY <2>1 DEF IInv, SerialInv, InFlight, Carrying
  <2>4. QED
    BY <2>2, <2>3 DEF Unowned
<1>3. QED
  BY <1>1, <1>2

\* NonceInv of one item.
NonceOK(i) ==
  /\ step[i] = "submitting" => i \in raced \/ met[i] # {} \/ ~Refuses(nonce[i])
  /\ i \in refused => step[i] \notin Unsent /\ (i \in raced \/ met[i] # {})
  /\ met[i] \subseteq Unowned

\* What an item's nonce is worth does not change while the item keeps its nonce
\* and the node does not come to refuse it.
LEMMA NonceFrame ==
  ASSUME NEW j \in Items, NonceOK(j), nonce'[j] = nonce[j], met'[j] = met[j],
         step'[j] = "submitting" => step[j] = "submitting",
         step[j] \notin Unsent => step'[j] \notin Unsent,
         j \in refused' => j \in refused, j \in raced => j \in raced',
         unanswered \subseteq unanswered',
         step'[j] = "submitting" /\ Refuses(nonce[j])' => Refuses(nonce[j])
  PROVE  NonceOK(j)'
<1>1. met'[j] \subseteq Unowned'
  BY DEF NonceOK, Unowned
<1>2. QED
  BY <1>1 DEF NonceOK

\* A step that leaves the account alone makes the node refuse nothing new.
LEMMA RefusesFrame ==
  ASSUME UNCHANGED <<chainNonce, pool>>, NEW n
  PROVE  Refuses(n)' = Refuses(n)
BY DEF Refuses, Pooled

\* Nor does a block: it takes the lowest nonce of all.
LEMMA RefusesInclude ==
  ASSUME TypeOK, NEW t \in pool, Include(t), NEW n \in Nat, ~Refuses(n)
  PROVE  ~Refuses(n)'
BY DEF Include, IncludeTx, Refuses, Pooled, TypeOK, ChainTypeOK

\* A nonce that was free when it was read stays free until it is used or taken
\* by a foreigner.
LEMMA NonceStep ==
  ASSUME TypeOK, IInv, [Next]_vars, NEW j \in Items PROVE NonceOK(j)'
<1>1. NonceOK(j) /\ nonce[j] \in Nat
  BY DEF IInv, NonceInv, NonceOK, TypeOK
<1>2. ASSUME NEW i \in Items, Kick \/ Enqueue(i) PROVE NonceOK(j)'
  <2>1. UNCHANGED <<nonce, chainNonce, pool, refused, raced, met, unanswered>>
    BY <1>2 DEF Kick, Enqueue, historyVars
  <2>2. /\ step'[j] = "submitting" => step[j] = "submitting"
        /\ step[j] \notin Unsent => step'[j] \notin Unsent
    BY <1>2, StartEffect DEF Unsent
  <2>3. QED
    BY <1>1, <2>1, <2>2, NonceFrame, RefusesFrame
<1>3. ASSUME NEW i \in Items, Quiet(i) \/ Finish(i), j # i PROVE NonceOK(j)'
  <2>1. /\ step'[j] = step[j] /\ nonce'[j] = nonce[j] /\ met'[j] = met[j]
        /\ j \in refused' => j \in refused
        /\ raced' = raced /\ unanswered \subseteq unanswered'
    BY <1>3 DEF Quiet, Send, FetchNonce, Submit, SubmitRefused, SubmitFails,
                SubmitUnanswered, Opened, Notify, Disconnect, Finish, queueVars,
                historyVars, TypeOK
  <2>2. CASE Submit(i) \/ SubmitUnanswered(i)
    <3>1. step[i] = "submitting"
      BY <2>2 DEF Submit, SubmitUnanswered
    <3>2. step[j] # "submitting"
      BY <1>3, <3>1 DEF IInv, SerialInv, InFlight, Carrying
    <3>3. QED
      BY <1>1, <2>1, <3>2, NonceFrame
  <2>3. CASE ~(Submit(i) \/ SubmitUnanswered(i))
    <3>1. UNCHANGED <<chainNonce, pool>>
      BY <1>3, <2>3 DEF Quiet, Send, FetchNonce, SubmitRefused, SubmitFails,
                        Opened, Notify, Disconnect, Finish
    <3>2. QED
      BY <1>1, <2>1, <3>1, NonceFrame, RefusesFrame
  <2>4. QED
    BY <2>2, <2>3
<1>4. CASE FetchNonce(j)
  <2> DEFINE here == {t.tx : t \in {u \in pool : u.nonce = chainNonce}}
  <2>1. /\ nonce'[j] = chainNonce /\ met'[j] = here /\ step[j] = "signing"
        /\ UNCHANGED <<chainNonce, pool, refused, raced, unanswered>>
    BY <1>4 DEF FetchNonce, TypeOK
  <2>2. here = {} => ~Refuses(chainNonce)
    <3>1. ~(chainNonce < chainNonce)
      BY DEF TypeOK, ChainTypeOK
    <3>2. ASSUME NEW t \in pool, t.nonce = chainNonce PROVE t.tx \in here
      BY <3>2
    <3>3. QED
      BY <3>1, <3>2 DEF Refuses, Pooled
  <2>3. here \subseteq Unowned
    BY <2>1, NothingOwnPooled
  <2>4. j \notin refused
    BY <1>1, <2>1 DEF NonceOK, Unsent
  <2> HIDE DEF here
  <2>5. Refuses(nonce[j])' <=> Refuses(chainNonce)
    BY <2>1 DEF Refuses, Pooled
  <2>6. Unowned' = Unowned
    BY <2>1 DEF Unowned
  <2>7. QED
    BY <2>1, <2>2, <2>3, <2>4, <2>5, <2>6 DEF NonceOK
<1>5. CASE Send(j)
  <2>1. /\ UNCHANGED <<nonce, chainNonce, pool, refused, raced, met, unanswered>>
        /\ step[j] = "preparing" /\ step'[j] = "signing"
    BY <1>5 DEF Send, historyVars, TypeOK
  <2>2. QED
    BY <1>1, <2>1, NonceFrame DEF Unsent
<1>6. CASE \/ Submit(j) \/ SubmitFails(j) \/ SubmitUnanswered(j) \/ Notify(j)
           \/ Finish(j)
  <2>1. /\ UNCHANGED <<nonce, refused, raced, met>> /\ unanswered \subseteq unanswered'
        /\ step'[j] \in {"watching", "settling", "done"}
    BY <1>6 DEF Submit, SubmitFails, SubmitUnanswered, Notify, Finish, historyVars,
                TypeOK
  <2>2. QED
    BY <1>1, <2>1, NonceFrame DEF Unsent
<1>7. CASE SubmitRefused(j)
  <2>1. /\ UNCHANGED <<nonce, raced, met, unanswered>>
        /\ step[j] = "submitting" /\ step'[j] = "settling" /\ Refuses(nonce[j])
    BY <1>7 DEF SubmitRefused, TypeOK
  <2>2. QED
    BY <1>1, <2>1 DEF NonceOK, Unsent, Unowned
<1>8. CASE Opened(j) \/ Disconnect(j)
  <2>1. UNCHANGED <<step, nonce, chainNonce, pool, refused, raced, met, unanswered>>
    BY <1>8 DEF Opened, Disconnect, historyVars, queueVars
  <2>2. QED
    BY <1>1, <2>1, NonceFrame, RefusesFrame
<1>9. CASE SubmitForeign
  <2>1. /\ UNCHANGED <<step, nonce, refused, met, unanswered>>
        /\ raced' = raced \cup {i \in Items : step[i] = "submitting"}
    BY <1>9 DEF SubmitForeign, queueVars
  <2>2. QED
    BY <1>1, <2>1 DEF NonceOK, Unowned
<1>10. ASSUME NEW t \in pool, Include(t) \/ Drop(t) PROVE NonceOK(j)'
  <2>1. UNCHANGED <<step, nonce, refused, raced, met, unanswered>>
    BY <1>10 DEF Include, Drop, queueVars, historyVars
  <2>2. Refuses(nonce[j])' => Refuses(nonce[j])
    <3>1. CASE Include(t)
      BY <1>1, <3>1, RefusesInclude, <2>1 DEF Refuses, Pooled
    <3>2. CASE Drop(t)
      BY <2>1, <3>2 DEF Drop, DropTx, Refuses, Pooled
    <3>3. QED
      BY <1>10, <3>1, <3>2
  <2>3. QED
    BY <1>1, <2>1, <2>2, NonceFrame
<1>11. CASE UNCHANGED vars
  <2>1. UNCHANGED <<step, nonce, chainNonce, pool, refused, raced, met, unanswered>>
    BY <1>11 DEF vars, queueVars, historyVars
  <2>2. QED
    BY <1>1, <2>1, NonceFrame, RefusesFrame
<1>12. QED
  BY <1>2, <1>3, <1>4, <1>5, <1>6, <1>7, <1>8, <1>9, <1>10, <1>11, StepCases
     DEF Quiet, ChainStep

\* An own extrinsic is in the pool once, and somebody watches it.
LEMMA PoolStep ==
  ASSUME TypeOK, IInv, [Next]_vars PROVE PoolInv'
<1> USE DEF IInv, PoolInv
<1>1. ASSUME NEW i \in Items, Enqueue(i) PROVE PoolInv'
  <2>1. UNCHANGED <<fate, pool, unanswered>>
    BY <1>1 DEF Enqueue, historyVars
  <2>2. \A j \in Items : step[j] = "watching" => step'[j] = "watching"
    BY <1>1, StartEffect
  <2>3. QED
    BY <2>1, <2>2 DEF TypeOK, ChainTypeOK
<1>2. ASSUME NEW i \in Items, Submit(i) \/ SubmitUnanswered(i) PROVE PoolInv'
  <2>1. fate[i] = "none" /\ i # Foreign
    BY <1>2, SequentialAssumption DEF ItemInv, Unsent, Submit, SubmitUnanswered
  <2>2. /\ pool' = pool \cup {[nonce |-> nonce[i], tx |-> i]}
        /\ fate' = [fate EXCEPT ![i] = "pooled"]
        /\ \A j \in Items : j # i => step'[j] = step[j]
        /\ unanswered \subseteq unanswered'
        /\ step'[i] = "watching" \/ i \in unanswered'
    BY <1>2 DEF Submit, SubmitUnanswered, Accept, historyVars, TypeOK
  <2>3. \A t \in pool : t.tx # i
    BY <2>1
  <2>4. QED
    BY <2>1, <2>2, <2>3 DEF TypeOK, ChainTypeOK
<1>3. ASSUME NEW i \in Items, Send(i) \/ FetchNonce(i) \/ SubmitRefused(i)
                               \/ SubmitFails(i) \/ Finish(i)
      PROVE  PoolInv'
  <2>1. /\ UNCHANGED <<fate, pool, unanswered>> /\ step[i] # "watching"
        /\ \A j \in Items : j # i => step'[j] = step[j]
    BY <1>3 DEF Send, FetchNonce, SubmitRefused, SubmitFails, Finish, historyVars, TypeOK
  <2>2. QED
    BY <2>1 DEF TypeOK, ChainTypeOK
<1>4. ASSUME NEW i \in Items, Notify(i) PROVE PoolInv'
  <2>1. /\ UNCHANGED <<fate, pool, unanswered>> /\ fate[i] # "pooled"
        /\ \A j \in Items : j # i => step'[j] = step[j]
    BY <1>4 DEF Notify, historyVars, SettlingFates, TypeOK
  <2>2. QED
    BY <2>1 DEF TypeOK, ChainTypeOK
<1>5. ASSUME NEW i \in Items, Opened(i) \/ Disconnect(i) PROVE PoolInv'
  BY <1>5 DEF Opened, Disconnect, queueVars, historyVars
<1>6. ASSUME NEW t \in pool, Include(t) PROVE PoolInv'
  <2>1. /\ UNCHANGED <<step, unanswered>> /\ pool' = pool \ {t}
        /\ \A j \in Items : j # t.tx => fate'[j] = fate[j]
    BY <1>6 DEF Include, IncludeTx, queueVars, historyVars, TypeOK
  <2>2. QED
    BY <2>1 DEF TypeOK, ChainTypeOK
<1>7. ASSUME NEW t \in pool, Drop(t) PROVE PoolInv'
  <2>1. /\ UNCHANGED <<step, unanswered>> /\ pool' = pool \ {t} /\ t.tx # Foreign
        /\ \A j \in Items : j # t.tx => fate'[j] = fate[j]
    BY <1>7 DEF Drop, DropTx, queueVars, TypeOK
  <2>2. QED
    BY <2>1 DEF TypeOK, ChainTypeOK
<1>8. CASE SubmitForeign
  <2>1. UNCHANGED <<step, unanswered, fate>>
        /\ \A t \in pool' : t \in pool \/ t.tx = Foreign
    BY <1>8 DEF SubmitForeign, Accept, queueVars
  <2>2. QED
    BY <2>1 DEF TypeOK, ChainTypeOK
<1>9. CASE UNCHANGED vars
  BY <1>9 DEF vars, queueVars, historyVars
<1>10. ASSUME Kick PROVE PoolInv'
  <2>1. UNCHANGED <<fate, pool, unanswered>>
    BY <1>10 DEF Kick, historyVars
  <2>2. \A j \in Items : step[j] = "watching" => step'[j] = "watching"
    BY <1>10, StartEffect
  <2>3. QED
    BY <2>1, <2>2 DEF TypeOK, ChainTypeOK
<1>11. QED
  BY <1>1, <1>2, <1>3, <1>4, <1>5, <1>6, <1>7, <1>8, <1>9, <1>10 DEF Next

\* ItemInv of one item.
ItemOK(i) ==
  /\ step[i] \in Unsent => verdict[i] = "none" /\ fate[i] = "none"
  /\ step[i] \in Unsent => sub[i] = "none"
  /\ step[i] = "watching" => verdict[i] = "none"
  /\ step[i] \in {"settling", "done"} => VerdictTrue(i)
  /\ SettledByStatus(i) => sub[i] # "open"
  /\ promise[i] = "unborn" <=> step[i] = "new"
  /\ promise[i] = "resolved" <=> step[i] = "done" /\ verdict[i] = "inBlock"
  /\ promise[i] = "rejected" <=> step[i] = "done" /\ verdict[i] # "inBlock"

\* An item that keeps its step, verdict, fate, subscription and promise keeps
\* ItemOK.
LEMMA ItemFrame ==
  ASSUME NEW j \in Items, ItemOK(j), step'[j] = step[j], verdict'[j] = verdict[j],
         fate'[j] = fate[j], sub'[j] = sub[j], promise'[j] = promise[j],
         j \in unanswered => j \in unanswered'
  PROVE  ItemOK(j)'
BY DEF ItemOK, VerdictTrue, SettledByStatus

\* So does an item that starts, when nothing else about it changes.
LEMMA ItemStart ==
  ASSUME TypeOK, IInv, NEW i \in Items, Kick \/ Enqueue(i), NEW j \in Items
  PROVE  ItemOK(j)'
<1>1. /\ UNCHANGED <<verdict, fate, sub, unanswered>>
      /\ Enqueue(i) => promise' = [promise EXCEPT ![i] = "pending"] /\ step[i] = "new"
      /\ ~Enqueue(i) => promise' = promise
  BY DEF Kick, Enqueue, historyVars
<1>2. ItemOK(j)
  BY DEF IInv, ItemInv, ItemOK
<1>3. CASE step[j] \notin {"new", "queued"}
  <2>1. step'[j] = step[j] /\ promise'[j] = promise[j]
    BY <1>1, <1>3, StartEffect DEF TypeOK
  <2>2. QED
    BY <1>1, <1>2, <2>1, ItemFrame
<1>4. CASE step[j] \in {"new", "queued"}
  <2>1. /\ step'[j] \in {"new", "queued", "preparing"}
        /\ step'[j] = "new" <=> step[j] = "new" /\ (Enqueue(i) => j # i)
    BY <1>4, StartEffect
  <2>2. promise[j] = "unborn" <=> step[j] = "new"
    BY <1>2 DEF ItemOK
  <2>3. /\ verdict[j] = "none" /\ fate[j] = "none" /\ sub[j] = "none"
        /\ promise[j] \notin {"resolved", "rejected"}
    BY <1>2, <1>4 DEF ItemOK, Unsent
  <2>4. promise'[j] \notin {"resolved", "rejected"}
    BY <1>1, <2>3 DEF TypeOK
  <2>5. promise'[j] = "unborn" <=> step'[j] = "new"
    BY <1>1, <2>1, <2>2 DEF TypeOK
  <2>6. QED
    BY <1>1, <2>1, <2>3, <2>4, <2>5
       DEF ItemOK, Unsent, SettledByStatus, StatusVerdicts
<1>5. QED
  BY <1>3, <1>4

\* What a settled item says about its extrinsic stays true.
LEMMA ItemStep ==
  ASSUME TypeOK, IInv, [Next]_vars, NEW j \in Items PROVE ItemOK(j)'
<1>1. ItemOK(j)
  BY DEF IInv, ItemInv, ItemOK
<1>2. ASSUME NEW i \in Items, Kick \/ Enqueue(i) PROVE ItemOK(j)'
  BY <1>2, ItemStart
<1>3. ASSUME NEW i \in Items, Quiet(i) \/ Finish(i), j # i PROVE ItemOK(j)'
  <2>1. /\ step'[j] = step[j] /\ verdict'[j] = verdict[j] /\ fate'[j] = fate[j]
        /\ sub'[j] = sub[j] /\ promise'[j] = promise[j]
        /\ j \in unanswered => j \in unanswered'
    BY <1>3 DEF Quiet, Send, FetchNonce, Submit, SubmitRefused, SubmitFails,
                SubmitUnanswered, Opened, Notify, Disconnect, Finish, queueVars,
                historyVars, TypeOK
  <2>2. QED
    BY <1>1, <2>1, ItemFrame
<1>4. CASE Send(j) \/ FetchNonce(j)
  BY <1>1, <1>4 DEF Send, FetchNonce, ItemOK, Unsent, SettledByStatus, historyVars,
                    TypeOK
<1>5. CASE Submit(j)
  BY <1>1, <1>5 DEF Submit, ItemOK, Unsent, SettledByStatus, StatusVerdicts, TypeOK
<1>6. CASE SubmitRefused(j) \/ SubmitFails(j)
  BY <1>1, <1>6 DEF SubmitRefused, SubmitFails, ItemOK, Unsent, VerdictTrue,
                    SettledByStatus, StatusVerdicts, TypeOK
<1>7. CASE SubmitUnanswered(j)
  BY <1>1, <1>7 DEF SubmitUnanswered, ItemOK, Unsent, VerdictTrue,
                    SettledByStatus, StatusVerdicts, TypeOK
<1>8. CASE Opened(j)
  BY <1>1, <1>8 DEF Opened, AfterThen, ItemOK, Unsent, VerdictTrue,
                    SettledByStatus, historyVars, TypeOK
<1>9. CASE Notify(j)
  BY <1>1, <1>9 DEF Notify, Unsub, StatusVerdict, SettlingFates, ItemOK, Unsent,
                    VerdictTrue, SettledByStatus, StatusVerdicts, historyVars, TypeOK
<1>10. CASE Disconnect(j)
  BY <1>1, <1>10, ItemFrame DEF Disconnect, queueVars
<1>11. CASE Finish(j)
  BY <1>1, <1>11 DEF Finish, ItemOK, Unsent, VerdictTrue, SettledByStatus,
                     historyVars, TypeOK
<1>12. ASSUME NEW t \in pool, Include(t) \/ Drop(t) PROVE ItemOK(j)'
  <2>1. UNCHANGED <<step, verdict, sub, promise, unanswered>>
    BY <1>12 DEF Include, Drop, queueVars, historyVars
  <2>2. CASE fate'[j] = fate[j]
    BY <1>1, <2>1, <2>2, ItemFrame
  <2>3. CASE fate'[j] # fate[j]
    <3>1. t.tx = j
      BY <1>12, <2>3 DEF Include, Drop, TypeOK
    <3>2. fate[j] = "pooled" /\ (step[j] = "watching" \/ j \in unanswered)
      BY <3>1, SequentialAssumption DEF IInv, PoolInv
    <3>3. step[j] \notin Unsent
      BY <1>1, <3>2 DEF ItemOK
    <3>4. step[j] \in {"settling", "done"} => verdict[j] = "error" /\ j \in unanswered
      BY <1>1, <3>2 DEF ItemOK, VerdictTrue, TypeOK
    <3>5. QED
      BY <1>1, <2>1, <3>3, <3>4 DEF ItemOK, VerdictTrue, SettledByStatus
  <2>4. QED
    BY <2>2, <2>3
<1>13. CASE SubmitForeign
  BY <1>1, <1>13, ItemFrame DEF SubmitForeign, queueVars
<1>14. CASE UNCHANGED vars
  BY <1>1, <1>14, ItemFrame DEF vars, queueVars, historyVars
<1>15. QED
  BY <1>2, <1>3, <1>4, <1>5, <1>6, <1>7, <1>8, <1>9, <1>10, <1>11, <1>12, <1>13,
     <1>14, StepCases DEF Quiet, ChainStep

-----------------------------------------------------------------------------
LEMMA IInvInit == Init => IInv
BY DEF Init, ChainInit, IInv, SerialInv, QueueInv, NonceInv, PoolInv, ItemInv,
       InFlight, Carrying, Unsent, SettledByStatus, StatusVerdicts

LEMMA IInvStep == TypeOK /\ IInv /\ [Next]_vars => IInv'
<1> SUFFICES ASSUME TypeOK, IInv, [Next]_vars PROVE IInv'
  OBVIOUS
<1>1. ItemInv'
  BY ItemStep DEF ItemInv, ItemOK
<1>2. NonceInv'
  BY NonceStep DEF NonceInv, NonceOK
<1>3. QED
  BY <1>1, <1>2, SerialStep, PoolStep DEF IInv

\* The invariant the others follow from.
THEOREM Inductive == Spec => []IInv
<1>1. QED
  BY IInvInit, IInvStep, TypeCorrect, PTL DEF Spec

\* No submission of the queue is refused because of another one of its own.
THEOREM NonceSafety == Spec => []NoNonceCollision
<1>1. TypeOK /\ IInv => NoNonceCollision
  <2> SUFFICES ASSUME TypeOK, IInv, NEW i \in refused, i \notin raced
               PROVE  met[i] \cap Unowned # {}
    BY DEF NoNonceCollision
  <2>1. i \in Items
    BY DEF TypeOK
  <2>2. met[i] # {} /\ met[i] \subseteq Unowned
    BY <2>1 DEF IInv, NonceInv
  <2>3. QED
    BY <2>2
<1>2. QED
  BY <1>1, TypeCorrect, Inductive, PTL

\* Only one call is under way, and it starts when the previous one is out of
\* the pool.
THEOREM Serial == Spec => []OneAtATime
<1>1. TypeOK /\ IInv => OneAtATime
  <2> SUFFICES ASSUME TypeOK, IInv PROVE OneAtATime
    OBVIOUS
  <2>1. \A i, j \in InFlight : i = j
    BY DEF IInv, SerialInv
  <2>2. QED
    BY <2>1, NothingOwnPooled DEF OneAtATime
<1>2. QED
  BY <1>1, TypeCorrect, Inductive, PTL

\* A settled promise tells what happened on the chain.
THEOREM Truthful == Spec => []OutcomeMatchesChain
<1>1. IInv => OutcomeMatchesChain
  BY DEF IInv, ItemInv, OutcomeMatchesChain, VerdictTrue
<1>2. QED
  BY <1>1, Inductive, PTL

\* No status subscription outlives the submission it belongs to.
THEOREM Unsubscribed == Spec => []NoOpenSubscriptionLeft
<1>1. IInv => NoOpenSubscriptionLeft
  BY DEF IInv, ItemInv, NoOpenSubscriptionLeft
<1>2. QED
  BY <1>1, Inductive, PTL

-----------------------------------------------------------------------------
\* PendingView, of any items under way and any queue.
View(F, q) == IF F = {} THEN q ELSE <<CHOOSE i \in F : TRUE>> \o q

\* A sequence is its first element before the others.
LEMMA ConsHeadTail ==
  ASSUME NEW S, NEW s \in Seq(S), s # <<>>
  PROVE  /\ <<Head(s)>> \o Tail(s) = s
         /\ Head(s) = s[1]
<1>1. Len(s) \in Nat \ {0} /\ s[1] \in S /\ Head(s) = s[1]
  BY HeadTailProperties, LenProperties, ElementOfSeq
<1>2. SubSeq(s, 1, Len(s)) = <<s[1]>> \o SubSeq(s, 1 + 1, Len(s))
  BY <1>1, SubSeqRecursiveFirst
<1>3. QED
  BY <1>1, <1>2, TailIsSubSeq, SubSeqFull

\* Dropping the first element gives back what it was put before.
LEMMA DropFirst ==
  ASSUME NEW S, NEW x \in S, NEW s \in Seq(S)
  PROVE  /\ SubSeq(<<x>> \o s, 2, Len(<<x>> \o s)) = s
         /\ (<<x>> \o s)[1] = x
         /\ 1 <= Len(<<x>> \o s)
<1> DEFINE c == <<x>> \o s
<1>1. /\ c \in Seq(S) /\ Len(c) = Len(s) + 1 /\ Len(s) \in Nat
      /\ c[1] = x
      /\ \A k \in 1..Len(s) : c[k + 1] = s[k]
  <2>1. <<x>> \in Seq(S) /\ Len(<<x>>) = 1
    OBVIOUS
  <2>2. QED
    BY <2>1, ConcatProperties, LenProperties
<1> HIDE DEF c
<1>2. /\ SubSeq(c, 2, Len(c)) \in Seq(S)
      /\ Len(SubSeq(c, 2, Len(c))) = Len(s)
      /\ \A k \in 1..Len(s) : SubSeq(c, 2, Len(c))[k] = c[k + 1]
  <2>1. \A k \in 2..Len(c) : c[k] \in S
    BY <1>1, ElementOfSeq
  <2>2. QED
    BY <1>1, <2>1, SubSeqProperties
<1>3. SubSeq(c, 2, Len(c)) = s
  BY <1>1, <1>2, SeqEqual
<1>4. QED
  BY <1>1, <1>3 DEF c

\* A RunOnce moves an item from the queue to its activation: the abstract
\* sequence of pending calls is the same.
LEMMA RunOnceView ==
  ASSUME TypeOK, IInv, NEW q \in Seq(Items), NEW st \in [Items -> Steps],
         \A j \in Items : st[j] \in Carrying <=> step[j] \in Carrying,
         RunOnce(q, st)
  PROVE  PendingView' = View(InFlight, q)
<1>1. CASE processing \/ q = <<>>
  <2>1. queue' = q /\ step' = st
    BY <1>1 DEF RunOnce
  <2>2. InFlight' = InFlight
    BY <2>1 DEF InFlight
  <2>3. QED
    BY <2>1, <2>2 DEF PendingView, View
<1>2. CASE ~(processing \/ q = <<>>)
  <2>1. InFlight = {}
    BY <1>2 DEF IInv, SerialInv
  <2>2. queue' = Tail(q) /\ step' = [st EXCEPT ![Head(q)] = "preparing"]
    BY <1>2 DEF RunOnce
  <2>3. Head(q) \in Items
    BY <1>2, HeadTailProperties
  <2>4. InFlight' = {Head(q)}
    BY <2>1, <2>2, <2>3 DEF InFlight, Carrying
  <2>5. PendingView' = <<Head(q)>> \o Tail(q)
    <3>1. (CHOOSE i \in InFlight' : TRUE) = Head(q)
      BY <2>4
    <3>2. QED
      BY <2>2, <2>4, <3>1 DEF PendingView
  <2>6. QED
    BY <1>2, <2>1, <2>5, ConsHeadTail DEF View
<1>3. QED
  BY <1>1, <1>2

\* A call appended to the queue is appended to the pending calls.
LEMMA ViewAppend ==
  ASSUME TypeOK, NEW i \in Items
  PROVE  View(InFlight, Append(queue, i)) = Append(PendingView, i)
<1>1. CASE InFlight = {}
  BY <1>1 DEF View, PendingView
<1>2. CASE InFlight # {}
  <2> DEFINE c == CHOOSE j \in InFlight : TRUE
  <2>1. c \in Items
    BY <1>2 DEF InFlight
  <2> HIDE DEF c
  <2>2. /\ queue \in Seq(Items) /\ <<c>> \in Seq(Items) /\ <<i>> \in Seq(Items)
        /\ <<c>> \o queue \in Seq(Items)
    BY <2>1, ConcatProperties DEF TypeOK
  <2>3. <<c>> \o Append(queue, i) = Append(<<c>> \o queue, i)
    BY <2>2, ConcatAssociative, AppendIsConcat
  <2>4. QED
    BY <1>2, <2>3 DEF View, PendingView, c
<1>3. QED
  BY <1>1, <1>2

LEMMA RefinementStep ==
  TypeOK /\ IInv /\ [Next]_vars => [Abstract!Next]_(Abstract!vars)
<1> SUFFICES ASSUME TypeOK, IInv, [Next]_vars
             PROVE  \/ \E i \in Items : Abstract!Enqueue(i)
                    \/ \E v \in Abstract!Settled : Abstract!Settle(1, v)
                    \/ PendingView' = PendingView /\ promise' = promise
  BY DEF Abstract!Next, Abstract!vars
<1>1. CASE Kick
  <2>1. PendingView' = View(InFlight, queue)
    BY <1>1, RunOnceView DEF Kick, TypeOK, Steps
  <2>2. QED
    BY <1>1, <2>1 DEF Kick, View, PendingView
<1>2. ASSUME NEW i \in Items, Enqueue(i) PROVE Abstract!Enqueue(i)
  <2> DEFINE st == [step EXCEPT ![i] = "queued"]
  <2>1. /\ Append(queue, i) \in Seq(Items) /\ st \in [Items -> Steps]
        /\ RunOnce(Append(queue, i), st)
        /\ \A j \in Items : st[j] \in Carrying <=> step[j] \in Carrying
    BY <1>2, AppendProperties DEF Enqueue, TypeOK, Steps, Carrying
  <2>2. PendingView' = Append(PendingView, i)
    <3> HIDE DEF st
    <3>1. PendingView' = View(InFlight, Append(queue, i))
      BY <2>1, RunOnceView
    <3>2. QED
      BY <3>1, ViewAppend
  <2>3. promise[i] = "unborn"
    BY <1>2 DEF IInv, ItemInv, Enqueue
  <2>4. QED
    BY <1>2, <2>2, <2>3 DEF Enqueue, Abstract!Enqueue
<1>3. ASSUME NEW i \in Items, Quiet(i)
      PROVE  PendingView' = PendingView /\ promise' = promise
  <2>1. queue' = queue /\ promise' = promise /\ InFlight' = InFlight
    BY <1>3, QuietEffect DEF InFlight
  <2>2. QED
    BY <2>1 DEF PendingView
<1>4. ASSUME NEW i \in Items, Finish(i)
      PROVE  \E v \in Abstract!Settled : Abstract!Settle(1, v)
  <2> DEFINE v == IF verdict[i] = "inBlock" THEN "resolved" ELSE "rejected"
  <2>1. InFlight = {i} /\ InFlight' = {}
    BY <1>4 DEF Finish, IInv, SerialInv, InFlight, Carrying, TypeOK
  <2>2. queue' = queue /\ promise' = [promise EXCEPT ![i] = v]
    BY <1>4 DEF Finish
  <2>3. PendingView = <<i>> \o queue /\ PendingView' = queue
    <3>1. (CHOOSE j \in InFlight : TRUE) = i
      BY <2>1
    <3>2. QED
      BY <2>1, <2>2, <3>1 DEF PendingView
  <2>4. /\ 1 <= Len(PendingView) /\ PendingView[1] = i
        /\ PendingView' = SubSeq(PendingView, 1 + 1, Len(PendingView))
    BY <2>3, DropFirst DEF TypeOK
  <2>5. promise' = [j \in Items |-> IF \E k \in 1..1 : PendingView[k] = j
                                    THEN v ELSE promise[j]]
    <3>1. \A j : (\E k \in 1..1 : PendingView[k] = j) <=> j = i
      BY <2>4
    <3>2. promise' = [j \in Items |-> IF j = i THEN v ELSE promise[j]]
      BY <2>2 DEF TypeOK
    <3>3. QED
      BY <3>1, <3>2, Zenon
  <2>6. v \in Abstract!Settled
    BY DEF Abstract!Settled
  <2>7. QED
    BY <2>4, <2>5, <2>6 DEF Abstract!Settle
<1>5. CASE ChainStep \/ UNCHANGED vars
  <2>1. UNCHANGED <<queue, step, promise>>
    BY <1>5, ChainEffect DEF queueVars, vars
  <2>2. QED
    BY <2>1 DEF PendingView, InFlight
<1>6. QED
  BY <1>1, <1>2, <1>3, <1>4, <1>5, StepCases

\* The sequential queue implements the abstract one: calls are settled in the
\* order they were enqueued, one by one, each once.
THEOREM Refinement == Spec => ImplementsSubmissionQueue
<1>1. Init => Abstract!Init
  BY DEF Init, Abstract!Init, PendingView, InFlight, Carrying
<1>2. QED
  BY <1>1, RefinementStep, TypeCorrect, Inductive, PTL
     DEF Spec, ImplementsSubmissionQueue, Abstract!Spec
=============================================================================

------------------------ MODULE ChainServiceProofs ------------------------
(***************************************************************************)
(* Proofs about ChainService for any set of services, subscribers, calls   *)
(* and calls of disconnect().                                              *)
(***************************************************************************)
EXTENDS ChainService, FiniteSetTheorems, TLAPS

\* There are finitely many queues to be made.
LEMMA CallsCount == Cardinality(Calls) \in Nat
BY OpsAssumption, FS_CardinalityType

\* A step of one operation keeps `at` well typed.
LEMMA BecomesType ==
  ASSUME TypeOK, NEW o \in Ops, NEW s \in {"idle"} \cup Waiting \cup Final, Becomes(o, s)
  PROVE  at' \in [Ops -> {"idle"} \cup Waiting \cup Final]
BY DEF TypeOK, Becomes

\* So does connect(), with the promise.
LEMMA ConnectType ==
  ASSUME TypeOK, NEW o \in Ops, Connect(o)
  PROVE  /\ at' \in [Ops -> {"idle"} \cup Waiting \cup Final]
         /\ connectPromise' \in [Services -> BOOLEAN]
         /\ ws' = ws /\ api' = api
<1>1. On[o] \in Services
  BY OpsAssumption
<1>2. (~api[On[o]]) \in BOOLEAN
  OBVIOUS
<1>3. connectPromise' \in [Services -> BOOLEAN]
  BY <1>1, <1>2 DEF Connect, TypeOK
<1>4. at' \in [Ops -> {"idle"} \cup Waiting \cup Final]
  BY DEF Connect, Becomes, TypeOK, Waiting
<1>5. QED
  BY <1>3, <1>4 DEF Connect

LEMMA TypeInit == Init => TypeOK
BY CallsCount DEF Init, TypeOK, Queues

LEMMA TypeStep == TypeOK /\ [Next]_vars => TypeOK'
<1> SUFFICES ASSUME TypeOK, [Next]_vars PROVE TypeOK'
  OBVIOUS
<1> USE CallsCount DEF connVars, eventVars, queueVars
<1>1. ASSUME NEW v \in Services, SocketOpens(v) PROVE TypeOK'
  BY <1>1 DEF SocketOpens, TypeOK
<1>2. ASSUME NEW v \in Services, ApiReady(v) PROVE TypeOK'
  <2>1. at' \in [Ops -> {"idle"} \cup Waiting \cup Final]
    BY <1>2 DEF ApiReady, TypeOK, Waiting
  <2>2. QED
    BY <1>2, <2>1 DEF ApiReady, TypeOK
<1>3. ASSUME NEW k \in Closers, Disconnected(k) PROVE TypeOK'
  <2>1. k \in Ops /\ On[k] \in Services
    BY OpsAssumption DEF Ops
  <2>2. at' \in [Ops -> {"idle"} \cup Waiting \cup Final]
    BY <1>3, <2>1, BecomesType DEF Disconnected, Final
  <2>3. QED
    BY <1>3, <2>1, <2>2 DEF Disconnected, TypeOK
<1>4. ASSUME NEW s \in Subs, OpenFeed(s) \/ FeedOpens(s) \/ FeedFails(s) PROVE TypeOK'
  <2>1. s \in Ops /\ On[s] \in Services
    BY OpsAssumption DEF Ops
  <2>2. at' \in [Ops -> {"idle"} \cup Waiting \cup Final]
    BY <1>4, <2>1, BecomesType DEF OpenFeed, FeedOpens, FeedFails, Final, Waiting
  <2>3. CASE FeedOpens(s)
    <3>1. /\ feeds' \in [Services -> SUBSET Subs]
          /\ unsubEvents' \in [Services -> Subs \cup {None}]
      BY <2>1, <2>3 DEF FeedOpens, TypeOK
    <3>2. QED
      BY <2>2, <2>3, <3>1 DEF FeedOpens, TypeOK
  <2>4. CASE OpenFeed(s) \/ FeedFails(s)
    BY <2>2, <2>4 DEF OpenFeed, FeedFails, TypeOK
  <2>5. QED
    BY <1>4, <2>3, <2>4
<1>5. ASSUME NEW c \in Calls, SignAndSend(c) PROVE TypeOK'
  <2>1. c \in Ops
    BY DEF Ops
  <2>2. at' \in [Ops -> {"idle"} \cup Waiting \cup Final]
    BY <1>5, <2>1, BecomesType DEF SignAndSend, Waiting
  <2>3. PICK q \in Queues : /\ IF On[c] \in Sharing
                               THEN q = Custom /\ UNCHANGED <<made, defaultQueue>>
                               ELSE GetDefaultQueue(q)
                            /\ fifo' = [fifo EXCEPT ![q] = Append(@, c)]
    BY <1>5 DEF SignAndSend
  <2>4. made' \in 0..Cardinality(Calls) /\ defaultQueue' \in Queues \cup {None}
    BY <2>3, OpsAssumption DEF GetDefaultQueue, Remembered, TypeOK, Queues
  <2>5. fifo' \in [Queues -> Seq(Calls)]
    BY <2>3 DEF TypeOK
  <2>6. QED
    BY <1>5, <2>2, <2>4, <2>5 DEF SignAndSend, TypeOK
<1>6. ASSUME NEW q \in Queues, Settle(q) PROVE TypeOK'
  <2>1. fifo[q] \in Seq(Calls) /\ fifo[q] # <<>>
    BY <1>6 DEF Settle, TypeOK
  <2>2. Head(fifo[q]) \in Calls /\ Tail(fifo[q]) \in Seq(Calls)
    BY <2>1
  <2>3. at' \in [Ops -> {"idle"} \cup Waiting \cup Final]
    BY <1>6, <2>2, BecomesType DEF Settle, Final, Ops
  <2>4. QED
    BY <1>6, <2>2, <2>3 DEF Settle, TypeOK
<1>7. ASSUME NEW s \in Subs, Subscribe(s) PROVE TypeOK'
  <2>1. s \in Ops /\ On[s] \in Services
    BY OpsAssumption DEF Ops
  <2>2. eventSubs' \in [Services -> SUBSET Subs]
    BY <1>7, <2>1 DEF Subscribe, TypeOK
  <2>3. CASE unsubEvents[On[s]] = None
    <3>1. Connect(s) /\ overlap' \subseteq Services
      BY <1>7, <2>1, <2>3 DEF Subscribe, TypeOK
    <3>2. QED
      BY <1>7, <2>1, <2>2, <3>1, ConnectType DEF Subscribe, TypeOK
  <2>4. CASE unsubEvents[On[s]] # None
    <3>1. Becomes(s, "subscribed") /\ UNCHANGED <<connVars, overlap>>
      BY <1>7, <2>4 DEF Subscribe
    <3>2. QED
      BY <1>7, <2>1, <2>2, <3>1, BecomesType DEF Subscribe, TypeOK, Final
  <2>5. QED
    BY <2>3, <2>4
<1>8. ASSUME NEW s \in Subs, Unsubscribe(s) PROVE TypeOK'
  <2>1. s \in Ops /\ On[s] \in Services
    BY OpsAssumption DEF Ops
  <2>2. at' \in [Ops -> {"idle"} \cup Waiting \cup Final]
    BY <1>8, <2>1, BecomesType DEF Unsubscribe, Final
  <2>3. eventSubs' \in [Services -> SUBSET Subs] /\ feeds' \in [Services -> SUBSET Subs]
    BY <1>8, <2>1 DEF Unsubscribe, TypeOK
  <2>4. unsubEvents' \in [Services -> Subs \cup {None}]
    BY <1>8, <2>1 DEF Unsubscribe, AfterUnsub, TypeOK
  <2>5. QED
    BY <1>8, <2>2, <2>3, <2>4 DEF Unsubscribe, TypeOK
<1>9. ASSUME NEW c \in Calls, Submit(c) PROVE TypeOK'
  BY <1>9, ConnectType DEF Submit, TypeOK, Ops
<1>10. ASSUME NEW k \in Closers, Disconnect(k) PROVE TypeOK'
  <2>1. k \in Ops /\ On[k] \in Services
    BY OpsAssumption DEF Ops
  <2>2. at' \in [Ops -> {"idle"} \cup Waiting \cup Final]
    BY <1>10, <2>1, BecomesType DEF Disconnect, Final, Waiting
  <2>3. ws' \in [Services -> {"dialling", "open", "closed"}]
    BY <1>10, <2>1 DEF Disconnect, TypeOK
  <2>4. feeds' \in [Services -> SUBSET Subs]
    BY <1>10, <2>1 DEF Disconnect, TypeOK
  <2>5. QED
    BY <1>10, <2>2, <2>3, <2>4 DEF Disconnect, TypeOK
<1>11. CASE SetDefaultQueue
  BY <1>11 DEF SetDefaultQueue, TypeOK, Queues
<1>12. CASE UNCHANGED vars
  BY <1>12 DEF vars, TypeOK
<1>13. QED
  BY <1>1, <1>2, <1>3, <1>4, <1>5, <1>6, <1>7, <1>8, <1>9, <1>10, <1>11, <1>12
     DEF Next, Progress

\* Every reachable state is well typed.
THEOREM TypeCorrect == Spec => []TypeOK
BY TypeInit, TypeStep, PTL DEF Spec

-----------------------------------------------------------------------------
(* One queue of the registry                                                 *)

\* The registry makes its queue once, before anything else is installed, and
\* only that one and the application's have calls.
RegistryInv ==
  /\ defaultQueue \in {None, Custom, 1}
  /\ defaultQueue = None => made = 0
  /\ \A q \in Queues : fifo[q] # <<>> => q \in {Custom, 1}

\* Only three steps change the queues.
LEMMA QueueCases ==
  [Next]_vars => \/ UNCHANGED queueVars
                 \/ SetDefaultQueue
                 \/ \E c \in Calls : SignAndSend(c)
                 \/ \E q \in Queues : Settle(q)
<1> USE DEF connVars, eventVars, queueVars
<1>1. ASSUME NEW s \in Subs, Subscribe(s) \/ Unsubscribe(s) PROVE UNCHANGED queueVars
  BY <1>1 DEF Subscribe, Unsubscribe
<1>2. ASSUME NEW s \in Subs, OpenFeed(s) \/ FeedOpens(s) \/ FeedFails(s)
      PROVE  UNCHANGED queueVars
  BY <1>2 DEF OpenFeed, FeedOpens, FeedFails
<1>3. ASSUME NEW k \in Closers, Disconnect(k) \/ Disconnected(k) PROVE UNCHANGED queueVars
  BY <1>3 DEF Disconnect, Disconnected
<1>4. ASSUME NEW v \in Services, SocketOpens(v) \/ ApiReady(v) PROVE UNCHANGED queueVars
  BY <1>4 DEF SocketOpens, ApiReady
<1>5. ASSUME NEW c \in Calls, Submit(c) PROVE UNCHANGED queueVars
  BY <1>5 DEF Submit
<1>6. CASE UNCHANGED vars
  BY <1>6 DEF vars
<1>7. QED
  BY <1>1, <1>2, <1>3, <1>4, <1>5, <1>6 DEF Next, Progress

LEMMA RegistryInit == Init => RegistryInv
BY DEF Init, RegistryInv

LEMMA RegistryStep == TypeOK /\ RegistryInv /\ [Next]_vars => RegistryInv'
<1> SUFFICES ASSUME TypeOK, RegistryInv, [Next]_vars PROVE RegistryInv'
  OBVIOUS
<1> USE CallsCount
<1>1. CASE UNCHANGED queueVars
  BY <1>1 DEF queueVars, RegistryInv
<1>2. CASE SetDefaultQueue
  BY <1>2, OpsAssumption DEF SetDefaultQueue, RegistryInv
<1>3. ASSUME NEW c \in Calls, SignAndSend(c) PROVE RegistryInv'
  <2>1. PICK q \in Queues : /\ IF On[c] \in Sharing
                               THEN q = Custom /\ UNCHANGED <<made, defaultQueue>>
                               ELSE GetDefaultQueue(q)
                            /\ fifo' = [fifo EXCEPT ![q] = Append(@, c)]
    BY <1>3 DEF SignAndSend
  <2>2. \A r \in Queues : r # q => fifo'[r] = fifo[r]
    BY <2>1 DEF TypeOK
  <2>3. CASE On[c] \in Sharing
    BY <2>1, <2>2, <2>3 DEF RegistryInv
  <2>4. CASE On[c] \notin Sharing
    <3>1. GetDefaultQueue(q)
      BY <2>1, <2>4
    <3>2. q \in {Custom, 1} /\ defaultQueue' \in {Custom, 1}
      BY <3>1 DEF GetDefaultQueue, Remembered, RegistryInv
    <3>3. defaultQueue' # None
      BY <3>2, OpsAssumption
    <3>4. QED
      BY <2>2, <3>2, <3>3 DEF RegistryInv
  <2>5. QED
    BY <2>3, <2>4
<1>4. ASSUME NEW q \in Queues, Settle(q) PROVE RegistryInv'
  <2>1. \A r \in Queues : fifo'[r] # <<>> => fifo[r] # <<>>
    BY <1>4 DEF Settle, TypeOK
  <2>2. QED
    BY <1>4, <2>1 DEF Settle, RegistryInv
<1>5. QED
  BY <1>1, <1>2, <1>3, <1>4, QueueCases

\* Two queues never have calls of the account at once, unless one of them is
\* the application's own: getDefaultQueue() makes a single queue
\* (tx-queue.ts:408).
THEOREM SingleAuthority == Spec => []OneAuthority
<1>1. RegistryInv => OneAuthority
  BY DEF RegistryInv, OneAuthority
<1>2. QED
  BY <1>1, TypeInit, TypeStep, RegistryInit, RegistryStep, PTL DEF Spec

-----------------------------------------------------------------------------
(* The events of the chain                                                   *)

\* Whose entry is in eventSubs, or stayed there.
HasEntry(s) == at[s] \in {"connecting", "connected", "opening", "subscribed", "failed"}

\* At service v: who is subscribed, or on the way to it, has an entry; who is
\* subscribed has a feed to be called by, the one that can be closed, which is
\* open until disconnect(); and there is no feed without entries. Without an
\* overlap there is no other feed, and none on the way while one is open.
FeedInvAt(v) ==
  /\ First(v) \subseteq eventSubs[v]
  /\ \A s \in eventSubs[v] : On[s] = v /\ HasEntry(s)
  /\ \A s \in Subs : On[s] = v /\ at[s] = "subscribed" =>
       s \in eventSubs[v] /\ unsubEvents[v] # None
  /\ unsubEvents[v] # None => /\ eventSubs[v] # {}
                              /\ ws[v] # "closed" => unsubEvents[v] \in feeds[v]
  /\ v \notin overlap =>
       /\ feeds[v] \subseteq {unsubEvents[v]} \ {None}
       /\ unsubEvents[v] # None => First(v) = {}
       /\ \A s, t \in First(v) : s = t

FeedInv == \A v \in Services : FeedInvAt(v)

LEMMA FeedInit == Init => FeedInv
<1> SUFFICES ASSUME Init, NEW v \in Services PROVE FeedInvAt(v)
  BY DEF FeedInv
<1>1. \A s \in Subs : at[s] = "idle"
  BY DEF Init, Ops
<1>2. First(v) = {}
  BY <1>1 DEF First
<1>3. eventSubs[v] = {} /\ unsubEvents[v] = None /\ feeds[v] = {}
  BY DEF Init
<1>4. QED
  BY <1>1, <1>2, <1>3 DEF FeedInvAt

\* A step that leaves the subscriptions alone, and neither starts nor ends a
\* first one, at service v.
LEMMA FeedFrame ==
  ASSUME TypeOK, NEW v \in Services, FeedInvAt(v),
         eventSubs'[v] = eventSubs[v], unsubEvents'[v] = unsubEvents[v],
         v \in overlap' <=> v \in overlap,
         feeds'[v] = feeds[v] \/ (feeds'[v] = {} /\ ws'[v] = "closed"),
         ws'[v] # "closed" => ws[v] # "closed",
         \A s \in Subs : On[s] = v =>
           /\ at'[s] = "subscribed" => at[s] = "subscribed"
           /\ at'[s] \in {"connecting", "connected", "opening"} =>
                at[s] \in {"connecting", "connected", "opening"}
           /\ HasEntry(s) => HasEntry(s)'
  PROVE  FeedInvAt(v)'
<1>1. First(v)' \subseteq First(v)
  BY DEF First
<1>2. (First(v) \subseteq eventSubs[v])'
  BY <1>1 DEF FeedInvAt
<1>3. ASSUME NEW s \in Subs, On[s] = v, at'[s] = "subscribed"
      PROVE  s \in eventSubs'[v] /\ unsubEvents'[v] # None
  BY <1>3 DEF FeedInvAt
<1>4. ASSUME unsubEvents'[v] # None
      PROVE  /\ eventSubs'[v] # {}
             /\ ws'[v] # "closed" => unsubEvents'[v] \in feeds'[v]
  BY <1>4 DEF FeedInvAt
<1>5. ASSUME v \notin overlap'
      PROVE  /\ feeds'[v] \subseteq {unsubEvents'[v]} \ {None}
             /\ unsubEvents'[v] # None => First(v)' = {}
             /\ \A s, t \in First(v)' : s = t
  <2>1. v \notin overlap
    BY <1>5
  <2>2. QED
    BY <1>1, <2>1 DEF FeedInvAt
<1>6. \A s \in eventSubs'[v] : On[s] = v /\ HasEntry(s)'
  BY DEF FeedInvAt, TypeOK
<1>7. QED
  BY <1>2, <1>3, <1>4, <1>5, <1>6 DEF FeedInvAt

\* subscribeToEvent() at its service: one more entry, and a first
\* subscription if there is no feed.
LEMMA SubscribeStep ==
  ASSUME TypeOK, NEW v \in Services, FeedInvAt(v),
         NEW s \in Subs, On[s] = v, Subscribe(s)
  PROVE  FeedInvAt(v)'
<1>1. /\ s \in Ops /\ at[s] = "idle"
      /\ eventSubs'[v] = eventSubs[v] \cup {s}
      /\ unsubEvents'[v] = unsubEvents[v] /\ feeds'[v] = feeds[v]
  BY DEF Subscribe, TypeOK, Ops
<1>2. s \notin First(v)
  BY <1>1 DEF First
<1>3. CASE unsubEvents[v] = None
  <2>1. /\ Connect(s)
        /\ overlap' = IF First(v) = {} THEN overlap ELSE overlap \cup {v}
    BY <1>3 DEF Subscribe
  <2>2. /\ at'[s] \in {"connected", "connecting"}
        /\ \A t \in Ops \ {s} : at'[t] = at[t]
    BY <1>1, <2>1 DEF Connect, Becomes, TypeOK
  <2>3. First(v)' = First(v) \cup {s}
    BY <2>2 DEF First, Ops
  <2>4. \A t \in Subs : at'[t] = "subscribed" => at[t] = "subscribed"
    BY <2>2 DEF Ops
  <2>5. v \notin overlap' => v \notin overlap /\ First(v) = {}
    BY <2>1
  <2>6. \A t \in eventSubs'[v] : On[t] = v /\ HasEntry(t)'
    BY <1>1, <2>2 DEF FeedInvAt, HasEntry, TypeOK, Ops
  <2>7. QED
    BY <1>1, <1>3, <2>3, <2>4, <2>5, <2>6 DEF FeedInvAt
<1>4. CASE unsubEvents[v] # None
  <2>1. Becomes(s, "subscribed") /\ UNCHANGED <<connVars, overlap>>
    BY <1>4 DEF Subscribe
  <2>2. /\ at'[s] = "subscribed" /\ ws' = ws
        /\ \A t \in Ops \ {s} : at'[t] = at[t]
    BY <1>1, <2>1 DEF Becomes, TypeOK, connVars
  <2>3. First(v)' = First(v)
    BY <1>2, <2>2 DEF First, Ops
  <2>4. \A t \in Subs \ {s} : at'[t] = at[t]
    BY <2>2 DEF Ops
  <2>5. \A t \in eventSubs'[v] : On[t] = v /\ HasEntry(t)'
    BY <1>1, <2>2 DEF FeedInvAt, HasEntry, TypeOK, Ops
  <2>6. QED
    BY <1>1, <1>4, <2>1, <2>2, <2>3, <2>4, <2>5 DEF FeedInvAt
<1>5. QED
  BY <1>3, <1>4

\* events() resolves at its service: the feed it opens is the one to close.
LEMMA FeedOpensStep ==
  ASSUME TypeOK, NEW v \in Services, FeedInvAt(v),
         NEW s \in Subs, On[s] = v, FeedOpens(s)
  PROVE  FeedInvAt(v)'
<1>1. /\ s \in Ops /\ at[s] = "opening" /\ s # None
      /\ eventSubs'[v] = eventSubs[v] /\ unsubEvents'[v] = s
      /\ feeds'[v] = feeds[v] \cup {s} /\ overlap' = overlap
  BY OpsAssumption DEF FeedOpens, TypeOK, Ops
<1>2. at'[s] = "subscribed" /\ \A t \in Subs \ {s} : at'[t] = at[t]
  BY <1>1 DEF FeedOpens, Becomes, TypeOK, Ops
<1>3. s \in First(v) /\ First(v)' = First(v) \ {s}
  BY <1>1, <1>2 DEF First
<1>4. s \in eventSubs[v]
  BY <1>3 DEF FeedInvAt
<1>5. ASSUME v \notin overlap PROVE feeds[v] = {} /\ First(v)' = {}
  <2>1. unsubEvents[v] = None
    BY <1>3, <1>5 DEF FeedInvAt
  <2>2. feeds[v] \subseteq {None} \ {None}
    BY <1>5, <2>1 DEF FeedInvAt
  <2>3. \A t \in First(v) : t = s
    BY <1>3, <1>5 DEF FeedInvAt
  <2>4. QED
    BY <1>3, <2>2, <2>3
<1>6. \A t \in Subs : On[t] = v /\ at'[t] = "subscribed" => t \in eventSubs[v]
  BY <1>2, <1>4 DEF FeedInvAt
<1>7. First(v)' \subseteq eventSubs[v]
  BY <1>3 DEF FeedInvAt
<1>8. \A t \in eventSubs'[v] : On[t] = v /\ HasEntry(t)'
  BY <1>1, <1>2 DEF FeedInvAt, HasEntry, TypeOK
<1>9. QED
  BY <1>1, <1>3, <1>4, <1>5, <1>6, <1>7, <1>8 DEF FeedInvAt

\* The last subscriber to leave closes the feed.
LEMMA UnsubscribeStep ==
  ASSUME TypeOK, NEW v \in Services, FeedInvAt(v),
         NEW s \in Subs, On[s] = v, Unsubscribe(s)
  PROVE  FeedInvAt(v)'
<1>1. /\ at[s] = "subscribed" /\ ws' = ws /\ overlap' = overlap
      /\ eventSubs'[v] = eventSubs[v] \ {s}
  BY DEF Unsubscribe, TypeOK, connVars
<1>2. s \in eventSubs[v] /\ unsubEvents[v] # None
  BY <1>1 DEF FeedInvAt
<1>3. at'[s] = "off" /\ \A t \in Subs \ {s} : at'[t] = at[t]
  BY DEF Unsubscribe, Becomes, TypeOK, Ops
<1>4. s \notin First(v) /\ First(v)' = First(v)
  BY <1>1, <1>3 DEF First
<1>5. First(v)' \subseteq eventSubs'[v]
  BY <1>1, <1>4 DEF FeedInvAt
<1>6. \A t \in eventSubs'[v] : On[t] = v /\ HasEntry(t)'
  BY <1>1, <1>3 DEF FeedInvAt, HasEntry, TypeOK
<1>7. CASE eventSubs[v] = {s}
  <2>1. unsubEvents'[v] = None /\ feeds'[v] = feeds[v] \ {unsubEvents[v]}
    BY <1>2, <1>7 DEF Unsubscribe, AfterUnsub, TypeOK
  <2>2. \A t \in Subs : On[t] = v => at'[t] # "subscribed"
    BY <1>3, <1>7 DEF FeedInvAt
  <2>3. First(v)' = {}
    BY <1>1, <1>5, <1>7
  <2>4. QED
    BY <1>1, <1>6, <2>1, <2>2, <2>3 DEF FeedInvAt
<1>8. CASE eventSubs[v] # {s}
  <2>1. unsubEvents'[v] = unsubEvents[v] /\ feeds'[v] = feeds[v]
    BY <1>8 DEF Unsubscribe, TypeOK
  <2>2. eventSubs'[v] # {}
    BY <1>1, <1>2, <1>8
  <2>3. \A t \in Subs : On[t] = v /\ at'[t] = "subscribed" => t \in eventSubs'[v]
    BY <1>1, <1>3 DEF FeedInvAt
  <2>4. QED
    BY <1>1, <1>2, <1>4, <1>5, <1>6, <2>1, <2>2, <2>3 DEF FeedInvAt
<1>9. QED
  BY <1>7, <1>8

\* An operation that is no subscription, or one of another service, moves.
LEMMA OtherMoves ==
  ASSUME TypeOK, NEW v \in Services, FeedInvAt(v), UNCHANGED eventVars,
         NEW o \in Ops, NEW x \in {"idle"} \cup Waiting \cup Final, Becomes(o, x),
         o \notin Subs \/ On[o] # v \/ x = "failed" \/ (at[o] = "connected" /\ x = "opening"),
         ws' = ws
  PROVE  FeedInvAt(v)'
<1>1. \A t \in Ops \ {o} : at'[t] = at[t]
  BY DEF Becomes, TypeOK
<1>2. at'[o] = x
  BY DEF Becomes, TypeOK
<1>3. \A s \in Subs : On[s] = v =>
        /\ at'[s] = "subscribed" => at[s] = "subscribed"
        /\ at'[s] \in {"connecting", "connected", "opening"} =>
             at[s] \in {"connecting", "connected", "opening"}
        /\ HasEntry(s) => HasEntry(s)'
  BY <1>1, <1>2 DEF Ops, HasEntry
<1>4. QED
  BY <1>3, FeedFrame DEF eventVars

LEMMA FeedStep == TypeOK /\ FeedInv /\ [Next]_vars => FeedInv'
<1> SUFFICES ASSUME TypeOK, FeedInv, [Next]_vars, NEW v \in Services PROVE FeedInvAt(v)'
  BY DEF FeedInv
<1>0. FeedInvAt(v)
  BY DEF FeedInv
<1>1. ASSUME NEW u \in Services, SocketOpens(u) PROVE FeedInvAt(v)'
  <2>1. at' = at /\ UNCHANGED eventVars /\ (ws'[v] # "closed" => ws[v] # "closed")
    BY <1>1 DEF SocketOpens, TypeOK
  <2>2. QED
    BY <1>0, <2>1, FeedFrame DEF eventVars, HasEntry
<1>2. ASSUME NEW u \in Services, ApiReady(u) PROVE FeedInvAt(v)'
  <2>1. \A o \in Ops : at'[o] = at[o] \/ (at[o] = "connecting" /\ at'[o] = "connected")
    BY <1>2 DEF ApiReady, Woken
  <2>2. \A s \in Subs : /\ at'[s] = "subscribed" => at[s] = "subscribed"
                        /\ at'[s] \in {"connecting", "connected", "opening"} =>
                             at[s] \in {"connecting", "connected", "opening"}
                        /\ HasEntry(s) => HasEntry(s)'
    BY <2>1 DEF Ops, HasEntry
  <2>3. UNCHANGED <<eventVars, ws>>
    BY <1>2 DEF ApiReady
  <2>4. QED
    BY <1>0, <2>2, <2>3, FeedFrame DEF eventVars
<1>3. ASSUME NEW k \in Closers, Disconnected(k) PROVE FeedInvAt(v)'
  <2>1. k \in Ops /\ k \notin Subs
    BY OpsAssumption DEF Ops
  <2>2. Becomes(k, "closed") /\ UNCHANGED <<eventVars, ws>>
    BY <1>3 DEF Disconnected
  <2>3. QED
    BY <1>0, <2>1, <2>2, OtherMoves DEF Final
<1>4. ASSUME NEW s \in Subs, OpenFeed(s) \/ FeedFails(s) PROVE FeedInvAt(v)'
  <2>1. UNCHANGED <<eventVars, ws>>
    BY <1>4 DEF OpenFeed, FeedFails, connVars
  <2>2. CASE OpenFeed(s)
    BY <1>0, <2>1, <2>2, OtherMoves DEF OpenFeed, Waiting, Ops
  <2>3. CASE FeedFails(s)
    BY <1>0, <2>1, <2>3, OtherMoves DEF FeedFails, Final, Ops
  <2>4. QED
    BY <1>4, <2>2, <2>3
<1>5. ASSUME NEW c \in Calls, SignAndSend(c) PROVE FeedInvAt(v)'
  <2>1. c \in Ops /\ c \notin Subs
    BY OpsAssumption DEF Ops
  <2>2. Becomes(c, "queued") /\ UNCHANGED <<eventVars, ws>>
    BY <1>5 DEF SignAndSend, connVars
  <2>3. QED
    BY <1>0, <2>1, <2>2, OtherMoves DEF Waiting
<1>6. ASSUME NEW q \in Queues, Settle(q) PROVE FeedInvAt(v)'
  <2>1. fifo[q] \in Seq(Calls) /\ fifo[q] # <<>>
    BY <1>6 DEF Settle, TypeOK
  <2>2. Head(fifo[q]) \in Ops /\ Head(fifo[q]) \notin Subs
    BY <2>1, OpsAssumption DEF Ops
  <2>3. Becomes(Head(fifo[q]), "settled") /\ UNCHANGED <<eventVars, ws>>
    BY <1>6 DEF Settle, connVars
  <2>4. QED
    BY <1>0, <2>2, <2>3, OtherMoves DEF Final
<1>7. ASSUME NEW c \in Calls, Submit(c) PROVE FeedInvAt(v)'
  <2>1. c \in Ops /\ c \notin Subs
    BY OpsAssumption DEF Ops
  <2>2. UNCHANGED <<eventVars, ws>>
    BY <1>7 DEF Submit, Connect
  <2>3. Becomes(c, "connected") \/ Becomes(c, "connecting")
    BY <1>7 DEF Submit, Connect
  <2>4. QED
    BY <1>0, <2>1, <2>2, <2>3, OtherMoves DEF Waiting
<1>8. ASSUME NEW k \in Closers, Disconnect(k) PROVE FeedInvAt(v)'
  <2>1. k \in Ops /\ k \notin Subs /\ On[k] \in Services
    BY OpsAssumption DEF Ops
  <2>2. \A s \in Subs : at'[s] = at[s]
    BY <1>8, <2>1 DEF Disconnect, Becomes, TypeOK, Ops
  <2>3. /\ feeds'[v] = feeds[v] \/ (feeds'[v] = {} /\ ws'[v] = "closed")
        /\ ws'[v] # "closed" => ws[v] # "closed"
    BY <1>8, <2>1 DEF Disconnect, TypeOK
  <2>4. UNCHANGED <<eventSubs, unsubEvents, overlap>>
    BY <1>8 DEF Disconnect
  <2>5. QED
    BY <1>0, <2>2, <2>3, <2>4, FeedFrame DEF HasEntry
<1>9. ASSUME NEW s \in Subs, On[s] # v, Subscribe(s) \/ FeedOpens(s) \/ Unsubscribe(s)
      PROVE  FeedInvAt(v)'
  <2>1. On[s] \in Services /\ s \in Ops
    BY OpsAssumption DEF Ops
  <2>2. \A t \in Subs : On[t] = v => at'[t] = at[t]
    BY <1>9, <2>1 DEF Subscribe, FeedOpens, Unsubscribe, Connect, Becomes, TypeOK, Ops
  <2>3. eventSubs'[v] = eventSubs[v]
    BY <1>9, <2>1 DEF Subscribe, FeedOpens, Unsubscribe, TypeOK
  <2>4. unsubEvents'[v] = unsubEvents[v] /\ feeds'[v] = feeds[v]
    BY <1>9, <2>1 DEF Subscribe, FeedOpens, Unsubscribe, TypeOK
  <2>5. ws' = ws /\ (v \in overlap' <=> v \in overlap)
    BY <1>9, <2>1 DEF Subscribe, FeedOpens, Unsubscribe, Connect, connVars
  <2>6. QED
    BY <1>0, <2>2, <2>3, <2>4, <2>5, FeedFrame DEF HasEntry
<1>10. ASSUME NEW s \in Subs, On[s] = v, Subscribe(s) \/ FeedOpens(s) \/ Unsubscribe(s)
       PROVE  FeedInvAt(v)'
  BY <1>0, <1>10, SubscribeStep, FeedOpensStep, UnsubscribeStep
<1>11. CASE SetDefaultQueue \/ UNCHANGED vars
  <2>1. UNCHANGED <<eventVars, ws, at>>
    BY <1>11 DEF SetDefaultQueue, vars, connVars
  <2>2. QED
    BY <1>0, <2>1, FeedFrame DEF eventVars, HasEntry
<1>12. QED
  BY <1>1, <1>2, <1>3, <1>4, <1>5, <1>6, <1>7, <1>8, <1>9, <1>10, <1>11 DEF Next, Progress

\* Whoever is subscribed hears each event, once where first subscriptions did
\* not overlap; and there the service is subscribed to the events only while
\* one of them is, or an entry of a failed call stays (acurast-service.ts:123-147),
\* however many there are.
THEOREM FeedsServed == Spec => []FeedServes
<1>1. TypeOK /\ FeedInv => FeedServes
  <2> SUFFICES ASSUME TypeOK, FeedInv, NEW v \in Services, ws[v] # "closed"
               PROVE  /\ (\E s \in Subs : On[s] = v /\ at[s] = "subscribed") => feeds[v] # {}
                      /\ v \notin overlap =>
                           /\ Cardinality(feeds[v]) <= 1
                           /\ feeds[v] # {} =>
                                \E s \in Subs : On[s] = v /\ at[s] \in {"subscribed", "failed"}
    BY DEF FeedServes
  <2>1. FeedInvAt(v)
    BY DEF FeedInv
  <2>2. (\E s \in Subs : On[s] = v /\ at[s] = "subscribed") => feeds[v] # {}
    BY <2>1 DEF FeedInvAt
  <2>3. ASSUME v \notin overlap PROVE Cardinality(feeds[v]) <= 1
    <3>1. feeds[v] \subseteq {unsubEvents[v]}
      BY <2>1, <2>3 DEF FeedInvAt
    <3>2. IsFiniteSet({unsubEvents[v]}) /\ Cardinality({unsubEvents[v]}) = 1
      BY FS_Singleton
    <3>3. QED
      BY <3>1, <3>2, FS_Subset
  <2>4. ASSUME v \notin overlap, feeds[v] # {}
        PROVE  \E s \in Subs : On[s] = v /\ at[s] \in {"subscribed", "failed"}
    <3>1. unsubEvents[v] # None /\ First(v) = {} /\ eventSubs[v] # {}
      BY <2>1, <2>4 DEF FeedInvAt
    <3>2. PICK s \in eventSubs[v] : On[s] = v /\ HasEntry(s)
      BY <2>1, <3>1 DEF FeedInvAt
    <3>3. s \in Subs /\ s \notin First(v)
      BY <3>1 DEF TypeOK
    <3>4. QED
      BY <3>2, <3>3 DEF First, HasEntry
  <2>5. QED
    BY <2>2, <2>3, <2>4
<1>2. QED
  BY <1>1, TypeInit, TypeStep, FeedInit, FeedStep, PTL DEF Spec
=============================================================================

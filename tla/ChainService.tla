---------------------------- MODULE ChainService ----------------------------
(***************************************************************************)
(* AcurastService (acurast-service.ts), several of them in one process:    *)
(* the connection each shares among its callers, the one subscription to   *)
(* the chain's events behind its subscribers, and the registry of default  *)
(* queues (tx-queue.ts:392) through which their calls meet. One account.   *)
(***************************************************************************)
EXTENDS Naturals, FiniteSets, Sequences

CONSTANTS Services,
          Subs,      \* calls of subscribeToEvent()
          Calls,     \* setEnvironment(s)(), deregisterJob(): one submission each
          Closers,   \* calls of disconnect()
          On,        \* the service of each of them
          Sharing,   \* services whose `queue` is set, to Custom
          Custom,    \* a queue the application made, with an api that stays up
          None

Ops == Subs \cup Calls \cup Closers

ASSUME OpsAssumption == /\ On \in [Ops -> Services]
                        /\ Sharing \subseteq Services
                        /\ Subs \cap Calls = {} /\ Subs \cap Closers = {} /\ Calls \cap Closers = {}
                        /\ IsFiniteSet(Calls) /\ None \notin Subs
                        /\ Custom \notin Nat /\ None \notin Nat \cup {Custom}

VARIABLES
  ws,             \* wsProvider's socket
  api,            \* this.api is set
  connectPromise, \* this.connectPromise is set
  eventSubs, unsubEvents,
  feeds,          \* event subscriptions the node serves, by the call that opened them
  at,             \* where each operation is
  overlap,        \* history: services with two first subscriptions at once
  defaultQueue,   \* the registry's entry for the account
  made,           \* queues getDefaultQueue() has made
  fifo            \* the unsettled calls of each queue; the first is submitted

connVars == <<ws, api, connectPromise>>
eventVars == <<eventSubs, unsubEvents, feeds, overlap>>
queueVars == <<defaultQueue, made, fifo>>
vars == <<connVars, eventVars, at, queueVars>>

Queues == {Custom} \cup 1..Cardinality(Calls)
Waiting == {"connecting", "connected", "opening", "queued", "closing"}
Final == {"subscribed", "off", "failed", "settled", "closed"}

TypeOK ==
  /\ ws \in [Services -> {"dialling", "open", "closed"}]
  /\ api \in [Services -> BOOLEAN] /\ connectPromise \in [Services -> BOOLEAN]
  /\ eventSubs \in [Services -> SUBSET Subs]
  /\ unsubEvents \in [Services -> Subs \cup {None}]
  /\ feeds \in [Services -> SUBSET Subs]
  /\ at \in [Ops -> {"idle"} \cup Waiting \cup Final]
  /\ overlap \subseteq Services
  /\ defaultQueue \in Queues \cup {None}
  /\ made \in 0..Cardinality(Calls)
  /\ fifo \in [Queues -> Seq(Calls)]

Init ==
  /\ ws = [v \in Services |-> "dialling"]   \* WsProvider dials when constructed
  /\ api = [v \in Services |-> FALSE] /\ connectPromise = [v \in Services |-> FALSE]
  /\ eventSubs = [v \in Services |-> {}]
  /\ unsubEvents = [v \in Services |-> None]
  /\ feeds = [v \in Services |-> {}]
  /\ at = [o \in Ops |-> "idle"]
  /\ overlap = {}
  /\ defaultQueue = None /\ made = 0 /\ fifo = [q \in Queues |-> <<>>]

Becomes(o, s) == at' = [at EXCEPT ![o] = s]

-----------------------------------------------------------------------------
(* connect() and disconnect()                                                *)

\* connect() for operation o, up to its await: the api if there is one, else
\* the promise, made by the first to ask. It never rejects.
Connect(o) ==
  /\ Becomes(o, IF api[On[o]] THEN "connected" ELSE "connecting")
  /\ connectPromise' = [connectPromise EXCEPT ![On[o]] = ~api[On[o]]]
  /\ UNCHANGED <<ws, api>>

\* The provider comes up. After disconnect() it does not dial again.
SocketOpens(v) ==
  /\ ws[v] = "dialling"
  /\ ws' = [ws EXCEPT ![v] = "open"]
  /\ UNCHANGED <<api, connectPromise, eventVars, at, queueVars>>

\* Mutant: only the operation that made the promise waits for it.
WokenOne(v) == {CHOOSE o \in Ops : On[o] = v /\ at[o] = "connecting"}

\* The operations that share the promise.
Woken(v) == {o \in Ops : On[o] = v /\ at[o] = "connecting"}

\* ApiPromise.create() is ready.
ApiReady(v) ==
  /\ connectPromise[v] /\ ws[v] = "open"
  /\ api' = [api EXCEPT ![v] = TRUE]
  /\ connectPromise' = [connectPromise EXCEPT ![v] = FALSE]
  /\ at' = [o \in Ops |-> IF o \in Woken(v) THEN "connected" ELSE at[o]]
  /\ UNCHANGED <<ws, eventVars, queueVars>>

\* disconnect(). Without an api it does nothing, also while connect() is under
\* way. unsubEvents stays set.
Disconnect(k) ==
  LET v == On[k] IN
  /\ at[k] = "idle"
  /\ Becomes(k, IF api[v] THEN "closing" ELSE "closed")
  /\ ws' = IF api[v] THEN [ws EXCEPT ![v] = "closed"] ELSE ws
  /\ feeds' = IF api[v] THEN [feeds EXCEPT ![v] = {}] ELSE feeds
  /\ UNCHANGED <<api, connectPromise, eventSubs, unsubEvents, overlap, queueVars>>

Disconnected(k) ==
  /\ at[k] = "closing"
  /\ Becomes(k, "closed")
  /\ api' = [api EXCEPT ![On[k]] = FALSE]
  /\ UNCHANGED <<ws, connectPromise, eventVars, queueVars>>

-----------------------------------------------------------------------------
(* subscribeToEvent()                                                        *)

\* First subscriptions under way at a service.
First(v) == {s \in Subs : On[s] = v /\ at[s] \in {"connecting", "connected", "opening"}}

Subscribe(s) ==
  LET v == On[s] IN
  /\ at[s] = "idle"
  /\ eventSubs' = [eventSubs EXCEPT ![v] = @ \cup {s}]
  /\ IF unsubEvents[v] = None
     THEN /\ Connect(s)
          /\ overlap' = IF First(v) = {} THEN overlap ELSE overlap \cup {v}
     ELSE Becomes(s, "subscribed") /\ UNCHANGED <<connVars, overlap>>
  /\ UNCHANGED <<unsubEvents, feeds, queueVars>>

OpenFeed(s) ==
  /\ s \in Subs /\ at[s] = "connected"
  /\ Becomes(s, "opening")
  /\ UNCHANGED <<connVars, eventVars, queueVars>>

\* events() resolves: a second one replaces the first in unsubEvents.
FeedOpens(s) ==
  LET v == On[s] IN
  /\ at[s] = "opening" /\ ws[v] = "open"
  /\ Becomes(s, "subscribed")
  /\ feeds' = [feeds EXCEPT ![v] = @ \cup {s}]
  /\ unsubEvents' = [unsubEvents EXCEPT ![v] = s]
  /\ UNCHANGED <<connVars, eventSubs, overlap, queueVars>>

\* events() rejects, and subscribeToEvent() with it: the entry stays.
FeedFails(s) ==
  /\ at[s] = "opening"
  /\ Becomes(s, "failed")
  /\ UNCHANGED <<connVars, eventVars, queueVars>>

\* Mutant: the closed subscription is kept as if it were open.
AfterUnsubKept(v) == unsubEvents[v]

AfterUnsub(v) == None

\* The function subscribeToEvent() gave its caller.
Unsubscribe(s) ==
  LET v == On[s]
      last == eventSubs[v] = {s} /\ unsubEvents[v] # None IN
  /\ at[s] = "subscribed"
  /\ Becomes(s, "off")
  /\ eventSubs' = [eventSubs EXCEPT ![v] = @ \ {s}]
  /\ feeds' = IF last THEN [feeds EXCEPT ![v] = @ \ {unsubEvents[v]}] ELSE feeds
  /\ unsubEvents' = IF last THEN [unsubEvents EXCEPT ![v] = AfterUnsub(v)] ELSE unsubEvents
  /\ UNCHANGED <<connVars, overlap, queueVars>>

-----------------------------------------------------------------------------
(* signAndSend() and the registry                                            *)

\* setEnvironment(), setEnvironments(), deregisterJob(), up to the connection.
Submit(c) ==
  /\ at[c] = "idle"
  /\ Connect(c)
  /\ UNCHANGED <<eventVars, queueVars>>

SetDefaultQueue ==
  /\ defaultQueue # Custom
  /\ defaultQueue' = Custom
  /\ UNCHANGED <<connVars, eventVars, at, made, fifo>>

\* Mutant: the queue made is not remembered.
RememberedNot(q) == defaultQueue

Remembered(q) == q

\* getDefaultQueue().
GetDefaultQueue(q) ==
  IF defaultQueue = None
  THEN q = made + 1 /\ made' = q /\ defaultQueue' = Remembered(q)
  ELSE q = defaultQueue /\ UNCHANGED <<made, defaultQueue>>

\* signAndSend(): this.queue, or the default one.
SignAndSend(c) ==
  /\ c \in Calls /\ at[c] = "connected"
  /\ Becomes(c, "queued")
  /\ \E q \in Queues :
       /\ IF On[c] \in Sharing
          THEN q = Custom /\ UNCHANGED <<made, defaultQueue>>
          ELSE GetDefaultQueue(q)
       /\ fifo' = [fifo EXCEPT ![q] = Append(@, c)]
  /\ UNCHANGED <<connVars, eventVars>>

\* The front call of a queue is in a block, or refused. When its service, whose
\* api send() submits it with, is disconnected meanwhile, it may be refused,
\* or no update comes any more and it stays in front for ever.
Settle(q) ==
  /\ fifo[q] # <<>>
  /\ fifo' = [fifo EXCEPT ![q] = Tail(@)]
  /\ Becomes(Head(fifo[q]), "settled")
  /\ UNCHANGED <<connVars, eventVars, defaultQueue, made>>

-----------------------------------------------------------------------------
\* What goes on without another call to the service.
Progress ==
  \/ \E v \in Services : SocketOpens(v) \/ ApiReady(v)
  \/ \E k \in Closers : Disconnected(k)
  \/ \E s \in Subs : OpenFeed(s) \/ FeedOpens(s) \/ FeedFails(s)
  \/ \E c \in Calls : SignAndSend(c)

Next ==
  \/ Progress
  \/ \E q \in Queues : Settle(q)
  \/ \E s \in Subs : Subscribe(s) \/ Unsubscribe(s)
  \/ \E c \in Calls : Submit(c)
  \/ \E k \in Closers : Disconnect(k)
  \/ SetDefaultQueue

\* The service the front call of a queue came from is disconnected.
CutOff(q) == fifo[q] # <<>> /\ ws[On[Head(fifo[q])]] = "closed"

\* The node can be reached, answers, and puts what it took in a block, as long
\* as there is a connection to tell it by. Nobody need call the service.
Spec == Init /\ [][Next]_vars
FairSpec == Spec /\ WF_vars(Progress) /\ \A q \in Queues : WF_vars(Settle(q) /\ ~CutOff(q))

-----------------------------------------------------------------------------
\* Whoever subscribeToEvent() told that it is subscribed hears each event
\* (acurast-service.ts:128), and once, unless two first subscriptions were
\* under way together. A service without such an overlap subscribes to events
\* only while somebody is subscribed, or else because the entry of a call that
\* failed stays in eventSubs (lines 125-128), and keeps the last to leave from
\* closing the subscription (line 142). Until disconnect().
FeedServes ==
  \A v \in Services : ws[v] # "closed" =>
    /\ (\E s \in Subs : On[s] = v /\ at[s] = "subscribed") => feeds[v] # {}
    /\ v \notin overlap =>
         /\ Cardinality(feeds[v]) <= 1
         /\ feeds[v] # {} =>
              \E s \in Subs : On[s] = v /\ at[s] \in {"subscribed", "failed"}

\* Two queues have calls of the account only when the application installed
\* its own after, or beside, a default one made for it (tx-queue.ts:421, "to
\* guarantee a single nonce authority per account").
OneAuthority ==
  \A p, q \in Queues : p # q /\ fifo[p] # <<>> /\ fifo[q] # <<>> => Custom \in {p, q}

\* Every operation of a service that is not disconnected settles, though the
\* operations share one promise and one queue (lines 65 and 278), unless it
\* waits in its queue behind a call of a service that is.
OperationsSettle ==
  \A o \in Ops :
    at[o] \in Waiting ~>
      \/ at[o] \in Final \/ ws[On[o]] = "closed"
      \/ \E q \in Queues : CutOff(q) /\ \E i \in DOMAIN fifo[q] : fifo[q][i] = o
=============================================================================

----------------------------- MODULE DappClient -----------------------------
(***************************************************************************)
(* AcurastClient (acurast-dapp/src/client/client.ts): start() makes a      *)
(* transport and keeps it once it is connected; listeners registered       *)
(* before that wait in a buffer.                                           *)
(***************************************************************************)
EXTENDS Transport, Frames

VARIABLES
  current,     \* this._transport
  starting,    \* transports whose start() waits for connect()
  messageListenerBuffer,
  registered   \* history: listeners given to onMessage() and not closed away

dappVars == <<current, starting, messageListenerBuffer, registered>>
vars == <<transportVars, dappVars>>

TypeOK ==
  /\ TransportTypeOK
  /\ current \in Clients \cup {None}
  /\ starting \subseteq Clients
  /\ messageListenerBuffer \subseteq Listeners
  /\ registered \subseteq Listeners

Init ==
  /\ TransportInit
  /\ current = None /\ starting = {} /\ messageListenerBuffer = {} /\ registered = {}

-----------------------------------------------------------------------------
\* Mutant: the listeners stay in the buffer.
BufferAfterStartKept == messageListenerBuffer

BufferAfterStart == {}

\* start(), up to the await of connect(). c: the transport it makes.
Start(c) ==
  /\ current = None
  /\ user[c] = "none"
  /\ user' = [user EXCEPT ![c] = "pending"]
  /\ Connect(c, "user")
  /\ messageListeners' = [messageListeners EXCEPT ![c] = messageListenerBuffer]
  /\ messageListenerBuffer' = BufferAfterStart
  /\ starting' = starting \cup {c}
  /\ UNCHANGED <<waitVars, closedOpen, drops, current, registered>>

\* start() continues after connect(), or rejects with it.
Started(c) ==
  /\ c \in starting /\ user[c] \in {"resolved", "rejected"}
  /\ starting' = starting \ {c}
  /\ current' = IF user[c] = "resolved" THEN c ELSE current
  /\ UNCHANGED <<transportVars, messageListenerBuffer, registered>>

OnMessage(l) ==
  /\ l \notin registered
  /\ registered' = registered \cup {l}
  /\ IF current = None
     THEN /\ messageListenerBuffer' = messageListenerBuffer \cup {l}
          /\ UNCHANGED messageListeners
     ELSE /\ messageListeners' = [messageListeners EXCEPT ![current] = @ \cup {l}]
          /\ UNCHANGED messageListenerBuffer
  /\ UNCHANGED <<dialVars, socketVars, waitVars, closedOpen, drops, current, starting>>

\* close(). Without a transport it does nothing, also while one is starting.
CloseClient ==
  /\ current # None
  /\ Close(current)
  /\ current' = None
  /\ registered' = registered \ messageListeners[current]
  /\ UNCHANGED <<starting, messageListenerBuffer>>

Next ==
  \/ \E c \in Clients : \/ Start(c) \/ Started(c)
                        \/ TransportStep(c) /\ UNCHANGED dappVars
  \/ \E l \in Listeners : OnMessage(l)
  \/ CloseClient

\* Timers fire, and settled promises are handled. The server need not answer,
\* not even to the opening of a socket (ws is given no handshakeTimeout, so
\* Opened and OpenFails are not fair), and nobody need call.
Fairness ==
  \A c \in Clients :
    /\ WF_vars(Started(c))
    /\ WF_vars(ConnectTimeout(c) /\ UNCHANGED dappVars)
    /\ WF_vars(Redial(c) /\ UNCHANGED dappVars)

Spec == Init /\ [][Next]_vars
FairSpec == Spec /\ Fairness

-----------------------------------------------------------------------------
\* connect() fulfils when the server has accepted the socket the client holds
\* at that moment, though another may have been lost since it was called
\* (client.ts:125).
ConnectAnswered ==
  [][\A c \in Clients : user[c] # "resolved" /\ user'[c] = "resolved"
                        => socket'[c] = "open" /\ hs'[c] = "accepted"]_vars

\* A client closed while its socket was open never has another one: close()
\* and onClose (client.ts:111, client.node.ts:38) do not race.
ClosedStaysClosed ==
  \A c \in closedOpen : socket[c] \in {"closing", "closed"} /\ dial[c] = "idle"

\* No listener hears a message twice, however often start() is called: each
\* is attached to one transport, be it one whose start() failed but whose
\* socket lives on.
NoListenerTwice ==
  \A c, d \in Clients : c # d => messageListeners[c] \cap messageListeners[d] = {}

\* A started client hears with all its listeners (acurast-dapp README.md:46,
\* "Registers a new `listener` which will be notified on incoming `message`.").
AllListenersHear ==
  current # None /\ starting = {} => registered \subseteq messageListeners[current]

\* Whatever a transport and its server have exchanged on the socket so far is
\* read as it was sent, and the answer to the challenge is the one asked for
\* (message/forger, message/parser).
FramesCarryHandshake == \A c \in Clients : Faithful[hs[c]]

\* connectionTimeoutMillis runs from the open socket on (client.ts:125): a
\* server that takes the TCP connection and never answers the upgrade keeps
\* the dialling of a client at this URL, and whoever waits for it.
DialHangs(c, who) == <>[](dial[c] = "opening" /\ opener[c] = who)

\* start() settles unless the dialling it began hangs: also when the server
\* opens a socket and says nothing, drops it during the handshake, or lets the
\* redial hang.
StartSettles ==
  \A c \in Clients : DialHangs(c, "user") \/ (c \in starting ~> c \notin starting)

\* A lost socket of a started client is replaced, or the redial fails or hangs.
LostIsRedialled ==
  \A c \in Clients : DialHangs(c, "redial") \/
    (current = c /\ socket[c] = "closed" ~>
       current # c \/ socket[c] = "open" \/ unhandled[c])
=============================================================================

----------------------------- MODULE Transport -----------------------------
(***************************************************************************)
(* WebSocketTransportClient (acurast-transport-websocket/src/client): open *)
(* a socket to the first URL that answers, shake hands, and dial again     *)
(* 200 ms after a socket was lost. One record per client; an action is the *)
(* code that runs for one event of the socket, a timer or a call.          *)
(***************************************************************************)
EXTENDS Naturals, Sequences

CONSTANTS
  Clients,    \* the WebSocketTransportClient objects
  Listeners,  \* message listeners
  Urls,       \* this.urls
  None,       \* undefined
  MaxDrops    \* bound: sockets lost

\* Every URL of the list.
UrlSet == {Urls[k] : k \in DOMAIN Urls}

ASSUME TransportAssumption ==
  /\ None \notin Clients
  /\ Urls \in Seq(UrlSet) /\ Urls # <<>> /\ MaxDrops \in Nat

VARIABLES
  user,       \* Clients -> the promise of the connect() its owner called
  dial,       \* Clients -> the latest activation of connect(): opening a socket,
              \* waiting for its 200 ms ("pause"), or past that ("idle")
  opener,     \* Clients -> who started it: "user", or onClose ("redial")
  tries,      \* Clients -> URLs it has still to try, the current one first
  lastSelectedURL,
  socket,     \* Clients -> the socket the session refers to
  armed,      \* Clients -> that socket's onclose is set
  hs,         \* Clients -> how far the server and that socket's handshake are
  isConnected,  \* Clients -> the Deferred is resolved
  redialWaits,  \* Clients -> redials that wait for isConnected
  unhandled,  \* Clients -> a redial was rejected, and nobody looks
  messageListeners,  \* Clients -> set of listeners
  drops,      \* sockets lost so far
  closedOpen  \* history: clients closed while their socket was open

dialVars == <<user, dial, opener, tries, lastSelectedURL>>
socketVars == <<socket, armed, hs>>
waitVars == <<isConnected, redialWaits, unhandled>>
ownerVars == <<messageListeners, closedOpen>>
transportVars == <<dialVars, socketVars, waitVars, ownerVars, drops>>

TransportTypeOK ==
  /\ user \in [Clients -> {"none", "pending", "resolved", "rejected"}]
  /\ dial \in [Clients -> {"idle", "pause", "opening"}]
  /\ opener \in [Clients -> {"user", "redial"}]
  /\ \A c \in Clients : /\ Len(tries[c]) <= Len(Urls)
                        /\ dial[c] = "opening" => tries[c] # <<>>
                        /\ dial[c] = "opening" <=> socket[c] \in {"opening", "aborting"}
  /\ lastSelectedURL \in [Clients -> UrlSet \cup {None}]
  /\ socket \in [Clients -> {"none", "opening", "aborting", "open", "closing", "closed"}]
  /\ armed \in [Clients -> BOOLEAN]
  /\ hs \in [Clients -> {"none", "init", "response", "accepted"}]
  /\ isConnected \in [Clients -> BOOLEAN] /\ unhandled \in [Clients -> BOOLEAN]
  /\ redialWaits \in [Clients -> 0..MaxDrops]
  /\ messageListeners \in [Clients -> SUBSET Listeners]
  /\ drops \in 0..MaxDrops
  /\ closedOpen \subseteq Clients

TransportInit ==
  /\ user = [c \in Clients |-> "none"]
  /\ dial = [c \in Clients |-> "idle"]
  /\ opener = [c \in Clients |-> "user"]
  /\ tries = [c \in Clients |-> <<>>]
  /\ lastSelectedURL = [c \in Clients |-> None]
  /\ socket = [c \in Clients |-> "none"]
  /\ armed = [c \in Clients |-> FALSE]
  /\ hs = [c \in Clients |-> "none"]
  /\ isConnected = [c \in Clients |-> FALSE]
  /\ redialWaits = [c \in Clients |-> 0]
  /\ unhandled = [c \in Clients |-> FALSE]
  /\ messageListeners = [c \in Clients |-> {}]
  /\ drops = 0
  /\ closedOpen = {}

-----------------------------------------------------------------------------
\* Mutant: the last selected URL is tried again among the others.
UrlOrderTwice(last) == IF last = None THEN Urls ELSE <<last>> \o Urls

\* this.urls without the last selected one: kept[k] of the first k of them.
OtherUrls(last) ==
  LET kept[k \in 0..Len(Urls)] ==
        IF k = 0 THEN <<>>
        ELSE IF Urls[k] = last THEN kept[k-1] ELSE Append(kept[k-1], Urls[k])
  IN kept[Len(Urls)]

\* The order of tryConnectingToUrls: the last selected URL, then the others.
UrlOrder(last) ==
  IF last = None THEN Urls
  ELSE <<last>> \o OtherUrls(last)

\* session.open(url): a new socket, without handlers.
OpenSocket(c, order) ==
  /\ tries' = [tries EXCEPT ![c] = order]
  /\ lastSelectedURL' = [lastSelectedURL EXCEPT ![c] = Head(order)]
  /\ socket' = [socket EXCEPT ![c] = "opening"]
  /\ armed' = [armed EXCEPT ![c] = FALSE]
  /\ hs' = [hs EXCEPT ![c] = "none"]
  /\ dial' = [dial EXCEPT ![c] = "opening"]

\* connect(), by the owner of the client or by the timer of onClose.
Connect(c, who) ==
  /\ opener' = [opener EXCEPT ![c] = who]
  /\ OpenSocket(c, UrlOrder(lastSelectedURL[c]))

Redial(c) ==
  /\ dial[c] = "pause"
  /\ Connect(c, "redial")
  /\ UNCHANGED <<user, waitVars, ownerVars, drops>>

\* Mutant: a socket that replaces a lost one is not watched.
ArmedAfterOpenOnce(c) == opener[c] = "user"

\* Every socket that opens gets an onclose handler.
ArmedAfterOpen(c) == TRUE

\* Mutant: connect() fulfils when the socket is open.
AnsweredAtOpenAlways(c) == TRUE

\* The Deferred may be resolved already, by an earlier socket.
AnsweredAtOpen(c) == isConnected[c]

\* The socket is open: handlers attached, init sent, and isConnected awaited.
Opened(c) ==
  /\ socket[c] = "opening"
  /\ socket' = [socket EXCEPT ![c] = "open"]
  /\ armed' = [armed EXCEPT ![c] = ArmedAfterOpen(c)]
  /\ hs' = [hs EXCEPT ![c] = "init"]
  /\ dial' = [dial EXCEPT ![c] = "idle"]
  /\ redialWaits' = IF opener[c] = "redial" /\ ~AnsweredAtOpen(c)
                    THEN [redialWaits EXCEPT ![c] = @ + 1] ELSE redialWaits
  /\ user' = IF opener[c] = "user" /\ AnsweredAtOpen(c)
             THEN [user EXCEPT ![c] = "resolved"] ELSE user
  /\ UNCHANGED <<opener, tries, lastSelectedURL, isConnected, unhandled, ownerVars, drops>>

\* connect() rejects: its owner sees it, or nobody does.
Rejects(c, who) ==
  /\ user' = IF who = "user" THEN [user EXCEPT ![c] = "rejected"] ELSE user
  /\ unhandled' = IF who = "redial" THEN [unhandled EXCEPT ![c] = TRUE] ELSE unhandled

\* The socket did not open: the next URL, or "All connections failed".
OpenFails(c) ==
  /\ socket[c] \in {"opening", "aborting"}
  /\ IF Len(tries[c]) > 1
     THEN OpenSocket(c, Tail(tries[c])) /\ UNCHANGED <<user, unhandled>>
     ELSE /\ dial' = [dial EXCEPT ![c] = "idle"]
          /\ socket' = [socket EXCEPT ![c] = "closed"]
          /\ Rejects(c, opener[c])
          /\ UNCHANGED <<tries, lastSelectedURL, armed, hs>>
  /\ UNCHANGED <<opener, isConnected, redialWaits, ownerVars, drops>>

-----------------------------------------------------------------------------
\* A challenge comes, and the signed response is sent.
OnChallenge(c) ==
  /\ socket[c] = "open" /\ hs[c] = "init"
  /\ hs' = [hs EXCEPT ![c] = "response"]
  /\ UNCHANGED <<dialVars, socket, armed, waitVars, ownerVars, drops>>

\* "user" waits for isConnected, once its socket is open.
UserWaits(c) == user[c] = "pending" /\ ~(opener[c] = "user" /\ dial[c] = "opening")

\* Accepted: every connect() that waits is answered.
OnConnected(c) ==
  /\ socket[c] = "open" /\ hs[c] = "response"
  /\ hs' = [hs EXCEPT ![c] = "accepted"]
  /\ isConnected' = [isConnected EXCEPT ![c] = TRUE]
  /\ redialWaits' = [redialWaits EXCEPT ![c] = 0]
  /\ user' = IF UserWaits(c) THEN [user EXCEPT ![c] = "resolved"] ELSE user
  /\ UNCHANGED <<dial, opener, tries, lastSelectedURL, socket, armed, unhandled,
                 ownerVars, drops>>

\* Mutant: only the waits of redials time out.
TimesOutNever(c) == FALSE

TimesOut(c) == UserWaits(c)

\* connectionTimeoutMillis are over. The socket stays as it is.
ConnectTimeout(c) ==
  /\ \/ TimesOut(c) /\ Rejects(c, "user") /\ UNCHANGED redialWaits
     \/ /\ redialWaits[c] > 0 /\ Rejects(c, "redial")
        /\ redialWaits' = [redialWaits EXCEPT ![c] = @ - 1]
  /\ UNCHANGED <<dial, opener, tries, lastSelectedURL, socketVars, isConnected,
                 ownerVars, drops>>

\* The close event of the socket; onclose, if set, dials again in 200 ms.
OnClose(c) ==
  /\ socket[c] \in {"open", "closing"}
  /\ IF socket[c] = "open" THEN drops < MaxDrops /\ drops' = drops + 1
                           ELSE UNCHANGED drops
  /\ socket' = [socket EXCEPT ![c] = "closed"]
  /\ hs' = [hs EXCEPT ![c] = "none"]
  /\ dial' = IF armed[c] THEN [dial EXCEPT ![c] = "pause"] ELSE dial
  /\ UNCHANGED <<user, opener, tries, lastSelectedURL, armed, waitVars, ownerVars>>

\* Mutant: close() leaves onclose as it is.
ArmedAfterCloseKept(c) == armed[c]

\* close() takes the socket's onclose away.
ArmedAfterClose(c) == FALSE

\* close(). A socket that is opening fails; a pending redial is not cancelled.
Close(c) ==
  /\ messageListeners' = [messageListeners EXCEPT ![c] = {}]
  /\ armed' = [armed EXCEPT ![c] = ArmedAfterClose(c)]
  /\ socket' = [socket EXCEPT ![c] = CASE @ = "open" -> "closing"
                                       [] @ = "opening" -> "aborting"
                                       [] OTHER -> @]
  /\ closedOpen' = IF socket[c] = "open" THEN closedOpen \cup {c} ELSE closedOpen
  /\ UNCHANGED <<dialVars, hs, waitVars, drops>>

\* The steps of a client that its owner does not call for.
TransportStep(c) ==
  \/ Redial(c) \/ Opened(c) \/ OpenFails(c) \/ OnChallenge(c) \/ OnConnected(c)
  \/ ConnectTimeout(c) \/ OnClose(c)
=============================================================================

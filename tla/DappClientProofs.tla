-------------------------- MODULE DappClientProofs --------------------------
(***************************************************************************)
(* Proofs about DappClient for any set of transports and of listeners, any *)
(* list of URLs and any number of lost sockets; and about the frames of    *)
(* its protocol for any bytes in them.                                     *)
(***************************************************************************)
EXTENDS DappClient, SetInduction, SequenceTheorems

\* The state has the variables' types.
VarTypes ==
  /\ user \in [Clients -> {"none", "pending", "resolved", "rejected"}]
  /\ dial \in [Clients -> {"idle", "pause", "opening"}]
  /\ opener \in [Clients -> {"user", "redial"}]
  /\ tries \in [Clients -> Seq(UrlSet)]
  /\ lastSelectedURL \in [Clients -> UrlSet \cup {None}]
  /\ socket \in [Clients -> {"none", "opening", "aborting", "open", "closing", "closed"}]
  /\ armed \in [Clients -> BOOLEAN]
  /\ hs \in [Clients -> {"none", "init", "response", "accepted"}]
  /\ isConnected \in [Clients -> BOOLEAN]
  /\ unhandled \in [Clients -> BOOLEAN]
  /\ redialWaits \in [Clients -> Nat]
  /\ messageListeners \in [Clients -> SUBSET Listeners]
  /\ drops \in 0..MaxDrops
  /\ closedOpen \subseteq Clients
  /\ current \in Clients \cup {None}
  /\ starting \subseteq Clients
  /\ messageListenerBuffer \subseteq Listeners
  /\ registered \subseteq Listeners

\* A client that opens a socket has a URL to try.
TriesOK(c) ==
  /\ Len(tries[c]) <= Len(Urls)
  /\ dial[c] = "opening" => tries[c] # <<>>

\* Where the dialling and the socket are. A socket on its way out is not
\* watched any more, and a pause follows a lost socket.
DialOK(c) ==
  /\ dial[c] = "opening" <=> socket[c] \in {"opening", "aborting"}
  /\ dial[c] = "pause" => socket[c] = "closed"
  /\ socket[c] = "closing" => ~armed[c]

\* A redial is on its way: for it one socket was lost.
Redialling(c) == dial[c] = "pause" \/ (dial[c] = "opening" /\ opener[c] = "redial")

\* Each redial that waits is for a socket lost, as is the one on its way.
WaitsOK(c) ==
  /\ redialWaits[c] <= drops
  /\ Redialling(c) => redialWaits[c] + 1 <= drops

\* Before start() there is nothing; and the first socket is never met by a
\* Deferred that is resolved.
FreshOK(c) ==
  /\ user[c] = "none" => socket[c] = "none" /\ ~isConnected[c]
  /\ opener[c] = "user" /\ dial[c] = "opening" => ~isConnected[c]

\* A client closed with its socket open is left alone.
ClosedOK(c) ==
  c \in closedOpen => /\ socket[c] \in {"closing", "closed"} /\ dial[c] = "idle"
                      /\ ~armed[c] /\ user[c] # "none"

ClientOK(c) == TriesOK(c) /\ DialOK(c) /\ WaitsOK(c) /\ FreshOK(c) /\ ClosedOK(c)

ClientsInv == \A c \in Clients : ClientOK(c)

\* The transport in use was started.
CurrentInv == current # None => user[current] # "none"

\* Every listener is in one place: the buffer, or a transport.
ListenersInv ==
  /\ messageListenerBuffer \subseteq registered
  /\ \A c \in Clients : /\ messageListeners[c] \subseteq registered
                        /\ messageListeners[c] \cap messageListenerBuffer = {}
  /\ NoListenerTwice

IInv == VarTypes /\ ClientsInv /\ CurrentInv /\ ListenersInv

-----------------------------------------------------------------------------
\* The recursion of OtherUrls has a solution, and it can be unfolded.
LEMMA OtherUrlsUnfold ==
  ASSUME NEW last \in UrlSet
  PROVE  \E kept \in [0..Len(Urls) -> Seq(UrlSet)] :
           /\ OtherUrls(last) = kept[Len(Urls)] /\ kept[0] = <<>>
           /\ \A k \in 1..Len(Urls) :
                kept[k] = IF Urls[k] = last THEN kept[k-1] ELSE Append(kept[k-1], Urls[k])
<1> DEFINE N == Len(Urls)
           S == Seq(UrlSet)
           step == [k \in 1..N |-> [s \in S |-> IF Urls[k] = last THEN s ELSE Append(s, Urls[k])]]
           F(f) == f = [k \in 0..N |-> IF k = 0 THEN <<>>
                                       ELSE IF Urls[k] = last THEN f[k-1]
                                       ELSE Append(f[k-1], Urls[k])]
<1>1. N \in Nat /\ \A k \in 1..N : Urls[k] \in UrlSet
  BY TransportAssumption, ElementOfSeq, LenProperties
<1>2. step \in [1..N -> [S -> S]]
  <2>1. ASSUME NEW k \in 1..N, NEW s \in S PROVE Append(s, Urls[k]) \in S
    BY <1>1, AppendProperties
  <2> QED BY <2>1
<1>3. <<>> \in S
  OBVIOUS
<1>4. PICK g \in [0..N -> S] : RecursiveUpto(g, N, <<>>, step)
  <2> HIDE DEF N, S, step, F
  <2>1. N \in Nat
    BY <1>1
  <2> QED BY <2>1, <1>2, <1>3, RecursionExists
<1>5. ASSUME NEW k \in 1..N
      PROVE  g[k] = IF Urls[k] = last THEN g[k-1] ELSE Append(g[k-1], Urls[k])
  <2>1. k - 1 \in 0..N
    BY <1>1
  <2>2. g[k-1] \in S
    BY <2>1
  <2> QED BY <1>4, <2>2 DEF RecursiveUpto
<1>6. F(g)
  <2> DEFINE h == [k \in 0..N |-> IF k = 0 THEN <<>> ELSE IF Urls[k] = last THEN g[k-1]
                                 ELSE Append(g[k-1], Urls[k])]
  <2>1. ASSUME NEW k \in 0..N PROVE g[k] = h[k]
    <3>1. CASE k = 0
      BY <3>1, <1>4 DEF RecursiveUpto
    <3>2. CASE k # 0
      <4>1. k \in 1..N
        BY <3>2, <1>1
      <4> QED BY <4>1, <1>5, <3>2
    <3> QED BY <3>1, <3>2
  <2>2. h \in [0..N -> {h[k] : k \in 0..N}]
    OBVIOUS
  <2> HIDE DEF h
  <2>3. g = h
    BY <2>1, <2>2
  <2> QED BY <2>3 DEF h
<1>7. ASSUME NEW f, F(f) PROVE f = g
  <2> DEFINE T == {k \in 0..N : f[k] = g[k]}
  <2>1. 0 \in T
    BY <1>1, <1>4, <1>7 DEF RecursiveUpto
  <2>2. ASSUME NEW k \in 0..N, k \in T, k < N PROVE k + 1 \in T
    <3>1. k + 1 \in 0..N /\ k + 1 \in 1..N /\ (k + 1) - 1 = k /\ k + 1 # 0
      BY <1>1, <2>2
    <3>2. f[k+1] = IF Urls[k+1] = last THEN f[k] ELSE Append(f[k], Urls[k+1])
      BY <1>7, <3>1
    <3>3. g[k+1] = IF Urls[k+1] = last THEN g[k] ELSE Append(g[k], Urls[k+1])
      BY <1>5, <3>1
    <3> QED BY <2>2, <3>1, <3>2, <3>3
  <2> HIDE DEF T
  <2>3. 0..N \subseteq T
    BY <1>1, <2>1, <2>2, RangeInduction
  <2>4. \A k \in 0..N : f[k] = g[k]
    BY <2>3 DEF T
  <2>5. f \in [0..N -> {f[k] : k \in 0..N}]
    BY <1>7
  <2> HIDE DEF F
  <2> QED BY <2>4, <2>5
<1>8. F(CHOOSE f : F(f))
  <2> HIDE DEF F
  <2> QED BY <1>6
<1>9. (CHOOSE f : F(f)) = g
  <2> HIDE DEF F
  <2> QED BY <1>7, <1>8
<1>10. OtherUrls(last) = (CHOOSE f : F(f))[N]
  BY DEF OtherUrls
<1>11. OtherUrls(last) = g[Len(Urls)]
  BY <1>9, <1>10
<1> QED BY <1>4, <1>5, <1>11 DEF RecursiveUpto

\* Of the first k URLs at most k are kept, and fewer when one is left out.
LEMMA OtherUrlsShorter ==
  ASSUME NEW last \in UrlSet
  PROVE  OtherUrls(last) \in Seq(UrlSet) /\ Len(OtherUrls(last)) < Len(Urls)
<1> DEFINE N == Len(Urls)
<1>1. PICK kept \in [0..N -> Seq(UrlSet)] :
        /\ OtherUrls(last) = kept[N] /\ kept[0] = <<>>
        /\ \A k \in 1..N :
             kept[k] = IF Urls[k] = last THEN kept[k-1] ELSE Append(kept[k-1], Urls[k])
  BY OtherUrlsUnfold
<1>2. N \in Nat /\ \A k \in 1..N : Urls[k] \in UrlSet
  BY TransportAssumption, ElementOfSeq, LenProperties
<1>3. PICK p \in 1..N : Urls[p] = last
  BY TransportAssumption, LenProperties DEF UrlSet
<1> DEFINE Bound(k) == Len(kept[k]) <= k /\ (k >= p => Len(kept[k]) < k)
           T == {k \in 0..N : Bound(k)}
<1>4. 0 \in T
  <2>1. Len(kept[0]) = 0 /\ ~(0 >= p)
    BY <1>1, <1>2
  <2> QED BY <2>1, <1>2
<1>5. ASSUME NEW k \in 0..N, k \in T, k < N PROVE k + 1 \in T
  <2>1. k + 1 \in 0..N /\ k + 1 \in 1..N /\ (k + 1) - 1 = k
    BY <1>2, <1>5
  <2>2. kept[k] \in Seq(UrlSet) /\ Urls[k+1] \in UrlSet
    BY <1>2, <2>1
  <2>3. Len(kept[k]) \in Nat /\ Bound(k)
    BY <2>2, <1>5, LenProperties
  <2>4. CASE Urls[k+1] = last
    <3>1. kept[k+1] = kept[k]
      BY <1>1, <2>1, <2>4
    <3> QED BY <2>1, <2>3, <3>1
  <2>5. CASE Urls[k+1] # last
    <3>1. kept[k+1] = Append(kept[k], Urls[k+1])
      BY <1>1, <2>1, <2>5
    <3>2. Len(kept[k+1]) = Len(kept[k]) + 1
      BY <3>1, <2>2, AppendProperties
    <3>3. k + 1 >= p => k >= p
      BY <1>3, <2>5
    <3> QED BY <2>1, <2>3, <3>2, <3>3
  <2> QED BY <2>4, <2>5
<1> HIDE DEF T
<1>6. 0..N \subseteq T
  BY <1>2, <1>4, <1>5, RangeInduction
<1>7. N \in 0..N
  BY <1>2
<1>8. Bound(N)
  BY <1>6, <1>7 DEF T
<1> QED BY <1>1, <1>3, <1>7, <1>8

\* However connect() is called, there is a URL to try, and no more than this.urls has.
LEMMA UrlOrderTypes ==
  ASSUME NEW last \in UrlSet \cup {None}
  PROVE  /\ UrlOrder(last) \in Seq(UrlSet)
         /\ UrlOrder(last) # <<>> /\ Len(UrlOrder(last)) <= Len(Urls)
<1>1. CASE last = None
  BY <1>1, TransportAssumption, LenProperties DEF UrlOrder
<1>2. CASE last # None
  <2>1. last \in UrlSet
    BY <1>2
  <2>2. OtherUrls(last) \in Seq(UrlSet) /\ Len(OtherUrls(last)) < Len(Urls)
    BY <2>1, OtherUrlsShorter
  <2>3. <<last>> \in Seq(UrlSet) /\ Len(<<last>>) = 1
    BY <2>1
  <2>4. UrlOrder(last) = <<last>> \o OtherUrls(last)
    BY <1>2 DEF UrlOrder
  <2>5. UrlOrder(last) \in Seq(UrlSet) /\ Len(UrlOrder(last)) = 1 + Len(OtherUrls(last))
    BY <2>2, <2>3, <2>4, ConcatProperties
  <2>6. Len(Urls) \in Nat /\ Len(OtherUrls(last)) \in Nat
    BY <2>2, TransportAssumption, LenProperties
  <2>7. UrlOrder(last) # <<>>
    BY <2>5, <2>6
  <2> QED BY <2>2, <2>5, <2>6, <2>7
<1> QED BY <1>1, <1>2

-----------------------------------------------------------------------------
\* The type invariant the runs check.
LEMMA TypesHold == VarTypes /\ ClientsInv => TypeOK
<1> SUFFICES ASSUME VarTypes, ClientsInv PROVE TypeOK
  OBVIOUS
<1>1. ASSUME NEW c \in Clients PROVE redialWaits[c] \in 0..MaxDrops
  <2>1. redialWaits[c] <= drops
    BY DEF ClientsInv, ClientOK, WaitsOK
  <2>2. redialWaits[c] \in Nat /\ drops \in 0..MaxDrops
    BY DEF VarTypes
  <2> QED BY <2>1, <2>2, TransportAssumption
<1>2. redialWaits \in [Clients -> 0..MaxDrops]
  <2>1. redialWaits \in [Clients -> Nat]
    BY DEF VarTypes
  <2> QED BY <1>1, <2>1
<1>3. \A c \in Clients : /\ Len(tries[c]) <= Len(Urls)
                         /\ dial[c] = "opening" => tries[c] # <<>>
                         /\ dial[c] = "opening" <=> socket[c] \in {"opening", "aborting"}
  BY DEF ClientsInv, ClientOK, TriesOK, DialOK
<1>4. /\ user \in [Clients -> {"none", "pending", "resolved", "rejected"}]
      /\ dial \in [Clients -> {"idle", "pause", "opening"}]
      /\ opener \in [Clients -> {"user", "redial"}]
      /\ lastSelectedURL \in [Clients -> UrlSet \cup {None}]
      /\ socket \in [Clients -> {"none", "opening", "aborting", "open", "closing", "closed"}]
  BY DEF VarTypes
<1>5. /\ armed \in [Clients -> BOOLEAN]
      /\ hs \in [Clients -> {"none", "init", "response", "accepted"}]
      /\ isConnected \in [Clients -> BOOLEAN] /\ unhandled \in [Clients -> BOOLEAN]
      /\ messageListeners \in [Clients -> SUBSET Listeners]
      /\ drops \in 0..MaxDrops /\ closedOpen \subseteq Clients
  BY DEF VarTypes
<1>6. TransportTypeOK
  BY <1>2, <1>3, <1>4, <1>5 DEF TransportTypeOK
<1> QED BY <1>6 DEF TypeOK, VarTypes

LEMMA InitIInv == Init => IInv
<1> SUFFICES ASSUME Init PROVE IInv
  OBVIOUS
<1> USE DEF Init, TransportInit
<1>1. VarTypes
  <2>1. 0 \in 0..MaxDrops
    BY TransportAssumption
  <2>2. tries \in [Clients -> Seq(UrlSet)]
    OBVIOUS
  <2>3. /\ messageListeners \in [Clients -> SUBSET Listeners]
        /\ messageListenerBuffer \subseteq Listeners
    OBVIOUS
  <2>4. lastSelectedURL \in [Clients -> UrlSet \cup {None}] /\ current \in Clients \cup {None}
    OBVIOUS
  <2> QED BY <2>1, <2>2, <2>3, <2>4 DEF VarTypes
<1>2. ASSUME NEW c \in Clients PROVE ClientOK(c)
  <2>1. TriesOK(c)
    BY TransportAssumption, LenProperties DEF TriesOK
  <2>2. DialOK(c) /\ WaitsOK(c) /\ FreshOK(c) /\ ClosedOK(c)
    BY DEF DialOK, WaitsOK, Redialling, FreshOK, ClosedOK
  <2> QED BY <2>1, <2>2 DEF ClientOK
<1>3. CurrentInv /\ ListenersInv
  BY DEF CurrentInv, ListenersInv, NoListenerTwice
<1> QED BY <1>1, <1>2, <1>3 DEF IInv, ClientsInv

-----------------------------------------------------------------------------
\* A step that leaves what a client has of the transport's state alone.
Kept(c) ==
  /\ user'[c] = user[c] /\ dial'[c] = dial[c] /\ opener'[c] = opener[c]
  /\ tries'[c] = tries[c] /\ socket'[c] = socket[c] /\ armed'[c] = armed[c]
  /\ hs'[c] = hs[c] /\ isConnected'[c] = isConnected[c] /\ redialWaits'[c] = redialWaits[c]

\* What is known of a client is then still true, as no lost socket is forgotten.
LEMMA KeptOK ==
  ASSUME VarTypes, NEW c \in Clients, ClientOK(c), Kept(c), drops' \in Nat, drops <= drops',
         c \in closedOpen' => c \in closedOpen
  PROVE  ClientOK(c)'
<1>1. drops \in Nat /\ redialWaits[c] \in Nat
  BY DEF VarTypes
<1>2. TriesOK(c)' /\ DialOK(c)' /\ FreshOK(c)' /\ ClosedOK(c)'
  BY DEF ClientOK, Kept, TriesOK, DialOK, FreshOK, ClosedOK
<1>3. WaitsOK(c)'
  BY <1>1 DEF ClientOK, Kept, WaitsOK, Redialling
<1> QED BY <1>2, <1>3 DEF ClientOK

\* A step of one client: it need only be looked at there.
OneClient(c) ==
  /\ VarTypes' /\ ClientOK(c)' /\ drops <= drops'
  /\ \A d \in Clients \ {c} : Kept(d) /\ (d \in closedOpen' => d \in closedOpen)

LEMMA OneClientKeeps ==
  ASSUME VarTypes, ClientsInv, NEW c \in Clients, OneClient(c)
  PROVE  ClientsInv'
<1>1. ASSUME NEW d \in Clients, d # c PROVE ClientOK(d)'
  <2>1. drops' \in Nat
    BY DEF OneClient, VarTypes
  <2> QED BY <1>1, <2>1, KeptOK DEF OneClient, ClientsInv
<1> QED BY <1>1 DEF ClientsInv, OneClient

\* What OpenSocket leaves: a list of URLs to try, and their first.
LEMMA OpenSocketTypes ==
  ASSUME VarTypes, NEW c \in Clients, NEW order \in Seq(UrlSet), order # <<>>,
         Len(order) <= Len(Urls), OpenSocket(c, order)
  PROVE  /\ tries' \in [Clients -> Seq(UrlSet)]
         /\ lastSelectedURL' \in [Clients -> UrlSet \cup {None}]
         /\ dial' \in [Clients -> {"idle", "pause", "opening"}]
         /\ socket' \in [Clients -> {"none", "opening", "aborting", "open", "closing", "closed"}]
         /\ armed' \in [Clients -> BOOLEAN]
         /\ hs' \in [Clients -> {"none", "init", "response", "accepted"}]
         /\ tries'[c] = order /\ dial'[c] = "opening" /\ socket'[c] = "opening"
         /\ ~armed'[c]
         /\ \A d \in Clients \ {c} :
              /\ tries'[d] = tries[d] /\ dial'[d] = dial[d] /\ socket'[d] = socket[d]
              /\ armed'[d] = armed[d] /\ hs'[d] = hs[d]
<1>1. Head(order) \in UrlSet
  BY HeadTailProperties
<1> QED BY <1>1 DEF OpenSocket, VarTypes

-----------------------------------------------------------------------------
\* The steps of a transport. Each changes the state of one client.
LEMMA RedialKeeps ==
  ASSUME VarTypes, ClientsInv, NEW c \in Clients, Redial(c), UNCHANGED dappVars
  PROVE  OneClient(c) /\ UNCHANGED <<user, messageListeners, isConnected>>
<1> DEFINE order == UrlOrder(lastSelectedURL[c])
<1>1. order \in Seq(UrlSet) /\ order # <<>> /\ Len(order) <= Len(Urls)
  <2>1. lastSelectedURL[c] \in UrlSet \cup {None}
    BY DEF VarTypes
  <2> HIDE DEF VarTypes
  <2> QED BY <2>1, UrlOrderTypes
<1>2. OpenSocket(c, order) /\ dial[c] = "pause" /\ opener' = [opener EXCEPT ![c] = "redial"]
  BY DEF Redial, Connect
<1>3. UNCHANGED <<user, isConnected, redialWaits, unhandled, messageListeners, closedOpen, drops>>
  BY DEF Redial, waitVars, ownerVars
<1> HIDE DEF order
<1>4. /\ tries' \in [Clients -> Seq(UrlSet)]
      /\ lastSelectedURL' \in [Clients -> UrlSet \cup {None}]
      /\ dial' \in [Clients -> {"idle", "pause", "opening"}]
      /\ socket' \in [Clients -> {"none", "opening", "aborting", "open", "closing", "closed"}]
      /\ armed' \in [Clients -> BOOLEAN]
      /\ hs' \in [Clients -> {"none", "init", "response", "accepted"}]
      /\ tries'[c] = order /\ dial'[c] = "opening" /\ socket'[c] = "opening"
      /\ ~armed'[c]
      /\ \A d \in Clients \ {c} :
           /\ tries'[d] = tries[d] /\ dial'[d] = dial[d] /\ socket'[d] = socket[d]
           /\ armed'[d] = armed[d] /\ hs'[d] = hs[d]
  BY <1>1, <1>2, OpenSocketTypes
<1>5. opener' \in [Clients -> {"user", "redial"}] /\ opener'[c] = "redial"
      /\ \A d \in Clients \ {c} : opener'[d] = opener[d]
  BY <1>2 DEF VarTypes
<1>6. VarTypes'
  BY <1>3, <1>4, <1>5 DEF VarTypes, dappVars
<1>7. ClientOK(c)'
  <2>1. ClientOK(c)
    BY DEF ClientsInv
  <2>2. TriesOK(c)' /\ DialOK(c)'
    BY <1>1, <1>4 DEF TriesOK, DialOK
  <2>3. WaitsOK(c)'
    BY <2>1, <1>2, <1>3, <1>4, <1>5 DEF ClientOK, WaitsOK, Redialling
  <2>4. user[c] # "none" /\ c \notin closedOpen
    BY <2>1, <1>2 DEF ClientOK, DialOK, FreshOK, ClosedOK
  <2>5. FreshOK(c)' /\ ClosedOK(c)'
    BY <2>4, <1>3, <1>5 DEF FreshOK, ClosedOK
  <2> QED BY <2>2, <2>3, <2>5 DEF ClientOK
<1>8. \A d \in Clients \ {c} : Kept(d)
  BY <1>3, <1>4, <1>5 DEF Kept
<1>9. drops <= drops' /\ closedOpen' = closedOpen
  BY <1>3 DEF VarTypes
<1> QED BY <1>3, <1>6, <1>7, <1>8, <1>9 DEF OneClient

LEMMA OpenedKeeps ==
  ASSUME VarTypes, ClientsInv, NEW c \in Clients, Opened(c), UNCHANGED dappVars
  PROVE  /\ OneClient(c)
         /\ UNCHANGED messageListeners
         /\ user' = user
         /\ \A d \in Clients : user[d] # "none" => user'[d] # "none"
<1>1. ClientOK(c)
  BY DEF ClientsInv
<1>2. /\ socket[c] = "opening" /\ dial[c] = "opening"
      /\ socket' = [socket EXCEPT ![c] = "open"]
      /\ armed' = [armed EXCEPT ![c] = TRUE]
      /\ hs' = [hs EXCEPT ![c] = "init"]
      /\ dial' = [dial EXCEPT ![c] = "idle"]
      /\ redialWaits' = IF opener[c] = "redial" /\ ~isConnected[c]
                        THEN [redialWaits EXCEPT ![c] = @ + 1] ELSE redialWaits
      /\ UNCHANGED <<opener, tries, lastSelectedURL, isConnected, unhandled, messageListeners,
                     closedOpen, drops>>
  BY <1>1 DEF Opened, ArmedAfterOpen, AnsweredAtOpen, ownerVars, ClientOK, DialOK
<1>3. user' = user
  BY <1>1, <1>2 DEF Opened, AnsweredAtOpen, ClientOK, FreshOK
<1>4. user[c] # "none" /\ c \notin closedOpen
  BY <1>1, <1>2 DEF ClientOK, FreshOK, ClosedOK
<1>5. VarTypes'
  BY <1>2, <1>3 DEF VarTypes, dappVars
<1>6. ClientOK(c)'
  <2>1. /\ socket'[c] = "open" /\ dial'[c] = "idle" /\ user'[c] # "none"
        /\ tries'[c] = tries[c] /\ c \notin closedOpen'
    BY <1>2, <1>3, <1>4 DEF VarTypes
  <2>2. TriesOK(c)' /\ DialOK(c)' /\ FreshOK(c)' /\ ClosedOK(c)'
    BY <1>1, <2>1 DEF ClientOK, TriesOK, DialOK, FreshOK, ClosedOK
  <2>3. drops' = drops /\ redialWaits[c] \in Nat /\ drops \in Nat
    BY <1>2 DEF VarTypes
  <2>4. CASE opener[c] = "redial" /\ ~isConnected[c]
    <3>1. redialWaits'[c] = redialWaits[c] + 1
      BY <1>2, <2>4 DEF VarTypes
    <3> QED BY <1>1, <1>2, <2>1, <2>2, <2>3, <2>4, <3>1 DEF ClientOK, WaitsOK, Redialling
  <2>5. CASE ~(opener[c] = "redial" /\ ~isConnected[c])
    <3>1. redialWaits'[c] = redialWaits[c]
      BY <1>2, <2>5 DEF VarTypes
    <3> QED BY <1>1, <2>1, <2>2, <2>3, <3>1 DEF ClientOK, WaitsOK, Redialling
  <2> QED BY <2>4, <2>5
<1>7. \A d \in Clients \ {c} : Kept(d)
  BY <1>2, <1>3 DEF Kept, VarTypes
<1>8. drops <= drops' /\ closedOpen' = closedOpen
  BY <1>2 DEF VarTypes
<1> QED BY <1>2, <1>3, <1>5, <1>6, <1>7, <1>8 DEF OneClient

LEMMA OpenFailsKeeps ==
  ASSUME VarTypes, ClientsInv, NEW c \in Clients, OpenFails(c), UNCHANGED dappVars
  PROVE  /\ OneClient(c)
         /\ UNCHANGED messageListeners
         /\ \A d \in Clients : user[d] # "none" => user'[d] # "none"
         /\ \A d \in Clients : user'[d] = "resolved" => user[d] = "resolved"
<1>1. ClientOK(c)
  BY DEF ClientsInv
<1>2. /\ dial[c] = "opening" /\ user[c] # "none" /\ c \notin closedOpen
      /\ UNCHANGED <<opener, isConnected, redialWaits, messageListeners, closedOpen, drops>>
  BY <1>1 DEF OpenFails, ownerVars, ClientOK, DialOK, FreshOK, ClosedOK
<1>3. redialWaits'[c] = redialWaits[c] /\ drops' = drops /\ drops \in Nat /\ drops <= drops'
  BY <1>2 DEF VarTypes
<1>4. CASE Len(tries[c]) > 1
  <2> DEFINE order == Tail(tries[c])
  <2>1. tries[c] \in Seq(UrlSet) /\ Len(tries[c]) \in Nat /\ Len(tries[c]) <= Len(Urls)
    BY <1>1, LenProperties DEF VarTypes, ClientOK, TriesOK
  <2>2. tries[c] # <<>>
    BY <2>1, <1>4
  <2>3. order \in Seq(UrlSet) /\ Len(order) = Len(tries[c]) - 1
    BY <2>1, <2>2, HeadTailProperties
  <2>4. Len(Urls) \in Nat
    BY TransportAssumption, LenProperties
  <2>6. OpenSocket(c, order) /\ UNCHANGED <<user, unhandled>>
    BY <1>4 DEF OpenFails
  <2> HIDE DEF order
  <2>13. Len(order) >= 1 /\ Len(order) <= Len(Urls)
    BY <2>1, <2>3, <2>4, <1>4
  <2>5. order # <<>> /\ Len(order) <= Len(Urls)
    BY <2>13
  <2>7. /\ tries' \in [Clients -> Seq(UrlSet)]
        /\ lastSelectedURL' \in [Clients -> UrlSet \cup {None}]
        /\ dial' \in [Clients -> {"idle", "pause", "opening"}]
        /\ socket' \in [Clients -> {"none", "opening", "aborting", "open", "closing", "closed"}]
        /\ armed' \in [Clients -> BOOLEAN]
        /\ hs' \in [Clients -> {"none", "init", "response", "accepted"}]
        /\ tries'[c] = order /\ dial'[c] = "opening" /\ socket'[c] = "opening"
        /\ ~armed'[c]
        /\ \A d \in Clients \ {c} :
             /\ tries'[d] = tries[d] /\ dial'[d] = dial[d] /\ socket'[d] = socket[d]
             /\ armed'[d] = armed[d] /\ hs'[d] = hs[d]
    BY <2>3, <2>5, <2>6, OpenSocketTypes
  <2>8. VarTypes'
    BY <1>2, <2>6, <2>7 DEF VarTypes, dappVars
  <2>9. TriesOK(c)' /\ DialOK(c)'
    BY <2>5, <2>7 DEF TriesOK, DialOK
  <2>10. WaitsOK(c)'
    BY <1>1, <1>2, <1>3, <2>7 DEF ClientOK, WaitsOK, Redialling
  <2>11. FreshOK(c)' /\ ClosedOK(c)'
    BY <1>1, <1>2, <2>6 DEF ClientOK, FreshOK, ClosedOK
  <2>12. \A d \in Clients \ {c} : Kept(d)
    BY <1>2, <2>6, <2>7 DEF Kept
  <2> QED BY <1>2, <1>3, <2>6, <2>8, <2>9, <2>10, <2>11, <2>12 DEF OneClient, ClientOK
<1>5. CASE ~(Len(tries[c]) > 1)
  <2>1. /\ dial' = [dial EXCEPT ![c] = "idle"]
        /\ socket' = [socket EXCEPT ![c] = "closed"]
        /\ UNCHANGED <<tries, lastSelectedURL, armed, hs>>
        /\ Rejects(c, opener[c])
    BY <1>5 DEF OpenFails
  <2>2. user' = (IF opener[c] = "user" THEN [user EXCEPT ![c] = "rejected"] ELSE user)
        /\ unhandled' = (IF opener[c] = "redial" THEN [unhandled EXCEPT ![c] = TRUE] ELSE unhandled)
    BY <2>1 DEF Rejects
  <2>3. /\ user' \in [Clients -> {"none", "pending", "resolved", "rejected"}]
        /\ user'[c] # "none" /\ (user'[c] = "resolved" => user[c] = "resolved")
        /\ \A d \in Clients \ {c} : user'[d] = user[d]
    BY <1>2, <2>2 DEF VarTypes
  <2>4. unhandled' \in [Clients -> BOOLEAN]
    BY <2>2 DEF VarTypes
  <2>5. VarTypes'
    BY <1>2, <2>1, <2>3, <2>4 DEF VarTypes, dappVars
  <2>6. socket'[c] = "closed" /\ dial'[c] = "idle" /\ c \notin closedOpen'
    BY <1>2, <2>1 DEF VarTypes
  <2>7. TriesOK(c)' /\ DialOK(c)' /\ FreshOK(c)' /\ ClosedOK(c)'
    BY <1>1, <2>1, <2>3, <2>6 DEF ClientOK, TriesOK, DialOK, FreshOK, ClosedOK
  <2>8. WaitsOK(c)'
    BY <1>1, <1>3, <2>6 DEF ClientOK, WaitsOK, Redialling
  <2>9. \A d \in Clients \ {c} : Kept(d)
    BY <1>2, <2>1, <2>3 DEF Kept, VarTypes
  <2> QED BY <1>2, <1>3, <2>3, <2>5, <2>7, <2>8, <2>9 DEF OneClient, ClientOK
<1> QED BY <1>4, <1>5

LEMMA OnChallengeKeeps ==
  ASSUME VarTypes, ClientsInv, NEW c \in Clients, OnChallenge(c), UNCHANGED dappVars
  PROVE  OneClient(c) /\ UNCHANGED <<user, messageListeners>>
<1>1. /\ hs' = [hs EXCEPT ![c] = "response"]
      /\ UNCHANGED <<user, dial, opener, tries, lastSelectedURL, socket, armed, isConnected,
                     redialWaits, unhandled, messageListeners, closedOpen, drops>>
  BY DEF OnChallenge, dialVars, waitVars, ownerVars
<1>2. VarTypes'
  BY <1>1 DEF VarTypes, dappVars
<1>3. ClientOK(c)'
  BY <1>1 DEF ClientsInv, ClientOK, TriesOK, DialOK, WaitsOK, Redialling, FreshOK, ClosedOK
<1>4. \A d \in Clients \ {c} : Kept(d)
  BY <1>1 DEF Kept, VarTypes
<1>5. drops <= drops' /\ closedOpen' = closedOpen
  BY <1>1 DEF VarTypes
<1> QED BY <1>1, <1>2, <1>3, <1>4, <1>5 DEF OneClient

LEMMA OnConnectedKeeps ==
  ASSUME VarTypes, ClientsInv, NEW c \in Clients, OnConnected(c), UNCHANGED dappVars
  PROVE  /\ OneClient(c)
         /\ UNCHANGED messageListeners
         /\ \A d \in Clients : user[d] # "none" => user'[d] # "none"
         /\ \A d \in Clients : user[d] # "resolved" /\ user'[d] = "resolved"
                               => socket'[d] = "open" /\ hs'[d] = "accepted"
<1>1. ClientOK(c)
  BY DEF ClientsInv
<1>2. /\ socket[c] = "open" /\ dial[c] = "idle"
      /\ hs' = [hs EXCEPT ![c] = "accepted"]
      /\ isConnected' = [isConnected EXCEPT ![c] = TRUE]
      /\ redialWaits' = [redialWaits EXCEPT ![c] = 0]
      /\ user' = (IF UserWaits(c) THEN [user EXCEPT ![c] = "resolved"] ELSE user)
      /\ UNCHANGED <<dial, opener, tries, lastSelectedURL, socket, armed, unhandled,
                     messageListeners, closedOpen, drops>>
  BY <1>1 DEF OnConnected, ownerVars, ClientOK, DialOK, VarTypes
<1>3. user[c] # "none" /\ c \notin closedOpen
  BY <1>1, <1>2 DEF ClientOK, FreshOK, ClosedOK
<1>4. /\ user' \in [Clients -> {"none", "pending", "resolved", "rejected"}]
      /\ user'[c] # "none"
      /\ \A d \in Clients \ {c} : user'[d] = user[d]
  BY <1>2, <1>3 DEF VarTypes
<1>5. VarTypes'
  BY <1>2, <1>4 DEF VarTypes, dappVars
<1>6. redialWaits'[c] = 0 /\ drops' = drops /\ drops \in Nat
  BY <1>2 DEF VarTypes
<1>7. TriesOK(c)' /\ DialOK(c)'
  BY <1>1, <1>2 DEF ClientOK, TriesOK, DialOK
<1>8. WaitsOK(c)' /\ FreshOK(c)' /\ ClosedOK(c)'
  BY <1>2, <1>3, <1>4, <1>6 DEF WaitsOK, Redialling, FreshOK, ClosedOK
<1>9. \A d \in Clients \ {c} : Kept(d)
  BY <1>2, <1>4 DEF Kept, VarTypes
<1>10. drops <= drops' /\ closedOpen' = closedOpen
  BY <1>2, <1>6
<1>11. socket'[c] = "open" /\ hs'[c] = "accepted"
  BY <1>2 DEF VarTypes
<1> QED BY <1>2, <1>4, <1>5, <1>7, <1>8, <1>9, <1>10, <1>11 DEF OneClient, ClientOK

LEMMA ConnectTimeoutKeeps ==
  ASSUME VarTypes, ClientsInv, NEW c \in Clients, ConnectTimeout(c), UNCHANGED dappVars
  PROVE  /\ OneClient(c)
         /\ UNCHANGED messageListeners
         /\ \A d \in Clients : user[d] # "none" => user'[d] # "none"
         /\ \A d \in Clients : user'[d] = "resolved" => user[d] = "resolved"
<1>1. ClientOK(c)
  BY DEF ClientsInv
<1>2. UNCHANGED <<dial, opener, tries, lastSelectedURL, socket, armed, hs, isConnected,
                  messageListeners, closedOpen, drops>>
  BY DEF ConnectTimeout, ownerVars, socketVars
<1>3. \/ /\ user[c] = "pending" /\ user' = [user EXCEPT ![c] = "rejected"]
         /\ UNCHANGED <<redialWaits, unhandled>>
      \/ /\ redialWaits[c] > 0 /\ redialWaits' = [redialWaits EXCEPT ![c] = @ - 1]
         /\ user' = user /\ unhandled' = [unhandled EXCEPT ![c] = TRUE]
  BY DEF ConnectTimeout, TimesOut, UserWaits, Rejects
<1>4. /\ user' \in [Clients -> {"none", "pending", "resolved", "rejected"}]
      /\ user[c] # "none" => user'[c] # "none"
      /\ user'[c] = "none" => user[c] = "none"
      /\ user'[c] = "resolved" => user[c] = "resolved"
      /\ \A d \in Clients \ {c} : user'[d] = user[d]
  BY <1>3 DEF VarTypes
<1>5. /\ redialWaits' \in [Clients -> Nat] /\ redialWaits'[c] <= redialWaits[c]
      /\ \A d \in Clients \ {c} : redialWaits'[d] = redialWaits[d]
  <2>1. redialWaits \in [Clients -> Nat] /\ redialWaits[c] \in Nat
    BY DEF VarTypes
  <2>2. CASE redialWaits' = redialWaits
    BY <2>1, <2>2
  <2>3. CASE redialWaits[c] > 0 /\ redialWaits' = [redialWaits EXCEPT ![c] = @ - 1]
    <3>1. redialWaits[c] - 1 \in Nat /\ redialWaits[c] - 1 <= redialWaits[c]
      BY <2>1, <2>3
    <3>2. redialWaits'[c] = redialWaits[c] - 1
      BY <2>1, <2>3
    <3>3. redialWaits' \in [Clients -> Nat]
      BY <2>1, <2>3, <3>1
    <3> QED BY <2>1, <2>3, <3>1, <3>2, <3>3
  <2> QED BY <1>3, <2>2, <2>3
<1>6. unhandled' \in [Clients -> BOOLEAN]
  BY <1>3 DEF VarTypes
<1>7. VarTypes'
  BY <1>2, <1>4, <1>5, <1>6 DEF VarTypes, dappVars
<1>8. redialWaits'[c] \in Nat /\ redialWaits[c] \in Nat /\ drops' = drops /\ drops \in Nat
  BY <1>2, <1>5 DEF VarTypes
<1>9. TriesOK(c)' /\ DialOK(c)' /\ FreshOK(c)' /\ ClosedOK(c)'
  BY <1>1, <1>2, <1>4 DEF ClientOK, TriesOK, DialOK, FreshOK, ClosedOK
<1>10. WaitsOK(c)'
  BY <1>1, <1>2, <1>5, <1>8 DEF ClientOK, WaitsOK, Redialling
<1>11. \A d \in Clients \ {c} : Kept(d)
  BY <1>2, <1>4, <1>5 DEF Kept
<1>12. drops <= drops' /\ closedOpen' = closedOpen
  BY <1>2, <1>8
<1> QED BY <1>2, <1>4, <1>7, <1>9, <1>10, <1>11, <1>12 DEF OneClient, ClientOK

LEMMA OnCloseKeeps ==
  ASSUME VarTypes, ClientsInv, NEW c \in Clients, OnClose(c), UNCHANGED dappVars
  PROVE  OneClient(c) /\ UNCHANGED <<user, messageListeners>>
<1>1. ClientOK(c)
  BY DEF ClientsInv
<1>2. /\ socket[c] \in {"open", "closing"} /\ dial[c] = "idle"
      /\ socket' = [socket EXCEPT ![c] = "closed"]
      /\ hs' = [hs EXCEPT ![c] = "none"]
      /\ dial' = (IF armed[c] THEN [dial EXCEPT ![c] = "pause"] ELSE dial)
      /\ UNCHANGED <<user, opener, tries, lastSelectedURL, armed, isConnected, redialWaits,
                     unhandled, messageListeners, closedOpen>>
  BY <1>1 DEF OnClose, ownerVars, waitVars, ClientOK, DialOK, VarTypes
<1>3. /\ drops' \in 0..MaxDrops /\ drops <= drops' /\ drops \in Nat
      /\ socket[c] = "open" => drops' = drops + 1
  BY TransportAssumption DEF OnClose, VarTypes
<1>4. /\ dial' \in [Clients -> {"idle", "pause", "opening"}]
      /\ dial'[c] \in {"idle", "pause"} /\ (dial'[c] = "pause" => armed[c])
      /\ \A d \in Clients \ {c} : dial'[d] = dial[d]
  BY <1>2 DEF VarTypes
<1>5. VarTypes'
  <2> HIDE DEF VarTypes
  <2>1. drops' \in 0..MaxDrops /\ dial' \in [Clients -> {"idle", "pause", "opening"}]
    BY <1>3, <1>4
  <2> QED BY <1>2, <2>1 DEF VarTypes, dappVars
<1>6. socket'[c] = "closed" /\ redialWaits[c] \in Nat /\ drops' \in Nat
  BY <1>2, <1>3 DEF VarTypes
<1>7. user[c] # "none"
  BY <1>1, <1>2 DEF ClientOK, FreshOK
<1>8. TriesOK(c)' /\ DialOK(c)'
  BY <1>1, <1>2, <1>4, <1>6 DEF ClientOK, TriesOK, DialOK
<1>9. FreshOK(c)' /\ ClosedOK(c)'
  BY <1>1, <1>2, <1>4, <1>6, <1>7 DEF ClientOK, FreshOK, ClosedOK
<1>10. redialWaits[c] <= drops /\ (dial'[c] = "pause" => socket[c] = "open")
  BY <1>1, <1>2, <1>4 DEF ClientOK, WaitsOK, DialOK
<1>11. redialWaits[c] <= drops' /\ (dial'[c] = "pause" => redialWaits[c] + 1 <= drops')
  BY <1>3, <1>6, <1>10
<1>12. WaitsOK(c)'
  BY <1>2, <1>4, <1>11 DEF WaitsOK, Redialling
<1>13. \A d \in Clients \ {c} : Kept(d)
  BY <1>2, <1>4 DEF Kept, VarTypes
<1> QED BY <1>2, <1>3, <1>5, <1>8, <1>9, <1>12, <1>13 DEF OneClient, ClientOK

-----------------------------------------------------------------------------
\* The calls of the application, and what start() goes on to do.
LEMMA StartKeeps ==
  ASSUME VarTypes, ClientsInv, ListenersInv, CurrentInv, NEW c \in Clients, Start(c)
  PROVE  /\ OneClient(c) /\ ListenersInv' /\ CurrentInv'
         /\ \A d \in Clients : user'[d] = "resolved" => user[d] = "resolved"
<1> DEFINE order == UrlOrder(lastSelectedURL[c])
<1>1. order \in Seq(UrlSet) /\ order # <<>> /\ Len(order) <= Len(Urls)
  <2>1. lastSelectedURL[c] \in UrlSet \cup {None}
    BY DEF VarTypes
  <2> HIDE DEF VarTypes
  <2> QED BY <2>1, UrlOrderTypes
<1>2. /\ OpenSocket(c, order) /\ user[c] = "none" /\ current = None
      /\ opener' = [opener EXCEPT ![c] = "user"]
      /\ user' = [user EXCEPT ![c] = "pending"]
      /\ messageListeners' = [messageListeners EXCEPT ![c] = messageListenerBuffer]
      /\ messageListenerBuffer' = {} /\ starting' = starting \cup {c}
      /\ UNCHANGED <<isConnected, redialWaits, unhandled, closedOpen, drops, current, registered>>
  BY DEF Start, Connect, waitVars, BufferAfterStart
<1> HIDE DEF order
<1>3. /\ tries' \in [Clients -> Seq(UrlSet)]
      /\ lastSelectedURL' \in [Clients -> UrlSet \cup {None}]
      /\ dial' \in [Clients -> {"idle", "pause", "opening"}]
      /\ socket' \in [Clients -> {"none", "opening", "aborting", "open", "closing", "closed"}]
      /\ armed' \in [Clients -> BOOLEAN]
      /\ hs' \in [Clients -> {"none", "init", "response", "accepted"}]
      /\ tries'[c] = order /\ dial'[c] = "opening" /\ socket'[c] = "opening"
      /\ ~armed'[c]
      /\ \A d \in Clients \ {c} :
           /\ tries'[d] = tries[d] /\ dial'[d] = dial[d] /\ socket'[d] = socket[d]
           /\ armed'[d] = armed[d] /\ hs'[d] = hs[d]
  BY <1>1, <1>2, OpenSocketTypes
<1>4. /\ opener' \in [Clients -> {"user", "redial"}] /\ opener'[c] = "user"
      /\ user' \in [Clients -> {"none", "pending", "resolved", "rejected"}]
      /\ user'[c] = "pending"
      /\ \A d \in Clients \ {c} : opener'[d] = opener[d] /\ user'[d] = user[d]
  BY <1>2 DEF VarTypes
<1>5. /\ messageListeners' \in [Clients -> SUBSET Listeners]
      /\ messageListenerBuffer' \subseteq Listeners /\ starting' \subseteq Clients
  BY <1>2 DEF VarTypes
<1>6. VarTypes'
  BY <1>2, <1>3, <1>4, <1>5 DEF VarTypes
<1>7. ClientOK(c)'
  <2>1. ClientOK(c)
    BY DEF ClientsInv
  <2>2. TriesOK(c)' /\ DialOK(c)'
    BY <1>1, <1>3 DEF TriesOK, DialOK
  <2>3. WaitsOK(c)'
    BY <2>1, <1>2, <1>3, <1>4 DEF ClientOK, WaitsOK, Redialling
  <2>4. ~isConnected[c] /\ c \notin closedOpen
    BY <2>1, <1>2 DEF ClientOK, FreshOK, ClosedOK
  <2>5. FreshOK(c)' /\ ClosedOK(c)'
    BY <2>4, <1>2, <1>4 DEF FreshOK, ClosedOK
  <2> QED BY <2>2, <2>3, <2>5 DEF ClientOK
<1>8. \A d \in Clients \ {c} : Kept(d)
  BY <1>2, <1>3, <1>4 DEF Kept
<1>9. drops <= drops' /\ closedOpen' = closedOpen
  BY <1>2 DEF VarTypes
<1>10. ListenersInv'
  <2>1. /\ messageListeners'[c] = messageListenerBuffer
        /\ \A d \in Clients \ {c} : messageListeners'[d] = messageListeners[d]
    BY <1>2 DEF VarTypes
  <2> QED BY <1>2, <2>1 DEF ListenersInv, NoListenerTwice
<1>11. CurrentInv'
  BY <1>2 DEF CurrentInv
<1> QED BY <1>4, <1>6, <1>7, <1>8, <1>9, <1>10, <1>11 DEF OneClient

LEMMA StartedKeeps ==
  ASSUME IInv, NEW c \in Clients, Started(c)
  PROVE  IInv' /\ user' = user
<1>1. UNCHANGED transportVars /\ UNCHANGED <<messageListenerBuffer, registered>>
      /\ starting' = starting \ {c}
      /\ current' = (IF user[c] = "resolved" THEN c ELSE current)
  BY DEF Started
<1>2. VarTypes'
  <2>1. VarTypes
    BY DEF IInv
  <2>2. current' \in Clients \cup {None} /\ starting' \subseteq Clients
    BY <1>1, <2>1 DEF VarTypes
  <2> QED BY <1>1, <2>1, <2>2
      DEF VarTypes, transportVars, dialVars, socketVars, waitVars, ownerVars
<1>3. ClientsInv'
  BY <1>1 DEF IInv, ClientsInv, ClientOK, TriesOK, DialOK, WaitsOK, Redialling, FreshOK, ClosedOK,
              transportVars, dialVars, socketVars, waitVars, ownerVars
<1>4. CurrentInv'
  BY <1>1 DEF IInv, CurrentInv, transportVars, dialVars
<1>5. ListenersInv'
  BY <1>1 DEF IInv, ListenersInv, NoListenerTwice, transportVars, ownerVars
<1> QED BY <1>1, <1>2, <1>3, <1>4, <1>5 DEF IInv, transportVars, dialVars

LEMMA OnMessageKeeps ==
  ASSUME IInv, NEW l \in Listeners, OnMessage(l)
  PROVE  IInv' /\ user' = user
<1>1. /\ l \notin registered /\ registered' = registered \cup {l}
      /\ UNCHANGED <<user, dial, opener, tries, lastSelectedURL, socket, armed, hs, isConnected,
                     redialWaits, unhandled, closedOpen, drops, current, starting>>
  BY DEF OnMessage, dialVars, socketVars, waitVars
<1>2. VarTypes /\ ListenersInv
  BY DEF IInv
<1>3. ClientsInv' /\ CurrentInv'
  BY <1>1 DEF IInv, ClientsInv, ClientOK, TriesOK, DialOK, WaitsOK, Redialling, FreshOK, ClosedOK,
              CurrentInv
<1>4. CASE current = None
  <2>1. messageListenerBuffer' = messageListenerBuffer \cup {l}
        /\ messageListeners' = messageListeners
    BY <1>4 DEF OnMessage
  <2>2. VarTypes'
    BY <1>1, <1>2, <2>1 DEF VarTypes
  <2>3. ListenersInv'
    BY <1>1, <1>2, <2>1 DEF ListenersInv, NoListenerTwice
  <2> QED BY <1>1, <1>3, <2>2, <2>3 DEF IInv
<1>5. CASE current # None
  <2>1. messageListeners' = [messageListeners EXCEPT ![current] = @ \cup {l}]
        /\ messageListenerBuffer' = messageListenerBuffer
    BY <1>5 DEF OnMessage
  <2>2. current \in Clients
    BY <1>2, <1>5 DEF VarTypes
  <2>3. /\ messageListeners' \in [Clients -> SUBSET Listeners]
        /\ messageListeners'[current] = messageListeners[current] \cup {l}
        /\ \A d \in Clients \ {current} : messageListeners'[d] = messageListeners[d]
    BY <1>2, <2>1, <2>2 DEF VarTypes
  <2>4. VarTypes'
    BY <1>1, <1>2, <2>1, <2>3 DEF VarTypes
  <2>5. ListenersInv'
    BY <1>1, <1>2, <2>1, <2>2, <2>3 DEF ListenersInv, NoListenerTwice
  <2> QED BY <1>1, <1>3, <2>4, <2>5 DEF IInv
<1> QED BY <1>4, <1>5

LEMMA CloseClientKeeps ==
  ASSUME IInv, CloseClient, NEW c \in Clients, current = c
  PROVE  IInv' /\ user' = user
<1>1. VarTypes /\ ClientsInv /\ ListenersInv /\ user[c] # "none"
  BY TransportAssumption DEF IInv, CurrentInv, CloseClient
<1>2. ClientOK(c)
  BY <1>1 DEF ClientsInv
<1>3. /\ messageListeners' = [messageListeners EXCEPT ![c] = {}]
      /\ armed' = [armed EXCEPT ![c] = FALSE]
      /\ socket' = [socket EXCEPT ![c] = CASE @ = "open" -> "closing"
                                           [] @ = "opening" -> "aborting"
                                           [] OTHER -> @]
      /\ closedOpen' = (IF socket[c] = "open" THEN closedOpen \cup {c} ELSE closedOpen)
      /\ current' = None /\ registered' = registered \ messageListeners[c]
      /\ UNCHANGED <<starting, messageListenerBuffer, user, dial, opener, tries,
                     lastSelectedURL, hs, isConnected, redialWaits, unhandled, drops>>
  BY DEF CloseClient, Close, ArmedAfterClose, dialVars, waitVars
<1>4. /\ socket' \in [Clients -> {"none", "opening", "aborting", "open", "closing", "closed"}]
      /\ socket[c] = "open" => socket'[c] = "closing"
      /\ socket[c] = "opening" => socket'[c] = "aborting"
      /\ socket[c] \notin {"open", "opening"} => socket'[c] = socket[c]
      /\ \A d \in Clients \ {c} : socket'[d] = socket[d]
  <2>1. socket[c] \in {"none", "opening", "aborting", "open", "closing", "closed"}
    BY <1>1 DEF VarTypes
  <2>2. socket \in [Clients -> {"none", "opening", "aborting", "open", "closing", "closed"}]
    BY <1>1 DEF VarTypes
  <2>3. CASE socket[c] = "open"
    BY <1>1, <1>3, <2>2, <2>3
  <2>4. CASE socket[c] = "opening"
    BY <1>1, <1>3, <2>2, <2>4
  <2>5. CASE socket[c] \notin {"open", "opening"}
    BY <1>1, <1>3, <2>1, <2>2, <2>5
  <2> QED BY <2>3, <2>4, <2>5
<1>5. /\ armed' \in [Clients -> BOOLEAN] /\ ~armed'[c]
      /\ \A d \in Clients \ {c} : armed'[d] = armed[d]
  BY <1>1, <1>3 DEF VarTypes
<1>6. /\ messageListeners' \in [Clients -> SUBSET Listeners] /\ messageListeners'[c] = {}
      /\ \A d \in Clients \ {c} : messageListeners'[d] = messageListeners[d]
  BY <1>1, <1>3 DEF VarTypes
<1>7. /\ closedOpen' \subseteq Clients
      /\ \A d \in Clients \ {c} : d \in closedOpen' => d \in closedOpen
  BY <1>1, <1>3 DEF VarTypes
<1>8. VarTypes'
  BY <1>1, <1>3, <1>4, <1>5, <1>6, <1>7 DEF VarTypes
<1>9. TriesOK(c)' /\ DialOK(c)' /\ WaitsOK(c)' /\ FreshOK(c)'
  BY <1>1, <1>2, <1>3, <1>4, <1>5
     DEF ClientOK, TriesOK, DialOK, WaitsOK, Redialling, FreshOK
<1>10. ClosedOK(c)'
  <2>1. CASE socket[c] = "open"
    <3>1. dial[c] = "idle"
      BY <1>1, <1>2, <2>1 DEF ClientOK, DialOK, VarTypes
    <3> QED BY <1>1, <1>3, <1>4, <1>5, <2>1, <3>1 DEF ClosedOK
  <2>2. CASE socket[c] # "open"
    BY <1>1, <1>2, <1>3, <1>4, <1>5, <2>2 DEF ClientOK, ClosedOK
  <2> QED BY <2>1, <2>2
<1>11. \A d \in Clients \ {c} : Kept(d)
  BY <1>3, <1>4, <1>5 DEF Kept
<1>12. drops <= drops'
  BY <1>1, <1>3 DEF VarTypes
<1>13. ClientsInv'
  BY <1>1, <1>7, <1>8, <1>9, <1>10, <1>11, <1>12, OneClientKeeps DEF OneClient, ClientOK
<1>14. ListenersInv'
  BY <1>1, <1>3, <1>6 DEF ListenersInv, NoListenerTwice
<1>15. CurrentInv'
  BY <1>3 DEF CurrentInv
<1> QED BY <1>3, <1>8, <1>13, <1>14, <1>15 DEF IInv

-----------------------------------------------------------------------------
\* connect() is answered with the socket accepted, and what was called stays called.
Answered(c) ==
  user[c] # "resolved" /\ user'[c] = "resolved" => socket'[c] = "open" /\ hs'[c] = "accepted"

LEMMA TransportStepKeeps ==
  ASSUME IInv, NEW c \in Clients, TransportStep(c), UNCHANGED dappVars
  PROVE  IInv' /\ \A d \in Clients : Answered(d)
<1>1. VarTypes /\ ClientsInv
  BY DEF IInv
<1>2. /\ OneClient(c) /\ UNCHANGED messageListeners
      /\ \A d \in Clients : user[d] # "none" => user'[d] # "none"
      /\ \A d \in Clients : Answered(d)
  <2>1. CASE Redial(c)
    BY <1>1, <2>1, RedialKeeps DEF Answered
  <2>2. CASE Opened(c)
    BY <1>1, <2>2, OpenedKeeps DEF Answered
  <2>3. CASE OpenFails(c)
    BY <1>1, <2>3, OpenFailsKeeps DEF Answered
  <2>4. CASE OnChallenge(c)
    BY <1>1, <2>4, OnChallengeKeeps DEF Answered
  <2>5. CASE OnConnected(c)
    BY <1>1, <2>5, OnConnectedKeeps DEF Answered
  <2>6. CASE ConnectTimeout(c)
    BY <1>1, <2>6, ConnectTimeoutKeeps DEF Answered
  <2>7. CASE OnClose(c)
    BY <1>1, <2>7, OnCloseKeeps DEF Answered
  <2> QED BY <2>1, <2>2, <2>3, <2>4, <2>5, <2>6, <2>7 DEF TransportStep
<1>3. VarTypes' /\ ClientsInv'
  BY <1>1, <1>2, OneClientKeeps DEF OneClient
<1>4. CurrentInv'
  BY <1>1, <1>2 DEF IInv, CurrentInv, VarTypes, dappVars
<1>5. ListenersInv'
  BY <1>2 DEF IInv, ListenersInv, NoListenerTwice, dappVars
<1> QED BY <1>2, <1>3, <1>4, <1>5 DEF IInv

LEMMA NextKeeps ==
  ASSUME IInv, [Next]_vars
  PROVE  IInv' /\ \A c \in Clients : Answered(c)
<1>1. VarTypes /\ ClientsInv /\ CurrentInv /\ ListenersInv
  BY DEF IInv
<1>2. ASSUME NEW c \in Clients, Start(c) PROVE IInv' /\ \A d \in Clients : Answered(d)
  <2>1. OneClient(c) /\ ListenersInv' /\ CurrentInv'
        /\ \A d \in Clients : user'[d] = "resolved" => user[d] = "resolved"
    BY <1>1, <1>2, StartKeeps
  <2> QED BY <1>1, <2>1, OneClientKeeps DEF OneClient, IInv, Answered
<1>3. ASSUME NEW c \in Clients, Started(c) PROVE IInv' /\ \A d \in Clients : Answered(d)
  BY <1>3, StartedKeeps DEF Answered
<1>4. ASSUME NEW c \in Clients, TransportStep(c), UNCHANGED dappVars
      PROVE  IInv' /\ \A d \in Clients : Answered(d)
  BY <1>4, TransportStepKeeps
<1>5. ASSUME NEW l \in Listeners, OnMessage(l) PROVE IInv' /\ \A d \in Clients : Answered(d)
  BY <1>5, OnMessageKeeps DEF Answered
<1>6. ASSUME CloseClient PROVE IInv' /\ \A d \in Clients : Answered(d)
  <2>1. PICK c \in Clients : current = c
    BY <1>1, <1>6 DEF CloseClient, VarTypes
  <2> QED BY <1>6, <2>1, CloseClientKeeps DEF Answered
<1>7. ASSUME UNCHANGED vars PROVE IInv' /\ \A d \in Clients : Answered(d)
  <2> USE <1>7 DEF vars, transportVars, dialVars, socketVars, waitVars, ownerVars, dappVars
  <2>1. VarTypes'
    BY <1>1 DEF VarTypes
  <2>2. ClientsInv'
    BY <1>1
       DEF ClientsInv, ClientOK, TriesOK, DialOK, WaitsOK, Redialling, FreshOK, ClosedOK
  <2>3. CurrentInv' /\ ListenersInv'
    BY <1>1 DEF CurrentInv, ListenersInv, NoListenerTwice
  <2> QED BY <2>1, <2>2, <2>3 DEF IInv, Answered
<1> QED BY <1>2, <1>3, <1>4, <1>5, <1>6, <1>7 DEF Next

-----------------------------------------------------------------------------
\* The inductive invariant: where each client's dialling and socket are, how
\* many sockets its redials stand for, and where each listener is.
THEOREM Inductive == Spec => []IInv
<1>1. Init => IInv
  BY InitIInv
<1>2. IInv /\ [Next]_vars => IInv'
  BY NextKeeps
<1> QED BY <1>1, <1>2, PTL DEF Spec

\* Every state a client can reach, with any number of transports, listeners
\* and URLs, is well typed; in particular connect() always has a URL to try
\* while it opens a socket, and never more than this.urls has.
THEOREM TypeCorrect == Spec => []TypeOK
<1>1. IInv => TypeOK
  BY TypesHold DEF IInv
<1> QED BY <1>1, Inductive, PTL

\* A transport closed while its socket was open (close(), client.ts:111) is
\* never dialled again.
THEOREM Closed == Spec => []ClosedStaysClosed
<1>1. IInv => ClosedStaysClosed
  <2> SUFFICES ASSUME IInv, NEW c \in closedOpen
               PROVE  socket[c] \in {"closing", "closed"} /\ dial[c] = "idle"
    BY DEF ClosedStaysClosed
  <2>1. c \in Clients
    BY DEF IInv, VarTypes
  <2> QED BY <2>1 DEF IInv, ClientsInv, ClientOK, ClosedOK
<1> QED BY <1>1, Inductive, PTL

\* Each listener is attached to one transport at most, however often start()
\* and close() are called (dapp client.ts).
THEOREM ListensOnce == Spec => []NoListenerTwice
<1>1. IInv => NoListenerTwice
  BY DEF IInv, ListenersInv
<1> QED BY <1>1, Inductive, PTL

\* connect() fulfils only when the server has accepted the socket the client
\* holds at that moment (client.ts:125).
THEOREM AnsweredByServer == Spec => ConnectAnswered
<1>1. IInv /\ [Next]_vars
        => [\A c \in Clients : user[c] # "resolved" /\ user'[c] = "resolved"
                               => socket'[c] = "open" /\ hs'[c] = "accepted"]_vars
  BY NextKeeps DEF Answered
<1> QED BY <1>1, Inductive, PTL DEF Spec, ConnectAnswered

-----------------------------------------------------------------------------
(* The bytes of a frame.                                                     *)

Bytes == Seq(Nat)
Fixed(n) == {s \in Bytes : Len(s) = n}

\* p is what s has between a and n.
Between(p, s, a, n) ==
  /\ p \in Bytes
  /\ Len(p) = IF a < n THEN n - a ELSE 0
  /\ \A i \in 1..Len(p) : p[i] = s[a + i]

\* Part of a sequence of bytes, element by element.
LEMMA PartElements ==
  ASSUME NEW s \in Bytes, NEW a \in Nat, NEW b \in Nat
  PROVE  Between(Part(s, a, b), s, a, Lesser(b, Len(s)))
<1> DEFINE n == Lesser(b, Len(s))
<1>1. Len(s) \in Nat /\ n \in Nat /\ n <= Len(s)
  BY DEF Lesser, Bytes
<1>2. \A i \in (a+1)..n : s[i] \in Nat
  BY <1>1, ElementOfSeq DEF Bytes
<1>3. Part(s, a, b) = SubSeq(s, a + 1, n)
  BY DEF Part
<1> HIDE DEF n
<1>4. /\ SubSeq(s, a + 1, n) \in Seq(Nat)
      /\ Len(SubSeq(s, a + 1, n)) = IF a + 1 <= n THEN n - (a + 1) + 1 ELSE 0
      /\ \A i \in 1..(n - (a + 1) + 1) : SubSeq(s, a + 1, n)[i] = s[(a + 1) + i - 1]
  BY <1>1, <1>2, SubSeqProperties, a + 1 \in Int, n \in Int
<1>5. Len(Part(s, a, b)) = IF a < n THEN n - a ELSE 0
  BY <1>1, <1>3, <1>4
<1>6. ASSUME NEW i \in 1..Len(Part(s, a, b)) PROVE Part(s, a, b)[i] = s[a + i]
  BY <1>1, <1>3, <1>4, <1>5
<1> QED BY <1>3, <1>4, <1>5, <1>6 DEF n, Bytes, Between

\* Rest is the part up to the end.
LEMMA RestIsPart ==
  ASSUME NEW s \in Bytes, NEW a \in Nat
  PROVE  Rest(s, a) = Part(s, a, Len(s))
BY DEF Rest, Part, Lesser, Bytes

\* What stands at the front of a frame is read from there.
LEMMA FrontRead ==
  ASSUME NEW s \in Bytes, NEW t \in Bytes
  PROVE  Part(s \o t, 0, Len(s)) = s /\ Rest(s \o t, Len(s)) = t
<1>1. /\ s \o t \in Bytes /\ Len(s \o t) = Len(s) + Len(t) /\ Len(s) \in Nat /\ Len(t) \in Nat
      /\ \A i \in 1..(Len(s) + Len(t)) : (s \o t)[i] = IF i <= Len(s) THEN s[i] ELSE t[i - Len(s)]
  BY ConcatProperties, LenProperties DEF Bytes
<1>2. Part(s \o t, 0, Len(s)) = s
  <2> DEFINE p == Part(s \o t, 0, Len(s))
  <2>1. p \in Bytes /\ Len(p) = Len(s) /\ \A i \in 1..Len(p) : p[i] = (s \o t)[0 + i]
    <3>1. Lesser(Len(s), Len(s \o t)) = Len(s)
      BY <1>1 DEF Lesser
    <3> HIDE DEF p
    <3>2. Between(p, s \o t, 0, Len(s))
      <4>1. p = Part(s \o t, 0, Len(s)) /\ 0 \in Nat
        BY DEF p
      <4> QED BY <1>1, <3>1, <4>1, PartElements
    <3>3. Len(p) = Len(s)
      BY <1>1, <3>2 DEF Between
    <3> QED BY <3>2, <3>3 DEF Between
  <2> HIDE DEF p
  <2>2. \A i \in 1..Len(p) : p[i] = s[i]
    BY <1>1, <2>1
  <2>3. p = s
    BY <2>1, <2>2, SeqEqual DEF Bytes
  <2> QED BY <2>3 DEF p
<1>3. Rest(s \o t, Len(s)) = t
  <2> DEFINE p == Rest(s \o t, Len(s))
  <2>1. p = Part(s \o t, Len(s), Len(s) + Len(t))
    BY <1>1, RestIsPart
  <2>2. p \in Bytes /\ Len(p) = Len(t) /\ \A i \in 1..Len(p) : p[i] = (s \o t)[Len(s) + i]
    <3>1. Lesser(Len(s) + Len(t), Len(s \o t)) = Len(s) + Len(t)
      BY <1>1 DEF Lesser
    <3> HIDE DEF p
    <3>2. Between(p, s \o t, Len(s), Len(s) + Len(t))
      BY <1>1, <2>1, <3>1, PartElements, Len(s) + Len(t) \in Nat
    <3>3. Len(p) = Len(t)
      <4>1. CASE Len(t) = 0
        BY <1>1, <3>2, <4>1 DEF Between
      <4>2. CASE Len(t) > 0
        BY <1>1, <3>2, <4>2 DEF Between
      <4> QED BY <1>1, <4>1, <4>2
    <3> QED BY <3>2, <3>3 DEF Between
  <2> HIDE DEF p
  <2>3. \A i \in 1..Len(p) : p[i] = t[i]
    <3> TAKE i \in 1..Len(p)
    <3>1. Len(s) + i \in 1..(Len(s) + Len(t)) /\ ~(Len(s) + i <= Len(s)) /\ Len(s) + i - Len(s) = i
      BY <1>1, <2>2
    <3> QED BY <1>1, <2>2, <3>1
  <2>4. p = t
    BY <2>2, <2>3, SeqEqual DEF Bytes
  <2> QED BY <2>4 DEF p
<1> QED BY <1>2, <1>3

\* And what stands behind it, at as much later a place.
LEMMA BehindRead ==
  ASSUME NEW s \in Bytes, NEW t \in Bytes, NEW a \in Nat, NEW b \in Nat
  PROVE  Part(s \o t, Len(s) + a, Len(s) + b) = Part(t, a, b)
<1>1. /\ s \o t \in Bytes /\ Len(s \o t) = Len(s) + Len(t) /\ Len(s) \in Nat /\ Len(t) \in Nat
      /\ \A i \in 1..(Len(s) + Len(t)) : (s \o t)[i] = IF i <= Len(s) THEN s[i] ELSE t[i - Len(s)]
  BY ConcatProperties, LenProperties DEF Bytes
<1> DEFINE p == Part(s \o t, Len(s) + a, Len(s) + b)
           q == Part(t, a, b)
           n == Lesser(b, Len(t))
<1>2. Lesser(Len(s) + b, Len(s \o t)) = Len(s) + n /\ n \in Nat /\ n <= Len(t)
  BY <1>1 DEF Lesser
<1>3. Between(q, t, a, n)
  BY PartElements
<1>4. Between(p, s \o t, Len(s) + a, Len(s) + n)
  <2>1. Len(s) + a \in Nat /\ Len(s) + b \in Nat
    BY <1>1
  <2> HIDE DEF n, p
  <2>2. p = Part(s \o t, Len(s) + a, Len(s) + b)
    BY DEF p
  <2> QED BY <2>1, <2>2, <1>2, <1>1, PartElements
<1> HIDE DEF p, q, n
<1>5. Len(p) = Len(q)
  BY <1>1, <1>2, <1>3, <1>4 DEF Between
<1>6. \A i \in 1..Len(p) : p[i] = q[i]
  <2> TAKE i \in 1..Len(p)
  <2>1. /\ (Len(s) + a) + i \in 1..(Len(s) + Len(t)) /\ ~((Len(s) + a) + i <= Len(s))
        /\ (Len(s) + a) + i - Len(s) = a + i
    BY <1>1, <1>2, <1>3, <1>5 DEF Between
  <2> QED BY <1>1, <1>3, <1>4, <1>5, <2>1 DEF Between
<1>7. p = q
  BY <1>3, <1>4, <1>5, <1>6, SeqEqual DEF Bytes, Between
<1> QED BY <1>7 DEF p, q

\* The same for what is left behind.
LEMMA RestBehind ==
  ASSUME NEW s \in Bytes, NEW t \in Bytes, NEW a \in Nat
  PROVE  Rest(s \o t, Len(s) + a) = Rest(t, a)
<1>1. s \o t \in Bytes /\ Len(s \o t) = Len(s) + Len(t) /\ Len(s) \in Nat /\ Len(t) \in Nat
  BY ConcatProperties, LenProperties DEF Bytes
<1>2. Rest(s \o t, Len(s) + a) = Part(s \o t, Len(s) + a, Len(s) + Len(t))
  BY <1>1, RestIsPart, Len(s) + a \in Nat
<1>3. Part(s \o t, Len(s) + a, Len(s) + Len(t)) = Part(t, a, Len(t))
  BY <1>1, BehindRead
<1>4. Rest(t, a) = Part(t, a, Len(t))
  BY RestIsPart
<1> QED BY <1>2, <1>3, <1>4

\* Neighbouring parts of a frame, of any length, make up what they are of.
LEMMA PartsJoin ==
  ASSUME NEW s \in Bytes, NEW a \in Nat, NEW b \in Nat, a <= b
  PROVE  /\ Part(s, 0, a) \o Part(s, a, b) = Part(s, 0, b)
         /\ Part(s, a, b) \o Rest(s, b) = Rest(s, a)
         /\ Part(s, 0, a) \o Rest(s, a) = s
<1>1. Len(s) \in Nat
  BY DEF Bytes
<1>2. ASSUME NEW x \in Nat, NEW y \in Nat, NEW z \in Nat, x <= y, y <= z
      PROVE  Part(s, x, y) \o Part(s, y, z) = Part(s, x, z)
  <2> DEFINE p == Part(s, x, y)
             q == Part(s, y, z)
             r == Part(s, x, z)
  <2>1. Between(p, s, x, Lesser(y, Len(s)))
    BY PartElements
  <2>2. Between(q, s, y, Lesser(z, Len(s)))
    BY PartElements
  <2>3. Between(r, s, x, Lesser(z, Len(s)))
    BY PartElements
  <2> HIDE DEF p, q, r
  <2>4. /\ p \o q \in Bytes /\ Len(p \o q) = Len(p) + Len(q)
        /\ \A i \in 1..(Len(p) + Len(q)) : (p \o q)[i] = IF i <= Len(p) THEN p[i] ELSE q[i - Len(p)]
    BY <2>1, <2>2, ConcatProperties DEF Bytes, Between
  <2>5. Len(p) + Len(q) = Len(r) /\ (Len(q) > 0 => Len(p) = y - x)
    <3>1. /\ Len(p) = IF x < Lesser(y, Len(s)) THEN Lesser(y, Len(s)) - x ELSE 0
          /\ Len(q) = IF y < Lesser(z, Len(s)) THEN Lesser(z, Len(s)) - y ELSE 0
          /\ Len(r) = IF x < Lesser(z, Len(s)) THEN Lesser(z, Len(s)) - x ELSE 0
      BY <2>1, <2>2, <2>3 DEF Between
    <3>2. CASE Len(s) <= y
      <4>1. Lesser(y, Len(s)) = Len(s) /\ Lesser(z, Len(s)) = Len(s)
        BY <1>1, <1>2, <3>2 DEF Lesser
      <4>2. CASE x < Len(s)
        BY <1>1, <3>1, <3>2, <4>1, <4>2
      <4>3. CASE ~(x < Len(s))
        BY <1>1, <3>1, <3>2, <4>1, <4>3
      <4> QED BY <4>2, <4>3
    <3>3. CASE y < Len(s)
      <4>1. Lesser(y, Len(s)) = y
        BY <1>1, <1>2, <3>3 DEF Lesser
      <4> DEFINE n == Lesser(z, Len(s))
      <4>2. n \in Nat /\ y <= n
        BY <1>1, <1>2, <3>3 DEF Lesser
      <4> HIDE DEF n
      <4>3. Len(p) = y - x
        BY <1>2, <3>1, <4>1
      <4>4. Len(q) = n - y
        BY <3>1, <4>2 DEF n
      <4>5. Len(r) = n - x
        BY <1>2, <3>1, <4>2 DEF n
      <4> QED BY <4>2, <4>3, <4>4, <4>5
    <3> QED BY <1>1, <3>2, <3>3
  <2>6. \A i \in 1..Len(r) : (p \o q)[i] = r[i]
    <3> TAKE i \in 1..Len(r)
    <3>1. CASE i <= Len(p)
      BY <2>1, <2>3, <2>4, <2>5, <3>1 DEF Between
    <3>2. CASE ~(i <= Len(p))
      <4>1. /\ i - Len(p) \in 1..Len(q) /\ Len(p) = y - x /\ y + (i - Len(p)) = x + i
        <5>1. Len(p) \in Nat /\ Len(q) \in Nat /\ Len(r) \in Nat
          BY <2>1, <2>2, <2>3 DEF Bytes, Between
        <5>2. i - Len(p) \in 1..Len(q)
          BY <2>5, <3>2, <5>1
        <5>3. Len(p) = y - x
          BY <2>5, <5>1, <5>2
        <5> QED BY <1>2, <5>2, <5>3
      <4> QED BY <2>2, <2>3, <2>4, <2>5, <3>2, <4>1 DEF Between
    <3> QED BY <3>1, <3>2
  <2>7. p \o q = r
    BY <2>3, <2>4, <2>5, <2>6, SeqEqual DEF Bytes, Between
  <2> QED BY <2>7 DEF p, q, r
<1>3. \A x \in Nat : Rest(s, x) = Part(s, x, Len(s))
  BY RestIsPart
<1> DEFINE n == IF b < Len(s) THEN Len(s) ELSE b
<1>4. \A x \in Nat : Part(s, x, n) = Rest(s, x)
  <2>1. Lesser(n, Len(s)) = Len(s)
    BY <1>1 DEF Lesser
  <2> HIDE DEF n
  <2> QED BY <2>1, <1>1 DEF Part, Rest
<1>5. Part(s, 0, n) = s
  <2>1. Rest(s, 0) = s
    BY SubSeqFull DEF Rest, Bytes
  <2> HIDE DEF n
  <2> QED BY <1>4, <2>1
<1>6. n \in Nat /\ b <= n
  BY <1>1
<1> HIDE DEF n
<1>7. Part(s, 0, a) \o Part(s, a, b) = Part(s, 0, b)
  BY <1>2, 0 \in Nat, 0 <= a
<1>8. Part(s, a, b) \o Part(s, b, n) = Part(s, a, n)
  BY <1>2, <1>6
<1>9. Part(s, 0, a) \o Part(s, a, n) = Part(s, 0, n)
  BY <1>2, <1>6, 0 \in Nat, 0 <= a, a <= n
<1> QED BY <1>4, <1>5, <1>7, <1>8, <1>9

\* The code in a header tells the type.
LEMMA TypeChosen ==
  ASSUME NEW bytes, NEW t \in DOMAIN V1MessageCode, extractType(bytes) = V1MessageCode[t]
  PROVE  (CHOOSE u \in DOMAIN V1MessageCode : V1MessageCode[u] = extractType(bytes)) = t
<1>1. \A u \in DOMAIN V1MessageCode : V1MessageCode[u] = V1MessageCode[t] => u = t
  BY DEF V1MessageCode
<1> QED BY <1>1

\* What parseMessage() makes of a frame, by its type.
ParsedPlain(bytes, type) ==
  [version |-> 1, type |-> type, sender |-> Part(bytes, 1, 17), recipient |-> Part(bytes, 17, 33)]

ParsedChallenge(bytes) ==
  [version |-> 1, type |-> "challenge",
   sender |-> Part(bytes, 1, 17), recipient |-> Part(bytes, 17, 33),
   difficulty |-> Part(Rest(bytes, 33), 0, 16), challenge |-> Rest(Rest(bytes, 33), 16)]

ParsedResponse(bytes) ==
  [version |-> 1, type |-> "response",
   sender |-> Part(bytes, 1, 17), recipient |-> Part(bytes, 17, 33),
   challenge |-> Part(Rest(bytes, 33), 0, 16), publicKey |-> Part(Rest(bytes, 33), 16, 49),
   nonce |-> Part(Rest(bytes, 33), 49, 65), signature |-> Rest(Rest(bytes, 33), 65)]

ParsedPayload(bytes) ==
  [version |-> 1, type |-> "payload",
   sender |-> Part(bytes, 1, 17), recipient |-> Part(bytes, 17, 33),
   payload |-> Rest(bytes, 33)]

\* The code decides which of these it is.
LEMMA ParsedByType ==
  ASSUME NEW bytes
  PROVE  /\ extractType(bytes) = 0 => parseMessage(bytes) = ParsedPlain(bytes, "init")
         /\ extractType(bytes) = 1 => parseMessage(bytes) = ParsedChallenge(bytes)
         /\ extractType(bytes) = 2 => parseMessage(bytes) = ParsedResponse(bytes)
         /\ extractType(bytes) = 3 => parseMessage(bytes) = ParsedPlain(bytes, "accepted")
         /\ extractType(bytes) = 4 => parseMessage(bytes) = ParsedPayload(bytes)
<1> DEFINE type == CHOOSE u \in DOMAIN V1MessageCode : V1MessageCode[u] = extractType(bytes)
           payload == Rest(bytes, 33)
<1>1. /\ DOMAIN V1MessageCode = {"init", "challenge", "response", "accepted", "payload"}
      /\ V1MessageCode["init"] = 0 /\ V1MessageCode["challenge"] = 1
      /\ V1MessageCode["response"] = 2 /\ V1MessageCode["accepted"] = 3
      /\ V1MessageCode["payload"] = 4
  BY DEF V1MessageCode
<1>3. CASE extractType(bytes) = 0
  <2>1. type = "init"
    BY <1>1, <1>3, TypeChosen
  <2>2. parseMessage(bytes) = Joined(ParsedPlain(bytes, "init"), <<>>)
    BY <2>1 DEF parseMessage, ParsedPlain
  <2> QED BY <1>3, <2>1, <2>2 DEF Joined, ParsedPlain
<1>4. CASE extractType(bytes) = 1
  <2>1. type = "challenge"
    BY <1>1, <1>4, TypeChosen
  <2>2. parseMessage(bytes) =
          Joined(ParsedPlain(bytes, "challenge"),
                 [difficulty |-> Part(payload, 0, 16), challenge |-> Rest(payload, 16)])
    BY <2>1 DEF parseMessage, ParsedPlain
  <2> QED BY <1>4, <2>1, <2>2 DEF Joined, ParsedPlain, ParsedChallenge
<1>5. CASE extractType(bytes) = 2
  <2>1. type = "response"
    BY <1>1, <1>5, TypeChosen
  <2>2. parseMessage(bytes) =
          Joined(ParsedPlain(bytes, "response"),
                 [challenge |-> Part(payload, 0, 16), publicKey |-> Part(payload, 16, 49),
                  nonce |-> Part(payload, 49, 65), signature |-> Rest(payload, 65)])
    BY <2>1 DEF parseMessage, ParsedPlain
  <2> QED BY <1>5, <2>1, <2>2 DEF Joined, ParsedPlain, ParsedResponse
<1>6. CASE extractType(bytes) = 3
  <2>1. type = "accepted"
    BY <1>1, <1>6, TypeChosen
  <2>2. parseMessage(bytes) = Joined(ParsedPlain(bytes, "accepted"), <<>>)
    BY <2>1 DEF parseMessage, ParsedPlain
  <2> QED BY <1>6, <2>1, <2>2 DEF Joined, ParsedPlain
<1>7. CASE extractType(bytes) = 4
  <2>1. type = "payload"
    BY <1>1, <1>7, TypeChosen
  <2>2. parseMessage(bytes) = Joined(ParsedPlain(bytes, "payload"), [payload |-> payload])
    BY <2>1 DEF parseMessage, ParsedPlain
  <2> QED BY <1>7, <2>1, <2>2 DEF Joined, ParsedPlain, ParsedPayload
<1> QED BY <1>3, <1>4, <1>5, <1>6, <1>7

\* Bytes that follow each other.
LEMMA Joins ==
  ASSUME NEW s \in Bytes, NEW t \in Bytes
  PROVE  /\ s \o t \in Bytes /\ Len(s \o t) = Len(s) + Len(t)
         /\ Len(s) \in Nat /\ Len(t) \in Nat
         /\ Len(s) > 0 => (s \o t)[1] = s[1]
<1>1. /\ s \o t \in Bytes /\ Len(s \o t) = Len(s) + Len(t)
      /\ Len(s) \in Nat /\ Len(t) \in Nat
      /\ \A i \in 1..(Len(s) + Len(t)) : (s \o t)[i] = IF i <= Len(s) THEN s[i] ELSE t[i - Len(s)]
  BY ConcatProperties, LenProperties DEF Bytes
<1> QED BY <1>1

\* Which two are joined first makes no difference.
LEMMA Associates ==
  ASSUME NEW s \in Bytes, NEW t \in Bytes, NEW u \in Bytes
  PROVE  (s \o t) \o u = s \o (t \o u)
BY ConcatAssociative DEF Bytes

\* The fields of a header are read from the frame it begins.

\* Behind the first byte.
LEMMA FirstByteRead ==
  ASSUME NEW one \in Bytes, NEW v \in Bytes, Len(one) = 1
  PROVE  /\ Part(one \o v, 1, 17) = Part(v, 0, 16) /\ Part(one \o v, 17, 33) = Part(v, 16, 32)
         /\ Rest(one \o v, 33) = Rest(v, 32)
<1>1. Part(one \o v, Len(one) + 0, Len(one) + 16) = Part(v, 0, 16)
  BY BehindRead, 0 \in Nat, 16 \in Nat
<1>2. Part(one \o v, Len(one) + 16, Len(one) + 32) = Part(v, 16, 32)
  BY BehindRead, 16 \in Nat, 32 \in Nat
<1>3. Rest(one \o v, Len(one) + 32) = Rest(v, 32)
  BY RestBehind, 32 \in Nat
<1> QED BY <1>1, <1>2, <1>3

\* Four pieces of a frame, the first three of one and twice 16 bytes.
FourPieces(one, sender, recipient, p, w, v, f) ==
  /\ ((one \o sender) \o recipient) \o p = f
  /\ f \in Bytes /\ Len(f) = 33 + Len(p) /\ f[1] = one[1]
  /\ Part(f, 1, 17) = sender /\ Part(f, 17, 33) = recipient /\ Rest(f, 33) = p

LEMMA PiecesRead ==
  ASSUME NEW one \in Bytes, NEW sender \in Bytes, NEW recipient \in Bytes, NEW p \in Bytes,
         NEW w, NEW v, NEW f,
         w = recipient \o p, v = sender \o w, f = one \o v,
         Len(one) = 1, Len(sender) = 16, Len(recipient) = 16
  PROVE  FourPieces(one, sender, recipient, p, w, v, f)
<1>1. w \in Bytes /\ Len(w) = 16 + Len(p) /\ Len(p) \in Nat
  <2>1. w \in Bytes /\ Len(w) = Len(recipient) + Len(p) /\ Len(p) \in Nat
    BY Joins
  <2> QED BY <2>1
<1>2. v \in Bytes /\ Len(v) = 32 + Len(p)
  <2>1. v \in Bytes /\ Len(v) = Len(sender) + Len(w)
    BY <1>1, Joins
  <2> QED BY <1>1, <2>1
<1>3. f \in Bytes /\ Len(f) = 33 + Len(p) /\ f[1] = one[1]
  <2>1. one \o v \in Bytes /\ Len(one \o v) = Len(one) + Len(v)
    BY <1>2, Joins
  <2>2. (one \o v)[1] = one[1]
    BY <1>2, Joins, Len(one) > 0
  <2> QED BY <1>1, <1>2, <2>1, <2>2
<1>4. ((one \o sender) \o recipient) \o p = f
  <2>1. one \o sender \in Bytes
    BY Joins
  <2>2. ((one \o sender) \o recipient) \o p = (one \o sender) \o w
    BY <2>1, Associates
  <2>3. (one \o sender) \o w = one \o v
    BY <1>1, Associates
  <2> QED BY <2>2, <2>3
<1>5. /\ Part(f, 1, 17) = Part(v, 0, 16) /\ Part(f, 17, 33) = Part(v, 16, 32)
      /\ Rest(f, 33) = Rest(v, 32)
  BY <1>2, FirstByteRead
<1>6. Part(v, 0, 16) = sender
  BY <1>1, FrontRead
<1>7. Part(v, 16, 32) = Part(w, 0, 16) /\ Rest(v, 32) = Rest(w, 16)
  <2>1. Part(v, Len(sender) + 0, Len(sender) + 16) = Part(w, 0, 16)
    BY <1>1, BehindRead, 0 \in Nat, 16 \in Nat
  <2>2. Rest(v, Len(sender) + 16) = Rest(w, 16)
    BY <1>1, RestBehind, 16 \in Nat
  <2> QED BY <2>1, <2>2
<1>8. Part(w, 0, 16) = recipient /\ Rest(w, 16) = p
  BY FrontRead
<1> QED BY <1>3, <1>4, <1>5, <1>6, <1>7, <1>8 DEF FourPieces

\* The header of a frame is read as it was forged.
HeaderReads(f, code, sender, recipient, p) ==
  /\ f \in Bytes /\ Len(f) = 33 + Len(p)
  /\ ~Unreadable(f) /\ extractType(f) = code
  /\ Part(f, 1, 17) = sender /\ Part(f, 17, 33) = recipient /\ Rest(f, 33) = p

LEMMA HeaderRead ==
  ASSUME NEW code \in 0..4, NEW sender \in Fixed(16), NEW recipient \in Fixed(16), NEW p \in Bytes
  PROVE  HeaderReads(createHeader(1, code, sender, recipient) \o p, code, sender, recipient, p)
<1> DEFINE one == <<16 + code>>
<1> DEFINE w == recipient \o p
<1> DEFINE v == sender \o w
<1> DEFINE f == one \o v
<1>1. one \in Bytes /\ Len(one) = 1 /\ one[1] = 16 + code
  BY DEF Bytes
<1>2. /\ sender \in Bytes /\ Len(sender) = 16 /\ recipient \in Bytes /\ Len(recipient) = 16
  BY DEF Fixed
<1>3. createHeader(1, code, sender, recipient) = (one \o sender) \o recipient
  BY DEF createHeader
<1> HIDE DEF one
<1>4. /\ ((one \o sender) \o recipient) \o p = f
      /\ f \in Bytes /\ Len(f) = 33 + Len(p) /\ f[1] = one[1]
      /\ Part(f, 1, 17) = sender /\ Part(f, 17, 33) = recipient /\ Rest(f, 33) = p
  <2>1. w = recipient \o p /\ v = sender \o w /\ f = one \o v
    OBVIOUS
  <2> HIDE DEF w, v, f
  <2>2. FourPieces(one, sender, recipient, p, w, v, f)
    BY <1>1, <1>2, <2>1, PiecesRead
  <2> QED BY <2>2 DEF FourPieces
<1> HIDE DEF f
<1>5. f # <<>>
  <2>1. Len(p) \in Nat
    BY DEF Bytes
  <2>2. Len(f) # 0
    BY <1>4, <2>1
  <2> QED BY <2>2
<1>6. extractVersion(f) = 1 /\ extractType(f) = code
  BY <1>1, <1>4 DEF extractVersion, extractType
<1>7. ~Unreadable(f)
  BY <1>5, <1>6 DEF Unreadable
<1>8. createHeader(1, code, sender, recipient) \o p = f
  BY <1>3, <1>4
<1> QED BY <1>4, <1>6, <1>7, <1>8 DEF HeaderReads

-----------------------------------------------------------------------------
\* The messages of the protocol: every field that is not the last of its
\* message has its length.
Plain == [version : {1}, type : {"init", "accepted"}, sender : Fixed(16), recipient : Fixed(16)]
Challenges == [version : {1}, type : {"challenge"}, sender : Fixed(16), recipient : Fixed(16),
               difficulty : Fixed(16), challenge : Bytes]
Responses == [version : {1}, type : {"response"}, sender : Fixed(16), recipient : Fixed(16),
              challenge : Fixed(16), publicKey : Fixed(33), nonce : Fixed(16), signature : Bytes]
PayloadMessages == [version : {1}, type : {"payload"}, sender : Fixed(16), recipient : Fixed(16),
                    payload : Bytes]
Messages == Plain \cup Challenges \cup Responses \cup PayloadMessages

\* What forging a message and reading the frame gives.
Reads(m) ==
  /\ forgeMessage(m) \in Bytes /\ ~Unreadable(forgeMessage(m))
  /\ parseMessage(forgeMessage(m)) = m

LEMMA ChallengeRead ==
  ASSUME NEW m \in Challenges
  PROVE  Reads(m)
<1> DEFINE f == forgeMessage(m)
           p == m.difficulty \o m.challenge
<1>1. /\ m.version = 1 /\ m.type = "challenge"
      /\ m.sender \in Fixed(16) /\ m.recipient \in Fixed(16)
      /\ m.difficulty \in Bytes /\ Len(m.difficulty) = 16 /\ m.challenge \in Bytes
  BY DEF Challenges, Fixed
<1>2. f = createHeader(1, 1, m.sender, m.recipient) \o p
  <2>1. messagePayload(m) = p
    BY <1>1 DEF messagePayload, challengePayload
  <2>2. V1MessageCode[m.type] = 1
    BY <1>1 DEF V1MessageCode
  <2> QED BY <1>1, <2>1, <2>2 DEF forgeMessage
<1>3. p \in Bytes
  BY <1>1, Joins
<1>4. Part(p, 0, 16) = m.difficulty /\ Rest(p, 16) = m.challenge
  <2>1. Part(p, 0, Len(m.difficulty)) = m.difficulty /\ Rest(p, Len(m.difficulty)) = m.challenge
    BY <1>1, FrontRead
  <2> QED BY <1>1, <2>1
<1> HIDE DEF f, p
<1>5. HeaderReads(f, 1, m.sender, m.recipient, p)
  BY <1>1, <1>2, <1>3, HeaderRead, 1 \in 0..4
<1>6. parseMessage(f) = ParsedChallenge(f)
  BY <1>5, ParsedByType DEF HeaderReads
<1>7. parseMessage(f) =
        [version |-> 1, type |-> "challenge", sender |-> m.sender, recipient |-> m.recipient,
         difficulty |-> m.difficulty, challenge |-> m.challenge]
  BY <1>4, <1>5, <1>6 DEF HeaderReads, ParsedChallenge
<1>8. parseMessage(f) = m
  BY <1>1, <1>7 DEF Challenges
<1> QED BY <1>5, <1>8 DEF f, Reads, HeaderReads

\* Behind a public key.
LEMMA KeyRead ==
  ASSUME NEW pk \in Bytes, NEW y \in Bytes, Len(pk) = 33
  PROVE  Part(pk \o y, 33, 49) = Part(y, 0, 16) /\ Rest(pk \o y, 49) = Rest(y, 16)
<1>1. Part(pk \o y, Len(pk) + 0, Len(pk) + 16) = Part(y, 0, 16)
  BY BehindRead, 0 \in Nat, 16 \in Nat
<1>2. Rest(pk \o y, Len(pk) + 16) = Rest(y, 16)
  BY RestBehind, 16 \in Nat
<1> QED BY <1>1, <1>2

\* The fields of the answer to a challenge of any length, behind each other.
Fields(ch, pk, no, sig, y, x, p) ==
  /\ ((ch \o pk) \o no) \o sig = p /\ p \in Bytes
  /\ Len(Part(p, 0, 16)) = 16
  /\ Len(ch) = 16 => /\ Part(p, 0, 16) = ch /\ Part(p, 16, 49) = pk
                     /\ Part(p, 49, 65) = no /\ Rest(p, 65) = sig

LEMMA ResponseFields ==
  ASSUME NEW ch \in Bytes, NEW pk \in Fixed(33), NEW no \in Fixed(16), NEW sig \in Bytes,
         NEW y, NEW x, NEW p, y = no \o sig, x = pk \o y, p = ch \o x
  PROVE  Fields(ch, pk, no, sig, y, x, p)
<1>1. pk \in Bytes /\ Len(pk) = 33 /\ no \in Bytes /\ Len(no) = 16
  BY DEF Fixed
<1>2. y \in Bytes /\ Len(y) = Len(no) + Len(sig) /\ Len(sig) \in Nat
  BY <1>1, Joins
<1>3. x \in Bytes /\ Len(x) = Len(pk) + Len(y)
  BY <1>1, <1>2, Joins
<1>4. p \in Bytes /\ Len(p) = Len(ch) + Len(x) /\ Len(ch) \in Nat
  BY <1>3, Joins
<1>5. ((ch \o pk) \o no) \o sig = p
  <2>1. ch \o pk \in Bytes
    BY <1>1, Joins
  <2>2. ((ch \o pk) \o no) \o sig = (ch \o pk) \o y
    BY <1>1, <2>1, Associates
  <2>3. (ch \o pk) \o y = p
    BY <1>1, <1>2, Associates
  <2> QED BY <2>2, <2>3
<1>6. Len(Part(p, 0, 16)) = 16
  <2>1. Len(p) >= 16
    BY <1>1, <1>2, <1>3, <1>4
  <2>2. Lesser(16, Len(p)) = 16
    BY <1>4, <2>1 DEF Lesser, Bytes
  <2>3. Between(Part(p, 0, 16), p, 0, 16)
    BY <1>4, <2>2, PartElements, 0 \in Nat, 16 \in Nat
  <2> QED BY <2>3 DEF Between
<1>7. ASSUME Len(ch) = 16
      PROVE  /\ Part(p, 0, 16) = ch /\ Part(p, 16, 49) = pk
             /\ Part(p, 49, 65) = no /\ Rest(p, 65) = sig
  <2>1. Part(p, 0, 16) = ch
    BY <1>3, <1>7, FrontRead
  <2>2. Part(p, 16, 49) = pk
    <3>1. Part(ch \o x, Len(ch) + 0, Len(ch) + 33) = Part(x, 0, 33)
      BY <1>3, BehindRead, 0 \in Nat, 33 \in Nat
    <3>2. Part(x, 0, 33) = pk
      BY <1>1, <1>2, FrontRead
    <3> QED BY <1>7, <3>1, <3>2
  <2>3. Part(p, 49, 65) = no
    <3>1. Part(ch \o x, Len(ch) + 33, Len(ch) + 49) = Part(x, 33, 49)
      BY <1>3, BehindRead, 33 \in Nat, 49 \in Nat
    <3>2. Part(pk \o y, 33, 49) = Part(y, 0, 16)
      BY <1>1, <1>2, KeyRead
    <3>3. Part(y, 0, 16) = no
      BY <1>1, FrontRead
    <3> QED BY <1>1, <1>7, <3>1, <3>2, <3>3
  <2>4. Rest(p, 65) = sig
    <3>1. Rest(ch \o x, Len(ch) + 49) = Rest(x, 49)
      BY <1>3, RestBehind, 49 \in Nat
    <3>2. Rest(pk \o y, 49) = Rest(y, 16)
      BY <1>1, <1>2, KeyRead
    <3>3. Rest(y, 16) = sig
      BY <1>1, FrontRead
    <3> QED BY <1>1, <1>7, <3>1, <3>2, <3>3
  <2> QED BY <2>1, <2>2, <2>3, <2>4
<1> QED BY <1>4, <1>5, <1>6, <1>7 DEF Fields

\* An answer to a challenge of any length: its fields are read back if that
\* is 16 bytes, and what is taken for the challenge always has 16.
AnswerRead(m) ==
  LET f == forgeMessage(m) IN
  /\ f \in Bytes /\ ~Unreadable(f) /\ parseMessage(f) = ParsedResponse(f)
  /\ Len(parseMessage(f).challenge) = 16
  /\ Len(m.challenge) = 16 => parseMessage(f) = m

Answers == [version : {1}, type : {"response"}, sender : Fixed(16), recipient : Fixed(16),
            challenge : Bytes, publicKey : Fixed(33), nonce : Fixed(16), signature : Bytes]

LEMMA ResponseRead ==
  ASSUME NEW m \in Answers
  PROVE  AnswerRead(m)
<1> DEFINE f == forgeMessage(m)
<1> DEFINE y == m.nonce \o m.signature
<1> DEFINE x == m.publicKey \o y
<1> DEFINE p == m.challenge \o x
<1>1. /\ m.version = 1 /\ m.type = "response" /\ m.sender \in Fixed(16) /\ m.recipient \in Fixed(16)
      /\ m.challenge \in Bytes /\ m.publicKey \in Fixed(33) /\ m.nonce \in Fixed(16)
      /\ m.signature \in Bytes
  BY DEF Answers
<1>2. /\ ((m.challenge \o m.publicKey) \o m.nonce) \o m.signature = p /\ p \in Bytes
      /\ Len(Part(p, 0, 16)) = 16
      /\ Len(m.challenge) = 16 =>
           /\ Part(p, 0, 16) = m.challenge /\ Part(p, 16, 49) = m.publicKey
           /\ Part(p, 49, 65) = m.nonce /\ Rest(p, 65) = m.signature
  <2>1. y = m.nonce \o m.signature /\ x = m.publicKey \o y /\ p = m.challenge \o x
    OBVIOUS
  <2> HIDE DEF y, x, p
  <2>2. Fields(m.challenge, m.publicKey, m.nonce, m.signature, y, x, p)
    BY <1>1, <2>1, ResponseFields
  <2> QED BY <2>2 DEF Fields
<1> HIDE DEF p
<1>3. f = createHeader(1, 2, m.sender, m.recipient) \o p
  <2>1. messagePayload(m) = p
    BY <1>1, <1>2 DEF messagePayload
  <2>2. V1MessageCode[m.type] = 2
    BY <1>1 DEF V1MessageCode
  <2> QED BY <1>1, <2>1, <2>2 DEF forgeMessage
<1> HIDE DEF f
<1>4. HeaderReads(f, 2, m.sender, m.recipient, p)
  BY <1>1, <1>2, <1>3, HeaderRead, 2 \in 0..4
<1>5. parseMessage(f) = ParsedResponse(f)
  BY <1>4, ParsedByType DEF HeaderReads
<1>6. parseMessage(f) =
        [version |-> 1, type |-> "response", sender |-> m.sender, recipient |-> m.recipient,
         challenge |-> Part(p, 0, 16), publicKey |-> Part(p, 16, 49),
         nonce |-> Part(p, 49, 65), signature |-> Rest(p, 65)]
  BY <1>4, <1>5 DEF HeaderReads, ParsedResponse
<1>7. Len(parseMessage(f).challenge) = 16
  BY <1>2, <1>6
<1>8. Len(m.challenge) = 16 => parseMessage(f) = m
  BY <1>1, <1>2, <1>6 DEF Answers
<1> QED BY <1>4, <1>5, <1>7, <1>8 DEF f, AnswerRead, HeaderReads

\* Messages without a payload are read from a frame of 33 bytes.
LEMMA PlainRead ==
  ASSUME NEW m \in Plain
  PROVE  Reads(m) /\ Len(forgeMessage(m)) = 33
<1> DEFINE f == forgeMessage(m)
           code == V1MessageCode[m.type]
<1>1. /\ m.version = 1 /\ m.sender \in Fixed(16) /\ m.recipient \in Fixed(16)
      /\ m = [version |-> 1, type |-> m.type, sender |-> m.sender, recipient |-> m.recipient]
      /\ m.type \in {"init", "accepted"}
  BY DEF Plain
<1>2. /\ code \in 0..4 /\ (m.type = "init" => code = 0) /\ (m.type = "accepted" => code = 3)
  BY <1>1 DEF V1MessageCode
<1>3. f = createHeader(1, code, m.sender, m.recipient) \o <<>>
  <2>1. messagePayload(m) = <<>>
    BY <1>1 DEF messagePayload
  <2> QED BY <1>1, <2>1 DEF forgeMessage
<1>4. <<>> \in Bytes /\ Len(<<>>) = 0
  BY DEF Bytes
<1> HIDE DEF f, code
<1>5. HeaderReads(f, code, m.sender, m.recipient, <<>>)
  BY <1>1, <1>2, <1>3, <1>4, HeaderRead
<1>6. parseMessage(f) = ParsedPlain(f, m.type)
  <2>1. CASE m.type = "init"
    BY <1>2, <1>5, <2>1, ParsedByType DEF HeaderReads
  <2>2. CASE m.type = "accepted"
    BY <1>2, <1>5, <2>2, ParsedByType DEF HeaderReads
  <2> QED BY <1>1, <2>1, <2>2
<1>7. parseMessage(f) = m
  BY <1>1, <1>5, <1>6 DEF HeaderReads, ParsedPlain
<1> QED BY <1>4, <1>5, <1>7 DEF f, Reads, HeaderReads

\* A payload is all that stands behind the header.
LEMMA PayloadRead ==
  ASSUME NEW m \in PayloadMessages
  PROVE  Reads(m)
<1> DEFINE f == forgeMessage(m)
<1>1. /\ m.version = 1 /\ m.type = "payload" /\ m.sender \in Fixed(16) /\ m.recipient \in Fixed(16)
      /\ m.payload \in Bytes
      /\ m = [version |-> 1, type |-> "payload", sender |-> m.sender,
              recipient |-> m.recipient, payload |-> m.payload]
  BY DEF PayloadMessages
<1>2. f = createHeader(1, 4, m.sender, m.recipient) \o m.payload
  <2>1. messagePayload(m) = m.payload
    BY <1>1 DEF messagePayload
  <2>2. V1MessageCode[m.type] = 4
    BY <1>1 DEF V1MessageCode
  <2> QED BY <1>1, <2>1, <2>2 DEF forgeMessage
<1> HIDE DEF f
<1>3. HeaderReads(f, 4, m.sender, m.recipient, m.payload)
  BY <1>1, <1>2, HeaderRead, 4 \in 0..4
<1>4. parseMessage(f) = ParsedPayload(f)
  BY <1>3, ParsedByType DEF HeaderReads
<1>5. parseMessage(f) = m
  BY <1>1, <1>3, <1>4 DEF HeaderReads, ParsedPayload
<1> QED BY <1>3, <1>5 DEF f, Reads, HeaderReads

\* Every message of the protocol is read as it was sent, whatever its bytes
\* (message/forger, message/parser).
THEOREM ReadAsForged ==
  ASSUME NEW m \in Messages
  PROVE  Reads(m)
<1>1. CASE m \in Plain
  BY <1>1, PlainRead
<1>2. CASE m \in Challenges
  BY <1>2, ChallengeRead
<1>3. CASE m \in Responses
  <2>1. m \in Answers /\ Len(m.challenge) = 16
    BY <1>3 DEF Responses, Answers, Fixed
  <2> QED BY <2>1, ResponseRead DEF AnswerRead, Reads
<1>4. CASE m \in PayloadMessages
  BY <1>4, PayloadRead
<1> QED BY <1>1, <1>2, <1>3, <1>4 DEF Messages

-----------------------------------------------------------------------------
\* Every frame that is readable and has nothing behind its last field is the
\* one that is forged of what is read: also one that was cut off, and whose
\* fields are too short.
THEOREM ForgedAsRead ==
  ASSUME NEW bytes \in Bytes, ~Unreadable(bytes),
         extractType(bytes) \in {0, 3} => Len(bytes) <= 33
  PROVE  forgeMessage(parseMessage(bytes)) = bytes
<1> DEFINE m == parseMessage(bytes)
           code == extractType(bytes)
           payload == Rest(bytes, 33)
           header == createHeader(1, code, Part(bytes, 1, 17), Part(bytes, 17, 33))
<1>1. Len(bytes) \in Nat /\ Len(bytes) >= 1 /\ bytes[1] \in Nat
  <2>1. bytes # <<>>
    BY DEF Unreadable
  <2> QED BY <2>1, EmptySeq, ElementOfSeq DEF Bytes
<1>2. code \in 0..4 /\ bytes[1] = 16 + code
  <2>1. bytes[1] \div 16 = 1 /\ code = bytes[1] % 16 /\ ~(code > 4)
    BY DEF Unreadable, extractVersion, extractType
  <2> QED BY <1>1, <2>1
<1>3. payload \in Bytes
  <2>1. payload = Part(bytes, 33, Len(bytes))
    BY RestIsPart
  <2> QED BY <1>1, <2>1, PartElements DEF Between
<1>4. header \o payload = bytes
  <2>1. Part(bytes, 0, 1) = <<16 + code>>
    <3> DEFINE p == Part(bytes, 0, 1)
    <3>1. Lesser(1, Len(bytes)) = 1
      BY <1>1 DEF Lesser
    <3>2. Between(p, bytes, 0, 1)
      BY <3>1, PartElements, 0 \in Nat, 1 \in Nat
    <3> HIDE DEF p
    <3>3. p \in Bytes /\ Len(p) = 1 /\ p[1] = bytes[1]
      BY <3>2 DEF Between
    <3>4. <<16 + code>> \in Bytes /\ Len(<<16 + code>>) = 1 /\ <<16 + code>>[1] = 16 + code
      BY <1>2 DEF Bytes
    <3> HIDE DEF code
    <3>5. p = <<16 + code>>
      BY <1>2, <3>3, <3>4, SeqEqual DEF Bytes
    <3> QED BY <3>5 DEF p
  <2>2. header = (Part(bytes, 0, 1) \o Part(bytes, 1, 17)) \o Part(bytes, 17, 33)
    <3> HIDE DEF code
    <3>1. 1 * 16 + code = 16 + code
      BY <1>2
    <3>2. header = (<<16 + code>> \o Part(bytes, 1, 17)) \o Part(bytes, 17, 33)
      BY <3>1 DEF createHeader
    <3> QED BY <2>1, <3>2
  <2>3. Part(bytes, 0, 1) \o Part(bytes, 1, 17) = Part(bytes, 0, 17)
    BY PartsJoin, 1 \in Nat, 17 \in Nat, 1 <= 17
  <2>4. Part(bytes, 0, 17) \o Part(bytes, 17, 33) = Part(bytes, 0, 33)
    BY PartsJoin, 33 \in Nat, 17 \in Nat, 17 <= 33
  <2>5. Part(bytes, 0, 33) \o payload = bytes
    BY PartsJoin, 33 \in Nat, 33 <= 33
  <2> QED BY <2>2, <2>3, <2>4, <2>5
<1> HIDE DEF header, payload, m
<1>5. forgeMessage(m) = createHeader(m.version, V1MessageCode[m.type], m.sender, m.recipient)
                          \o messagePayload(m)
  BY DEF forgeMessage
<1>6. /\ m.version = 1 /\ V1MessageCode[m.type] = code
      /\ m.sender = Part(bytes, 1, 17) /\ m.recipient = Part(bytes, 17, 33)
      /\ messagePayload(m) = payload
  <2>1. CASE code \in {0, 3}
    <3>1. m = ParsedPlain(bytes, IF code = 0 THEN "init" ELSE "accepted")
      BY <2>1, ParsedByType DEF m
    <3>2. payload = <<>>
      <4>1. Len(bytes) < 34
        BY <1>1, <2>1
      <4>2. SubSeq(bytes, 34, Len(bytes)) = <<>>
        BY <1>1, <4>1, SubSeqEmpty, 34 \in Int
      <4> QED BY <4>2 DEF payload, Rest
    <3> HIDE DEF code
    <3>3. m.version = 1 /\ m.sender = Part(bytes, 1, 17) /\ m.recipient = Part(bytes, 17, 33)
          /\ m.type = IF code = 0 THEN "init" ELSE "accepted"
      BY <3>1 DEF ParsedPlain
    <3>4. V1MessageCode[m.type] = code
      BY <2>1, <3>3 DEF V1MessageCode
    <3>5. messagePayload(m) = <<>>
      BY <3>3 DEF messagePayload
    <3> QED BY <3>2, <3>3, <3>4, <3>5
  <2>2. CASE code = 1
    <3>1. m = ParsedChallenge(bytes)
      BY <2>2, ParsedByType DEF m
    <3>2. /\ m.version = 1 /\ m.sender = Part(bytes, 1, 17) /\ m.recipient = Part(bytes, 17, 33)
          /\ m.type = "challenge"
          /\ m.difficulty = Part(payload, 0, 16) /\ m.challenge = Rest(payload, 16)
      BY <3>1 DEF ParsedChallenge, payload
    <3>3. messagePayload(m) = Part(payload, 0, 16) \o Rest(payload, 16)
      BY <3>2 DEF messagePayload, challengePayload
    <3>4. Part(payload, 0, 16) \o Rest(payload, 16) = payload
      BY <1>3, PartsJoin, 16 \in Nat, 16 <= 16
    <3>5. V1MessageCode[m.type] = 1
      BY <3>2 DEF V1MessageCode
    <3> QED BY <2>2, <3>2, <3>3, <3>4, <3>5
  <2>3. CASE code = 2
    <3>1. m = ParsedResponse(bytes)
      BY <2>3, ParsedByType DEF m
    <3>2. /\ m.version = 1 /\ m.sender = Part(bytes, 1, 17) /\ m.recipient = Part(bytes, 17, 33)
          /\ m.type = "response"
          /\ m.challenge = Part(payload, 0, 16) /\ m.publicKey = Part(payload, 16, 49)
          /\ m.nonce = Part(payload, 49, 65) /\ m.signature = Rest(payload, 65)
      BY <3>1 DEF ParsedResponse, payload
    <3>3. messagePayload(m) = ((Part(payload, 0, 16) \o Part(payload, 16, 49))
                                 \o Part(payload, 49, 65)) \o Rest(payload, 65)
      BY <3>2 DEF messagePayload
    <3>4. Part(payload, 0, 16) \o Part(payload, 16, 49) = Part(payload, 0, 49)
      BY <1>3, PartsJoin, 16 \in Nat, 49 \in Nat, 16 <= 49
    <3>5. Part(payload, 0, 49) \o Part(payload, 49, 65) = Part(payload, 0, 65)
      BY <1>3, PartsJoin, 49 \in Nat, 65 \in Nat, 49 <= 65
    <3>6. Part(payload, 0, 65) \o Rest(payload, 65) = payload
      BY <1>3, PartsJoin, 65 \in Nat, 65 <= 65
    <3>7. V1MessageCode[m.type] = 2
      BY <3>2 DEF V1MessageCode
    <3> QED BY <2>3, <3>2, <3>3, <3>4, <3>5, <3>6, <3>7
  <2>4. CASE code = 4
    <3>1. m = ParsedPayload(bytes)
      BY <2>4, ParsedByType DEF m
    <3>2. /\ m.version = 1 /\ m.sender = Part(bytes, 1, 17) /\ m.recipient = Part(bytes, 17, 33)
          /\ m.type = "payload" /\ m.payload = payload
      BY <3>1 DEF ParsedPayload, payload
    <3>3. messagePayload(m) = payload
      BY <3>2 DEF messagePayload
    <3>4. V1MessageCode[m.type] = 4
      BY <3>2 DEF V1MessageCode
    <3> QED BY <2>4, <3>2, <3>3, <3>4
  <2> QED BY <1>2, <2>1, <2>2, <2>3, <2>4
<1> HIDE DEF code
<1>7. forgeMessage(m) = header \o payload
  BY <1>5, <1>6 DEF header
<1> QED BY <1>4, <1>7 DEF m

\* A frame that was cut off anywhere is readable, and read into a message that
\* is forged to the same bytes.
LEMMA CutsRead ==
  ASSUME NEW m \in Messages, NEW n \in 1..Len(forgeMessage(m))
  PROVE  LET cut == SubSeq(forgeMessage(m), 1, n) IN
         ~Unreadable(cut) /\ forgeMessage(parseMessage(cut)) = cut
<1> DEFINE f == forgeMessage(m)
           cut == SubSeq(f, 1, n)
<1>1. f \in Bytes /\ ~Unreadable(f) /\ parseMessage(f) = m
  BY ReadAsForged DEF Reads
<1>2. extractType(f) \in {0, 3} => Len(f) = 33
  <2> SUFFICES ASSUME extractType(f) \in {0, 3} PROVE Len(f) = 33
    OBVIOUS
  <2>1. parseMessage(f).type \in {"init", "accepted"}
    BY ParsedByType DEF ParsedPlain
  <2>2. m.type \in {"init", "accepted"}
    BY <1>1, <2>1
  <2>3. m \in Plain
    BY <2>2 DEF Messages, Challenges, Responses, PayloadMessages
  <2> QED BY <2>3, PlainRead
<1> HIDE DEF f
<1>3. Len(f) \in Nat /\ n \in 1..Len(f)
  BY <1>1 DEF f, Bytes
<1>4. cut \in Bytes /\ Len(cut) = n /\ cut[1] = f[1]
  <2>1. \A i \in 1..n : f[i] \in Nat
    BY <1>1, <1>3, ElementOfSeq DEF Bytes
  <2>2. /\ SubSeq(f, 1, n) \in Seq(Nat)
        /\ Len(SubSeq(f, 1, n)) = IF 1 <= n THEN n - 1 + 1 ELSE 0
        /\ \A i \in 1..(n - 1 + 1) : SubSeq(f, 1, n)[i] = f[1 + i - 1]
    BY <1>3, <2>1, SubSeqProperties, 1 \in Int, n \in Int
  <2>3. 1 \in 1..(n - 1 + 1) /\ 1 + 1 - 1 = 1
    BY <1>3
  <2> QED BY <1>3, <2>2, <2>3 DEF Bytes
<1> HIDE DEF cut
<1>5. ~Unreadable(cut) /\ extractType(cut) = extractType(f)
  <2>1. cut # <<>>
    BY <1>3, <1>4
  <2>2. extractType(cut) = extractType(f) /\ extractVersion(cut) = extractVersion(f)
    BY <1>4 DEF extractType, extractVersion
  <2> QED BY <1>1, <2>1, <2>2 DEF Unreadable
<1>6. ASSUME extractType(cut) \in {0, 3} PROVE Len(cut) <= 33
  <2>1. Len(f) = 33
    BY <1>2, <1>5, <1>6
  <2>2. n \in 1..33
    BY <1>3, <2>1
  <2> QED BY <1>4, <2>2
<1>7. forgeMessage(parseMessage(cut)) = cut
  BY <1>4, <1>5, <1>6, ForgedAsRead
<1> QED BY <1>5, <1>7 DEF cut, f

-----------------------------------------------------------------------------
(* The messages of the handshake.                                            *)

\* A field has its length.
LEMMA FieldFixed ==
  ASSUME NEW n \in Nat, NEW b \in Nat
  PROVE  Field(n, b) \in Fixed(n)
<1>1. [i \in 1..n |-> b] \in Seq(Nat) /\ Len([i \in 1..n |-> b]) = n
  OBVIOUS
<1> QED BY <1>1 DEF Field, Fixed, Bytes

\* The id of a key, or of an id, has 16 bytes.
LEMMA SenderIds ==
  ASSUME NEW s \in Fixed(16) \cup Fixed(33)
  PROVE  senderId(s) \in Fixed(16)
<1>1. CASE s \in Fixed(16)
  BY <1>1 DEF senderId, Fixed
<1>2. CASE s \in Fixed(33)
  <2>1. s \in Bytes /\ Len(s) = 33
    BY <1>2 DEF Fixed
  <2>2. Lesser(16, Len(s)) = 16
    BY <2>1 DEF Lesser
  <2>3. Between(Part(s, 0, 16), s, 0, 16)
    BY <2>1, <2>2, PartElements, 0 \in Nat, 16 \in Nat
  <2>4. senderId(s) = Part(s, 0, 16)
    BY <2>1 DEF senderId
  <2> QED BY <2>3, <2>4 DEF Fixed, Between
<1> QED BY <1>1, <1>2

\* As does the address of the server.
LEMMA EmptyAddress == EMPTY_ADDRESS \in Fixed(16)
<1>1. EMPTY_ADDRESS = Field(16, 0)
  BY DEF EMPTY_ADDRESS, Field
<1> QED BY <1>1, FieldFixed, 16 \in Nat, 0 \in Nat

\* What the client answers to a challenge of any length.
LEMMA ResponseMade ==
  ASSUME NEW key \in Fixed(33), NEW ch \in Bytes
  PROVE  /\ createResponseMessage(key, ch) \in Answers
         /\ createResponseMessage(key, ch).challenge = ch
         /\ createResponseMessage(key, ch).signature =
              createResponseMessage(key, ch).challenge \o createResponseMessage(key, ch).publicKey
                \o createResponseMessage(key, ch).nonce
<1> DEFINE no == Field(16, 0)
           sig == (ch \o key) \o no
<1>1. no \in Fixed(16) /\ no \in Bytes
  BY FieldFixed, 16 \in Nat, 0 \in Nat DEF Fixed
<1>2. key \in Bytes
  BY DEF Fixed
<1> HIDE DEF no
<1>3. sig \in Bytes
  <2>1. ch \o key \in Bytes
    BY <1>2, Joins
  <2> QED BY <1>1, <2>1, Joins
<1>4. createResponseMessage(key, ch) =
        [version |-> 1, type |-> "response", sender |-> senderId(key),
         recipient |-> EMPTY_ADDRESS, challenge |-> ch, publicKey |-> key, nonce |-> no,
         signature |-> sig]
  BY DEF createResponseMessage, no, Field
<1> HIDE DEF sig
<1>5. senderId(key) \in Fixed(16) /\ EMPTY_ADDRESS \in Fixed(16)
  BY SenderIds, EmptyAddress
<1>6. createResponseMessage(key, ch) \in Answers
  BY <1>1, <1>3, <1>4, <1>5 DEF Answers
<1> QED BY <1>4, <1>6 DEF sig

\* The server finds the challenge it sent, and the bytes that are signed, in
\* the answer exactly when its challenge had 16 bytes.
THEOREM AnswersFit ==
  ASSUME NEW key \in Fixed(33), NEW ch \in Bytes
  PROVE  LET answer == parseMessage(forgeMessage(createResponseMessage(key, ch))) IN
         (/\ answer.challenge = ch
          /\ answer.signature = answer.challenge \o answer.publicKey \o answer.nonce)
         <=> Len(ch) = 16
<1> DEFINE m == createResponseMessage(key, ch)
           answer == parseMessage(forgeMessage(m))
<1>1. /\ m \in Answers /\ m.challenge = ch
      /\ m.signature = m.challenge \o m.publicKey \o m.nonce
  BY ResponseMade
<1> HIDE DEF m
<1>2. Len(answer.challenge) = 16 /\ (Len(m.challenge) = 16 => answer = m)
  BY <1>1, ResponseRead DEF AnswerRead
<1> HIDE DEF answer
<1>3. (/\ answer.challenge = ch
       /\ answer.signature = answer.challenge \o answer.publicKey \o answer.nonce)
      <=> Len(ch) = 16
  <2>1. CASE Len(ch) = 16
    BY <1>1, <1>2, <2>1
  <2>2. CASE Len(ch) # 16
    BY <1>2, <2>2
  <2> QED BY <2>1, <2>2
<1> QED BY <1>3 DEF answer, m

\* What is exchanged in a handshake, and after it, is well formed.
LEMMA ExchangedAreMessages ==
  ASSUME NEW stage \in {"none", "init", "response", "accepted"}, NEW m \in Exchanged(stage)
  PROVE  m \in Messages
<1>1. Key \in Fixed(33)
  BY FieldFixed, 33 \in Nat, 7 \in Nat DEF Key
<1>2. senderId(Key) \in Fixed(16) /\ EMPTY_ADDRESS \in Fixed(16)
  BY <1>1, SenderIds, EmptyAddress
<1>3. /\ Field(16, 200) \in Fixed(16) /\ Field(16, 9) \in Fixed(16) /\ Field(16, 5) \in Fixed(16)
      /\ Field(20, 3) \in Fixed(20)
  BY FieldFixed, 16 \in Nat, 20 \in Nat, 200 \in Nat, 9 \in Nat, 5 \in Nat, 3 \in Nat
<1>4. createInitMessage(Key) \in Plain
  BY <1>2 DEF createInitMessage, Plain
<1>5. Challenge(16) \in Challenges
  <2>1. Field(16, 9) \in Bytes
    BY <1>3 DEF Fixed
  <2> QED BY <1>2, <1>3, <2>1 DEF Challenge, Challenges
<1>6. createResponseMessage(Key, Field(16, 9)) \in Responses
  <2> DEFINE r == createResponseMessage(Key, Field(16, 9))
  <2>1. Field(16, 9) \in Bytes /\ Len(Field(16, 9)) = 16
    BY <1>3 DEF Fixed
  <2>2. r \in Answers /\ r.challenge = Field(16, 9)
    BY <1>1, <2>1, ResponseMade
  <2> HIDE DEF r
  <2>3. r \in Responses
    BY <1>3, <2>2 DEF Answers, Responses
  <2> QED BY <2>3 DEF r
<1>7. Accepted \in Plain
  BY <1>2 DEF Accepted, Plain
<1>8. createPayloadMessage(Key, Field(16, 5), Field(20, 3)) \in PayloadMessages
  <2>1. senderId(Field(16, 5)) \in Fixed(16)
    BY <1>3, SenderIds
  <2>2. Field(20, 3) \in Bytes
    BY <1>3 DEF Fixed
  <2> QED BY <1>2, <2>1, <2>2 DEF createPayloadMessage, PayloadMessages
<1>9. createPayloadMessage(Key, Key, <<3, 3>>) \in PayloadMessages
  <2>1. <<3, 3>> \in Bytes
    BY DEF Bytes
  <2> QED BY <1>2, <2>1 DEF createPayloadMessage, PayloadMessages
<1>10. m \in {createInitMessage(Key), Challenge(16), createResponseMessage(Key, Field(16, 9)),
              Accepted, createPayloadMessage(Key, Field(16, 5), Field(20, 3)),
              createPayloadMessage(Key, Key, <<3, 3>>)}
  BY DEF Exchanged
<1> QED BY <1>4, <1>5, <1>6, <1>7, <1>8, <1>9, <1>10 DEF Messages

\* AnswersFit for the challenges of the run.
LEMMA AllFit == AnswerFits
<1> SUFFICES ASSUME NEW n \in 0..20
             PROVE  LET asked == Wire(Challenge(n))
                        answer == Wire(createResponseMessage(Key, asked.challenge)) IN
                    (/\ answer.challenge = Challenge(n).challenge
                     /\ answer.signature = answer.challenge \o answer.publicKey \o answer.nonce)
                    <=> n = 16
  BY DEF AnswerFits
<1> DEFINE ch == Field(n, 9)
<1>1. Key \in Fixed(33)
  BY FieldFixed, 33 \in Nat, 7 \in Nat DEF Key
<1>2. ch \in Bytes /\ Len(ch) = n
  BY FieldFixed, n \in Nat, 9 \in Nat DEF Fixed
<1>3. Challenge(n) \in Challenges /\ Challenge(n).challenge = ch
  <2>1. senderId(Key) \in Fixed(16) /\ EMPTY_ADDRESS \in Fixed(16)
    BY <1>1, SenderIds, EmptyAddress
  <2>2. Field(16, 200) \in Fixed(16)
    BY FieldFixed, 16 \in Nat, 200 \in Nat
  <2> HIDE DEF ch
  <2>3. Challenge(n) =
          [version |-> 1, type |-> "challenge", sender |-> EMPTY_ADDRESS,
           recipient |-> senderId(Key), difficulty |-> Field(16, 200), challenge |-> ch]
    BY DEF Challenge, ch
  <2> QED BY <1>2, <2>1, <2>2, <2>3 DEF Challenges
<1> HIDE DEF ch
<1>4. Wire(Challenge(n)).challenge = ch
  BY <1>3, ChallengeRead DEF Reads, Wire, Frame
<1> DEFINE answer == Wire(createResponseMessage(Key, ch))
<1>5. (/\ answer.challenge = ch
       /\ answer.signature = answer.challenge \o answer.publicKey \o answer.nonce)
      <=> Len(ch) = 16
  BY <1>1, <1>2, AnswersFit DEF Wire, Frame
<1> HIDE DEF answer
<1> QED BY <1>2, <1>3, <1>4, <1>5 DEF answer

\* All this for the messages up to each stage of a handshake.
LEMMA AllFaithful ==
  ASSUME NEW stage \in {"none", "init", "response", "accepted"}
  PROVE  Faithful[stage]
<1>1. ReadAsSent(stage)
  <2> SUFFICES ASSUME NEW m \in Exchanged(stage)
               PROVE  /\ \A x \in DOMAIN Wire(m) : Wire(m)[x] = m[x]
                      /\ \A n \in 1..Len(Frame(m)) : LET cut == SubSeq(Frame(m), 1, n) IN
                           ~Unreadable(cut) /\ forgeMessage(parseMessage(cut)) = cut
    BY DEF ReadAsSent
  <2>1. m \in Messages
    BY ExchangedAreMessages
  <2>2. Wire(m) = m
    BY <2>1, ReadAsForged DEF Reads, Wire, Frame
  <2>3. \A n \in 1..Len(Frame(m)) : LET cut == SubSeq(Frame(m), 1, n) IN
          ~Unreadable(cut) /\ forgeMessage(parseMessage(cut)) = cut
    BY <2>1, CutsRead DEF Frame
  <2> QED BY <2>2, <2>3
<1>2. Faithful[stage] = (ReadAsSent(stage) /\ (stage = "response" => AnswerFits))
  BY DEF Faithful
<1> QED BY <1>1, <1>2, AllFit

\* The frames of the handshake, and of payloads after it, carry what was sent.
THEOREM FramesCarry == Spec => []FramesCarryHandshake
<1>1. IInv => FramesCarryHandshake
  <2> SUFFICES ASSUME IInv, NEW c \in Clients PROVE Faithful[hs[c]]
    BY DEF FramesCarryHandshake
  <2>1. hs[c] \in {"none", "init", "response", "accepted"}
    BY DEF IInv, VarTypes
  <2> QED BY <2>1, AllFaithful
<1> QED BY <1>1, Inductive, PTL
=============================================================================

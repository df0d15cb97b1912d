------------------------------- MODULE Frames -------------------------------
(***************************************************************************)
(* The bytes of the websocket protocol: messages forged to frames and      *)
(* parsed from them (acurast-transport-websocket/src/message), and the     *)
(* handshake they carry. A frame is a sequence of bytes; hashing and       *)
(* signing are the identity, and what a signature covers is kept.          *)
(***************************************************************************)
EXTENDS Naturals, Sequences

\* V1MessageCode.
V1MessageCode == [init |-> 0, challenge |-> 1, response |-> 2, accepted |-> 3, payload |-> 4]

\* createHeader(): version and type share the first byte.
createHeader(version, code, sender, recipient) ==
  <<version * 16 + code>> \o sender \o recipient

extractVersion(bytes) == bytes[1] \div 16
extractType(bytes) == bytes[1] % 16

\* Mutant: the challenge in front of its difficulty.
challengePayloadSwapped(m) == m.challenge \o m.difficulty

challengePayload(m) == m.difficulty \o m.challenge

\* Permissions are not sent.
messagePayload(m) ==
  CASE m.type = "challenge" -> challengePayload(m)
    [] m.type = "response" -> m.challenge \o m.publicKey \o m.nonce \o m.signature
    [] m.type = "payload" -> m.payload
    [] OTHER -> <<>>

forgeMessage(m) ==
  createHeader(m.version, V1MessageCode[m.type], m.sender, m.recipient) \o messagePayload(m)

-----------------------------------------------------------------------------
\* subarray(from, to) and subarray(from) of bytes: what there is of them.
Lesser(x, y) == IF x < y THEN x ELSE y
Part(bytes, from, to) == SubSeq(bytes, from + 1, Lesser(to, Len(bytes)))
Rest(bytes, from) == SubSeq(bytes, from + 1, Len(bytes))

Unreadable(bytes) ==
  bytes = <<>> \/ extractVersion(bytes) # 1 \/ extractType(bytes) > 4

\* A message has the fields of its header and those of its type.
Joined(header, fields) ==
  [x \in DOMAIN header \cup DOMAIN fields |-> IF x \in DOMAIN header THEN header[x] ELSE fields[x]]

\* parseMessage() of a frame that it can read: fields by position, whatever
\* length the frame has, and nothing more for init and accepted.
parseMessage(bytes) ==
  LET type == CHOOSE t \in DOMAIN V1MessageCode : V1MessageCode[t] = extractType(bytes)
      header == [version |-> 1, type |-> type, sender |-> Part(bytes, 1, 17),
                 recipient |-> Part(bytes, 17, 33)]
      payload == Rest(bytes, 33)
      fields ==
        CASE type = "challenge" -> [difficulty |-> Part(payload, 0, 16),
                                    challenge |-> Rest(payload, 16)]
          [] type = "response" -> [challenge |-> Part(payload, 0, 16),
                                   publicKey |-> Part(payload, 16, 49),
                                   nonce |-> Part(payload, 49, 65),
                                   signature |-> Rest(payload, 65)]
          [] type = "payload" -> [payload |-> payload]
          [] OTHER -> <<>>
  IN Joined(header, fields)

-----------------------------------------------------------------------------
\* senderId(): an id is taken as it is, of a key the front of its hash.
senderId(keyOrId) == IF Len(keyOrId) = 16 THEN keyOrId ELSE Part(keyOrId, 0, 16)

EMPTY_ADDRESS == [i \in 1..16 |-> 0]

\* V1MessageProcessor: what the client with this key sends.
createInitMessage(key) ==
  [version |-> 1, type |-> "init", sender |-> senderId(key), recipient |-> EMPTY_ADDRESS]

\* onChallenge(). The proof of work is not done: the nonce is zero.
createResponseMessage(key, challenge) ==
  LET nonce == [i \in 1..16 |-> 0] IN
  [version |-> 1, type |-> "response", sender |-> senderId(key), recipient |-> EMPTY_ADDRESS,
   challenge |-> challenge, publicKey |-> key, nonce |-> nonce,
   signature |-> challenge \o key \o nonce]

createPayloadMessage(key, recipient, payload) ==
  [version |-> 1, type |-> "payload", sender |-> senderId(key),
   recipient |-> senderId(recipient), payload |-> payload]

-----------------------------------------------------------------------------
\* A field of n bytes, all b.
Field(n, b) == [i \in 1..n |-> b]
Key == Field(33, 7)
Challenge(n) ==
  [version |-> 1, type |-> "challenge", sender |-> EMPTY_ADDRESS, recipient |-> senderId(Key),
   difficulty |-> Field(16, 200), challenge |-> Field(n, 9)]
Accepted ==
  [version |-> 1, type |-> "accepted", sender |-> EMPTY_ADDRESS, recipient |-> senderId(Key)]
Frame(m) == forgeMessage(m)
Wire(m) == parseMessage(Frame(m))

\* The messages on a socket up to this stage of its handshake (hs).
Exchanged(stage) ==
  LET asked == {createInitMessage(Key)}
      answered == asked \cup {Challenge(16), createResponseMessage(Key, Field(16, 9))}
      accepted == {Accepted, createPayloadMessage(Key, Field(16, 5), Field(20, 3)),
                   createPayloadMessage(Key, Key, <<3, 3>>)} IN
  CASE stage = "none" -> {}
    [] stage = "init" -> asked
    [] stage = "response" -> answered
    [] stage = "accepted" -> answered \cup accepted

\* Of these, what is read is what was sent; and a frame cut off anywhere is
\* read into a message that is forged to the same bytes, with fields too
\* short, of which nobody is told.
ReadAsSent(stage) ==
  \A m \in Exchanged(stage) :
    /\ \A x \in DOMAIN Wire(m) : Wire(m)[x] = m[x]
    /\ \A n \in 1..Len(Frame(m)) : LET cut == SubSeq(Frame(m), 1, n) IN
         ~Unreadable(cut) /\ forgeMessage(parseMessage(cut)) = cut

\* In the answer to its challenge the server finds the challenge, and the
\* bytes the signature covers, exactly when the challenge has the 16 bytes the
\* parser of the answer counts on (v1-parser.ts:75), though that of the
\* challenge takes any length.
AnswerFits ==
  \A n \in 0..20 :
    LET asked == Wire(Challenge(n))
        answer == Wire(createResponseMessage(Key, asked.challenge)) IN
    (/\ answer.challenge = Challenge(n).challenge
     /\ answer.signature = answer.challenge \o answer.publicKey \o answer.nonce) <=> n = 16

\* Both, as a function: it is evaluated once.
Faithful == [stage \in {"none", "init", "response", "accepted"} |->
               ReadAsSent(stage) /\ (stage = "response" => AnswerFits)]
=============================================================================

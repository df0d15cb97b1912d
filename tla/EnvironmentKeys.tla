-------------------------- MODULE EnvironmentKeys --------------------------
(***************************************************************************)
(* JobEnvironmentService (env-encryption.ts) over a KeyStore that services *)
(* share and that outlives them: one key pair per curve, made when it is   *)
(* first needed, and an environment for each processor encrypted with it.  *)
(* A key is a number; its public half is named by the same number.         *)
(***************************************************************************)
EXTENDS Naturals, Sequences

CONSTANTS
  Environments,  \* calls of setEnvironmentVariablesMulti()
  Processors,    \* of a job that has some, in the order of their assignments
  NoKey

ASSUME KeysAssumption == /\ Len(Processors) \in Nat \ {0}
                         /\ NoKey \notin Nat \cup {"p256", "secp256k1"}

VARIABLES
  published,  \* per processor, the names its encryption keys are published under
  store,      \* the KeyStore's items
  lastKey,    \* keys made so far
  envAt,      \* what each call does next
  turn,       \* the processor it is at
  key,        \* the private key generateSharedSecret() used for it
  submitted,  \* the environments it has collected, and then submits
  torn        \* history: curves whose private key is stored alone

keyVars == <<published, store, lastKey, envAt, turn, key, submitted, torn>>

Curves == {"p256", "secp256k1"}
Halves == {"publicKey", "privateKey"}
Items == Halves \X (Curves \cup {NoKey})  \* NoKey: the names of the time before curves
PubKeys == {"SECP256r1", "SECP256r1Encryption", "SECP256k1Encryption"}

\* An empty store, or one of the time when there was one curve and one pair.
KeysInit ==
  /\ published \in [1..Len(Processors) -> SUBSET PubKeys]
  /\ \E old \in {0, 1} :
       /\ lastKey = old
       /\ store = [i \in Items |-> IF i[2] = NoKey /\ old = 1 THEN old ELSE NoKey]
  /\ envAt = [e \in Environments |-> "off"]
  /\ turn = [e \in Environments |-> 1]
  /\ key = [e \in Environments |-> NoKey]
  /\ submitted = [e \in Environments |-> <<>>]
  /\ torn = {}

-----------------------------------------------------------------------------
\* Mutant: only the private key is looked for under its old name.
KeyStorageIdHalf(half, curve) ==
  <<half, IF curve = "p256" /\ store[<<half, NoKey>>] # NoKey /\ half = "privateKey"
          THEN NoKey ELSE curve>>

\* keyStorageId(): for p256, the item of the old name if there is one.
KeyStorageId(half, curve) ==
  <<half, IF curve = "p256" /\ store[<<half, NoKey>>] # NoKey THEN NoKey ELSE curve>>

StoredKey(half, curve) == store[KeyStorageId(half, curve)]

\* getProcessorEncryptionKey(): the curve of the key it takes.
ProcessorCurve(names) ==
  IF "SECP256r1Encryption" \in names THEN "p256"
  ELSE IF "SECP256k1Encryption" \in names THEN "secp256k1"
  ELSE IF "SECP256r1" \in names THEN "p256" ELSE NoKey

Curve(e) == ProcessorCurve(published[turn[e]])

\* On to the next processor, or to the submission.
NextProcessor(e) ==
  /\ turn' = [turn EXCEPT ![e] = @ + 1]
  /\ envAt' = [envAt EXCEPT ![e] = IF turn[e] = Len(Processors) THEN "submitted" ELSE "next"]

\* A processor without a key to encrypt for is passed over.
Skip(e) ==
  /\ envAt[e] \in {"off", "next"} /\ Curve(e) = NoKey
  /\ NextProcessor(e)
  /\ UNCHANGED <<published, store, lastKey, key, submitted, torn>>

\* generateSharedSecret(): the stored private key, or a new pair, stored
\* private half first. The public half may not be stored: its setItem()
\* throws, and with it the call, or the machine stops there.
GenerateSharedSecret(e) ==
  LET c == Curve(e)
      private == KeyStorageId("privateKey", c)
      public == KeyStorageId("publicKey", c) IN
  /\ envAt[e] \in {"off", "next"} /\ c # NoKey
  /\ \/ /\ store[private] # NoKey
        /\ key' = [key EXCEPT ![e] = store[private]]
        /\ envAt' = [envAt EXCEPT ![e] = "shared"]
        /\ UNCHANGED <<store, lastKey, torn>>
     \/ /\ store[private] = NoKey
        /\ lastKey' = lastKey + 1
        /\ \/ /\ store' = [store EXCEPT ![private] = lastKey + 1, ![public] = lastKey + 1]
              /\ key' = [key EXCEPT ![e] = lastKey + 1]
              /\ envAt' = [envAt EXCEPT ![e] = "shared"]
              /\ UNCHANGED torn
           \/ /\ store' = [store EXCEPT ![private] = lastKey + 1]
              /\ torn' = torn \cup {c}
              /\ envAt' = [envAt EXCEPT ![e] = "failed"]
              /\ UNCHANGED key
  /\ UNCHANGED <<published, turn, submitted>>

\* The rest of generateSharedKey() and of the turn: the private key is read
\* again for the names that go into the derived key, and the public one, to
\* announce it; without one the processor is passed over.
Announce(e) ==
  LET c == Curve(e)
      public == StoredKey("publicKey", c)
      environment == [processor |-> turn[e], curve |-> c, secret |-> key[e],
                      info |-> StoredKey("privateKey", c), publicKey |-> public] IN
  /\ envAt[e] = "shared"
  /\ submitted' = IF public = NoKey THEN submitted
                  ELSE [submitted EXCEPT ![e] = Append(@, environment)]
  /\ NextProcessor(e)
  /\ UNCHANGED <<published, store, lastKey, key, torn>>

-----------------------------------------------------------------------------
\* Every environment announces the public half of the key it was encrypted
\* with, on the curve of the processor's key; and every processor with a key
\* gets one, also with a store of the old names (env-encryption.ts:32,
\* "backwards compatiblity"), except on a curve whose pair was once stored by
\* half: its processors are passed over, by this call and all later ones.
EnvironmentsReadable ==
  \A e \in Environments :
    /\ \A i \in DOMAIN submitted[e] :
         LET v == submitted[e][i] IN v.secret = v.info /\ v.secret = v.publicKey
    /\ envAt[e] = "submitted" =>
         \A p \in 1..Len(Processors) :
           LET c == ProcessorCurve(published[p]) IN
           c # NoKey /\ c \notin torn =>
             \E i \in DOMAIN submitted[e] : /\ submitted[e][i].processor = p
                                            /\ submitted[e][i].curve = c
=============================================================================

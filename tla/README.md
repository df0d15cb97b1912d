# Acurast TypeScript SDK in TLA+

Models, checks and proofs for the libraries of this repository: the Acurast SDK
(`packages/acurast-sdk`), the P2P transport (`packages/acurast-transport-websocket`),
the dApp client (`packages/acurast-dapp`), the devtools and the VPS packages. Paths
below are relative to `packages/`, and those of the SDK to `packages/acurast-sdk/src/`.

Everything is single-threaded JavaScript: two pieces of code interleave only at an
`await`, a callback, a microtask or a timer. One TLA+ action is therefore the code
that runs in one turn, from one such point to the next, with everything it calls.

## 1. Inventory

| Part | State | Operations | Talks to | What is hard | What makes it correct |
|---|---|---|---|---|---|
| Transaction queue, shared loop (`chain/tx-queue.ts:56-192`) | `queue`, `processing`, promises of `enqueue` | `enqueue`, `runOnce`, `send`, settle | node (`accountNextIndex` in batches, `submitAndWatch`), signer, callers' `onResult` | `runOnce` is entered from four places; the status callback races `.then(u)`; replies and updates get lost | the queue's calls never take each other's nonce; a promise says what happened; no subscription is left open; calls settle, in order |
| sequential adapter (229-238) | none of its own | `dequeue`, `prepareNonce` | as above | the nonce is the chain state's: foreign extrinsics, and own ones whose reply was lost, hold it in the pool | one call at a time |
| batching adapter (278-386) | `currentBlock`, `currentNonce`, `nonceRetries`, timer, heads subscription | `dequeue`, `prepareNonce`, `onSubmitError`, `ensureStarted`, `stop`, `scopeResults` | as above, new heads | the client's nonce against the chain's; a batch resubmitted while calls come in; any error whose text looks like one of the nonce; stop against a pending subscribe | no call runs twice unless its error was misread; no gap in the nonces; order kept; one heads subscription |
| default queue registry (392-432) | map from chain and account to queue | `getDefaultQueue`, `setDefaultQueue` | queues | installing a queue after the default was made | one nonce authority per account |
| registerJob (`chain/register-job.ts`) | `jobStatusSubscribed`, `capturedError`, a status subscription | result handler, status updates | queue, chain, status callback | results come more than once, and sliced from batches | one subscription, closed; statuses in order |
| deployProjectCore (`deploy/deploy-core.ts`) | `jobId`, `envHasBeenSet`, `timeout` | status wrapper, `setEnv` | registerJob, setEnvVars, timer | acknowledgements against the timer; failures of a floating promise | variables set at the right moment, outcome always reported |
| setEnvVars (`chain/set-env-vars.ts`) | attempt, what it read | poll, wait, encrypt, submit | AcurastService, JobEnvironmentService | timeouts, retries and an abort time on one clock; keys that cannot be encrypted for | somebody is reached whose keys allow it; not after the abort time; it ends |
| AcurastService (`chain/acurast-service.ts`) | `api`, `connectPromise`, event subscriptions | `connect`, `disconnect`, `subscribeToEvent`, queries | node | concurrent first calls; failure kept in a promise | one connection, one subscription, both closed |
| environment encryption (`chain/env-encryption.ts`, `key-store.ts`) | key pairs per curve | generate, load, encrypt | key store | old and new storage names; two writes that are not one | the key announced is the key used |
| job and configuration (`chain/config-to-job.ts`, `types/validate-config.ts`) | none | validation, schedule arithmetic, encoding | chain types | boundaries of schedules; numbers JavaScript has and the chain has not; time passes between validation and conversion | what validates, converts into a schedule the runtime takes, and is submitted |
| pricing, filters (`matcher/`, `chain/benchmark-filters.ts`) | none | distribution, suggestion, status | matcher (HTTP) | the distribution knows nothing of the job's requirements; calls that fail | the advice is about the job that is registered, and enough processors take it |
| bundling and upload (`deploy/bundle.ts`, `ipfs/upload.ts`, `acurast-devtools/src/index.ts`) | a zip per project name, one temporary file | zip, prepend, copy, post, unlink | disk, Pinata | two deployments at once share the files; a stop leaves them behind | the script pinned is the one given |
| transport client (`acurast-transport-websocket/src/client`) | socket, `isConnected`, listeners, last URL | `connect`, redial, `send`, `close` | P2P server | lost sockets, redials, a socket that never opens, silence, close at any moment | connect tells the truth, a lost socket is replaced, a closed one is not |
| dApp client (`acurast-dapp/src/client`) | `_transport`, listener buffer | `start`, `onMessage`, `send`, `close` | transport | calls during a start, failed starts | every listener hears every message once |
| devtools snippet (`acurast-devtools/src`) | api key, pending logs, rate bucket | log, authenticate | devtools API | logs before the key, limits, windows | limit kept, drops counted, nothing sent twice |
| P2P messages (`acurast-transport-websocket/src/message`) | none | forge, parse | server | lengths are counted, not checked | what is read is what was sent |
| VPS (`acurast-vps`) | processes, tunnel state | start, retry, stop, probe | processor RPC, peers | half-open tunnels, servers nobody watches, signals, slow peers | a tunnel leads to the server that was started for it; a stopped tunnel stays stopped |

`PROJECT.json` lists all parts with their status, and under `hazards` the lines where
each of these difficulties bites.

## 2. Modules

```
SubmissionQueue        what any queue promises its callers (abstract)
AccountChain           the node and the pool, for one account (external)
  SequentialQueue      shared loop + sequential adapter   implements SubmissionQueue
    SequentialQueueProofs
    MCSequentialQueue
  BatchEvents          the slice of a batch's events each call is shown
  BatchingQueue        shared loop + batching adapter     implements SubmissionQueue
    BatchingQueueProofs
    MCBatchingQueue
ChainService           AcurastService and the registry of default queues
  ChainServiceProofs
  MCChainService
SetEnvVars             setEnvVars, with the clock and the job's assignments
  DeployFlow           registerJob + deployProjectCore, composed with SetEnvVars
    DeployFlowProofs
    MCDeployFlow
BenchmarkFilters       pool ids, metric triples
  JobConfig            validateConfig, convertConfigToJob, what registerJob can encode
    Pricing            the matcher's answers and the advice made of them
      JobPlanning      from a configuration to a registration, with time passing
        JobPlanningProofs
        MCJobPlanning
Transport              WebSocketTransportClient, any number of them
Frames                 the bytes of the messages
  DappClient           AcurastClient over Transport and Frames
    DappClientProofs
    MCDappClient
DeployFiles            resolveScript, zip, snippet, uploadScript, on one disk
EnvironmentKeys        JobEnvironmentService over a key store
DevtoolsLog            the devtools snippet
VpsTunnel              start.sh and tunnel.py
  EdgeParts            the last four side by side
    EdgePartsProofs
    MCEdgeParts
SetInduction           induction and recursion over numbers, for the proofs
```

A module that composes others EXTENDS them and conjoins their actions with
`UNCHANGED` for its own state; constants carry named assumptions in the module that
declares them. Definitions marked `Mutant:` are wrong variants of the definition
below them. They are used in no specification; they say which mistake in the code a
property notices (`PROJECT.json`, `mutants`).

**AccountChain** is the node as the queues see it. `chainNonce` and `pool` hold the
account's extrinsics; `IsNextIndex` is `accountNextIndex`, which counts the pool;
`Refuses`/`Accept` are what submitting does with a nonce that is used, next, or above the
next (it waits). The two queues read different nonces: the batching one asks for
`accountNextIndex`, and the sequential one passes none to `signAndSend`, for which
@polkadot/api takes the account nonce of the chain state (only nonce -1 makes it ask
`accountNextIndex`).

**SequentialQueue** gives every call its own `step`: `new`, `queued`, `preparing` (taken by
`runOnce`, before the first await), `signing`, `submitting` (nonce known), `watching`,
`settling`, `done`. That more than one call could be past `queued` is what `processing` must
prevent, and is a theorem, not built in. `sub` is the status subscription as `send()` sees
it, so that `Notify` (the callback) and `Opened` (the `.then(u)`) can come in either order.
`met` keeps the extrinsics the pool held under a nonce when it was read: the reading takes
no notice of them. The environment includes blocks with success or failure, foreign
extrinsics, refusals, lost replies (`SubmitUnanswered`), dropped extrinsics and lost
subscriptions.

**BatchingQueue** has one activation, `step`, carrying `round`; ages of calls are counted in
heads. The clock of `setInterval` is `Tick`, which needs no time: it only calls `runOnce`.
`isNonceError()` looks for words in the text of whatever error it is given, so in the model
a refusal is always taken for a nonce error, and a failed submission, a lost reply or a
dispatch error may be (`misreads`, up to `MaxMisreads`); `resent` are the calls that were
sent again though the node had them. **BatchEvents** is `scopeResults()` as a recursive
function over the events of an extrinsic, with the events the utility pallet deposits for a
batch some of whose calls fail; `EventsScoped` asks it of every batch the queue really
carries.

**ChainService** has any number of services in one process. Each operation (a subscription,
a submission, a call of `disconnect()`) moves through `at`, from one await to the next;
`connecting` are those that share `connectPromise`. `feeds` are the subscriptions the node
serves, `unsubEvents` the one the service would close: they differ when two first
subscriptions overlap, which `overlap` records, because the code does not prevent it. The
entry of a call that fails stays in `eventSubs`. `connect()` never rejects: its promise is
that of the provider, which dials for ever. The calls of all services meet in `fifo`, a
queue each; what a queue does with them is the subject of the queue modules. `send()` signs
and watches with the api of the call's own service, so a call is cut off (`CutOff`) when
that one is disconnected, and everything behind it in the queue waits.

**JobPlanning** edits a configuration up to two fields away from a sample, validates it,
asks for advice, converts and encodes it, and lets the clock move in between.
**JobConfig** has the schema's rules, the conversion's arithmetic and all that
`registerJob()` encodes before it submits. Numbers are counted in halves (`One` is 2), so
that a fraction is a number the schema takes and `createType()` does not; `MaxSafe` is
`Number.MAX_SAFE_INTEGER`, above which no JavaScript number is encoded, however wide the
type. Start delays of instant matches are encoded from rounded text, and may be wider. Of
addresses only whether one is malformed is kept. **Pricing** and
**BenchmarkFilters** what is asked of the matcher and made of its answers. The market
behind the matcher (a price per processor, and the processors the job's requirements
admit) is external and arbitrary; so is which of its calls fail.

**Frames** forges and parses the messages of the protocol as sequences of bytes; hashes
and signatures are the identity, so that what a signature covers stays visible.

**DeployFiles** has the files several deployments share on one disk, each content being
the deployment it was made from and how often the snippet was prepended.
**EnvironmentKeys** has a key store with the names of today and those of the time
before there were curves, and environments collected processor by processor.
**DevtoolsLog** has the buffer, the key request and the rate window. **VpsTunnel** has
`start.sh` with the two servers it starts (dropbear, and sslh in front of it), `tunnel.py`,
the signals between them and the processor's answers: SIGTERM may come while `start.sh` is
still setting up, when its trap ends the servers and the script goes on, and between
`tunnel_start` and the handlers of `tunnel.py`, whose answer may lack a result. These four
share no state with one another or with the rest; **EdgeParts** checks them side by
side, a behaviour being one of one of them.

**SetEnvVars** and **DeployFlow** share a clock, `now`. A timer that is due fires before the
clock moves, and everything else may happen at any time. The chain matches, acknowledges and
publishes keys whenever it likes, or never. `setEnvVars` returns at once when there are no
variables; the model is of a deployment that has some. A processor counts as found as soon
as it has published keys, whatever they are; which of them can be encrypted for
(`encryptable`) shows only when the environment is made, and a submission for nobody is one
too. `matched`, `assigned` and `published` are the chain's; `statusSubs` the open
subscriptions to the job's status; `reported` what the caller was told.

**Transport** and **DappClient**: `dial` is the latest activation of `connect()`, `opener`
who started it; `socket` is the session's current socket. A lost socket leads through
`pause` (the 200 ms) to a redial. `close()` acts differently on an open, an opening
and a closed socket, as the `ws` library does; the two turns of `AcurastClient.close()`
are one action. Each `start()` makes a transport of its
own, so two starts at once are two elements of `Clients`.

## 3. What is checked

Runs that pass:

- `sequential_queue` - three calls, one foreign extrinsic, one lost reply or update.
  A refusal needs a foreigner that came while the call was signed, or an extrinsic that was
  in the pool, unseen, when the nonce was read: a foreign one, or an own one whose reply
  was lost. Never is it a call the queue still knows of.
  `NoNonceCollision`, `OneAtATime`, `OutcomeMatchesChain`, `NoOpenSubscriptionLeft`,
  the inductive invariant `IInv`, refinement of `SubmissionQueue` with batches of one,
  and `EveryEnqueueSettles`. Three calls are the fewest with one under way, one
  waiting, and one arriving; one foreigner is enough to take the nonce of any of them.
- `batching_queue` - three calls in batches of two, one retry, one foreign extrinsic,
  one error misread as one of the nonce, and one trouble: a failed submission, a lost reply
  or a `stop()`. Only a misread error makes a call run twice, and no call runs more often
  than the retries allow. `AtMostOnce`, `OutcomeMatchesChain`, `NoNonceCollision`,
  `NoNonceGap`, `OneHeadsSubscription`, `EventsScoped`, refinement, and
  `EveryEnqueueSettles`. So there is a full batch, a batch flushed by age, a batch requeued
  in front of a call that came meanwhile, and a third one after each.
- `deploy_flow` - two replicas, start at tick 6, two minutes being 2 ticks and one
  minute 1: acknowledgements early enough for the timer, late enough to set the
  variables at once, and too late. Three attempts with queries that take up to a tick
  each, so that the abort time can fall before, between and inside attempts; the clock
  runs to 9, past the last possible retry. None, one or both processors have keys that can
  be encrypted for. `StatusOrder`, `EnvSetReachesSomeone`,
  `NotLongPastAbort`, `NotSetTooEarly`, `OneStatusSubscription`, `AckLeadsToEnvReport`.
- `dapp_client` - two starts, one after the other or at once, two URLs, two lost
  sockets (the redialled one may be lost again), and sockets that neither open nor fail.
  `ConnectAnswered`, `ClosedStaysClosed`,
  `NoListenerTwice`, `StartSettles`, `LostIsRedialled`; and `FramesCarryHandshake`, which is
  about the frames exchanged so far, each whole and cut off at every byte, and challenges of
  up to 20 bytes.
- `chain_service` - the application's service with two subscribers, two submissions and
  a `disconnect()`, and a second service that was given a queue (`setEnvVars` makes such
  a one). Two of each are enough for an overlap, and for a first and a later one to share
  a promise, a subscription and a default queue. `FeedServes`, `OneAuthority`,
  `OperationsSettle`.
- `job_planning` - a plain project with up to two fields changed, each to the values at
  both sides of every limit of the schema and the conversion, and times at which a start
  is not yet over, over, and a day ahead; three processors at three prices, three
  buckets. Two fields are the most any rule relates, apart from the strategy's. The limits
  of the numbers keep their order (`MaxU32`, then `MaxSafe`, `MaxU64`, `MaxU128`), and are
  small enough for TLC and large enough for the times of the sample; each is met and passed.
  `PlanTaken`, `AdviceHolds`.
- `edge_parts` - three deployments, two of one project, of every kind, and a machine that
  stops once; two environments for two processors with any published keys, over a store
  that is empty or old; seven console calls over two windows of two; five attempts at a
  tunnel. Each has a full turn and a second one behind it. `OwnScriptPinned`,
  `EnvironmentsReadable`, `LogsAccountedFor`, `TunnelServes`.

Runs that show the code departing from what the repository says of it:

- `sequential_dropped` - status updates that end without a block (dropped, usurped,
  invalid, or a reconnect, after which author subscriptions are not renewed): the
  promise never settles, and `processing` keeps every later call waiting
  (`tx-queue.ts:31`).
- `batching_retries` - `nonceRetries` is not reset by a success, so nonce errors that
  are not consecutive use up the retries (`tx-queue.ts:247`).
- `batching_declined` - a nonce counted for a submission that failed leaves a gap;
  the next batch waits in the pool for ever (`tx-queue.ts:334`, `351`).
- `deploy_acks` - the status is unsubscribed at the first acknowledgement, so the
  deployment does not see the last one it waits for (`register-job.ts:150`).
- `dapp_listeners` - a listener registered while `start()` waits is never attached
  (`acurast-dapp/src/client/client.ts:57`).

Properties of the passing runs name the cases the code does not cover, so that they
hold:

- `NoNonceCollision` (sequential): an extrinsic in the pool that no call of the queue waits
  for;
- `AtMostOnce`, `OutcomeMatchesChain` (batching): a call sent again because of a misread
  error; `NoNonceCollision`: the same, after a counted nonce was not used;
- `EnvSetReachesSomeone`: keys that cannot be encrypted for, with which the submission may
  be for nobody and is reported as set all the same; `AckLeadsToEnvReport`: a submission
  that stays in the queue;
- `StartSettles`, `LostIsRedialled`: a socket that never opens, for which the code has no
  timeout;
- `FeedServes`: overlapping first subscriptions, and entries that failed calls left, which
  keep the subscription open when the last subscriber has gone;
- `OneAuthority`: a queue the application installs after the default one was used;
  `OperationsSettle`: what waits behind a call that is cut off;
- `PlanTaken`: what the schema overlooks, which makes `convertConfigToJob()` throw or
  `registerJob()` settle never: numbers that are no integers, that are above
  `MAX_SAFE_INTEGER` or too wide for their field, a schedule that ends beyond it, versions
  it does not know, times before 1970, malformed addresses;
- `AdviceHolds`: a check of a price that failed, and requirements that admit only some
  processors while no benchmark is asked for, since the distribution counts all of them;
- `OwnScriptPinned`: deployments that met at a shared file;
- `EnvironmentsReadable`: a key pair stored by half;
- `LogsAccountedFor`: logs that wait for a key the service refused;
- `TunnelServes`: servers that died, or were ended in the set-up, which nobody watches, and
  the ways a tunnel is left behind.

Each is on the list of hazards, at its line.

Documents that disagree with the code where no run shows it:

- `acurast-vps/tunnel/README.md` (line 30) says that dropbear falls back to a random root
  password when `SSH_AUTHORIZED_KEY` is unset, but `start.sh` (line 68) aborts, which is the
  step `NoSshKey`.
- `chain/tx-queue.ts` (lines 96-97 and 225-226) speaks of `accountNextIndex` for the
  sequential queue, which signs with the nonce of the chain state (`FetchNonce`).
- `acurast-dapp/README.md` (line 23) has a connection time out, but the timer of
  `connectionTimeoutMillis` starts when the socket is open
  (`acurast-transport-websocket/src/client/client.ts:125`): a server that accepts TCP and
  never answers the upgrade is waited for (`DialHangs`).

### Bounds

Constants named `Max...` bound what the environment does: foreign extrinsics, losses,
failures, misread errors, stops, lost sockets, ticks, edits, console calls. `MaxAttempts`,
`MaxSafe` and `MaxU32` to `MaxU128` are limits of the code, of JavaScript and of the chain,
made smaller. None of the others bounds what the code does, except
`MaxResults` (a result handler called twice is the least that distinguishes first and
later) and the saturating age of a call in BatchingQueue, which no guard can tell from
a larger one.

### Fairness

Weak fairness only, and only on what the event loop and the network owe: due
microtasks and timers run, promise continuations run, the node answers a request, new
heads keep coming, the provider comes up, blocks take what is next. Nothing makes callers
call, wallets decline, processors acknowledge, sockets open, servers accept, or anything get
lost. Liveness properties name what they need beyond that: no submission lost
(`EveryEnqueueSettles`), no failure other than of a nonce and no `stop()` (batching), a
service that is not disconnected and does not wait behind one that is (`OperationsSettle`;
its fairness is one `WF_vars(Progress)` over a finite number of steps, each of which stays
possible until it is taken or the service is closed, and one for the front call of each
queue while it is not cut off).

Where one module stands for another, it gets no more than that one gives. The deployment
assumes nothing of its queue: `EnvSettles`, the answer to the submitted environment, is not
fair, because `sequential_dropped` shows a queue that does not answer. Nor are `Opened` and
`OpenFails` of the transport. JobPlanning and EdgeParts state no fairness: what
they promise is about states.

Deadlock is not checked: each of these systems may be done.

## 4. What is proved

The proof modules prove their theorems for every value of the constants that satisfies
the named assumptions of the modules they extend, and from nothing else. These give
constants their types, say that model values such as `None` are not among the values they
stand beside, and in a few places say more: a deployment has a finite set of processors,
no more replicas than that (`DeployAssumption`) and one attempt at least
(`SetEnvVarsAssumption`); keys are collected for one processor at least
(`KeysAssumption`); the buckets of a price distribution go from cheap to dear
and every processor is in one (`PlanningAssumption`), which is what the matcher answers.

Every safety invariant and every action property of the passing runs has its theorem.
Each component has an inductive invariant, stated at the head of its proof module or of
its part of one.

### The sequential queue

`SequentialQueueProofs`, for every set of calls and every bound:

- `TypeCorrect`: `Spec => []TypeOK`.
- `Inductive`: `Spec => []IInv`.
- `NonceSafety`, `Serial`, `Truthful`, `Unsubscribed`: the four safety invariants of
  the run `sequential_queue`.
- `Refinement`: `Spec => ImplementsSubmissionQueue`, the step-by-step simulation of the
  abstract queue.

`NoNonceCollision` is not inductive: whether a nonce is refused follows from what was in
the pool when it was read, and from what happened until it was submitted. `IInv` adds what
carries it:

- `SerialInv`: at most one call is past the queue, and only then is `processing` set. A
  second activation cannot begin, so no own extrinsic enters the pool between a fetch
  and its submission.
- `QueueInv`: what waits, waits once, and has not been carried. Starting the head of
  the queue therefore starts a call nobody carries.
- `NonceInv`: a nonce that was read is refused only after a foreigner came (`raced`), or
  because of an extrinsic no call waits for that held it already (`met`). A block that
  takes such an extrinsic leaves the nonce as unusable as it was.
- `PoolInv`: an own extrinsic is in the pool once, watched by its activation, or its
  reply was lost.
- `ItemInv`: step, verdict, promise and subscription of each call agree.

The proofs go by action: those of the queue that start an activation share the lemma
`StartEffect`, those of the chain share `ChainEffect`, and the others `QuietEffect`. In
the refinement an activation that starts or goes on is a stutter, since the call it
carries is still the first pending one; `Finish` is `Settle(1, v)`; `Enqueue` is
`Enqueue`.

### The batching queue

`BatchingQueueProofs`, for every set of calls, batch size, age, number of retries, foreign
extrinsics, failures, misread errors and stops:

- `TypeCorrect`: `Spec => []TypeOK`, and `Inductive`: `Spec => []IInv`.
- `ExecutedOnce`, `Truthful`, `NonceSafety`, `NonceContinuity`, `OneSubscription`: the
  invariants `AtMostOnce`, `OutcomeMatchesChain`, `NoNonceCollision`, `NoNonceGap`,
  `OneHeadsSubscription`.
- `Refinement`: `Spec => ImplementsSubmissionQueue`, where a batch settles as one.
- `Scoped`: `Spec => []EventsScoped`, for batches of any length and whichever calls fail.

`IInv` consists of what each piece of code relies on without checking it:

- `LoopInv` and `WaitingInv`: there is a round exactly while an activation runs, and no
  call is twice in the round and the queue together. A batch put back in front of the
  queue after a nonce error therefore repeats nothing.
- `ItemsInv`: where the extrinsic is of each call that was not sent again by mistake.
  `ChainOK` has it in one extrinsic of the
  pool or in a block, not both; `RoundOK` says which verdicts leave it `Clean`, that is,
  nowhere on the chain; `PromiseOK` what a settled promise says of it. That a nonce
  error leaves the calls clean is what makes the retry safe.
- `ResentInv` and `ExecutedInv`: only a lost reply or a dispatch error, misread, makes a
  call one of the others, and whatever is told of a block is in one.
- `BudgetInv`: for those too, the blocks a call is in and the extrinsics of the pool that
  carry it are at most one more than the retries. A call that was put back goes with the next
  batch, so the count of retries covers it until it is settled.
- `NonceCount` and `NonceInv`: with nobody else using the account (`OwnNonces`: and as long
  as a misread error does not make the client forget a nonce it left unused), the nonce the
  client counts is at least the chain's and above all of the pool, before and after it counts.
- `GapInv`: as long as every nonce counted was used (`skipped = 0`), none between the
  chain's and the client's is missing in the pool.
- `UnsubInv` and `HeadsInv`: unless `stop()` came before the subscription resolved, what
  is subscribed is one, is what `stop()` would close, and is there only with the timer.

`EventsScoped` needs induction over the calls of a batch: `Grouped` says of the events up
to the marker of call `k` that slicing them yields `k` groups, the `j`-th being the events
of call `j`, with nothing left over.

### The chain service

`ChainServiceProofs`, for any number of services, subscribers, submissions and calls of
`disconnect()`:

- `TypeCorrect`: `Spec => []TypeOK`. It is proved instead of run: what the run would show
  of it, the theorem shows for all instances.
- `SingleAuthority`: `Spec => []OneAuthority`. `RegistryInv` says that the registry makes
  one queue, before the application installs one, and that no other has calls; without it
  a second default queue could be made behind the first.
- `FeedsServed`: `Spec => []FeedServes`. `FeedInv` adds what lies between two awaits: who
  is on the way to a subscription has its entry already, so that the last to leave cannot
  be taken for the last one; an entry is that of a subscriber, of one on the way, or of a
  call that failed; what would be closed is open, and only while there are entries; and,
  without an overlap, at most one first subscription is on the way, and none while a
  subscription is open.

The proof of `FeedInv` has a lemma per step that touches the subscriptions of a service
(`SubscribeStep`, `FeedOpensStep`, `UnsubscribeStep`), one for operations that only move
(`OtherMoves`), and one for everything else (`FeedFrame`).

### Files, keys, the log and the tunnel

`EdgePartsProofs` proves the four properties of EdgeParts. `OnePart` says that a
step of one part leaves the others alone, so each has an invariant of its own:

- `FilesKept`: `Spec => []OwnScriptPinned`, for any number of deployments and stops.
  `OwnInv` says that the file a deployment needs next is its own, and `ApartInv` that two
  deployments that need one file know of each other; without it a step of one would be
  free to replace the other's file.
- `KeysKept`: `Spec => []EnvironmentsReadable`, for any number of calls on one store.
  `StoreInv` says that a stored pair is whole, or known not to be, and the old one whole;
  `TurnInv` that a call between its two reads of the store still finds the key it used;
  `PassedInv` that no processor behind it was passed over without a reason.
- `TunnelKept`: `Spec => []TunnelServes`, for any number of attempts. `TunnelInv` ties the
  target `tunnel.py` was started with to the server that runs, through the set-up, where a
  server may have been ended already.

- `LogsKept`: `Spec => []LogsAccountedFor`, for any rate limit and any number of calls.
  `LogInv` counts: what is posted or waits, with what is dropped and not yet reported and
  what could not be serialized, is every call; and something is dropped only while the
  limit is reached.

### The deployment flow

`DeployFlowProofs`, for any finite set of processors, any number of replicas and any times:

- `TypeCorrect`, `Inductive`.
- `StatusesInOrder`, `SomeoneReached`, `AbortsInTime`, `NoEarlyEnv`, `OneSubscription`:
  the invariants `StatusOrder`, `EnvSetReachesSomeone`, `NotLongPastAbort`,
  `NotSetTooEarly`, `OneStatusSubscription`.

`IInv` has `AttemptInv` for the clock (a query that is under way began early enough that
its timeout, `wakeAt`, is within one or two timeouts of the abort time, and the clock
does not pass `wakeAt`), `RecipientsInv` for the processors an attempt encrypts for (polling
ends with somebody found, and whoever of them can be encrypted for is a recipient),
`ResultsInv` and `SubsInv` for what results and statuses the callbacks have seen, and
`StartedInv`, which ties `envHasBeenSet`, the timer and `setEnvVars` together: a timer that
is set is the one of two minutes before the start, and leads to the only call.

### The dApp client

`DappClientProofs`, for any number of clients, listeners, lost sockets and URLs:

- `TypeCorrect`, `Inductive`. That `connect()` has a URL to try when it opens one is part of
  the types (`TriesOK`); `OtherUrls`, which is recursive, is shown to be a sequence of URLs.
- `Closed` and `ListensOnce`: `ClosedStaysClosed`, `NoListenerTwice`.
- `AnsweredByServer`: `Spec => ConnectAnswered`, an action property.

`DialOK` and `WaitsOK` count the redials: each that waits or is on its way is for one lost
socket, so none is left over to dial for a client that was closed (`ClosedOK`).
`FreshOK` says that the promise of the first `connect()` cannot be met by a socket whose
handshake is over. `ListenersInv` has every listener in one place.

And about the frames of the protocol, for any bytes:

- `ReadAsForged`: parsing a frame gives the message it was forged of, for every message
  whose fields, but for the last, have their lengths.
- `ForgedAsRead`: a readable frame is the one forged of what is read, unless something
  stands behind an `init` or an `accepted`. So a frame cut off is read, and nobody told.
- `AnswersFit`: the server finds its challenge, and what was signed, in the answer exactly
  when the challenge has 16 bytes.
- `FramesCarry`: `Spec => []FramesCarryHandshake`, from these.

### Job planning

`JobPlanningProofs`, for any values of the fields, fractions and numbers beyond every limit
among them, any times and any market:

- `TypeCorrect`, `Inductive`.
- `PlansTaken`: `Spec => []PlanTaken`. What the schema accepts and does not overlook is
  converted and encoded, and what is submitted has a schedule the runtime takes, whenever it
  is converted after it was validated: the lemmas `ValidExecution`, `ValidStart`, `Stretch`
  and `Executions` are the arithmetic of the schedule, `WholeNumbers` and `VersionsEncode`
  that of the encodings, `ValidConverts` and `ValidEncodes` what they mean for the job.
- `AdvicesHold`: `Spec => []AdviceHolds`. The distribution counts a processor once
  (`DistributionAddsUp`: the accumulated counts are those of the processors up to a
  boundary, by induction over the buckets), so the first bucket that reaches the number
  needed is the cheapest price enough processors take (`SuggestionCovers`).

`PlanInv` says of every later stage that it was made of the configuration that was
validated, at a time that is not before the validation.

### Induction

The induction theorems of the library take operators as parameters, which the provers
cannot instantiate. `SetInduction` states two for sets and functions, which they can:
`RangeInduction` (a set that has 0, and `n + 1` with every `n`, has all numbers up to a
bound), from the least element of a set of numbers, and `RecursionExists` (recursion up to
a bound has a solution), with which recursive functions such as `Taken`, `Accumulated`,
`Told` and `OtherUrls` are unfolded.

### Only model-checked

- Liveness (`EveryEnqueueSettles`, `StartSettles`, `LostIsRedialled`, `AckLeadsToEnvReport`,
  `OperationsSettle`): it needs fairness and ENABLED, out of the prover's reach.
- The violations: a theorem says what holds.

## 5. What is left out

**Not modelled.** Account and job queries and edits (one query or one enqueue each, no
state of their own), type declarations and chain type tables, the devtools API client (one
HTTP request per function), examples and publish scripts.

**Left out of parts that are modelled.** Cryptography, codecs of chain types, HTTP and
logging; the texts of errors (which of them a batching queue takes for one of the nonce is
left open); time inside the queues, where no decision depends on it;
which keys a processor published, in SetEnvVars, beyond whether one can be encrypted for
(EnvironmentKeys has them); fractions finer than a half; the configuration's fields that
are only typed, and `load-config.ts`; the average price, `fee-analysis.ts` and
`suggest-cost.ts`, which multiply decimal numbers; `parseByteSize()`; the upload of a file
by the devtools; the proof of work and the serialization of values in the transport;
`job.ts`, `keypair.ts`, `images.ts` and `probe.ts` of the VPS package.

**Known hazards without a property**, beside those in `PROJECT.json`:

- `chain/tx-queue.ts:299` - a call stamped before the first head carries block 0, and the
  first head flushes it without the wait: earlier than meant, and harmless.
- `chain/set-env-vars.ts:79` - `maxRetries` 0 skips the loop and its throw; the models
  take at least one attempt.
- `acurast-transport-websocket/src/client/client.ts:141` - `send()` on a socket that was
  opened again and is not yet accepted puts a payload in the middle of the handshake; what
  the server does with it is not in this repository.
- `acurast-vps/src/probe.ts:61` - the timeout is one of inactivity: a peer that keeps
  sending is waited for.

## 6. Plan

What is next, in this order:

1. ChainService with the queue modules in place of `fifo`, and EnvironmentKeys inside
   SetEnvVars; their invariants carry over step by step.
2. `send()` in Transport, and `probe.ts`.

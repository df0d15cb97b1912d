----------------------------- MODULE SetEnvVars -----------------------------
(***************************************************************************)
(* setEnvVars (acurast-sdk/src/chain/set-env-vars.ts): poll until some     *)
(* assigned processor has published keys, encrypt for those whose keys can *)
(* be encrypted for, and submit setEnvironments. Time passes in abstract   *)
(* ticks; a timer that is due fires before the clock moves on.             *)
(***************************************************************************)
EXTENDS Naturals

CONSTANTS
  Processors,   \* the processors a job may be assigned to
  MaxRetries, RetryDelay, RpcTimeout,  \* attempts, pause, and limit of one query
  AbortAt,      \* abortIfPastStartMs
  MaxTime       \* bound of the clock

ASSUME SetEnvVarsAssumption ==
  /\ MaxRetries \in Nat \ {0} /\ RetryDelay \in Nat \ {0} /\ RpcTimeout \in Nat \ {0}
  /\ AbortAt \in Nat /\ MaxTime \in Nat

VARIABLES
  now,          \* Date.now()
  assigned,     \* chain: processors that acknowledged the job
  published,    \* chain: those whose assignment carries keys, of whatever kind
  encryptable,  \* those among whose keys is one to encrypt for, with a public key
                \* of one's own to announce (which it may be: EnvironmentKeys)
  phase,        \* where setEnvVars is suspended
  attempt,      \* its loop counter
  wakeAt,       \* when the timer of its current await fires
  keys,         \* processors it found assigned
  infos,        \* of these, the ones whose assignment it read with keys
  recipients,   \* processors it submitted an environment for
  submittedAt,  \* history: when it submitted, 0 until then
  envOutcome    \* how it ended

chainJobVars == <<assigned, published, encryptable>>
envVars == <<phase, attempt, wakeAt, keys, infos, recipients, submittedAt, envOutcome>>

Querying == {"processors", "assignments"}

EnvTypeOK ==
  /\ now \in 0..MaxTime
  /\ assigned \subseteq Processors /\ published \subseteq assigned
  /\ encryptable \subseteq Processors
  /\ phase \in Querying \cup {"off", "sleeping", "encrypting", "submitted", "done"}
  /\ attempt \in 0..MaxRetries
  /\ wakeAt \in Nat
  /\ keys \subseteq Processors /\ infos \subseteq keys /\ recipients \subseteq keys
  /\ submittedAt \in Nat
  /\ envOutcome \in {"none", "set", "failed", "aborted", "gaveUp"}

EnvInit ==
  /\ now = 0 /\ assigned = {} /\ published = {}
  /\ encryptable \in SUBSET Processors
  /\ phase = "off" /\ attempt = 0 /\ wakeAt = 0
  /\ keys = {} /\ infos = {} /\ recipients = {}
  /\ submittedAt = 0 /\ envOutcome = "none"

-----------------------------------------------------------------------------
EnvEnds(outcome) == phase' = "done" /\ envOutcome' = outcome

\* Mutant: the time is looked at before the first attempt only.
MustAbortFirst == attempt = 0 /\ now >= AbortAt

\* The time is looked at before every attempt, and only there.
MustAbort == now >= AbortAt

\* The head of the loop: abort, or ask for the assigned processors.
NextAttempt ==
  /\ IF MustAbort
     THEN EnvEnds("aborted") /\ UNCHANGED <<attempt, wakeAt>>
     ELSE /\ attempt' = attempt + 1
          /\ phase' = "processors"
          /\ wakeAt' = now + RpcTimeout
          /\ UNCHANGED envOutcome
  /\ UNCHANGED <<keys, infos, recipients, submittedAt>>

\* Mutant: one attempt more than maxRetries.
LastAttemptLate == attempt > MaxRetries

LastAttempt == attempt = MaxRetries

\* The foot of the loop when no key was found.
NoKeys ==
  IF LastAttempt
  THEN EnvEnds("gaveUp") /\ UNCHANGED wakeAt
  ELSE phase' = "sleeping" /\ wakeAt' = now + RetryDelay /\ UNCHANGED envOutcome

\* acurast.assignedProcessors answers in time.
ReadProcessors ==
  /\ phase = "processors"
  /\ keys' = assigned
  /\ infos' = {}
  /\ phase' = "assignments"
  /\ wakeAt' = now + RpcTimeout
  /\ UNCHANGED <<now, chainJobVars, attempt, recipients, submittedAt, envOutcome>>

\* Mutant: an assignment is enough, with or without keys.
HasPubKeysAny(found) == found # {}

\* jobAssignmentInfos.some(pubKeys.length > 0), whatever the keys are
HasPubKeys(found) == found \cap published # {}

\* acurast.jobAssignments answers in time.
ReadAssignments ==
  /\ phase = "assignments"
  /\ infos' = keys \cap published
  /\ IF HasPubKeys(keys)
     THEN phase' = "encrypting" /\ UNCHANGED <<wakeAt, envOutcome>>
     ELSE NoKeys
  /\ UNCHANGED <<now, chainJobVars, attempt, keys, recipients, submittedAt>>

\* A query fails, at the latest when withTimeout gives it up.
QueryFails ==
  /\ phase \in Querying
  /\ NoKeys
  /\ UNCHANGED <<now, chainJobVars, attempt, keys, infos, recipients, submittedAt>>

Wake ==
  /\ phase = "sleeping" /\ now = wakeAt
  /\ NextAttempt
  /\ UNCHANGED <<now, chainJobVars>>

\* Processors with keys, none of them to encrypt for, or on a curve without a
\* public key of one's own, are passed over.
EncryptedFor(found) == found \cap encryptable

\* setEnvironmentVariablesMulti: encrypt and enqueue, be it for nobody.
SubmitEnv ==
  /\ phase = "encrypting"
  /\ recipients' = EncryptedFor(infos)
  /\ submittedAt' = now
  /\ phase' = "submitted"
  /\ UNCHANGED <<now, chainJobVars, attempt, wakeAt, keys, infos, envOutcome>>

\* Encrypting throws.
EncryptFails ==
  /\ phase = "encrypting" /\ EnvEnds("failed")
  /\ UNCHANGED <<now, chainJobVars, attempt, wakeAt, keys, infos, recipients,
                 submittedAt>>

\* The enqueued extrinsic settles.
EnvSettles ==
  /\ phase = "submitted" /\ \E o \in {"set", "failed"} : EnvEnds(o)
  /\ UNCHANGED <<now, chainJobVars, attempt, wakeAt, keys, infos, recipients,
                 submittedAt>>

\* What setEnvVars does by itself: all but the answer of the queue.
EnvProgress == ReadProcessors \/ ReadAssignments \/ QueryFails \/ Wake \/ SubmitEnv
               \/ EncryptFails

EnvStep == EnvProgress \/ EnvSettles

\* A processor publishes its keys.
Publish(p) ==
  /\ p \in assigned
  /\ published' = published \cup {p}
  /\ UNCHANGED <<now, assigned, encryptable, envVars>>

\* The clock waits for timers and the encryption, which takes no time to speak of.
EnvTimersDue == \/ phase \in Querying \cup {"sleeping"} /\ now >= wakeAt
                \/ phase = "encrypting"
=============================================================================

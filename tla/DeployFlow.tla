----------------------------- MODULE DeployFlow -----------------------------
(***************************************************************************)
(* deployProjectCore (acurast-sdk/src/deploy/deploy-core.ts) with          *)
(* registerJob (chain/register-job.ts) and the setEnvVars it starts: the   *)
(* deploy extrinsic, the job's status subscription, and the environment    *)
(* variables set after the acknowledgements or two minutes before start.   *)
(***************************************************************************)
EXTENDS SetEnvVars, FiniteSets

CONSTANTS
  None,        \* undefined
  Replicas,    \* config.numberOfReplicas
  StartTime,   \* job.schedule.startTime
  TwoMinutes   \* TWO_MINUTES

ASSUME DeployAssumption ==
  /\ IsFiniteSet(Processors)
  /\ Replicas \in 1..Cardinality(Processors)
  /\ StartTime \in Nat /\ TwoMinutes \in Nat

VARIABLES
  extrinsic,      \* the deploy extrinsic: what the chain did with it
  enqueued,       \* the promise of queue.enqueue in registerJob
  results,        \* results of the extrinsic its onResult has seen
  statusSubs,     \* open storedJobStatus subscriptions
  matched,        \* chain: the job is matched
  jobIdKnown,     \* jobId in deployProjectCore
  envHasBeenSet, timer,  \* as in deployProjectCore
  reported,       \* the statuses passed to options.statusCallback so far
  setEnvAt        \* history: when, and after how many acks seen, setEnv began

deployVars == <<extrinsic, enqueued, results, statusSubs, matched, jobIdKnown,
                envHasBeenSet, timer, reported, setEnvAt>>
vars == <<now, chainJobVars, envVars, deployVars>>

Statuses == {"WaitingForMatch", "Matched", "Acknowledged", "EnvSet", "EnvError", "Submit"}
MaxResults == 2   \* InBlock, and Finalized when it comes before .then(u)

TypeOK ==
  /\ EnvTypeOK
  /\ extrinsic \in {"pending", "ok", "failed", "itemFailed"}
  /\ enqueued \in {"pending", "resolved", "rejected"}
  /\ results \in 0..MaxResults
  /\ statusSubs \in 0..MaxResults
  /\ matched \in BOOLEAN /\ jobIdKnown \in BOOLEAN /\ envHasBeenSet \in BOOLEAN
  /\ timer \in Nat \cup {None}
  /\ reported \subseteq Statuses
  /\ setEnvAt \in [time : Nat, acks : 0..Cardinality(Processors)] \cup {None}

Init ==
  /\ EnvInit
  /\ extrinsic = "pending" /\ enqueued = "pending" /\ results = 0
  /\ statusSubs = 0 /\ matched = FALSE
  /\ jobIdKnown = FALSE /\ envHasBeenSet = FALSE /\ timer = None
  /\ reported = {} /\ setEnvAt = None

-----------------------------------------------------------------------------
\* The block with the deploy extrinsic. "itemFailed": it was one call of a
\* forceBatch, which succeeds as a whole.
InBlock ==
  /\ extrinsic = "pending"
  /\ extrinsic' \in {"ok", "failed", "itemFailed"}
  /\ UNCHANGED <<now, chainJobVars, envVars, enqueued, results, statusSubs, matched,
                 jobIdKnown, envHasBeenSet, timer, reported, setEnvAt>>

\* Mutant: every result with the job's event subscribes.
MaySubscribeAgain == TRUE

\* jobStatusSubscribed: only the first result does.
MaySubscribe == ~jobIdKnown

\* onResult: on the first JobRegistrationStoredV2, WaitingForMatch is reported
\* and the job's status subscribed to. The next result settles nothing new.
OnResult ==
  /\ extrinsic # "pending" /\ results < MaxResults
  /\ results' = results + 1
  /\ IF extrinsic = "ok" /\ MaySubscribe
     THEN /\ jobIdKnown' = TRUE
          /\ reported' = reported \cup {"WaitingForMatch"}
          /\ statusSubs' = statusSubs + 1
     ELSE UNCHANGED <<jobIdKnown, reported, statusSubs>>
  /\ UNCHANGED <<now, chainJobVars, envVars, extrinsic, enqueued, matched,
                 envHasBeenSet, timer, setEnvAt>>

\* Mutant: an extrinsic that failed in its block resolves as well.
VerdictAlways == "resolved"

\* The queue rejects for the dispatchError of a whole extrinsic only.
Verdict == IF extrinsic = "failed" THEN "rejected" ELSE "resolved"

\* enqueue settles after the first result; Submit is reported on a resolve.
Settled ==
  /\ enqueued = "pending" /\ results > 0
  /\ enqueued' = Verdict
  /\ reported' = reported \cup (IF Verdict = "resolved" THEN {"Submit"} ELSE {})
  /\ UNCHANGED <<now, chainJobVars, envVars, extrinsic, results, statusSubs, matched,
                 jobIdKnown, envHasBeenSet, timer, setEnvAt>>

\* The chain matches the job, and the processors acknowledge it.
Match ==
  /\ extrinsic = "ok" /\ ~matched
  /\ matched' = TRUE
  /\ UNCHANGED <<now, chainJobVars, envVars, extrinsic, enqueued, results, statusSubs,
                 jobIdKnown, envHasBeenSet, timer, reported, setEnvAt>>

Acknowledge(p) ==
  /\ matched
  /\ assigned' = assigned \cup {p}
  /\ UNCHANGED <<now, published, encryptable, envVars, deployVars>>

\* The status subscription sees the job matched.
MatchedUpdate ==
  /\ statusSubs > 0 /\ matched /\ assigned = {}
  /\ reported' = reported \cup {"Matched"}
  /\ UNCHANGED <<now, chainJobVars, envVars, extrinsic, enqueued, results, statusSubs,
                 matched, jobIdKnown, envHasBeenSet, timer, setEnvAt>>

-----------------------------------------------------------------------------
\* setEnv(): mark it, clear the timer, start the first attempt.
SetEnv(acks) ==
  /\ envHasBeenSet' = TRUE
  /\ timer' = None
  /\ setEnvAt' = [time |-> now, acks |-> acks]
  /\ NextAttempt

\* Mutant: three minutes count as two.
EnoughToStartEarly(acks) == acks >= Replicas \/ now + TwoMinutes + 1 >= StartTime

\* All acknowledgements, or at most two minutes to the start.
EnoughToStart(acks) == acks >= Replicas \/ now + TwoMinutes >= StartTime

\* Mutant: the first acknowledgement arms no timer.
ArmTimerNever == timer' = timer

\* Two minutes before the start, which EnoughToStart says is ahead. (The runtime
\* takes no start more than a day ahead, within what setTimeout can wait.)
ArmTimer == timer' = IF timer = None THEN StartTime - TwoMinutes ELSE timer

\* Mutant: the subscription is kept.
SubsAfterAckKept == statusSubs

\* unsubStoredJobStatus(), at the first Assigned.
SubsAfterAck == statusSubs - 1

\* The status subscription sees acknowledgements.
AcknowledgedUpdate ==
  LET acks == Cardinality(assigned) IN
  /\ statusSubs > 0 /\ acks > 0
  /\ statusSubs' = SubsAfterAck
  /\ reported' = reported \cup {"Acknowledged"}
  /\ IF ~envHasBeenSet /\ EnoughToStart(acks)
     THEN SetEnv(acks)
     ELSE /\ IF envHasBeenSet THEN UNCHANGED timer ELSE ArmTimer
          /\ UNCHANGED <<envHasBeenSet, setEnvAt, envVars>>
  /\ UNCHANGED <<now, chainJobVars, extrinsic, enqueued, results, matched, jobIdKnown>>

TimerFires ==
  /\ timer # None /\ now = timer
  /\ SetEnv(0)
  /\ UNCHANGED <<now, chainJobVars, extrinsic, enqueued, results, statusSubs, matched,
                 jobIdKnown, reported>>

\* setEnv().catch(handleEnvError): success and failure are both reported.
EnvReport ==
  /\ phase = "done" /\ reported \cap {"EnvSet", "EnvError"} = {}
  /\ reported' = reported \cup {IF envOutcome = "set" THEN "EnvSet" ELSE "EnvError"}
  /\ UNCHANGED <<now, chainJobVars, envVars, extrinsic, enqueued, results, statusSubs,
                 matched, jobIdKnown, envHasBeenSet, timer, setEnvAt>>

Tick ==
  /\ now < MaxTime
  /\ ~EnvTimersDue
  /\ timer # None => now < timer
  /\ now' = now + 1
  /\ UNCHANGED <<chainJobVars, envVars, deployVars>>

-----------------------------------------------------------------------------
Next ==
  \/ InBlock \/ OnResult \/ Settled \/ Match \/ MatchedUpdate
  \/ AcknowledgedUpdate \/ TimerFires \/ EnvReport \/ Tick
  \/ ReadProcessors /\ UNCHANGED deployVars
  \/ ReadAssignments /\ UNCHANGED deployVars
  \/ QueryFails /\ UNCHANGED deployVars
  \/ Wake /\ UNCHANGED deployVars
  \/ SubmitEnv /\ UNCHANGED deployVars
  \/ EncryptFails /\ UNCHANGED deployVars
  \/ EnvSettles /\ UNCHANGED deployVars
  \/ \E p \in Processors : \/ Acknowledge(p)
                           \/ Publish(p) /\ UNCHANGED deployVars

\* Timers fire, promises that settled are handled, and time passes. The chain
\* may stay silent: nothing has to be matched, acknowledged or published. Nor
\* has the queue to settle what was submitted: EnvSettles is not fair.
Fairness ==
  /\ WF_vars(Tick) /\ WF_vars(TimerFires) /\ WF_vars(EnvReport)
  /\ WF_vars(EnvProgress /\ UNCHANGED deployVars)

Spec == Init /\ [][Next]_vars
FairSpec == Spec /\ Fairness

-----------------------------------------------------------------------------
\* Statuses come in an order their receiver can rely on: no job status before
\* the job id, an environment only after an acknowledgement, and Submit with
\* a job behind it unless the deploy was a failing call of a batch.
StatusOrder ==
  /\ reported \cap {"Matched", "Acknowledged"} # {} => "WaitingForMatch" \in reported
  /\ reported \cap {"EnvSet", "EnvError"} # {} => "Acknowledged" \in reported
  /\ "Submit" \in reported => "WaitingForMatch" \in reported \/ extrinsic = "itemFailed"

\* The environment is submitted for none but processors that published a key
\* to encrypt for, and somebody is reached: polling ends with processors found
\* that have keys, and only if some of those keys cannot be encrypted for may
\* the submission be for nobody, which counts as EnvSet all the same.
EnvSetReachesSomeone ==
  phase \in {"submitted", "done"} /\ envOutcome \in {"none", "set"} =>
    /\ recipients \subseteq published \cap encryptable
    /\ recipients = {} => \E p \in keys \cap published : p \notin encryptable

\* abortIfPastStartMs is looked at between attempts only, so a submission may
\* be late, but by no more than the two queries of one attempt.
NotLongPastAbort == submittedAt < AbortAt + 2 * RpcTimeout

\* With part of the acknowledgements the variables are not set before the two
\* minutes are reached (deploy-core.ts:150: "Start is in the future, timeout
\* will trigger in ...ms, 2 minutes before start time.").
NotSetTooEarly ==
  setEnvAt # None =>
    setEnvAt.acks >= Replicas \/ setEnvAt.time + TwoMinutes >= StartTime

\* While the variables are not set, a later acknowledgement, be it the last one
\* awaited, can still be seen (deploy-core.ts:140: "Have all acknowledgements, so
\* we can set the env vars now.").
LastAckCanBeSeen ==
  jobIdKnown /\ setEnvAt = None /\ Cardinality(assigned) < Replicas => statusSubs > 0

\* The job's status is watched by one subscription at most, and by none once
\* an acknowledgement was seen.
OneStatusSubscription ==
  /\ statusSubs <= 1
  /\ "Acknowledged" \in reported => statusSubs = 0

\* After the first acknowledgement the outcome of setting the variables is
\* reported, be it an error, unless their submission still waits in the queue,
\* where it may wait for ever (EveryEnqueueSettlesAlways is false). Once it
\* is settled it is reported.
AckLeadsToEnvReport ==
  "Acknowledged" \in reported ~>
    reported \cap {"EnvSet", "EnvError"} # {} \/ phase = "submitted"
=============================================================================

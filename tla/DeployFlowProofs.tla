-------------------------- MODULE DeployFlowProofs --------------------------
(***************************************************************************)
(* Proofs about DeployFlow, and the setEnvVars it starts, for any set of   *)
(* processors, any schedule and any length of timeouts and pauses.         *)
(***************************************************************************)
EXTENDS DeployFlow, FiniteSetTheorems, TLAPS

\* The times of setEnvVars: a timer of its await is never overslept, and each
\* of the two queries of an attempt starts within its part of the time that
\* NotLongPastAbort allows.
AttemptInv ==
  /\ phase \in Querying \cup {"sleeping"} => now <= wakeAt
  /\ phase = "off" => attempt = 0
  /\ phase = "sleeping" => attempt < MaxRetries
  /\ phase = "processors" => wakeAt < AbortAt + RpcTimeout
  /\ phase = "assignments" => wakeAt < AbortAt + 2 * RpcTimeout
  /\ phase = "encrypting" => now < AbortAt + 2 * RpcTimeout
  /\ NotLongPastAbort

\* Whoever could be reached among those found with keys is.
Reached ==
  /\ recipients \subseteq published \cap encryptable
  /\ recipients = {} => \E p \in keys \cap published : p \notin encryptable

\* What it encrypts for, and how it ends.
RecipientsInv ==
  /\ phase = "encrypting" => infos # {} /\ infos \subseteq keys \cap published
  /\ phase = "submitted" \/ envOutcome = "set" => Reached
  /\ phase \notin {"submitted", "done"} => recipients = {}
  /\ phase = "done" <=> envOutcome # "none"

EnvInv == EnvTypeOK /\ AttemptInv /\ RecipientsInv

\* The variables of deployProjectCore and registerJob have their types.
DeployTypes ==
  /\ extrinsic \in {"pending", "ok", "failed", "itemFailed"}
  /\ enqueued \in {"pending", "resolved", "rejected"}
  /\ results \in 0..MaxResults
  /\ statusSubs \in 0..MaxResults
  /\ matched \in BOOLEAN /\ jobIdKnown \in BOOLEAN /\ envHasBeenSet \in BOOLEAN
  /\ timer \in Nat \cup {None}
  /\ reported \subseteq Statuses
  /\ setEnvAt \in [time : Nat, acks : 0..Cardinality(Processors)] \cup {None}

\* The extrinsic, its results and what the queue said of it.
ResultsInv ==
  /\ results > 0 => extrinsic # "pending"
  /\ results > 0 /\ extrinsic = "ok" => jobIdKnown
  /\ "Submit" \in reported => results > 0 /\ extrinsic # "failed"

\* The status is subscribed to with the job id, once, until acknowledged.
SubsInv ==
  /\ jobIdKnown <=> "WaitingForMatch" \in reported
  /\ ~jobIdKnown => statusSubs = 0 /\ reported \cap {"Matched", "Acknowledged"} = {}
  /\ OneStatusSubscription

\* Setting the variables: once, after an acknowledgement, with no timer left.
StartedInv ==
  /\ phase = "off" <=> ~envHasBeenSet
  /\ timer # None => ~envHasBeenSet /\ timer \in Nat /\ timer + TwoMinutes = StartTime
  /\ timer # None \/ envHasBeenSet => "Acknowledged" \in reported
  /\ phase # "done" => reported \cap {"EnvSet", "EnvError"} = {}
  /\ NotSetTooEarly

IInv == EnvInv /\ DeployTypes /\ ResultsInv /\ SubsInv /\ StartedInv

-----------------------------------------------------------------------------
\* The numbers the constants are.
LEMMA Numbers ==
  /\ MaxRetries \in Nat /\ MaxRetries > 0 /\ RetryDelay \in Nat /\ RpcTimeout \in Nat
  /\ RpcTimeout > 0 /\ AbortAt \in Nat /\ MaxTime \in Nat
  /\ StartTime \in Nat /\ TwoMinutes \in Nat
  /\ Cardinality(Processors) \in Nat /\ Replicas \in Nat /\ Replicas > 0
<1>1. Cardinality(Processors) \in Nat
  BY DeployAssumption, FS_CardinalityType
<1> QED BY <1>1, SetEnvVarsAssumption, DeployAssumption

\* The type invariant in two parts.
LEMMA TypeParts == TypeOK <=> EnvTypeOK /\ DeployTypes
BY DEF TypeOK, DeployTypes

LEMMA InitIInv == Init => IInv
<1> SUFFICES ASSUME Init PROVE IInv
  OBVIOUS
<1> USE DEF Init, EnvInit
<1>1. EnvTypeOK
  BY Numbers DEF EnvTypeOK, Querying
<1>2. AttemptInv /\ RecipientsInv
  <2>1. 0 < AbortAt + 2 * RpcTimeout
    BY Numbers
  <2>2. AttemptInv
    BY <2>1 DEF AttemptInv, NotLongPastAbort, Querying
  <2>3. RecipientsInv
    BY DEF RecipientsInv, Reached
  <2> QED BY <2>2, <2>3
<1>3. DeployTypes
  <2>1. 0 \in 0..MaxResults
    BY DEF MaxResults
  <2>2. /\ matched \in BOOLEAN /\ jobIdKnown \in BOOLEAN /\ envHasBeenSet \in BOOLEAN
        /\ reported \subseteq Statuses /\ timer \in Nat \cup {None}
    OBVIOUS
  <2>3. setEnvAt \in [time : Nat, acks : 0..Cardinality(Processors)] \cup {None}
    OBVIOUS
  <2> QED BY <2>1, <2>2, <2>3 DEF DeployTypes
<1>4. ResultsInv /\ SubsInv /\ StartedInv
  BY DEF ResultsInv, SubsInv, StartedInv, OneStatusSubscription, NotSetTooEarly
<1> QED BY <1>1, <1>2, <1>3, <1>4 DEF IInv, EnvInv

-----------------------------------------------------------------------------
\* setEnvVars.

\* An attempt starts before the time to abort, or none does.
LEMMA NextAttemptKeeps ==
  ASSUME EnvInv, phase \in {"off", "sleeping"}, NextAttempt, UNCHANGED <<now, chainJobVars>>
  PROVE  EnvInv' /\ phase' \in {"processors", "done"}
<1> USE DEF EnvInv
<1>1. attempt < MaxRetries /\ attempt \in Nat /\ now \in Nat
  BY Numbers DEF AttemptInv, EnvTypeOK
<1>2. UNCHANGED <<now, assigned, published, encryptable, keys, infos, recipients, submittedAt>>
  BY DEF NextAttempt, chainJobVars
<1>3. CASE MustAbort
  <2>1. phase' = "done" /\ envOutcome' = "aborted" /\ attempt' = attempt /\ wakeAt' = wakeAt
    BY <1>3 DEF NextAttempt, EnvEnds
  <2>2. EnvTypeOK'
    BY <1>2, <2>1 DEF EnvTypeOK
  <2>3. AttemptInv' /\ RecipientsInv'
    BY <1>2, <2>1 DEF AttemptInv, RecipientsInv, Reached, NotLongPastAbort, Querying
  <2> QED BY <2>1, <2>2, <2>3
<1>4. CASE ~MustAbort
  <2>1. /\ phase' = "processors" /\ envOutcome' = envOutcome /\ attempt' = attempt + 1
        /\ wakeAt' = now + RpcTimeout /\ now < AbortAt
    BY <1>1, <1>4, Numbers DEF NextAttempt, MustAbort
  <2>2. attempt' \in 0..MaxRetries /\ wakeAt' \in Nat /\ now <= wakeAt'
        /\ wakeAt' < AbortAt + RpcTimeout
    BY <1>1, <2>1, Numbers
  <2>3. EnvTypeOK'
    BY <1>2, <2>1, <2>2 DEF EnvTypeOK, Querying
  <2>4. AttemptInv'
    BY <1>2, <2>1, <2>2 DEF AttemptInv, NotLongPastAbort
  <2>5. RecipientsInv'
    BY <1>2, <2>1 DEF RecipientsInv, Reached
  <2> QED BY <2>1, <2>3, <2>4, <2>5
<1> QED BY <1>3, <1>4

\* A query that ends has found keys, or pauses, or is the last.
LEMMA NoKeysKeeps ==
  ASSUME EnvInv, phase \in Querying, NoKeys, infos' \subseteq keys,
         UNCHANGED <<now, chainJobVars, attempt, keys, recipients, submittedAt>>
  PROVE  EnvInv' /\ phase' \in {"sleeping", "done"}
<1> USE DEF EnvInv
<1>1. attempt \in 0..MaxRetries /\ now \in Nat
  BY DEF EnvTypeOK
<1>2. UNCHANGED <<now, assigned, published, encryptable, attempt, keys, recipients, submittedAt>>
  BY DEF chainJobVars
<1>3. CASE LastAttempt
  <2>1. phase' = "done" /\ envOutcome' = "gaveUp" /\ wakeAt' = wakeAt
    BY <1>3 DEF NoKeys, EnvEnds
  <2>2. EnvTypeOK'
    BY <1>2, <2>1 DEF EnvTypeOK
  <2>3. AttemptInv'
    BY <1>2, <2>1 DEF AttemptInv, NotLongPastAbort, Querying
  <2>4. RecipientsInv'
    BY <1>2, <2>1 DEF RecipientsInv, Reached
  <2> QED BY <2>1, <2>2, <2>3, <2>4
<1>4. CASE ~LastAttempt
  <2>1. phase' = "sleeping" /\ wakeAt' = now + RetryDelay /\ envOutcome' = envOutcome
    BY <1>4 DEF NoKeys
  <2>2. attempt < MaxRetries
    BY <1>1, <1>4, Numbers DEF LastAttempt
  <2>3. wakeAt' \in Nat /\ now <= wakeAt'
    BY <1>1, <2>1, Numbers
  <2>4. EnvTypeOK'
    BY <1>2, <2>1, <2>3 DEF EnvTypeOK
  <2>5. AttemptInv'
    BY <1>2, <2>1, <2>2, <2>3 DEF AttemptInv, NotLongPastAbort, Querying
  <2>6. RecipientsInv'
    BY <1>2, <2>1 DEF RecipientsInv, Reached, Querying
  <2> QED BY <2>1, <2>4, <2>5, <2>6
<1> QED BY <1>3, <1>4

LEMMA ReadProcessorsKeeps ==
  ASSUME EnvInv, ReadProcessors
  PROVE  EnvInv' /\ phase' = "assignments"
<1> USE DEF EnvInv
<1>1. /\ phase = "processors" /\ phase' = "assignments" /\ keys' = assigned /\ infos' = {}
      /\ wakeAt' = now + RpcTimeout
      /\ UNCHANGED <<now, assigned, published, encryptable, attempt, recipients,
                     submittedAt, envOutcome>>
  BY DEF ReadProcessors, chainJobVars
<1>2. now \in Nat /\ now <= wakeAt /\ wakeAt < AbortAt + RpcTimeout /\ wakeAt \in Nat
  BY <1>1 DEF AttemptInv, EnvTypeOK, Querying
<1>3. wakeAt' \in Nat /\ now <= wakeAt' /\ wakeAt' < AbortAt + 2 * RpcTimeout
  BY <1>1, <1>2, Numbers
<1>4. recipients = {}
  BY <1>1 DEF RecipientsInv, Reached
<1>5. EnvTypeOK'
  BY <1>1, <1>3, <1>4 DEF EnvTypeOK, Querying
<1>6. AttemptInv'
  BY <1>1, <1>3 DEF AttemptInv, NotLongPastAbort, Querying
<1>7. RecipientsInv'
  BY <1>1, <1>4 DEF RecipientsInv, Reached
<1> QED BY <1>1, <1>5, <1>6, <1>7

LEMMA ReadAssignmentsKeeps ==
  ASSUME EnvInv, ReadAssignments
  PROVE  EnvInv' /\ phase' # "off"
<1> USE DEF EnvInv
<1>1. /\ phase = "assignments" /\ infos' = keys \cap published
      /\ UNCHANGED <<now, assigned, published, encryptable, attempt, keys, recipients, submittedAt>>
  BY DEF ReadAssignments, chainJobVars
<1>2. CASE HasPubKeys(keys)
  <2>1. phase' = "encrypting" /\ UNCHANGED <<wakeAt, envOutcome>> /\ infos' # {}
    BY <1>1, <1>2 DEF ReadAssignments, HasPubKeys
  <2>2. now < AbortAt + 2 * RpcTimeout
    <3>1. now \in Nat /\ wakeAt \in Nat /\ now <= wakeAt /\ wakeAt < AbortAt + 2 * RpcTimeout
      BY <1>1 DEF EnvTypeOK, AttemptInv, Querying
    <3> QED BY <3>1, Numbers
  <2>3. EnvTypeOK'
    BY <1>1, <2>1 DEF EnvTypeOK
  <2>4. AttemptInv'
    BY <1>1, <2>1, <2>2 DEF AttemptInv, NotLongPastAbort, Querying
  <2>5. RecipientsInv'
    BY <1>1, <2>1 DEF RecipientsInv, Reached
  <2> QED BY <2>1, <2>3, <2>4, <2>5
<1>3. CASE ~HasPubKeys(keys)
  <2>1. NoKeys /\ phase \in Querying /\ infos' \subseteq keys
    BY <1>1, <1>3 DEF ReadAssignments, Querying
  <2> QED BY <1>1, <2>1, NoKeysKeeps DEF chainJobVars
<1> QED BY <1>2, <1>3

LEMMA QueryFailsKeeps ==
  ASSUME EnvInv, QueryFails
  PROVE  EnvInv' /\ phase' # "off"
<1>1. infos' \subseteq keys
  BY DEF QueryFails, EnvInv, EnvTypeOK
<1> QED BY <1>1, NoKeysKeeps DEF QueryFails

LEMMA SubmitEnvKeeps ==
  ASSUME EnvInv, SubmitEnv
  PROVE  EnvInv' /\ phase' = "submitted"
<1> USE DEF EnvInv
<1>1. /\ phase = "encrypting" /\ phase' = "submitted" /\ recipients' = infos \cap encryptable
      /\ submittedAt' = now
      /\ UNCHANGED <<now, assigned, published, encryptable, attempt, wakeAt, keys, infos,
                     envOutcome>>
  BY DEF SubmitEnv, EncryptedFor, chainJobVars
<1>2. EnvTypeOK'
  BY <1>1 DEF EnvTypeOK
<1>3. AttemptInv'
  BY <1>1 DEF AttemptInv, NotLongPastAbort, Querying
<1>4. Reached'
  <2>1. infos # {} /\ infos \subseteq keys \cap published
    BY <1>1 DEF RecipientsInv
  <2>2. PICK p \in infos : TRUE
    BY <2>1
  <2>3. p \in keys \cap published /\ (recipients' = {} => p \notin encryptable)
    BY <1>1, <2>1, <2>2
  <2> QED BY <1>1, <2>1, <2>3 DEF Reached
<1>5. RecipientsInv'
  BY <1>1, <1>4 DEF RecipientsInv
<1> QED BY <1>1, <1>2, <1>3, <1>5

\* Encrypting fails, or the queue answers.
LEMMA EnvEndsKeeps ==
  ASSUME EnvInv, EncryptFails \/ EnvSettles
  PROVE  EnvInv' /\ phase' = "done"
<1> USE DEF EnvInv
<1>1. /\ phase' = "done" /\ envOutcome' \in {"set", "failed"}
      /\ envOutcome' = "set" => phase = "submitted"
      /\ phase \in {"encrypting", "submitted"}
      /\ UNCHANGED <<now, assigned, published, encryptable, attempt, wakeAt, keys, infos,
                     recipients, submittedAt>>
  BY DEF EncryptFails, EnvSettles, EnvEnds, chainJobVars
<1>2. EnvTypeOK'
  BY <1>1 DEF EnvTypeOK
<1>3. AttemptInv'
  BY <1>1 DEF AttemptInv, NotLongPastAbort, Querying
<1>4. RecipientsInv'
  BY <1>1 DEF RecipientsInv, Reached
<1> QED BY <1>1, <1>2, <1>3, <1>4

\* Processors acknowledge the job and publish their keys.
LEMMA ChainKeeps ==
  ASSUME EnvInv, UNCHANGED <<now, encryptable, envVars>>, published \subseteq published',
         published' \subseteq assigned', assigned' \subseteq Processors
  PROVE  EnvInv'
<1> USE DEF EnvInv, envVars
<1>1. EnvTypeOK'
  BY DEF EnvTypeOK
<1>2. AttemptInv'
  BY DEF AttemptInv, NotLongPastAbort
<1>3. RecipientsInv'
  BY DEF RecipientsInv, Reached
<1> QED BY <1>1, <1>2, <1>3

\* The clock does not pass a timer that is due.
LEMMA TickKeeps ==
  ASSUME EnvInv, Tick
  PROVE  EnvInv'
<1> USE DEF EnvInv
<1>1. /\ now' = now + 1 /\ now < MaxTime /\ phase # "encrypting"
      /\ phase \in Querying \cup {"sleeping"} => ~(now >= wakeAt)
      /\ UNCHANGED <<assigned, published, encryptable, phase, attempt, wakeAt, keys, infos,
                     recipients, submittedAt, envOutcome>>
  BY DEF Tick, EnvTimersDue, chainJobVars, envVars
<1>2. now \in Nat /\ wakeAt \in Nat
  BY DEF EnvTypeOK
<1>3. now' \in 0..MaxTime /\ (phase \in Querying \cup {"sleeping"} => now' <= wakeAt)
  BY <1>1, <1>2, Numbers
<1>4. EnvTypeOK'
  BY <1>1, <1>3 DEF EnvTypeOK
<1>5. AttemptInv'
  BY <1>1, <1>3 DEF AttemptInv, NotLongPastAbort
<1>6. RecipientsInv'
  BY <1>1 DEF RecipientsInv, Reached
<1> QED BY <1>4, <1>5, <1>6

-----------------------------------------------------------------------------
\* The deployment.
DeployInv == DeployTypes /\ ResultsInv /\ SubsInv /\ StartedInv

\* A step of setEnvVars alone: what the deployment knows of it is whether it
\* runs, and that nothing is reported before it is done.
LEMMA EnvStepKeepsDeploy ==
  ASSUME DeployInv, UNCHANGED deployVars, phase # "off", phase # "done", phase' # "off"
  PROVE  DeployInv'
<1> USE DEF DeployInv, deployVars
<1>1. DeployTypes' /\ ResultsInv'
  BY DEF DeployTypes, ResultsInv
<1>2. SubsInv'
  BY DEF SubsInv, OneStatusSubscription
<1>3. StartedInv'
  BY DEF StartedInv, NotSetTooEarly
<1> QED BY <1>1, <1>2, <1>3

\* A step that leaves the deployment's variables, and where setEnvVars is.
LEMMA DeployKept ==
  ASSUME DeployInv, UNCHANGED deployVars, phase' = phase
  PROVE  DeployInv'
<1> USE DEF DeployInv, deployVars
<1>1. DeployTypes' /\ ResultsInv'
  BY DEF DeployTypes, ResultsInv
<1>2. SubsInv'
  BY DEF SubsInv, OneStatusSubscription
<1>3. StartedInv'
  BY DEF StartedInv, NotSetTooEarly
<1> QED BY <1>1, <1>2, <1>3

LEMMA InBlockKeeps ==
  ASSUME DeployInv, InBlock
  PROVE  DeployInv'
<1> USE DEF DeployInv
<1>1. /\ extrinsic = "pending" /\ extrinsic' \in {"ok", "failed", "itemFailed"}
      /\ UNCHANGED <<phase, enqueued, results, statusSubs, matched, jobIdKnown,
                     envHasBeenSet, timer, reported, setEnvAt>>
  BY DEF InBlock, envVars
<1>2. results = 0
  BY <1>1 DEF DeployTypes, ResultsInv
<1>3. DeployTypes'
  BY <1>1 DEF DeployTypes
<1>4. ResultsInv'
  BY <1>1, <1>2 DEF ResultsInv
<1>5. SubsInv'
  BY <1>1 DEF SubsInv, OneStatusSubscription
<1>6. StartedInv'
  BY <1>1 DEF StartedInv, NotSetTooEarly
<1> QED BY <1>3, <1>4, <1>5, <1>6

LEMMA OnResultKeeps ==
  ASSUME DeployInv, OnResult
  PROVE  DeployInv'
<1> USE DEF DeployInv
<1>1. /\ extrinsic # "pending" /\ results < MaxResults /\ results' = results + 1
      /\ UNCHANGED <<phase, extrinsic, enqueued, matched, envHasBeenSet, timer, setEnvAt>>
  BY DEF OnResult, envVars
<1>2. results \in 0..MaxResults /\ results' \in 0..MaxResults /\ results' > 0
  BY <1>1 DEF DeployTypes, MaxResults
<1>3. CASE extrinsic = "ok" /\ MaySubscribe
  <2>1. /\ ~jobIdKnown /\ jobIdKnown' = TRUE /\ reported' = reported \cup {"WaitingForMatch"}
        /\ statusSubs' = statusSubs + 1
    BY <1>3 DEF OnResult, MaySubscribe
  <2>2. statusSubs = 0 /\ "Acknowledged" \notin reported
    BY <2>1 DEF SubsInv
  <2>3. statusSubs' = 1 /\ statusSubs' \in 0..MaxResults
    BY <2>1, <2>2 DEF MaxResults
  <2>4. DeployTypes'
    BY <1>1, <1>2, <2>1, <2>3 DEF DeployTypes, Statuses
  <2>5. ResultsInv'
    BY <1>1, <1>2, <2>1, <1>3 DEF ResultsInv
  <2>6. SubsInv'
    BY <2>1, <2>2, <2>3 DEF SubsInv, OneStatusSubscription
  <2>7. StartedInv'
    BY <1>1, <2>1 DEF StartedInv, NotSetTooEarly
  <2> QED BY <2>4, <2>5, <2>6, <2>7
<1>4. CASE ~(extrinsic = "ok" /\ MaySubscribe)
  <2>1. UNCHANGED <<jobIdKnown, reported, statusSubs>>
    BY <1>4 DEF OnResult
  <2>2. extrinsic = "ok" => jobIdKnown
    BY <1>4 DEF MaySubscribe
  <2>3. DeployTypes'
    BY <1>1, <1>2, <2>1 DEF DeployTypes
  <2>4. ResultsInv'
    BY <1>1, <1>2, <2>1, <2>2 DEF ResultsInv
  <2>5. SubsInv'
    BY <2>1 DEF SubsInv, OneStatusSubscription
  <2>6. StartedInv'
    BY <1>1, <2>1 DEF StartedInv, NotSetTooEarly
  <2> QED BY <2>3, <2>4, <2>5, <2>6
<1> QED BY <1>3, <1>4

LEMMA SettledKeeps ==
  ASSUME DeployInv, Settled
  PROVE  DeployInv'
<1> USE DEF DeployInv
<1>1. /\ results > 0 /\ enqueued' = Verdict
      /\ UNCHANGED <<phase, extrinsic, results, statusSubs, matched, jobIdKnown,
                     envHasBeenSet, timer, setEnvAt>>
  BY DEF Settled, envVars
<1>2. \/ reported' = reported /\ enqueued' = "rejected"
      \/ reported' = reported \cup {"Submit"} /\ enqueued' = "resolved" /\ extrinsic # "failed"
  BY DEF Settled, Verdict
<1>3. DeployTypes'
  BY <1>1, <1>2 DEF DeployTypes, Statuses
<1>4. ResultsInv'
  BY <1>1, <1>2 DEF ResultsInv
<1>5. SubsInv'
  BY <1>1, <1>2 DEF SubsInv, OneStatusSubscription
<1>6. StartedInv'
  BY <1>1, <1>2 DEF StartedInv, NotSetTooEarly
<1> QED BY <1>3, <1>4, <1>5, <1>6

LEMMA MatchKeeps ==
  ASSUME DeployInv, Match
  PROVE  DeployInv'
<1> USE DEF DeployInv
<1>1. /\ matched' = TRUE
      /\ UNCHANGED <<phase, extrinsic, enqueued, results, statusSubs, jobIdKnown,
                     envHasBeenSet, timer, reported, setEnvAt>>
  BY DEF Match, envVars
<1>2. DeployTypes' /\ ResultsInv'
  BY <1>1 DEF DeployTypes, ResultsInv
<1>3. SubsInv' /\ StartedInv'
  BY <1>1 DEF SubsInv, StartedInv, OneStatusSubscription, NotSetTooEarly
<1> QED BY <1>2, <1>3

LEMMA MatchedUpdateKeeps ==
  ASSUME DeployInv, MatchedUpdate
  PROVE  DeployInv'
<1> USE DEF DeployInv
<1>1. /\ statusSubs > 0 /\ reported' = reported \cup {"Matched"}
      /\ UNCHANGED <<phase, extrinsic, enqueued, results, statusSubs, matched, jobIdKnown,
                     envHasBeenSet, timer, setEnvAt>>
  BY DEF MatchedUpdate, envVars
<1>2. jobIdKnown
  BY <1>1 DEF SubsInv
<1>3. DeployTypes' /\ ResultsInv'
  BY <1>1 DEF DeployTypes, ResultsInv, Statuses
<1>4. SubsInv'
  BY <1>1, <1>2 DEF SubsInv, OneStatusSubscription
<1>5. StartedInv'
  BY <1>1 DEF StartedInv, NotSetTooEarly
<1> QED BY <1>3, <1>4, <1>5

LEMMA EnvReportKeeps ==
  ASSUME DeployInv, EnvReport
  PROVE  DeployInv'
<1> USE DEF DeployInv
<1>1. /\ phase = "done"
      /\ reported' = reported \cup {"EnvSet"} \/ reported' = reported \cup {"EnvError"}
      /\ UNCHANGED <<phase, extrinsic, enqueued, results, statusSubs, matched, jobIdKnown,
                     envHasBeenSet, timer, setEnvAt>>
  BY DEF EnvReport, envVars
<1>2. DeployTypes' /\ ResultsInv'
  BY <1>1 DEF DeployTypes, ResultsInv, Statuses
<1>3. SubsInv'
  BY <1>1 DEF SubsInv, OneStatusSubscription
<1>4. StartedInv'
  BY <1>1 DEF StartedInv, NotSetTooEarly
<1> QED BY <1>2, <1>3, <1>4

\* setEnv() begins, by an update or by the timer, and early only if all have
\* acknowledged.
LEMMA SetEnvKeeps ==
  ASSUME IInv, NEW acks \in 0..Cardinality(Processors), SetEnv(acks), phase = "off",
         acks >= Replicas \/ now + TwoMinutes >= StartTime,
         UNCHANGED <<now, chainJobVars, extrinsic, results, matched, jobIdKnown>>,
         "Acknowledged" \in reported', enqueued' = enqueued,
         \/ reported' = reported /\ statusSubs' = statusSubs
         \/ /\ reported' = reported \cup {"Acknowledged"} /\ statusSubs' = 0
            /\ statusSubs > 0
  PROVE  IInv'
<1>1. /\ envHasBeenSet' = TRUE /\ timer' = None
      /\ setEnvAt' = [time |-> now, acks |-> acks] /\ NextAttempt
  BY DEF SetEnv
<1>2. EnvInv' /\ phase' \in {"processors", "done"}
  BY <1>1, NextAttemptKeeps DEF IInv
<1>3. now \in Nat
  BY DEF IInv, EnvInv, EnvTypeOK
<1>4. reported \cap {"EnvSet", "EnvError"} = {}
  BY DEF IInv, StartedInv
<1>5. DeployTypes'
  <2>1. setEnvAt' \in [time : Nat, acks : 0..Cardinality(Processors)]
    BY <1>1, <1>3
  <2>2. 0 \in 0..MaxResults
    BY DEF MaxResults
  <2> QED BY <1>1, <2>1, <2>2 DEF IInv, DeployTypes, Statuses
<1>6. ResultsInv'
  BY DEF IInv, ResultsInv
<1>7. SubsInv'
  BY DEF IInv, SubsInv, OneStatusSubscription
<1>8. NotSetTooEarly'
  BY <1>1 DEF NotSetTooEarly
<1>9. StartedInv'
  BY <1>1, <1>2, <1>4, <1>8 DEF StartedInv
<1> QED BY <1>2, <1>5, <1>6, <1>7, <1>9 DEF IInv

LEMMA AcknowledgedUpdateKeeps ==
  ASSUME IInv, AcknowledgedUpdate
  PROVE  IInv'
<1> DEFINE acks == Cardinality(assigned)
<1>1. acks \in 0..Cardinality(Processors)
  <2>1. assigned \subseteq Processors
    BY DEF IInv, EnvInv, EnvTypeOK
  <2>2. IsFiniteSet(assigned) /\ acks <= Cardinality(Processors)
    BY <2>1, DeployAssumption, FS_Subset
  <2> QED BY <2>2, FS_CardinalityType, Numbers
<1>2. /\ statusSubs > 0 /\ statusSubs' = statusSubs - 1
      /\ reported' = reported \cup {"Acknowledged"}
      /\ UNCHANGED <<now, chainJobVars, extrinsic, enqueued, results, matched, jobIdKnown>>
  BY DEF AcknowledgedUpdate, SubsAfterAck
<1>3. statusSubs' = 0 /\ jobIdKnown /\ statusSubs' \in 0..MaxResults
  <2>1. statusSubs = 1
    BY <1>2 DEF IInv, SubsInv, OneStatusSubscription, DeployTypes, MaxResults
  <2> QED BY <1>2, <2>1 DEF IInv, SubsInv, MaxResults
<1>4. CASE ~envHasBeenSet /\ EnoughToStart(acks)
  <2>1. SetEnv(acks)
    BY <1>4 DEF AcknowledgedUpdate
  <2>2. phase = "off"
    BY <1>4 DEF IInv, StartedInv
  <2>3. acks >= Replicas \/ now + TwoMinutes >= StartTime
    BY <1>4 DEF EnoughToStart
  <2>4. "Acknowledged" \in reported'
    BY <1>2
  <2> HIDE DEF acks
  <2> QED BY <1>1, <1>2, <1>3, <2>1, <2>2, <2>3, <2>4, SetEnvKeeps
<1>5. CASE ~(~envHasBeenSet /\ EnoughToStart(acks))
  <2>1. UNCHANGED <<envHasBeenSet, setEnvAt, envVars>>
        /\ IF envHasBeenSet THEN UNCHANGED timer ELSE ArmTimer
    BY <1>5 DEF AcknowledgedUpdate
  <2>2. \/ timer' = timer
        \/ /\ ~envHasBeenSet /\ timer' \in Nat /\ timer' + TwoMinutes = StartTime
    <3>1. CASE envHasBeenSet \/ timer # None
      BY <2>1, <3>1 DEF ArmTimer
    <3>2. CASE ~envHasBeenSet /\ timer = None
      <4>1. timer' = StartTime - TwoMinutes
        BY <2>1, <3>2 DEF ArmTimer
      <4>2. ~(now + TwoMinutes >= StartTime)
        BY <1>5, <3>2 DEF EnoughToStart
      <4>3. now \in Nat
        BY DEF IInv, EnvInv, EnvTypeOK
      <4> QED BY <3>2, <4>1, <4>2, <4>3, Numbers
    <3> QED BY <3>1, <3>2
  <2>3. EnvInv'
    BY <1>2, <2>1, ChainKeeps DEF IInv, EnvInv, EnvTypeOK, chainJobVars
  <2>4. DeployTypes'
    BY <1>2, <1>3, <2>1, <2>2 DEF IInv, DeployTypes, Statuses
  <2>5. ResultsInv'
    BY <1>2 DEF IInv, ResultsInv
  <2>6. SubsInv'
    <3>1. "WaitingForMatch" \in reported'
      BY <1>2, <1>3 DEF IInv, SubsInv
    <3>2. jobIdKnown' /\ statusSubs' = 0
      BY <1>2, <1>3
    <3> QED BY <3>1, <3>2 DEF SubsInv, OneStatusSubscription
  <2>7. NotSetTooEarly'
    BY <2>1 DEF IInv, StartedInv, NotSetTooEarly
  <2>8. StartedInv'
    BY <1>2, <2>1, <2>2, <2>7 DEF IInv, StartedInv, envVars
  <2> QED BY <2>3, <2>4, <2>5, <2>6, <2>8 DEF IInv
<1> QED BY <1>4, <1>5

LEMMA TimerFiresKeeps ==
  ASSUME IInv, TimerFires
  PROVE  IInv'
<1>1. /\ timer # None /\ now = timer /\ SetEnv(0)
      /\ UNCHANGED <<now, chainJobVars, extrinsic, enqueued, results, statusSubs, matched,
                     jobIdKnown, reported>>
  BY DEF TimerFires
<1>2. phase = "off" /\ timer + TwoMinutes = StartTime /\ "Acknowledged" \in reported
  BY <1>1 DEF IInv, StartedInv
<1>3. now + TwoMinutes >= StartTime
  BY <1>1, <1>2, Numbers
<1>4. 0 \in 0..Cardinality(Processors)
  BY Numbers
<1> QED BY <1>1, <1>2, <1>3, <1>4, SetEnvKeeps

-----------------------------------------------------------------------------
\* A step of setEnvVars leaves the deployment where it is.
LEMMA EnvStepKeeps ==
  ASSUME IInv, EnvStep, UNCHANGED deployVars
  PROVE  IInv'
<1>1. EnvInv /\ DeployInv
  BY DEF IInv, DeployInv
<1>2. phase \notin {"off", "done"}
  BY DEF EnvStep, EnvProgress, ReadProcessors, ReadAssignments, QueryFails, Wake, SubmitEnv,
         EncryptFails, EnvSettles, Querying
<1>3. EnvInv' /\ phase' # "off"
  <2>1. CASE ReadProcessors
    BY <1>1, <2>1, ReadProcessorsKeeps
  <2>2. CASE ReadAssignments
    BY <1>1, <2>2, ReadAssignmentsKeeps
  <2>3. CASE QueryFails
    BY <1>1, <2>3, QueryFailsKeeps
  <2>4. CASE Wake
    BY <1>1, <2>4, NextAttemptKeeps DEF Wake
  <2>5. CASE SubmitEnv
    BY <1>1, <2>5, SubmitEnvKeeps
  <2>6. CASE EncryptFails \/ EnvSettles
    BY <1>1, <2>6, EnvEndsKeeps
  <2> QED BY <2>1, <2>2, <2>3, <2>4, <2>5, <2>6 DEF EnvStep, EnvProgress
<1>4. DeployInv'
  BY <1>1, <1>2, <1>3, EnvStepKeepsDeploy
<1> QED BY <1>3, <1>4 DEF IInv, DeployInv

LEMMA NextKeeps == IInv /\ [Next]_vars => IInv'
<1> SUFFICES ASSUME IInv, [Next]_vars PROVE IInv'
  OBVIOUS
<1>1. EnvInv /\ DeployInv /\ published \subseteq assigned /\ assigned \subseteq Processors
  BY DEF IInv, DeployInv, EnvInv, EnvTypeOK
<1>2. ASSUME UNCHANGED <<now, chainJobVars, envVars>>, DeployInv' PROVE IInv'
  <2>1. EnvInv'
    BY <1>1, <1>2, ChainKeeps DEF chainJobVars
  <2> QED BY <1>2, <2>1 DEF IInv, DeployInv
<1>3. CASE InBlock
  BY <1>1, <1>2, <1>3, InBlockKeeps DEF InBlock
<1>4. CASE OnResult
  BY <1>1, <1>2, <1>4, OnResultKeeps DEF OnResult
<1>5. CASE Settled
  BY <1>1, <1>2, <1>5, SettledKeeps DEF Settled
<1>6. CASE Match
  BY <1>1, <1>2, <1>6, MatchKeeps DEF Match
<1>7. CASE MatchedUpdate
  BY <1>1, <1>2, <1>7, MatchedUpdateKeeps DEF MatchedUpdate
<1>8. CASE EnvReport
  BY <1>1, <1>2, <1>8, EnvReportKeeps DEF EnvReport
<1>9. CASE AcknowledgedUpdate
  BY <1>9, AcknowledgedUpdateKeeps
<1>10. CASE TimerFires
  BY <1>10, TimerFiresKeeps
<1>11. CASE Tick
  <2>1. UNCHANGED deployVars /\ phase' = phase
    BY <1>11 DEF Tick, envVars
  <2> QED BY <1>1, <1>11, <2>1, TickKeeps, DeployKept DEF IInv, DeployInv
<1>12. CASE EnvStep /\ UNCHANGED deployVars
  BY <1>12, EnvStepKeeps
<1>13. ASSUME NEW p \in Processors, Acknowledge(p) PROVE IInv'
  <2>1. /\ UNCHANGED <<now, encryptable, envVars>> /\ published' = published
        /\ assigned' = assigned \cup {p} /\ UNCHANGED deployVars /\ phase' = phase
    BY <1>13 DEF Acknowledge, envVars
  <2> QED BY <1>1, <2>1, ChainKeeps, DeployKept DEF IInv, DeployInv
<1>14. ASSUME NEW p \in Processors, Publish(p), UNCHANGED deployVars PROVE IInv'
  <2>1. /\ UNCHANGED <<now, encryptable, envVars>> /\ published' = published \cup {p}
        /\ p \in assigned
        /\ assigned' = assigned /\ phase' = phase
    BY <1>14 DEF Publish, envVars
  <2> QED BY <1>1, <1>14, <2>1, ChainKeeps, DeployKept DEF IInv, DeployInv
<1>15. CASE UNCHANGED vars
  <2>1. UNCHANGED <<now, chainJobVars, envVars>> /\ UNCHANGED deployVars /\ phase' = phase
    BY <1>15 DEF vars, envVars
  <2> QED BY <1>1, <1>2, <2>1, DeployKept
<1> QED BY <1>3, <1>4, <1>5, <1>6, <1>7, <1>8, <1>9, <1>10, <1>11, <1>12, <1>13, <1>14, <1>15
    DEF Next, EnvStep, EnvProgress

-----------------------------------------------------------------------------
\* The inductive invariant: the times of an attempt, whom it encrypts for, the
\* job's status subscription, and when setting the variables may have begun.
THEOREM Inductive == Spec => []IInv
<1>1. Init => IInv
  BY InitIInv
<1> QED BY <1>1, NextKeeps, PTL DEF Spec

\* Every state a deployment can reach is well typed, for any processors and
\* times: no attempt beyond maxRetries, and no timer set for a time
\* before the epoch.
THEOREM TypeCorrect == Spec => []TypeOK
<1>1. IInv => TypeOK
  BY TypeParts DEF IInv, EnvInv
<1> QED BY <1>1, Inductive, PTL

\* Statuses come in an order their receiver can rely on (deploy-core.ts).
THEOREM StatusesInOrder == Spec => []StatusOrder
<1>1. IInv => StatusOrder
  <2> SUFFICES ASSUME IInv PROVE StatusOrder
    OBVIOUS
  <2>1. reported \cap {"Matched", "Acknowledged"} # {} => "WaitingForMatch" \in reported
    BY DEF IInv, SubsInv
  <2>2. reported \cap {"EnvSet", "EnvError"} # {} => "Acknowledged" \in reported
    BY DEF IInv, StartedInv
  <2>3. "Submit" \in reported => "WaitingForMatch" \in reported \/ extrinsic = "itemFailed"
    BY DEF IInv, ResultsInv, SubsInv, DeployTypes
  <2> QED BY <2>1, <2>2, <2>3 DEF StatusOrder
<1> QED BY <1>1, Inductive, PTL

\* The environment is submitted for none but processors that published a key to
\* encrypt for, and for one at least unless some of the keys found cannot be
\* encrypted for (set-env-vars.ts, env-encryption.ts).
THEOREM SomeoneReached == Spec => []EnvSetReachesSomeone
<1>1. IInv => EnvSetReachesSomeone
  BY DEF IInv, EnvInv, RecipientsInv, Reached, EnvSetReachesSomeone
<1> QED BY <1>1, Inductive, PTL

\* A submission is late by less than the two queries of one attempt, however
\* long the pauses and however many the retries (set-env-vars.ts).
THEOREM AbortsInTime == Spec => []NotLongPastAbort
<1>1. IInv => NotLongPastAbort
  BY DEF IInv, EnvInv, AttemptInv
<1> QED BY <1>1, Inductive, PTL

\* Without all acknowledgements the variables are not set before two minutes to
\* the start (deploy-core.ts:150), for any start and any clock.
THEOREM NoEarlyEnv == Spec => []NotSetTooEarly
<1>1. IInv => NotSetTooEarly
  BY DEF IInv, StartedInv
<1> QED BY <1>1, Inductive, PTL

\* The job's status is watched by one subscription at most, and by none after
\* an acknowledgement (deploy-core.ts, jobStatusSubscribed).
THEOREM OneSubscription == Spec => []OneStatusSubscription
<1>1. IInv => OneStatusSubscription
  BY DEF IInv, SubsInv
<1> QED BY <1>1, Inductive, PTL

=============================================================================

---------------------------- MODULE JobPlanning ----------------------------
(***************************************************************************)
(* From a configuration to a registration: a project is edited, validated, *)
(* priced (matcher/fetch-pricing-advice.ts), converted and encoded, with   *)
(* time passing in between. The market behind the matcher: a price for     *)
(* each processor, and the processors the job's requirements admit.        *)
(***************************************************************************)
EXTENDS Pricing

CONSTANTS Sample,      \* the configuration editing starts from
          MaxEdits, Start, Ticks,  \* fields edited, the first moment, the later ones
          Processors,
          Boundaries,  \* the highest price of each bucket
          Markets      \* each processor's price

ASSUME PlanningAssumption ==
  \* The clock tells whole milliseconds.
  /\ Start \in Nat /\ Ticks \subseteq Nat /\ MaxEdits \in Nat
  /\ \A t \in {Start} \cup Ticks : Whole(t)
  /\ DOMAIN Sample = Fields /\ \A f \in Fields : Sample[f] \in Values[f]
  \* The buckets go from cheap to dear, and every processor is in one.
  /\ IsFiniteSet(Processors) /\ Markets \subseteq [Processors -> Int]
  /\ Boundaries \in Seq(Int)
  /\ \A i, k \in DOMAIN Boundaries : i < k => Boundaries[i] < Boundaries[k]
  /\ \A m \in Markets : \A x \in Processors : \E i \in DOMAIN Boundaries : m[x] <= Boundaries[i]

VARIABLES config, edits, clock,
          stage,    \* how far the project has come
          validAt,  \* when validateConfig() took it
          advice,   \* fetchPricingAdvice()'s answer, with what it was made from
          job, minMetrics

vars == <<config, edits, clock, stage, validAt, advice, job, minMetrics>>

TypeOK == /\ DOMAIN config = Fields /\ \A f \in Fields : config[f] \in Values[f]
          /\ edits \in 0..MaxEdits /\ clock \in {Start} \cup Ticks /\ validAt <= clock
          /\ stage \in {"edited", "valid", "invalid", "advised", "job", "threw",
                        "submitted", "stuck"}

Init == /\ config = Sample /\ edits = 0 /\ clock = Start /\ stage = "edited"
        /\ validAt = Start /\ advice = None /\ job = None /\ minMetrics = None

Edit(f) ==
  /\ stage = "edited" /\ edits < MaxEdits
  /\ edits' = edits + 1
  /\ \E v \in Values[f] : v # config[f] /\ config' = [config EXCEPT ![f] = v]
  /\ UNCHANGED <<clock, stage, validAt, advice, job, minMetrics>>

Validate ==
  /\ stage = "edited"
  /\ stage' = IF acurastProjectConfigSchema(config, clock) THEN "valid" ELSE "invalid"
  /\ validAt' = clock
  /\ UNCHANGED <<config, edits, clock, advice, job, minMetrics>>

-----------------------------------------------------------------------------
(* fetchPricingAdvice()                                                      *)

\* A count of processors reaches numberOfReplicas when it reaches the next
\* integer.
Required(c) == (c.numberOfReplicas + 1) \div One

Takers(market, S, p) == Cardinality({x \in S : market[x] <= p})

\* The matcher's distribution counts every processor, whatever the job needs.
Distribution(market) ==
  [i \in DOMAIN Boundaries |->
     [range_max |-> Boundaries[i],
      count |-> Takers(market, Processors, Boundaries[i]) -
                  IF i = 1 THEN 0 ELSE Takers(market, Processors, Boundaries[i - 1])]]

\* What checkMatch() asks of the matcher, apart from the price
\* (jobToMatchCheckParams).
MatchParams(c, j) ==
  [slots |-> j.slots, duration |-> j.duration, interval |-> j.interval,
   maxStartDelay |-> j.maxStartDelay, minReputation |-> j.minReputation,
   span |-> j.endTime - j.startTime, minVersions |-> j.minVersions,
   metrics |-> IF hasBenchmarkFilters(c.filters)
               THEN MatcherJson(Triples(c.network, c.filters)) ELSE <<>>]

\* It converts the configuration for itself, and throws when that does. An
\* instant match, and a call that fails, leave no advice. failing: the boundary
\* prices whose check fails.
Advise ==
  /\ stage = "valid"
  /\ ~Matched(config) /\ ~Throws(config)
  /\ BytesWhole(config.filters)
  /\ stage' = "advised"
  /\ \E market \in Markets, failing \in SUBSET {Boundaries[i] : i \in DOMAIN Boundaries},
        S \in SUBSET Processors :
       LET buckets == Distribution(market)
           required == Required(config)
           current == config.maxCostPerExecution
           matched == Takers(market, S, current)
           matches == [p \in {Boundaries[i] : i \in DOMAIN Boundaries} |->
                         IF p \in failing THEN -1 ELSE Takers(market, S, p)]
           filtered == hasBenchmarkFilters(config.filters)
           suggested == IF filtered THEN BenchmarkAwarePrice(buckets, required, matches)
                        ELSE computeSuggestedPrice(buckets, required) IN
         /\ ~filtered => failing = {}
         /\ advice' = [market |-> market, admitted |-> S, failing |-> failing,
                       suggested |-> suggested, filtered |-> filtered,
                       status |-> resolveStatus(matched, required, current, suggested),
                       asked |-> MatchParams(config, Job(config, clock))]
  /\ UNCHANGED <<config, edits, clock, validAt, job, minMetrics>>

-----------------------------------------------------------------------------
(* convertConfigToJob() and registerJob()                                    *)

Convert ==
  /\ stage \in {"valid", "advised"}
  /\ IF Throws(config)
     THEN stage' = "threw" /\ UNCHANGED job
     ELSE stage' = "job" /\ job' = Job(config, clock)
  /\ UNCHANGED <<config, edits, clock, validAt, advice, minMetrics>>

\* The encoding runs in an async function given to new Promise(): when it
\* throws, registerJob() settles never.
Register ==
  /\ stage = "job"
  /\ IF Encodes(job) /\ MetricsEncode(config.filters)
     THEN /\ stage' = "submitted"
          /\ minMetrics' = IF hasBenchmarkFilters(config.filters)
                           THEN Triples(config.network, config.filters) ELSE <<>>
     ELSE stage' = "stuck" /\ UNCHANGED minMetrics
  /\ UNCHANGED <<config, edits, clock, validAt, advice, job>>

Tick == /\ stage \in {"valid", "advised", "job"}
        /\ clock' \in {t \in Ticks : t > clock}
        /\ UNCHANGED <<config, edits, stage, validAt, advice, job, minMetrics>>

Next == (\E f \in Fields : Edit(f)) \/ Validate \/ Advise \/ Convert \/ Register \/ Tick

Spec == Init /\ [][Next]_vars

-----------------------------------------------------------------------------
\* What the schema takes and registerJob() cannot encode, or
\* convertConfigToJob() cannot resolve: numbers that are no integers or too
\* wide, version numbers, times before 1970, malformed addresses.
OverlookedSchedule(c) ==
  \/ c.startAt[1] = "msFromNow" /\ ~Whole(c.startAt[2])
  \/ c.startAt[1] = "datetime" /\ c.startAt[2] < 0
  \/ c.execution.max # None /\ ~Whole(c.execution.max)
  \/ c.execution.type = "interval" /\ \E x \in {c.execution.intervalInMs,
                                                  c.execution.times} : ~Whole(x)

OverlookedVersion(platform, v) ==
  \/ ~Resolves(platform, v)
  \/ v[1] = "build" /\ ~U32(v[2])

Overlooked(c) ==
  \/ OverlookedSchedule(c) \/ ~Whole(c.numberOfReplicas)
  \/ ~U32(c.usageLimit)
  \/ \E x \in {c.maxAllowedStartDelayInMs, c.minProcessorReputation,
               c.maxCostPerExecution} : ~U64(x)
  \/ c.reuseKeysFrom # None /\ ~U128(c.reuseKeysFrom)
  \/ c.instantMatch # None /\ \E i \in DOMAIN c.instantMatch :
                                toFixed(c.instantMatch[i]) > MaxU64
  \/ ~MetricsEncode(c.filters) \/ "malformed" \in c.addresses
  \/ OverlookedVersion(0, c.android) \/ OverlookedVersion(1, c.ios)

\* A configuration that was valid, whenever that was, makes a job and a
\* submission, apart from what the schema overlooks and from a schedule that
\* ends beyond MAX_SAFE_INTEGER, which it overlooks too (validate-config.ts:181,
\* "catching them here gives a clear message before the job is submitted").
ValidIsSubmitted ==
  stage \in {"threw", "stuck"} =>
    \/ Overlooked(config)
    \/ stage = "stuck" /\ job.endTime > MaxSafe * One

\* The schedule submitted is one the runtime takes: a minute at least
\* (config-to-job.ts:26), a start within a day (line 28), each execution over
\* before the next, and room for exactly the executions asked for, when their
\* number is an integer. A start lies in the past only when it was given as a
\* date and time, or time has caught up with it since it was validated.
ScheduleTaken ==
  stage = "submitted" =>
    LET times == IF config.execution.type = "onetime" THEN One ELSE config.execution.times
        n == times \div One IN
    /\ job.duration >= Minute /\ job.duration < job.interval
    /\ job.startTime <= clock + Day
    /\ Whole(times) =>
         /\ (job.endTime - job.startTime) \div job.interval = n
         /\ job.startTime + (n - 1) * job.interval + job.duration < job.endTime
    /\ job.startTime >= validAt \/ config.startAt[1] = "datetime"

\* Without a note about it, the executions submitted are ten seconds apart.
QuietIsRoomy ==
  stage = "submitted" /\ "close" \notin Notes(config, validAt) =>
    job.interval - job.duration >= DEFAULT_TIME_BETWEEN_EXECUTIONS_MS
      \/ config.execution.type = "onetime"

PlanTaken == ValidIsSubmitted /\ ScheduleTaken /\ QuietIsRoomy

\* The advice is about this market: "overpaying" is said only when enough
\* processors take the suggested price; when enough exist, they do, no cheaper
\* bucket would (pricing-advisor.ts:50, "the cheapest price covering enough
\* processors"), and with "insufficient" it is above the current price. The
\* code promises it of every job; it holds when the requirements admit every
\* processor, or with benchmark filters, and when no check of a price failed.
AdviceSound ==
  advice # None /\ advice.failing = {}
    /\ (advice.filtered \/ advice.admitted = Processors) =>
    LET required == Required(config)
        takers(p) == Takers(advice.market, advice.admitted, p)
        enough == \E i \in DOMAIN Boundaries : takers(Boundaries[i]) >= required IN
    /\ advice.status = "overpaying" => takers(advice.suggested) >= required
    /\ enough => /\ takers(advice.suggested) >= required
                 /\ \A i \in DOMAIN Boundaries :
                      Boundaries[i] < advice.suggested => takers(Boundaries[i]) < required
                 /\ advice.status = "insufficient" =>
                      advice.suggested > config.maxCostPerExecution

\* What is registered is what the matcher was asked about, though the
\* configuration was converted anew (fetch-pricing-advice.ts:44).
SameAsAsked ==
  advice # None /\ stage = "submitted" =>
    /\ advice.asked.slots = job.slots /\ advice.asked.duration = job.duration
    /\ advice.asked.interval = job.interval
    /\ advice.asked.span = job.endTime - job.startTime
    /\ advice.asked.maxStartDelay = job.maxStartDelay
    /\ advice.asked.minReputation = job.minReputation
    /\ advice.asked.minVersions = job.minVersions
    /\ advice.asked.metrics = MatcherJson(minMetrics)

AdviceHolds == AdviceSound /\ SameAsAsked
=============================================================================

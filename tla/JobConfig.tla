----------------------------- MODULE JobConfig -----------------------------
(***************************************************************************)
(* A project's configuration (acurast-sdk types/project.ts): what          *)
(* validateConfig() accepts (types/validate-config.ts), the job that       *)
(* convertConfigToJob() makes of it (chain/config-to-job.ts), and the      *)
(* values registerJob() can encode for the chain. Times and amounts are    *)
(* counted in halves of a millisecond and of a unit.                       *)
(***************************************************************************)
EXTENDS BenchmarkFilters, FiniteSets

CONSTANTS Values,   \* the values each field of a configuration is given
          DeviceVersions, \* app-versions.ts: <<platform, version>> -> build number
          MaxU32, MaxU64, MaxU128,  \* the largest numbers the chain stores
          MaxSafe   \* Number.MAX_SAFE_INTEGER

Minute == 60000 * One
Day == 1440 * Minute
DEFAULT_START_DELAY == 5 * Minute
DEFAULT_TIME_BETWEEN_EXECUTIONS_MS == 10000 * One
MIN_EXECUTION_DURATION_MS == Minute
MAX_START_TIME_FROM_NOW_MS == Day

Defaults(x, d) == IF x = None THEN d ELSE x

Fields == {"startAt", "execution", "variant", "instantMatch", "usageLimit",
           "numberOfReplicas", "maxCostPerExecution", "android", "ios", "filters",
           "network", "runtime", "requiredModules", "maxAllowedStartDelayInMs",
           "minProcessorReputation", "reuseKeysFrom", "addresses"}

\* startAt is <<form, time or delay>>, a minimum version <<form, value>>, both
\* <<"none", 0>> when left out. Of the keys to reuse only the job's number is
\* kept, of the addresses (whitelist, instant match, reused keys) whether one
\* is malformed.
ASSUME ConfigAssumption ==
  /\ DOMAIN Values = Fields
  /\ Values.startAt \subseteq {"none", "msFromNow", "timestamp", "datetime"} \X Int
  /\ \A s \in Values.startAt : s[1] = "datetime" => Whole(s[2])
  /\ Values.execution \subseteq [type : {"onetime", "interval"}, max : Int \cup {None},
                                intervalInMs : Int, times : Int]
  /\ Values.variant \subseteq {"Single", "Competing"}
  /\ Values.instantMatch \subseteq Seq(Int) \cup {None}  \* the start delays
  /\ Values.usageLimit \subseteq Int /\ Values.numberOfReplicas \subseteq Int
  /\ Values.maxCostPerExecution \subseteq Int /\ Values.minProcessorReputation \subseteq Int
  /\ Values.maxAllowedStartDelayInMs \subseteq Int
  /\ Values.reuseKeysFrom \subseteq Int \cup {None}
  /\ Values.addresses \subseteq SUBSET {"wellformed", "malformed"}
  /\ \A v \in Values.android \cup Values.ios : v[1] = "build" => v[2] \in Int
  /\ LET Named == {"ramTotal", "cpuSingleCore", "cpuMultiCore", "storageAvail"} IN
     Values.filters \subseteq [min : [Named -> Nat \cup {None}],
                              poolIds : [Named -> Nat \cup {None}]]
  /\ None \notin Int
  /\ MaxU32 \in Nat /\ MaxSafe \in Nat /\ MaxU64 \in Nat /\ MaxU128 \in Nat
  /\ \A v \in DOMAIN DeviceVersions : DeviceVersions[v] \in 1..MaxU32

getScheduleDurationMs(e) ==
  Defaults(e.max, IF e.type = "onetime" THEN Minute
                  ELSE e.intervalInMs - DEFAULT_TIME_BETWEEN_EXECUTIONS_MS - One)

-----------------------------------------------------------------------------
(* validateConfig()                                                          *)

\* new Date(): a time without its fraction.
DateTime(x) == One * (x \div One)

\* Mutant: no limit on how far ahead a start may be.
StartFormNoLimit(s, now) ==
  CASE s[1] = "msFromNow" -> s[2] >= 0
    [] s[1] = "timestamp" -> s[2] >= now
    [] OTHER -> TRUE

\* A number must not be in the past; a date and time need only be one.
StartForm(s, now) ==
  /\ s[1] = "msFromNow" => s[2] >= 0 /\ s[2] <= MAX_START_TIME_FROM_NOW_MS
  /\ s[1] = "timestamp" => s[2] >= now
  /\ s[1] \in {"timestamp", "datetime"} => DateTime(s[2]) - now <= MAX_START_TIME_FROM_NOW_MS

ExecutionForm(e) ==
  IF e.type = "onetime"
  THEN e.max # None /\ e.max >= One
  ELSE /\ e.intervalInMs >= One /\ e.times >= One
       /\ e.max # None => e.max >= One /\ e.max < e.intervalInMs

\* Instant matches count only under the Single strategy; one per replica.
Matched(c) == c.variant = "Single" /\ c.instantMatch # None /\ c.instantMatch # <<>>

acurastProjectConfigSchema(c, now) ==
  /\ StartForm(c.startAt, now)
  /\ ExecutionForm(c.execution)
  /\ c.variant = "Single" /\ c.instantMatch # None =>
       \A i \in DOMAIN c.instantMatch : c.instantMatch[i] >= 0
  /\ \A x \in {c.maxAllowedStartDelayInMs, c.usageLimit, c.minProcessorReputation,
               c.maxCostPerExecution} : x >= 0
  /\ c.numberOfReplicas \in One..64 * One
  /\ Matched(c) => Len(c.instantMatch) * One = c.numberOfReplicas
  /\ getScheduleDurationMs(c.execution) >= MIN_EXECUTION_DURATION_MS

\* The notes of validateConfig() about the schedule: they make nothing invalid.
Notes(c, now) ==
  LET s == c.startAt
      e == c.execution IN
  {n \in {"soon", "close"} :
     \/ /\ n = "soon" /\ c.variant = "Single"
        /\ \/ s[1] = "msFromNow" /\ s[2] < IF c.instantMatch = None THEN 5 * Minute
                                           ELSE 2 * Minute
           \/ /\ s[1] \in {"timestamp", "datetime"}
              /\ c.instantMatch # None /\ s[2] - now < 2 * Minute
     \/ /\ n = "close" /\ e.type = "interval" /\ e.max # None
        /\ e.max > e.intervalInMs - 10000 * One}

-----------------------------------------------------------------------------
(* convertConfigToJob()                                                      *)

\* An unknown name, and the number 0, resolve to nothing.
Resolves(platform, v) ==
  \/ v[1] = "none"
  \/ v[1] = "build" /\ v[2] # 0
  \/ v[1] = "name" /\ <<platform, v[2]>> \in DOMAIN DeviceVersions

buildNumber(platform, v) ==
  IF v[1] = "build" THEN v[2] ELSE DeviceVersions[<<platform, v[2]>>] * One

convertMinProcessorVersions(c) ==
  {<<w[1], buildNumber(w[1], w[2])>> :
     w \in {x \in {<<0, c.android>>, <<1, c.ios>>} : x[2][1] # "none"}}

startTime(s, now) ==
  CASE s[1] = "none"      -> now + DEFAULT_START_DELAY
    [] s[1] = "msFromNow" -> now + s[2]
    [] OTHER              -> DateTime(s[2])

\* Mutant: the end leaves no millisecond after the last execution.
endTimeShort(e, start) ==
  start + IF e.type = "onetime" THEN getScheduleDurationMs(e)
          ELSE (e.intervalInMs * e.times) \div One

\* The product is exact unless neither factor is an integer.
endTime(e, start) ==
  start + One + IF e.type = "onetime" THEN getScheduleDurationMs(e)
                ELSE (e.intervalInMs * e.times) \div One

Throws(c) ==
  \/ ~Resolves(0, c.android) \/ ~Resolves(1, c.ios)
  \/ c.execution.type = "interval" /\ getScheduleDurationMs(c.execution) < 0

Job(c, now) ==
  LET e == c.execution
      start == startTime(c.startAt, now)
      end == endTime(e, start) IN
  [duration |-> getScheduleDurationMs(e), startTime |-> start, endTime |-> end,
   interval |-> IF e.type = "onetime" THEN end - start ELSE e.intervalInMs,
   maxStartDelay |-> c.maxAllowedStartDelayInMs, amount |-> c.usageLimit,
   reward |-> c.maxCostPerExecution, minReputation |-> c.minProcessorReputation,
   reuseKeysFrom |-> c.reuseKeysFrom, addresses |-> c.addresses,
   requiredModules |-> c.requiredModules \cup IF c.runtime = "Shell" THEN {"Shell"} ELSE {},
   instantMatch |-> IF c.variant = "Single" THEN c.instantMatch ELSE None,
   slots |-> c.numberOfReplicas,
   minVersions |-> convertMinProcessorVersions(c)]

-----------------------------------------------------------------------------
(* registerJob(), up to the submission                                       *)

\* createType() throws for a number that is negative, too wide or no integer.
\* One above MAX_SAFE_INTEGER is refused however wide the type is.
U8(x) == Whole(x) /\ x \in 0..255 * One
U32(x) == Whole(x) /\ x \in 0..MaxU32 * One
U64(x) == Whole(x) /\ x \in 0..MaxSafe * One
U128(x) == U64(x)

\* A start delay is encoded from a text that is rounded to an integer.
toFixed(x) == (x + 1) \div One

Encodes(j) ==
  /\ \A x \in {j.duration, j.startTime, j.endTime, j.interval, j.maxStartDelay} : U64(x)
  /\ U32(j.amount)
  /\ U8(j.slots) /\ U128(j.reward)
  /\ j.minReputation # 0 => U128(j.minReputation)
  /\ \A w \in j.minVersions : U32(w[2])
  /\ j.instantMatch # None =>
       \A i \in DOMAIN j.instantMatch : toFixed(j.instantMatch[i]) \in 0..MaxU64
  /\ j.reuseKeysFrom # None => U128(j.reuseKeysFrom)
  /\ "malformed" \notin j.addresses

\* buildMinMetricsForDeploy() of the filters: numerators of 128 bits, as text.
MetricsEncode(f) ==
  /\ BytesWhole(f)
  /\ \A p \in DOMAIN f.min : f.min[p] # None => f.min[p] \div One <= MaxU128
=============================================================================

------------------------- MODULE JobPlanningProofs -------------------------
(***************************************************************************)
(* Proofs that a valid project makes a job the runtime takes, and that the *)
(* advice is about the job that is registered, for any values of the       *)
(* fields of a configuration, any times and any market.                    *)
(***************************************************************************)
EXTENDS JobPlanning, SetInduction, FiniteSetTheorems

-----------------------------------------------------------------------------
(* Configurations and the schedule of their jobs.                            *)

Configured(c) == DOMAIN c = Fields /\ \A f \in Fields : c[f] \in Values[f]

LEMMA ConfigTypes ==
  ASSUME NEW c, Configured(c)
  PROVE  /\ c.startAt \in {"none", "msFromNow", "timestamp", "datetime"} \X Int
         /\ c.startAt[1] = "datetime" => Whole(c.startAt[2])
         /\ c.execution \in [type : {"onetime", "interval"}, max : Int \cup {None},
                             intervalInMs : Int, times : Int]
         /\ c.variant \in {"Single", "Competing"}
         /\ c.instantMatch \in Seq(Int) \cup {None}
         /\ c.numberOfReplicas \in Int /\ c.maxCostPerExecution \in Int
<1>1. /\ Values.startAt \subseteq {"none", "msFromNow", "timestamp", "datetime"} \X Int
      /\ \A s \in Values.startAt : s[1] = "datetime" => Whole(s[2])
      /\ Values.execution \subseteq [type : {"onetime", "interval"}, max : Int \cup {None},
                                     intervalInMs : Int, times : Int]
      /\ Values.variant \subseteq {"Single", "Competing"}
      /\ Values.instantMatch \subseteq Seq(Int) \cup {None}
      /\ Values.numberOfReplicas \subseteq Int /\ Values.maxCostPerExecution \subseteq Int
  BY ConfigAssumption
<1>2. /\ c.startAt \in Values.startAt /\ c.execution \in Values.execution
      /\ c.variant \in Values.variant /\ c.instantMatch \in Values.instantMatch
      /\ c.numberOfReplicas \in Values.numberOfReplicas
      /\ c.maxCostPerExecution \in Values.maxCostPerExecution
  BY DEF Configured, Fields
<1> QED BY <1>1, <1>2

\* The minimum versions of a configuration are build numbers.
LEMMA VersionTypes ==
  ASSUME NEW c, Configured(c)
  PROVE  /\ c.android[1] = "build" => c.android[2] \in Int
         /\ c.ios[1] = "build" => c.ios[2] \in Int
<1>1. c.android \in Values.android /\ c.ios \in Values.ios
  BY DEF Configured, Fields
<1> QED BY <1>1, ConfigAssumption

\* A valid execution lasts a minute at least, and ends before the next.
LEMMA ValidExecution ==
  ASSUME NEW c, Configured(c), NEW v \in Nat, acurastProjectConfigSchema(c, v)
  PROVE  /\ getScheduleDurationMs(c.execution) \in Nat
         /\ getScheduleDurationMs(c.execution) >= 120000
         /\ c.execution.type = "interval" =>
              /\ c.execution.intervalInMs \in Nat
              /\ getScheduleDurationMs(c.execution) < c.execution.intervalInMs
              /\ c.execution.times \in Nat /\ c.execution.times >= 2
         /\ c.execution.type \in {"onetime", "interval"}
<1> DEFINE e == c.execution
<1>1. e \in [type : {"onetime", "interval"}, max : Int \cup {None},
             intervalInMs : Int, times : Int]
  BY ConfigTypes
<1>2. ExecutionForm(e) /\ getScheduleDurationMs(e) >= 120000
  BY DEF acurastProjectConfigSchema, MIN_EXECUTION_DURATION_MS, Minute, One
<1> HIDE DEF e
<1>3. /\ e.type \in {"onetime", "interval"} /\ e.max \in Int \cup {None}
      /\ e.intervalInMs \in Int /\ e.times \in Int
  BY <1>1
<1>4. CASE e.type = "onetime"
  <2>1. e.max \in Int /\ e.max >= 2
    BY <1>2, <1>3, <1>4 DEF ExecutionForm, One
  <2>2. getScheduleDurationMs(e) = e.max
    BY <2>1, ConfigAssumption DEF getScheduleDurationMs, Defaults
  <2> QED BY <1>2, <1>4, <2>1, <2>2 DEF e
<1>5. CASE e.type = "interval"
  <2>1. e.intervalInMs >= 2 /\ e.times >= 2
        /\ (e.max # None => e.max >= 2 /\ e.max < e.intervalInMs)
    BY <1>2, <1>5 DEF ExecutionForm, One
  <2>2. getScheduleDurationMs(e) = IF e.max = None THEN e.intervalInMs - 20000 - 2 ELSE e.max
    BY <1>5 DEF getScheduleDurationMs, Defaults, DEFAULT_TIME_BETWEEN_EXECUTIONS_MS, One
  <2>3. getScheduleDurationMs(e) \in Int /\ getScheduleDurationMs(e) < e.intervalInMs
    BY <1>3, <2>1, <2>2
  <2> QED BY <1>2, <1>3, <1>5, <2>1, <2>3 DEF e
<1> QED BY <1>3, <1>4, <1>5

\* A valid start is a day ahead at most, whenever the job is made, and in the
\* past only when it was given as a date and time.
LEMMA ValidStart ==
  ASSUME NEW c, Configured(c), NEW v \in Nat, acurastProjectConfigSchema(c, v),
         NEW t \in Nat, v <= t, Whole(v)
  PROVE  /\ startTime(c.startAt, t) \in Int
         /\ startTime(c.startAt, t) <= t + Day
         /\ startTime(c.startAt, t) >= v \/ c.startAt[1] = "datetime"
         /\ startTime(c.startAt, t) < 0 => c.startAt[1] = "datetime" /\ c.startAt[2] < 0
         /\ Whole(t) /\ ~Whole(startTime(c.startAt, t)) =>
              c.startAt[1] = "msFromNow" /\ ~Whole(c.startAt[2])
<1> DEFINE s == c.startAt
<1>1. s \in {"none", "msFromNow", "timestamp", "datetime"} \X Int
  BY ConfigTypes
<1> USE DEF Whole, One
<1>d. s[1] = "datetime" => s[2] % 2 = 0
  BY ConfigTypes
<1>2. StartForm(s, v)
  BY DEF acurastProjectConfigSchema
<1> HIDE DEF s
<1>3. s[1] \in {"none", "msFromNow", "timestamp", "datetime"} /\ s[2] \in Int
  BY <1>1
<1>4. Day = 172800000 /\ MAX_START_TIME_FROM_NOW_MS = 172800000 /\ DEFAULT_START_DELAY = 600000
  BY DEF Day, Minute, MAX_START_TIME_FROM_NOW_MS, DEFAULT_START_DELAY
<1>5. CASE s[1] = "none"
  <2>1. startTime(s, t) = t + 600000
    BY <1>4, <1>5 DEF startTime
  <2> QED BY <1>4, <2>1 DEF s
<1>6. CASE s[1] = "msFromNow"
  <2>1. startTime(s, t) = t + s[2]
    BY <1>6 DEF startTime
  <2>2. s[2] >= 0 /\ s[2] <= 172800000
    BY <1>2, <1>4, <1>6 DEF StartForm
  <2>3. t % 2 = 0 /\ s[2] % 2 = 0 => (t + s[2]) % 2 = 0
    BY <1>3
  <2>4. t + s[2] \in Int /\ t + s[2] <= t + Day /\ t + s[2] >= v /\ t + s[2] >= 0
    BY <1>3, <1>4, <2>2
  <2> QED BY <1>3, <1>6, <2>1, <2>3, <2>4 DEF s
<1>7. CASE s[1] = "timestamp"
  <2>1. startTime(s, t) = 2 * (s[2] \div 2)
    BY <1>7 DEF startTime, DateTime
  <2>2. s[2] >= v /\ 2 * (s[2] \div 2) - v <= 172800000
    BY <1>2, <1>4, <1>7 DEF StartForm, DateTime
  <2>3. v = 2 * (v \div 2) /\ v \div 2 <= s[2] \div 2
    BY <1>3, <2>2
  <2>4. 2 * (s[2] \div 2) \in Int /\ 2 * (s[2] \div 2) >= v /\ (2 * (s[2] \div 2)) % 2 = 0
    BY <1>3, <2>3
  <2> QED BY <1>3, <1>4, <2>1, <2>2, <2>4 DEF s
<1>8. CASE s[1] = "datetime"
  <2>1. 2 * (s[2] \div 2) = s[2]
    BY <1>3, <1>8, <1>d
  <2>2. startTime(s, t) = s[2]
    BY <1>8, <2>1 DEF startTime, DateTime
  <2>3. s[2] - v <= 172800000
    BY <1>2, <1>4, <1>8, <2>1 DEF StartForm, DateTime
  <2> QED BY <1>3, <1>4, <1>8, <1>d, <2>2, <2>3 DEF s
<1> QED BY <1>3, <1>5, <1>6, <1>7, <1>8

\* There is room for n executions, a millisecond and no more.
LEMMA Executions ==
  ASSUME NEW i \in Nat, NEW n \in Nat, NEW d \in Nat, n >= 1, d >= 2, d < i,
         NEW s \in Int, NEW end, end = s + 2 + i * n
  PROVE  /\ (end - s) \div i = n
         /\ s + (n - 1) * i + d < end
<1> DEFINE m == i * n
<1>1. m \in Nat /\ (n - 1) * i = m - i
  OBVIOUS
<1>2. end - s = i * n + 2
  BY <1>1
<1>3. (i * n + 2) \div i = n
  OBVIOUS
<1>4. s + (n - 1) * i + d < s + 2 + m
  <2> HIDE DEF m
  <2> QED BY <1>1
<1> QED BY <1>1, <1>2, <1>3, <1>4

\* How long n executions take, n counted in halves: an interval at least, and
\* as many intervals as n has ones.
LEMMA Stretch ==
  ASSUME NEW i \in Nat, NEW n \in Nat, n >= 2
  PROVE  /\ (i * n) \div 2 \in Nat /\ i <= (i * n) \div 2
         /\ n % 2 = 0 => n \div 2 \in Nat /\ n \div 2 >= 1 /\ (i * n) \div 2 = i * (n \div 2)
<1> DEFINE m == i * n
<1>1. m \in Nat /\ i + i <= m
  <2>1. i * n = i + i + i * (n - 2) /\ i * (n - 2) \in Nat
    OBVIOUS
  <2> QED BY <2>1
<1>2. m \div 2 \in Nat /\ i <= m \div 2
  <2> HIDE DEF m
  <2> QED BY <1>1
<1>3. ASSUME n % 2 = 0
      PROVE  n \div 2 \in Nat /\ n \div 2 >= 1 /\ m \div 2 = i * (n \div 2)
  <2> DEFINE k == n \div 2
  <2>1. k \in Nat /\ k >= 1 /\ n = 2 * k
    BY <1>3
  <2> HIDE DEF k
  <2>2. m = 2 * (i * k) /\ i * k \in Nat
    BY <2>1
  <2>3. m \div 2 = i * k
    <3> HIDE DEF m
    <3> QED BY <2>2
  <2> HIDE DEF m
  <2> QED BY <2>1, <2>3 DEF k
<1> QED BY <1>2, <1>3

\* The numbers of a valid configuration's job.
LEMMA JobNumbers ==
  ASSUME NEW c, Configured(c), NEW v \in Nat, acurastProjectConfigSchema(c, v),
         NEW t \in Nat, v <= t, Whole(v), NEW j, j = Job(c, t),
         NEW times, times = IF c.execution.type = "onetime" THEN One ELSE c.execution.times
  PROVE  /\ j.startTime = startTime(c.startAt, t)
         /\ j.duration \in Nat /\ j.startTime \in Int /\ j.interval \in Nat
         /\ j.duration >= 120000 /\ j.duration < j.interval
         /\ j.endTime \in Int /\ j.interval <= j.endTime - j.startTime
         /\ Whole(times) =>
              /\ (j.endTime - j.startTime) \div j.interval = times \div One
              /\ j.startTime + ((times \div One) - 1) * j.interval + j.duration < j.endTime
<1> DEFINE e == c.execution
           d == getScheduleDurationMs(e)
           s == startTime(c.startAt, t)
<1>1. /\ d \in Nat /\ d >= 120000
      /\ e.type = "interval" => /\ e.intervalInMs \in Nat /\ d < e.intervalInMs
                                /\ e.times \in Nat /\ e.times >= 2
      /\ e.type \in {"onetime", "interval"}
      /\ times = IF e.type = "onetime" THEN 2 ELSE e.times
  BY ValidExecution DEF One
<1>2. s \in Int
  BY ValidStart
<1>3. j.duration = d /\ j.startTime = s /\ j.endTime = endTime(e, s)
      /\ j.interval = IF e.type = "onetime" THEN endTime(e, s) - s ELSE e.intervalInMs
  BY DEF Job
<1> HIDE DEF d, s, e
<1>4. CASE e.type = "onetime"
  <2>1. endTime(e, s) = s + 2 + d
    BY <1>4 DEF endTime, d, One
  <2>2. j.interval = 2 + d /\ j.endTime = s + (2 + d) /\ times = 2
    BY <1>1, <1>2, <1>3, <1>4, <2>1
  <2>3. j.endTime - j.startTime = 2 + d /\ 2 \div 2 = 1
    BY <1>1, <1>2, <1>3, <2>2
  <2>4. (2 + d) \div (2 + d) = 1
    BY <1>1
  <2>5. s + (1 - 1) * (2 + d) + d < s + (2 + d)
    BY <1>1, <1>2
  <2> QED BY <1>1, <1>2, <1>3, <2>2, <2>3, <2>4, <2>5 DEF s, One
<1>5. CASE e.type = "interval"
  <2> DEFINE i == e.intervalInMs
             p == (i * times) \div 2
             n == times \div 2
  <2>1. j.interval = i /\ i \in Nat /\ times \in Nat /\ times >= 2 /\ d < i /\ d \in Nat
        /\ d >= 2 /\ times = e.times
    BY <1>1, <1>3, <1>5
  <2>2. j.endTime = s + 2 + p
    BY <1>1, <1>3, <1>5, <2>1 DEF endTime, One
  <2> HIDE DEF i
  <2>3. /\ p \in Nat /\ i <= p
        /\ times % 2 = 0 => n \in Nat /\ n >= 1 /\ p = i * n
    BY <2>1, Stretch
  <2> HIDE DEF p, n
  <2>4. j.endTime \in Int /\ i <= j.endTime - s
    BY <1>2, <2>1, <2>2, <2>3
  <2>5. times % 2 = 0 => /\ (j.endTime - s) \div i = n
                         /\ s + (n - 1) * i + d < j.endTime
    <3> SUFFICES ASSUME times % 2 = 0
                 PROVE  (j.endTime - s) \div i = n /\ s + (n - 1) * i + d < j.endTime
      OBVIOUS
    <3>1. j.endTime = s + 2 + i * n /\ n \in Nat /\ n >= 1
      BY <2>2, <2>3
    <3> QED BY <1>2, <2>1, <3>1, Executions
  <2>6. Whole(times) => /\ (j.endTime - j.startTime) \div j.interval = n
                        /\ j.startTime + (n - 1) * j.interval + j.duration < j.endTime
    BY <1>3, <2>1, <2>5 DEF Whole, One
  <2> QED BY <1>1, <1>2, <1>3, <2>1, <2>4, <2>6 DEF s, n, One
<1> QED BY <1>1, <1>4, <1>5

\* The numbers of a valid job are integers when those it is made of are.
LEMMA WholeNumbers ==
  ASSUME NEW c, Configured(c), NEW v \in Nat, acurastProjectConfigSchema(c, v),
         NEW t \in Nat, v <= t, Whole(v), Whole(t), NEW j, j = Job(c, t),
         ~OverlookedSchedule(c)
  PROVE  /\ Whole(j.duration) /\ Whole(j.startTime) /\ Whole(j.endTime) /\ Whole(j.interval)
         /\ j.startTime >= 0
<1> DEFINE e == c.execution
           d == getScheduleDurationMs(e)
           s == startTime(c.startAt, t)
<1> USE DEF Whole, One
<1>1. s \in Int /\ s % 2 = 0 /\ s >= 0
  BY ValidStart DEF OverlookedSchedule
<1>2. /\ d \in Nat /\ e.type \in {"onetime", "interval"}
      /\ e.type = "interval" => e.intervalInMs \in Nat /\ e.times \in Nat /\ e.times >= 2
  BY ValidExecution
<1>3. /\ e.max # None => e.max % 2 = 0
      /\ e.type = "interval" => e.intervalInMs % 2 = 0 /\ e.times % 2 = 0
  BY DEF OverlookedSchedule
<1>4. j.duration = d /\ j.startTime = s /\ j.endTime = endTime(e, s)
      /\ j.interval = IF e.type = "onetime" THEN endTime(e, s) - s ELSE e.intervalInMs
  BY DEF Job
<1>5. d = IF e.max = None
          THEN IF e.type = "onetime" THEN 120000 ELSE e.intervalInMs - 20000 - 2
          ELSE e.max
  BY DEF getScheduleDurationMs, Defaults, Minute, DEFAULT_TIME_BETWEEN_EXECUTIONS_MS
<1>6. endTime(e, s) = s + 2 + IF e.type = "onetime" THEN d ELSE (e.intervalInMs * e.times) \div 2
  BY DEF endTime
<1> HIDE DEF d, s, e
<1>7. d % 2 = 0
  BY <1>2, <1>3, <1>5
<1>8. CASE e.type = "onetime"
  <2>1. endTime(e, s) = s + 2 + d
    BY <1>6, <1>8
  <2>2. (s + 2 + d) % 2 = 0 /\ ((s + 2 + d) - s) % 2 = 0
    BY <1>1, <1>2, <1>7
  <2> QED BY <1>1, <1>4, <1>7, <1>8, <2>1, <2>2
<1>9. CASE e.type = "interval"
  <2> DEFINE i == e.intervalInMs
             n == e.times \div 2
             p == (i * e.times) \div 2
  <2>1. i \in Nat /\ i % 2 = 0 /\ n \in Nat /\ p = i * n
    BY <1>2, <1>3, <1>9, Stretch
  <2>2. endTime(e, s) = s + 2 + p
    BY <1>6, <1>9
  <2> HIDE DEF i, n, p
  <2>3. p \in Int /\ p % 2 = 0
    <3>1. PICK k \in Nat : i = 2 * k
      <4>1. i \div 2 \in Nat /\ i = 2 * (i \div 2)
        BY <2>1
      <4> QED BY <4>1
    <3>2. i * n = 2 * (k * n) /\ k * n \in Nat
      BY <2>1, <3>1
    <3>3. (2 * (k * n)) % 2 = 0
      <4> DEFINE m == k * n
      <4> HIDE DEF m
      <4>1. m \in Nat => (2 * m) % 2 = 0
        OBVIOUS
      <4> QED BY <3>2, <4>1 DEF m
    <3>4. p = 2 * (k * n) /\ 2 * (k * n) \in Int
      BY <2>1, <3>2
    <3> QED BY <3>3, <3>4
  <2>4. (s + 2 + p) % 2 = 0
    BY <1>1, <2>3
  <2>5. j.interval = i
    BY <1>4, <1>9 DEF i
  <2> QED BY <1>1, <1>4, <1>7, <2>1, <2>2, <2>4, <2>5
<1> QED BY <1>2, <1>8, <1>9

\* convertConfigToJob() throws, for a valid configuration, only at a version.
LEMMA ValidConverts ==
  ASSUME NEW c, Configured(c), NEW v \in Nat, acurastProjectConfigSchema(c, v), Throws(c)
  PROVE  Overlooked(c)
<1>1. getScheduleDurationMs(c.execution) \in Nat
  BY ValidExecution
<1>2. ~Resolves(0, c.android) \/ ~Resolves(1, c.ios)
  BY <1>1 DEF Throws
<1>3. OverlookedVersion(0, c.android) \/ OverlookedVersion(1, c.ios)
  BY <1>2 DEF OverlookedVersion
<1> QED BY <1>3 DEF Overlooked

\* The build numbers of a valid job are encoded, apart from those overlooked.
LEMMA VersionsEncode ==
  ASSUME NEW c, Configured(c),
         ~OverlookedVersion(0, c.android), ~OverlookedVersion(1, c.ios)
  PROVE  \A w \in convertMinProcessorVersions(c) : U32(w[2])
<1>1. ASSUME NEW platform, NEW x, x[1] # "none", ~OverlookedVersion(platform, x)
      PROVE  U32(buildNumber(platform, x))
  <2>1. CASE x[1] = "build"
    BY <1>1, <2>1 DEF OverlookedVersion, buildNumber
  <2>2. CASE x[1] # "build"
    <3>1. <<platform, x[2]>> \in DOMAIN DeviceVersions
      BY <1>1, <2>2 DEF OverlookedVersion, Resolves
    <3>2. PICK b \in 1..MaxU32 : DeviceVersions[<<platform, x[2]>>] = b
      BY <3>1, ConfigAssumption
    <3>3. buildNumber(platform, x) = b * 2
      BY <2>2, <3>2 DEF buildNumber, One
    <3>4. (b * 2) % 2 = 0 /\ b * 2 \in 0..MaxU32 * 2
      BY ConfigAssumption
    <3> QED BY <3>3, <3>4 DEF U32, Whole, One
  <2> QED BY <2>1, <2>2
<1> TAKE w \in convertMinProcessorVersions(c)
<1>2. PICK x \in {<<0, c.android>>, <<1, c.ios>>} :
        x[2][1] # "none" /\ w = <<x[1], buildNumber(x[1], x[2])>>
  BY DEF convertMinProcessorVersions
<1>3. ~OverlookedVersion(x[1], x[2])
  BY <1>2
<1>4. U32(buildNumber(x[1], x[2]))
  BY <1>1, <1>2, <1>3
<1> QED BY <1>2, <1>4

\* registerJob() encodes the job of a valid configuration, apart from what the
\* schema overlooks and from an end beyond the safe integers.
LEMMA ValidEncodes ==
  ASSUME NEW c, Configured(c), NEW v \in Nat, acurastProjectConfigSchema(c, v),
         NEW t \in Nat, v <= t, Whole(v), Whole(t), NEW j, j = Job(c, t),
         ~Overlooked(c), ~(j.endTime > MaxSafe * One)
  PROVE  Encodes(j) /\ MetricsEncode(c.filters)
<1>1. /\ j.duration \in Nat /\ j.startTime \in Int /\ j.interval \in Nat
      /\ j.duration < j.interval /\ j.interval <= j.endTime - j.startTime
      /\ j.endTime \in Int
  BY JobNumbers
<1>2. /\ Whole(j.duration) /\ Whole(j.startTime) /\ Whole(j.endTime) /\ Whole(j.interval)
      /\ j.startTime >= 0
  BY WholeNumbers DEF Overlooked
<1>3. MaxSafe * One \in Nat /\ j.endTime <= MaxSafe * One
  BY <1>1, ConfigAssumption DEF One
<1>4. U64(j.duration) /\ U64(j.startTime) /\ U64(j.endTime) /\ U64(j.interval)
  <2> DEFINE max == MaxSafe * One
  <2>1. max \in Nat /\ j.endTime <= max
    BY <1>3
  <2> HIDE DEF max
  <2>2. /\ j.duration \in 0..max /\ j.startTime \in 0..max
        /\ j.endTime \in 0..max /\ j.interval \in 0..max
    BY <1>1, <1>2, <2>1
  <2> QED BY <1>2, <2>2 DEF U64, max
<1>5. /\ j.maxStartDelay = c.maxAllowedStartDelayInMs /\ j.amount = c.usageLimit
      /\ j.slots = c.numberOfReplicas /\ j.reward = c.maxCostPerExecution
      /\ j.minReputation = c.minProcessorReputation
      /\ j.minVersions = convertMinProcessorVersions(c)
      /\ j.instantMatch = IF c.variant = "Single" THEN c.instantMatch ELSE None
      /\ j.reuseKeysFrom = c.reuseKeysFrom /\ j.addresses = c.addresses
  BY DEF Job
<1>6. /\ U32(j.amount) /\ U64(j.maxStartDelay) /\ U128(j.reward) /\ U128(j.minReputation)
      /\ j.reuseKeysFrom # None => U128(j.reuseKeysFrom)
      /\ "malformed" \notin j.addresses /\ MetricsEncode(c.filters)
  BY <1>5 DEF Overlooked, U128
<1>7. U8(j.slots)
  <2>1. c.numberOfReplicas \in 2..128
    BY DEF acurastProjectConfigSchema, One
  <2>2. Whole(c.numberOfReplicas)
    BY DEF Overlooked
  <2> QED BY <1>5, <2>1, <2>2 DEF U8, One
<1>8. \A w \in j.minVersions : U32(w[2])
  BY <1>5, VersionsEncode DEF Overlooked
<1>9. ASSUME j.instantMatch # None, NEW i \in DOMAIN j.instantMatch
      PROVE  toFixed(j.instantMatch[i]) \in 0..MaxU64
  <2>1. c.variant = "Single" /\ c.instantMatch # None /\ j.instantMatch = c.instantMatch
    BY <1>5, <1>9
  <2>2. c.instantMatch[i] >= 0
    BY <1>9, <2>1 DEF acurastProjectConfigSchema
  <2>3. c.instantMatch[i] \in Int
    <3>1. c.instantMatch \in Seq(Int)
      BY <2>1, ConfigTypes
    <3> QED BY <1>9, <2>1, <3>1
  <2>4. ~(toFixed(c.instantMatch[i]) > MaxU64)
    BY <1>9, <2>1 DEF Overlooked
  <2>5. toFixed(c.instantMatch[i]) \in Nat
    BY <2>2, <2>3 DEF toFixed, One
  <2> QED BY <2>1, <2>4, <2>5, ConfigAssumption
<1> QED BY <1>4, <1>6, <1>7, <1>8, <1>9 DEF Encodes

\* Executions no note is about are ten seconds apart.
LEMMA ValidIsRoomy ==
  ASSUME NEW c, Configured(c), NEW v \in Nat, acurastProjectConfigSchema(c, v),
         NEW t \in Nat, v <= t, "close" \notin Notes(c, v)
  PROVE  \/ Job(c, t).interval - Job(c, t).duration >= 20000
         \/ c.execution.type = "onetime"
<1> DEFINE e == c.execution
           d == getScheduleDurationMs(e)
<1> SUFFICES ASSUME e.type # "onetime" PROVE Job(c, t).interval - Job(c, t).duration >= 20000
  OBVIOUS
<1>1. e.type = "interval" /\ e.intervalInMs \in Nat /\ d \in Nat
  BY ValidExecution
<1>2. Job(c, t).interval = e.intervalInMs /\ Job(c, t).duration = d
  BY DEF Job
<1>3. e.max # None => e.max <= e.intervalInMs - 20000
  <2>1. e.max # None => ~(e.max > e.intervalInMs - 20000)
    BY <1>1 DEF Notes, One
  <2>2. e.max \in Int \cup {None}
    BY ConfigTypes
  <2> QED BY <1>1, <2>1, <2>2
<1>4. d = IF e.max = None THEN e.intervalInMs - 20000 - 2 ELSE e.max
  BY <1>1 DEF getScheduleDurationMs, Defaults, DEFAULT_TIME_BETWEEN_EXECUTIONS_MS, One
<1> HIDE DEF d, e
<1>5. e.intervalInMs - d >= 20000
  BY <1>1, <1>3, <1>4
<1> QED BY <1>2, <1>5

-----------------------------------------------------------------------------
(* From a configuration to a registration.                                   *)

Moments == {Start} \cup Ticks

\* What was validated is what the job is made of, though not when, and what
\* the advice is about.
PlanInv ==
  /\ Configured(config) /\ clock \in Moments /\ validAt \in Moments /\ validAt <= clock
  /\ edits \in 0..MaxEdits
  /\ stage \in {"edited", "valid", "invalid", "advised", "job", "threw", "submitted", "stuck"}
  /\ stage \notin {"edited", "invalid"} => acurastProjectConfigSchema(config, validAt)
  /\ stage = "threw" => Throws(config)
  /\ IF stage \in {"job", "submitted", "stuck"}
     THEN \E t \in Moments : validAt <= t /\ t <= clock /\ job = Job(config, t)
     ELSE job = None
  /\ stage = "stuck" => ~(Encodes(job) /\ MetricsEncode(config.filters))
  /\ stage = "submitted" => minMetrics = IF hasBenchmarkFilters(config.filters)
                                         THEN Triples(config.network, config.filters) ELSE <<>>
  /\ stage \in {"edited", "valid", "invalid"} => advice = None
  /\ advice # None =>
       \E t \in Moments : validAt <= t /\ advice.asked = MatchParams(config, Job(config, t))
  /\ AdviceSound

LEMMA MomentsAreNat == Moments \subseteq Nat /\ \A t \in Moments : Whole(t)
BY PlanningAssumption DEF Moments

-----------------------------------------------------------------------------
(* The advice.                                                               *)

\* Accumulated() satisfies its recursive equation.
LEMMA AccumulatedUnfold ==
  ASSUME NEW N \in Nat, NEW buckets, Len(buckets) = N,
         \A k \in 1..N : buckets[k].count \in Int
  PROVE  /\ Accumulated(buckets)[0] = 0
         /\ \A k \in 1..N : Accumulated(buckets)[k] = Accumulated(buckets)[k-1] + buckets[k].count
<1> DEFINE step == [k \in 1..N |-> [n \in Int |-> n + buckets[k].count]]
           F(f) == f = [k \in 0..N |-> IF k = 0 THEN 0 ELSE f[k-1] + buckets[k].count]
<1>1. step \in [1..N -> [Int -> Int]]
  OBVIOUS
<1>2. PICK g \in [0..N -> Int] : RecursiveUpto(g, N, 0, step)
  <2> HIDE DEF step, F
  <2>1. 0 \in Int
    OBVIOUS
  <2> QED BY <2>1, <1>1, RecursionExists
<1>3. F(g)
  <2> DEFINE h == [k \in 0..N |-> IF k = 0 THEN 0 ELSE g[k-1] + buckets[k].count]
  <2>1. ASSUME NEW k \in 0..N PROVE g[k] = h[k]
    <3>1. CASE k = 0
      BY <3>1, <1>2 DEF RecursiveUpto
    <3>2. CASE k # 0
      <4>1. k \in 1..N /\ k - 1 \in 0..N
        BY <3>2
      <4>2. g[k-1] \in Int
        BY <4>1
      <4> QED BY <4>1, <4>2, <1>2, <3>2 DEF RecursiveUpto
    <3> QED BY <3>1, <3>2
  <2>2. h \in [0..N -> {h[k] : k \in 0..N}]
    OBVIOUS
  <2> HIDE DEF h
  <2>3. g = h
    BY <2>1, <2>2
  <2> QED BY <2>3 DEF h
<1>4. F(CHOOSE f : F(f))
  <2> HIDE DEF F
  <2> QED BY <1>3
<1>5. Accumulated(buckets) = (CHOOSE f : F(f))
  BY DEF Accumulated
<1>6. F(Accumulated(buckets))
  <2> HIDE DEF F
  <2> QED BY <1>4, <1>5
<1> HIDE DEF step
<1> DEFINE t == Accumulated(buckets)
<1> HIDE DEF t
<1>7. t = [k \in 0..N |-> IF k = 0 THEN 0 ELSE t[k-1] + buckets[k].count]
  BY <1>6 DEF t
<1>8. 0 \in 0..N /\ \A k \in 1..N : k \in 0..N /\ k # 0
  OBVIOUS
<1>9. t[0] = 0 /\ \A k \in 1..N : t[k] = t[k-1] + buckets[k].count
  BY <1>7, <1>8
<1> QED BY <1>9 DEF t

\* How many take a price is a number, all at most, and grows with the price.
LEMMA TakersGrow ==
  ASSUME NEW m \in [Processors -> Int], NEW S \in SUBSET Processors
  PROVE  /\ \A p \in Int : Takers(m, S, p) \in Nat
         /\ \A p, q \in Int : p <= q => Takers(m, S, p) <= Takers(m, S, q)
         /\ \A p, q \in Int : (\A x \in Processors : m[x] <= q) =>
                                Takers(m, S, p) <= Takers(m, S, q)
<1> DEFINE T(p) == {x \in S : m[x] <= p}
<1>1. IsFiniteSet(S)
  BY PlanningAssumption, FS_Subset
<1>2. ASSUME NEW p \in Int PROVE IsFiniteSet(T(p)) /\ Takers(m, S, p) \in Nat
  <2>1. T(p) \subseteq S
    OBVIOUS
  <2>2. IsFiniteSet(T(p))
    BY <1>1, <2>1, FS_Subset
  <2> QED BY <2>2, FS_CardinalityType DEF Takers
<1>3. ASSUME NEW p \in Int, NEW q \in Int, p <= q \/ \A x \in Processors : m[x] <= q
      PROVE  Takers(m, S, p) <= Takers(m, S, q)
  <2>1. T(p) \subseteq T(q)
    <3>1. ASSUME NEW x \in S, m[x] <= p PROVE m[x] <= q
      <4>1. m[x] \in Int /\ x \in Processors
        OBVIOUS
      <4> QED BY <4>1, <1>3, <3>1
    <3> QED BY <3>1
  <2>2. IsFiniteSet(T(q))
    BY <1>2
  <2>3. Cardinality(T(p)) <= Cardinality(T(q))
    BY <2>1, <2>2, FS_Subset
  <2> QED BY <2>3 DEF Takers
<1> QED BY <1>2, <1>3

\* The distribution adds up to how many processors take a boundary's price.
LEMMA DistributionAddsUp ==
  ASSUME NEW m \in Markets
  PROVE  /\ Len(Distribution(m)) = Len(Boundaries) /\ DOMAIN Distribution(m) = DOMAIN Boundaries
         /\ \A i \in DOMAIN Boundaries :
              /\ Distribution(m)[i].range_max = Boundaries[i]
              /\ Accumulated(Distribution(m))[i] = Takers(m, Processors, Boundaries[i])
<1> DEFINE N == Len(Boundaries)
           B == Distribution(m)
           A == Accumulated(B)
           upto == [i \in 1..N |-> Takers(m, Processors, Boundaries[i])]
           T == {0} \cup {i \in 1..N : A[i] = upto[i]}
<1>1. N \in Nat /\ DOMAIN Boundaries = 1..N /\ \A i \in 1..N : Boundaries[i] \in Int
  BY PlanningAssumption
<1>2. \A i \in 1..N : upto[i] \in Nat
  <2>1. m \in [Processors -> Int] /\ Processors \in SUBSET Processors
    BY PlanningAssumption
  <2> QED BY <1>1, <2>1, TakersGrow
<1>3. \A i \in 1..N : upto[i] = Takers(m, Processors, Boundaries[i])
  OBVIOUS
<1>4. /\ DOMAIN B = 1..N
      /\ \A i \in 1..N :
           B[i] = [range_max |-> Boundaries[i],
                   count |-> Takers(m, Processors, Boundaries[i]) -
                               IF i = 1 THEN 0 ELSE Takers(m, Processors, Boundaries[i - 1])]
  BY <1>1 DEF Distribution
<1>5. B \in Seq({B[i] : i \in 1..N}) /\ Len(B) = N
  <2>1. B \in [1..N -> {B[i] : i \in 1..N}]
    BY <1>1 DEF Distribution
  <2> HIDE DEF B, N
  <2> QED BY <1>1, <2>1
<1>6. \A i \in 1..N : /\ B[i].range_max = Boundaries[i]
                       /\ B[i].count = upto[i] - IF i = 1 THEN 0 ELSE upto[i - 1]
  <2> HIDE DEF B, N, upto
  <2> TAKE i \in 1..N
  <2>1. B[i].range_max = Boundaries[i]
        /\ B[i].count = Takers(m, Processors, Boundaries[i]) -
                           IF i = 1 THEN 0 ELSE Takers(m, Processors, Boundaries[i - 1])
    BY <1>4
  <2>2. i # 1 => i - 1 \in 1..N
    BY <1>1
  <2> QED BY <1>3, <2>1, <2>2
<1> HIDE DEF B, upto
<1>7. \A i \in 1..N : B[i].count \in Int
  <2> TAKE i \in 1..N
  <2>1. i # 1 => i - 1 \in 1..N
    BY <1>1
  <2> QED BY <1>2, <1>6, <2>1
<1>8. A[0] = 0 /\ \A k \in 1..N : A[k] = A[k-1] + B[k].count
  <2>1. N \in Nat /\ Len(B) = N
    BY <1>1, <1>5
  <2> HIDE DEF N
  <2>2. /\ Accumulated(B)[0] = 0
        /\ \A k \in 1..N : Accumulated(B)[k] = Accumulated(B)[k-1] + B[k].count
    BY <1>7, <2>1, AccumulatedUnfold
  <2> QED BY <2>2
<1> HIDE DEF A
<1>9. \A n \in 0..N : n \in T /\ n < N => n + 1 \in T
  <2> SUFFICES ASSUME NEW n \in 0..N, n \in T, n < N PROVE A[n+1] = upto[n+1] /\ n + 1 \in 1..N
    OBVIOUS
  <2>1. n + 1 \in 1..N /\ (n + 1) - 1 = n
    BY <1>1
  <2>2. A[n+1] = A[n] + B[n+1].count
    BY <1>8, <2>1
  <2>3. CASE n = 0
    <3>1. B[1].count = upto[1] - 0
      BY <1>6, <2>1, <2>3
    <3> QED BY <1>2, <1>8, <2>1, <2>2, <2>3, <3>1
  <2>4. CASE n # 0
    <3>1. n \in 1..N /\ A[n] = upto[n] /\ n + 1 # 1
      BY <1>1, <2>4
    <3>2. B[n+1].count = upto[n+1] - upto[n]
      BY <1>6, <2>1, <3>1
    <3>3. upto[n] \in Nat /\ upto[n+1] \in Nat
      BY <1>2, <2>1, <3>1
    <3> QED BY <2>1, <2>2, <3>1, <3>2, <3>3
  <2> QED BY <2>3, <2>4
<1>10. 0..N \subseteq T
  <2>1. 0 \in T
    OBVIOUS
  <2> HIDE DEF T, N
  <2> QED BY <1>1, <1>9, <2>1, RangeInduction
<1>11. \A i \in 1..N : A[i] = upto[i]
  <2> TAKE i \in 1..N
  <2>1. i \in T /\ i # 0
    BY <1>1, <1>10
  <2> QED BY <2>1
<1> QED BY <1>1, <1>3, <1>4, <1>5, <1>6, <1>11 DEF A, B, upto

LEMMA MinIsLeast ==
  ASSUME NEW T \in SUBSET Nat, T # {}
  PROVE  Min(T) \in T /\ \A y \in T : Min(T) <= y
<1>1. \E x \in T : \A y \in T : x <= y
  BY Smallest
<1> QED BY <1>1 DEF Min

\* A price that was suggested, either for the processors S the matcher counts
\* at each boundary, or for all from the distribution.
SuggestedFor(m, S, required, matches, price) ==
  /\ \A i \in DOMAIN Boundaries : matches[Boundaries[i]] = Takers(m, S, Boundaries[i])
  /\ \/ price = BenchmarkAwarePrice(Distribution(m), required, matches)
     \/ S = Processors /\ price = computeSuggestedPrice(Distribution(m), required)

Enough(m, S, required) ==
  \E i \in DOMAIN Boundaries : Takers(m, S, Boundaries[i]) >= required

\* The cheapest boundary that enough processors take; or, if none is, one that
\* is left out unless too few take any price.
Cheapest(m, S, required, price) ==
  IF Enough(m, S, required)
  THEN /\ price \in Int /\ Takers(m, S, price) >= required
       /\ \A i \in DOMAIN Boundaries :
            Boundaries[i] < price => Takers(m, S, Boundaries[i]) < required
  ELSE price = None \/ \A p \in Int : Takers(m, S, p) < required

\* The price that is suggested is the cheapest that does.
LEMMA SuggestionCovers ==
  ASSUME NEW m \in Markets, NEW S \in SUBSET Processors, NEW required \in Int,
         NEW matches, NEW suggested, SuggestedFor(m, S, required, matches, suggested)
  PROVE  Cheapest(m, S, required, suggested)
<1> DEFINE B == Distribution(m)
           N == Len(Boundaries)
           E == {i \in DOMAIN Boundaries : Takers(m, S, Boundaries[i]) >= required}
           asked == suggested = BenchmarkAwarePrice(B, required, matches)
           counted == S = Processors /\ suggested = computeSuggestedPrice(B, required)
<1> USE DEF Enough, Cheapest
<1>1. /\ N \in Nat /\ DOMAIN Boundaries = 1..N /\ Len(B) = N /\ DOMAIN B = 1..N
      /\ \A i \in 1..N : Boundaries[i] \in Int
      /\ \A i, k \in 1..N : i < k => Boundaries[i] < Boundaries[k]
      /\ m \in [Processors -> Int]
  BY PlanningAssumption, DistributionAddsUp
<1>2. \A i \in 1..N : /\ B[i].range_max = Boundaries[i]
                       /\ Accumulated(B)[i] = Takers(m, Processors, Boundaries[i])
  BY <1>1, DistributionAddsUp
<1>3. E \in SUBSET Nat /\ E \subseteq 1..N /\ (asked \/ counted)
      /\ \A i \in 1..N : matches[Boundaries[i]] = Takers(m, S, Boundaries[i])
  BY <1>1 DEF SuggestedFor
<1> HIDE DEF B, N
<1>4. ASSUME asked
      PROVE  suggested = IF E = {} THEN None ELSE Boundaries[Min(E)]
  <2>1. {i \in DOMAIN B : matches[B[i].range_max] >= required} = E
    BY <1>1, <1>2, <1>3
  <2>2. suggested = IF E = {} THEN None ELSE B[Min(E)].range_max
    <3> HIDE DEF E
    <3> QED BY <1>4, <2>1 DEF BenchmarkAwarePrice, B
  <2>3. E # {} => Min(E) \in 1..N
    <3> HIDE DEF E
    <3> QED BY <1>3, MinIsLeast
  <2> HIDE DEF E
  <2> QED BY <1>2, <2>2, <2>3
<1>5. ASSUME counted
      PROVE  suggested = IF N = 0 THEN None ELSE Boundaries[IF E = {} THEN N ELSE Min(E)]
  <2>1. S = Processors
    BY <1>5
  <2>2. {i \in DOMAIN B : Covers(B, i, required)} = E
    BY <1>1, <1>2, <2>1 DEF Covers
  <2>3. suggested = IF B = <<>> THEN None ELSE B[IF E = {} THEN N ELSE Min(E)].range_max
    <3> HIDE DEF E
    <3> QED BY <1>1, <1>5, <2>2 DEF computeSuggestedPrice, B
  <2>4. B = <<>> <=> N = 0
    <3>1. B = <<>> => N = 0
      BY <1>1
    <3>2. N = 0 => B = <<>>
      BY <1>1, PlanningAssumption DEF B, Distribution
    <3> QED BY <3>1, <3>2
  <2>5. E # {} => Min(E) \in 1..N
    <3> HIDE DEF E
    <3> QED BY <1>3, MinIsLeast
  <2> HIDE DEF E
  <2>6. N # 0 => (IF E = {} THEN N ELSE Min(E)) \in 1..N
    BY <1>1, <2>5
  <2> QED BY <1>2, <2>3, <2>4, <2>6
<1>6. CASE E # {}
  <2> DEFINE k == Min(E)
  <2>1. k \in E /\ \A i \in E : k <= i
    <3> HIDE DEF E
    <3> QED BY <1>3, <1>6, MinIsLeast
  <2>2. k \in 1..N /\ N # 0 /\ suggested = Boundaries[k]
    <3>1. k \in 1..N /\ N # 0
      <4> HIDE DEF E, k
      <4> QED BY <1>1, <1>3, <2>1
    <3>2. asked => suggested = Boundaries[k]
      <4> HIDE DEF E
      <4> QED BY <1>4, <1>6
    <3>3. counted => suggested = Boundaries[k]
      <4> HIDE DEF E
      <4> QED BY <1>5, <1>6, <3>1
    <3> QED BY <1>3, <3>1, <3>2, <3>3
  <2> HIDE DEF k
  <2>3. suggested \in Int /\ Takers(m, S, suggested) >= required
    BY <1>1, <2>1, <2>2
  <2>4. ASSUME NEW i \in 1..N, Boundaries[i] < suggested
        PROVE  Takers(m, S, Boundaries[i]) < required
    <3>1. Takers(m, S, Boundaries[i]) \in Nat
      BY <1>1, TakersGrow
    <3>2. SUFFICES ASSUME i \in E PROVE FALSE
      BY <1>1, <3>1
    <3>3. k = i \/ k < i
      BY <1>3, <2>1, <2>2, <3>2
    <3> QED BY <1>1, <2>2, <2>4, <3>3
  <2>5. \E i \in DOMAIN Boundaries : Takers(m, S, Boundaries[i]) >= required
    BY <1>6
  <2> QED BY <1>1, <2>3, <2>4, <2>5
<1>7. CASE E = {}
  <2>1. ~ \E i \in DOMAIN Boundaries : Takers(m, S, Boundaries[i]) >= required
    BY <1>7
  <2>2. CASE asked \/ (counted /\ N = 0)
    BY <1>4, <1>5, <1>7, <2>1, <2>2
  <2>3. CASE counted /\ N # 0
    <3>1. N \in 1..N
      BY <1>1, <2>3
    <3>2. ASSUME NEW x \in Processors PROVE m[x] <= Boundaries[N]
      <4>1. PICK i \in DOMAIN Boundaries : m[x] <= Boundaries[i]
        BY PlanningAssumption
      <4>2. m[x] \in Int /\ i \in 1..N /\ (i = N \/ i < N)
        BY <1>1
      <4> QED BY <1>1, <3>1, <4>1, <4>2
    <3>3. ~(Takers(m, S, Boundaries[N]) >= required)
      BY <1>1, <2>1, <3>1
    <3>4. ASSUME NEW p \in Int PROVE Takers(m, S, p) < required
      <4>1. /\ Takers(m, S, p) <= Takers(m, S, Boundaries[N])
            /\ Takers(m, S, p) \in Nat /\ Takers(m, S, Boundaries[N]) \in Nat
        BY <1>1, <3>1, <3>2, TakersGrow
      <4> QED BY <3>3, <4>1
    <3> QED BY <2>1, <3>4
  <2> QED BY <1>3, <2>2, <2>3
<1> QED BY <1>6, <1>7

\* The advice Advise gives is sound.
LEMMA AdviceIsSound ==
  ASSUME PlanInv, stage = "valid", UNCHANGED config,
         NEW m \in Markets, NEW S \in SUBSET Processors,
         NEW failing \in SUBSET {Boundaries[i] : i \in DOMAIN Boundaries},
         advice'.market = m, advice'.admitted = S, advice'.failing = failing,
         advice'.filtered = hasBenchmarkFilters(config.filters),
         advice'.suggested =
           IF hasBenchmarkFilters(config.filters)
           THEN BenchmarkAwarePrice(Distribution(m), Required(config),
                  [p \in {Boundaries[i] : i \in DOMAIN Boundaries} |->
                     IF p \in failing THEN -1 ELSE Takers(m, S, p)])
           ELSE computeSuggestedPrice(Distribution(m), Required(config)),
         advice'.status = resolveStatus(Takers(m, S, config.maxCostPerExecution),
                            Required(config), config.maxCostPerExecution,
                            advice'.suggested)
  PROVE  AdviceSound'
<1> DEFINE required == Required(config)
           current == config.maxCostPerExecution
           filtered == hasBenchmarkFilters(config.filters)
           matches == [p \in {Boundaries[i] : i \in DOMAIN Boundaries} |->
                         IF p \in failing THEN -1 ELSE Takers(m, S, p)]
           takers(p) == Takers(m, S, p)
           enough == Enough(m, S, required)
           suggested == advice'.suggested
<1>1. required \in Int /\ current \in Int
  <2>1. config.numberOfReplicas \in Int /\ current \in Int
    BY ConfigTypes DEF PlanInv
  <2> QED BY <2>1 DEF Required, One
<1>2. m \in [Processors -> Int]
  BY PlanningAssumption
<1>3. SUFFICES ASSUME failing = {}, filtered \/ S = Processors
               PROVE  /\ advice'.status = "overpaying" => takers(suggested) >= required
                      /\ enough => /\ takers(suggested) >= required
                                   /\ \A i \in DOMAIN Boundaries :
                                        Boundaries[i] < suggested =>
                                          takers(Boundaries[i]) < required
                                   /\ advice'.status = "insufficient" => suggested > current
  BY DEF AdviceSound, Enough
<1>4. \A i \in DOMAIN Boundaries : matches[Boundaries[i]] = takers(Boundaries[i])
  BY <1>3
<1>5. Cheapest(m, S, required, suggested)
  <2>1. \/ suggested = BenchmarkAwarePrice(Distribution(m), required, matches)
        \/ S = Processors /\ suggested = computeSuggestedPrice(Distribution(m), required)
    BY <1>3
  <2> HIDE DEF required, matches, suggested
  <2>2. SuggestedFor(m, S, required, matches, suggested)
    BY <1>4, <2>1 DEF SuggestedFor
  <2> QED BY <1>1, <2>2, SuggestionCovers
<1>6. advice'.status = resolveStatus(takers(current), required, current, suggested)
  OBVIOUS
<1>7. takers(current) \in Nat
  BY <1>1, <1>2, TakersGrow
<1> HIDE DEF required, current, suggested
<1>8. advice'.status = "overpaying" => suggested # None /\ takers(current) >= required
  BY <1>1, <1>6, <1>7 DEF resolveStatus
<1>9. advice'.status = "insufficient" => takers(current) < required
  BY <1>1, <1>6, <1>7 DEF resolveStatus
<1>10. CASE enough
  <2>1. advice'.status = "insufficient" => suggested > current
    <3> SUFFICES ASSUME takers(current) < required, ~(suggested > current) PROVE FALSE
      BY <1>9
    <3>1. suggested \in Int /\ takers(suggested) >= required /\ suggested <= current
      BY <1>1, <1>5, <1>10 DEF Cheapest
    <3>2. takers(suggested) <= takers(current) /\ takers(suggested) \in Nat
      BY <1>1, <1>2, <3>1, TakersGrow
    <3> QED BY <1>1, <1>7, <3>1, <3>2
  <2> QED BY <1>5, <1>10, <2>1 DEF Cheapest
<1>11. CASE ~enough
  <2>1. suggested = None \/ takers(current) < required
    <3> HIDE DEF enough
    <3> QED BY <1>1, <1>5, <1>11 DEF Cheapest, enough
  <2>2. advice'.status # "overpaying"
    BY <1>1, <1>7, <1>8, <2>1
  <2> QED BY <1>11, <2>2
<1> QED BY <1>10, <1>11

\* The terms of a valid configuration's job do not depend on when it is made.
LEMMA SameTerms ==
  ASSUME NEW c, Configured(c), NEW v \in Nat, acurastProjectConfigSchema(c, v),
         NEW t \in Nat, v <= t, NEW u \in Nat, v <= u, Whole(v)
  PROVE  /\ Job(c, t).slots = Job(c, u).slots /\ Job(c, t).duration = Job(c, u).duration
         /\ Job(c, t).interval = Job(c, u).interval
         /\ Job(c, t).endTime - Job(c, t).startTime = Job(c, u).endTime - Job(c, u).startTime
<1> DEFINE e == c.execution
           length == 2 + IF e.type = "onetime" THEN getScheduleDurationMs(e)
                         ELSE (e.intervalInMs * e.times) \div 2
<1>1. length \in Int
  <2>1. /\ getScheduleDurationMs(e) \in Nat /\ e.type \in {"onetime", "interval"}
        /\ e.type = "interval" => e.intervalInMs \in Nat /\ e.times \in Nat
    BY ValidExecution
  <2>2. e.type = "interval" => (e.intervalInMs * e.times) \div 2 \in Int
    <3>1. ASSUME NEW m \in Int PROVE m \div 2 \in Int
      OBVIOUS
    <3>2. e.type = "interval" => e.intervalInMs * e.times \in Int
      BY <2>1
    <3> QED BY <3>1, <3>2
  <2> QED BY <2>1, <2>2
<1>2. ASSUME NEW w \in Nat, v <= w
      PROVE  /\ Job(c, w).slots = c.numberOfReplicas
             /\ Job(c, w).duration = getScheduleDurationMs(e)
             /\ Job(c, w).endTime - Job(c, w).startTime = length
             /\ Job(c, w).interval = IF e.type = "onetime" THEN length ELSE e.intervalInMs
  <2> DEFINE s == startTime(c.startAt, w)
  <2>1. s \in Int
    BY <1>2, ValidStart
  <2>2. /\ Job(c, w).slots = c.numberOfReplicas
        /\ Job(c, w).duration = getScheduleDurationMs(e)
        /\ Job(c, w).startTime = s /\ Job(c, w).endTime = endTime(e, s)
        /\ Job(c, w).interval = IF e.type = "onetime" THEN endTime(e, s) - s ELSE e.intervalInMs
    BY DEF Job
  <2> HIDE DEF s
  <2>3. endTime(e, s) = s + length
    <3> DEFINE rest == IF e.type = "onetime" THEN getScheduleDurationMs(e)
                       ELSE (e.intervalInMs * e.times) \div 2
    <3>1. endTime(e, s) = s + 2 + rest /\ length = 2 + rest
      BY DEF endTime, One
    <3>2. rest \in Int
      <4>1. /\ getScheduleDurationMs(e) \in Nat /\ e.type \in {"onetime", "interval"}
            /\ e.type = "interval" => e.intervalInMs \in Nat /\ e.times \in Nat
        BY ValidExecution
      <4>2. ASSUME NEW m \in Int PROVE m \div 2 \in Int
        OBVIOUS
      <4>3. e.type = "interval" => e.intervalInMs * e.times \in Int
        BY <4>1
      <4> QED BY <4>1, <4>2, <4>3
    <3> HIDE DEF rest, length
    <3> QED BY <2>1, <3>1, <3>2
  <2> HIDE DEF length
  <2>4. endTime(e, s) - s = length
    BY <1>1, <2>1, <2>3
  <2> QED BY <2>2, <2>4
<1> HIDE DEF e, length
<1> QED BY <1>2

-----------------------------------------------------------------------------
(* The invariant.                                                            *)

LEMMA PlanInvInit == Init => PlanInv
<1> SUFFICES ASSUME Init PROVE PlanInv
  OBVIOUS
<1>1. Configured(config)
  BY PlanningAssumption, ConfigAssumption DEF Init, Configured
<1>2. clock \in Moments /\ validAt \in Moments /\ validAt <= clock /\ edits \in 0..MaxEdits
  BY PlanningAssumption DEF Init, Moments
<1>3. AdviceSound
  BY DEF Init, AdviceSound
<1> QED BY <1>1, <1>2, <1>3 DEF Init, PlanInv

LEMMA AdviceSoundKept ==
  ASSUME AdviceSound, UNCHANGED <<config, advice>>
  PROVE  AdviceSound'
BY DEF AdviceSound

LEMMA EditKeeps ==
  ASSUME PlanInv, NEW f \in Fields, Edit(f)
  PROVE  PlanInv'
<1>1. PICK v \in Values[f] : config' = [config EXCEPT ![f] = v]
  BY DEF Edit
<1>2. Configured(config')
  BY <1>1 DEF PlanInv, Configured
<1>3. stage = "edited" /\ advice = None /\ job = None
  BY DEF Edit, PlanInv
<1>4. AdviceSound'
  BY <1>3 DEF Edit, AdviceSound
<1>5. edits' \in 0..MaxEdits
  BY PlanningAssumption DEF Edit, PlanInv
<1> QED BY <1>2, <1>3, <1>4, <1>5 DEF Edit, PlanInv

LEMMA ValidateKeeps ==
  ASSUME PlanInv, Validate
  PROVE  PlanInv'
<1>1. stage = "edited" /\ advice = None /\ job = None
  BY DEF Validate, PlanInv
<1>2. /\ validAt' = clock /\ clock' = clock /\ clock \in Nat
      /\ stage' \in {"valid", "invalid"}
      /\ stage' = "valid" => acurastProjectConfigSchema(config, clock)
      /\ UNCHANGED <<config, edits, advice, job>>
  BY MomentsAreNat DEF Validate, PlanInv
<1>3. AdviceSound'
  BY <1>2, AdviceSoundKept DEF PlanInv
<1> QED BY <1>1, <1>2, <1>3 DEF PlanInv

LEMMA AdviseKeeps ==
  ASSUME PlanInv, Advise
  PROVE  PlanInv'
<1>1. /\ stage = "valid" /\ stage' = "advised"
      /\ UNCHANGED <<config, edits, clock, validAt, job, minMetrics>>
  BY DEF Advise
<1>2. job = None /\ acurastProjectConfigSchema(config, validAt)
  BY <1>1 DEF PlanInv
<1>3. PICK m \in Markets, failing \in SUBSET {Boundaries[i] : i \in DOMAIN Boundaries},
           S \in SUBSET Processors :
        LET buckets == Distribution(m)
            required == Required(config)
            current == config.maxCostPerExecution
            matched == Takers(m, S, current)
            matches == [p \in {Boundaries[i] : i \in DOMAIN Boundaries} |->
                          IF p \in failing THEN -1 ELSE Takers(m, S, p)]
            filtered == hasBenchmarkFilters(config.filters)
            suggested == IF filtered THEN BenchmarkAwarePrice(buckets, required, matches)
                         ELSE computeSuggestedPrice(buckets, required) IN
          advice' = [market |-> m, admitted |-> S, failing |-> failing,
                     suggested |-> suggested, filtered |-> filtered,
                     status |-> resolveStatus(matched, required, current, suggested),
                     asked |-> MatchParams(config, Job(config, clock))]
  BY DEF Advise
<1>4. AdviceSound'
  <2>1. /\ advice'.market = m /\ advice'.admitted = S /\ advice'.failing = failing
        /\ advice'.filtered = hasBenchmarkFilters(config.filters)
        /\ advice'.suggested =
             IF hasBenchmarkFilters(config.filters)
             THEN BenchmarkAwarePrice(Distribution(m), Required(config),
                    [p \in {Boundaries[i] : i \in DOMAIN Boundaries} |->
                       IF p \in failing THEN -1 ELSE Takers(m, S, p)])
             ELSE computeSuggestedPrice(Distribution(m), Required(config))
        /\ advice'.status = resolveStatus(Takers(m, S, config.maxCostPerExecution),
                              Required(config), config.maxCostPerExecution,
                              advice'.suggested)
    BY <1>3
  <2> QED BY <1>1, <2>1, AdviceIsSound
<1>5. advice'.asked = MatchParams(config, Job(config, clock))
  BY <1>3
<1>6. \E t \in Moments : validAt <= t /\ advice'.asked = MatchParams(config, Job(config, t))
  BY <1>5 DEF PlanInv
<1> QED BY <1>1, <1>2, <1>4, <1>6 DEF PlanInv

LEMMA ConvertKeeps ==
  ASSUME PlanInv, Convert
  PROVE  PlanInv'
<1>1. /\ stage \in {"valid", "advised"}
      /\ UNCHANGED <<config, edits, clock, validAt, advice, minMetrics>>
      /\ \/ Throws(config) /\ stage' = "threw" /\ job' = job
         \/ stage' = "job" /\ job' = Job(config, clock)
  BY DEF Convert
<1>2. job = None /\ acurastProjectConfigSchema(config, validAt)
  BY <1>1 DEF PlanInv
<1>3. AdviceSound'
  BY <1>1, AdviceSoundKept DEF PlanInv
<1>4. clock \in Moments /\ clock <= clock
  BY MomentsAreNat DEF PlanInv
<1> QED BY <1>1, <1>2, <1>3, <1>4 DEF PlanInv

LEMMA RegisterKeeps ==
  ASSUME PlanInv, Register
  PROVE  PlanInv'
<1>1. /\ stage = "job" /\ UNCHANGED <<config, edits, clock, validAt, advice, job>>
      /\ \/ /\ stage' = "submitted"
            /\ minMetrics' = IF hasBenchmarkFilters(config.filters)
                             THEN Triples(config.network, config.filters) ELSE <<>>
         \/ /\ stage' = "stuck" /\ ~(Encodes(job) /\ MetricsEncode(config.filters))
  BY DEF Register
<1>2. /\ acurastProjectConfigSchema(config, validAt)
      /\ \E t \in Moments : validAt <= t /\ t <= clock /\ job = Job(config, t)
  BY <1>1 DEF PlanInv
<1>3. AdviceSound'
  BY <1>1, AdviceSoundKept DEF PlanInv
<1> QED BY <1>1, <1>2, <1>3 DEF PlanInv

LEMMA TickKeeps ==
  ASSUME PlanInv, Tick
  PROVE  PlanInv'
<1>1. /\ stage \in {"valid", "advised", "job"} /\ clock' \in Ticks /\ clock < clock'
      /\ UNCHANGED <<config, edits, stage, validAt, advice, job, minMetrics>>
  <2>1. clock \in Nat /\ Ticks \subseteq Nat
    BY PlanningAssumption, MomentsAreNat DEF PlanInv
  <2>2. clock' \in Ticks /\ clock' > clock
    BY DEF Tick
  <2>3. clock < clock'
    BY <2>1, <2>2
  <2> QED BY <2>2, <2>3 DEF Tick
<1>2. clock \in Nat /\ clock' \in Nat /\ clock' \in Moments /\ validAt \in Nat /\ validAt <= clock'
  <2>1. clock \in Nat /\ validAt \in Nat /\ validAt <= clock
    BY MomentsAreNat DEF PlanInv
  <2>2. clock' \in Moments /\ clock' \in Nat
    BY <1>1, PlanningAssumption DEF Moments
  <2> QED BY <1>1, <2>1, <2>2
<1>3. AdviceSound'
  BY <1>1, AdviceSoundKept DEF PlanInv
<1>4. stage = "job" =>
        \E t \in Moments : validAt <= t /\ t <= clock' /\ job = Job(config, t)
  <2> SUFFICES ASSUME stage = "job"
               PROVE  \E t \in Moments : validAt <= t /\ t <= clock' /\ job = Job(config, t)
    OBVIOUS
  <2>1. PICK t \in Moments : validAt <= t /\ t <= clock /\ job = Job(config, t)
    BY DEF PlanInv
  <2>2. t <= clock'
    BY <1>1, <1>2, <2>1, MomentsAreNat
  <2> QED BY <2>1, <2>2
<1>5. stage # "job" => job = None
  BY <1>1 DEF PlanInv
<1> QED BY <1>1, <1>2, <1>3, <1>4, <1>5 DEF PlanInv

LEMMA PlanInvStep == PlanInv /\ [Next]_vars => PlanInv'
<1> SUFFICES ASSUME PlanInv, [Next]_vars PROVE PlanInv'
  OBVIOUS
<1>1. CASE UNCHANGED vars
  <2>1. AdviceSound'
    BY <1>1, AdviceSoundKept DEF PlanInv, vars
  <2> QED BY <1>1, <2>1 DEF PlanInv, vars
<1> QED BY <1>1, EditKeeps, ValidateKeeps, AdviseKeeps, ConvertKeeps, RegisterKeeps, TickKeeps
        DEF Next

\* A project is valid when it is advised about or converted, and what is made
\* of it stays what was made of this configuration.
THEOREM Inductive == Spec => []PlanInv
BY PlanInvInit, PlanInvStep, PTL DEF Spec

\* The types of the variables.
THEOREM TypeCorrect == Spec => []TypeOK
<1>1. PlanInv => TypeOK
  BY DEF PlanInv, TypeOK, Configured, Moments
<1> QED BY <1>1, Inductive, PTL

\* A configuration that was valid makes a job and a submission, apart from what
\* the schema overlooks, and its schedule is one the runtime takes, however long
\* ago it was validated (validate-config.ts:181, config-to-job.ts:26).
THEOREM PlansTaken == Spec => []PlanTaken
<1>1. ASSUME PlanInv PROVE ValidIsSubmitted
  <2>1. Configured(config) /\ validAt \in Nat /\ Whole(validAt)
    BY <1>1, MomentsAreNat DEF PlanInv
  <2>2. CASE stage = "threw"
    BY <1>1, <2>1, <2>2, ValidConverts DEF PlanInv, ValidIsSubmitted
  <2>3. CASE stage = "stuck"
    <3>1. PICK t \in Moments : validAt <= t /\ job = Job(config, t)
      BY <1>1, <2>3 DEF PlanInv
    <3>2. acurastProjectConfigSchema(config, validAt)
          /\ ~(Encodes(job) /\ MetricsEncode(config.filters)) /\ t \in Nat /\ Whole(t)
      BY <1>1, <2>3, MomentsAreNat DEF PlanInv
    <3>3. Overlooked(config) \/ job.endTime > MaxSafe * One
      BY <2>1, <3>1, <3>2, ValidEncodes
    <3> QED BY <2>3, <3>3 DEF ValidIsSubmitted
  <2> QED BY <2>2, <2>3 DEF ValidIsSubmitted
<1>2. ASSUME PlanInv, stage = "submitted" PROVE ScheduleTaken /\ QuietIsRoomy
  <2>1. /\ Configured(config) /\ validAt \in Nat /\ Whole(validAt) /\ clock \in Nat
        /\ acurastProjectConfigSchema(config, validAt)
    BY <1>2, MomentsAreNat DEF PlanInv
  <2>2. PICK t \in Moments : validAt <= t /\ t <= clock /\ job = Job(config, t)
    BY <1>2 DEF PlanInv
  <2>3. t \in Nat
    BY MomentsAreNat
  <2> DEFINE times == IF config.execution.type = "onetime" THEN One ELSE config.execution.times
             n == times \div One
  <2>4. /\ job.startTime = startTime(config.startAt, t)
        /\ job.duration >= 120000 /\ job.duration < job.interval
        /\ Whole(times) =>
             /\ (job.endTime - job.startTime) \div job.interval = n
             /\ job.startTime + (n - 1) * job.interval + job.duration < job.endTime
    BY <2>1, <2>2, <2>3, JobNumbers
  <2>5. /\ job.startTime \in Int /\ job.startTime <= t + Day
        /\ job.startTime >= validAt \/ config.startAt[1] = "datetime"
    BY <2>1, <2>2, <2>3, <2>4, ValidStart
  <2>6. job.startTime <= clock + Day
    BY <2>1, <2>2, <2>3, <2>5 DEF Day, Minute, One
  <2>7. ScheduleTaken
    <3>1. Minute = 120000
      BY DEF Minute, One
    <3> HIDE DEF n
    <3> QED BY <2>4, <2>5, <2>6, <3>1 DEF ScheduleTaken, n
  <2>8. QuietIsRoomy
    BY <2>1, <2>2, <2>3, ValidIsRoomy
       DEF QuietIsRoomy, DEFAULT_TIME_BETWEEN_EXECUTIONS_MS, One
  <2> QED BY <2>7, <2>8
<1>3. ASSUME PlanInv PROVE PlanTaken
  <2>1. stage # "submitted" => ScheduleTaken /\ QuietIsRoomy
    BY DEF ScheduleTaken, QuietIsRoomy
  <2> QED BY <1>1, <1>2, <1>3, <2>1 DEF PlanTaken
<1> QED BY <1>3, Inductive, PTL

\* The advice is sound about any market, and what is registered is what the
\* matcher was asked about (pricing-advisor.ts:50, fetch-pricing-advice.ts:44).
THEOREM AdvicesHold == Spec => []AdviceHolds
<1>1. ASSUME PlanInv, advice # None, stage = "submitted" PROVE SameAsAsked
  <2>1. /\ Configured(config) /\ validAt \in Nat /\ Whole(validAt)
        /\ acurastProjectConfigSchema(config, validAt)
    BY <1>1, MomentsAreNat DEF PlanInv
  <2>2. PICK t \in Moments : validAt <= t /\ job = Job(config, t)
    BY <1>1 DEF PlanInv
  <2>3. PICK u \in Moments : validAt <= u /\ advice.asked = MatchParams(config, Job(config, u))
    BY <1>1 DEF PlanInv
  <2>4. t \in Nat /\ u \in Nat
    BY MomentsAreNat
  <2>5. /\ Job(config, t).slots = Job(config, u).slots
        /\ Job(config, t).duration = Job(config, u).duration
        /\ Job(config, t).interval = Job(config, u).interval
        /\ Job(config, t).endTime - Job(config, t).startTime
             = Job(config, u).endTime - Job(config, u).startTime
    BY <2>1, <2>2, <2>3, <2>4, SameTerms
  <2>6. /\ advice.asked.slots = job.slots /\ advice.asked.duration = job.duration
        /\ advice.asked.interval = job.interval
        /\ advice.asked.span = job.endTime - job.startTime
    BY <2>2, <2>3, <2>5 DEF MatchParams
  <2>7. /\ advice.asked.maxStartDelay = job.maxStartDelay
        /\ advice.asked.minReputation = job.minReputation
        /\ advice.asked.minVersions = job.minVersions
    <3>1. \A w \in Moments :
            /\ Job(config, w).maxStartDelay = config.maxAllowedStartDelayInMs
            /\ Job(config, w).minReputation = config.minProcessorReputation
            /\ Job(config, w).minVersions = convertMinProcessorVersions(config)
      BY DEF Job
    <3>2. /\ advice.asked.maxStartDelay = Job(config, u).maxStartDelay
          /\ advice.asked.minReputation = Job(config, u).minReputation
          /\ advice.asked.minVersions = Job(config, u).minVersions
      BY <2>3 DEF MatchParams
    <3> QED BY <2>2, <3>1, <3>2
  <2>8. advice.asked.metrics = MatcherJson(minMetrics)
    <3>1. advice.asked.metrics = IF hasBenchmarkFilters(config.filters)
                                 THEN MatcherJson(Triples(config.network, config.filters))
                                 ELSE <<>>
      BY <2>3 DEF MatchParams
    <3>2. minMetrics = IF hasBenchmarkFilters(config.filters)
                       THEN Triples(config.network, config.filters) ELSE <<>>
      BY <1>1 DEF PlanInv
    <3>3. MatcherJson(<<>>) = <<>>
      BY DEF MatcherJson
    <3> QED BY <3>1, <3>2, <3>3
  <2> QED BY <2>6, <2>7, <2>8 DEF SameAsAsked
<1>2. ASSUME PlanInv PROVE AdviceHolds
  <2>1. AdviceSound
    BY <1>2 DEF PlanInv
  <2>2. ~(advice # None /\ stage = "submitted") => SameAsAsked
    BY DEF SameAsAsked
  <2> QED BY <1>1, <1>2, <2>1, <2>2 DEF AdviceHolds
<1> QED BY <1>2, Inductive, PTL

=============================================================================

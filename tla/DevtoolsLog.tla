---------------------------- MODULE DevtoolsLog ----------------------------
(***************************************************************************)
(* devtools-snippet.ts, the script in front of a deployed one: it asks for *)
(* an API key, buffers console calls until it has one, and limits how many *)
(* it posts in a window of time. Console calls are numbered.               *)
(***************************************************************************)
EXTENDS Naturals, Sequences, FiniteSets

CONSTANTS
  RateLimitMax, RateLimitWindow,  \* RATE_LIMIT_MAX, RATE_LIMIT_WINDOW_MS
  MaxLogs, MaxLogTime             \* bounds: console calls, and the clock

VARIABLES
  auth,         \* the answer to the key request: "asked", "given", "empty", "failed"
  pendingLogs,  \* payloads buffered
  posted,       \* history: payloads posted, with the key or without
  rateBucketStart, rateBucketCount, dropped,
  calls,        \* console calls so far
  unserialized, \* history: calls whose argument has no string
  logClock

logVars == <<auth, pendingLogs, posted, rateBucketStart, rateBucketCount, dropped,
             calls, unserialized, logClock>>

LogInit ==
  /\ auth = "asked" /\ pendingLogs = <<>> /\ posted = <<>>
  /\ rateBucketStart = 0 /\ rateBucketCount = 0 /\ dropped = 0
  /\ calls = 0 /\ unserialized = {} /\ logClock = 0

Entry(k) == [call |-> k]
Report(n) == [drops |-> n]

-----------------------------------------------------------------------------
\* A key was given: it is set, and what waited is posted, oldest first. An
\* answer without one leaves the key undefined, and posts it all the same.
Authenticated(answer) ==
  /\ auth = "asked"
  /\ auth' = answer
  /\ posted' = posted \o pendingLogs
  /\ pendingLogs' = <<>>
  /\ UNCHANGED <<rateBucketStart, rateBucketCount, dropped, calls, unserialized, logClock>>

\* Refused, unreachable, not JSON, or the setup threw: nothing asks again.
AuthFails ==
  /\ auth = "asked"
  /\ auth' = "failed"
  /\ UNCHANGED <<pendingLogs, posted, rateBucketStart, rateBucketCount, dropped, calls,
                 unserialized, logClock>>

\* enqueue(), for several entries one after the other.
Enqueue(entries) ==
  IF auth = "given"
  THEN posted' = posted \o entries /\ UNCHANGED pendingLogs
  ELSE pendingLogs' = pendingLogs \o entries /\ UNCHANGED posted

\* Mutant: the count is reset before it is reported.
ReportedDropsLate == 0

ReportedDrops == dropped

\* The report of a window that is over, which does not count in the next one.
Reports(over) == IF over /\ ReportedDrops > 0 THEN <<Report(ReportedDrops)>> ELSE <<>>

\* sendLog(), by a console call. Serializing falls back to String(), and what
\* has no string either is passed over, though it counts.
SendLog ==
  LET over == logClock - rateBucketStart >= RateLimitWindow
      count == IF over THEN 0 ELSE rateBucketCount
      lost == IF over THEN 0 ELSE dropped IN
  /\ calls < MaxLogs
  /\ calls' = calls + 1
  /\ rateBucketStart' = IF over THEN logClock ELSE rateBucketStart
  /\ IF count >= RateLimitMax
     THEN /\ dropped' = lost + 1 /\ rateBucketCount' = count
          /\ Enqueue(Reports(over)) /\ UNCHANGED unserialized
     ELSE /\ dropped' = lost /\ rateBucketCount' = count + 1
          /\ \/ Enqueue(Reports(over) \o <<Entry(calls')>>) /\ UNCHANGED unserialized
             \/ Enqueue(Reports(over)) /\ unserialized' = unserialized \cup {calls'}
  /\ UNCHANGED <<auth, logClock>>

LogTick ==
  /\ logClock < MaxLogTime
  /\ logClock' = logClock + 1
  /\ UNCHANGED <<auth, pendingLogs, posted, rateBucketStart, rateBucketCount, dropped, calls,
                 unserialized>>

-----------------------------------------------------------------------------
Stream == posted \o pendingLogs
IsReport(b) == "drops" \in DOMAIN b

\* How many calls a payload tells of, and how many the first k of a stream do.
Tells(b) == IF IsReport(b) THEN b.drops ELSE 1
Told(s) ==
  LET told[k \in 0..Len(s)] == IF k = 0 THEN 0 ELSE told[k-1] + Tells(s[k]) IN told

Unserialized(k) == {c \in unserialized : c < k}

\* Nothing is lost in silence, nor out of order: in front of a call in the
\* stream are all earlier ones, but those without a string and as many as the
\* reports in front of it say; and after the last one the calls missing are
\* those the next report will count (devtools-snippet.ts:106). Once there is
\* a key nothing waits.
LogsAccountedFor ==
  /\ \A i \in DOMAIN Stream : ~IsReport(Stream[i]) =>
       LET k == Stream[i].call IN k - 1 = Told(Stream)[i-1] + Cardinality(Unserialized(k))
  /\ calls = Told(Stream)[Len(Stream)] + dropped + Cardinality(unserialized)
  /\ auth = "given" => pendingLogs = <<>>
=============================================================================

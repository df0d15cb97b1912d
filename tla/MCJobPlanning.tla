--------------------------- MODULE MCJobPlanning ---------------------------
(* Values at the limits of the schema, of the conversion and of the         *)
(* encoding, up to two fields away from a plain project, and three          *)
(* processors.                                                              *)
EXTENDS JobPlanning

CONSTANTS p1, p2, p3

Half == 1
Noon == 2 * Day
Ms(x) == x * One
Once(max) == [type |-> "onetime", max |-> max, intervalInMs |-> 0, times |-> 0]
Every(ms, n, max) == [type |-> "interval", max |-> max, intervalInMs |-> ms, times |-> n]
NoFilter == [p \in {"ramTotal", "cpuSingleCore", "cpuMultiCore", "storageAvail"} |-> None]
Filter(ram, cpu, pool) == [min |-> [NoFilter EXCEPT !["ramTotal"] = ram, !["cpuMultiCore"] = cpu],
                           poolIds |-> [NoFilter EXCEPT !["cpuMultiCore"] = pool]]
Tight == Minute + Ms(10000)  \* an interval with room for a minute and the gap

SampleConfig ==
  [startAt |-> <<"none", 0>>, execution |-> Once(Minute), variant |-> "Single",
   instantMatch |-> None, usageLimit |-> One, numberOfReplicas |-> 2 * One,
   maxCostPerExecution |-> 4 * One, android |-> <<"none", 0>>, ios |-> <<"none", 0>>,
   filters |-> [min |-> NoFilter, poolIds |-> NoFilter], network |-> "mainnet",
   runtime |-> "NodeJSWithBundle", requiredModules |-> {},
   maxAllowedStartDelayInMs |-> One, minProcessorReputation |-> 0,
   reuseKeysFrom |-> None, addresses |-> {"wellformed"}]

\* The end of the third execution is beyond the safe integers, not the interval.
Wide == Day

FieldValues ==
  [startAt |-> {<<"none", 0>>, <<"msFromNow", -One>>, <<"msFromNow", 0>>,
                <<"msFromNow", Half>>, <<"msFromNow", Day>>, <<"msFromNow", Day + Half>>,
                <<"timestamp", Noon>>, <<"timestamp", Noon - Half>>,
                <<"timestamp", Noon + Day + Half>>, <<"timestamp", Noon + Day + One>>,
                <<"datetime", Noon - One>>, <<"datetime", -One>>, <<"datetime", Noon + Day>>},
   execution |-> {Once(Minute), Once(Minute - Half), Once(Minute + Half), Once(0), Once(None),
                  Once(Ms(MaxSafe)), Once(Ms(MaxSafe + 1)),
                  Every(Ms(10000), One, None), Every(Tight, 2 * One, None),
                  Every(Tight + One, 3 * One, None), Every(Minute + One, 2 * One, Minute),
                  Every(Minute, 2 * One, Minute), Every(Tight, One, Minute),
                  Every(2 * Minute, 0, None), Every(2 * Minute, One + Half, None),
                  Every(Tight + Half, 2 * One, Minute), Every(Wide, 3 * One, Minute)},
   variant |-> {"Single", "Competing"},
   instantMatch |-> {None, <<>>, <<0>>, <<0, Half>>, <<0, -One>>, <<0, Ms(MaxU64) + Half>>},
   usageLimit |-> {0, Half, One, -One, Ms(MaxU32), Ms(MaxU32 + 1)},
   numberOfReplicas |-> {0, One, One + Half, 2 * One, 65 * One},
   maxCostPerExecution |-> {Half, One, 4 * One, 7 * One, Ms(MaxSafe + 1)},
   android |-> {<<"none", 0>>, <<"build", 0>>, <<"build", Half>>, <<"build", 9 * One>>,
                <<"build", Ms(MaxU32 + 1)>>, <<"name", "old">>},
   ios |-> {<<"none", 0>>, <<"name", "new">>, <<"name", "old">>},
   filters |-> {Filter(None, None, None), Filter(8 * One, None, None), Filter(Half, None, None),
                Filter(Ms(MaxU128 + 1), None, None), Filter(None, 9 * One + Half, 7),
                Filter(8 * One, 9 * One, None)},
   network |-> {"mainnet", "canary"},
   runtime |-> {"NodeJSWithBundle", "Shell"},
   requiredModules |-> {{}, {"Shell"}},
   maxAllowedStartDelayInMs |-> {Half, One, Ms(MaxSafe + 1)},
   minProcessorReputation |-> {0, Half, One, Ms(MaxSafe + 1)},
   reuseKeysFrom |-> {None, 0, -One, Half},
   addresses |-> {{}, {"wellformed"}, {"wellformed", "malformed"}}]

Versions == [v \in {<<0, "old">>, <<1, "new">>} |-> 9]
ThreeBuckets == <<2 * One, 4 * One, 6 * One>>
\* The processors are alike: a market is a price for the cheapest, and so on.
AllMarkets == {m \in [Processors -> {2 * One, 3 * One, 6 * One}] :
                 m[p1] <= m[p2] /\ m[p2] <= m[p3]}
Later == {Noon + One, Noon + Ms(600000)}
=============================================================================

-------------------------- MODULE BenchmarkFilters --------------------------
(***************************************************************************)
(* The minimum benchmarks of a project (chain/benchmark-filters.ts), as    *)
(* the chain takes them and as the matcher does. The pool ids are those of *)
(* chain/benchmark-pool-ids.ts.                                            *)
(***************************************************************************)
EXTENDS Integers, Sequences

CONSTANT None  \* what is left out

\* The numbers of a configuration are counted in halves, so that some are no
\* integers.
One == 2
Whole(x) == x % One = 0

Pools == <<"ramTotal", "cpuSingleCore", "cpuMultiCore", "storageAvail">>

getDefaultBenchmarkPoolIds(network) ==
  [cpuSingleCore |-> 1, cpuMultiCore |-> 2, ramTotal |-> 3,
   storageAvail |-> IF network = "mainnet" THEN 4 ELSE 5]

\* Mutant: the overrides are forgotten.
resolvedPoolIdsDefault(network, f) == getDefaultBenchmarkPoolIds(network)

resolvedPoolIds(network, f) ==
  [p \in DOMAIN getDefaultBenchmarkPoolIds(network) |->
     IF f.poolIds[p] # None THEN f.poolIds[p] ELSE getDefaultBenchmarkPoolIds(network)[p]]

\* buildBenchmarkMetricTriples(): pool, numerator and denominator. CPU scores
\* are rounded down; a fraction of a byte makes BigInt() throw (BytesWhole).
Triples(network, f) ==
  LET IsSet(p) == f.min[p] # None
      set == SelectSeq(Pools, IsSet) IN
  [i \in DOMAIN set |-> <<resolvedPoolIds(network, f)[set[i]], f.min[set[i]] \div One, 1>>]

\* benchmarkTriplesToMatcherJson(): it would throw for another denominator.
MatcherJson(triples) == [i \in DOMAIN triples |-> <<triples[i][1], triples[i][2]>>]

BytesWhole(f) ==
  \A p \in {"ramTotal", "storageAvail"} : f.min[p] # None => Whole(f.min[p])

hasBenchmarkFilters(f) == \E p \in DOMAIN f.min : f.min[p] # None
=============================================================================

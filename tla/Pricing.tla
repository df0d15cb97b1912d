------------------------------ MODULE Pricing ------------------------------
(***************************************************************************)
(* The advice on a price (acurast-sdk matcher/): what analyzePricing() and *)
(* fetchPricingAdvice() make of the matcher's answers. A distribution is a *)
(* sequence of buckets, from cheap to dear, each with the highest price in *)
(* it and the number of processors whose price is in it.                   *)
(***************************************************************************)
EXTENDS JobConfig, FiniteSetsExt

\* The processors up to bucket i.
Accumulated(buckets) ==
  LET upto[i \in 0..Len(buckets)] == IF i = 0 THEN 0 ELSE upto[i-1] + buckets[i].count
  IN upto

\* Mutant: one processor more than required.
CoversMore(buckets, i, required) == Accumulated(buckets)[i] > required

Covers(buckets, i, required) == Accumulated(buckets)[i] >= required

\* computeSuggestedPrice(): the first bucket that covers enough, or else the
\* last, though it does not.
computeSuggestedPrice(buckets, required) ==
  LET enough == {i \in DOMAIN buckets : Covers(buckets, i, required)} IN
  IF buckets = <<>> THEN None
  ELSE buckets[IF enough = {} THEN Len(buckets) ELSE Min(enough)].range_max

\* computeBenchmarkAwareSuggestedPrice(): the matcher is asked for each
\* bucket's price in turn; an answer that fails is passed over.
\* matches[p]: the processors that take price p, or -1 for a failed call.
BenchmarkAwarePrice(buckets, required, matches) ==
  LET enough == {i \in DOMAIN buckets : matches[buckets[i].range_max] >= required} IN
  IF enough = {} THEN None ELSE buckets[Min(enough)].range_max

\* resolveStatus(), which analyzePricing() repeats.
resolveStatus(matched, required, current, suggested) ==
  IF matched < required THEN "insufficient"
  ELSE IF suggested # None /\ 2 * current > 3 * suggested THEN "overpaying"
  ELSE "sufficient"
=============================================================================

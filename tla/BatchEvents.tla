---------------------------- MODULE BatchEvents ----------------------------
(***************************************************************************)
(* Which events of an extrinsic each of its calls is shown (tx-queue.ts):  *)
(* scopeResults() of the batching adapter, over the markers the utility    *)
(* pallet deposits after each call of a batch.                             *)
(***************************************************************************)
EXTENDS Sequences, Naturals

ItemMarkers == {"ItemCompleted", "ItemFailed"}
BatchMarkers == {"BatchCompleted", "BatchCompletedWithErrors", "BatchInterrupted"}

\* Mutant: only a completed item ends its group.
EndsItemIfOk(e) == e = <<"utility", "ItemCompleted">>

EndsItem(e) == e[1] = "utility" /\ e[2] \in ItemMarkers

\* What sliceBatchEvents() makes of one event more.
TakeEvent(s, e) ==
  IF EndsItem(e) THEN [groups |-> Append(s.groups, s.current), current |-> <<>>]
  ELSE IF e[1] = "utility" /\ e[2] \in BatchMarkers THEN s
  ELSE [s EXCEPT !.current = Append(@, e)]

Taken(events) ==
  LET taken[k \in 0..Len(events)] ==
        IF k = 0 THEN [groups |-> <<>>, current |-> <<>>] ELSE TakeEvent(taken[k-1], events[k])
  IN taken

\* What comes after the last item belongs to none.
SliceBatchEvents(events) == Taken(events)[Len(events)].groups

\* scopeResults(): a single call sees the result as it is.
ScopeResults(events, items) ==
  IF Len(items) <= 1 THEN [k \in DOMAIN items |-> events]
  ELSE LET groups == SliceBatchEvents(events) IN
       [k \in DOMAIN items |-> IF k \in DOMAIN groups THEN groups[k] ELSE <<>>]

-----------------------------------------------------------------------------
\* The events of the extrinsic combine() makes of items, on a chain where the
\* calls at Failed fail: the fee, each call's own with its marker, the end.
Fee == <<"system", "Withdraw">>
JobEvent(item) == <<"acurast", item>>
Marker(name) == <<"utility", name>>

ItemEvents(items, Failed) ==
  LET upto[k \in 0..Len(items)] ==
        IF k = 0 THEN <<Fee>>
        ELSE IF k \in Failed THEN Append(upto[k-1], Marker("ItemFailed"))
        ELSE Append(Append(upto[k-1], JobEvent(items[k])), Marker("ItemCompleted"))
  IN upto

EventsOf(items, Failed) ==
  IF Len(items) = 1 THEN IF 1 \in Failed THEN <<Fee>> ELSE <<Fee, JobEvent(items[1])>>
  ELSE LET end == Marker(IF Failed = {} THEN "BatchCompleted" ELSE "BatchCompletedWithErrors")
       IN Append(Append(ItemEvents(items, Failed)[Len(items)], end), Fee)

\* What a caller such as registerJob() looks for among the events it is shown.
IsJobEvent(e) == e[1] = "acurast"
JobsUpto(events) ==
  LET jobs[k \in 0..Len(events)] ==
        IF k = 0 THEN <<>>
        ELSE IF IsJobEvent(events[k]) THEN Append(jobs[k-1], events[k]) ELSE jobs[k-1]
  IN jobs
JobEvents(events) == JobsUpto(events)[Len(events)]

\* Each call is shown its own job event if it did not fail, and no other's.
ScopedTo(items, Failed) ==
  LET shown == ScopeResults(EventsOf(items, Failed), items) IN
  \A k \in DOMAIN items :
    JobEvents(shown[k]) = IF k \in Failed THEN <<>> ELSE <<JobEvent(items[k])>>
=============================================================================

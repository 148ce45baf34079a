------------------------------- MODULE Prune -------------------------------
(* What pay/prune and fee/prune have in common: a range query over documents  *)
(* with a created_time (ts), from the last pruned one to an end time, whose   *)
(* result is added up until a limit (queries.go, GetPaySumByTime,             *)
(* GetFeeSumByTime).                                                          *)
EXTENDS Integers, FiniteSetsExt

CONSTANTS Safe   \* what ten_minutes_flag subtracts: ten minutes, 2 * Skew in the code

(* The end of the range: the end time parameter (0 if absent) or the          *)
(* timestamp, and with ten_minutes_flag not later than Safe before it.        *)
PruneEndNow(safely, end, ts) == IF end # 0 THEN end ELSE ts   \* mutation of PruneEnd
PruneEnd(safely, end, ts) ==
  LET etime == IF end # 0 THEN end ELSE ts
  IN IF safely /\ etime > ts - Safe THEN ts - Safe ELSE etime

(* The selector of both queries: created_time $gt stime and $lte etime.       *)
InRange(d, stime, etime) == stime < d.ts /\ d.ts <= etime

(* What may be added up of the documents a query has found: in the order of   *)
(* created_time, up to the limit.  Documents of one timestamp come in the     *)
(* order of their keys, which are hashes: in any order.                       *)
Batches(found, limit) ==
  LET size == IF Cardinality(found) > limit THEN limit ELSE Cardinality(found)
  IN {batch \in kSubset(size, found) : \A d \in batch, e \in found \ batch : d.ts <= e.ts}

Sum(batch) == SumFunction([d \in batch |-> d.amount])

(* The time in the id of the last document added up, End.                     *)
EndTime(batch) == Max({d.ts : d \in batch})
=============================================================================

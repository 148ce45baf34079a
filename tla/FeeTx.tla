------------------------------- MODULE FeeTx -------------------------------
(* fee_tx.go: the prune that collects fees for the target account of the fee  *)
(* policy.                                                                    *)
EXTENDS TxContext, BalanceStub, Prune

CONSTANTS FeePruneSize   \* fees collected at once, 900 in the code

VARIABLES
  feeCursor,      \* LPF_: the time in LastPrunedFeeID, 0 before the first prune
  endorsedFees,   \* prunes endorsed but not yet committed
  prunedFees      \* history: the fees a prune has added up

feeVars == <<feeCursor, prunedFees>>

(* The query for fees, and what GetFeeSumByTime makes of it.                  *)
QueryPruneFee(stime, etime) == {f \in fees : InRange(f, stime, etime)}

FeeBatches(stime, etime) == Batches(QueryPruneFee(stime, etime), FeePruneSize)

(* fee/prune.  Without a policy it succeeds and does nothing.  Only a holder  *)
(* of the target account may prune; that the account is suspended does not    *)
(* matter.  As for pay/prune, query and balance are read at endorsement.  The *)
(* first prune takes the id of the last pruned fee from the token document,   *)
(* where earlier versions kept it; feeCursor stands for either place.         *)
feePrune(kid, safely, end, ts) ==
  LET target == token.policy.target
  IN /\ ts \in (now - Skew)..(now + Skew)
     /\ token.policy.installed
     /\ HasHolder(target, kid)
     /\ ~\E l \in blog : l.addr = target /\ l.ts = ts
     /\ \E batch \in FeeBatches(feeCursor, PruneEnd(safely, end, ts)) :
          /\ batch # {}
          /\ endorsedFees' = endorsedFees \cup
               {[account |-> target, ts |-> ts, at |-> now, bal |-> bal[target], batch |-> batch]}
     /\ UNCHANGED <<txVars, token, account, fees, balanceVars, contracts, feeVars>>

CursorToTimestamp(e) ==   \* mutation of feePruneCommit
  /\ bal' = [bal EXCEPT ![e.account] = e.bal + Sum(e.batch)]
  /\ feeCursor' = e.ts
  /\ PutBalanceLogs({Log(e.account, e.ts, Sum(e.batch), 0)})
  /\ prunedFees' = prunedFees \cup e.batch
  /\ UNCHANGED <<txVars, token, account, pending, contracts, fees>>

(* Its writes, applied at the commit, whatever the balance is by then.  The   *)
(* sum may be negative, when pays that were refunded after their fee was      *)
(* collected prevail.                                                         *)
feePruneCommit(e) ==
  /\ bal' = [bal EXCEPT ![e.account] = e.bal + Sum(e.batch)]
  /\ feeCursor' = EndTime(e.batch)
  /\ PutBalanceLogs({Log(e.account, e.ts, Sum(e.batch), 0)})
  /\ prunedFees' = prunedFees \cup e.batch
  /\ UNCHANGED <<txVars, token, account, pending, contracts, fees>>

(* Fabric's check of read sets: the token, the target account and its balance,*)
(* and the last pruned fee id; fee documents never change.                    *)
FeeSurvivorsOfWrites ==   \* mutation of FeeSurvivors: the balance is not read
  {e \in endorsedFees :
     /\ token' = token /\ feeCursor' = feeCursor
     /\ account'[e.account] = account[e.account]
     /\ now' - e.at <= Latency}
FeeSurvivorsOfUpdates ==   \* mutation of FeeSurvivors: the token is not read
  {e \in endorsedFees :
     /\ feeCursor' = feeCursor
     /\ account'[e.account] = account[e.account] /\ bal'[e.account] = bal[e.account]
     /\ now' - e.at <= Latency}
FeeSurvivors ==
  {e \in endorsedFees :
     /\ token' = token /\ feeCursor' = feeCursor
     /\ account'[e.account] = account[e.account] /\ bal'[e.account] = bal[e.account]
     /\ now' - e.at <= Latency}

-----------------------------------------------------------------------------

(* What ten_minutes_flag is for: no fee gets behind the last pruned one by    *)
(* being committed late, but one that shared its timestamp.                   *)
NoFeePassedOver ==
  [][\A f \in fees' \ prunedFees' :
       f.ts < feeCursor' => f \in fees /\ f.ts <= feeCursor]_<<fees, feeVars>>

(* A prune credits, or debits, the account that is the target when it         *)
(* commits, although it was endorsed earlier: no former target collects.      *)
OnlyTargetCollects ==
  [][prunedFees' # prunedFees =>
       \A a \in Addr \ {token.policy.target} : bal'[a] = bal[a]]_<<bal, feeVars>>
=============================================================================

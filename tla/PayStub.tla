------------------------------ MODULE PayStub ------------------------------
(* pay.go, pay_stub.go: pays are documents of their own, which the merchant   *)
(* collects into its balance later.  A refund is a pay of a negative amount.  *)
EXTENDS BalanceStub, Prune

CONSTANTS PaysPruneSize   \* pays collected at once, 900 in the code

VARIABLES
  pays,        \* PAY_: the pay documents
  payCursor    \* the time in Balance.LastPrunedPayID, 0 before the first prune

(* PayID is the timestamp followed by the transaction id tx.  parent is the   *)
(* tx of the pay a refund belongs to, 0 for a pay.                            *)
Pay(tx, merchant, amount, fee, rid, parent, ts) ==
  [tx |-> tx, merchant |-> merchant, amount |-> amount, fee |-> fee, refunded |-> 0,
   rid |-> rid, parent |-> parent, ts |-> ts]

(* Pay: the sender's balance pays, the merchant's is not touched.             *)
PayNow(tx, sender, receiver, amount, fee, ts) ==
  /\ pays' = pays \cup {Pay(tx, receiver, amount, fee, sender, 0, ts)}
  /\ bal' = [bal EXCEPT ![sender] = @ - amount]
  /\ PutBalanceLogs({Log(sender, ts, -amount, 0)})
  /\ UNCHANGED pending

(* Refund: the customer is credited at once, the merchant's next prune will   *)
(* be short of amount - fee.                                                  *)
RefundUnsigned(tx, parent, amount, fee, ts) ==   \* mutation of Refund
  /\ pays' = (pays \ {parent}) \cup
       {[parent EXCEPT !.refunded = @ + amount],
        Pay(tx, parent.merchant, amount, fee, parent.rid, parent.tx, ts)}
  /\ bal' = [bal EXCEPT ![parent.rid] = @ + amount]
  /\ PutBalanceLogs({Log(parent.rid, ts, amount, 0)})
  /\ UNCHANGED pending

Refund(tx, parent, amount, fee, ts) ==
  /\ pays' = (pays \ {parent}) \cup
       {[parent EXCEPT !.refunded = @ + amount],
        Pay(tx, parent.merchant, -amount, -fee, parent.rid, parent.tx, ts)}
  /\ bal' = [bal EXCEPT ![parent.rid] = @ + amount]
  /\ PutBalanceLogs({Log(parent.rid, ts, amount, 0)})
  /\ UNCHANGED pending

(* PayPendingBalance: the deposit turns into a pay.  The log it returns is    *)
(* not stored.                                                                *)
PayPendingBalance(tx, pb, fee, merchant, ts) ==
  /\ pays' = pays \cup {Pay(tx, merchant, pb.amount, fee, pb.account, 0, ts)}
  /\ pending' = pending \ {pb}
  /\ UNCHANGED <<bal, blog>>

(* The query for the pays of a merchant, and what GetPaySumByTime makes of it.*)
QueryPrunePays(merchant, stime, etime) ==
  {p \in pays : p.merchant = merchant /\ InRange(p, stime, etime)}

PayBatches(merchant, stime, etime) ==
  Batches(QueryPrunePays(merchant, stime, etime), PaysPruneSize)

FeeSum(batch) == SumFunction([p \in batch |-> p.fee])
=============================================================================

------------------------------- MODULE PayTx -------------------------------
(* pay_tx.go: pays, refunds and the prune that collects them.                 *)
EXTENDS TransferTx, PayStub

VARIABLES
  endorsed,     \* prunes endorsed but not yet committed
  prunedPays    \* history: the tx of every pay a prune has added up

payVars == <<pays, payCursor, prunedPays>>

(* Contract document of a pay: pending balance, sender, receiver.             *)
PayDoc(pb, sender, receiver) == [pb |-> pb, sender |-> sender, receiver |-> receiver]

(* pay.  The balance must cover the amount; the fee is the merchant's and is  *)
(* taken when it prunes.  With several signers it is not even known yet.      *)
pay(kid, sender, receiver, amount, duration, ts) ==
  LET signers == Signers(kid, sender, {})
  IN /\ sender # receiver
     /\ HasHolder(sender, kid)
     /\ Active(sender)
     /\ Active(receiver)
     /\ Covers(sender, amount)
     /\ UseTxID
     /\ \/ /\ Cardinality(signers) > 1
           /\ Cardinality(signers) <= MaxSigners
           /\ CreateContract(nextTx, "pay", PayDoc(nextTx, sender, receiver),
                             ts + duration, signers)
           /\ Deposit(nextTx, sender, nextTx, ts + duration, amount, 0, ts)
           /\ UNCHANGED pays
        \/ /\ Cardinality(signers) <= 1
           /\ PayNow(nextTx, sender, receiver, amount, CalcFee(receiver, "pay", amount), ts)
           /\ UNCHANGED contracts
     /\ UNCHANGED <<now, token, account, fees, payCursor, prunedPays>>

(* executePay, the execute callback: the fee is the one of the policy now.    *)
ExecutePayAsDeposited(c, ts) ==   \* mutation of executePay: the fee of the proposal
  /\ UseTxID
  /\ \E pb \in pending :
       /\ IsPendingOf(pb, c)
       /\ PayPendingBalance(nextTx, pb, pb.fee, c.doc.receiver, ts)
  /\ CloseContract(c, "executed")
  /\ UNCHANGED <<now, token, account, fees, payCursor, prunedPays>>

executePay(c, ts) ==
  /\ UseTxID
  /\ \E pb \in pending :
       /\ IsPendingOf(pb, c)
       /\ PayPendingBalance(nextTx, pb, CalcFee(c.doc.receiver, "pay", pb.amount),
                            c.doc.receiver, ts)
  /\ CloseContract(c, "executed")
  /\ UNCHANGED <<now, token, account, fees, payCursor, prunedPays>>

(* The fee a refund returns: all of it with the whole amount, else its share  *)
(* rounded down.                                                              *)
RefundFeeUp(parent, amount) == -MulRat(-amount, parent.fee, parent.amount)   \* mutation
RefundFee(parent, amount) ==
  IF amount = parent.amount THEN parent.fee ELSE MulRat(amount, parent.fee, parent.amount)

(* pay/refund, invoked by a holder of the merchant's account.                 *)
payRefund(kid, parent, amount, ts) ==
  /\ parent.merchant # parent.rid
  /\ parent.refunded + amount <= parent.amount
  /\ HasHolder(parent.merchant, kid)
  /\ Active(parent.merchant)
  /\ Active(parent.rid)
  /\ UseTxID
  /\ Refund(nextTx, parent, amount, RefundFee(parent, amount), ts)
  /\ UNCHANGED <<now, token, account, fees, contracts, payCursor, prunedPays>>

(* pay/prune is endorsed on one state, where it runs its query, and committed *)
(* on a later one.  Pays that appear in between are not in its read set.  The *)
(* balance it will write is computed from bal, the one it has read.  Its id   *)
(* is used by the fee document, if there is one.                              *)
payPrune(kid, a, safely, end, ts) ==
  /\ ts \in (now - Skew)..(now + Skew)
  /\ HasHolder(a, kid)
  /\ Active(a)
  /\ ~\E l \in blog : l.addr = a /\ l.ts = ts
  /\ \E batch \in PayBatches(a, payCursor[a], PruneEnd(safely, end, ts)) :
       /\ batch # {}
       /\ IF FeeSum(batch) = 0 THEN UNCHANGED nextTx ELSE UseTxID
       /\ endorsed' = endorsed \cup
            {[account |-> a, ts |-> ts, tx |-> nextTx, at |-> now, bal |-> bal[a],
              batch |-> batch]}
  /\ UNCHANGED <<now, token, account, fees, balanceVars, contracts, pays, payCursor, prunedPays>>

PayCursorToTimestamp(e) ==   \* mutation of payPruneCommit
  LET applied == Sum(e.batch) - FeeSum(e.batch)
  IN /\ bal' = [bal EXCEPT ![e.account] = e.bal + applied]
     /\ payCursor' = [payCursor EXCEPT ![e.account] = e.ts]
     /\ CreateFee(e.account, FeeSum(e.batch), e.ts, e.tx)
     /\ PutBalanceLogs({Log(e.account, e.ts, applied, 0)})
     /\ prunedPays' = prunedPays \cup {p.tx : p \in e.batch}
     /\ UNCHANGED <<txVars, token, account, pending, contracts, pays>>

(* Its writes, applied at the commit, whatever the balance is by then.  The   *)
(* merchant's fee becomes a fee document, negative if refunds prevail.        *)
payPruneCommit(e) ==
  LET applied == Sum(e.batch) - FeeSum(e.batch)
  IN /\ bal' = [bal EXCEPT ![e.account] = e.bal + applied]
     /\ payCursor' = [payCursor EXCEPT ![e.account] = EndTime(e.batch)]
     /\ CreateFee(e.account, FeeSum(e.batch), e.ts, e.tx)
     /\ PutBalanceLogs({Log(e.account, e.ts, applied, 0)})
     /\ prunedPays' = prunedPays \cup {p.tx : p \in e.batch}
     /\ UNCHANGED <<txVars, token, account, pending, contracts, pays>>

(* Fabric's check of read sets: an endorsed prune survives a step that writes *)
(* none of the documents it has read, the account, its balance and the pays   *)
(* it found, and is lost when Latency is over.                                *)
UnexpiredEndorsements == {e \in endorsed : now' - e.at <= Latency}   \* mutation of Survivors
SurvivorsOfWrites ==   \* mutation of Survivors: the balance is not read
  {e \in endorsed :
     /\ account'[e.account] = account[e.account] /\ payCursor'[e.account] = payCursor[e.account]
     /\ e.batch \subseteq pays'
     /\ now' - e.at <= Latency}
SurvivorsOfSuspensions ==   \* mutation of Survivors: the account is not read
  {e \in endorsed :
     /\ bal'[e.account] = bal[e.account] /\ payCursor'[e.account] = payCursor[e.account]
     /\ e.batch \subseteq pays'
     /\ now' - e.at <= Latency}
Survivors ==
  {e \in endorsed :
     /\ account'[e.account] = account[e.account]
     /\ bal'[e.account] = bal[e.account] /\ payCursor'[e.account] = payCursor[e.account]
     /\ e.batch \subseteq pays'
     /\ now' - e.at <= Latency}

Uncollected == {p \in pays : p.tx \notin prunedPays}

-----------------------------------------------------------------------------

(* What ten_minutes_flag is for: although timestamps differ from the peers'   *)
(* time by Skew in both directions, no pay gets behind the last pruned one,   *)
(* where no later prune looks for it, by being committed late.  The exception *)
(* is a pay that already shared the timestamp of the last pruned one.         *)
NoPayPassedOver ==
  [][\A p \in pays' :
       p.tx \notin prunedPays' /\ p.ts < payCursor'[p.merchant] =>
         p.ts <= payCursor[p.merchant] /\ \E q \in pays : q.tx = p.tx]_payVars
=============================================================================

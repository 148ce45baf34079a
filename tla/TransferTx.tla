----------------------------- MODULE TransferTx -----------------------------
(* transfer_tx.go: transfers, instant or multi-signature, and the callbacks   *)
(* of the multi-signature ones.                                               *)
EXTENDS TxContext, BalanceStub

(* An order id is free text chosen by the vendor.  All that the code tells    *)
(* apart is whether it is empty, the decimal digits of a number, or neither.  *)
OrderID == [kind : {"empty", "number", "text"}, secs : Nat]
Zero == [kind |-> "number", secs |-> 0]

(* The contract document: pending balance id, sender, receiver, order id and  *)
(* pending time, elements 1, 2, 3, 7 and 8 of the array.  The last one is     *)
(* named after its place; asked is the pending time the invoker asked for,    *)
(* which the code does not store and only properties read.                    *)
TransferDoc(pb, sender, receiver, orderID, last, asked) ==
  [pb |-> pb, sender |-> sender, receiver |-> receiver,
   orderID |-> orderID, last |-> last, asked |-> asked]

Signers(kid, sender, extra) ==
  {kid} \cup (IF sender \in Joint THEN account[sender].holders ELSE {}) \cup SignableIDs(extra)

(* The transfer handler.  asked is the pending time parameter, 0 if absent,   *)
(* and duration the expiry parameter.  A single signer transfers at once; a   *)
(* second one, a co-holder or an extra signer, makes it a contract.           *)
transfer(kid, sender, receiver, amount, orderID, asked, duration, extra, ts) ==
  LET fee == CalcFee(sender, "transfer", amount)
      pendingTime == IF asked > ts THEN asked ELSE 0
      last == IF pendingTime # 0 THEN orderID ELSE Zero
      signers == Signers(kid, sender, extra)
      doc == TransferDoc(nextTx, sender, receiver, orderID, last, pendingTime)
  IN /\ sender # receiver
     /\ HasHolder(sender, kid)
     /\ Active(sender)
     /\ Active(receiver)
     /\ Covers(sender, amount + fee)
     /\ \A a \in extra : AccountExists(a)
     /\ UseTxID
     /\ \/ /\ Cardinality(signers) > 1
           /\ Cardinality(signers) <= MaxSigners
           /\ CreateContract(nextTx, "transfer", doc, ts + duration, signers)
           /\ Deposit(nextTx, sender, nextTx, ts + duration, amount, fee, ts)
           /\ UNCHANGED fees
        \/ /\ Cardinality(signers) <= 1
           /\ Transfer(nextTx, sender, receiver, amount, fee, pendingTime, ts)
           /\ UNCHANGED contracts
     /\ UNCHANGED <<now, token, account>>

(* The pending balance a callback of contract c is about.                     *)
IsPendingOf(pb, c) == pb.id = c.doc.pb /\ pb.type = "contract" /\ pb.rid = c.id

(* cancelTransfer, the cancel callback of transfers, pays and wraps.          *)
cancelTransfer(c, ts) ==
  /\ \E pb \in pending : IsPendingOf(pb, c) /\ Withdraw(pb, ts)
  /\ CloseContract(c, "canceled")
  /\ UNCHANGED <<txVars, token, account, fees>>

(* executeTransfer, the execute callback.  It takes the time lock from        *)
(* element 7 of the document, the order id: no lock if it is empty or "0", a  *)
(* failure if it is not a number.  It looks at no account.                    *)
executeTransfer(c, ts) ==
  /\ c.doc.orderID.kind # "text"
  /\ UseTxID
  /\ \E pb \in pending :
       /\ IsPendingOf(pb, c)
       /\ LET lock == IF c.doc.orderID.kind = "number" THEN c.doc.orderID.secs ELSE 0
          IN TransferPendingBalance(nextTx, pb, c.doc.sender, c.doc.receiver, lock, ts)
  /\ CloseContract(c, "executed")
  /\ UNCHANGED <<now, token, account>>

(* balance/pending/withdraw (balance_tx.go).                                  *)
balancePendingWithdraw(kid, pb, ts) ==
  /\ BalancePendingWithdraw(kid, pb, ts)
  /\ UNCHANGED <<txVars, token, account, contracts, fees>>
=============================================================================

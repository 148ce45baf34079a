---------------------------- MODULE BalanceStub ----------------------------
(* balance.go, balance_stub.go: balances, pending balances and balance logs.  *)
(* An operation updates the balance documents, writes one log per balance it  *)
(* touches and creates or deletes the pending balance it is about, all at the *)
(* timestamp ts of its transaction.                                           *)
EXTENDS FeeStub, AccountStub, Contract, Functions

VARIABLES
  bal,       \* BLC_: Balance.Amount by address
  pending,   \* PBLC_: the pending balance documents
  blog       \* BLOG_: the balance logs

balanceVars == <<bal, pending, blog>>

(* A pending balance of type "account" waits for its time, one of type        *)
(* "contract" for the outcome of the contract rid; account is its owner.  A   *)
(* nil fee is a zero fee: every use adds it or passes it to CreateFee.        *)
Pending(id, type, owner, rid, amount, fee, time) ==
  [id |-> id, type |-> type, account |-> owner, rid |-> rid,
   amount |-> amount, fee |-> fee, time |-> time]

Log(a, ts, diff, fee) == [addr |-> a, ts |-> ts, diff |-> diff, fee |-> fee]

(* The check handlers make before they take an amount from a balance.         *)
CoversAny(a, amount) == bal[a] > 0   \* mutation of Covers
Covers(a, amount) == bal[a] >= amount

(* PutBalanceLog: the key of a log is its address and timestamp, and a key in *)
(* use fails the transaction.                                                 *)
OverwriteBalanceLogs(logs) ==   \* mutation of PutBalanceLogs
  blog' = {old \in blog : \A l \in logs : old.addr # l.addr \/ old.ts # l.ts} \cup logs

PutBalanceLogs(logs) ==
  /\ \A l \in logs : ~\E old \in blog : old.addr = l.addr /\ old.ts = l.ts
  /\ blog' = blog \cup logs

(* Supply: mint (amount > 0) and burn (amount < 0).                           *)
Supply(a, amount, ts) ==
  /\ bal' = [bal EXCEPT ![a] = @ + amount]
  /\ PutBalanceLogs({Log(a, ts, amount, 0)})
  /\ UNCHANGED pending

(* Transfer: the amount goes to the receiver, or under a time lock in the     *)
(* future to a pending balance the receiver owns, named by transaction tx.    *)
Transfer(tx, sender, receiver, amount, fee, lock, ts) ==
  /\ \/ /\ lock > ts
        /\ pending' = pending \cup {Pending(tx, "account", receiver, sender, amount, 0, lock)}
        /\ bal' = [bal EXCEPT ![sender] = @ - amount - fee]
        /\ PutBalanceLogs({Log(sender, ts, -amount, fee)})
     \/ /\ lock <= ts
        /\ bal' = [bal EXCEPT ![receiver] = @ + amount, ![sender] = @ - amount - fee]
        /\ PutBalanceLogs({Log(receiver, ts, amount, 0), Log(sender, ts, -amount, fee)})
        /\ UNCHANGED pending
  /\ CreateFee(sender, fee, ts, tx)

(* TransferPendingBalance: the same for an amount the sender has deposited;   *)
(* the fee was deposited with it.                                             *)
TransferPendingFreely(tx, pb, sender, receiver, lock, ts) ==   \* mutation: the fee is lost
  /\ lock <= ts
  /\ pending' = pending \ {pb}
  /\ bal' = [bal EXCEPT ![receiver] = @ + pb.amount]
  /\ PutBalanceLogs({Log(receiver, ts, pb.amount, 0)})
  /\ UNCHANGED fees

TransferPendingBalance(tx, pb, sender, receiver, lock, ts) ==
  /\ \/ /\ lock > ts
        /\ pending' = (pending \ {pb}) \cup
             {Pending(tx, "account", receiver, sender, pb.amount, 0, lock)}
        /\ UNCHANGED <<bal, blog>>
     \/ /\ lock <= ts
        /\ pending' = pending \ {pb}
        /\ bal' = [bal EXCEPT ![receiver] = @ + pb.amount]
        /\ PutBalanceLogs({Log(receiver, ts, pb.amount, 0)})
  /\ CreateFee(pb.account, pb.fee, ts, tx)

(* Deposit: amount and fee leave the sender for a pending balance that waits  *)
(* for contract cid, or for its expiry.                                       *)
Deposit(tx, sender, cid, expiry, amount, fee, ts) ==
  /\ pending' = pending \cup {Pending(tx, "contract", sender, cid, amount, fee, expiry)}
  /\ bal' = [bal EXCEPT ![sender] = @ - (amount + fee)]
  /\ PutBalanceLogs({Log(sender, ts, -amount, fee)})

(* Withdraw: amount and fee of a pending balance go to its owner.             *)
WithdrawKeeping(pb, ts) ==   \* mutation of Withdraw: the document is not deleted
  /\ bal' = [bal EXCEPT ![pb.account] = @ + pb.amount + pb.fee]
  /\ PutBalanceLogs({Log(pb.account, ts, pb.amount + pb.fee, 0)})
  /\ UNCHANGED pending

WithdrawWithoutFee(pb, ts) ==   \* mutation of Withdraw
  /\ bal' = [bal EXCEPT ![pb.account] = @ + pb.amount]
  /\ PutBalanceLogs({Log(pb.account, ts, pb.amount, 0)})
  /\ pending' = pending \ {pb}

Withdraw(pb, ts) ==
  /\ bal' = [bal EXCEPT ![pb.account] = @ + pb.amount + pb.fee]
  /\ PutBalanceLogs({Log(pb.account, ts, pb.amount + pb.fee, 0)})
  /\ pending' = pending \ {pb}

(* balance/pending/withdraw: once its time has come, a holder of the owning   *)
(* account takes the pending balance, whatever its type.                      *)
WithdrawAnyTime(kid, pb, ts) ==   \* mutation of BalancePendingWithdraw
  /\ HasHolder(pb.account, kid)
  /\ Active(pb.account)
  /\ Withdraw(pb, ts)

WithdrawNoDeposit(kid, pb, ts) ==   \* mutation of BalancePendingWithdraw
  /\ pb.time <= ts /\ pb.type = "account"
  /\ HasHolder(pb.account, kid)
  /\ Active(pb.account)
  /\ Withdraw(pb, ts)

BalancePendingWithdraw(kid, pb, ts) ==
  /\ pb.time <= ts
  /\ HasHolder(pb.account, kid)
  /\ Active(pb.account)
  /\ Withdraw(pb, ts)

-----------------------------------------------------------------------------
LogsOf(a) == {l \in blog : l.addr = a}

(* The logs of an account explain its balance: PutBalanceLog loses none,      *)
(* whichever handlers touched it at whatever timestamps.                      *)
AuditTrail ==
  \A a \in Addr : bal[a] = SumFunction([l \in LogsOf(a) |-> l.diff - l.fee])
=============================================================================

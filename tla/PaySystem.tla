----------------------------- MODULE PaySystem -----------------------------
(* Pays, refunds and prunes of one or more merchants, with the callbacks of   *)
(* multi-signature pays and fee policies that change.                         *)
EXTENDS PayTx, Ledger

CONSTANTS
  (* bounds of the model: the parameters requests are sent with               *)
  Merchants, Amounts, Durations, Metas, PruneFlags, EndTimes

ASSUME SystemAssumption ==
  /\ Safe \in Nat /\ PaysPruneSize \in Nat \ {0}
  /\ Merchants \subseteq Addr
  /\ Amounts \subseteq Nat \ {0}
  /\ Durations \subseteq Nat
  /\ Metas \subseteq TokenMeta
  /\ PruneFlags \subseteq BOOLEAN
  /\ EndTimes \subseteq Nat

vars == <<txVars, token, account, fees, balanceVars, contracts, payVars, endorsed>>

Init ==
  /\ LedgerInit
  /\ pays = {} /\ payCursor = [a \in Addr |-> 0] /\ prunedPays = {}
  /\ endorsed = {}

PayStep ==
  \E kid \in Kid, sender \in Addr, receiver \in Merchants, amount \in Amounts,
     duration \in Durations, ts \in Timestamps :
    pay(kid, sender, receiver, amount, duration, ts)

CancelStep ==
  \E c \in contracts, ts \in Timestamps :
    OpenContract(c) /\ cancelTransfer(c, ts) /\ UNCHANGED payVars

ExecuteStep ==
  \E c \in contracts, ts \in Timestamps : OpenContract(c) /\ executePay(c, ts)

WithdrawStep ==
  \E kid \in Kid, pb \in pending, ts \in Timestamps :
    balancePendingWithdraw(kid, pb, ts) /\ UNCHANGED payVars

RefundStep ==
  \E kid \in Kid, parent \in pays, amount \in Amounts, ts \in Timestamps :
    payRefund(kid, parent, amount, ts)

PruneStep ==
  \E kid \in Kid, a \in Merchants, safely \in PruneFlags, end \in EndTimes, ts \in Timestamps :
    payPrune(kid, a, safely, end, ts)

CommitStep == \E e \in endorsed : payPruneCommit(e)

UpdateStep ==
  \E meta \in Metas :
    tokenUpdate(meta) /\ UNCHANGED <<txVars, account, fees, balanceVars, contracts, payVars>>

TickStep ==
  Tick /\ UNCHANGED <<nextTx, token, account, fees, balanceVars, contracts, payVars>>

(* A committed step, after which only the surviving endorsements can commit.  *)
Commit ==
  PayStep \/ CancelStep \/ ExecuteStep \/ WithdrawStep \/ RefundStep \/ CommitStep
  \/ UpdateStep \/ TickStep

Next == PruneStep \/ (Commit /\ endorsed' = Survivors)

Spec == Init /\ [][Next]_vars

-----------------------------------------------------------------------------
(* Types.                                                                     *)

PendingBalance ==
  [id : Nat, type : {"contract"}, account : Addr, rid : Nat,
   amount : Nat \ {0}, fee : {0}, time : Nat]
PayContract ==
  [id : Nat, type : {"pay"}, doc : [pb : Nat, sender : Addr, receiver : Addr],
   expiry : Nat, status : {"open", "executed", "canceled"}]
PayRecord ==
  [tx : Nat, merchant : Addr, amount : Int \ {0}, fee : Int, refunded : Nat,
   rid : Addr, parent : Nat, ts : Nat]
Endorsement ==
  [account : Addr, ts : Nat, tx : Nat, at : Nat, bal : Int, batch : SUBSET PayRecord]

(* Every document keeps its form: pays carry positive, refunds negative       *)
(* amounts, and no one pays a fee on a deposit for a pay.                     *)
TypeOK ==
  /\ now \in Nat /\ now >= StartTime /\ nextTx \in Nat \ {0}
  /\ token \in Token
  /\ account \in [Addr -> Account]
  /\ bal \in [Addr -> Int]
  /\ pending \subseteq PendingBalance
  /\ blog \subseteq [addr : Addr, ts : Nat, diff : Int, fee : {0}]
  /\ fees \subseteq [account : Addr, amount : Int \ {0}, ts : Nat, tx : Nat]
  /\ contracts \subseteq PayContract
  /\ pays \subseteq PayRecord
  /\ \A p \in pays : p.parent = 0 <=> p.amount > 0
  /\ payCursor \in [Addr -> Nat]
  /\ prunedPays \subseteq Nat
  /\ endorsed \subseteq Endorsement

-----------------------------------------------------------------------------
(* Safety.                                                                    *)

(* A pay is never refunded beyond its amount, nor its fee returned beyond the *)
(* fee, however the amount is split; refunds themselves are not refunded.     *)
RefundsWithinPay ==
  \A p \in pays :
    LET refunds == {r \in pays : r.parent = p.tx}
    IN /\ p.parent = 0 => p.refunded = -Sum(refunds) /\ p.refunded <= p.amount
                          /\ -FeeSum(refunds) <= p.fee
       /\ p.parent # 0 => p.refunded = 0 /\ refunds = {}

(* What the policy of now charges a merchant for a pay: nothing, or else the  *)
(* largest whole number that neither its rate nor its limit is below, if that *)
(* is positive.                                                               *)
FeeDue(fee, merchant, amount) ==
  LET policy == token.policy
      rate == policy.rates["pay"]
      free == ~policy.installed \/ merchant \in {token.genesis, policy.target}
      limited == rate.max > 0
  IN IF free THEN fee = 0
     ELSE /\ fee >= 0
          /\ limited => fee <= rate.max
          /\ fee > 0 => fee * rate.den <= amount * rate.num
          /\ (fee + 1) * rate.den <= amount * rate.num => limited /\ fee = rate.max

(* A pay owes the fee of the policy in force when it is made, also if several *)
(* signers agreed to it under another policy, or before its merchant became   *)
(* the target; and it keeps that fee, whatever is refunded, pruned or updated *)
(* later.                                                                     *)
FeeOfPolicyInForce ==
  [][\A p \in pays' : p.parent = 0 =>
       \/ \E q \in pays : q.tx = p.tx /\ q.fee = p.fee
       \/ (\A q \in pays : q.tx # p.tx) /\ FeeDue(p.fee, p.merchant, p.amount)]_vars

(* Only its own prune takes a merchant's balance below zero: everyone else's  *)
(* operations find the money they take.                                       *)
OnlyPruneOverdraws ==
  [][\A a \in Addr : bal'[a] < bal[a] /\ bal'[a] < 0 => payCursor'[a] # payCursor[a]]_vars

(* Wealth is the balance, what waits for a contract, and what the pays not    *)
(* yet collected will bring; the fees in those count as paid.                 *)
Wealth ==
  [a \in Addr |-> LET owed == {p \in Uncollected : p.merchant = a}
                  IN bal[a] + Sum({pb \in pending : pb.account = a}) + Sum(owed) - FeeSum(owed)]

Sales ==
  {[id |-> p.tx, buyer |-> p.rid, seller |-> p.merchant, amount |-> p.amount, fee |-> p.fee,
    left |-> p.amount - p.refunded,
    feeLeft |-> p.fee + FeeSum({r \in pays : r.parent = p.tx})] :
      p \in {q \in pays : q.parent = 0}}

Ideal == INSTANCE IdealPay WITH
  Owner <- Addr, InitialWealth <- InitialBalances,
  wealth <- Wealth, sales <- Sales, collected <- Sum(fees) + FeeSum(Uncollected)

(* Pays, deposited or not, their refunds and the prunes that collect them     *)
(* implement the sales of IdealPay: money is neither made nor lost, a prune,  *)
(* a withdrawal and a cancellation move nothing, each pay is counted once,    *)
(* also when prunes are endorsed on the same state, and refunds stay within   *)
(* the pay and its fee however the amount is split.                           *)
ImplementsIdeal == Ideal!IdealSpec

(* A prune that has_more leaves the rest of the pays of the given period to   *)
(* the next one.                                                              *)
EveryPayCollectable == \A p \in Uncollected : p.ts > payCursor[p.merchant]
=============================================================================

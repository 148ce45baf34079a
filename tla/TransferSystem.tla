--------------------------- MODULE TransferSystem ---------------------------
(* Transfers, their pending balances and contracts, while the clock moves,    *)
(* accounts are suspended and unsuspended and the fee policy changes.         *)
EXTENDS TransferTx, Ledger, FiniteSetsExt

CONSTANTS
  (* bounds of the model: the parameters requests are sent with               *)
  Amounts, OrderIDs, PendingTimes, Durations, Extras, Metas

ASSUME SystemAssumption ==
  /\ Amounts \subseteq Nat \ {0}
  /\ OrderIDs \subseteq OrderID
  /\ PendingTimes \subseteq Nat
  /\ Durations \subseteq Nat
  /\ Extras \subseteq SUBSET Addr
  /\ Metas \subseteq TokenMeta

vars == <<txVars, token, account, fees, balanceVars, contracts>>

Init == LedgerInit

TransferStep ==
  \E kid \in Kid, sender, receiver \in Addr, amount \in Amounts, orderID \in OrderIDs,
     asked \in PendingTimes, duration \in Durations, extra \in Extras, ts \in Timestamps :
    transfer(kid, sender, receiver, amount, orderID, asked, duration, extra, ts)

CancelStep ==
  \E c \in contracts, ts \in Timestamps : OpenContract(c) /\ cancelTransfer(c, ts)

ExecuteStep ==
  \E c \in contracts, ts \in Timestamps : OpenContract(c) /\ executeTransfer(c, ts)

WithdrawStep(kid) ==
  \E pb \in pending, ts \in Timestamps : balancePendingWithdraw(kid, pb, ts)

SuspendStep ==
  \E kid \in Kid : accountSuspend(kid)
                   /\ UNCHANGED <<txVars, token, fees, balanceVars, contracts>>

UnsuspendStep(kid) ==
  accountUnsuspend(kid) /\ UNCHANGED <<txVars, token, fees, balanceVars, contracts>>

UpdateStep ==
  \E meta \in Metas : tokenUpdate(meta)
                      /\ UNCHANGED <<txVars, account, fees, balanceVars, contracts>>

TickStep == Tick /\ UNCHANGED <<nextTx, token, account, fees, balanceVars, contracts>>

Next ==
  \/ TransferStep
  \/ CancelStep
  \/ ExecuteStep
  \/ \E kid \in Kid : WithdrawStep(kid)
  \/ SuspendStep
  \/ \E kid \in Kid : UnsuspendStep(kid)
  \/ UpdateStep
  \/ TickStep

Spec == Init /\ [][Next]_vars
-----------------------------------------------------------------------------
(* Types.  An amount set aside is positive, a fee is not negative.            *)

PendingBalance ==
  [id : Nat, type : {"account", "contract"}, account : Addr, rid : Addr \cup Nat,
   amount : Nat \ {0}, fee : Nat, time : Nat]
TransferDocs ==
  [pb : Nat, sender : Addr, receiver : Addr, orderID : OrderID, last : OrderID, asked : Nat]
TransferContract ==
  [id : Nat, type : {"transfer"}, doc : TransferDocs, expiry : Nat,
   status : {"open", "executed", "canceled"}]

BalanceLog == [addr : Addr, ts : Nat, diff : Int, fee : Nat]
FeeDoc == [account : Addr, amount : Nat \ {0}, ts : Nat, tx : Nat]

(* Every document keeps the form the code gives it; amounts set aside in      *)
(* PendingBalance stay positive and fees non-negative whatever the policy.    *)
TypeOK ==
  /\ now \in Nat /\ now >= StartTime /\ nextTx \in Nat \ {0}
  /\ token \in Token
  /\ account \in [Addr -> Account]
  /\ bal \in [Addr -> Int]
  /\ pending \subseteq PendingBalance
  /\ blog \subseteq BalanceLog
  /\ fees \subseteq FeeDoc
  /\ contracts \subseteq TransferContract

-----------------------------------------------------------------------------
(* Safety.                                                                    *)

(* No transfer, deposit or execution overdraws an account, though the balance *)
(* is checked when the transfer is proposed and the policy, the signers and   *)
(* the other transfers of the account change until it is executed.            *)
NonNegative == \A a \in Addr : bal[a] >= 0

(* The deposit of Deposit and the contract it waits for belong to each other: *)
(* a deposit is there exactly while its contract can still be executed or     *)
(* canceled, except that from the expiry time on the owner may have taken it  *)
(* back with balance/pending/withdraw.                                        *)
EscrowMatchesContract ==
  /\ \A pb \in pending : pb.type = "contract" =>
       \E c \in contracts : /\ c.status = "open"
                            /\ IsPendingOf(pb, c)
                            /\ c.doc.sender = pb.account
                            /\ c.expiry = pb.time
  /\ \A c \in contracts : c.status = "open" =>
       \/ \E pb \in pending : IsPendingOf(pb, c)
       \/ c.expiry <= now + Skew

(* A pending balance leaves before its time only through the callback of its  *)
(* contract: the time lock of Transfer binds the receiver, the expiry time of *)
(* Deposit binds the sender.                                                  *)
NoEarlyExit ==
  [][\A pb \in pending : pb \notin pending' /\ pb.time > now + Skew =>
       \E c \in contracts : IsPendingOf(pb, c) /\ c \notin contracts']_vars

(* Nothing takes money out of the balance of a suspended account, also not    *)
(* the callbacks, which do not look at suspension.                            *)
SuspendedKeepsBalance ==
  [][\A a \in Addr : IsSuspended(a) => bal'[a] >= bal[a]]_vars

-----------------------------------------------------------------------------
(* Safety in terms of sums.                                                   *)

PendingOf(a) == {pb \in pending : pb.account = a}
Applied(pbs) == SumFunction([pb \in pbs |-> pb.amount + pb.fee])
Collected == SumFunction([f \in fees |-> f.amount])

(* Money is neither made nor lost: balances, deposits with their fees, time   *)
(* locked amounts and fees not yet collected add up to the supply.            *)
Conservation ==
  SumFunction(bal) + Applied(pending) + Collected = token.supply

(* The wealth of an account is its balance and all pending balances it owns;  *)
(* a deposit is a promise to the receiver its contract names.                 *)
Wealth == [a \in Addr |-> bal[a] + Applied(PendingOf(a))]
Promises ==
  {[id |-> pb.id, from |-> pb.account, amount |-> pb.amount, fee |-> pb.fee,
    to |-> (CHOOSE c \in contracts : c.id = pb.rid).doc.receiver] :
      pb \in {p \in pending : p.type = "contract"}}

Ideal == INSTANCE IdealTransfer WITH
  Owner <- Addr, InitialWealth <- InitialBalances,
  wealth <- Wealth, promises <- Promises, collected <- Collected

(* Transfers with their deposits, callbacks and time locks implement the      *)
(* transfers of IdealTransfer.                                                *)
ImplementsIdeal == Ideal!IdealSpec

-----------------------------------------------------------------------------
(* Time locks of multi-signature transfers, as the comment over               *)
(* executeTransfer describes its document: element 8 is the pending time.     *)
(* Executing such a contract does not credit the receiver before that time.   *)
MultiSigLockHonoured ==
  [][\A c \in contracts :
       /\ c.status = "open" /\ [c EXCEPT !.status = "executed"] \in contracts'
       /\ c.doc.asked > now + Skew
       => bal'[c.doc.receiver] = bal[c.doc.receiver]]_vars

=============================================================================

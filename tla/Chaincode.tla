----------------------------- MODULE Chaincode -----------------------------
(* The chaincode as a whole: the operations of all components on one ledger.  *)
(* Accounts and their holders are fixed here, only suspension changes; that   *)
(* is the subject of AccountSystem.                                           *)
EXTENDS PayTx, FeeTx, WrapTx, IssueTx, Ledger

CONSTANTS
  (* bounds of the model: the requests clients send                           *)
  TransferRequests, PayRequests, WrapRequests, UnwrapRequests,
  RefundAmounts, BridgeFees, KntAmounts, Metas, Suspendable, PruneFlags, EndTimes,
  EarlierPays   \* pays a merchant has collected before

TransferRequest ==
  [kid : Kid, sender : Addr, receiver : Addr, amount : Nat \ {0}, orderID : OrderID,
   asked : Nat, duration : Nat, extra : SUBSET Addr]
PayRequest ==
  [kid : Kid, sender : Addr, receiver : Addr, amount : Nat \ {0}, duration : Nat]
WrapRequest ==
  [kid : Kid, sender : Addr, amount : Nat \ {0}, ext : ExtCode, duration : Nat,
   extra : SUBSET Addr]
UnwrapRequest ==
  [kid : Kid, receiver : Addr, amount : Nat \ {0}, ext : ExtCode, x : ExtTx]

(* Ids of earlier transactions are negative, their times zero, the value of a *)
(* cursor before the first prune.                                             *)
EarlierPay ==
  [tx : Int, merchant : Addr, amount : Nat \ {0}, fee : Nat, refunded : {0},
   rid : Addr, parent : {0}, ts : {0}]

ASSUME SystemAssumption ==
  /\ Safe \in Nat /\ PaysPruneSize \in Nat \ {0} /\ FeePruneSize \in Nat \ {0}
  /\ TransferRequests \subseteq TransferRequest
  /\ PayRequests \subseteq PayRequest
  /\ WrapRequests \subseteq WrapRequest
  /\ UnwrapRequests \subseteq UnwrapRequest
  /\ RefundAmounts \subseteq Nat \ {0} /\ BridgeFees \subseteq Nat /\ KntAmounts \subseteq Nat
  /\ Metas \subseteq TokenMeta
  /\ Suspendable \subseteq Kid
  /\ PruneFlags \subseteq BOOLEAN /\ EndTimes \subseteq Nat
  /\ EarlierPays \subseteq EarlierPay /\ IsFiniteSet(EarlierPays)
  /\ \A p \in EarlierPays : p.tx < 0 /\ p.merchant # p.rid
  /\ \A p, q \in EarlierPays : p.tx = q.tx => p = q

vars ==
  <<txVars, token, account, relations, fees, balanceVars, contracts,
    payVars, endorsed, feeVars, endorsedFees, wrapVars>>

(* Fees collected before are left out: no operation reads them again.         *)
Init ==
  /\ LedgerInit
  /\ relations = UNION {Relations(a, InitialHolders[a]) : a \in Addr}
  /\ pays = EarlierPays /\ prunedPays = {p.tx : p \in EarlierPays}
  /\ payCursor = [a \in Addr |-> 0] /\ endorsed = {}
  /\ feeCursor = 0 /\ prunedFees = {} /\ endorsedFees = {}
  /\ wraps = {} /\ unwraps = {}

-----------------------------------------------------------------------------
(* Requests of clients.                                                       *)

TransferStep ==
  \E r \in TransferRequests, ts \in Timestamps :
    /\ transfer(r.kid, r.sender, r.receiver, r.amount, r.orderID, r.asked, r.duration, r.extra, ts)
    /\ UNCHANGED <<relations, payVars, feeVars, wrapVars>>

PayStep ==
  \E r \in PayRequests, ts \in Timestamps :
    /\ pay(r.kid, r.sender, r.receiver, r.amount, r.duration, ts)
    /\ UNCHANGED <<relations, feeVars, wrapVars>>

RefundStep ==
  \E kid \in Kid, parent \in pays, amount \in RefundAmounts, ts \in Timestamps :
    payRefund(kid, parent, amount, ts) /\ UNCHANGED <<relations, feeVars, wrapVars>>

WrapStep ==
  \E r \in WrapRequests, ts \in Timestamps :
    /\ wrap(r.kid, r.sender, r.amount, r.ext, r.duration, r.extra, ts)
    /\ UNCHANGED <<relations, payVars, feeVars>>

CompleteStep ==
  \E kid \in Kid, w \in wraps, fee \in BridgeFees, done \in BOOLEAN, ts \in Timestamps :
    wrapComplete(kid, w, fee, done, ts) /\ UNCHANGED <<relations, payVars, feeVars>>

UnwrapStep ==
  \E r \in UnwrapRequests, ts \in Timestamps :
    /\ unwrap(r.kid, r.receiver, r.amount, r.ext, r.x, ts)
    /\ UNCHANGED <<relations, payVars, feeVars>>

WithdrawStep ==
  \E kid \in Kid, pb \in pending, ts \in Timestamps :
    /\ balancePendingWithdraw(kid, pb, ts)
    /\ UNCHANGED <<relations, payVars, feeVars, wrapVars>>

MintStep ==
  \E kid \in Kid, amount \in KntAmounts, ts \in Timestamps :
    tokenMint(kid, amount, ts) /\ UNCHANGED <<now, fees, payVars, feeVars, wrapVars>>

BurnStep ==
  \E kid \in Kid, amount \in KntAmounts, ts \in Timestamps :
    tokenBurn(kid, amount, ts) /\ UNCHANGED <<now, fees, payVars, feeVars, wrapVars>>

UpdateStep ==
  \E meta \in Metas :
    /\ tokenUpdate(meta)
    /\ UNCHANGED <<txVars, account, relations, fees, balanceVars, contracts>>
    /\ UNCHANGED <<payVars, feeVars, wrapVars>>

AccountUnchangedElsewhere ==
  UNCHANGED <<txVars, token, relations, fees, balanceVars, contracts, payVars, feeVars, wrapVars>>

SuspendStep == \E kid \in Suspendable : accountSuspend(kid) /\ AccountUnchangedElsewhere

UnsuspendStep(kid) == accountUnsuspend(kid) /\ AccountUnchangedElsewhere

TickStep ==
  /\ Tick
  /\ UNCHANGED <<nextTx, token, account, relations, fees, balanceVars, contracts>>
  /\ UNCHANGED <<payVars, feeVars, wrapVars>>

-----------------------------------------------------------------------------
(* Callbacks: the first element of the document, its type, picks the handler. *)

ExecuteStep ==
  \E c \in contracts, ts \in Timestamps :
    /\ OpenContract(c)
    /\ \/ /\ c.type = "transfer" /\ executeTransfer(c, ts)
          /\ UNCHANGED <<relations, payVars, feeVars, wrapVars>>
       \/ /\ c.type = "pay" /\ executePay(c, ts)
          /\ UNCHANGED <<relations, feeVars, wrapVars>>
       \/ /\ executeWrap(c, ts)
          /\ UNCHANGED <<relations, payVars, feeVars>>
       \/ /\ executeTokenMint(c, ts) \/ executeTokenBurn(c, ts)
          /\ UNCHANGED <<now, fees, payVars, feeVars, wrapVars>>

CancelStep ==
  \E c \in contracts, ts \in Timestamps :
    /\ OpenContract(c)
    /\ \/ /\ c.type \in {"transfer", "pay", "wrap"} /\ cancelTransfer(c, ts)
          /\ UNCHANGED relations
       \/ /\ c.type \in {"token/mint", "token/burn"} /\ contractVoid(c)
          /\ UNCHANGED <<now, token, pending, blog, fees>>
    /\ UNCHANGED <<payVars, feeVars, wrapVars>>

-----------------------------------------------------------------------------
(* Prunes, endorsed and committed.                                            *)

PayPruneStep ==
  \E kid \in Kid, a \in Addr, safely \in PruneFlags, end \in EndTimes, ts \in Timestamps :
    payPrune(kid, a, safely, end, ts) /\ UNCHANGED <<relations, feeVars, endorsedFees, wrapVars>>

FeePruneStep ==
  \E kid \in Kid, safely \in PruneFlags, end \in EndTimes, ts \in Timestamps :
    feePrune(kid, safely, end, ts) /\ UNCHANGED <<relations, payVars, endorsed, wrapVars>>

Committed == endorsed' = Survivors /\ endorsedFees' = FeeSurvivors

PayCommitStep ==
  \E e \in endorsed : payPruneCommit(e) /\ UNCHANGED <<relations, feeVars, wrapVars>> /\ Committed

FeeCommitStep ==
  \E e \in endorsedFees :
    feePruneCommit(e) /\ UNCHANGED <<relations, payVars, wrapVars>> /\ Committed

(* Requests and callbacks that commit drop the endorsements they invalidate.  *)
Request ==
  \/ TransferStep \/ PayStep \/ RefundStep
  \/ WrapStep \/ CompleteStep \/ UnwrapStep
  \/ WithdrawStep \/ MintStep \/ BurnStep \/ UpdateStep
  \/ SuspendStep \/ \E kid \in Suspendable : UnsuspendStep(kid)
  \/ ExecuteStep \/ CancelStep
  \/ TickStep

Next ==
  \/ Request /\ Committed
  \/ PayPruneStep \/ PayCommitStep
  \/ FeePruneStep \/ FeeCommitStep

Spec == Init /\ [][Next]_vars

-----------------------------------------------------------------------------
Total(docs) == SumFunction([d \in docs |-> d.amount])
Open == {w \in wraps : ~w.complete}
Contracted == {c \in contracts : c.type \in {"transfer", "pay", "wrap"}}

(* Documents of all components keep their form while they pass from one to    *)
(* the other: no zero fee, no empty or negative amount set aside, ids that    *)
(* name one document of their kind.                                           *)
TypeOK ==
  /\ token \in Token
  /\ account \in [Addr -> Account]
  /\ bal \in [Addr -> Int]
  /\ \A pb \in pending : pb.account \in Addr /\ pb.amount > 0 /\ pb.fee >= 0 /\ pb.id < nextTx
  /\ \A pb, qb \in pending : pb.id = qb.id => pb = qb
  /\ \A f \in fees : f.amount # 0 /\ f.tx < nextTx
  /\ \A p \in pays : (p.parent = 0 <=> p.amount > 0) /\ p.tx < nextTx
  /\ \A p, q \in pays : p.tx = q.tx => p = q
  /\ \A w \in wraps : w.amount > 0 /\ w.id < nextTx
  /\ \A v, w \in wraps : v.id = w.id => v = w
  /\ prunedFees \subseteq fees /\ prunedPays \subseteq {p.tx : p \in pays}

(* Money is neither made nor lost on its way through all components: it is in *)
(* a balance, set aside, in a fee or pay that no prune has counted, or in an  *)
(* open wrap, once, and all of that is the supply that mints and burns left.  *)
Conservation ==
  SumFunction(bal) + SumFunction([pb \in pending |-> pb.amount + pb.fee])
    + Total(fees \ prunedFees) + Total(Uncollected) + Total(Open)
    = token.supply

(* The three kinds of contracts share pending balances, cancel callback and   *)
(* balance/pending/withdraw: still a deposit is there exactly while its own   *)
(* contract is open, or until its expiry time.                                *)
EscrowMatchesContract ==
  /\ \A pb \in pending : pb.type = "contract" =>
       \E c \in Contracted : /\ c.status = "open" /\ IsPendingOf(pb, c)
                             /\ c.doc.sender = pb.account /\ c.expiry = pb.time
  /\ \A c \in Contracted : c.status = "open" =>
       \/ \E pb \in pending : IsPendingOf(pb, c)
       \/ c.expiry <= now + Skew

(* Prunes alone take a balance below zero, a merchant's own or, when refunds  *)
(* prevail in the fees, the target's; everyone else finds what they take,     *)
(* burns included.                                                            *)
OnlyPrunesOverdraw ==
  [][\A a \in Addr : bal'[a] < bal[a] /\ bal'[a] < 0 =>
       \/ payCursor'[a] # payCursor[a]
       \/ a = token.policy.target /\ prunedFees' # prunedFees]_vars

(* Nothing takes money from the balance of a suspended account, also not a    *)
(* prune endorsed before the suspension, but a fee prune that balances the    *)
(* fees returned by refunds: feePrune does not look at suspension.            *)
SuspendedKeepsBalance ==
  [][\A a \in Addr : IsSuspended(a) /\ bal'[a] < bal[a] =>
       a = token.policy.target /\ prunedFees' # prunedFees]_vars

-----------------------------------------------------------------------------
(* Liveness.  The clock moves on, and a suspended holder unsuspends in the    *)
(* end.  The properties add whose requests they count on: holders who keep    *)
(* asking for what they may have, and are served when that is possible time   *)
(* and again.  Nothing is expected of the signers of contracts.               *)
Fairness ==
  /\ WF_vars(TickStep /\ Committed)
  /\ \A kid \in Suspendable : WF_vars(UnsuspendStep(kid) /\ Committed)

FairSpec == Spec /\ Fairness

(* No money is stranded: a pending balance whose time comes is settled, even  *)
(* if the signers of its contract never answer, be it a transfer, a pay or a  *)
(* wrap: balance/pending/withdraw is open to deposits past their expiry.      *)
NothingStranded ==
  SF_vars(WithdrawStep /\ Committed) =>
    \A id \in TxID :
      (\E pb \in pending : pb.id = id /\ pb.time < MaxTime) ~> ~\E pb \in pending : pb.id = id

(* Every wrap is completed if its external token does not leave the bridge    *)
(* for good: removals, replacements and suspensions of the wrap account only  *)
(* delay it.  That the amount does not exceed the bridge's fee does not keep  *)
(* it open: completed without an external transaction it costs nothing.       *)
WrapsSettle ==
  SF_vars(CompleteStep /\ Committed) =>
    \A ext \in ExtCode, id \in TxID :
      []<>HasBridge(ext) => ((\E w \in Open : w.id = id /\ w.ext = ext) ~> ~\E w \in Open : w.id = id)

(* Every pay is collected in the end if the merchants keep pruning, though    *)
(* pays and suspensions that come in between make prunes fail, and so is      *)
(* every fee if the holders of the target account do.                         *)
PaysCollected ==
  SF_vars(PayPruneStep) /\ SF_vars(PayCommitStep) =>
    \A tx \in TxID :
      (\E p \in pays : p.tx = tx /\ p.ts <= MaxTime - Safe) ~> tx \in prunedPays

(* Likewise the fees.                                                         *)
FeesCollected ==
  SF_vars(FeePruneStep) /\ SF_vars(FeeCommitStep) =>
    \A tx \in TxID :
      (\E f \in fees : f.tx = tx /\ f.ts <= MaxTime - Safe) ~> \E f \in prunedFees : f.tx = tx
=============================================================================

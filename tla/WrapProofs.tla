----------------------------- MODULE WrapProofs -----------------------------
(* Theorems of WrapSystem, for any number of accounts, bridges and external   *)
(* transactions, and its implementation of IdealWrap step by step.            *)
EXTENDS WrapSystem, BalanceProofs

(* The inductive invariant: the forms of the documents TypeOK leaves out, and *)
(* that a contract finds no deposit but its own sender's, so what becomes a   *)
(* wrap was the sender's.                                                     *)
ClockOK == now \in Nat /\ now >= StartTime /\ nextTx \in Nat
PendingsOK ==
  /\ IsFiniteSet(pending)
  /\ \A pb \in pending : /\ pb.id \in Nat /\ pb.id < nextTx /\ pb.account \in Addr
                         /\ pb.amount \in Nat \ {0} /\ pb.fee = 0
ContractsOK ==
  \A c \in contracts : /\ c.id \in Nat /\ c.id < nextTx
                       /\ c.doc.sender \in Addr /\ c.doc.ext \in ExtCode
DepositsOK ==
  \A c \in contracts : \A pb \in pending : IsPendingOf(pb, c) => pb.account = c.doc.sender
FeesOK ==
  /\ IsFiniteSet(fees)
  /\ \A f \in fees : f.tx \in Nat /\ f.tx < nextTx /\ f.amount \in Int
WrapIDs == \A w \in wraps : w.id \in Nat

WrapInv == ClockOK /\ TypeOK /\ PendingsOK /\ ContractsOK /\ DepositsOK /\ FeesOK /\ WrapIDs

(* The documents that the sums range over.                                    *)
LEMMA InvSums ==
  ASSUME WrapInv
  PROVE  /\ IsFiniteSet(pending) /\ IntDeposits(pending) /\ IsFiniteSet(fees) /\ IntAmounts(fees)
         /\ Fresh(nextTx) /\ nextTx \in Nat
         /\ bal \in [Addr -> Nat] /\ token \in Token
BY DEF WrapInv, PendingsOK, FeesOK, ClockOK, TypeOK, IntDeposits, IntAmounts, Fresh

-----------------------------------------------------------------------------
(* What each kind of step does to the documents; types first.                 *)

(* The wrap account of a bridge is an account.                                *)
LEMMA BridgeAccount ==
  ASSUME TypeOK, NEW ext \in ExtCode, HasBridge(ext)
  PROVE  WrapAccount(ext) \in Addr
BY DEF TypeOK, Token, WrapBridge, HasBridge, WrapAccount

(* A new wrap has a new id.                                                   *)
LEMMA WrapsPut ==
  ASSUME WrapInv, NEW a \in Addr, NEW amount \in Nat \ {0}, NEW ext \in ExtCode,
         wraps' = wraps \cup {Wrap(nextTx, a, amount, ext)}, nextTx' = nextTx + 1,
         unwraps' = unwraps, token' = token, bal' \in [Addr -> Nat]
  PROVE  TypeOK' /\ WrapIDs'
<1> DEFINE w == Wrap(nextTx, a, amount, ext)
<1>1. /\ w.id = nextTx /\ w.account = a /\ w.amount = amount /\ w.ext = ext /\ w.complete = FALSE
  BY DEF Wrap
<1>2. wraps' = wraps \cup {w} /\ nextTx \in Nat
  BY DEF WrapInv, ClockOK
<1>3. w.complete \in BOOLEAN
  BY <1>1
<1> HIDE DEF w
<1>4. \A v \in wraps' : /\ v.id \in Nat /\ v.id < nextTx' /\ v.account \in Addr /\ v.amount \in Nat \ {0}
                         /\ v.ext \in ExtCode
  BY <1>1, <1>2 DEF WrapInv, TypeOK, WrapIDs
<1>5. \A v \in wraps' : v.complete \in BOOLEAN
  BY <1>2, <1>3 DEF WrapInv, TypeOK
<1>6. \A u, v \in wraps' : u.id = v.id => u = v
  BY <1>1, <1>2 DEF WrapInv, TypeOK, WrapIDs
<1> QED
  BY <1>4, <1>5, <1>6 DEF WrapInv, TypeOK, WrapIDs

(* A deposit is for its own contract.                                         *)
LEMMA DepositTypes ==
  ASSUME WrapInv, NEW sender \in Addr, NEW amount \in Nat \ {0}, NEW ext \in ExtCode,
         NEW expiry, NEW signers, NEW ts, Covers(sender, amount), nextTx' = nextTx + 1,
         CreateContract(nextTx, "wrap", WrapDoc(nextTx, sender, ext), expiry, signers),
         Deposit(nextTx, sender, nextTx, expiry, amount, 0, ts),
         UNCHANGED <<now, token, fees, wraps, unwraps>>
  PROVE  WrapInv'
<1> DEFINE p == Pending(nextTx, "contract", sender, nextTx, amount, 0, expiry)
           c == [id |-> nextTx, type |-> "wrap", doc |-> WrapDoc(nextTx, sender, ext),
                 expiry |-> expiry, status |-> "open"]
<1>1. /\ p.id = nextTx /\ p.rid = nextTx /\ p.account = sender /\ p.amount = amount /\ p.fee = 0
  BY DEF Pending
<1>2. /\ c.id = nextTx /\ c.doc.pb = nextTx /\ c.doc.sender = sender /\ c.doc.ext = ext
  BY DEF WrapDoc
<1>3. pending' = pending \cup {p} /\ contracts' = contracts \cup {c}
  BY DEF Deposit, CreateContract
<1> HIDE DEF p, c
<1>4. bal' \in [Addr -> Nat]
  BY DEF Deposit, Covers, WrapInv, TypeOK
<1>5. nextTx \in Nat
  BY DEF WrapInv, ClockOK
<1>6. ClockOK' /\ TypeOK' /\ WrapIDs'
  BY <1>4, <1>5 DEF WrapInv, ClockOK, TypeOK, WrapIDs
<1>7. PendingsOK'
  BY <1>1, <1>3, <1>5, FS_AddElement DEF WrapInv, PendingsOK
<1>8. ContractsOK' /\ FeesOK'
  BY <1>2, <1>3, <1>5 DEF WrapInv, ContractsOK, FeesOK
<1>9. DepositsOK'
  BY <1>1, <1>2, <1>3, <1>5 DEF WrapInv, DepositsOK, PendingsOK, ContractsOK, IsPendingOf
<1> QED
  BY <1>6, <1>7, <1>8, <1>9 DEF WrapInv

(* Taking a pending balance and closing a contract leaves the others alone.   *)
LEMMA DocumentsKept ==
  ASSUME WrapInv, nextTx' \in {nextTx, nextTx + 1}, pending' \subseteq pending,
         \A d \in contracts' : \E c \in contracts : d.id = c.id /\ d.doc = c.doc
  PROVE  PendingsOK' /\ ContractsOK' /\ DepositsOK'
<1>1. nextTx \in Nat
  BY DEF WrapInv, ClockOK
<1>2. PendingsOK'
  BY <1>1, FS_Subset DEF WrapInv, PendingsOK
<1>3. ContractsOK'
  BY <1>1 DEF WrapInv, ContractsOK
<1>4. DepositsOK'
  BY DEF WrapInv, DepositsOK, IsPendingOf
<1> QED
  BY <1>2, <1>3, <1>4

(* A closed contract keeps id and document, and so does one left alone.       *)
LEMMA ContractClosed ==
  ASSUME NEW c \in contracts, NEW status,
         CloseContract(c, status)
  PROVE  \A d \in contracts' : \E e \in contracts : d.id = e.id /\ d.doc = e.doc
<1> DEFINE closed == [c EXCEPT !.status = status]
<1>1. closed.id = c.id /\ closed.doc = c.doc
  OBVIOUS
<1>2. contracts' = (contracts \ {c}) \cup {closed}
  BY DEF CloseContract
<1> HIDE DEF closed
<1> QED
  BY <1>1, <1>2

-----------------------------------------------------------------------------
(* The invariant.                                                             *)

(* A wrap, at once or waiting for its contract.                               *)
LEMMA WrapStepInv ==
  ASSUME WrapInv, WrapStep
  PROVE  WrapInv'
<1>1. PICK kid \in Kid, sender \in Addr, amount \in Amounts, ext \in ExtCode,
           duration \in Durations, extra \in Extras, ts \in Timestamps :
        wrap(kid, sender, amount, ext, duration, extra, ts)
  BY DEF WrapStep
<1>2. amount \in Nat \ {0} /\ nextTx \in Nat
  BY SystemAssumption DEF WrapInv, ClockOK
<1>3. /\ Covers(sender, amount) /\ nextTx' = nextTx + 1
      /\ UNCHANGED <<now, token, account, fees, unwraps>>
  BY <1>1 DEF wrap, UseTxID
<1>4. CASE /\ CreateContract(nextTx, "wrap", WrapDoc(nextTx, sender, ext), ts + duration,
                             Signers(kid, sender, extra))
           /\ Deposit(nextTx, sender, nextTx, ts + duration, amount, 0, ts)
           /\ UNCHANGED wraps
  BY <1>2, <1>3, <1>4, DepositTypes
<1>5. CASE WrapNow(nextTx, sender, amount, ext, ts) /\ UNCHANGED contracts
  <2>1. bal' \in [Addr -> Nat]
    BY <1>2, <1>3, <1>5 DEF WrapNow, Covers, WrapInv, TypeOK
  <2>2. TypeOK' /\ WrapIDs'
    BY <1>2, <1>3, <1>5, <2>1, WrapsPut DEF WrapNow
  <2>3. PendingsOK' /\ ContractsOK' /\ DepositsOK'
    BY <1>2, <1>3, <1>5, DocumentsKept DEF WrapNow
  <2>4. ClockOK' /\ FeesOK'
    BY <1>2, <1>3 DEF WrapInv, ClockOK, FeesOK
  <2> QED
    BY <2>2, <2>3, <2>4 DEF WrapInv
<1> QED
  BY <1>1, <1>4, <1>5 DEF wrap

(* An executed contract turns a deposit into a wrap.                          *)
LEMMA ExecuteStepInv ==
  ASSUME WrapInv, ExecuteStep
  PROVE  WrapInv'
<1>1. PICK c \in contracts, ts \in Timestamps : executeWrap(c, ts)
  BY DEF ExecuteStep
<1> DEFINE sender == c.doc.sender
           ext == c.doc.ext
<1>2. PICK pb \in pending : WrapPendingBalance(nextTx, pb, sender, ext)
  BY <1>1 DEF executeWrap
<1>3. /\ nextTx' = nextTx + 1 /\ UNCHANGED <<now, token, fees, unwraps>>
      /\ CloseContract(c, "executed") /\ nextTx \in Nat
  BY <1>1 DEF executeWrap, UseTxID, WrapInv, ClockOK
<1>4. sender \in Addr /\ ext \in ExtCode /\ pb.amount \in Nat \ {0}
  BY DEF WrapInv, ContractsOK, PendingsOK
<1> HIDE DEF sender, ext
<1> DEFINE amount == pb.amount
<1>5. /\ wraps' = wraps \cup {Wrap(nextTx, sender, amount, ext)} /\ amount \in Nat \ {0}
      /\ pending' = pending \ {pb} /\ UNCHANGED <<bal, blog>>
  BY <1>2, <1>4 DEF WrapPendingBalance
<1> HIDE DEF amount
<1>6. TypeOK' /\ WrapIDs'
  BY <1>3, <1>4, <1>5, WrapsPut DEF WrapInv, TypeOK
<1>7. PendingsOK' /\ ContractsOK' /\ DepositsOK'
  <2>1. \A d \in contracts' : \E e \in contracts : d.id = e.id /\ d.doc = e.doc
    BY <1>3, ContractClosed
  <2> QED
    BY <1>3, <1>5, <2>1, DocumentsKept
<1> QED
  BY <1>3, <1>6, <1>7 DEF WrapInv, ClockOK, FeesOK

(* Cancellations and withdrawals give a deposit back.                         *)
LEMMA ReturnInv ==
  ASSUME WrapInv, NEW pb \in pending, NEW ts, Withdraw(pb, ts),
         UNCHANGED <<now, nextTx, token, fees, wraps, unwraps>>,
         \A d \in contracts' : \E c \in contracts : d.id = c.id /\ d.doc = c.doc
  PROVE  WrapInv'
<1>1. pb.account \in Addr /\ pb.amount \in Nat /\ pb.fee = 0
  BY DEF WrapInv, PendingsOK
<1>2. bal' \in [Addr -> Nat]
  BY <1>1 DEF Withdraw, WrapInv, TypeOK
<1>3. PendingsOK' /\ ContractsOK' /\ DepositsOK'
  BY DocumentsKept DEF Withdraw
<1> QED
  BY <1>2, <1>3 DEF WrapInv, ClockOK, TypeOK, FeesOK, WrapIDs

(* A completion closes a wrap and pays the wrap account, less a fee that is   *)
(* smaller than the amount.                                                   *)
LEMMA CompleteStepInv ==
  ASSUME WrapInv, CompleteStep
  PROVE  WrapInv'
<1>1. PICK kid \in Kid, w \in wraps, asked \in BridgeFees, done \in BOOLEAN, ts \in Timestamps :
        wrapComplete(kid, w, asked, done, ts)
  BY DEF CompleteStep
<1> DEFINE fee == IF done THEN asked ELSE 0
           wrapper == WrapAccount(w.ext)
           closed == [w EXCEPT !.complete = TRUE]
<1>2. fee \in Nat /\ nextTx \in Nat
  BY SystemAssumption DEF WrapInv, ClockOK
<1>3. w.id \in Nat /\ w.id < nextTx /\ w.account \in Addr /\ w.amount \in Nat \ {0} /\ w.ext \in ExtCode
  BY DEF WrapInv, TypeOK, WrapIDs
<1>4. WrapComplete(w, wrapper, fee, ts) /\ HasBridge(w.ext)
      /\ (fee = 0 => nextTx' = nextTx) /\ (fee # 0 => nextTx' = nextTx + 1)
      /\ UNCHANGED <<now, token, contracts, unwraps>>
  BY <1>1 DEF wrapComplete, UseTxID
<1>5. /\ closed.id = w.id /\ closed.account = w.account /\ closed.amount = w.amount
      /\ closed.ext = w.ext
  OBVIOUS
<1>6. closed.complete \in BOOLEAN
  BY <1>1, <1>4 DEF WrapComplete
<1>7. wrapper \in Addr
  BY <1>3, <1>4, BridgeAccount DEF WrapInv
<1> HIDE DEF fee, wrapper, closed
<1>8. /\ wraps' = (wraps \ {w}) \cup {closed} /\ w.amount > fee /\ pending' = pending
      /\ bal' = [bal EXCEPT ![wrapper] = @ + w.amount - fee]
      /\ CreateFee(wrapper, fee, ts, nextTx)
  BY <1>4 DEF WrapComplete, closed
<1>9. bal' \in [Addr -> Nat]
  BY <1>2, <1>3, <1>7, <1>8 DEF WrapInv, TypeOK
<1>10. nextTx' \in {nextTx, nextTx + 1}
  BY <1>4
<1>11. TypeOK' /\ WrapIDs'
  <2>1. \A v \in wraps : v.id \in Nat /\ v.id < nextTx'
    BY <1>2, <1>10 DEF WrapInv, TypeOK, WrapIDs
  <2>2. \A v \in wraps' : /\ v.id \in Nat /\ v.id < nextTx' /\ v.account \in Addr
                          /\ v.amount \in Nat \ {0} /\ v.ext \in ExtCode
    BY <1>3, <1>5, <1>8, <2>1 DEF WrapInv, TypeOK
  <2>3. \A v \in wraps' : v.complete \in BOOLEAN
    BY <1>6, <1>8 DEF WrapInv, TypeOK
  <2>4. \A u, v \in wraps' : u.id = v.id => u = v
    BY <1>5, <1>8 DEF WrapInv, TypeOK
  <2> QED
    BY <1>4, <1>9, <2>2, <2>3, <2>4 DEF WrapInv, TypeOK, WrapIDs
<1>12. PendingsOK' /\ ContractsOK' /\ DepositsOK'
  BY <1>4, <1>8, <1>10, DocumentsKept
<1>13. FeesOK'
  <2>1. Fee(wrapper, fee, ts, nextTx).tx = nextTx /\ Fee(wrapper, fee, ts, nextTx).amount = fee
    BY DEF Fee
  <2>2. \A f \in fees' : f.tx \in Nat /\ f.tx < nextTx' /\ f.amount \in Int
    BY <1>2, <1>4, <1>8, <2>1 DEF CreateFee, WrapInv, FeesOK
  <2>3. IsFiniteSet(fees')
    BY <1>8, FS_AddElement DEF CreateFee, WrapInv, FeesOK
  <2> QED
    BY <2>2, <2>3 DEF FeesOK
<1>14. ClockOK'
  BY <1>2, <1>4, <1>10 DEF WrapInv, ClockOK
<1> QED
  BY <1>11, <1>12, <1>13, <1>14 DEF WrapInv

(* An unwrap pays out of the wrap account no more than it has.                *)
LEMMA UnwrapStepInv ==
  ASSUME WrapInv, UnwrapStep
  PROVE  WrapInv'
<1>1. PICK kid \in Kid, receiver \in Addr, amount \in Amounts, ext \in ExtCode, x \in ExtTx,
           ts \in Timestamps : unwrap(kid, receiver, amount, ext, x, ts)
  BY DEF UnwrapStep
<1>2. amount \in Nat /\ WrapAccount(ext) \in Addr
  BY <1>1, SystemAssumption, BridgeAccount DEF WrapInv, unwrap
<1>3. UNCHANGED <<now, nextTx, token, pending, fees, contracts, wraps>> /\ unwraps' = unwraps \cup {x}
  BY <1>1 DEF unwrap, txVars, PutUnwrap
<1>4. bal' \in [Addr -> Nat]
  BY <1>1, <1>2 DEF unwrap, Unwrap, UnwrapImpossible, Covers, WrapInv, TypeOK
<1> QED
  BY <1>1, <1>3, <1>4 DEF WrapInv, ClockOK, TypeOK, PendingsOK, ContractsOK, DepositsOK,
       IsPendingOf, FeesOK, WrapIDs

(* The start.                                                                 *)
LEMMA InvInit == Init => WrapInv
<1> SUFFICES ASSUME Init PROVE WrapInv
  OBVIOUS
<1>1. /\ bal \in InitialBalances /\ pending = {} /\ fees = {} /\ contracts = {}
      /\ wraps = {} /\ unwraps = {} /\ now = StartTime /\ nextTx = 1
  BY DEF Init, LedgerInit, TxInit
<1>2. PICK policy \in InitialPolicies :
        token = [genesis |-> Genesis, supply |-> InitialSupply, max |-> InitialSupply,
                 policy |-> policy, wrap |-> NoBridge]
  BY DEF Init, LedgerInit
<1>3. token \in Token /\ bal \in [Addr -> Nat]
  BY <1>1, <1>2, LedgerAssumption DEF Token, Addr, NoBridge, WrapBridge
<1> QED
  BY <1>1, <1>3, ContextAssumption, FS_EmptySet
     DEF WrapInv, ClockOK, StartTime, TypeOK, PendingsOK, ContractsOK, DepositsOK, FeesOK, WrapIDs

(* Every step of the system keeps it.                                         *)
LEMMA InvStep == WrapInv /\ [Next]_vars => WrapInv'
<1> SUFFICES ASSUME WrapInv, [Next]_vars PROVE WrapInv'
  OBVIOUS
<1>1. CASE CancelStep
  <2>1. PICK c \in contracts, ts \in Timestamps : cancelTransfer(c, ts) /\ UNCHANGED wrapVars
    BY <1>1 DEF CancelStep
  <2>2. PICK pb \in pending : Withdraw(pb, ts)
    BY <2>1 DEF cancelTransfer
  <2>3. CloseContract(c, "canceled") /\ UNCHANGED <<now, nextTx, token, fees, wraps, unwraps>>
    BY <2>1 DEF cancelTransfer, txVars, wrapVars
  <2>4. \A d \in contracts' : \E e \in contracts : d.id = e.id /\ d.doc = e.doc
    BY <2>3, ContractClosed
  <2> QED
    BY <2>2, <2>3, <2>4, ReturnInv
<1>2. CASE WithdrawStep
  <2>1. PICK pb \in pending, ts \in Timestamps : Withdraw(pb, ts)
    BY <1>2 DEF WithdrawStep, balancePendingWithdraw, BalancePendingWithdraw
  <2>2. UNCHANGED <<now, nextTx, token, fees, contracts, wraps, unwraps>>
    BY <1>2 DEF WithdrawStep, balancePendingWithdraw, txVars, wrapVars
  <2>3. \A d \in contracts' : \E e \in contracts : d.id = e.id /\ d.doc = e.doc
    BY <2>2
  <2> QED
    BY <2>1, <2>2, <2>3, ReturnInv
<1>3. CASE UpdateStep
  <2>1. UNCHANGED <<now, nextTx, fees, bal, pending, contracts, wraps, unwraps>>
    BY <1>3 DEF UpdateStep, txVars, balanceVars, wrapVars
  <2>2. token' \in Token
    BY <1>3, SystemAssumption, TokenUpdateType DEF UpdateStep, WrapInv, TypeOK
  <2> QED
    BY <2>1, <2>2 DEF WrapInv, ClockOK, TypeOK, PendingsOK, ContractsOK, DepositsOK,
         IsPendingOf, FeesOK, WrapIDs
<1>4. CASE SuspendStep \/ TickStep \/ UNCHANGED vars
  <2>1. UNCHANGED <<nextTx, token, fees, bal, pending, contracts, wraps, unwraps>>
    BY <1>4 DEF SuspendStep, TickStep, vars, txVars, balanceVars, wrapVars
  <2>2. ClockOK'
    <3>1. now' = now + 1 \/ now' = now
      BY <1>4 DEF SuspendStep, TickStep, Tick, vars, txVars
    <3>2. now \in Nat /\ now >= StartTime /\ nextTx \in Nat /\ StartTime \in Nat
      BY ContextAssumption DEF WrapInv, ClockOK, StartTime
    <3>3. now' \in Nat /\ now' >= StartTime
      BY <3>1, <3>2
    <3> QED
      BY <2>1, <3>2, <3>3 DEF ClockOK, StartTime
  <2> QED
    BY <2>1, <2>2 DEF WrapInv, TypeOK, PendingsOK, ContractsOK, DepositsOK,
         IsPendingOf, FeesOK, WrapIDs
<1> QED
  BY <1>1, <1>2, <1>3, <1>4, WrapStepInv, ExecuteStepInv, CompleteStepInv, UnwrapStepInv DEF Next

(* The inductive invariant holds: every document keeps its form, and every    *)
(* deposit its contract.                                                      *)
THEOREM WrapInvariant == Spec => []WrapInv
BY InvInit, InvStep, PTL DEF Spec

(* Documents keep their form, a wrap is found by its id alone, and neither a  *)
(* sender nor a wrap account is overdrawn, however its bridge changes.        *)
THEOREM TypeCorrect == Spec => []TypeOK
<1>1. WrapInv => TypeOK
  BY DEF WrapInv
<1> QED
  BY <1>1, WrapInvariant, PTL

(* However the bridge repeats its calls, no balance grows twice for the same  *)
(* deposit, wrap or external transaction.                                     *)
THEOREM NothingPaidTwice == Spec => PaidOnce
<1>1. ASSUME WrapInv, [Next]_vars, NEW a \in Addr, bal'[a] > bal[a]
      PROVE  \/ pending \ pending' # {}
             \/ \E w \in Open : w \notin wraps'
             \/ unwraps' # unwraps
  <2>1. bal \in [Addr -> Nat] /\ bal[a] \in Int
    BY <1>1 DEF WrapInv, TypeOK
  <2>2. CASE \E pb \in pending, ts \in Timestamps : Withdraw(pb, ts)
    BY <2>2 DEF Withdraw
  <2>3. CASE WrapStep
    <3>1. PICK kid \in Kid, sender \in Addr, amount \in Amounts, ext \in ExtCode,
               duration \in Durations, extra \in Extras, ts \in Timestamps :
            wrap(kid, sender, amount, ext, duration, extra, ts)
      BY <2>3 DEF WrapStep
    <3>2. amount \in Nat
      BY SystemAssumption
    <3>3. \/ bal' = [bal EXCEPT ![sender] = @ - amount]
          \/ bal' = [bal EXCEPT ![sender] = @ - (amount + 0)]
      BY <3>1 DEF wrap, WrapNow, Deposit
    <3> QED
      BY <1>1, <2>1, <3>2, <3>3
  <2>4. CASE CompleteStep
    <3>1. PICK w \in wraps :
            ~w.complete /\ wraps' = (wraps \ {w}) \cup {[w EXCEPT !.complete = TRUE]}
      BY <2>4 DEF CompleteStep, wrapComplete, WrapComplete
    <3> DEFINE closed == [w EXCEPT !.complete = TRUE]
    <3>2. ~w.complete /\ wraps' = (wraps \ {w}) \cup {closed}
      BY <3>1
    <3>3. w # closed
      <4>1. w.complete \in BOOLEAN
        BY <1>1, <3>1 DEF WrapInv, TypeOK
      <4>2. w.complete = FALSE
        BY <3>2, <4>1
      <4>3. closed.complete = TRUE
        BY <4>1
      <4> QED
        BY <4>2, <4>3
    <3> HIDE DEF closed
    <3> QED
      BY <3>1, <3>2, <3>3 DEF Open
  <2>5. CASE UnwrapStep
    BY <2>5 DEF UnwrapStep, unwrap, PutUnwrap
  <2>6. CASE ExecuteStep \/ SuspendStep \/ UpdateStep \/ TickStep \/ UNCHANGED vars
    <3>1. bal' = bal
      BY <2>6 DEF ExecuteStep, executeWrap, WrapPendingBalance, SuspendStep, UpdateStep, TickStep,
           vars, balanceVars
    <3> QED
      BY <1>1, <2>1, <3>1
  <2>7. CancelStep \/ WithdrawStep => \E pb \in pending, ts \in Timestamps : Withdraw(pb, ts)
    BY DEF CancelStep, cancelTransfer, WithdrawStep, balancePendingWithdraw, BalancePendingWithdraw
  <2> QED
    BY <1>1, <2>2, <2>3, <2>4, <2>5, <2>6, <2>7 DEF Next
<1>2. WrapInv /\ [Next]_vars =>
        [\A a \in Addr : bal'[a] > bal[a] =>
           \/ pending \ pending' # {}
           \/ \E w \in Open : w \notin wraps'
           \/ unwraps' # unwraps]_vars
  BY <1>1
<1> QED
  BY <1>2, WrapInvariant, PTL DEF Spec, PaidOnce

-----------------------------------------------------------------------------
(* WrapSystem implements IdealWrap.                                           *)

Away == {[id |-> w.id, from |-> w.account, amount |-> w.amount] : w \in Open}

(* Wealth by account, now and next, in the sums of BalanceProofs.             *)
LEMMA WealthIs ==
  /\ Wealth = [a \in Addr |-> bal[a] + AmountSum(Owned(pending, a))]
  /\ Wealth' = [a \in Addr |-> bal'[a] + AmountSum(Owned(pending', a))]
  /\ Total(fees) = AmountSum(fees) /\ Total(fees)' = AmountSum(fees')
BY DEF Wealth, Total, AmountSum, Owned

(* An account's wealth is a number, and covers its balance and each deposit.  *)
LEMMA WealthNat ==
  ASSUME WrapInv, NEW a \in Addr
  PROVE  /\ Wealth[a] \in Nat /\ bal[a] \in Nat /\ bal[a] <= Wealth[a]
         /\ \A pb \in pending : pb.account = a => pb.amount <= Wealth[a]
         /\ Wealth[a] = bal[a] + AmountSum(Owned(pending, a))
<1> DEFINE own == Owned(pending, a)
           amounts == [pb \in own |-> pb.amount]
<1>1. IsFiniteSet(own) /\ own \subseteq pending
  BY FS_Subset DEF WrapInv, PendingsOK, Owned
<1>2. amounts \in [own -> Nat] /\ AmountSum(own) = SumFunction(amounts)
      /\ \A pb \in own : amounts[pb] = pb.amount
  BY <1>1 DEF WrapInv, PendingsOK, AmountSum
<1> HIDE DEF amounts
<1>3. SumFunction(amounts) \in Nat /\ \A pb \in own : amounts[pb] <= SumFunction(amounts)
  BY <1>1, <1>2, SumFunctionNat, SumFunctionBounds
<1>4. \A pb \in pending : pb.account = a => pb \in own
  BY DEF Owned
<1>5. Wealth[a] = bal[a] + AmountSum(own) /\ bal[a] \in Nat
  BY WealthIs DEF WrapInv, TypeOK
<1> HIDE DEF own
<1>6. \A pb \in own : pb.amount <= AmountSum(own)
  BY <1>2, <1>3
<1>7. AmountSum(own) \in Nat
  BY <1>2, <1>3
<1>8. \A pb \in pending : pb.account = a => pb.amount \in Nat /\ pb.amount <= AmountSum(own)
  BY <1>4, <1>6 DEF WrapInv, PendingsOK
<1>9. \A pb \in pending : pb.account = a => pb.amount <= Wealth[a]
  BY <1>5, <1>7, <1>8
<1> QED
  BY <1>5, <1>7, <1>9 DEF own

(* A deposit moves an amount from the balance of its owner to what it owns.   *)
LEMMA DepositStays ==
  ASSUME WrapInv, NEW sender \in Addr, NEW amount \in Nat, NEW expiry, NEW ts,
         Deposit(nextTx, sender, nextTx, expiry, amount, 0, ts)
  PROVE  Wealth' = Wealth
<1> DEFINE p == Pending(nextTx, "contract", sender, nextTx, amount, 0, expiry)
<1>1. /\ IsFiniteSet(pending) /\ IntDeposits(pending) /\ Fresh(nextTx) /\ bal \in [Addr -> Nat]
  BY InvSums
<1>2. p.id = nextTx /\ p.account = sender /\ p.amount = amount /\ p.fee = 0
  BY DEF Pending
<1>3. p \notin pending /\ p.amount \in Int /\ p.fee \in Int
  BY <1>1, <1>2 DEF Fresh
<1>4. pending' = pending \cup {p} /\ bal' = [bal EXCEPT ![sender] = @ - (amount + 0)]
  BY DEF Deposit
<1> HIDE DEF p
<1>5. ASSUME NEW a \in Addr
      PROVE  bal'[a] + AmountSum(Owned(pending', a)) = bal[a] + AmountSum(Owned(pending, a))
  <2>1. /\ AmountSum(Owned(pending, a)) \in Int
        /\ p.account = a => AmountSum(Owned(pending \cup {p}, a)) = AmountSum(Owned(pending, a)) + p.amount
        /\ p.account # a => Owned(pending \cup {p}, a) = Owned(pending, a)
    BY <1>1, <1>3, OwnedPut
  <2>2. bal[a] \in Int /\ bal[sender] \in Int
        /\ bal'[a] = IF a = sender THEN bal[a] - amount ELSE bal[a]
    BY <1>1, <1>4
  <2>3. CASE a = sender
    BY <1>2, <1>4, <2>1, <2>2, <2>3
  <2>4. CASE a # sender
    BY <1>2, <1>4, <2>1, <2>2, <2>4
  <2> QED
    BY <2>3, <2>4
<1> QED
  BY <1>5, WealthIs

(* A deposit that is given back stays with its owner.                         *)
LEMMA WithdrawStays ==
  ASSUME WrapInv, NEW pb \in pending, NEW ts, Withdraw(pb, ts)
  PROVE  Wealth' = Wealth
<1>1. /\ IsFiniteSet(pending) /\ IntDeposits(pending) /\ bal \in [Addr -> Nat]
  BY InvSums
<1>2. pb.account \in Addr /\ pb.amount \in Nat /\ pb.fee = 0
  BY DEF WrapInv, PendingsOK
<1>3. pending' = pending \ {pb} /\ bal' = [bal EXCEPT ![pb.account] = @ + pb.amount + pb.fee]
  BY DEF Withdraw
<1>5. ASSUME NEW a \in Addr
      PROVE  bal'[a] + AmountSum(Owned(pending', a)) = bal[a] + AmountSum(Owned(pending, a))
  <2>1. /\ AmountSum(Owned(pending, a)) \in Int
        /\ pb.account = a => AmountSum(Owned(pending \ {pb}, a)) = AmountSum(Owned(pending, a)) - pb.amount
        /\ pb.account # a => Owned(pending \ {pb}, a) = Owned(pending, a)
    BY <1>1, OwnedTaken
  <2>2. bal[a] \in Int /\ bal[pb.account] \in Int
        /\ bal'[a] = IF a = pb.account THEN bal[a] + pb.amount ELSE bal[a]
    BY <1>1, <1>2, <1>3
  <2>3. CASE a = pb.account
    BY <1>2, <1>3, <2>1, <2>2, <2>3
  <2>4. CASE a # pb.account
    BY <1>2, <1>3, <2>1, <2>2, <2>4
  <2> QED
    BY <2>3, <2>4
<1> QED
  BY <1>5, WealthIs

(* A new wrap is a new amount away, in the ideal as well.                     *)
LEMMA WrapSends ==
  ASSUME WrapInv, NEW sender \in Addr, NEW amount \in Nat \ {0}, NEW ext,
         amount <= Wealth[sender], Wealth' = [Wealth EXCEPT ![sender] = @ - amount],
         wraps' = wraps \cup {Wrap(nextTx, sender, amount, ext)},
         UNCHANGED <<fees, unwraps>>
  PROVE  Ideal!Send
<1> DEFINE w == Wrap(nextTx, sender, amount, ext)
           r == [id |-> nextTx, from |-> sender, amount |-> amount]
<1>1. w.complete = FALSE /\ w.id = nextTx /\ w.account = sender /\ w.amount = amount
  BY DEF Wrap
<1>2. wraps' = wraps \cup {w}
  OBVIOUS
<1>3. \A v \in Away : v.id # nextTx
  BY DEF WrapInv, ClockOK, TypeOK, WrapIDs, Away, Open
<1> HIDE DEF w
<1>4. Open' = Open \cup {w}
  BY <1>1, <1>2 DEF Open
<1>5. Away' = Away \cup {r}
  BY <1>1, <1>4 DEF Away
<1>6. r \in Away' \ Away /\ r.id = nextTx /\ r.from = sender /\ r.amount = amount
  BY <1>3, <1>5
<1> HIDE DEF r
<1>7. r.amount \in 1..Wealth[r.from]
  BY <1>6, WealthNat
<1>8. Total(fees)' = Total(fees)
  BY DEF Total
<1>9. /\ Away' = Away \cup {r} /\ \A v \in Away : v.id # r.id
      /\ Wealth' = [Wealth EXCEPT ![r.from] = @ - r.amount]
  BY <1>3, <1>5, <1>6
<1> QED
  BY <1>6, <1>7, <1>8, <1>9 DEF Ideal!Send, Away

(* A wrap takes what its sender has; by a contract, what it has deposited.    *)
LEMMA WrapImplements ==
  ASSUME WrapInv, WrapStep \/ ExecuteStep
  PROVE  Ideal!Send \/ UNCHANGED Ideal!idealVars
<1>0. nextTx \in Nat /\ bal \in [Addr -> Nat] /\ IsFiniteSet(pending) /\ IntDeposits(pending)
  BY InvSums
<1>1. CASE WrapStep
  <2>1. PICK kid \in Kid, sender \in Addr, amount \in Amounts, ext \in ExtCode,
             duration \in Durations, extra \in Extras, ts \in Timestamps :
          wrap(kid, sender, amount, ext, duration, extra, ts)
    BY <1>1 DEF WrapStep
  <2>2. amount \in Nat \ {0} /\ UNCHANGED <<fees, unwraps>> /\ bal[sender] >= amount
    BY <2>1, SystemAssumption DEF wrap, Covers
  <2>3. CASE Deposit(nextTx, sender, nextTx, ts + duration, amount, 0, ts) /\ UNCHANGED wraps
    <3>1. Wealth' = Wealth
      BY <2>2, <2>3, DepositStays
    <3> QED
      BY <2>2, <2>3, <3>1 DEF Ideal!idealVars, Open, Total
  <2>4. CASE WrapNow(nextTx, sender, amount, ext, ts)
    <3>1. pending' = pending /\ bal' = [bal EXCEPT ![sender] = @ - amount]
          /\ wraps' = wraps \cup {Wrap(nextTx, sender, amount, ext)}
      BY <2>4 DEF WrapNow
    <3>2. amount <= Wealth[sender]
      BY <2>2, WealthNat
    <3>3. Wealth' = [Wealth EXCEPT ![sender] = @ - amount]
      <4>1. ASSUME NEW a \in Addr
            PROVE  bal'[a] + AmountSum(Owned(pending', a)) =
                     IF a = sender THEN Wealth[a] - amount ELSE Wealth[a]
        <5>1. AmountSum(Owned(pending, a)) \in Int
          <6>1. Wealth[a] = bal[a] + AmountSum(Owned(pending, a))
            BY WealthIs
          <6>2. IsFiniteSet(Owned(pending, a)) /\ IntAmounts(Owned(pending, a))
            BY <1>0, FS_Subset DEF Owned, IntDeposits, IntAmounts
          <6> QED
            BY <6>2, AmountSumTake
        <5>2. Wealth[a] = bal[a] + AmountSum(Owned(pending, a)) /\ bal[a] \in Int
              /\ bal'[a] = IF a = sender THEN bal[a] - amount ELSE bal[a]
          BY <1>0, <3>1, WealthIs
        <5> QED
          BY <2>2, <3>1, <5>1, <5>2
      <4> QED
        BY <4>1, WealthIs
    <3> QED
      BY <2>2, <3>1, <3>2, <3>3, WrapSends
  <2> QED
    BY <2>1, <2>3, <2>4 DEF wrap
<1>2. CASE ExecuteStep
  <2>1. PICK c \in contracts, ts \in Timestamps : executeWrap(c, ts)
    BY <1>2 DEF ExecuteStep
  <2>2. PICK pb \in pending : IsPendingOf(pb, c) /\ WrapPendingBalance(nextTx, pb, c.doc.sender, c.doc.ext)
    BY <2>1 DEF executeWrap
  <2> DEFINE sender == c.doc.sender
             amount == pb.amount
             ext == c.doc.ext
  <2>3. /\ sender = pb.account /\ sender \in Addr /\ amount \in Nat \ {0}
        /\ UNCHANGED <<fees, unwraps>>
    BY <2>1, <2>2 DEF WrapInv, DepositsOK, PendingsOK, executeWrap
  <2>4. /\ wraps' = wraps \cup {Wrap(nextTx, sender, amount, ext)}
        /\ pending' = pending \ {pb} /\ bal' = bal
    BY <2>2 DEF WrapPendingBalance
  <2>5. amount <= Wealth[sender]
    BY <2>2, <2>3, WealthNat
  <2>6. amount = pb.amount
    OBVIOUS
  <2> HIDE DEF sender, amount, ext
  <2>7. Wealth' = [Wealth EXCEPT ![sender] = @ - amount]
    <3>1. ASSUME NEW a \in Addr
          PROVE  bal'[a] + AmountSum(Owned(pending', a)) =
                   IF a = sender THEN Wealth[a] - amount ELSE Wealth[a]
      <4>1. /\ AmountSum(Owned(pending, a)) \in Int
            /\ pb.account = a => AmountSum(Owned(pending \ {pb}, a)) = AmountSum(Owned(pending, a)) - pb.amount
            /\ pb.account # a => Owned(pending \ {pb}, a) = Owned(pending, a)
        BY <1>0, <2>2, OwnedTaken
      <4>2. Wealth[a] = bal[a] + AmountSum(Owned(pending, a)) /\ bal[a] \in Int
        BY <1>0, WealthIs
      <4>3. CASE a = sender
        BY <2>3, <2>4, <2>6, <4>1, <4>2, <4>3
      <4>4. CASE a # sender
        BY <2>3, <2>4, <4>1, <4>2, <4>4
      <4> QED
        BY <4>3, <4>4
    <3> QED
      BY <3>1, WealthIs
  <2> QED
    BY <2>3, <2>4, <2>5, <2>7, WrapSends
<1> QED
  BY <1>1, <1>2

(* A completion settles the amount away, less a fee that leaves some of it.   *)
LEMMA CompleteImplements ==
  ASSUME WrapInv, CompleteStep
  PROVE  \E r \in Away : Ideal!Settle(r)
<1>1. PICK kid \in Kid, w \in wraps, asked \in BridgeFees, done \in BOOLEAN, ts \in Timestamps :
        wrapComplete(kid, w, asked, done, ts)
  BY DEF CompleteStep
<1> DEFINE fee == IF done THEN asked ELSE 0
           wrapper == WrapAccount(w.ext)
           closed == [w EXCEPT !.complete = TRUE]
           r == [id |-> w.id, from |-> w.account, amount |-> w.amount]
           amount == w.amount
<1>2. fee \in Nat /\ amount \in Nat
  BY SystemAssumption DEF WrapInv, TypeOK
<1>3. WrapComplete(w, wrapper, fee, ts) /\ unwraps' = unwraps /\ HasBridge(w.ext) /\ w.ext \in ExtCode
  BY <1>1 DEF wrapComplete, WrapInv, TypeOK
<1>4. wrapper \in Addr
  BY <1>3, BridgeAccount DEF WrapInv
<1>5. w.complete \in BOOLEAN
  BY DEF WrapInv, TypeOK
<1>6. closed.complete = TRUE
  BY <1>5
<1>7. /\ ~w.complete /\ amount > fee /\ wraps' = (wraps \ {w}) \cup {closed}
      /\ bal' = [bal EXCEPT ![wrapper] = @ + amount - fee] /\ pending' = pending
      /\ CreateFee(wrapper, fee, ts, nextTx)
  BY <1>3 DEF WrapComplete
<1>8. r \in Away /\ r.amount = amount /\ r.id = w.id
  BY <1>1, <1>7 DEF Away, Open
<1>9. Open' = Open \ {w}
  BY <1>6, <1>7 DEF Open
<1>10. \A v \in Open : v.id = w.id => v = w
  BY <1>1 DEF WrapInv, TypeOK, Open
<1>11. Away' = Away \ {r}
  BY <1>9, <1>10 DEF Away
<1> HIDE DEF fee, wrapper, closed, r, amount
<1>12. AmountSum(fees') = AmountSum(fees) + fee
  BY <1>2, <1>7, InvSums, FeeCharged DEF Fresh
<1>13. Wealth' = [Wealth EXCEPT ![wrapper] = @ + amount - fee]
  <2>1. ASSUME NEW a \in Addr
        PROVE  bal'[a] + AmountSum(Owned(pending', a)) =
                 IF a = wrapper THEN Wealth[a] + amount - fee ELSE Wealth[a]
    <3>1. AmountSum(Owned(pending, a)) \in Int
      <4>1. IsFiniteSet(Owned(pending, a)) /\ IntAmounts(Owned(pending, a))
        BY InvSums, FS_Subset DEF Owned, IntDeposits, IntAmounts
      <4> QED
        BY <4>1, AmountSumTake
    <3>2. Wealth[a] = bal[a] + AmountSum(Owned(pending, a)) /\ bal[a] \in Int
          /\ bal'[a] = IF a = wrapper THEN bal[a] + amount - fee ELSE bal[a]
      BY <1>7, InvSums, WealthIs
    <3> QED
      BY <1>2, <1>7, <3>1, <3>2
  <2> QED
    BY <2>1, WealthIs
<1>14. fee \in 0..(r.amount - 1)
  BY <1>2, <1>7, <1>8
<1>15. /\ Wealth' = [Wealth EXCEPT ![wrapper] = @ + r.amount - fee]
       /\ Total(fees)' = Total(fees) + fee
  BY <1>8, <1>12, <1>13, WealthIs
<1>16. Ideal!Settle(r)
  BY <1>3, <1>4, <1>11, <1>14, <1>15 DEF Ideal!Settle, Away
<1> QED
  BY <1>8, <1>16

(* An unwrap answers an external transaction out of the wealth of the wrap    *)
(* account.                                                                   *)
LEMMA UnwrapImplements ==
  ASSUME WrapInv, UnwrapStep
  PROVE  Ideal!Return
<1>1. PICK kid \in Kid, receiver \in Addr, amount \in Amounts, ext \in ExtCode, x \in ExtTx,
           ts \in Timestamps : unwrap(kid, receiver, amount, ext, x, ts)
  BY DEF UnwrapStep
<1> DEFINE wrapper == WrapAccount(ext)
<1>2. amount \in Nat \ {0} /\ wrapper \in Addr
  BY <1>1, SystemAssumption, BridgeAccount DEF WrapInv, unwrap
<1>3. UNCHANGED <<pending, fees, wraps>> /\ x \in unwraps' \ unwraps /\ unwraps' = unwraps \cup {x}
  BY <1>1 DEF unwrap, PutUnwrap
<1>4. \/ bal' = bal
      \/ /\ receiver # wrapper /\ bal[wrapper] >= amount
         /\ bal' = [bal EXCEPT ![receiver] = @ + amount, ![wrapper] = @ - amount]
  BY <1>1 DEF unwrap, Unwrap, UnwrapImpossible, Covers
<1>5. Away' = Away /\ Total(fees)' = Total(fees)
  BY <1>3 DEF Away, Open, Total
<1> HIDE DEF wrapper
<1>6. CASE bal' = bal
  <2>1. Wealth' = Wealth
    BY <1>3, <1>6, WealthIs
  <2> QED
    BY <1>3, <1>5, <2>1 DEF Ideal!Return, Away
<1>7. CASE /\ receiver # wrapper /\ bal[wrapper] >= amount
           /\ bal' = [bal EXCEPT ![receiver] = @ + amount, ![wrapper] = @ - amount]
  <2>1. amount \in 1..Wealth[wrapper]
    BY <1>2, <1>7, WealthNat
  <2>2. Wealth' = [Wealth EXCEPT ![wrapper] = @ - amount, ![receiver] = @ + amount]
    <3>1. ASSUME NEW a \in Addr
          PROVE  bal'[a] + AmountSum(Owned(pending', a)) =
                   IF a = receiver THEN Wealth[a] + amount
                   ELSE IF a = wrapper THEN Wealth[a] - amount ELSE Wealth[a]
      <4>1. AmountSum(Owned(pending, a)) \in Int
        <5>1. IsFiniteSet(Owned(pending, a)) /\ IntAmounts(Owned(pending, a))
          BY InvSums, FS_Subset DEF Owned, IntDeposits, IntAmounts
        <5> QED
          BY <5>1, AmountSumTake
      <4>2. Wealth[a] = bal[a] + AmountSum(Owned(pending, a)) /\ bal[a] \in Int
            /\ bal'[a] = IF a = wrapper THEN bal[a] - amount
                         ELSE IF a = receiver THEN bal[a] + amount ELSE bal[a]
        BY <1>7, InvSums, WealthIs
      <4> QED
        BY <1>2, <1>3, <1>7, <4>1, <4>2
    <3> QED
      BY <1>7, <3>1, WealthIs
  <2> QED
    BY <1>2, <1>3, <1>5, <1>7, <2>1, <2>2 DEF Ideal!Return, Away
<1> QED
  BY <1>4, <1>6, <1>7

(* Every step of the system is one of the ideal, or none.                     *)
LEMMA StepImplements ==
  ASSUME WrapInv, [Next]_vars
  PROVE  Ideal!IdealNext \/ UNCHANGED Ideal!idealVars
<1>1. CASE WrapStep \/ ExecuteStep
  BY <1>1, WrapImplements DEF Ideal!IdealNext
<1>2. CASE CompleteStep
  BY <1>2, CompleteImplements DEF Ideal!IdealNext, Away
<1>3. CASE UnwrapStep
  BY <1>3, UnwrapImplements DEF Ideal!IdealNext
<1>4. CASE CancelStep \/ WithdrawStep
  <2>1. PICK pb \in pending, ts \in Timestamps : Withdraw(pb, ts)
    BY <1>4 DEF CancelStep, cancelTransfer, WithdrawStep, balancePendingWithdraw, BalancePendingWithdraw
  <2>2. UNCHANGED <<fees, wraps, unwraps>>
    BY <1>4 DEF CancelStep, cancelTransfer, WithdrawStep, balancePendingWithdraw, wrapVars
  <2>3. Wealth' = Wealth
    BY <2>1, WithdrawStays
  <2> QED
    BY <2>2, <2>3 DEF Ideal!idealVars, Open, Total
<1>5. CASE SuspendStep \/ UpdateStep \/ TickStep \/ UNCHANGED vars
  <2>1. UNCHANGED <<bal, pending, fees, wraps, unwraps>>
    BY <1>5 DEF SuspendStep, UpdateStep, TickStep, vars, balanceVars, wrapVars
  <2>2. Wealth' = Wealth
    BY <2>1, WealthIs
  <2> QED
    BY <2>1, <2>2 DEF Ideal!idealVars, Open, Total
<1> QED
  BY <1>1, <1>2, <1>3, <1>4, <1>5 DEF Next

(* The opening ledger is an initial state of the ideal.                       *)
LEMMA InitImplements == Init => Ideal!IdealInit
<1> SUFFICES ASSUME Init PROVE Ideal!IdealInit
  OBVIOUS
<1>1. /\ bal \in InitialBalances /\ pending = {} /\ fees = {} /\ wraps = {} /\ unwraps = {}
  BY DEF Init, LedgerInit
<1>2. bal \in [Addr -> Nat]
  BY <1>1, LedgerAssumption
<1>3. AmountSum({}) = 0
  BY FS_EmptySet, AmountSumTake DEF IntAmounts
<1>4. \A a \in Addr : Owned({}, a) = {}
  BY DEF Owned
<1>5. Wealth = bal
  <2>1. \A a \in Addr : bal[a] + AmountSum(Owned(pending, a)) = bal[a]
    BY <1>1, <1>2, <1>3, <1>4
  <2>2. Wealth = [a \in Addr |-> bal[a]]
    BY <2>1, WealthIs
  <2> QED
    BY <1>2, <2>2
<1>6. Total(fees) = 0 /\ Away = {}
  BY <1>1, <1>3, WealthIs DEF Away, Open
<1> QED
  BY <1>1, <1>5, <1>6 DEF Ideal!IdealInit, Away

(* Wraps at once and by contracts, completions and unwraps are the three      *)
(* steps of IdealWrap; deposits, cancellations, withdrawals, changes of the   *)
(* bridge and suspensions move nothing.                                       *)
THEOREM ImplementsIdealWrap == Spec => ImplementsIdeal
<1>1. WrapInv /\ [Next]_vars => [Ideal!IdealNext]_Ideal!idealVars
  BY StepImplements
<1> QED
  BY <1>1, InitImplements, WrapInvariant, PTL DEF Spec, ImplementsIdeal, Ideal!IdealSpec
=============================================================================

----------------------------- MODULE WrapSystem -----------------------------
(* Wraps and unwraps, repeated or late calls of the bridge included, while    *)
(* the bridge of the token changes and accounts are suspended.                *)
EXTENDS WrapTx, Ledger, FiniteSetsExt

CONSTANTS
  (* bounds of the model: the parameters requests are sent with               *)
  Amounts, BridgeFees, Durations, Extras, Metas

ASSUME SystemAssumption ==
  /\ Amounts \subseteq Nat \ {0} /\ BridgeFees \subseteq Nat /\ Durations \subseteq Nat
  /\ Extras \subseteq SUBSET Addr
  /\ Metas \subseteq TokenMeta

vars == <<txVars, token, account, fees, balanceVars, contracts, wrapVars>>

(* The token has its bridge from an update.                                   *)
Init == LedgerInit /\ wraps = {} /\ unwraps = {}

WrapStep ==
  \E kid \in Kid, sender \in Addr, amount \in Amounts, ext \in ExtCode, duration \in Durations,
     extra \in Extras, ts \in Timestamps :
    wrap(kid, sender, amount, ext, duration, extra, ts)

CompleteStep ==
  \E kid \in Kid, w \in wraps, fee \in BridgeFees, done \in BOOLEAN, ts \in Timestamps :
    wrapComplete(kid, w, fee, done, ts)

UnwrapStep ==
  \E kid \in Kid, receiver \in Addr, amount \in Amounts, ext \in ExtCode, x \in ExtTx,
     ts \in Timestamps :
    unwrap(kid, receiver, amount, ext, x, ts)

ExecuteStep ==
  \E c \in contracts, ts \in Timestamps : OpenContract(c) /\ executeWrap(c, ts)

CancelStep ==
  \E c \in contracts, ts \in Timestamps :
    OpenContract(c) /\ cancelTransfer(c, ts) /\ UNCHANGED wrapVars

WithdrawStep ==
  \E kid \in Kid, pb \in pending, ts \in Timestamps :
    balancePendingWithdraw(kid, pb, ts) /\ UNCHANGED wrapVars

SuspendStep ==
  \E kid \in Kid : /\ accountSuspend(kid) \/ accountUnsuspend(kid)
                   /\ UNCHANGED <<txVars, token, fees, balanceVars, contracts, wrapVars>>

UpdateStep ==
  \E meta \in Metas :
    tokenUpdate(meta) /\ UNCHANGED <<txVars, account, fees, balanceVars, contracts, wrapVars>>

TickStep ==
  Tick /\ UNCHANGED <<nextTx, token, account, fees, balanceVars, contracts, wrapVars>>

Next ==
  \/ WrapStep \/ CompleteStep \/ UnwrapStep
  \/ ExecuteStep \/ CancelStep \/ WithdrawStep
  \/ SuspendStep \/ UpdateStep \/ TickStep

Spec == Init /\ [][Next]_vars
-----------------------------------------------------------------------------
(* Documents keep their form, wraps are found by their id alone, and neither  *)
(* a sender nor a wrap account is overdrawn.                                  *)
TypeOK ==
  /\ token \in Token
  /\ bal \in [Addr -> Nat]
  /\ \A w \in wraps : /\ w.id < nextTx /\ w.account \in Addr /\ w.amount \in Nat \ {0}
                      /\ w.ext \in ExtCode /\ w.complete \in BOOLEAN
  /\ \A v, w \in wraps : v.id = w.id => v = w
  /\ unwraps \subseteq ExtTx

Open == {w \in wraps : ~w.complete}

(* No balance grows twice for the same thing: it takes a pending balance, an  *)
(* open wrap or an external transaction not yet seen, which is used up.       *)
PaidOnce ==
  [][\A a \in Addr : bal'[a] > bal[a] =>
       \/ pending \ pending' # {}
       \/ \E w \in Open : w \notin wraps'
       \/ unwraps' # unwraps]_vars

(* Wealth is the balance and what waits for a contract.                       *)
Total(docs) == SumFunction([d \in docs |-> d.amount])
Wealth == [a \in Addr |-> bal[a] + Total({pb \in pending : pb.account = a})]

Ideal == INSTANCE IdealWrap WITH
  Owner <- Addr, InitialWealth <- InitialBalances, wealth <- Wealth,
  away <- {[id |-> w.id, from |-> w.account, amount |-> w.amount] : w \in Open},
  returned <- unwraps, collected <- Total(fees)

(* Wraps, at once or by a contract, completions and unwraps implement         *)
(* IdealWrap: an amount is in one place whichever way the bridge repeats its  *)
(* calls, and deposits, withdrawals and cancellations move nothing.           *)
ImplementsIdeal == Ideal!IdealSpec
=============================================================================

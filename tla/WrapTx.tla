------------------------------- MODULE WrapTx -------------------------------
(* wrap_stub.go, wrap_tx.go: money leaves the token for an external chain and *)
(* comes back.  Between a wrap and its completion by the bridge the amount is *)
(* in no balance; the wrap account is that of the token's bridge at the time  *)
(* of each call.                                                              *)
EXTENDS TransferTx

CONSTANTS ExtTx   \* ids of external transactions

VARIABLES
  wraps,     \* WRAP_: the wrap documents
  unwraps    \* UNWRAP_: the external transactions already unwrapped

wrapVars == <<wraps, unwraps>>

Wrap(id, a, amount, ext) ==
  [id |-> id, account |-> a, amount |-> amount, ext |-> ext, complete |-> FALSE]

WrapDoc(pb, sender, ext) == [pb |-> pb, sender |-> sender, ext |-> ext]

(* GetWrapAddress and the checks of the wrap account.                         *)
WrapAccount(ext) == token.wrap[ext]
HasBridge(ext) == WrapAccount(ext) # NoAddr /\ Active(WrapAccount(ext))

(* Wrap: the amount leaves the balance of the sender for a wrap.              *)
WrapNow(tx, sender, amount, ext, ts) ==
  /\ wraps' = wraps \cup {Wrap(tx, sender, amount, ext)}
  /\ bal' = [bal EXCEPT ![sender] = @ - amount]
  /\ PutBalanceLogs({Log(sender, ts, -amount, 0)})
  /\ UNCHANGED pending

(* WrapPendingBalance: a deposit becomes a wrap.  No balance changes, so no   *)
(* log is stored.                                                             *)
WrapKeepingDeposit(tx, pb, sender, ext) ==   \* mutation of WrapPendingBalance
  /\ wraps' = wraps \cup {Wrap(tx, sender, pb.amount, ext)}
  /\ UNCHANGED balanceVars

WrapPendingBalance(tx, pb, sender, ext) ==
  /\ wraps' = wraps \cup {Wrap(tx, sender, pb.amount, ext)}
  /\ pending' = pending \ {pb}
  /\ UNCHANGED <<bal, blog>>

(* wrap: at once for a single signer, else a deposit waiting for a contract.  *)
wrap(kid, sender, amount, ext, duration, extra, ts) ==
  LET signers == Signers(kid, sender, extra)
  IN /\ HasHolder(sender, kid)
     /\ Active(sender)
     /\ HasBridge(ext)
     /\ sender # WrapAccount(ext)
     /\ Covers(sender, amount)
     /\ \A a \in extra : AccountExists(a)
     /\ UseTxID
     /\ \/ /\ Cardinality(signers) > 1
           /\ Cardinality(signers) <= MaxSigners
           /\ CreateContract(nextTx, "wrap", WrapDoc(nextTx, sender, ext), ts + duration, signers)
           /\ Deposit(nextTx, sender, nextTx, ts + duration, amount, 0, ts)
           /\ UNCHANGED wraps
        \/ /\ Cardinality(signers) <= 1
           /\ WrapNow(nextTx, sender, amount, ext, ts)
           /\ UNCHANGED contracts
     /\ UNCHANGED <<now, token, account, fees, unwraps>>

(* executeWrap: the wrap gets the id of the executing transaction.  Whether   *)
(* the bridge still serves the external token is not looked at.               *)
executeWrap(c, ts) ==
  /\ c.type = "wrap"
  /\ UseTxID
  /\ \E pb \in pending :
       IsPendingOf(pb, c) /\ WrapPendingBalance(nextTx, pb, c.doc.sender, c.doc.ext)
  /\ CloseContract(c, "executed")
  /\ UNCHANGED <<now, token, account, fees, unwraps>>

(* WrapComplete: the wrap account gets the amount less the bridge's fee.      *)
WrapComplete(w, wrapper, fee, ts) ==
  /\ ~w.complete
  /\ w.amount > fee
  /\ wraps' = (wraps \ {w}) \cup {[w EXCEPT !.complete = TRUE]}
  /\ bal' = [bal EXCEPT ![wrapper] = @ + w.amount - fee]
  /\ PutBalanceLogs({Log(wrapper, ts, w.amount, fee)})
  /\ CreateFee(wrapper, fee, ts, nextTx)
  /\ UNCHANGED pending

CompleteChargingAlways(kid, w, asked, done, ts) ==   \* mutation of wrapComplete
  /\ HasBridge(w.ext) /\ HasHolder(WrapAccount(w.ext), kid)
  /\ WrapComplete(w, WrapAccount(w.ext), asked, ts)
  /\ UseTxID
  /\ UNCHANGED <<now, token, account, contracts, unwraps>>

(* wrap/complete by a holder of the wrap account.  Without an external        *)
(* transaction the wrap was impossible and the fee is ignored.  The id of the *)
(* transaction is used by the fee document, if there is one.                  *)
wrapComplete(kid, w, asked, done, ts) ==
  LET fee == IF done THEN asked ELSE 0
  IN /\ HasBridge(w.ext)
     /\ HasHolder(WrapAccount(w.ext), kid)
     /\ WrapComplete(w, WrapAccount(w.ext), fee, ts)
     /\ IF fee = 0 THEN UNCHANGED nextTx ELSE UseTxID
     /\ UNCHANGED <<now, token, account, contracts, unwraps>>

(* PutUnwrap marks an external transaction as used.                           *)
ForgetUnwrap(x) == x \in ExtTx /\ UNCHANGED unwraps   \* mutation of PutUnwrap
PutUnwrap(x) == x \notin unwraps /\ unwraps' = unwraps \cup {x}

(* Unwrap and UnwrapImpossible: the latter changes no balance.                *)
Unwrap(wrapper, receiver, amount, ts) ==
  /\ bal' = [bal EXCEPT ![receiver] = @ + amount, ![wrapper] = @ - amount]
  /\ PutBalanceLogs({Log(receiver, ts, amount, 0), Log(wrapper, ts, -amount, 0)})

UnwrapImpossible(wrapper, ts) == PutBalanceLogs({Log(wrapper, ts, 0, 0)}) /\ UNCHANGED bal

(* unwrap: the wrap account pays the receiver, once per external transaction. *)
(* An unwrap for the wrap account itself, or for no receiver, is an           *)
(* impossible one: it only leaves a log.                                      *)
unwrap(kid, receiver, amount, ext, x, ts) ==
  LET wrapper == WrapAccount(ext)
  IN /\ PutUnwrap(x)
     /\ HasBridge(ext)
     /\ HasHolder(wrapper, kid)
     /\ Active(receiver)
     /\ \/ /\ receiver # wrapper
           /\ Covers(wrapper, amount)
           /\ Unwrap(wrapper, receiver, amount, ts)
        \/ /\ receiver = wrapper
           /\ UnwrapImpossible(wrapper, ts)
     /\ UNCHANGED <<txVars, token, account, pending, fees, contracts, wraps>>
=============================================================================

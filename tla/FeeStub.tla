------------------------------ MODULE FeeStub ------------------------------
(* fee_stub.go: fees are stored one document per charge and collected later   *)
(* by feePrune.                                                               *)
EXTENDS TokenStub, Amount

VARIABLES fees

(* FeeID is the timestamp followed by the transaction id; the model keeps     *)
(* both as fields.                                                            *)
Fee(a, amount, ts, tx) == [account |-> a, amount |-> amount, ts |-> ts, tx |-> tx]

(* CreateFee: a zero fee leaves no document.                                  *)
CreateAnyFee(a, amount, ts, tx) ==   \* mutation of CreateFee
  fees' = fees \cup {Fee(a, amount, ts, tx)}

CreateFee(a, amount, ts, tx) ==
  fees' = IF amount = 0 THEN fees ELSE fees \cup {Fee(a, amount, ts, tx)}

(* CalcFee: the genesis account and the target account of the policy pay no   *)
(* fee; a negative fee is none; a positive MaxAmount is the limit.            *)
CalcSignedFee(payer, fn, amount) ==   \* mutation of CalcFee: no look at the sign
  LET rate == token.policy.rates[fn]
      exempt == ~token.policy.installed \/ payer \in {token.genesis, token.policy.target}
  IN IF exempt THEN 0 ELSE MulRat(amount, rate.num, rate.den)

CalcFee(payer, fn, amount) ==
  LET rate == token.policy.rates[fn]
      fee == MulRat(amount, rate.num, rate.den)
      exempt == ~token.policy.installed \/ payer \in {token.genesis, token.policy.target}
  IN IF exempt \/ fee < 0 THEN 0
     ELSE IF rate.max > 0 /\ fee > rate.max THEN rate.max
     ELSE fee
=============================================================================

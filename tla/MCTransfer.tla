----------------------------- MODULE MCTransfer -----------------------------
(* Instances of TransferSystem: alice and bob, and their joint account.       *)
EXTENDS TransferSystem

CONSTANTS alice, bob, joint

MCHolders == [a \in Addr |-> IF a \in Kid THEN {a} ELSE {alice, bob}]

(* bob can pay an amount of 2 with a fee once, the joint account without one. *)
MCInitialBalances == {[a \in Addr |-> IF a = bob THEN 4 ELSE IF a = joint THEN 2 ELSE 0]}

Negative == [num |-> -1, den |-> 2, max |-> 1]
Capped == [num |-> 2, den |-> 1, max |-> 1]
Rates(transferRate, payRate) ==
  [fn \in FeeFn |-> IF fn = "transfer" THEN transferRate ELSE payRate]
Policy(target, rates) == [installed |-> TRUE, target |-> target, rates |-> rates]

(* alice collects the fees, at a rate that may become negative.               *)
MCInitialPolicies == {Policy(alice, Rates(Capped, NoRate))}
MCMetas ==
  {[policy |-> {[target |-> NoAddr, rates |-> Rates(Negative, NoRate)]}, wrap |-> {}]}

Number(n) == [kind |-> "number", secs |-> n]
Text == [kind |-> "text", secs |-> 0]
MCOrderIDs == {Number(2), Text}

MCExtras == {{}, {alice}}
=============================================================================

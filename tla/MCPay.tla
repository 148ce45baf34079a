------------------------------- MODULE MCPay -------------------------------
(* Instances of PaySystem: alice pays at the shop, alone or from the joint    *)
(* account she has with carol.                                                *)
EXTENDS PaySystem

CONSTANTS alice, carol, shop, joint

MCHolders == [a \in Addr |-> IF a \in Kid THEN {a} ELSE {alice, carol}]

(* The supply is with alice or the joint account.                             *)
MCInitialBalances ==
  {[a \in Addr |-> IF a = payer THEN InitialSupply ELSE 0] :
     payer \in {alice, joint}}

(* alice and carol both have money, so that two pays may get one timestamp.   *)
MCTwoCustomers == {[a \in Addr |-> IF a = alice THEN 2 ELSE IF a = carol THEN 1 ELSE 0]}

Half == [num |-> 1, den |-> 2, max |-> 0]
Whole == [num |-> 1, den |-> 1, max |-> 0]
Rates(payRate) == [fn \in FeeFn |-> IF fn = "pay" THEN payRate ELSE NoRate]
Policy(target, rates) == [installed |-> TRUE, target |-> target, rates |-> rates]

(* At first the shop pays half, or nothing as it is the target; later all.    *)
MCInitialPolicies == {Policy(alice, Rates(Half)), Policy(shop, Rates(Half))}
MCMetas ==
  {[policy |-> {[target |-> alice, rates |-> Rates(Whole)]}, wrap |-> {}]}
=============================================================================

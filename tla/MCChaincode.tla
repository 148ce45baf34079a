---------------------------- MODULE MCChaincode ----------------------------
(* Instances of Chaincode: alice is a customer and at first the target of the *)
(* fee policy; shop is a merchant and the wrap account of the bridge; both    *)
(* hold the genesis account.                                                  *)
EXTENDS Chaincode

CONSTANTS alice, shop, joint, eth, x1

MCHolders == [a \in Addr |-> IF a \in Kid THEN {a} ELSE {alice, shop}]
MCInitialBalances == {[a \in Addr |-> IF a = alice THEN 3 ELSE IF a = shop THEN 3 ELSE 1]}

Half == [num |-> 1, den |-> 2, max |-> 0]
Rates(rate) == [fn \in FeeFn |-> rate]
Policy(target, rates) == [installed |-> TRUE, target |-> target, rates |-> rates]
MCInitialPolicies == {Policy(alice, Rates(Half))}

Bridge(a) == [policy |-> {}, wrap |-> {[e \in ExtCode |-> a]}]
MCMetas == {[policy |-> {[target |-> shop, rates |-> Rates(Half)]},
             wrap |-> {[e \in ExtCode |-> shop]}]}

NoID == [kind |-> "empty", secs |-> 0]
TransferOf(kid, sender, receiver, amount, asked) ==
  [kid |-> kid, sender |-> sender, receiver |-> receiver, amount |-> amount, orderID |-> NoID,
   asked |-> asked, duration |-> 1, extra |-> {}]
PayOf(kid, sender, receiver, amount) ==
  [kid |-> kid, sender |-> sender, receiver |-> receiver, amount |-> amount, duration |-> 1]
WrapOf(kid, sender, amount) ==
  [kid |-> kid, sender |-> sender, amount |-> amount, ext |-> eth, duration |-> 1, extra |-> {}]

MCTransfers == {TransferOf(alice, joint, shop, 1, 0)}
MCPays == {PayOf(alice, alice, shop, 2), PayOf(shop, joint, shop, 1)}
MCWraps == {WrapOf(alice, alice, 1), WrapOf(alice, joint, 1)}
MCUnwraps == {[kid |-> shop, receiver |-> alice, amount |-> 1, ext |-> eth, x |-> x1]}

(* A pay of alice the shop has collected.                                     *)
MCEarlierPays ==
  {[tx |-> -1, merchant |-> shop, amount |-> 2, fee |-> 1, refunded |-> 0, rid |-> alice,
    parent |-> 0, ts |-> 0]}

(* For the prunes: two pays of alice, and transfers of the shop; all fees go  *)
(* to alice, until an update names the shop.                                  *)
MCPruneBalances == {[a \in Addr |-> IF a = alice THEN 4 ELSE IF a = shop THEN 3 ELSE 0]}
MCPrunePays == {PayOf(alice, alice, shop, 2)}
MCPruneTransfers == {TransferOf(shop, shop, joint, 2, 0)}
MCTargets == {[policy |-> {[target |-> shop, rates |-> Rates(Half)]}, wrap |-> {}]}

(* For liveness: a locked transfer, a pay and a wrap that shop must sign, and *)
(* a bridge that comes and goes.  No two pays and no two fees get the same    *)
(* timestamp.  The fees are for the genesis account, which nobody else uses:  *)
(* with the clock stopped only few timestamps are left for logs.              *)
MCLiveBalances == {[a \in Addr |-> IF a = alice THEN 2 ELSE IF a = shop THEN 6 ELSE 0]}
MCLivePolicies == {Policy(joint, Rates(Half))}
MCLiveTransfers == {TransferOf(shop, shop, alice, 2, 3)}
MCLivePays == {PayOf(alice, alice, shop, 1)}
MCLiveWraps == {[WrapOf(alice, alice, 1) EXCEPT !.extra = {shop}]}
MCBridges == {Bridge(shop), Bridge(NoAddr)}
=============================================================================

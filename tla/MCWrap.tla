------------------------------- MODULE MCWrap -------------------------------
(* An instance of WrapSystem: alice wraps, the bridge's personal account is   *)
(* the wrap account until an update names another one, or none.               *)
EXTENDS WrapSystem

CONSTANTS alice, bridge, joint, eth, x1, x2

MCHolders == [a \in Addr |-> IF a \in Kid THEN {a} ELSE {alice, bridge}]
MCInitialBalances == {[a \in Addr |-> IF a = alice THEN 4 ELSE 0]}
MCInitialPolicies == {NoPolicy}

Bridge(a) == [policy |-> {}, wrap |-> {[e \in ExtCode |-> a]}]
MCMetas == {Bridge(bridge), Bridge(joint), Bridge(NoAddr)}
MCExtras == {{}, {bridge}}
=============================================================================

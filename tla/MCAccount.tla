----------------------------- MODULE MCAccount -----------------------------
(* An instance of AccountSystem: alice, bob and carol have accounts and share *)
(* the genesis account, dave has none yet.                                    *)
EXTENDS AccountSystem

CONSTANTS alice, bob, carol, dave, joint, club

MCHolders ==
  [a \in Addr |-> CASE a = joint -> {alice, bob, carol}
                    [] a \in {alice, bob, carol} -> {a}
                    [] OTHER -> {}]
MCInitialBalances == {[a \in Addr |-> IF a \in {alice, joint} THEN 1 ELSE 0]}
MCInitialPolicies == {NoPolicy}
MCCoHolders == {{alice}, {bob}, {carol, dave}, {joint, dave}}
=============================================================================

------------------------------ MODULE MCToken ------------------------------
(* An instance of TokenSystem: alice issues the token, alone or with bob.     *)
EXTENDS TokenSystem

CONSTANTS alice, bob, vault, safe

Half == [num |-> 1, den |-> 2, max |-> 0]
Rates(rate) == [fn \in FeeFn |-> IF fn = "transfer" THEN rate ELSE NoRate]
Fee1(target) == {[target |-> target, rates |-> Rates(Half)]}

MCFounders == {{}, {bob}}
MCIssues ==
  {[max |-> 3, supply |-> 2, policy |-> Fee1(NoAddr), wrap |-> {}],
   [max |-> 3, supply |-> 0, policy |-> {}, wrap |-> {}]}
MCMetas == {[policy |-> Fee1(alice), wrap |-> {}]}
=============================================================================

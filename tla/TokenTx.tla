------------------------------ MODULE TokenTx ------------------------------
(* token_tx.go: the operations on the token document.                         *)
EXTENDS TokenStub, AccountStub

(* What the token's own chaincode (knt-<code>) answers, as                    *)
(* getValidatedTokenMeta reads it: a fee policy or none, and a wrap bridge or *)
(* none, each a set of at most one element.                                   *)
MetaPolicy == [target : Addr \cup {NoAddr}, rates : [FeeFn -> FeeRate]]
TokenMeta == [policy : SUBSET MetaPolicy, wrap : SUBSET WrapBridge]

(* The target of a policy that names none: the current one, at first the      *)
(* genesis account.                                                           *)
DefaultTarget == IF token.policy.installed THEN token.policy.target ELSE token.genesis

(* tokenUpdate, invoked by anyone.  Without a fee policy the token keeps its  *)
(* own, emptied of rates; with one, its target must be an account.  A wrap    *)
(* bridge replaces the old one as a whole.                                    *)
NewPolicies(meta) ==
  IF meta.policy = {} THEN {[token.policy EXCEPT !.rates = NoRates]}
  ELSE {[installed |-> TRUE, rates |-> p.rates,
         target |-> IF p.target = NoAddr THEN DefaultTarget ELSE p.target] :
          p \in {q \in meta.policy : q.target = NoAddr \/ AccountExists(q.target)}}

NewBridges(meta) ==
  IF meta.wrap = {} THEN {token.wrap}
  ELSE {w \in meta.wrap : \A e \in ExtCode : w[e] = NoAddr \/ AccountExists(w[e])}

tokenUpdate(meta) ==
  \E policy \in NewPolicies(meta), wrap \in NewBridges(meta) :
    token' = [token EXCEPT !.policy = policy, !.wrap = wrap]
=============================================================================

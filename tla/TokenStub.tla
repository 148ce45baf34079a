----------------------------- MODULE TokenStub -----------------------------
(* token.go, token_stub.go, fee.go: the token document.                       *)
EXTENDS Address, Integers

CONSTANTS ExtCode   \* codes of the external tokens a wrap bridge may name

VARIABLES token

FeeFn == {"transfer", "pay"}

(* FeeRate: Rate is any rational (ParseFeePolicy bounds neither sign nor      *)
(* size), MaxAmount 0 is no limit.  A function the policy has no rate for     *)
(* stands in the model with rate zero, which charges the same fee: none.      *)
FeeRate == [num : Int, den : Nat \ {0}, max : Int]
NoRate == [num |-> 0, den |-> 1, max |-> 0]
NoRates == [fn \in FeeFn |-> NoRate]

(* FeePolicy is nil until the first update that brings one.                   *)
FeePolicy == [installed : BOOLEAN, target : Addr \cup {NoAddr}, rates : [FeeFn -> FeeRate]]
NoPolicy == [installed |-> FALSE, target |-> NoAddr, rates |-> NoRates]

(* WrapBridge: external code -> wrap address.                                 *)
WrapBridge == [ExtCode -> Addr \cup {NoAddr}]
NoBridge == [e \in ExtCode |-> NoAddr]

Token == [genesis : Addr, supply : Int, max : Int, policy : FeePolicy, wrap : WrapBridge]
=============================================================================

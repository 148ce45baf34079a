------------------------------- MODULE Ledger -------------------------------
(* The ledger the histories of the system modules start from: accounts, token *)
(* and balances, and nothing set aside.                                       *)
EXTENDS TxContext, BalanceStub, TokenTx, AccountTx, Functions

CONSTANTS
  Genesis,          \* the genesis account, always a joint account
  InitialHolders,   \* the holders of each account, none if it is not yet created
  InitialSupply,
  InitialBalances,  \* the balances a history of transfers may have left
  InitialPolicies   \* and the fee policies updates may have left

ASSUME LedgerAssumption ==
  /\ InitialHolders \in [Addr -> SUBSET Kid]
  /\ \A kid \in Kid : InitialHolders[kid] \subseteq {kid}
  /\ Genesis \in Joint /\ InitialHolders[Genesis] # {}
  /\ InitialSupply \in Nat
  /\ InitialBalances \subseteq [Addr -> Nat]
  /\ \A balances \in InitialBalances : SumFunction(balances) = InitialSupply
  /\ InitialPolicies \subseteq FeePolicy
  /\ \A policy \in InitialPolicies :
       policy.installed => policy.target \in Addr /\ InitialHolders[policy.target] # {}

(* The opening balances stand for logs of earlier transactions: one each.     *)
LedgerInit ==
  /\ TxInit
  /\ account = [a \in Addr |-> [holders |-> InitialHolders[a], suspended |-> FALSE]]
  /\ \E policy \in InitialPolicies :
       token = [genesis |-> Genesis, supply |-> InitialSupply, max |-> InitialSupply,
                policy |-> policy, wrap |-> NoBridge]
  /\ bal \in InitialBalances
  /\ blog = {Log(a, 0, bal[a], 0) : a \in Addr}
  /\ pending = {} /\ fees = {} /\ contracts = {}
=============================================================================

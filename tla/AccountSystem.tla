--------------------------- MODULE AccountSystem ---------------------------
(* Accounts of one token: created, suspended and unsuspended, joint accounts  *)
(* with contracts in flight that change their holders.                        *)
EXTENDS HolderTx, Ledger

CONSTANTS CoHolders   \* bound of the model: the addresses joint accounts are asked for

ASSUME CoHoldersAssumption == CoHolders \subseteq SUBSET Addr

(* The joint accounts of the start were created by contracts; only a token    *)
(* issued by a single kid has a genesis account with one holder.              *)
ASSUME HoldersAssumption ==
  /\ IsFiniteSet(Kid)
  /\ \A a \in Joint : InitialHolders[a] = {} \/ Cardinality(InitialHolders[a]) >= 2

vars == <<txVars, token, account, fees, balanceVars, contracts, relations>>

Init ==
  /\ LedgerInit
  /\ relations = UNION {Relations(a, InitialHolders[a]) : a \in Addr}

(* What no operation on accounts touches.                                     *)
Untouched == UNCHANGED <<now, token, fees, pending, blog>>

CreateStep ==
  \E kid \in Kid : /\ \/ accountCreate(kid)
                      \/ \E addrs \in CoHolders : accountCreateJoint(kid, addrs)
                   /\ Untouched

AddStep ==
  \E kid, holder \in Kid, a \in Addr : accountHolderAdd(kid, a, holder) /\ Untouched

RemoveStep ==
  \E kid, holder \in Kid, a \in Addr : accountHolderRemove(kid, a, holder) /\ Untouched

CancelStep == \E c \in contracts : OpenContract(c) /\ contractVoid(c) /\ Untouched

ExecuteStep ==
  \E c \in contracts :
    /\ OpenContract(c)
    /\ executeAccountCreate(c) \/ executeAccountHolderAdd(c) \/ executeAccountHolderRemove(c)
    /\ Untouched

SuspendStep ==
  \E kid \in Kid : /\ accountSuspend(kid) \/ accountUnsuspend(kid)
                   /\ Untouched /\ UNCHANGED <<nextTx, bal, contracts, relations>>

Next == CreateStep \/ AddStep \/ RemoveStep \/ CancelStep \/ ExecuteStep \/ SuspendStep

Spec == Init /\ [][Next]_vars
-----------------------------------------------------------------------------
AccountContract ==
  [id : Nat, type : {"account/create", "account/holder/add", "account/holder/remove"},
   doc : [account : Joint \cup {NoAddr}, kids : SUBSET Kid, signers : SUBSET Kid],
   expiry : {0}, status : {"open", "executed", "canceled"}]

(* Documents keep their form: holders and contracts are for joint accounts, a *)
(* personal account is its owner's.                                           *)
TypeOK ==
  /\ nextTx \in Nat
  /\ account \in [Addr -> Account]
  /\ \A kid \in Kid : account[kid].holders \subseteq {kid}
  /\ relations \subseteq [kid : Kid, account : Addr]
  /\ contracts \subseteq AccountContract
  /\ bal \in [Addr -> Nat]

(* What a contract is about: a new account with at least two holders or an    *)
(* account of the kind that may have several; and it asks whoever it adds.    *)
ContractsValid ==
  \A c \in contracts :
    /\ c.type = "account/create" => Cardinality(c.doc.kids) >= 2
    /\ c.type # "account/create" => c.doc.account \in Joint
    /\ c.type # "account/holder/remove" => c.doc.kids \subseteq c.doc.signers

(* A joint account never falls below two holders, though several contracts to *)
(* remove one may be approved at a time while others leave on their own.      *)
NeverBelowTwo ==
  \A a \in Joint : AccountExists(a) => Cardinality(account[a].holders) >= 2

(* The relations that account/list reads tell exactly who holds what.         *)
RelationsMatch ==
  relations = UNION {Relations(a, account[a].holders) : a \in Addr}

(* Nobody becomes a holder of a joint account, new or old, without having     *)
(* been one of the signers of the contract that is executed.                  *)
NobodyJoinsUnasked ==
  [][\A a \in Joint : \A kid \in account'[a].holders \ account[a].holders :
       \E c \in contracts : /\ c.status = "open" /\ c \notin contracts'
                            /\ kid \in c.doc.signers]_vars

(* Adding holders stays within the limit, also when several contracts to add  *)
(* one were proposed below it.                                                *)
AddStaysInLimit ==
  [][\A a \in Joint : AccountExists(a) /\ account'[a].holders # account[a].holders =>
       Cardinality(account'[a].holders) <= MaxSigners
       \/ account'[a].holders \subseteq account[a].holders]_vars

(* "max holders (128)", as accountHolderAdd says; README.md allows an invoker *)
(* 127 co-holders.                                                            *)
HolderLimit == \A a \in Joint : Cardinality(account[a].holders) <= MaxSigners
=============================================================================

---------------------------- MODULE TokenSystem ----------------------------
(* The life of a token: it is issued while accounts already exist, minted and *)
(* burned through contracts whose approval takes time, and meanwhile its      *)
(* money is transferred, from the genesis account by contracts too.           *)
EXTENDS IssueTx, TransferTx, FiniteSetsExt

CONSTANTS
  Founders,    \* bounds of the model: the co-holders a token is issued with,
  Issues,      \* what the token's chaincode may say of a new token,
  KntAmounts,  \* the amounts it lets one mint or burn,
  Metas,       \* its later changes of mind,
  Amounts, Durations   \* and the parameters of transfers

ASSUME IssueAssumption ==
  /\ Founders \subseteq SUBSET Addr
  /\ Issues \subseteq TokenIssue
  /\ KntAmounts \subseteq Nat
  /\ Metas \subseteq TokenMeta
  /\ Amounts \subseteq Nat \ {0} /\ Durations \subseteq Nat

vars == <<txVars, token, account, fees, balanceVars, contracts, relations>>

(* Every kid has a personal account.                                          *)
Init ==
  /\ TxInit
  /\ token = NotIssued
  /\ account = [a \in Addr |-> [holders |-> {a} \cap Kid, suspended |-> FALSE]]
  /\ relations = UNION {Relations(kid, {kid}) : kid \in Kid}
  /\ bal = [a \in Addr |-> 0]
  /\ pending = {} /\ blog = {} /\ fees = {} /\ contracts = {}

CreateStep ==
  \E kid \in Kid, addrs \in Founders, issue \in Issues, ts \in Timestamps :
    tokenCreate(kid, addrs, issue, ts) /\ UNCHANGED <<now, fees>>

MintStep ==
  \E kid \in Kid, amount \in KntAmounts, ts \in Timestamps :
    tokenMint(kid, amount, ts) /\ UNCHANGED <<now, fees>>

BurnStep ==
  \E kid \in Kid, amount \in KntAmounts, ts \in Timestamps :
    tokenBurn(kid, amount, ts) /\ UNCHANGED <<now, fees>>

UpdateStep ==
  \E meta \in Metas : /\ Issued
                      /\ tokenUpdate(meta)
                      /\ UNCHANGED <<txVars, account, fees, balanceVars, contracts, relations>>

ExecuteTokenStep ==
  \E c \in contracts, ts \in Timestamps :
    /\ OpenContract(c)
    /\ \/ executeTokenMint(c, ts)
       \/ executeTokenBurn(c, ts)
       \/ \E issue \in Issues : executeTokenCreate(c, issue, ts)
    /\ UNCHANGED <<now, fees>>

ExecuteTransferStep ==
  \E c \in contracts, ts \in Timestamps :
    OpenContract(c) /\ c.type = "transfer" /\ executeTransfer(c, ts) /\ UNCHANGED relations

CancelStep ==
  \E c \in contracts, ts \in Timestamps :
    /\ OpenContract(c)
    /\ IF c.type = "transfer" THEN cancelTransfer(c, ts) /\ UNCHANGED relations
       ELSE contractVoid(c) /\ UNCHANGED <<now, token, fees, pending, blog>>

TransferStep ==
  \E kid \in Kid, sender, receiver \in Addr, amount \in Amounts, duration \in Durations,
     ts \in Timestamps :
    /\ Issued
    /\ transfer(kid, sender, receiver, amount, [kind |-> "empty", secs |-> 0], 0, duration, {}, ts)
    /\ UNCHANGED relations

TickStep ==
  Tick /\ UNCHANGED <<nextTx, token, account, fees, balanceVars, contracts, relations>>

Next ==
  \/ CreateStep \/ MintStep \/ BurnStep \/ UpdateStep
  \/ ExecuteTokenStep \/ ExecuteTransferStep \/ CancelStep
  \/ TransferStep \/ TickStep

Spec == Init /\ [][Next]_vars
-----------------------------------------------------------------------------
(* The token, once issued, and its genesis account exist together, and the    *)
(* target of a fee policy is an account.                                      *)
TypeOK ==
  /\ token \in Token \cup {NotIssued}
  /\ account \in [Addr -> Account]
  /\ Issued <=> \E a \in Joint : AccountExists(a)
  /\ Issued => AccountExists(token.genesis)
  /\ token.policy.installed => token.policy.target \in {a \in Addr : AccountExists(a)}
  /\ bal \in [Addr -> Int]

(* Mints proposed below the maximum and burns proposed within the supply may  *)
(* be approved in any order: the supply stays between zero and the maximum.   *)
SupplyWithinMax == token.supply >= 0 /\ token.supply <= token.max

(* A burn approved after the genesis account has spent its balance takes only *)
(* what is left.                                                              *)
NonNegative == \A a \in Addr : bal[a] >= 0

(* The supply is exactly what was issued: balances, deposits and fees.        *)
Conservation ==
  SumFunction(bal) + SumFunction([pb \in pending |-> pb.amount + pb.fee])
    + SumFunction([f \in fees |-> f.amount]) = token.supply

(* Of several contracts to create the token one is executed: genesis account  *)
(* and maximum never change again.                                            *)
IssuedOnce ==
  [][Issued => token'.genesis = token.genesis /\ token'.max = token.max]_vars
=============================================================================

------------------------------ MODULE HolderTx ------------------------------
(* account_stub.go, account_tx.go: creating accounts, adding and removing the *)
(* holders of joint accounts.  Only the creation of a personal account and a  *)
(* holder's leaving happen at once; the rest waits for the signers of a       *)
(* contract, whose execution validates again.                                 *)
EXTENDS TxContext, BalanceStub

VARIABLES relations   \* HLD_: who holds what, for the lists of accounts

Relations(a, kids) == {[kid |-> kid, account |-> a] : kid \in kids}

(* CreateAccount, CreateJointAccount: the account, its balance and the        *)
(* relations of its holders.  Only a genesis account starts with an amount.   *)
CreateAccount(a, kids, amount) ==
  /\ ~AccountExists(a)
  /\ account' = [account EXCEPT ![a] = [holders |-> kids, suspended |-> FALSE]]
  /\ bal' = [bal EXCEPT ![a] = amount]
  /\ relations' = relations \cup Relations(a, kids)

AddHolder(a, kid) ==
  /\ ~HasHolder(a, kid)
  /\ account' = [account EXCEPT ![a].holders = @ \cup {kid}]
  /\ relations' = relations \cup Relations(a, {kid})

RemoveHolderOnly(a, kid) ==   \* mutation of RemoveHolder: the relation stays
  /\ HasHolder(a, kid)
  /\ account' = [account EXCEPT ![a].holders = @ \ {kid}]
  /\ UNCHANGED relations

RemoveHolder(a, kid) ==
  /\ HasHolder(a, kid)
  /\ account' = [account EXCEPT ![a].holders = @ \ {kid}]
  /\ relations' = relations \ Relations(a, {kid})

(* A joint account takes a new holder below the limit, and lets one go while  *)
(* two remain.                                                                *)
Room(a) == Cardinality(account[a].holders) <= MaxSigners - 1
Spare(a) == Cardinality(account[a].holders) >= 3

(* The document of a contract: the account, if there is one already, and the  *)
(* kids it is about.  The signers are known to the contract chaincode; they   *)
(* are kept here for the properties.                                          *)
AccountDoc(a, kids, signers) == [account |-> a, kids |-> kids, signers |-> signers]

ProposeContract(type, a, kids, signers) ==
  /\ UseTxID
  /\ CreateContract(nextTx, type, AccountDoc(a, kids, signers), 0, signers)
  /\ UNCHANGED <<account, bal, relations>>

(* account/create without co-holders; anyone may ask.                         *)
accountCreate(kid) == CreateAccount(kid, {kid}, 0) /\ UNCHANGED <<nextTx, contracts>>

(* account/create with the addresses of co-holders: what is limited is the    *)
(* number of addresses, and a joint address stands for all its holders.       *)
accountCreateJoint(kid, addrs) ==
  /\ AccountExists(kid)
  /\ addrs # {} /\ Cardinality(addrs) <= MaxSigners
  /\ \A a \in addrs : AccountExists(a)
  /\ LET holders == {kid} \cup SignableIDs(addrs)
     IN ProposeContract("account/create", NoAddr, holders, holders)

OldHolders(a, holder) == account[a].holders   \* mutation of AddSigners
AddSigners(a, holder) == {holder} \cup account[a].holders

JointHolder(a, kid) == AccountExists(a) /\ HasHolder(a, kid)   \* mutation of MayChange
MayChange(a, kid) == a \in Joint /\ AccountExists(a) /\ HasHolder(a, kid)

accountHolderAdd(kid, a, holder) ==
  /\ MayChange(a, kid)
  /\ Room(a)
  /\ AccountExists(holder)
  /\ ~HasHolder(a, holder)
  /\ ProposeContract("account/holder/add", a, {holder}, AddSigners(a, holder))

(* A holder leaves at once; to remove another one takes a contract.           *)
accountHolderRemove(kid, a, holder) ==
  /\ MayChange(a, kid)
  /\ Spare(a)
  /\ \/ /\ holder = kid
        /\ RemoveHolder(a, kid)
        /\ UNCHANGED <<nextTx, bal, contracts>>
     \/ /\ holder # kid
        /\ HasHolder(a, holder)
        /\ ProposeContract("account/holder/remove", a, {holder},
                           account[a].holders \ {holder})

(* The cancel callback of all three contracts.                                *)
contractVoid(c) ==
  CloseContract(c, "canceled") /\ UNCHANGED <<nextTx, account, bal, relations>>

(* The new address is made of the id of the executing transaction.            *)
executeAccountCreate(c) ==
  /\ c.type = "account/create"
  /\ \E a \in Joint : CreateAccount(a, c.doc.kids, 0)
  /\ CloseContract(c, "executed")
  /\ UNCHANGED nextTx

AddToFullAccount(c) ==   \* mutation of executeAccountHolderAdd
  /\ c.type = "account/holder/add"
  /\ \E holder \in c.doc.kids : AddHolder(c.doc.account, holder)
  /\ CloseContract(c, "executed")
  /\ UNCHANGED <<nextTx, bal>>

executeAccountHolderAdd(c) ==
  /\ c.type = "account/holder/add"
  /\ AccountExists(c.doc.account)
  /\ Room(c.doc.account)
  /\ \E holder \in c.doc.kids : AddHolder(c.doc.account, holder)
  /\ CloseContract(c, "executed")
  /\ UNCHANGED <<nextTx, bal>>

RemoveFromAny(c) ==   \* mutation of executeAccountHolderRemove
  /\ c.type = "account/holder/remove"
  /\ \E holder \in c.doc.kids : RemoveHolder(c.doc.account, holder)
  /\ CloseContract(c, "executed")
  /\ UNCHANGED <<nextTx, bal>>

executeAccountHolderRemove(c) ==
  /\ c.type = "account/holder/remove"
  /\ Spare(c.doc.account)
  /\ \E holder \in c.doc.kids : RemoveHolder(c.doc.account, holder)
  /\ CloseContract(c, "executed")
  /\ UNCHANGED <<nextTx, bal>>
=============================================================================

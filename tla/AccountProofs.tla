--------------------------- MODULE AccountProofs ---------------------------
(* Theorems of AccountSystem, for any kids and joint accounts and any number  *)
(* of contracts in flight.                                                    *)
EXTENDS AccountSystem, FiniteSetTheorems, TLAPS

(* The inductive invariant.  That no account falls below two holders needs    *)
(* what the contracts may be about, and the relations need the types.         *)
AccountInv == TypeOK /\ ContractsValid /\ NeverBelowTwo /\ RelationsMatch

(* Whatever the handler, accounts and relations change in one of five ways.   *)
Kept == UNCHANGED <<account, relations, bal>>
Created ==
  \E a \in Addr, kids \in SUBSET Kid :
    /\ CreateAccount(a, kids, 0)
    /\ a \in Kid => kids = {a}
    /\ a \in Joint => Cardinality(kids) >= 2
Joined ==
  \E a \in Joint, kid \in Kid :
    AccountExists(a) /\ Room(a) /\ AddHolder(a, kid) /\ UNCHANGED bal
Left ==
  \E a \in Joint, kid \in Kid : Spare(a) /\ RemoveHolder(a, kid) /\ UNCHANGED bal
Resuspended ==
  \E kid \in Kid : (SuspendAccount(kid) \/ UnsuspendAccount(kid)) /\ UNCHANGED <<relations, bal>>

AccountsStep == Kept \/ Created \/ Joined \/ Left \/ Resuspended

(* And contracts in one of three.                                             *)
ValidContract(c) ==
  /\ c.type = "account/create" => Cardinality(c.doc.kids) >= 2
  /\ c.type # "account/create" => c.doc.account \in Joint
  /\ c.type # "account/holder/remove" => c.doc.kids \subseteq c.doc.signers
ContractsStep ==
  \/ UNCHANGED contracts
  \/ \E c \in contracts, status \in {"executed", "canceled"} : CloseContract(c, status)
  \/ \E c \in AccountContract : ValidContract(c) /\ contracts' = contracts \cup {c}

-----------------------------------------------------------------------------
(* The holders of an account are finitely many kids.                          *)
LEMMA HoldersAreKids ==
  ASSUME TypeOK, NEW a \in Addr
  PROVE  account[a].holders \subseteq Kid /\ IsFiniteSet(account[a].holders)
<1>1. account[a].holders \subseteq Kid
  BY DEF TypeOK, Account
<1> QED
  BY <1>1, HoldersAssumption, FS_Subset

(* A proposal leaves the accounts alone and adds one well-formed contract.    *)
LEMMA ProposalStep ==
  ASSUME TypeOK, NEW type \in {"account/create", "account/holder/add", "account/holder/remove"},
         NEW a \in Joint \cup {NoAddr}, NEW kids \in SUBSET Kid, NEW signers \in SUBSET Kid,
         type = "account/create" => kids = signers,
         type # "account/create" => a \in Joint,
         type # "account/holder/remove" => kids \subseteq signers,
         ProposeContract(type, a, kids, signers)
  PROVE  Kept /\ ContractsStep
<1> DEFINE c == [id |-> nextTx, type |-> type, doc |-> AccountDoc(a, kids, signers),
                 expiry |-> 0, status |-> "open"]
<1>1. c \in AccountContract
  BY DEF AccountContract, AccountDoc, TypeOK
<1>2. Cardinality(signers) >= 2 /\ contracts' = contracts \cup {c}
  BY DEF ProposeContract, CreateContract
<1>3. ValidContract(c)
  BY <1>2 DEF ValidContract, AccountDoc
<1>4. Kept
  BY DEF ProposeContract, Kept
<1> QED
  BY <1>1, <1>2, <1>3, <1>4 DEF ContractsStep

(* Every handler and callback changes accounts in one of the five ways and    *)
(* contracts in one of the three.                                             *)
LEMMA StepKinds ==
  ASSUME AccountInv, Next
  PROVE  /\ AccountsStep /\ ContractsStep
         /\ nextTx' \in Nat
<1> USE DEF AccountInv
<1>1. CASE CreateStep
  <2>1. PICK kid \in Kid : \/ accountCreate(kid)
                         \/ \E addrs \in CoHolders : accountCreateJoint(kid, addrs)
    BY <1>1 DEF CreateStep
  <2>2. CASE accountCreate(kid)
    <3>1. kid \in Addr /\ kid \notin Joint
      BY AddressAssumption DEF Addr
    <3>2. Created
      BY <2>2, <3>1 DEF accountCreate, Created
    <3> QED
      BY <2>2, <3>2 DEF accountCreate, AccountsStep, ContractsStep, TypeOK
  <2>3. CASE \E addrs \in CoHolders : accountCreateJoint(kid, addrs)
    <3>1. PICK addrs \in CoHolders : accountCreateJoint(kid, addrs)
      BY <2>3
    <3> DEFINE holders == {kid} \cup SignableIDs(addrs)
    <3>2. holders \in SUBSET Kid
      <4>1. \A a \in addrs : account[a].holders \subseteq Kid
        BY CoHoldersAssumption, HoldersAreKids
      <4> QED
        BY <4>1 DEF SignableIDs
    <3>3. ProposeContract("account/create", NoAddr, holders, holders)
      BY <3>1 DEF accountCreateJoint
    <3> HIDE DEF holders
    <3>4. Kept /\ ContractsStep
      BY <3>2, <3>3, ProposalStep
    <3> QED
      BY <3>3, <3>4 DEF AccountsStep, ProposeContract, UseTxID, TypeOK
  <2> QED
    BY <2>1, <2>2, <2>3
<1>2. CASE AddStep
  <2>1. PICK kid \in Kid, holder \in Kid, a \in Addr : accountHolderAdd(kid, a, holder)
    BY <1>2 DEF AddStep
  <2>2. a \in Joint /\ AddSigners(a, holder) \in SUBSET Kid /\ holder \in AddSigners(a, holder)
    BY <2>1, HoldersAreKids DEF accountHolderAdd, MayChange, AddSigners
  <2>3. ProposeContract("account/holder/add", a, {holder}, AddSigners(a, holder))
    BY <2>1 DEF accountHolderAdd
  <2>4. Kept /\ ContractsStep
    BY <2>2, <2>3, ProposalStep
  <2> QED
    BY <2>3, <2>4 DEF AccountsStep, ProposeContract, UseTxID, TypeOK
<1>3. CASE RemoveStep
  <2>1. PICK kid \in Kid, holder \in Kid, a \in Addr : accountHolderRemove(kid, a, holder)
    BY <1>3 DEF RemoveStep
  <2>2. a \in Joint /\ Spare(a)
    BY <2>1 DEF accountHolderRemove, MayChange
  <2>3. CASE RemoveHolder(a, kid) /\ UNCHANGED <<nextTx, bal, contracts>>
    BY <2>2, <2>3 DEF Left, AccountsStep, ContractsStep, TypeOK
  <2>4. CASE ProposeContract("account/holder/remove", a, {holder}, account[a].holders \ {holder})
    <3>1. account[a].holders \ {holder} \in SUBSET Kid
      BY HoldersAreKids
    <3>2. Kept /\ ContractsStep
      BY <2>2, <2>4, <3>1, ProposalStep
    <3> QED
      BY <2>4, <3>2 DEF AccountsStep, ProposeContract, UseTxID, TypeOK
  <2> QED
    BY <2>1, <2>3, <2>4 DEF accountHolderRemove
<1>4. CASE CancelStep
  <2>1. PICK c \in contracts : contractVoid(c)
    BY <1>4 DEF CancelStep
  <2> QED
    BY <2>1 DEF contractVoid, Kept, AccountsStep, ContractsStep, TypeOK
<1>5. CASE ExecuteStep
  <2>1. PICK c \in contracts :
          executeAccountCreate(c) \/ executeAccountHolderAdd(c) \/ executeAccountHolderRemove(c)
    BY <1>5 DEF ExecuteStep
  <2>2. c \in AccountContract /\ c.doc.kids \in SUBSET Kid
    BY DEF TypeOK, AccountContract
  <2>3. CloseContract(c, "executed") /\ UNCHANGED nextTx
    BY <2>1 DEF executeAccountCreate, executeAccountHolderAdd, executeAccountHolderRemove
  <2>4. ContractsStep /\ nextTx' \in Nat
    BY <2>3 DEF ContractsStep, TypeOK
  <2>5. CASE executeAccountCreate(c)
    <3>1. Cardinality(c.doc.kids) >= 2
      BY <2>5 DEF executeAccountCreate, ContractsValid
    <3>2. PICK a \in Joint : CreateAccount(a, c.doc.kids, 0)
      BY <2>5 DEF executeAccountCreate
    <3>3. a \in Addr /\ a \notin Kid
      BY AddressAssumption DEF Addr
    <3>4. Created
      BY <2>2, <3>1, <3>2, <3>3 DEF Created
    <3> QED
      BY <2>4, <3>4 DEF AccountsStep
  <2>6. CASE executeAccountHolderAdd(c)
    <3>1. c.doc.account \in Joint
      BY <2>6 DEF executeAccountHolderAdd, ContractsValid
    <3>2. Joined
      BY <2>2, <2>6, <3>1 DEF executeAccountHolderAdd, Joined
    <3> QED
      BY <2>4, <3>2 DEF AccountsStep
  <2>7. CASE executeAccountHolderRemove(c)
    <3>1. c.doc.account \in Joint
      BY <2>7 DEF executeAccountHolderRemove, ContractsValid
    <3>2. Left
      BY <2>2, <2>7, <3>1 DEF executeAccountHolderRemove, Left
    <3> QED
      BY <2>4, <3>2 DEF AccountsStep
  <2> QED
    BY <2>1, <2>5, <2>6, <2>7
<1>6. CASE SuspendStep
  <2>1. PICK kid \in Kid : /\ accountSuspend(kid) \/ accountUnsuspend(kid)
                         /\ UNCHANGED <<nextTx, bal, contracts, relations>>
    BY <1>6 DEF SuspendStep
  <2>2. Resuspended
    BY <2>1 DEF accountSuspend, accountUnsuspend, Resuspended
  <2> QED
    BY <2>1, <2>2 DEF AccountsStep, ContractsStep, TypeOK
<1> QED
  BY <1>1, <1>2, <1>3, <1>4, <1>5, <1>6 DEF Next

-----------------------------------------------------------------------------
(* Accounts and relations stay well-formed.                                   *)
LEMMA AccountsTyped ==
  ASSUME TypeOK, AccountsStep
  PROVE  /\ account' \in [Addr -> Account]
         /\ \A kid \in Kid : account'[kid].holders \subseteq {kid}
         /\ relations' \subseteq [kid : Kid, account : Addr]
         /\ bal' \in [Addr -> Nat]
<1> USE DEF TypeOK
<1>1. CASE Kept
  BY <1>1 DEF Kept
<1>2. CASE Created
  <2>1. PICK a \in Addr, kids \in SUBSET Kid : CreateAccount(a, kids, 0) /\ (a \in Kid => kids = {a})
    BY <1>2 DEF Created
  <2>2. [holders |-> kids, suspended |-> FALSE] \in Account
    BY DEF Account
  <2>3. Relations(a, kids) \subseteq [kid : Kid, account : Addr]
    BY DEF Relations
  <2>4. account' = [account EXCEPT ![a] = [holders |-> kids, suspended |-> FALSE]]
    BY <2>1 DEF CreateAccount
  <2>5. \A kid \in Kid : account'[kid].holders \subseteq {kid}
    <3> TAKE kid \in Kid
    <3>1. kid \in Addr
      BY DEF Addr
    <3>2. CASE kid = a
      BY <2>1, <2>4, <3>1, <3>2
    <3>3. CASE kid # a
      BY <2>4, <3>1, <3>3
    <3> QED
      BY <3>2, <3>3
  <2> QED
    BY <2>1, <2>2, <2>3, <2>4, <2>5 DEF CreateAccount
<1>3. CASE Joined
  <2>1. PICK a \in Joint, kid \in Kid : AddHolder(a, kid) /\ UNCHANGED bal
    BY <1>3 DEF Joined
  <2>2. a \in Addr /\ a \notin Kid
    BY AddressAssumption DEF Addr
  <2>3. account' = [account EXCEPT ![a].holders = @ \cup {kid}]
    BY <2>1 DEF AddHolder
  <2>4. Relations(a, {kid}) \subseteq [kid : Kid, account : Addr]
    BY <2>2 DEF Relations
  <2>5. account' \in [Addr -> Account]
    BY <2>2, <2>3 DEF Account
  <2>6. \A k \in Kid : account'[k].holders \subseteq {k}
    BY <2>2, <2>3 DEF Addr
  <2> QED
    BY <2>1, <2>4, <2>5, <2>6 DEF AddHolder
<1>4. CASE Left
  <2>1. PICK a \in Joint, kid \in Kid : RemoveHolder(a, kid) /\ UNCHANGED bal
    BY <1>4 DEF Left
  <2>2. a \in Addr /\ a \notin Kid
    BY AddressAssumption DEF Addr
  <2>3. account' = [account EXCEPT ![a].holders = @ \ {kid}]
    BY <2>1 DEF RemoveHolder
  <2>4. account' \in [Addr -> Account]
    BY <2>2, <2>3 DEF Account
  <2>5. \A k \in Kid : account'[k].holders \subseteq {k}
    BY <2>2, <2>3 DEF Addr
  <2> QED
    BY <2>1, <2>4, <2>5 DEF RemoveHolder
<1>5. CASE Resuspended
  <2>1. PICK kid \in Kid : /\ SuspendAccount(kid) \/ UnsuspendAccount(kid)
                         /\ UNCHANGED <<relations, bal>>
    BY <1>5 DEF Resuspended
  <2>2. PICK b \in BOOLEAN : account' = [account EXCEPT ![kid].suspended = b]
    BY <2>1 DEF SuspendAccount, UnsuspendAccount
  <2>3. kid \in Addr
    BY DEF Addr
  <2>4. account' \in [Addr -> Account]
    BY <2>2, <2>3 DEF Account
  <2>5. \A a \in Addr : account'[a].holders = account[a].holders
    BY <2>2, <2>3 DEF Account
  <2> QED
    BY <2>1, <2>4, <2>5 DEF Addr
<1> QED
  BY <1>1, <1>2, <1>3, <1>4, <1>5 DEF AccountsStep

(* The holders of an account after a step, account by account.                *)
LEMMA HoldersStep ==
  ASSUME TypeOK, AccountsStep
  PROVE  \/ /\ \A a \in Addr : account'[a].holders = account[a].holders
            /\ relations' = relations
         \/ \E b \in Addr, kids \in SUBSET Kid :
              /\ \A a \in Addr \ {b} : account'[a].holders = account[a].holders
              /\ \/ /\ b \in Joint => Cardinality(kids) >= 2
                    /\ account[b].holders = {}
                    /\ account'[b].holders = kids
                    /\ relations' = relations \cup Relations(b, kids)
                 \/ /\ b \in Joint /\ account[b].holders # {}
                    /\ Cardinality(account[b].holders) <= MaxSigners - 1
                    /\ \E kid \in Kid : /\ kid \notin account[b].holders
                                        /\ kids = {kid}
                    /\ account'[b].holders = account[b].holders \cup kids
                    /\ relations' = relations \cup Relations(b, kids)
                 \/ /\ b \in Joint /\ Cardinality(account[b].holders) >= 3
                    /\ \E kid \in account[b].holders : kids = {kid}
                    /\ account'[b].holders = account[b].holders \ kids
                    /\ relations' = relations \ Relations(b, kids)
<1> USE DEF TypeOK, Account
<1>1. CASE Kept
  BY <1>1 DEF Kept
<1>2. CASE Created
  BY <1>2 DEF Created, CreateAccount, AccountExists
<1>3. CASE Joined
  <2>1. PICK b \in Joint, kid \in Kid : AccountExists(b) /\ Room(b) /\ AddHolder(b, kid)
    BY <1>3 DEF Joined
  <2>2. b \in Addr /\ {kid} \in SUBSET Kid
    BY DEF Addr
  <2>3. /\ \A a \in Addr \ {b} : account'[a].holders = account[a].holders
        /\ account'[b].holders = account[b].holders \cup {kid}
        /\ relations' = relations \cup Relations(b, {kid})
        /\ account[b].holders # {} /\ kid \notin account[b].holders
        /\ Cardinality(account[b].holders) <= MaxSigners - 1
    BY <2>1, <2>2 DEF AddHolder, HasHolder, AccountExists, Room
  <2> QED
    BY <2>2, <2>3
<1>4. CASE Left
  <2>1. PICK b \in Joint, kid \in Kid : Spare(b) /\ RemoveHolder(b, kid)
    BY <1>4 DEF Left
  <2>2. b \in Addr /\ {kid} \in SUBSET Kid
    BY DEF Addr
  <2>3. /\ \A a \in Addr \ {b} : account'[a].holders = account[a].holders
        /\ account'[b].holders = account[b].holders \ {kid}
        /\ relations' = relations \ Relations(b, {kid})
        /\ Cardinality(account[b].holders) >= 3 /\ kid \in account[b].holders
    BY <2>1, <2>2 DEF RemoveHolder, HasHolder, Spare
  <2> QED
    BY <2>2, <2>3
<1>5. CASE Resuspended
  <2>1. PICK kid \in Kid : /\ SuspendAccount(kid) \/ UnsuspendAccount(kid)
                         /\ UNCHANGED relations
    BY <1>5 DEF Resuspended
  <2>2. kid \in Addr
    BY DEF Addr
  <2> QED
    BY <2>1, <2>2 DEF SuspendAccount, UnsuspendAccount
<1> QED
  BY <1>1, <1>2, <1>3, <1>4, <1>5 DEF AccountsStep

-----------------------------------------------------------------------------
(* Contracts stay well-formed and about what they may be about: closing one   *)
(* changes nothing but its status.                                            *)
LEMMA ContractsKept ==
  ASSUME TypeOK, ContractsValid, ContractsStep
  PROVE  contracts' \subseteq AccountContract /\ ContractsValid'
<1>1. CASE UNCHANGED contracts
  BY <1>1 DEF TypeOK, ContractsValid
<1>2. CASE \E c \in contracts, status \in {"executed", "canceled"} : CloseContract(c, status)
  <2>1. PICK c \in contracts, status \in {"executed", "canceled"} : CloseContract(c, status)
    BY <1>2
  <2> DEFINE closed == [c EXCEPT !.status = status]
  <2>2. c \in AccountContract
    BY DEF TypeOK
  <2>3. closed \in AccountContract /\ closed.type = c.type /\ closed.doc = c.doc
    BY <2>2 DEF AccountContract
  <2>4. contracts' = (contracts \ {c}) \cup {closed}
    BY <2>1 DEF CloseContract
  <2> HIDE DEF closed
  <2> QED
    BY <2>3, <2>4 DEF TypeOK, ContractsValid
<1>3. CASE \E c \in AccountContract : ValidContract(c) /\ contracts' = contracts \cup {c}
  BY <1>3 DEF TypeOK, ContractsValid, ValidContract
<1> QED
  BY <1>1, <1>2, <1>3 DEF ContractsStep

(* Whatever the step does, a joint account keeps two holders: leaving asks    *)
(* for a third one.                                                           *)
LEMMA TwoHoldersKept ==
  ASSUME TypeOK, NeverBelowTwo, AccountsStep
  PROVE  NeverBelowTwo'
<1> SUFFICES ASSUME NEW j \in Joint, AccountExists(j)'
             PROVE  Cardinality(account'[j].holders) >= 2
  BY DEF NeverBelowTwo
<1>1. j \in Addr /\ account'[j].holders # {}
  BY DEF Addr, AccountExists
<1>2. IsFiniteSet(account[j].holders)
  BY <1>1, HoldersAreKids
<1>3. CASE account'[j].holders = account[j].holders
  BY <1>1, <1>3 DEF NeverBelowTwo, AccountExists
<1>4. ASSUME account[j].holders # {}, NEW kid,
             account'[j].holders = account[j].holders \cup {kid}, kid \notin account[j].holders
      PROVE  Cardinality(account'[j].holders) >= 2
  <2>1. Cardinality(account[j].holders) >= 2 /\ Cardinality(account[j].holders) \in Nat
    BY <1>2, <1>4, FS_CardinalityType DEF NeverBelowTwo, AccountExists
  <2>2. Cardinality(account[j].holders \cup {kid}) = Cardinality(account[j].holders) + 1
    BY <1>2, <1>4, FS_AddElement
  <2> QED
    BY <1>4, <2>1, <2>2
<1>5. ASSUME Cardinality(account[j].holders) >= 3, NEW kid \in account[j].holders,
             account'[j].holders = account[j].holders \ {kid}
      PROVE  Cardinality(account'[j].holders) >= 2
  <2>1. Cardinality(account[j].holders) \in Nat
    BY <1>2, FS_CardinalityType
  <2>2. Cardinality(account[j].holders \ {kid}) = Cardinality(account[j].holders) - 1
    BY <1>2, FS_RemoveElement
  <2> QED
    BY <1>5, <2>1, <2>2
<1> QED
  BY <1>1, <1>3, <1>4, <1>5, HoldersStep

(* Each way of changing an account changes its relations alike.               *)
LEMMA RelationsKept ==
  ASSUME TypeOK, RelationsMatch, AccountsStep
  PROVE  RelationsMatch'
<1> SUFFICES relations' = UNION {Relations(a, account'[a].holders) : a \in Addr}
  BY DEF RelationsMatch
<1>1. \A r : r \in relations <=> \E a \in Addr : r \in Relations(a, account[a].holders)
  BY DEF RelationsMatch
<1>2. \A r : r \in relations' <=> \E a \in Addr : r \in Relations(a, account'[a].holders)
  <2>1. CASE /\ \A a \in Addr : account'[a].holders = account[a].holders
             /\ relations' = relations
    BY <1>1, <2>1
  <2>2. ASSUME NEW b \in Addr, NEW kids,
               \A a \in Addr \ {b} : account'[a].holders = account[a].holders,
               account'[b].holders = account[b].holders \cup kids,
               relations' = relations \cup Relations(b, kids)
        PROVE  \A r : r \in relations' <=> \E a \in Addr : r \in Relations(a, account'[a].holders)
    BY <1>1, <2>2 DEF Relations
  <2>3. ASSUME NEW b \in Addr, NEW kids,
               \A a \in Addr \ {b} : account'[a].holders = account[a].holders,
               account'[b].holders = account[b].holders \ kids,
               relations' = relations \ Relations(b, kids)
        PROVE  \A r : r \in relations' <=> \E a \in Addr : r \in Relations(a, account'[a].holders)
    BY <1>1, <2>3 DEF Relations
  <2>4. \A b, kids : account[b].holders = {} /\ account'[b].holders = kids
          => account'[b].holders = account[b].holders \cup kids
    OBVIOUS
  <2> QED
    BY <2>1, <2>2, <2>3, <2>4, HoldersStep
<1> QED
  BY <1>2

-----------------------------------------------------------------------------
(* The accounts of the start satisfy the invariant.                           *)
LEMMA InitInv == Init => AccountInv
<1> SUFFICES ASSUME Init PROVE AccountInv
  OBVIOUS
<1> USE LedgerAssumption DEF Init, LedgerInit, TxInit
<1>1. \A a \in Addr : account[a].holders = InitialHolders[a]
  OBVIOUS
<1>2. TypeOK
  <2>1. account \in [Addr -> Account]
    BY DEF Account
  <2>2. \A kid \in Kid : account[kid].holders \subseteq {kid}
    BY <1>1 DEF Addr
  <2>3. relations \subseteq [kid : Kid, account : Addr]
    BY DEF Relations
  <2>4. nextTx \in Nat /\ contracts = {} /\ bal \in [Addr -> Nat]
    OBVIOUS
  <2> QED
    BY <2>1, <2>2, <2>3, <2>4 DEF TypeOK
<1>3. ContractsValid
  BY DEF ContractsValid
<1>4. NeverBelowTwo
  BY <1>1, HoldersAssumption DEF NeverBelowTwo, AccountExists, Addr
<1>5. RelationsMatch
  BY <1>1 DEF RelationsMatch
<1> QED
  BY <1>2, <1>3, <1>4, <1>5 DEF AccountInv

(* Every step keeps it: the kinds of steps, one conjunct after the other.     *)
LEMMA StepInv == AccountInv /\ [Next]_vars => AccountInv'
<1> SUFFICES ASSUME AccountInv, [Next]_vars PROVE AccountInv'
  OBVIOUS
<1>1. CASE Next
  <2>1. AccountsStep /\ ContractsStep /\ nextTx' \in Nat
    BY <1>1, StepKinds
  <2>2. contracts' \subseteq AccountContract /\ ContractsValid'
    BY <2>1, ContractsKept DEF AccountInv
  <2>3. TypeOK'
    BY <2>1, <2>2, AccountsTyped DEF AccountInv, TypeOK
  <2>4. NeverBelowTwo' /\ RelationsMatch'
    BY <2>1, TwoHoldersKept, RelationsKept DEF AccountInv
  <2> QED
    BY <2>2, <2>3, <2>4 DEF AccountInv
<1>2. CASE UNCHANGED vars
  BY <1>2 DEF vars, txVars, balanceVars, AccountInv, TypeOK, ContractsValid, NeverBelowTwo,
              RelationsMatch, AccountExists
<1> QED
  BY <1>1, <1>2

(* Types, contracts, holders and relations hold together in every state.      *)
THEOREM AccountInvariant == Spec => []AccountInv
BY InitInv, StepInv, PTL DEF Spec

(* Documents of accounts keep their form, whatever contracts are in flight.   *)
THEOREM AccountTypes == Spec => []TypeOK
<1>1. AccountInv => TypeOK
  BY DEF AccountInv
<1> QED
  BY <1>1, AccountInvariant, PTL

(* RemoveHolder never leaves a joint account with fewer than two holders, in  *)
(* whatever order contracts are approved and holders leave.                   *)
THEOREM TwoHoldersStay == Spec => []NeverBelowTwo
<1>1. AccountInv => NeverBelowTwo
  BY DEF AccountInv
<1> QED
  BY <1>1, AccountInvariant, PTL

(* PutHolder and DelState keep the relations equal to the holders.            *)
THEOREM RelationsAgree == Spec => []RelationsMatch
<1>1. AccountInv => RelationsMatch
  BY DEF AccountInv
<1> QED
  BY <1>1, AccountInvariant, PTL

-----------------------------------------------------------------------------
(* Steps that change holders.                                                 *)

(* A step that makes an existing joint account grow finds room below the      *)
(* limit.                                                                     *)
LEMMA AddStepLimit ==
  ASSUME AccountInv, Next, NEW j \in Joint, AccountExists(j),
         ~(account'[j].holders \subseteq account[j].holders)
  PROVE  Cardinality(account'[j].holders) <= MaxSigners
<1>1. TypeOK /\ AccountsStep
  BY StepKinds DEF AccountInv
<1>2. j \in Addr /\ account[j].holders # {}
  BY DEF Addr, AccountExists
<1>3. PICK kid \in Kid : /\ Cardinality(account[j].holders) <= MaxSigners - 1
                       /\ kid \notin account[j].holders
                       /\ account'[j].holders = account[j].holders \cup {kid}
  BY <1>1, <1>2, HoldersStep
<1>4. IsFiniteSet(account[j].holders) /\ Cardinality(account[j].holders) \in Nat
  BY <1>1, <1>2, HoldersAreKids, FS_CardinalityType
<1>5. Cardinality(account'[j].holders) = Cardinality(account[j].holders) + 1
  BY <1>3, <1>4, FS_AddElement
<1> QED
  BY <1>3, <1>4, <1>5, SignersAssumption

(* AddHolder keeps the limit of holders, for any number of contracts proposed *)
(* below it.                                                                  *)
THEOREM LimitHolds == Spec => AddStaysInLimit
<1>1. AccountInv /\ [Next]_vars =>
        [\A a \in Joint : AccountExists(a) /\ account'[a].holders # account[a].holders =>
           Cardinality(account'[a].holders) <= MaxSigners
           \/ account'[a].holders \subseteq account[a].holders]_vars
  BY AddStepLimit
<1> QED
  BY <1>1, AccountInvariant, PTL DEF Spec, AddStaysInLimit

(* A new holder comes from a contract that closes in the step and that the    *)
(* holder signed.                                                             *)
LEMMA JoinStepAsked ==
  ASSUME AccountInv, Next, NEW j \in Joint, NEW k \in account'[j].holders \ account[j].holders
  PROVE  \E c \in contracts : c.status = "open" /\ c \notin contracts' /\ k \in c.doc.signers
<1> USE DEF AccountInv
<1>1. j \in Addr /\ j \notin Kid /\ account \in [Addr -> Account]
  BY AddressAssumption DEF Addr, TypeOK
<1>2. CASE CreateStep
  BY <1>1, <1>2 DEF CreateStep, accountCreate, accountCreateJoint, CreateAccount, ProposeContract, Addr
<1>3. CASE AddStep
  BY <1>3 DEF AddStep, accountHolderAdd, ProposeContract
<1>4. CASE RemoveStep
  BY <1>1, <1>4 DEF RemoveStep, accountHolderRemove, RemoveHolder, ProposeContract, Account
<1>5. CASE CancelStep
  BY <1>5 DEF CancelStep, contractVoid
<1>6. CASE ExecuteStep
  <2>1. PICK c \in contracts :
          /\ OpenContract(c)
          /\ executeAccountCreate(c) \/ executeAccountHolderAdd(c) \/ executeAccountHolderRemove(c)
    BY <1>6 DEF ExecuteStep
  <2>2. c \in AccountContract /\ c.status = "open"
    BY <2>1 DEF TypeOK, OpenContract
  <2>3. c \notin contracts'
    <3>1. [c EXCEPT !.status = "executed"].status = "executed"
      BY <2>2 DEF AccountContract
    <3>2. contracts' = (contracts \ {c}) \cup {[c EXCEPT !.status = "executed"]}
      BY <2>1 DEF executeAccountCreate, executeAccountHolderAdd, executeAccountHolderRemove,
                  CloseContract
    <3> QED
      BY <2>2, <3>1, <3>2
  <2>4. k \in c.doc.kids /\ c.type # "account/holder/remove"
    <3>1. CASE executeAccountCreate(c)
      BY <1>1, <3>1 DEF executeAccountCreate, CreateAccount
    <3>2. CASE executeAccountHolderAdd(c)
      BY <1>1, <3>2 DEF executeAccountHolderAdd, AddHolder, Account
    <3>3. CASE executeAccountHolderRemove(c)
      BY <1>1, <3>3 DEF executeAccountHolderRemove, RemoveHolder, Account
    <3> QED
      BY <2>1, <3>1, <3>2, <3>3
  <2> QED
    BY <2>2, <2>3, <2>4 DEF ContractsValid
<1>7. CASE SuspendStep
  BY <1>1, <1>7 DEF SuspendStep, accountSuspend, accountUnsuspend, SuspendAccount,
                    UnsuspendAccount, Account
<1> QED
  BY <1>2, <1>3, <1>4, <1>5, <1>6, <1>7 DEF Next

(* Whoever becomes a holder of a joint account has been a signer of the       *)
(* contract that executeAccountCreate or executeAccountHolderAdd executes.    *)
THEOREM JoiningIsAsked == Spec => NobodyJoinsUnasked
<1>1. AccountInv /\ [Next]_vars =>
        [\A a \in Joint : \A kid \in account'[a].holders \ account[a].holders :
           \E c \in contracts : /\ c.status = "open" /\ c \notin contracts'
                                /\ kid \in c.doc.signers]_vars
  BY JoinStepAsked
<1> QED
  BY <1>1, AccountInvariant, PTL DEF Spec, NobodyJoinsUnasked
=============================================================================

-------------------------- MODULE ChaincodeProofs --------------------------
(* Theorems of Chaincode: what holds of all components together on one        *)
(* ledger, for any accounts, requests, policies, batch sizes and latencies.   *)
EXTENDS Chaincode, BalanceProofs

-----------------------------------------------------------------------------
(* The inductive invariant.  First the form of all documents.                 *)

Status == {"open", "executed", "canceled"}
TransferContract ==
  [id : Nat, type : {"transfer"},
   doc : [pb : Nat, sender : Addr, receiver : Addr, orderID : OrderID, last : OrderID, asked : Nat],
   expiry : Nat, status : Status]
PayContract ==
  [id : Nat, type : {"pay"}, doc : [pb : Nat, sender : Addr, receiver : Addr],
   expiry : Nat, status : Status]
WrapContract ==
  [id : Nat, type : {"wrap"}, doc : [pb : Nat, sender : Addr, ext : ExtCode],
   expiry : Nat, status : Status]
KntContract ==
  [id : Nat, type : {"token/mint", "token/burn"}, doc : [kids : SUBSET Kid, amount : Nat],
   expiry : Nat, status : Status]
AnyContract == TransferContract \cup PayContract \cup WrapContract \cup KntContract

PendingBalance ==
  [id : Nat, type : {"account", "contract"}, account : Addr, rid : Addr \cup Nat,
   amount : Nat \ {0}, fee : Nat, time : Nat]
FeeDoc == [account : Addr, amount : Int \ {0}, ts : Int, tx : Nat]
PayDocument ==
  [tx : Int \ {0}, merchant : Addr, amount : Int \ {0}, fee : Int, refunded : Nat,
   rid : Addr, parent : Int, ts : Nat]
WrapDocument == [id : Nat, account : Addr, amount : Nat \ {0}, ext : ExtCode, complete : BOOLEAN]

ClockOK == now \in Nat /\ now >= StartTime /\ nextTx \in Nat \ {0}

(* Only personal accounts are suspended; fees go to an account.               *)
TokenOK ==
  /\ token \in Token /\ token.genesis \in Joint
  /\ token.policy.installed => token.policy.target \in Addr
  /\ account \in [Addr -> Account]
  /\ \A a \in Joint : ~IsSuspended(a)

PendingsOK ==
  /\ pending \subseteq PendingBalance
  /\ \A pb \in pending : pb.id < nextTx
  /\ \A pb, qb \in pending : pb.id = qb.id => pb = qb
ContractsOK ==
  /\ contracts \subseteq AnyContract
  /\ \A c \in contracts : c.id < nextTx
  /\ \A c, d \in contracts : c.id = d.id => c = d
  /\ \A c \in Contracted : c.doc.pb = c.id
FeesOK == fees \subseteq FeeDoc /\ \A f \in fees : f.tx < nextTx
PaysOK ==
  /\ IsFiniteSet(pays) /\ pays \subseteq PayDocument
  /\ \A p \in pays : (p.parent = 0 <=> p.amount > 0) /\ p.tx < nextTx
  /\ \A p, q \in pays : p.tx = q.tx => p = q
WrapsOK ==
  /\ IsFiniteSet(wraps) /\ wraps \subseteq WrapDocument
  /\ \A w \in wraps : w.id < nextTx
  /\ \A v, w \in wraps : v.id = w.id => v = w

Documents == ClockOK /\ TokenOK /\ PendingsOK /\ ContractsOK /\ FeesOK /\ PaysOK /\ WrapsOK

(* A deposit belongs to an open contract; only that of a transfer has a fee.  *)
DepositsOK ==
  \A pb \in pending : pb.type = "contract" =>
    \E c \in Contracted : /\ c.status = "open" /\ IsPendingOf(pb, c)
                          /\ c.doc.sender = pb.account /\ c.expiry = pb.time
                          /\ c.type # "transfer" => pb.fee = 0
EscrowOK ==
  /\ DepositsOK
  /\ \A c \in Contracted : c.status = "open" =>
       (\E pb \in pending : IsPendingOf(pb, c)) \/ c.expiry <= now + Skew

(* What has been pruned lies behind the cursor, what an endorsed prune adds   *)
(* up before it: so nothing is collected twice.  The balance an endorsed prune*)
(* has read, and is going to overwrite, is still the account's.               *)
PrunesOK ==
  /\ payCursor \in [Addr -> Int] /\ feeCursor \in Int
  /\ prunedPays \subseteq {p.tx : p \in pays} /\ prunedFees \subseteq fees
  /\ \A p \in pays : p.tx \in prunedPays => p.ts <= payCursor[p.merchant]
  /\ \A f \in prunedFees : f.ts <= feeCursor

EndorsementOK(e) ==
  /\ e.account \in Addr /\ Active(e.account) /\ e.ts \in Int /\ e.tx \in Nat
  /\ e.bal = bal[e.account]
  /\ e.batch # {} /\ e.batch \subseteq pays
  /\ \A p \in e.batch : p.merchant = e.account /\ payCursor[e.account] < p.ts
EndorsedOK ==
  /\ \A e \in endorsed : EndorsementOK(e)
  /\ \A e \in endorsed : FeeSum(e.batch) # 0 => e.tx < nextTx /\ \A f \in fees : f.tx # e.tx
  /\ \A e, d \in endorsed : FeeSum(e.batch) # 0 /\ FeeSum(d.batch) # 0 /\ e.tx = d.tx => e = d
EndorsedFeesOK ==
  \A e \in endorsedFees :
    /\ e.account = token.policy.target /\ e.account \in Addr /\ e.ts \in Int
    /\ e.bal = bal[e.account]
    /\ e.batch # {} /\ e.batch \subseteq fees
    /\ \A f \in e.batch : feeCursor < f.ts

(* The sums.                                                                  *)
SumsOK == Countable /\ AuditTrail /\ Conservation

PrunesInv == PrunesOK /\ EndorsedOK /\ EndorsedFeesOK
Inv == Documents /\ EscrowOK /\ PrunesInv /\ SumsOK

-----------------------------------------------------------------------------
(* What keeps the form of each kind of document, one kind after the other.    *)

(* A transaction uses the next id, or none.                                   *)
IDsGrow == nextTx \in Nat \ {0} /\ nextTx' \in {nextTx, nextTx + 1}

(* Pending balances that stay or leave.                                       *)
LEMMA PendingsStay ==
  ASSUME PendingsOK, IDsGrow, pending' \subseteq pending
  PROVE  PendingsOK'
<1>1. \A pb \in pending : pb.id \in Nat
  BY DEF PendingsOK, PendingBalance
<1> QED
  BY <1>1 DEF PendingsOK, IDsGrow

(* A new pending balance bears the id of the transaction.                     *)
LEMMA PendingsPut ==
  ASSUME PendingsOK, nextTx \in Nat, nextTx' = nextTx + 1,
         NEW type \in {"account", "contract"}, NEW owner \in Addr, NEW rid \in Addr \cup Nat,
         NEW amount \in Nat \ {0}, NEW fee \in Nat, NEW time \in Nat,
         pending' \subseteq pending \cup {Pending(nextTx, type, owner, rid, amount, fee, time)}
  PROVE  PendingsOK'
<1> DEFINE p == Pending(nextTx, type, owner, rid, amount, fee, time)
<1>1. p \in PendingBalance /\ p.id = nextTx
  BY DEF Pending, PendingBalance
<1>2. \A pb \in pending : pb.id \in Nat /\ pb.id < nextTx
  BY DEF PendingsOK, PendingBalance
<1>3. pending' \subseteq pending \cup {p}
  OBVIOUS
<1> HIDE DEF p
<1>4. (\A pb \in pending : pb.id < nextTx)'
  BY <1>1, <1>2, <1>3
<1>5. (\A pb, qb \in pending : pb.id = qb.id => pb = qb)'
  BY <1>1, <1>2, <1>3 DEF PendingsOK
<1> QED
  BY <1>1, <1>3, <1>4, <1>5 DEF PendingsOK

(* What a contract is about.                                                  *)
LEMMA ContractForm ==
  ASSUME ContractsOK, NEW c \in contracts
  PROVE  /\ c.id \in Nat /\ c.id < nextTx /\ c.expiry \in Nat /\ c.status \in Status
         /\ c.type \in {"transfer", "pay", "wrap", "token/mint", "token/burn"}
         /\ c \in Contracted => c.doc.pb = c.id /\ c.doc.sender \in Addr
         /\ c.type \in {"transfer", "pay"} => c.doc.receiver \in Addr
         /\ c.type = "transfer" => c.doc.orderID \in OrderID
         /\ c.type = "wrap" => c.doc.ext \in ExtCode
         /\ c.type \in {"token/mint", "token/burn"} => c.doc.amount \in Nat
<1>1. c \in AnyContract
  BY DEF ContractsOK
<1>2. CASE c \in TransferContract
  BY <1>2 DEF ContractsOK, TransferContract, Contracted
<1>3. CASE c \in PayContract
  BY <1>3 DEF ContractsOK, PayContract, Contracted
<1>4. CASE c \in WrapContract
  BY <1>4 DEF ContractsOK, WrapContract, Contracted
<1>5. CASE c \in KntContract
  BY <1>5 DEF ContractsOK, KntContract, Contracted
<1> QED
  BY <1>1, <1>2, <1>3, <1>4, <1>5 DEF AnyContract

(* A closed contract is the same contract in another state.                   *)
LEMMA ClosedForm ==
  ASSUME ContractsOK, NEW c \in contracts, NEW status \in Status
  PROVE  LET closed == [c EXCEPT !.status = status]
         IN /\ closed \in AnyContract /\ closed.status = status
            /\ closed.id = c.id /\ closed.type = c.type /\ closed.doc = c.doc
            /\ closed.expiry = c.expiry
<1>1. c \in AnyContract
  BY DEF ContractsOK
<1>2. CASE c \in TransferContract
  BY <1>2 DEF AnyContract, TransferContract
<1>3. CASE c \in PayContract
  BY <1>3 DEF AnyContract, PayContract
<1>4. CASE c \in WrapContract
  BY <1>4 DEF AnyContract, WrapContract
<1>5. CASE c \in KntContract
  BY <1>5 DEF AnyContract, KntContract
<1> QED
  BY <1>1, <1>2, <1>3, <1>4, <1>5 DEF AnyContract

(* Contracts that stay.                                                       *)
LEMMA ContractsStay ==
  ASSUME ContractsOK, IDsGrow, contracts' = contracts
  PROVE  ContractsOK'
<1>1. \A c \in contracts : c.id \in Nat
  BY ContractForm
<1> QED
  BY <1>1 DEF ContractsOK, Contracted, IDsGrow

(* One more contract.                                                         *)
LEMMA ContractsPut ==
  ASSUME ContractsOK, nextTx \in Nat, nextTx' = nextTx + 1, NEW c \in AnyContract, c.id = nextTx,
         c.type \in {"transfer", "pay", "wrap"} => c.doc.pb = nextTx,
         contracts' = contracts \cup {c}
  PROVE  ContractsOK'
<1>1. \A d \in contracts : d.id \in Nat /\ d.id < nextTx
  BY ContractForm
<1>2. (\A d \in contracts : d.id < nextTx)'
  BY <1>1
<1>3. (\A d, e \in contracts : d.id = e.id => d = e)'
  BY <1>1 DEF ContractsOK
<1>4. (\A d \in Contracted : d.doc.pb = d.id)'
  BY DEF ContractsOK, Contracted
<1> QED
  BY <1>2, <1>3, <1>4 DEF ContractsOK

(* A contract that is closed.                                                 *)
LEMMA ContractsClosed ==
  ASSUME ContractsOK, IDsGrow, NEW c \in contracts, NEW status \in Status, CloseContract(c, status)
  PROVE  ContractsOK'
<1> DEFINE closed == [c EXCEPT !.status = status]
<1>1. /\ closed \in AnyContract /\ closed.id = c.id /\ closed.type = c.type
      /\ closed.doc = c.doc
  BY ClosedForm
<1>2. contracts' = (contracts \ {c}) \cup {closed}
  BY DEF CloseContract
<1> HIDE DEF closed
<1>3. \A d \in contracts : d.id \in Nat /\ d.id < nextTx
  BY ContractForm
<1>4. (\A d \in contracts : d.id < nextTx)'
  BY <1>1, <1>2, <1>3 DEF IDsGrow
<1>5. (\A d, e \in contracts : d.id = e.id => d = e)'
  BY <1>1, <1>2 DEF ContractsOK
<1>6. (\A d \in Contracted : d.doc.pb = d.id)'
  BY <1>1, <1>2 DEF ContractsOK, Contracted
<1> QED
  BY <1>1, <1>2, <1>4, <1>5, <1>6 DEF ContractsOK

(* Fees stay.                                                                 *)
LEMMA FeesStay ==
  ASSUME FeesOK, IDsGrow, fees' = fees
  PROVE  FeesOK'
<1>1. \A f \in fees : f.tx \in Nat
  BY DEF FeesOK, FeeDoc
<1> QED
  BY <1>1 DEF FeesOK, IDsGrow

(* A new fee is not zero and has the id of a transaction.                     *)
LEMMA FeesPut ==
  ASSUME FeesOK, IDsGrow, NEW a \in Addr, NEW fee \in Int, NEW ts \in Int, NEW tx \in Nat,
         CreateFee(a, fee, ts, tx), fee # 0 => tx < nextTx'
  PROVE  FeesOK'
<1>1. \A f \in fees : f.tx \in Nat
  BY DEF FeesOK, FeeDoc
<1>2. CASE fee = 0
  BY <1>1, <1>2 DEF FeesOK, IDsGrow, CreateFee
<1>3. CASE fee # 0
  <2>1. Fee(a, fee, ts, tx) \in FeeDoc /\ Fee(a, fee, ts, tx).tx = tx
    BY <1>3 DEF Fee, FeeDoc
  <2> QED
    BY <1>1, <1>3, <2>1 DEF FeesOK, IDsGrow, CreateFee
<1> QED
  BY <1>2, <1>3

(* Pays stay.                                                                 *)
LEMMA PaysStay ==
  ASSUME PaysOK, IDsGrow, pays' = pays
  PROVE  PaysOK'
<1>1. \A p \in pays : p.tx \in Int
  BY DEF PaysOK, PayDocument
<1> QED
  BY <1>1 DEF PaysOK, IDsGrow

(* A new pay.                                                                 *)
LEMMA PaysPut ==
  ASSUME PaysOK, nextTx \in Nat \ {0}, nextTx' = nextTx + 1, NEW merchant \in Addr,
         NEW amount \in Nat \ {0}, NEW fee \in Int, NEW rid \in Addr, NEW ts \in Nat,
         pays' = pays \cup {Pay(nextTx, merchant, amount, fee, rid, 0, ts)}
  PROVE  PaysOK'
<1> DEFINE new == Pay(nextTx, merchant, amount, fee, rid, 0, ts)
<1>1. new \in PayDocument /\ new.tx = nextTx /\ new.parent = 0 /\ new.amount > 0
  BY DEF Pay, PayDocument
<1>2. pays' = pays \cup {new}
  OBVIOUS
<1> HIDE DEF new
<1>3. \A p \in pays : p.tx \in Int /\ p.tx < nextTx
  BY DEF PaysOK, PayDocument
<1>4. IsFiniteSet(pays')
  BY <1>2, FS_AddElement DEF PaysOK
<1>5. (\A p \in pays : (p.parent = 0 <=> p.amount > 0) /\ p.tx < nextTx)'
  BY <1>1, <1>2, <1>3 DEF PaysOK
<1>6. (\A p, q \in pays : p.tx = q.tx => p = q)'
  BY <1>1, <1>2, <1>3 DEF PaysOK
<1> QED
  BY <1>1, <1>2, <1>4, <1>5, <1>6 DEF PaysOK

(* A refund: what becomes of the parent, and the new document.                *)
Refunded(parent, amount) == [parent EXCEPT !.refunded = @ + amount]

(* Both are pay documents, and the parent remains what it was but for the     *)
(* amount refunded.                                                           *)
LEMMA RefundForm ==
  ASSUME PaysOK, NEW parent \in pays, nextTx \in Nat \ {0}, NEW amount \in Nat \ {0},
         NEW fee \in Int, NEW ts \in Nat, parent.refunded + amount <= parent.amount,
         Refund(nextTx, parent, amount, fee, ts),
         NEW old, old = Refunded(parent, amount),
         NEW new, new = Pay(nextTx, parent.merchant, -amount, -fee, parent.rid, parent.tx, ts)
  PROVE  /\ pays' = (pays \ {parent}) \cup {old, new}
         /\ old \in PayDocument /\ old # parent /\ old.tx = parent.tx /\ old.amount = parent.amount
         /\ old.fee = parent.fee /\ old.merchant = parent.merchant /\ old.ts = parent.ts
         /\ old.parent = parent.parent /\ old.refunded = parent.refunded + amount
         /\ old.rid = parent.rid
         /\ new \in PayDocument /\ new.tx = nextTx /\ new.amount = -amount /\ new.fee = -fee
         /\ new.merchant = parent.merchant /\ new.ts = ts /\ new.parent = parent.tx
         /\ parent.amount > 0
<1>1. parent \in PayDocument
  BY DEF PaysOK
<1>2. /\ parent.tx \in Int \ {0} /\ parent.merchant \in Addr /\ parent.rid \in Addr
      /\ parent.amount \in Int \ {0} /\ parent.refunded \in Nat /\ parent.fee \in Int
  BY <1>1 DEF PayDocument
<1>3. parent.amount > 0
  BY <1>2
<1>4. /\ old \in PayDocument /\ old.tx = parent.tx /\ old.amount = parent.amount
      /\ old.fee = parent.fee /\ old.merchant = parent.merchant /\ old.ts = parent.ts
      /\ old.parent = parent.parent /\ old.refunded = parent.refunded + amount
      /\ old.rid = parent.rid
  BY <1>1 DEF PayDocument, Refunded
<1>5. old # parent
  BY <1>2, <1>4
<1>6. /\ new \in PayDocument /\ new.tx = nextTx /\ new.amount = -amount /\ new.fee = -fee
      /\ new.merchant = parent.merchant /\ new.ts = ts /\ new.parent = parent.tx
  BY <1>2 DEF PayDocument, Pay
<1>7. pays' = (pays \ {parent}) \cup {old, new}
  BY DEF Refund, Refunded
<1> QED
  BY <1>3, <1>4, <1>5, <1>6, <1>7

(* So pays stay well-formed.                                                  *)
LEMMA PaysRefunded ==
  ASSUME PaysOK, NEW parent \in pays, nextTx \in Nat \ {0}, nextTx' = nextTx + 1,
         NEW amount \in Nat \ {0}, NEW fee \in Int, NEW ts \in Nat,
         parent.refunded + amount <= parent.amount, Refund(nextTx, parent, amount, fee, ts)
  PROVE  PaysOK'
<1>1. PICK old : old = Refunded(parent, amount)
  OBVIOUS
<1>2. PICK new : new = Pay(nextTx, parent.merchant, -amount, -fee, parent.rid, parent.tx, ts)
  OBVIOUS
<1>3. /\ pays' = (pays \ {parent}) \cup {old, new}
      /\ old \in PayDocument /\ old.tx = parent.tx /\ old.amount = parent.amount
      /\ old.parent = parent.parent
      /\ new \in PayDocument /\ new.tx = nextTx /\ new.amount = -amount /\ new.parent = parent.tx
      /\ parent.amount > 0
  BY <1>1, <1>2, RefundForm
<1>4. \A p \in pays : p.tx \in Int \ {0} /\ p.tx < nextTx
  BY DEF PaysOK, PayDocument
<1>5. IsFiniteSet(pays')
  <2>1. IsFiniteSet(pays \ {parent}) /\ IsFiniteSet({old, new})
    BY FS_RemoveElement, PairFinite DEF PaysOK
  <2> QED
    BY <1>3, <2>1, FS_Union
<1>6. (\A p \in pays : (p.parent = 0 <=> p.amount > 0) /\ p.tx < nextTx)'
  BY <1>3, <1>4 DEF PaysOK
<1>7. (\A p, q \in pays : p.tx = q.tx => p = q)'
  BY <1>3, <1>4 DEF PaysOK
<1> QED
  BY <1>3, <1>5, <1>6, <1>7 DEF PaysOK

(* Wraps stay.                                                                *)
LEMMA WrapsStay ==
  ASSUME WrapsOK, IDsGrow, wraps' = wraps
  PROVE  WrapsOK'
<1>1. \A w \in wraps : w.id \in Nat
  BY DEF WrapsOK, WrapDocument
<1> QED
  BY <1>1 DEF WrapsOK, IDsGrow

(* A new wrap.                                                                *)
LEMMA WrapsPut ==
  ASSUME WrapsOK, nextTx \in Nat, nextTx' = nextTx + 1, NEW a \in Addr, NEW amount \in Nat \ {0},
         NEW ext \in ExtCode, wraps' = wraps \cup {Wrap(nextTx, a, amount, ext)}
  PROVE  WrapsOK'
<1> DEFINE new == Wrap(nextTx, a, amount, ext)
<1>1. new \in WrapDocument /\ new.id = nextTx
  BY DEF Wrap, WrapDocument
<1>2. wraps' = wraps \cup {new}
  OBVIOUS
<1> HIDE DEF new
<1>3. \A w \in wraps : w.id \in Nat /\ w.id < nextTx
  BY DEF WrapsOK, WrapDocument
<1>4. IsFiniteSet(wraps')
  BY <1>2, FS_AddElement DEF WrapsOK
<1>5. (\A v, w \in wraps : v.id = w.id => v = w)'
  BY <1>1, <1>2, <1>3 DEF WrapsOK
<1> QED
  BY <1>1, <1>2, <1>3, <1>4, <1>5 DEF WrapsOK

(* A completed wrap.                                                          *)
LEMMA WrapsClosed ==
  ASSUME WrapsOK, IDsGrow, NEW w \in wraps,
         wraps' = (wraps \ {w}) \cup {[w EXCEPT !.complete = TRUE]}
  PROVE  WrapsOK'
<1> DEFINE closed == [w EXCEPT !.complete = TRUE]
<1>1. closed \in WrapDocument /\ closed.id = w.id
  BY DEF WrapsOK, WrapDocument
<1>2. wraps' = (wraps \ {w}) \cup {closed}
  OBVIOUS
<1> HIDE DEF closed
<1>3. \A v \in wraps : v.id \in Nat /\ v.id < nextTx
  BY DEF WrapsOK, WrapDocument
<1>4. IsFiniteSet(wraps')
  <2>1. IsFiniteSet(wraps \ {w}) /\ IsFiniteSet({closed})
    BY FS_RemoveElement, PairFinite DEF WrapsOK
  <2>2. IsFiniteSet((wraps \ {w}) \cup {closed})
    BY <2>1, FS_Union
  <2> QED
    BY ONLY <1>2, <2>2
<1>5. (\A v, u \in wraps : v.id = u.id => v = u)'
  BY <1>1, <1>2 DEF WrapsOK
<1>6. (\A v \in wraps : v.id < nextTx)'
  BY <1>1, <1>2, <1>3 DEF IDsGrow
<1> QED
  BY <1>1, <1>2, <1>4, <1>5, <1>6 DEF WrapsOK

-----------------------------------------------------------------------------
(* The sums.  Fees that were collected are in a balance: what there is, is    *)
(* Money less those fees, with what pays and wraps hold.                      *)
Circulating ==
  Money - AmountSum(prunedFees) + AmountSum(Uncollected) + AmountSum(Open)

(* What has not been collected, and the open wraps, add up.                   *)
LEMMA AsideInt ==
  ASSUME PaysOK, WrapsOK
  PROVE  /\ IsFiniteSet(Uncollected) /\ IntAmounts(Uncollected) /\ AmountSum(Uncollected) \in Int
         /\ IsFiniteSet(Open) /\ IntAmounts(Open) /\ AmountSum(Open) \in Int
<1>1. IsFiniteSet(Uncollected) /\ IntAmounts(Uncollected)
  BY FS_Subset DEF PaysOK, PayDocument, Uncollected, IntAmounts
<1>2. IsFiniteSet(Open) /\ IntAmounts(Open)
  BY FS_Subset DEF WrapsOK, WrapDocument, Open, IntAmounts
<1> QED
  BY <1>1, <1>2, AmountSumTake

(* Conservation says that what is circulating is the supply.                  *)
LEMMA ConservationIs ==
  ASSUME Countable, PaysOK, WrapsOK, prunedFees \subseteq fees
  PROVE  /\ Conservation <=> Circulating = token.supply
         /\ Money \in Int /\ AmountSum(prunedFees) \in Int
<1>1. /\ AmountSum(fees) \in Int /\ AmountSum(prunedFees) \in Int
      /\ AmountSum(fees \ prunedFees) \in Int
      /\ AmountSum(fees) = AmountSum(prunedFees) + AmountSum(fees \ prunedFees)
  BY AmountSumSplit DEF Countable
<1>2. SumFunction(bal) \in Int /\ DepositSum(pending) \in Int
  BY MoneyInt
<1>3. AmountSum(Uncollected) \in Int /\ AmountSum(Open) \in Int
  BY AsideInt
<1>4. Conservation <=>
        SumFunction(bal) + DepositSum(pending) + AmountSum(fees \ prunedFees)
          + AmountSum(Uncollected) + AmountSum(Open) = token.supply
  BY DEF Conservation, Total, AmountSum, DepositSum
<1>5. Circulating = SumFunction(bal) + DepositSum(pending) + AmountSum(fees)
                      - AmountSum(prunedFees) + AmountSum(Uncollected) + AmountSum(Open)
  BY <1>1, <1>2, <1>3 DEF Circulating, Money
<1>6. Money \in Int
  BY <1>1, <1>2 DEF Money
<1> QED
  BY <1>1, <1>2, <1>3, <1>4, <1>5, <1>6

(* A new pay waits to be collected.                                           *)
LEMMA UncollectedPut ==
  ASSUME PaysOK, WrapsOK, nextTx \in Nat, NEW p, p.tx = nextTx, p.amount \in Int,
         prunedPays \subseteq {q.tx : q \in pays},
         pays' = pays \cup {p}, prunedPays' = prunedPays
  PROVE  AmountSum(Uncollected') = AmountSum(Uncollected) + p.amount
<1>1. \A q \in pays : q.tx \in Int /\ q.tx < nextTx
  BY DEF PaysOK, PayDocument
<1>2. p \notin pays /\ p.tx \notin prunedPays
  BY <1>1
<1>3. Uncollected' = Uncollected \cup {p} /\ p \notin Uncollected
  BY <1>2 DEF Uncollected
<1> QED
  BY <1>3, AsideInt, AmountSumAdd

(* So does a refund, whether the pay it returns is collected or not.          *)
LEMMA UncollectedRefunded ==
  ASSUME PaysOK, WrapsOK, nextTx \in Nat, NEW parent \in pays, NEW old, NEW new,
         pays' = (pays \ {parent}) \cup {old, new}, old.tx = parent.tx, old # parent,
         old.amount = parent.amount, new.tx = nextTx, new.amount \in Int,
         prunedPays \subseteq {q.tx : q \in pays}, prunedPays' = prunedPays
  PROVE  AmountSum(Uncollected') = AmountSum(Uncollected) + new.amount
<1>1. \A q \in pays : q.tx \in Int /\ q.tx < nextTx
  BY DEF PaysOK, PayDocument
<1>2. new \notin pays /\ new.tx \notin prunedPays
  BY <1>1
<1>3. old \notin pays /\ old # new
  <2>1. old.tx < nextTx /\ old.tx \in Int
    BY <1>1
  <2> QED
    BY <2>1 DEF PaysOK
<1>4. /\ IsFiniteSet(Uncollected) /\ IntAmounts(Uncollected) /\ AmountSum(Uncollected) \in Int
  BY AsideInt
<1>5. CASE parent.tx \in prunedPays
  <2>1. Uncollected' = Uncollected \cup {new} /\ new \notin Uncollected
    BY <1>2, <1>5 DEF Uncollected
  <2> QED
    BY <1>4, <2>1, AmountSumAdd
<1>6. CASE parent.tx \notin prunedPays
  <2> DEFINE rest == Uncollected \ {parent}
  <2>1. PICK more : more = rest \cup {old}
    OBVIOUS
  <2>2. parent \in Uncollected /\ parent.amount \in Int
    BY <1>6, <1>4 DEF Uncollected, IntAmounts
  <2>3. Uncollected' = more \cup {new} /\ new \notin more /\ old \notin rest
    BY <1>2, <1>3, <1>6, <2>1 DEF Uncollected
  <2>4. IsFiniteSet(rest) /\ IntAmounts(rest)
    BY <1>4, FS_RemoveElement DEF IntAmounts
  <2>5. AmountSum(rest) = AmountSum(Uncollected) - parent.amount
    BY <1>4, <2>2, AmountSumTake
  <2> HIDE DEF rest
  <2>6. old.amount \in Int
    BY <2>2
  <2>7. IsFiniteSet(more) /\ AmountSum(more) = AmountSum(rest) + old.amount
    BY <2>1, <2>3, <2>4, <2>6, AmountSumAdd
  <2>8. IntAmounts(more)
    BY <2>1, <2>4, <2>6 DEF IntAmounts
  <2>9. AmountSum(more \cup {new}) = AmountSum(more) + new.amount
    BY <2>3, <2>7, <2>8, AmountSumAdd
  <2> QED
    BY <1>4, <2>2, <2>3, <2>5, <2>7, <2>9
<1> QED
  BY <1>5, <1>6

(* What a prune adds up is no longer uncollected.                             *)
LEMMA UncollectedPruned ==
  ASSUME PaysOK, WrapsOK, NEW batch, batch \subseteq Uncollected,
         pays' = pays, prunedPays' = prunedPays \cup {p.tx : p \in batch}
  PROVE  /\ AmountSum(batch) \in Int
         /\ AmountSum(Uncollected') = AmountSum(Uncollected) - AmountSum(batch)
<1>1. Uncollected' = Uncollected \ batch
  BY DEF Uncollected, PaysOK
<1>2. /\ AmountSum(Uncollected) \in Int /\ AmountSum(batch) \in Int
      /\ AmountSum(Uncollected \ batch) \in Int
      /\ AmountSum(Uncollected) = AmountSum(batch) + AmountSum(Uncollected \ batch)
  BY AsideInt, AmountSumSplit
<1> QED
  BY <1>1, <1>2

(* A wrap is open at first.                                                   *)
LEMMA OpenPut ==
  ASSUME PaysOK, WrapsOK, nextTx \in Nat, NEW a, NEW amount \in Int, NEW ext,
         wraps' = wraps \cup {Wrap(nextTx, a, amount, ext)}
  PROVE  AmountSum(Open') = AmountSum(Open) + amount
<1> DEFINE w == Wrap(nextTx, a, amount, ext)
<1>1. w.id = nextTx /\ ~w.complete /\ w.amount = amount
  BY DEF Wrap
<1>2. \A v \in wraps : v.id \in Int /\ v.id < nextTx
  BY DEF WrapsOK, WrapDocument
<1>3. wraps' = wraps \cup {w}
  OBVIOUS
<1> HIDE DEF w
<1>4. w \notin wraps
  BY <1>1, <1>2
<1>5. Open' = Open \cup {w} /\ w \notin Open
  BY <1>1, <1>3, <1>4 DEF Open
<1> QED
  BY <1>1, <1>5, AsideInt, AmountSumAdd

(* A completed wrap is open no more.                                          *)
LEMMA OpenClosed ==
  ASSUME PaysOK, WrapsOK, NEW w \in wraps, ~w.complete,
         wraps' = (wraps \ {w}) \cup {[w EXCEPT !.complete = TRUE]}
  PROVE  w.amount \in Int /\ AmountSum(Open') = AmountSum(Open) - w.amount
<1> DEFINE closed == [w EXCEPT !.complete = TRUE]
<1>1. closed.complete = TRUE
  BY DEF WrapsOK, WrapDocument
<1>2. wraps' = (wraps \ {w}) \cup {closed}
  OBVIOUS
<1> HIDE DEF closed
<1>3. Open' = Open \ {w} /\ w \in Open
  BY <1>1, <1>2 DEF Open
<1>4. w.amount \in Int
  BY DEF WrapsOK, WrapDocument
<1> QED
  BY <1>3, <1>4, AsideInt, AmountSumTake

-----------------------------------------------------------------------------
(* A request, a callback or the clock: what it keeps, and what it leaves to   *)
(* the prunes.                                                                *)

(* Prunes find the documents they knew, new ones bear the id of this step.    *)
PrunesStay ==
  /\ UNCHANGED <<payCursor, prunedPays, feeCursor, prunedFees>>
  /\ fees \subseteq fees' /\ \A f \in fees' : f \in fees \/ f.tx = nextTx
  /\ \A p \in pays : \E q \in pays' : q.tx = p.tx
  /\ \A q \in pays' : \/ q.tx = nextTx
                      \/ \E p \in pays : p.tx = q.tx /\ p.merchant = q.merchant /\ p.ts = q.ts

(* Money is taken from accounts that have it and are not suspended.           *)
Solvent == \A a \in Addr : bal'[a] < bal[a] => bal'[a] >= 0 /\ ~IsSuspended(a)

Kept == Documents' /\ EscrowOK' /\ SumsOK' /\ PrunesStay /\ Solvent

(* Most steps leave these alone.                                              *)
Quiet == UNCHANGED <<now, token, account, payCursor, prunedPays, feeCursor, prunedFees>>

(* What the invariant says of the numbers in the state.                       *)
LEMMA InvFacts ==
  ASSUME Inv
  PROVE  /\ Documents /\ EscrowOK /\ PrunesOK /\ Countable /\ AuditTrail /\ Conservation
         /\ ClockOK /\ TokenOK /\ PendingsOK /\ ContractsOK /\ FeesOK /\ PaysOK /\ WrapsOK
         /\ Fresh(nextTx) /\ nextTx \in Nat \ {0} /\ now \in Nat /\ now >= StartTime
         /\ bal \in [Addr -> Int] /\ token.policy \in FeePolicy /\ token.supply \in Int
         /\ prunedFees \subseteq fees /\ prunedPays \subseteq {p.tx : p \in pays}
<1>1. /\ Documents /\ EscrowOK /\ PrunesOK /\ Countable /\ AuditTrail /\ Conservation
      /\ ClockOK /\ TokenOK /\ PendingsOK /\ ContractsOK /\ FeesOK /\ PaysOK /\ WrapsOK
  BY DEF Inv, Documents, PrunesInv, SumsOK
<1>2. /\ nextTx \in Nat \ {0} /\ now \in Nat /\ now >= StartTime
      /\ bal \in [Addr -> Int] /\ token.policy \in FeePolicy /\ token.supply \in Int
      /\ prunedFees \subseteq fees /\ prunedPays \subseteq {p.tx : p \in pays}
  BY <1>1 DEF ClockOK, TokenOK, Token, Countable, PrunesOK
<1>3. \A pb \in pending : pb.id \in Nat /\ pb.id < nextTx
  BY <1>1 DEF PendingsOK, PendingBalance
<1>4. \A f \in fees : f.tx \in Nat /\ f.tx < nextTx
  BY <1>1 DEF FeesOK, FeeDoc
<1>5. Fresh(nextTx)
  BY <1>2, <1>3, <1>4 DEF Fresh
<1> QED
  BY <1>1, <1>2, <1>5

(* The clock and the token.                                                   *)
LEMMA QuietKeeps ==
  ASSUME ClockOK, TokenOK, IDsGrow, Quiet
  PROVE  ClockOK' /\ TokenOK'
BY DEF ClockOK, TokenOK, IDsGrow, Quiet, IsSuspended

(* All sums are integers.                                                     *)
LEMMA SumsInt ==
  ASSUME Inv
  PROVE  /\ Money \in Int /\ AmountSum(prunedFees) \in Int
         /\ AmountSum(Uncollected) \in Int /\ AmountSum(Open) \in Int
         /\ Circulating = token.supply
BY InvFacts, ConservationIs, AsideInt

(* The same after a step.                                                     *)
LEMMA ConservationNext ==
  (Countable /\ PaysOK /\ WrapsOK /\ prunedFees \subseteq fees =>
     (Conservation <=> Circulating = token.supply))'
<1>1. Countable /\ PaysOK /\ WrapsOK /\ prunedFees \subseteq fees =>
        (Conservation <=> Circulating = token.supply)
  BY ConservationIs
<1> QED
  BY <1>1, PTL

(* The sums are kept if what money gains, pays, wraps or the supply lose.     *)
LEMMA SumsKept ==
  ASSUME Inv, Documents', PrunesStay, Countable', AuditTrail',
         Money' + AmountSum(Uncollected') + AmountSum(Open') - token'.supply
           = Money + AmountSum(Uncollected) + AmountSum(Open) - token.supply,
         Money' \in Int, AmountSum(Uncollected') \in Int, AmountSum(Open') \in Int
  PROVE  SumsOK'
<1>1. /\ Money \in Int /\ AmountSum(prunedFees) \in Int
      /\ AmountSum(Uncollected) \in Int /\ AmountSum(Open) \in Int
      /\ Circulating = token.supply
  BY SumsInt
<1>2. PaysOK' /\ WrapsOK' /\ token'.supply \in Int /\ token.supply \in Int
  BY InvFacts DEF Documents, TokenOK, Token
<1>3. prunedFees' = prunedFees /\ prunedFees' \subseteq fees'
  BY InvFacts DEF PrunesStay
<1>4. Conservation' <=> Circulating' = token'.supply
  BY <1>2, <1>3, ConservationNext
<1>5. Circulating' = Money' - AmountSum(prunedFees) + AmountSum(Uncollected') + AmountSum(Open')
  BY <1>3 DEF Circulating
<1>6. Circulating = Money - AmountSum(prunedFees) + AmountSum(Uncollected) + AmountSum(Open)
  BY DEF Circulating
<1>7. Circulating' = token'.supply
  BY <1>1, <1>2, <1>5, <1>6
<1> QED
  BY <1>4, <1>7 DEF SumsOK

(* What pays and wraps hold does not change while they stay.                  *)
LEMMA AsideStays ==
  /\ pays' = pays /\ prunedPays' = prunedPays => AmountSum(Uncollected') = AmountSum(Uncollected)
  /\ wraps' = wraps => AmountSum(Open') = AmountSum(Open)
<1>1. ASSUME pays' = pays, prunedPays' = prunedPays
      PROVE  AmountSum(Uncollected') = AmountSum(Uncollected)
  BY <1>1 DEF Uncollected
<1>2. ASSUME wraps' = wraps
      PROVE  AmountSum(Open') = AmountSum(Open)
  BY <1>2 DEF Open
<1> QED
  BY <1>1, <1>2

(* Where one balance changes, solvency is a matter of that account.           *)
LEMMA SolventOne ==
  ASSUME bal \in [Addr -> Int], NEW a \in Addr, NEW d \in Int, bal' = [bal EXCEPT ![a] = bal[a] + d],
         d >= 0 \/ (bal[a] + d >= 0 /\ ~IsSuspended(a))
  PROVE  Solvent
BY DEF Solvent

-----------------------------------------------------------------------------
(* Deposits and open contracts.                                               *)

(* A contract's expiry lies in the past of any later state as well.           *)
Later == now \in Nat /\ now' \in {now, now + 1}

(* The counterparts of a deposit, and of a contract.                          *)
HasContract(pb) ==
  \E c \in Contracted : /\ c.status = "open" /\ IsPendingOf(pb, c)
                        /\ c.doc.sender = pb.account /\ c.expiry = pb.time
                        /\ c.type # "transfer" => pb.fee = 0
HasDeposit(c) == (\E pb \in pending : IsPendingOf(pb, c)) \/ c.expiry <= now + Skew

(* EscrowOK in these words.                                                   *)
LEMMA EscrowParts ==
  EscrowOK <=> /\ \A pb \in pending : pb.type = "contract" => HasContract(pb)
               /\ \A c \in Contracted : c.status = "open" => HasDeposit(c)
BY DEF EscrowOK, DepositsOK, HasContract, HasDeposit

(* What had been overdue remains so.                                          *)
LEMMA OverdueStays ==
  ASSUME ContractsOK, Later, NEW c \in contracts, c.expiry <= now + Skew
  PROVE  c.expiry <= now' + Skew
BY ContractForm, ContextAssumption DEF Later

(* Steps that leave contracts with deposits alone, and all deposits.          *)
LEMMA EscrowStays ==
  ASSUME EscrowOK, ContractsOK, Later, Contracted' = Contracted, pending \subseteq pending',
         \A p \in pending' : p \in pending \/ p.type = "account"
  PROVE  EscrowOK'
<1>1. ASSUME NEW p \in pending', p.type = "contract"
      PROVE  HasContract(p)'
  <2>1. p \in pending
    BY <1>1
  <2> QED
    BY <1>1, <2>1, EscrowParts DEF HasContract, IsPendingOf
<1>2. ASSUME NEW c \in Contracted', c.status = "open"
      PROVE  HasDeposit(c)'
  <2>1. c \in Contracted /\ c \in contracts
    BY DEF Contracted
  <2>2. CASE c.expiry <= now + Skew
    BY <2>1, <2>2, OverdueStays DEF HasDeposit
  <2>3. CASE \E p \in pending : IsPendingOf(p, c)
    BY <2>3 DEF HasDeposit, IsPendingOf
  <2> QED
    BY <1>2, <2>1, <2>2, <2>3, EscrowParts DEF HasDeposit
<1> QED
  BY <1>1, <1>2 DEF EscrowOK, DepositsOK, HasContract, HasDeposit, IsPendingOf

(* A new contract comes with its deposit.                                     *)
LEMMA EscrowPut ==
  ASSUME EscrowOK, ContractsOK, Later, NEW p, NEW c,
         pending' = pending \cup {p}, contracts' = contracts \cup {c},
         c.type \in {"transfer", "pay", "wrap"}, c.status = "open", IsPendingOf(p, c),
         c.doc.sender = p.account, c.expiry = p.time, c.type # "transfer" => p.fee = 0
  PROVE  EscrowOK'
<1>1. Contracted' = Contracted \cup {c}
  BY DEF Contracted
<1>2. ASSUME NEW q \in pending', q.type = "contract"
      PROVE  HasContract(q)'
  <2>1. CASE q = p
    BY <1>1, <2>1 DEF HasContract, IsPendingOf
  <2>2. CASE q \in pending
    BY <1>1, <1>2, <2>2, EscrowParts DEF HasContract, IsPendingOf
  <2> QED
    BY <2>1, <2>2
<1>3. ASSUME NEW d \in Contracted', d.status = "open"
      PROVE  HasDeposit(d)'
  <2>1. CASE d = c
    BY <2>1 DEF HasDeposit, IsPendingOf
  <2>2. CASE d \in Contracted
    <3>1. d \in contracts /\ HasDeposit(d)
      BY <1>3, <2>2, EscrowParts DEF Contracted
    <3>2. CASE d.expiry <= now + Skew
      BY <3>1, <3>2, OverdueStays DEF HasDeposit
    <3>3. CASE \E q \in pending : IsPendingOf(q, d)
      BY <3>3 DEF HasDeposit, IsPendingOf
    <3> QED
      BY <3>1, <3>2, <3>3 DEF HasDeposit
  <2> QED
    BY <1>1, <2>1, <2>2
<1> QED
  BY <1>2, <1>3 DEF EscrowOK, DepositsOK, HasContract, HasDeposit, IsPendingOf

(* A callback removes the contract it closes from the open ones together with *)
(* the one pending balance that waits for it, and touches no other deposit.   *)
LEMMA EscrowClosed ==
  ASSUME EscrowOK, ContractsOK, PendingsOK, Later,
         NEW c \in Contracted, NEW pb \in pending, IsPendingOf(pb, c),
         NEW status \in {"executed", "canceled"}, CloseContract(c, status),
         pending \ {pb} \subseteq pending', pb \notin pending',
         \A p \in pending' : p \in pending \/ p.type = "account"
  PROVE  EscrowOK'
<1>0. c \in contracts
  BY DEF Contracted
<1> DEFINE closed == [c EXCEPT !.status = status]
<1>1. closed.status # "open" /\ contracts' = (contracts \ {c}) \cup {closed}
  BY <1>0, ClosedForm DEF CloseContract, Status
<1> HIDE DEF closed
<1>2. \A d \in Contracted : d # c => d \in Contracted'
  BY <1>1 DEF Contracted
<1>3. \A d \in Contracted' : d.status = "open" => d \in Contracted /\ d # c
  <2>1. closed \in AnyContract /\ closed.status # "open"
    BY <1>0, <1>1, ClosedForm DEF closed, Status
  <2>2. \A d \in Contracted' : d = closed \/ (d \in Contracted /\ d # c)
    BY <1>1 DEF Contracted
  <2> QED
    BY <2>1, <2>2
<1>4. ASSUME NEW p \in pending', p.type = "contract"
      PROVE  HasContract(p)'
  <2>1. p \in pending /\ p # pb
    BY <1>4
  <2>2. PICK d \in Contracted : /\ d.status = "open" /\ IsPendingOf(p, d)
                                /\ d.doc.sender = p.account /\ d.expiry = p.time
                                /\ d.type # "transfer" => p.fee = 0
    BY <1>4, <2>1, EscrowParts DEF HasContract
  <2>3. d # c
    BY <2>1, <2>2 DEF IsPendingOf, PendingsOK
  <2> QED
    BY <1>2, <2>2, <2>3 DEF HasContract, IsPendingOf
<1>5. ASSUME NEW d \in Contracted', d.status = "open"
      PROVE  HasDeposit(d)'
  <2>1. d \in Contracted /\ d # c /\ d \in contracts /\ HasDeposit(d)
    BY <1>3, <1>5, EscrowParts DEF Contracted
  <2>2. CASE d.expiry <= now + Skew
    BY <2>1, <2>2, OverdueStays DEF HasDeposit
  <2>3. CASE \E p \in pending : IsPendingOf(p, d)
    <3>1. PICK p \in pending : IsPendingOf(p, d)
      BY <2>3
    <3>2. p # pb
      BY <1>0, <2>1, <3>1 DEF IsPendingOf, ContractsOK
    <3> QED
      BY <3>1, <3>2 DEF HasDeposit, IsPendingOf
  <2> QED
    BY <2>1, <2>2, <2>3 DEF HasDeposit
<1> QED
  BY <1>4, <1>5 DEF EscrowOK, DepositsOK, HasContract, HasDeposit, IsPendingOf

(* A withdrawal takes a deposit from its contract only at the expiry time.    *)
LEMMA EscrowWithdrawn ==
  ASSUME EscrowOK, ContractsOK, Later, NEW pb \in pending, pb.time <= now + Skew,
         pending' = pending \ {pb}, contracts' = contracts
  PROVE  EscrowOK'
<1>1. Contracted' = Contracted
  BY DEF Contracted
<1>2. ASSUME NEW p \in pending', p.type = "contract"
      PROVE  HasContract(p)'
  BY <1>1, <1>2, EscrowParts DEF HasContract, IsPendingOf
<1>3. ASSUME NEW c \in Contracted', c.status = "open"
      PROVE  HasDeposit(c)'
  <2>0. c \in contracts /\ c \in Contracted
    BY <1>1 DEF Contracted
  <2>1. CASE IsPendingOf(pb, c)
    <3>1. PICK d \in Contracted : IsPendingOf(pb, d) /\ d.expiry = pb.time
      BY <2>1, EscrowParts DEF HasContract, IsPendingOf
    <3>2. d = c
      BY <2>0, <2>1, <3>1 DEF IsPendingOf, ContractsOK, Contracted
    <3> QED
      BY <2>0, <3>1, <3>2, OverdueStays DEF HasDeposit
  <2>2. CASE c.expiry <= now + Skew
    BY <2>0, <2>2, OverdueStays DEF HasDeposit
  <2>3. CASE ~IsPendingOf(pb, c) /\ \E p \in pending : IsPendingOf(p, c)
    BY <2>3 DEF HasDeposit, IsPendingOf
  <2> QED
    BY <1>3, <2>0, <2>1, <2>2, <2>3, EscrowParts DEF HasDeposit
<1> QED
  BY <1>2, <1>3 DEF EscrowOK, DepositsOK, HasContract, HasDeposit, IsPendingOf

-----------------------------------------------------------------------------
(* One step after the other.  Transfers, pays and wraps of several signers    *)
(* make a contract and a deposit.                                             *)
LEMMA ProposeKeeps ==
  ASSUME Inv, Quiet, nextTx' = nextTx + 1, UNCHANGED <<fees, pays, wraps>>,
         NEW sender \in Addr, ~IsSuspended(sender), NEW expiry \in Nat,
         NEW amount \in Nat \ {0}, NEW fee \in Nat, NEW ts, Covers(sender, amount + fee),
         Deposit(nextTx, sender, nextTx, expiry, amount, fee, ts),
         NEW c \in AnyContract, c.id = nextTx, c.type \in {"transfer", "pay", "wrap"},
         c.doc.pb = nextTx, c.doc.sender = sender, c.expiry = expiry, c.status = "open",
         c.type # "transfer" => fee = 0, contracts' = contracts \cup {c}
  PROVE  Kept
<1>1. /\ ClockOK /\ TokenOK /\ PendingsOK /\ ContractsOK /\ FeesOK /\ PaysOK /\ WrapsOK
      /\ EscrowOK /\ Countable /\ AuditTrail /\ Fresh(nextTx) /\ nextTx \in Nat \ {0}
      /\ now \in Nat /\ bal \in [Addr -> Int] /\ token.supply \in Int
  BY InvFacts
<1>2. IDsGrow /\ Later
  BY <1>1 DEF IDsGrow, Later, Quiet
<1> DEFINE p == Pending(nextTx, "contract", sender, nextTx, amount, fee, expiry)
<1>3. /\ pending' = pending \cup {p} /\ p.account = sender /\ p.time = expiry /\ p.fee = fee
      /\ IsPendingOf(p, c)
  BY DEF Deposit, Pending, IsPendingOf
<1>4. PendingsOK'
  BY <1>1, <1>3, PendingsPut
<1>5. ContractsOK'
  BY <1>1, ContractsPut
<1>6. ClockOK' /\ TokenOK' /\ FeesOK' /\ PaysOK' /\ WrapsOK'
  BY <1>1, <1>2, QuietKeeps, FeesStay, PaysStay, WrapsStay
<1>7. Documents'
  BY <1>4, <1>5, <1>6 DEF Documents
<1> HIDE DEF p
<1>8. EscrowOK'
  BY <1>1, <1>2, <1>3, EscrowPut
<1>9. Countable' /\ AuditTrail' /\ Money' = Money
  BY <1>1, DepositMoves
<1>10. PrunesStay
  BY DEF PrunesStay, Quiet
<1>11. /\ AmountSum(Uncollected') = AmountSum(Uncollected) /\ AmountSum(Open') = AmountSum(Open)
       /\ token'.supply = token.supply
  BY AsideStays DEF Quiet
<1>12. SumsOK'
  BY <1>7, <1>9, <1>10, <1>11, SumsInt, SumsKept
<1>13. Solvent
  <2>1. bal' = [bal EXCEPT ![sender] = bal[sender] + (-(amount + fee))]
    BY <1>1 DEF Deposit
  <2>2. -(amount + fee) \in Int /\ bal[sender] + (-(amount + fee)) >= 0
    BY <1>1 DEF Covers
  <2> QED
    BY <1>1, <2>1, <2>2, SolventOne
<1> QED
  BY <1>7, <1>8, <1>10, <1>12, <1>13 DEF Kept

(* transfer.                                                                  *)
LEMMA TransferStepKeeps ==
  ASSUME Inv, TransferStep
  PROVE  Kept
<1>1. PICK r \in TransferRequests, ts \in Timestamps :
        /\ transfer(r.kid, r.sender, r.receiver, r.amount, r.orderID, r.asked, r.duration, r.extra, ts)
        /\ UNCHANGED <<relations, payVars, feeVars, wrapVars>>
  BY DEF TransferStep
<1>2. PICK sender, receiver, amount, orderID, asked, duration, extra :
        /\ sender = r.sender /\ receiver = r.receiver /\ amount = r.amount
        /\ orderID = r.orderID /\ asked = r.asked /\ duration = r.duration /\ extra = r.extra
  OBVIOUS
<1>3. /\ sender \in Addr /\ receiver \in Addr /\ amount \in Nat \ {0} /\ orderID \in OrderID
      /\ asked \in Nat /\ duration \in Nat
  BY <1>2, SystemAssumption DEF TransferRequest
<1>4. transfer(r.kid, sender, receiver, amount, orderID, asked, duration, extra, ts)
  BY <1>1, <1>2
<1>5. /\ ClockOK /\ TokenOK /\ PendingsOK /\ ContractsOK /\ FeesOK /\ PaysOK /\ WrapsOK
      /\ EscrowOK /\ Countable /\ AuditTrail /\ Fresh(nextTx) /\ nextTx \in Nat \ {0}
      /\ now \in Nat /\ now >= StartTime /\ bal \in [Addr -> Int] /\ token.policy \in FeePolicy
      /\ token.supply \in Int
  BY InvFacts
<1>6. ts \in Nat
  BY <1>5, TimestampNat
<1>7. PICK fee : fee = CalcFee(sender, "transfer", amount)
  OBVIOUS
<1>8. fee \in Nat
  BY <1>3, <1>5, <1>7, CalcFeeNat DEF FeeFn
<1>9. PICK pendingTime : pendingTime = IF asked > ts THEN asked ELSE 0
  OBVIOUS
<1>10. PICK last : last = IF pendingTime # 0 THEN orderID ELSE Zero
  OBVIOUS
<1>11. pendingTime \in Nat /\ last \in OrderID
  BY <1>3, <1>9, <1>10 DEF Zero, OrderID
<1>12. /\ sender # receiver /\ ~IsSuspended(sender) /\ Covers(sender, amount + fee)
       /\ nextTx' = nextTx + 1
  BY <1>4, <1>7 DEF transfer, Active, UseTxID
<1>13. Quiet /\ UNCHANGED <<pays, wraps>>
  BY <1>1 DEF transfer, Quiet, payVars, feeVars, wrapVars
<1>14. CASE /\ CreateContract(nextTx, "transfer",
                  TransferDoc(nextTx, sender, receiver, orderID, last, pendingTime), ts + duration,
                  Signers(r.kid, sender, extra))
            /\ Deposit(nextTx, sender, nextTx, ts + duration, amount, fee, ts)
            /\ UNCHANGED fees
  <2>1. PICK c : c = [id |-> nextTx, type |-> "transfer", expiry |-> ts + duration, status |-> "open",
                      doc |-> TransferDoc(nextTx, sender, receiver, orderID, last, pendingTime)]
    OBVIOUS
  <2>2. /\ c \in AnyContract /\ c.id = nextTx /\ c.type = "transfer" /\ c.doc.pb = nextTx
        /\ c.doc.sender = sender /\ c.expiry = ts + duration /\ c.status = "open"
    BY <1>3, <1>5, <1>6, <1>11, <2>1 DEF AnyContract, TransferContract, TransferDoc, Status
  <2>3. contracts' = contracts \cup {c}
    BY <1>14, <2>1 DEF CreateContract
  <2>4. ts + duration \in Nat
    BY <1>3, <1>6
  <2> QED
    BY <1>3, <1>8, <1>12, <1>13, <1>14, <2>2, <2>3, <2>4, ProposeKeeps
<1>15. CASE /\ Transfer(nextTx, sender, receiver, amount, fee, pendingTime, ts)
            /\ UNCHANGED contracts
  <2>1. IDsGrow /\ Later
    BY <1>5, <1>12, <1>13 DEF IDsGrow, Later, Quiet
  <2>2. CreateFee(sender, fee, ts, nextTx) /\ nextTx < nextTx'
    BY <1>5, <1>12, <1>15 DEF Transfer
  <2>3. PICK p : p = Pending(nextTx, "account", receiver, sender, amount, 0, pendingTime)
    OBVIOUS
  <2>4. pending' = pending \/ pending' = pending \cup {p}
    BY <1>15, <2>3 DEF Transfer
  <2>5. PendingsOK'
    BY <1>3, <1>5, <1>11, <1>12, <2>3, <2>4, PendingsPut
  <2>6. ContractsOK' /\ ClockOK' /\ TokenOK' /\ PaysOK' /\ WrapsOK'
    BY <1>5, <1>13, <1>15, <2>1, ContractsStay, QuietKeeps, PaysStay, WrapsStay
  <2>7. FeesOK'
    BY <1>5, <1>6, <1>8, <2>1, <2>2, <1>3, FeesPut
  <2>8. Documents'
    BY <2>5, <2>6, <2>7 DEF Documents
  <2>9. EscrowOK'
    <3>1. p.type = "account" /\ Contracted' = Contracted
      BY <1>15, <2>3 DEF Pending, Contracted
    <3> QED
      BY <1>5, <2>1, <2>4, <3>1, EscrowStays
  <2>10. Countable' /\ AuditTrail' /\ Money' = Money
    <3>1. fee \in Int /\ amount \in Int /\ pendingTime \in Int /\ ts \in Int
      BY <1>3, <1>6, <1>8, <1>11
    <3> QED
      BY <1>3, <1>5, <1>12, <1>15, <3>1, TransferMoves
  <2>11. PrunesStay
    <3>1. Fee(sender, fee, ts, nextTx).tx = nextTx
      BY DEF Fee
    <3> QED
      BY <1>13, <2>2, <3>1 DEF PrunesStay, Quiet, CreateFee
  <2>12. /\ AmountSum(Uncollected') = AmountSum(Uncollected) /\ AmountSum(Open') = AmountSum(Open)
         /\ token'.supply = token.supply
    BY <1>13, AsideStays DEF Quiet
  <2>13. SumsOK'
    BY <2>8, <2>10, <2>11, <2>12, SumsInt, SumsKept
  <2>14. Solvent
    <3>1. \A a \in Addr \ {sender} : bal'[a] >= bal[a]
      BY <1>3, <1>5, <1>12, <1>15 DEF Transfer
    <3>2. bal'[sender] = bal[sender] - amount - fee
      BY <1>3, <1>5, <1>12, <1>15 DEF Transfer
    <3>3. bal'[sender] >= 0
      BY <1>3, <1>5, <1>8, <1>12, <3>2 DEF Covers
    <3>4. \A a \in Addr : bal'[a] \in Int /\ bal[a] \in Int
      BY <1>5, <2>10 DEF Countable
    <3> QED
      BY <1>12, <3>1, <3>3, <3>4 DEF Solvent
  <2> QED
    BY <2>8, <2>9, <2>11, <2>13, <2>14 DEF Kept
<1> QED
  BY <1>4, <1>7, <1>9, <1>10, <1>14, <1>15 DEF transfer

(* What no step below touches of a kind stays in form.                        *)
LEMMA RestStays ==
  ASSUME Inv, IDsGrow, Quiet
  PROVE  /\ ClockOK' /\ TokenOK' /\ Later
         /\ pending' \subseteq pending => PendingsOK'
         /\ contracts' = contracts => ContractsOK'
         /\ fees' = fees => FeesOK'
         /\ pays' = pays => PaysOK'
         /\ wraps' = wraps => WrapsOK'
<1>1. /\ ClockOK /\ TokenOK /\ PendingsOK /\ ContractsOK /\ FeesOK /\ PaysOK /\ WrapsOK
      /\ now \in Nat
  BY InvFacts
<1> QED
  BY <1>1, QuietKeeps, PendingsStay, ContractsStay, FeesStay, PaysStay, WrapsStay DEF Later, Quiet

(* pay.                                                                       *)
LEMMA PayStepKeeps ==
  ASSUME Inv, PayStep
  PROVE  Kept
<1>1. PICK r \in PayRequests, ts \in Timestamps :
        /\ pay(r.kid, r.sender, r.receiver, r.amount, r.duration, ts)
        /\ UNCHANGED <<relations, feeVars, wrapVars>>
  BY DEF PayStep
<1>2. PICK sender, receiver, amount, duration :
        /\ sender = r.sender /\ receiver = r.receiver /\ amount = r.amount
        /\ duration = r.duration
  OBVIOUS
<1>3. sender \in Addr /\ receiver \in Addr /\ amount \in Nat \ {0} /\ duration \in Nat
  BY <1>2, SystemAssumption DEF PayRequest
<1>4. pay(r.kid, sender, receiver, amount, duration, ts)
  BY <1>1, <1>2
<1>5. /\ PaysOK /\ WrapsOK /\ ContractsOK /\ EscrowOK /\ Countable /\ AuditTrail
      /\ nextTx \in Nat \ {0} /\ now \in Nat /\ now >= StartTime /\ bal \in [Addr -> Int]
      /\ token.policy \in FeePolicy /\ token.supply \in Int
      /\ prunedPays \subseteq {p.tx : p \in pays}
  BY InvFacts
<1>6. ts \in Nat
  BY <1>5, TimestampNat
<1>7. PICK fee : fee = CalcFee(receiver, "pay", amount)
  OBVIOUS
<1>8. fee \in Nat
  BY <1>3, <1>5, <1>7, CalcFeeNat DEF FeeFn
<1>9. ~IsSuspended(sender) /\ Covers(sender, amount) /\ nextTx' = nextTx + 1
  BY <1>4 DEF pay, Active, UseTxID
<1>10. Quiet /\ UNCHANGED <<wraps, fees>>
  BY <1>1, <1>4 DEF pay, Quiet, feeVars, wrapVars
<1>11. CASE /\ CreateContract(nextTx, "pay", PayDoc(nextTx, sender, receiver), ts + duration,
                  Signers(r.kid, sender, {}))
            /\ Deposit(nextTx, sender, nextTx, ts + duration, amount, 0, ts)
            /\ UNCHANGED pays
  <2>1. PICK c : c = [id |-> nextTx, type |-> "pay", expiry |-> ts + duration, status |-> "open",
                      doc |-> PayDoc(nextTx, sender, receiver)]
    OBVIOUS
  <2>2. /\ c \in AnyContract /\ c.id = nextTx /\ c.type = "pay" /\ c.doc.pb = nextTx
        /\ c.doc.sender = sender /\ c.expiry = ts + duration /\ c.status = "open"
    BY <1>3, <1>5, <1>6, <2>1 DEF AnyContract, PayContract, PayDoc, Status
  <2>3. contracts' = contracts \cup {c}
    BY <1>11, <2>1 DEF CreateContract
  <2>4. ts + duration \in Nat /\ 0 \in Nat /\ Covers(sender, amount + 0)
    BY <1>3, <1>6, <1>9 DEF Covers
  <2> QED
    BY <1>3, <1>9, <1>10, <1>11, <2>2, <2>3, <2>4, ProposeKeeps
<1>12. CASE /\ PayNow(nextTx, sender, receiver, amount, fee, ts)
            /\ UNCHANGED contracts
  <2>1. IDsGrow
    BY <1>5, <1>9 DEF IDsGrow
  <2>2. PICK new : new = Pay(nextTx, receiver, amount, fee, sender, 0, ts)
    OBVIOUS
  <2>3. /\ pays' = pays \cup {new} /\ pending' = pending /\ prunedPays' = prunedPays
        /\ PutBalanceLogs({Log(sender, ts, -amount, 0)})
        /\ bal' = [bal EXCEPT ![sender] = bal[sender] + (-amount)]
    BY <1>3, <1>5, <1>10, <1>12, <2>2 DEF PayNow, Quiet
  <2>4. new.tx = nextTx /\ new.amount = amount
    BY <2>2 DEF Pay
  <2>5. PaysOK'
    BY <1>3, <1>5, <1>6, <1>8, <1>9, <2>2, <2>3, PaysPut
  <2>6. ClockOK' /\ TokenOK' /\ Later /\ PendingsOK' /\ ContractsOK' /\ FeesOK' /\ WrapsOK'
    BY <1>10, <1>12, <2>1, <2>3, RestStays
  <2>7. Documents'
    BY <2>5, <2>6 DEF Documents
  <2>8. EscrowOK'
    <3>1. Contracted' = Contracted
      BY <1>12 DEF Contracted
    <3> QED
      BY <1>5, <2>3, <2>6, <3>1, EscrowStays
  <2>9. Countable' /\ AuditTrail' /\ Money' = Money + (-amount)
    <3>1. -amount \in Int /\ fees' = fees
      BY <1>3, <1>10
    <3> QED
      BY <1>3, <1>5, <2>3, <3>1, OneMovesFree
  <2>10. PrunesStay
    BY <1>10, <2>3, <2>4 DEF PrunesStay, Quiet
  <2>11. AmountSum(Uncollected') = AmountSum(Uncollected) + amount
    BY <1>3, <1>5, <2>3, <2>4, UncollectedPut
  <2>12. AmountSum(Open') = AmountSum(Open) /\ token'.supply = token.supply
    BY <1>10, AsideStays DEF Quiet
  <2>13. SumsOK'
    BY <1>3, <1>5, <2>7, <2>9, <2>10, <2>11, <2>12, SumsInt, SumsKept
  <2>14. Solvent
    <3>1. -amount \in Int /\ bal[sender] + (-amount) >= 0
      BY <1>3, <1>5, <1>9 DEF Covers
    <3> QED
      BY <1>3, <1>5, <1>9, <2>3, <3>1, SolventOne
  <2> QED
    BY <2>7, <2>8, <2>10, <2>13, <2>14 DEF Kept
<1> QED
  BY <1>4, <1>7, <1>11, <1>12 DEF pay

(* pay/refund.                                                                *)
LEMMA RefundStepKeeps ==
  ASSUME Inv, RefundStep
  PROVE  Kept
<1>1. PICK kid \in Kid, parent \in pays, amount \in RefundAmounts, ts \in Timestamps :
        payRefund(kid, parent, amount, ts) /\ UNCHANGED <<relations, feeVars, wrapVars>>
  BY DEF RefundStep
<1>2. /\ PaysOK /\ WrapsOK /\ ContractsOK /\ EscrowOK /\ Countable /\ AuditTrail
      /\ nextTx \in Nat \ {0} /\ now \in Nat /\ now >= StartTime /\ bal \in [Addr -> Int]
      /\ token.supply \in Int /\ prunedPays \subseteq {p.tx : p \in pays}
  BY InvFacts
<1>3. amount \in Nat \ {0} /\ ts \in Nat
  BY <1>2, SystemAssumption, TimestampNat
<1>4. PICK fee : fee = RefundFee(parent, amount)
  OBVIOUS
<1>5. /\ parent.rid \in Addr /\ parent.amount \in Int \ {0} /\ parent.fee \in Int
      /\ parent.refunded \in Nat
  BY <1>2 DEF PaysOK, PayDocument
<1>6. parent.refunded + amount <= parent.amount /\ nextTx' = nextTx + 1
  BY <1>1 DEF payRefund, UseTxID
<1>7. fee \in Int
  <2>1. parent.amount \in Nat \ {0} /\ amount \in Int
    BY <1>3, <1>5, <1>6
  <2>2. MulRat(amount, parent.fee, parent.amount) \in Int
    BY <1>5, <2>1, MulRatInt
  <2> QED
    BY <1>4, <1>5, <2>2 DEF RefundFee
<1>8. Refund(nextTx, parent, amount, fee, ts)
  BY <1>1, <1>4 DEF payRefund
<1>9. PICK old : old = Refunded(parent, amount)
  OBVIOUS
<1>10. PICK new : new = Pay(nextTx, parent.merchant, -amount, -fee, parent.rid, parent.tx, ts)
  OBVIOUS
<1>11. /\ pays' = (pays \ {parent}) \cup {old, new}
       /\ old # parent /\ old.tx = parent.tx /\ old.amount = parent.amount
       /\ old.merchant = parent.merchant /\ old.ts = parent.ts
       /\ new.tx = nextTx /\ new.amount = -amount
  BY <1>2, <1>3, <1>6, <1>7, <1>8, <1>9, <1>10, RefundForm
<1>12. Quiet /\ UNCHANGED <<wraps, fees, contracts, pending>>
  BY <1>1, <1>8 DEF payRefund, Refund, Quiet, feeVars, wrapVars
<1>13. PICK customer : customer = parent.rid
  OBVIOUS
<1>14. /\ PutBalanceLogs({Log(customer, ts, amount, 0)}) /\ customer \in Addr
       /\ bal' = [bal EXCEPT ![customer] = bal[customer] + amount]
  BY <1>5, <1>8, <1>13 DEF Refund
<1>15. IDsGrow
  BY <1>2, <1>6 DEF IDsGrow
<1>16. PaysOK'
  BY <1>2, <1>3, <1>6, <1>7, <1>8, PaysRefunded
<1>17. ClockOK' /\ TokenOK' /\ Later /\ PendingsOK' /\ ContractsOK' /\ FeesOK' /\ WrapsOK'
  BY <1>12, <1>15, RestStays
<1>18. Documents'
  BY <1>16, <1>17 DEF Documents
<1>19. EscrowOK'
  <2>1. Contracted' = Contracted
    BY <1>12 DEF Contracted
  <2> QED
    BY <1>2, <1>12, <1>17, <2>1, EscrowStays
<1>20. Countable' /\ AuditTrail' /\ Money' = Money + amount
  <2>1. amount \in Int /\ pending' = pending /\ fees' = fees
    BY <1>3, <1>12
  <2> QED
    BY <1>2, <1>14, <2>1, OneMovesFree
<1>21. PrunesStay
  BY <1>11, <1>12 DEF PrunesStay, Quiet
<1>22. AmountSum(Uncollected') = AmountSum(Uncollected) + new.amount
  <2>1. new.amount \in Int /\ prunedPays' = prunedPays
    BY <1>3, <1>11, <1>12 DEF Quiet
  <2> QED
    BY <1>2, <1>11, <2>1, UncollectedRefunded
<1>23. AmountSum(Open') = AmountSum(Open) /\ token'.supply = token.supply
  BY <1>12, AsideStays DEF Quiet
<1>24. SumsOK'
  BY <1>2, <1>3, <1>11, <1>18, <1>20, <1>21, <1>22, <1>23, SumsInt, SumsKept
<1>25. Solvent
  <2>1. amount \in Int /\ amount >= 0
    BY <1>3
  <2> QED
    BY <1>2, <1>14, <2>1, SolventOne
<1> QED
  BY <1>18, <1>19, <1>21, <1>24, <1>25 DEF Kept

(* wrap.                                                                      *)
LEMMA WrapStepKeeps ==
  ASSUME Inv, WrapStep
  PROVE  Kept
<1>1. PICK r \in WrapRequests, ts \in Timestamps :
        /\ wrap(r.kid, r.sender, r.amount, r.ext, r.duration, r.extra, ts)
        /\ UNCHANGED <<relations, payVars, feeVars>>
  BY DEF WrapStep
<1>2. PICK sender, amount, ext, duration, extra :
        /\ sender = r.sender /\ amount = r.amount /\ ext = r.ext
        /\ duration = r.duration /\ extra = r.extra
  OBVIOUS
<1>3. sender \in Addr /\ amount \in Nat \ {0} /\ ext \in ExtCode /\ duration \in Nat
  BY <1>2, SystemAssumption DEF WrapRequest
<1>4. wrap(r.kid, sender, amount, ext, duration, extra, ts)
  BY <1>1, <1>2
<1>5. /\ PaysOK /\ WrapsOK /\ ContractsOK /\ EscrowOK /\ Countable /\ AuditTrail
      /\ nextTx \in Nat \ {0} /\ now \in Nat /\ now >= StartTime /\ bal \in [Addr -> Int]
      /\ token.supply \in Int
  BY InvFacts
<1>6. ts \in Nat
  BY <1>5, TimestampNat
<1>7. ~IsSuspended(sender) /\ Covers(sender, amount) /\ nextTx' = nextTx + 1
  BY <1>4 DEF wrap, Active, UseTxID
<1>8. Quiet /\ UNCHANGED <<pays, fees>>
  BY <1>1, <1>4 DEF wrap, Quiet, feeVars, payVars
<1>9. CASE /\ CreateContract(nextTx, "wrap", WrapDoc(nextTx, sender, ext), ts + duration,
                 Signers(r.kid, sender, extra))
           /\ Deposit(nextTx, sender, nextTx, ts + duration, amount, 0, ts)
           /\ UNCHANGED wraps
  <2>1. PICK c : c = [id |-> nextTx, type |-> "wrap", expiry |-> ts + duration, status |-> "open",
                      doc |-> WrapDoc(nextTx, sender, ext)]
    OBVIOUS
  <2>2. /\ c \in AnyContract /\ c.id = nextTx /\ c.type = "wrap" /\ c.doc.pb = nextTx
        /\ c.doc.sender = sender /\ c.expiry = ts + duration /\ c.status = "open"
    BY <1>3, <1>5, <1>6, <2>1 DEF AnyContract, WrapContract, WrapDoc, Status
  <2>3. contracts' = contracts \cup {c}
    BY <1>9, <2>1 DEF CreateContract
  <2>4. ts + duration \in Nat /\ 0 \in Nat /\ Covers(sender, amount + 0)
    BY <1>3, <1>6, <1>7 DEF Covers
  <2> QED
    BY <1>3, <1>7, <1>8, <1>9, <2>2, <2>3, <2>4, ProposeKeeps
<1>10. CASE WrapNow(nextTx, sender, amount, ext, ts) /\ UNCHANGED contracts
  <2>1. IDsGrow
    BY <1>5, <1>7 DEF IDsGrow
  <2>2. /\ wraps' = wraps \cup {Wrap(nextTx, sender, amount, ext)} /\ pending' = pending
        /\ PutBalanceLogs({Log(sender, ts, -amount, 0)})
        /\ bal' = [bal EXCEPT ![sender] = bal[sender] + (-amount)]
    BY <1>3, <1>5, <1>10 DEF WrapNow
  <2>3. WrapsOK'
    BY <1>3, <1>5, <1>7, <2>2, WrapsPut
  <2>4. ClockOK' /\ TokenOK' /\ Later /\ PendingsOK' /\ ContractsOK' /\ FeesOK' /\ PaysOK'
    BY <1>8, <1>10, <2>1, <2>2, RestStays
  <2>5. Documents'
    BY <2>3, <2>4 DEF Documents
  <2>6. EscrowOK'
    <3>1. Contracted' = Contracted
      BY <1>10 DEF Contracted
    <3> QED
      BY <1>5, <2>2, <2>4, <3>1, EscrowStays
  <2>7. Countable' /\ AuditTrail' /\ Money' = Money + (-amount)
    <3>1. -amount \in Int /\ fees' = fees
      BY <1>3, <1>8
    <3> QED
      BY <1>3, <1>5, <2>2, <3>1, OneMovesFree
  <2>8. PrunesStay
    BY <1>8 DEF PrunesStay, Quiet
  <2>9. AmountSum(Open') = AmountSum(Open) + amount
    BY <1>3, <1>5, <2>2, OpenPut
  <2>10. AmountSum(Uncollected') = AmountSum(Uncollected) /\ token'.supply = token.supply
    BY <1>8, AsideStays DEF Quiet
  <2>11. SumsOK'
    BY <1>3, <1>5, <2>5, <2>7, <2>8, <2>9, <2>10, SumsInt, SumsKept
  <2>12. Solvent
    <3>1. -amount \in Int /\ bal[sender] + (-amount) >= 0
      BY <1>3, <1>5, <1>7 DEF Covers
    <3> QED
      BY <1>3, <1>5, <1>7, <2>2, <3>1, SolventOne
  <2> QED
    BY <2>5, <2>6, <2>8, <2>11, <2>12 DEF Kept
<1> QED
  BY <1>4, <1>9, <1>10 DEF wrap

(* A bridge's account is one.                                                 *)
LEMMA BridgeAccount ==
  ASSUME Inv, NEW ext \in ExtCode, HasBridge(ext)
  PROVE  WrapAccount(ext) \in Addr /\ ~IsSuspended(WrapAccount(ext))
BY InvFacts DEF TokenOK, Token, WrapBridge, HasBridge, WrapAccount, Active

(* wrap/complete.                                                             *)
LEMMA CompleteStepKeeps ==
  ASSUME Inv, CompleteStep
  PROVE  Kept
<1>1. PICK kid \in Kid, w \in wraps, asked \in BridgeFees, done \in BOOLEAN, ts \in Timestamps :
        wrapComplete(kid, w, asked, done, ts) /\ UNCHANGED <<relations, payVars, feeVars>>
  BY DEF CompleteStep
<1>2. /\ PaysOK /\ WrapsOK /\ ContractsOK /\ EscrowOK /\ Countable /\ AuditTrail /\ FeesOK
      /\ nextTx \in Nat \ {0} /\ now \in Nat /\ now >= StartTime /\ bal \in [Addr -> Int]
      /\ token.supply \in Int /\ Fresh(nextTx)
  BY InvFacts
<1>3. PICK fee : fee = IF done THEN asked ELSE 0
  OBVIOUS
<1>4. fee \in Nat /\ ts \in Nat /\ w.ext \in ExtCode /\ w.amount \in Nat \ {0}
  BY <1>2, <1>3, SystemAssumption, TimestampNat DEF WrapsOK, WrapDocument
<1>5. PICK wrapper : wrapper = WrapAccount(w.ext)
  OBVIOUS
<1>6. wrapper \in Addr
  BY <1>1, <1>4, <1>5, BridgeAccount DEF wrapComplete
<1>7. WrapComplete(w, wrapper, fee, ts)
  BY <1>1, <1>3, <1>5 DEF wrapComplete
<1>8. /\ Quiet /\ UNCHANGED <<pays, contracts>>
      /\ nextTx' = IF fee = 0 THEN nextTx ELSE nextTx + 1
  BY <1>1, <1>3 DEF wrapComplete, Quiet, payVars, feeVars, UseTxID
<1>9. PICK d : d = w.amount - fee
  OBVIOUS
<1>10. d \in Nat /\ fee \in Int /\ w.amount \in Int
  BY <1>4, <1>7, <1>9 DEF WrapComplete
<1>11. /\ ~w.complete /\ wraps' = (wraps \ {w}) \cup {[w EXCEPT !.complete = TRUE]}
       /\ bal' = [bal EXCEPT ![wrapper] = bal[wrapper] + d]
       /\ PutBalanceLogs({Log(wrapper, ts, w.amount, fee)})
       /\ CreateFee(wrapper, fee, ts, nextTx) /\ pending' = pending
  BY <1>2, <1>4, <1>6, <1>7, <1>9 DEF WrapComplete
<1>12. IDsGrow
  BY <1>2, <1>8 DEF IDsGrow
<1>13. WrapsOK'
  BY <1>2, <1>11, <1>12, WrapsClosed
<1>14. ClockOK' /\ TokenOK' /\ Later /\ PendingsOK' /\ ContractsOK' /\ PaysOK'
  BY <1>8, <1>11, <1>12, RestStays
<1>15. FeesOK'
  <2>1. fee # 0 => nextTx < nextTx'
    BY <1>2, <1>8
  <2>2. ts \in Int /\ nextTx \in Nat
    BY <1>2, <1>4
  <2> QED
    BY <1>2, <1>6, <1>10, <1>11, <1>12, <2>1, <2>2, FeesPut
<1>16. Documents'
  BY <1>13, <1>14, <1>15 DEF Documents
<1>17. EscrowOK'
  <2>1. Contracted' = Contracted
    BY <1>8 DEF Contracted
  <2> QED
    BY <1>2, <1>11, <1>14, <2>1, EscrowStays
<1>18. Countable' /\ AuditTrail' /\ Money' = Money + d + fee
  <2>1. \A f \in fees : f.tx # nextTx
    BY <1>2 DEF Fresh
  <2>2. IsFiniteSet(fees') /\ IntAmounts(fees') /\ AmountSum(fees') = AmountSum(fees) + fee
    BY <1>2, <1>10, <1>11, <2>1, FeeCharged DEF Countable
  <2>3. PICK diff : diff = w.amount
    OBVIOUS
  <2>4. PutBalanceLogs({Log(wrapper, ts, diff, fee)}) /\ diff \in Int /\ d = diff - fee /\ d \in Int
    BY <1>9, <1>10, <1>11, <2>3
  <2>5. /\ bal' \in [Addr -> Int] /\ SumFunction(bal') = SumFunction(bal) + d
        /\ AuditTrail' /\ IsFiniteSet(blog') /\ IntLogs(blog')
    BY <1>2, <1>6, <1>10, <1>11, <2>4, OneLogged
  <2> QED
    BY <1>2, <1>10, <1>11, <2>2, <2>4, <2>5, OneMoves
<1>19. PrunesStay
  <2>1. Fee(wrapper, fee, ts, nextTx).tx = nextTx
    BY DEF Fee
  <2> QED
    BY <1>8, <1>11, <2>1 DEF PrunesStay, Quiet, CreateFee
<1>20. AmountSum(Open') = AmountSum(Open) - w.amount
  BY <1>2, <1>11, OpenClosed
<1>21. AmountSum(Uncollected') = AmountSum(Uncollected) /\ token'.supply = token.supply
  BY <1>8, AsideStays DEF Quiet
<1>22. SumsOK'
  BY <1>2, <1>9, <1>10, <1>16, <1>18, <1>19, <1>20, <1>21, SumsInt, SumsKept
<1>23. Solvent
  <2>1. d \in Int /\ d >= 0
    BY <1>10
  <2> QED
    BY <1>2, <1>6, <1>11, <2>1, SolventOne
<1> QED
  BY <1>16, <1>17, <1>19, <1>22, <1>23 DEF Kept

(* unwrap.                                                                    *)
LEMMA UnwrapStepKeeps ==
  ASSUME Inv, UnwrapStep
  PROVE  Kept
<1>1. PICK r \in UnwrapRequests, ts \in Timestamps :
        /\ unwrap(r.kid, r.receiver, r.amount, r.ext, r.x, ts)
        /\ UNCHANGED <<relations, payVars, feeVars>>
  BY DEF UnwrapStep
<1>2. PICK receiver, amount, ext, wrapper :
        receiver = r.receiver /\ amount = r.amount /\ ext = r.ext /\ wrapper = WrapAccount(ext)
  OBVIOUS
<1>3. receiver \in Addr /\ amount \in Nat \ {0} /\ ext \in ExtCode
  BY <1>2, SystemAssumption DEF UnwrapRequest
<1>4. /\ PaysOK /\ WrapsOK /\ ContractsOK /\ EscrowOK /\ Countable /\ AuditTrail
      /\ nextTx \in Nat \ {0} /\ now \in Nat /\ now >= StartTime /\ bal \in [Addr -> Int]
      /\ token.supply \in Int /\ Fresh(nextTx)
  BY InvFacts
<1>5. ts \in Nat
  BY <1>4, TimestampNat
<1>6. wrapper \in Addr /\ ~IsSuspended(wrapper)
  BY <1>1, <1>2, <1>3, BridgeAccount DEF unwrap
<1>7. \/ /\ receiver # wrapper
         /\ Covers(wrapper, amount)
         /\ Unwrap(wrapper, receiver, amount, ts)
      \/ UnwrapImpossible(wrapper, ts)
  BY <1>1, <1>2 DEF unwrap
<1>8. Quiet /\ UNCHANGED <<nextTx, pays, contracts, fees, pending, wraps>>
  BY <1>1 DEF unwrap, Quiet, payVars, feeVars, txVars
<1>9. IDsGrow
  BY <1>4, <1>8 DEF IDsGrow
<1>10. /\ ClockOK' /\ TokenOK' /\ Later /\ PendingsOK' /\ ContractsOK' /\ FeesOK' /\ PaysOK'
       /\ WrapsOK'
  BY <1>8, <1>9, RestStays
<1>11. Documents'
  BY <1>10 DEF Documents
<1>12. EscrowOK'
  <2>1. Contracted' = Contracted
    BY <1>8 DEF Contracted
  <2> QED
    BY <1>4, <1>8, <1>10, <2>1, EscrowStays
<1>13. Countable' /\ AuditTrail' /\ Money' = Money
  <2>1. CASE Unwrap(wrapper, receiver, amount, ts) /\ receiver # wrapper
    <3>1. PICK zero : zero = 0
      OBVIOUS
    <3>2. zero \in Int /\ amount \in Int /\ ts \in Int /\ zero <= ts /\ wrapper # receiver
      BY <1>3, <1>5, <2>1, <3>1
    <3>3. \A x \in Int : x - amount - zero = x - amount
      BY <1>3, <3>1
    <3>4. bal' = [bal EXCEPT ![receiver] = @ + amount, ![wrapper] = @ - amount - zero]
      BY <1>3, <1>4, <1>6, <2>1, <3>3 DEF Unwrap
    <3>5. Transfer(nextTx, wrapper, receiver, amount, zero, zero, ts)
      BY <1>8, <2>1, <3>1, <3>2, <3>4 DEF Unwrap, Transfer, CreateFee
    <3> QED
      BY <1>3, <1>4, <1>6, <3>2, <3>5, TransferMoves
  <2>2. CASE UnwrapImpossible(wrapper, ts)
    <3>1. PICK zero : zero = 0
      OBVIOUS
    <3>2. zero \in Int /\ PutBalanceLogs({Log(wrapper, ts, zero, 0)}) /\ bal' = bal
      BY <2>2, <3>1 DEF UnwrapImpossible
    <3>3. bal' = [bal EXCEPT ![wrapper] = bal[wrapper] + zero]
      BY <1>4, <1>6, <3>1, <3>2
    <3>4. pending' = pending /\ fees' = fees
      BY <1>8
    <3>5. Countable' /\ AuditTrail' /\ Money' = Money + zero
      BY <1>4, <1>6, <3>2, <3>3, <3>4, OneMovesFree
    <3> QED
      BY <3>1, <3>5, SumsInt
  <2> QED
    BY <1>7, <2>1, <2>2
<1>14. PrunesStay
  BY <1>8 DEF PrunesStay, Quiet
<1>15. /\ AmountSum(Uncollected') = AmountSum(Uncollected) /\ AmountSum(Open') = AmountSum(Open)
       /\ token'.supply = token.supply
  BY <1>8, AsideStays DEF Quiet
<1>16. SumsOK'
  BY <1>11, <1>13, <1>14, <1>15, SumsInt, SumsKept
<1>17. Solvent
  <2>1. \A a \in Addr \ {wrapper} : bal'[a] >= bal[a]
    BY <1>3, <1>4, <1>6, <1>7 DEF Unwrap, UnwrapImpossible
  <2>2. bal'[wrapper] = bal[wrapper] \/ (bal'[wrapper] = bal[wrapper] - amount /\ Covers(wrapper, amount))
    BY <1>3, <1>4, <1>6, <1>7 DEF Unwrap, UnwrapImpossible
  <2>3. \A a \in Addr : bal'[a] \in Int /\ bal[a] \in Int
    BY <1>4, <1>13 DEF Countable
  <2>4. bal'[wrapper] >= bal[wrapper] \/ bal'[wrapper] >= 0
    BY <1>3, <1>6, <2>2, <2>3 DEF Covers
  <2> QED
    BY <1>6, <2>1, <2>3, <2>4 DEF Solvent
<1> QED
  BY <1>11, <1>12, <1>14, <1>16, <1>17 DEF Kept

(* A pending balance goes back to its owner, by balance/pending/withdraw or a *)
(* cancel callback.                                                           *)
LEMMA WithdrawnKeeps ==
  ASSUME Inv, Quiet, UNCHANGED <<nextTx, fees, pays, wraps>>, ContractsOK', EscrowOK',
         NEW pb \in pending, NEW ts, Withdraw(pb, ts)
  PROVE  Kept
<1>1. /\ PendingsOK /\ Countable /\ AuditTrail /\ nextTx \in Nat \ {0} /\ bal \in [Addr -> Int]
      /\ token.supply \in Int
  BY InvFacts
<1>2. IDsGrow /\ pending' \subseteq pending
  BY <1>1 DEF IDsGrow, Withdraw
<1>3. /\ ClockOK' /\ TokenOK' /\ PendingsOK' /\ FeesOK' /\ PaysOK' /\ WrapsOK'
  BY <1>2, RestStays
<1>4. Documents'
  BY <1>3 DEF Documents
<1>5. Countable' /\ AuditTrail' /\ Money' = Money
  BY <1>1, WithdrawMoves
<1>6. PrunesStay
  BY DEF PrunesStay, Quiet
<1>7. /\ AmountSum(Uncollected') = AmountSum(Uncollected) /\ AmountSum(Open') = AmountSum(Open)
      /\ token'.supply = token.supply
  BY AsideStays DEF Quiet
<1>8. SumsOK'
  BY <1>4, <1>5, <1>6, <1>7, SumsInt, SumsKept
<1>9. Solvent
  <2>1. pb.account \in Addr /\ pb.amount \in Nat /\ pb.fee \in Nat
    BY <1>1 DEF PendingsOK, PendingBalance
  <2> QED
    BY <1>1, <2>1 DEF Withdraw, Solvent
<1> QED
  BY <1>4, <1>6, <1>8, <1>9 DEF Kept

(* balance/pending/withdraw.                                                  *)
LEMMA WithdrawStepKeeps ==
  ASSUME Inv, WithdrawStep
  PROVE  Kept
<1>1. PICK kid \in Kid, pb \in pending, ts \in Timestamps :
        /\ balancePendingWithdraw(kid, pb, ts)
        /\ UNCHANGED <<relations, payVars, feeVars, wrapVars>>
  BY DEF WithdrawStep
<1>2. /\ PendingsOK /\ ContractsOK /\ EscrowOK /\ nextTx \in Nat \ {0} /\ now \in Nat
      /\ now >= StartTime
  BY InvFacts
<1>3. /\ Withdraw(pb, ts) /\ pb.time <= ts /\ Quiet
      /\ UNCHANGED <<nextTx, contracts, fees, pays, wraps>>
  BY <1>1 DEF balancePendingWithdraw, BalancePendingWithdraw, Quiet, txVars, payVars, feeVars, wrapVars
<1>4. IDsGrow /\ Later
  BY <1>2, <1>3 DEF IDsGrow, Later, Quiet
<1>5. ContractsOK'
  BY <1>2, <1>3, <1>4, ContractsStay
<1>6. pb.time <= now + Skew
  <2>1. ts \in Nat /\ ts <= now + Skew /\ pb.time \in Nat
    BY <1>2, TimestampNat DEF PendingsOK, PendingBalance
  <2> QED
    BY <1>2, <1>3, <2>1, ContextAssumption
<1>7. EscrowOK'
  BY <1>2, <1>3, <1>4, <1>6, EscrowWithdrawn DEF Withdraw
<1> QED
  BY <1>3, <1>5, <1>7, WithdrawnKeeps

(* Steps that move no money.                                                  *)
LEMMA UnmovedKeeps ==
  ASSUME Inv, ClockOK', TokenOK', IDsGrow, Later, ContractsOK', Contracted' = Contracted,
         token'.supply = token.supply,
         UNCHANGED <<pending, bal, blog, fees, pays, wraps>>,
         UNCHANGED <<payCursor, prunedPays, feeCursor, prunedFees>>
  PROVE  Kept
<1>1. /\ PendingsOK /\ FeesOK /\ PaysOK /\ WrapsOK /\ ContractsOK /\ EscrowOK
      /\ Countable /\ AuditTrail
  BY InvFacts
<1>2. PendingsOK' /\ FeesOK' /\ PaysOK' /\ WrapsOK'
  BY <1>1, PendingsStay, FeesStay, PaysStay, WrapsStay
<1>3. Documents'
  BY <1>2 DEF Documents
<1>4. EscrowOK'
  BY <1>1, EscrowStays
<1>5. Countable' /\ AuditTrail' /\ Money' = Money
  BY <1>1 DEF Countable, AuditTrail, LogsOf, Money
<1>6. PrunesStay
  BY DEF PrunesStay
<1>7. AmountSum(Uncollected') = AmountSum(Uncollected) /\ AmountSum(Open') = AmountSum(Open)
  BY AsideStays
<1>8. SumsOK'
  BY <1>3, <1>5, <1>6, <1>7, SumsInt, SumsKept
<1>9. Solvent
  <2>1. bal \in [Addr -> Int]
    BY <1>1 DEF Countable
  <2> QED
    BY <2>1 DEF Solvent
<1> QED
  BY <1>3, <1>4, <1>6, <1>8, <1>9 DEF Kept

(* Supply changes the balance of the genesis account with the supply.         *)
LEMMA SupplyKeeps ==
  ASSUME Inv, NEW d \in Int, NEW ts, Supply(token.genesis, d, ts),
         token' = [token EXCEPT !.supply = token.supply + d], d >= 0 \/ bal[token.genesis] + d >= 0,
         IDsGrow, ContractsOK', Contracted' = Contracted,
         UNCHANGED <<now, account, fees, pays, wraps>>,
         UNCHANGED <<payCursor, prunedPays, feeCursor, prunedFees>>
  PROVE  Kept
<1>1. /\ ClockOK /\ TokenOK /\ PendingsOK /\ FeesOK /\ PaysOK /\ WrapsOK /\ ContractsOK
      /\ EscrowOK /\ Countable /\ AuditTrail /\ token.supply \in Int
      /\ bal \in [Addr -> Int] /\ now \in Nat
  BY InvFacts
<1>2. PICK genesis : genesis = token.genesis
  OBVIOUS
<1>3. genesis \in Joint /\ genesis \in Addr /\ ~IsSuspended(genesis) /\ Supply(genesis, d, ts)
  BY <1>1, <1>2 DEF TokenOK, Addr
<1>4. /\ token' \in Token /\ token'.genesis = token.genesis /\ token'.policy = token.policy
      /\ token'.supply = token.supply + d
  BY <1>1 DEF TokenOK, Token
<1>5. ClockOK' /\ TokenOK' /\ Later
  BY <1>1, <1>4 DEF ClockOK, TokenOK, IDsGrow, IsSuspended, Later
<1>6. pending' = pending
  BY DEF Supply
<1>7. PendingsOK' /\ FeesOK' /\ PaysOK' /\ WrapsOK'
  BY <1>1, <1>6, PendingsStay, FeesStay, PaysStay, WrapsStay
<1>8. Documents'
  BY <1>5, <1>7 DEF Documents
<1>9. EscrowOK'
  BY <1>1, <1>5, <1>6, EscrowStays
<1>10. Countable' /\ AuditTrail' /\ Money' = Money + d
  BY <1>1, <1>3, SupplyMoves
<1>11. PrunesStay
  BY DEF PrunesStay
<1>12. AmountSum(Uncollected') = AmountSum(Uncollected) /\ AmountSum(Open') = AmountSum(Open)
  BY AsideStays
<1>13. SumsOK'
  BY <1>1, <1>4, <1>8, <1>10, <1>11, <1>12, SumsInt, SumsKept
<1>14. Solvent
  <2>1. bal' = [bal EXCEPT ![genesis] = bal[genesis] + d]
    BY <1>3 DEF Supply
  <2> QED
    BY <1>1, <1>2, <1>3, <2>1, SolventOne
<1> QED
  BY <1>8, <1>9, <1>11, <1>13, <1>14 DEF Kept

(* Mint, at once or by contract.                                              *)
LEMMA MintKeeps ==
  ASSUME Inv, NEW amount \in Nat, NEW ts, Mint(amount, ts),
         IDsGrow, ContractsOK', Contracted' = Contracted,
         UNCHANGED <<now, fees, pays, wraps>>,
         UNCHANGED <<payCursor, prunedPays, feeCursor, prunedFees>>
  PROVE  Kept
<1>1. token.supply \in Int /\ token.max \in Int
  BY InvFacts DEF TokenOK, Token
<1>2. PICK supply :
        supply = IF token.supply + amount > token.max THEN token.max ELSE token.supply + amount
  OBVIOUS
<1>3. PICK d : d = supply - token.supply
  OBVIOUS
<1>4. d \in Int /\ d >= 0 /\ supply = token.supply + d
  BY <1>1, <1>2, <1>3 DEF Mint
<1>5. /\ Supply(token.genesis, d, ts) /\ account' = account
      /\ token' = [token EXCEPT !.supply = token.supply + d]
  BY <1>2, <1>3, <1>4 DEF Mint
<1> QED
  BY <1>4, <1>5, SupplyKeeps

(* Burn, which may find nothing to burn.                                      *)
LEMMA BurnKeeps ==
  ASSUME Inv, NEW amount \in Nat, NEW ts, Burn(amount, ts),
         IDsGrow, ContractsOK', Contracted' = Contracted,
         UNCHANGED <<now, fees, pays, wraps>>,
         UNCHANGED <<payCursor, prunedPays, feeCursor, prunedFees>>
  PROVE  Kept
<1>1. /\ token.supply \in Int /\ token.genesis \in Addr /\ bal \in [Addr -> Int]
      /\ ClockOK /\ TokenOK /\ now \in Nat
  BY InvFacts DEF TokenOK, Token
<1>2. PICK real : real = IF bal[token.genesis] < amount THEN bal[token.genesis] ELSE amount
  OBVIOUS
<1>3. account' = account /\ real \in Int
  BY <1>1, <1>2 DEF Burn
<1>4. CASE real <= 0
  <2>1. ~(real > 0)
    BY <1>3, <1>4
  <2>2. UNCHANGED <<token, pending, bal, blog>>
    BY <1>2, <2>1 DEF Burn, balanceVars
  <2>3. ClockOK' /\ TokenOK' /\ Later
    BY <1>1, <1>3, <2>2 DEF ClockOK, TokenOK, IDsGrow, IsSuspended, Later
  <2> QED
    BY <2>2, <2>3, UnmovedKeeps
<1>5. CASE real > 0
  <2>1. PICK d : d = -real
    OBVIOUS
  <2>2. real \in Int /\ d \in Int /\ bal[token.genesis] + d >= 0 /\ token.supply - real = token.supply + d
    BY <1>1, <1>2, <2>1
  <2>3. /\ Supply(token.genesis, d, ts) /\ token' = [token EXCEPT !.supply = token.supply + d]
    BY <1>2, <1>3, <1>5, <2>1, <2>2 DEF Burn
  <2> QED
    BY <1>3, <2>2, <2>3, SupplyKeeps
<1> QED
  BY <1>3, <1>4, <1>5

(* The contract of a mint or burn holds no deposit.                           *)
LEMMA ProposeToKeeps ==
  ASSUME Inv, NEW signers, NEW type \in {"token/mint", "token/burn"}, NEW amount \in Nat,
         ProposeTo(signers, type, TokenDoc({}, amount)),
         UNCHANGED <<now, fees, pays, wraps>>,
         UNCHANGED <<payCursor, prunedPays, feeCursor, prunedFees>>
  PROVE  Kept
<1>1. /\ ClockOK /\ TokenOK /\ ContractsOK /\ nextTx \in Nat \ {0} /\ now \in Nat
  BY InvFacts
<1>2. PICK c : c = [id |-> nextTx, type |-> type, expiry |-> 0, status |-> "open",
                    doc |-> TokenDoc({}, amount)]
  OBVIOUS
<1>3. c \in AnyContract /\ c.id = nextTx /\ c.type = type
  BY <1>1, <1>2 DEF AnyContract, KntContract, TokenDoc, Status
<1>4. /\ contracts' = contracts \cup {c} /\ nextTx' = nextTx + 1
      /\ UNCHANGED <<token, account, pending, bal, blog>>
  BY <1>2 DEF ProposeTo, CreateContract, UseTxID, balanceVars
<1>5. ContractsOK'
  BY <1>1, <1>3, <1>4, ContractsPut
<1>6. Contracted' = Contracted
  BY <1>3, <1>4 DEF Contracted
<1>7. IDsGrow /\ Later /\ Quiet
  BY <1>1, <1>4 DEF IDsGrow, Later, Quiet
<1>8. ClockOK' /\ TokenOK'
  BY <1>1, <1>7, QuietKeeps
<1> QED
  BY <1>4, <1>5, <1>6, <1>7, <1>8, UnmovedKeeps

(* token/mint and token/burn.                                                 *)
LEMMA IssueStepKeeps ==
  ASSUME Inv, MintStep \/ BurnStep
  PROVE  Kept
<1>1. PICK kid \in Kid, amount \in KntAmounts, ts \in Timestamps :
        /\ tokenMint(kid, amount, ts) \/ tokenBurn(kid, amount, ts)
        /\ UNCHANGED <<now, fees, payVars, feeVars, wrapVars>>
  BY DEF MintStep, BurnStep
<1>2. amount \in Nat /\ ContractsOK /\ nextTx \in Nat \ {0}
  BY InvFacts, SystemAssumption
<1>3. /\ UNCHANGED <<now, fees, pays, wraps>>
      /\ UNCHANGED <<payCursor, prunedPays, feeCursor, prunedFees>>
  BY <1>1 DEF payVars, feeVars, wrapVars
<1>4. CASE ProposeTo(Holders, "token/mint", TokenDoc({}, amount))
           \/ ProposeTo(Holders, "token/burn", TokenDoc({}, amount))
  BY <1>2, <1>3, <1>4, ProposeToKeeps
<1>5. CASE (Mint(amount, ts) \/ Burn(amount, ts)) /\ UNCHANGED <<nextTx, contracts>>
  <2>1. IDsGrow /\ Contracted' = Contracted
    BY <1>2, <1>5 DEF IDsGrow, Contracted
  <2>2. ContractsOK'
    BY <1>2, <1>5, <2>1, ContractsStay
  <2> QED
    BY <1>2, <1>3, <1>5, <2>1, <2>2, MintKeeps, BurnKeeps
<1> QED
  BY <1>1, <1>4, <1>5 DEF tokenMint, tokenBurn

(* token/update: the target is an account, new, kept or the genesis account.  *)
LEMMA UpdateStepKeeps ==
  ASSUME Inv, UpdateStep
  PROVE  Kept
<1>1. PICK meta \in Metas :
        /\ tokenUpdate(meta)
        /\ UNCHANGED <<txVars, account, relations, fees, balanceVars, contracts>>
        /\ UNCHANGED <<payVars, feeVars, wrapVars>>
  BY DEF UpdateStep
<1>2. ClockOK /\ TokenOK /\ ContractsOK /\ now \in Nat /\ nextTx \in Nat \ {0}
  BY InvFacts
<1>3. /\ UNCHANGED <<nextTx, now, account, contracts>>
      /\ UNCHANGED <<pending, bal, blog, fees, pays, wraps>>
      /\ UNCHANGED <<payCursor, prunedPays, feeCursor, prunedFees>>
  BY <1>1 DEF txVars, balanceVars, payVars, feeVars, wrapVars
<1>4. IDsGrow /\ Later /\ ClockOK' /\ Contracted' = Contracted
  BY <1>2, <1>3 DEF IDsGrow, Later, ClockOK, Contracted
<1>5. ContractsOK'
  BY <1>2, <1>3, <1>4, ContractsStay
<1>6. PICK policy \in NewPolicies(meta), bridge \in NewBridges(meta) :
        token' = [token EXCEPT !.policy = policy, !.wrap = bridge]
  BY <1>1 DEF tokenUpdate
<1>7. meta \in TokenMeta /\ token \in Token /\ token.genesis \in Joint
  BY <1>2, SystemAssumption DEF TokenOK
<1>8. token' \in Token
  BY <1>1, <1>7, TokenUpdateType
<1>9. policy.installed => policy.target \in Addr
  <2>1. CASE meta.policy = {}
    <3>1. policy = [token.policy EXCEPT !.rates = NoRates]
      BY <2>1 DEF NewPolicies
    <3>2. policy.installed = token.policy.installed /\ policy.target = token.policy.target
      BY <1>7, <3>1 DEF Token, FeePolicy
    <3> QED
      BY <1>2, <3>2 DEF TokenOK
  <2>2. CASE meta.policy # {}
    <3>1. PICK p \in meta.policy :
            policy = [installed |-> TRUE, rates |-> p.rates,
                      target |-> IF p.target = NoAddr THEN DefaultTarget ELSE p.target]
      BY <2>2 DEF NewPolicies
    <3>2. p.target \in Addr \cup {NoAddr}
      BY <1>7 DEF TokenMeta, MetaPolicy
    <3>3. DefaultTarget \in Addr
      BY <1>2 DEF TokenOK, DefaultTarget, Addr
    <3> QED
      BY <3>1, <3>2, <3>3
  <2> QED
    BY <2>1, <2>2
<1>10. /\ token'.genesis = token.genesis /\ token'.supply = token.supply /\ token'.policy = policy
  BY <1>6, <1>7 DEF Token
<1>11. TokenOK'
  BY <1>2, <1>3, <1>8, <1>9, <1>10 DEF TokenOK, IsSuspended
<1> QED
  BY <1>3, <1>4, <1>5, <1>10, <1>11, UnmovedKeeps

(* account/suspend and unsuspend, and the clock.                              *)
LEMMA IdleStepKeeps ==
  ASSUME Inv, SuspendStep \/ (\E kid \in Suspendable : UnsuspendStep(kid)) \/ TickStep
  PROVE  Kept
<1>1. ClockOK /\ TokenOK /\ ContractsOK /\ now \in Nat /\ nextTx \in Nat \ {0}
  BY InvFacts
<1>2. /\ UNCHANGED <<nextTx, token, contracts>>
      /\ UNCHANGED <<pending, bal, blog, fees, pays, wraps>>
      /\ UNCHANGED <<payCursor, prunedPays, feeCursor, prunedFees>>
      /\ now' \in {now, now + 1}
  BY DEF SuspendStep, UnsuspendStep, TickStep, AccountUnchangedElsewhere, Tick,
         txVars, balanceVars, payVars, feeVars, wrapVars
<1>3. IDsGrow /\ Later /\ ClockOK' /\ Contracted' = Contracted
  <2>1. Contracted' = Contracted
    BY <1>2 DEF Contracted
  <2>2. now >= StartTime /\ StartTime \in Int
    BY <1>1, ContextAssumption DEF ClockOK, StartTime
  <2>3. ClockOK'
    BY <1>1, <1>2, <2>2 DEF ClockOK, StartTime
  <2>4. IDsGrow /\ Later
    BY <1>1, <1>2 DEF IDsGrow, Later
  <2> QED
    BY <2>1, <2>3, <2>4
<1>4. ContractsOK'
  BY <1>1, <1>2, <1>3, ContractsStay
<1>5. account \in [Addr -> Account]
  BY <1>1 DEF TokenOK
<1>6. \/ account' = account
      \/ \E kid \in Kid : SuspendAccount(kid) \/ UnsuspendAccount(kid)
  BY SystemAssumption DEF SuspendStep, UnsuspendStep, TickStep, accountSuspend, accountUnsuspend
<1>7. account' \in [Addr -> Account]
  BY <1>5, <1>6, SuspensionType
<1>8. \A a \in Joint : account'[a] = account[a]
  BY <1>5, <1>6, AddressAssumption DEF SuspendAccount, UnsuspendAccount, Addr
<1>9. TokenOK'
  BY <1>1, <1>2, <1>7, <1>8 DEF TokenOK, IsSuspended
<1> QED
  BY <1>2, <1>3, <1>4, <1>9, UnmovedKeeps

(* The callbacks that execute a pay or a wrap spend the deposit, which has no *)
(* fee, and leave all balances alone.                                         *)
LEMMA DepositSpent ==
  ASSUME Inv, Quiet, nextTx' = nextTx + 1, UNCHANGED <<fees, bal, blog>>,
         NEW c \in Contracted, c.type # "transfer", NEW pb \in pending, IsPendingOf(pb, c),
         pending' = pending \ {pb}, CloseContract(c, "executed")
  PROVE  /\ ClockOK' /\ TokenOK' /\ PendingsOK' /\ ContractsOK' /\ FeesOK' /\ EscrowOK'
         /\ pb.account \in Addr /\ pb.amount \in Nat \ {0}
         /\ Countable' /\ AuditTrail' /\ Money' = Money + (-pb.amount) /\ Solvent
<1>1. /\ PendingsOK /\ ContractsOK /\ EscrowOK /\ Countable /\ AuditTrail
      /\ nextTx \in Nat \ {0} /\ bal \in [Addr -> Int]
  BY InvFacts
<1>2. IDsGrow /\ pending' \subseteq pending /\ c \in contracts
  BY <1>1 DEF IDsGrow, Contracted
<1>3. ClockOK' /\ TokenOK' /\ Later /\ PendingsOK' /\ FeesOK'
  BY <1>2, RestStays
<1>4. ContractsOK'
  BY <1>1, <1>2, ContractsClosed DEF Status
<1>5. EscrowOK'
  <2>1. /\ pending \ {pb} \subseteq pending' /\ pb \notin pending'
        /\ \A p \in pending' : p \in pending \/ p.type = "account"
    OBVIOUS
  <2> QED
    BY <1>1, <1>3, <2>1, EscrowClosed
<1>6. pb.account \in Addr /\ pb.amount \in Nat \ {0}
  BY <1>1 DEF PendingsOK, PendingBalance
<1>7. pb.fee = 0
  <2>1. PICK d \in Contracted : IsPendingOf(pb, d) /\ (d.type # "transfer" => pb.fee = 0)
    BY <1>1, EscrowParts DEF HasContract, IsPendingOf
  <2>2. d = c
    BY <1>1, <2>1 DEF IsPendingOf, ContractsOK, Contracted
  <2> QED
    BY <2>1, <2>2
<1>8. PICK rest : rest = pending \ {pb}
  OBVIOUS
<1>9. /\ IsFiniteSet(rest) /\ IntDeposits(rest)
      /\ DepositSum(rest) = DepositSum(pending) - (pb.amount + pb.fee)
  BY <1>1, <1>8, PendingTaken DEF Countable
<1>10. pending' = rest
  BY <1>8
<1>11. SumFunction(bal) \in Int /\ DepositSum(pending) \in Int /\ AmountSum(fees) \in Int
  BY <1>1, MoneyInt
<1>12. Countable'
  BY <1>1, <1>2, <1>9, <1>10 DEF Countable
<1>13. AuditTrail'
  BY <1>1 DEF AuditTrail, LogsOf
<1>14. Money' = Money + (-pb.amount)
  <2>1. pb.amount \in Int /\ pb.amount + pb.fee = pb.amount
    BY <1>6, <1>7
  <2>2. DepositSum(pending') = DepositSum(pending) - pb.amount
    BY <1>9, <1>10, <2>1
  <2>3. Money' = SumFunction(bal) + DepositSum(pending') + AmountSum(fees)
    BY DEF Money
  <2> QED
    BY <1>11, <2>1, <2>2, <2>3 DEF Money
<1>15. Solvent
  BY <1>1 DEF Solvent
<1> QED
  BY <1>3, <1>4, <1>5, <1>6, <1>12, <1>13, <1>14, <1>15

(* The execute callback of a pay.                                             *)
LEMMA ExecutePayKeeps ==
  ASSUME Inv, NEW c \in contracts, c.type = "pay", NEW ts \in Timestamps, executePay(c, ts),
         UNCHANGED <<feeVars, wrapVars>>
  PROVE  Kept
<1>1. /\ PaysOK /\ WrapsOK /\ ContractsOK /\ nextTx \in Nat \ {0} /\ now \in Nat /\ now >= StartTime
      /\ token.policy \in FeePolicy /\ token.supply \in Int
      /\ prunedPays \subseteq {p.tx : p \in pays}
  BY InvFacts
<1>2. ts \in Nat
  BY <1>1, TimestampNat
<1>3. PICK pb \in pending :
        /\ IsPendingOf(pb, c)
        /\ PayPendingBalance(nextTx, pb, CalcFee(c.doc.receiver, "pay", pb.amount),
                             c.doc.receiver, ts)
  BY DEF executePay
<1>4. PICK merchant, amount, fee, owner :
        /\ merchant = c.doc.receiver /\ amount = pb.amount /\ owner = pb.account
        /\ fee = CalcFee(c.doc.receiver, "pay", pb.amount)
  OBVIOUS
<1>5. merchant \in Addr /\ c \in Contracted
  BY <1>1, <1>4, ContractForm DEF Contracted
<1>6. /\ Quiet /\ nextTx' = nextTx + 1 /\ UNCHANGED <<fees, bal, blog, wraps>>
      /\ pending' = pending \ {pb} /\ CloseContract(c, "executed")
  BY <1>3 DEF executePay, PayPendingBalance, UseTxID, Quiet, feeVars, wrapVars
<1>7. /\ ClockOK' /\ TokenOK' /\ PendingsOK' /\ ContractsOK' /\ FeesOK' /\ EscrowOK'
      /\ owner \in Addr /\ amount \in Nat \ {0}
      /\ Countable' /\ AuditTrail' /\ Money' = Money + (-amount) /\ Solvent
  BY <1>3, <1>4, <1>5, <1>6, DepositSpent
<1>8. fee \in Nat
  <2>1. amount \in Int
    BY <1>7
  <2> QED
    BY <1>1, <1>4, <2>1, CalcFeeNat DEF FeeFn
<1>9. PICK new : new = Pay(nextTx, merchant, amount, fee, owner, 0, ts)
  OBVIOUS
<1>10. /\ pays' = pays \cup {new} /\ new.tx = nextTx /\ new.amount = amount
       /\ prunedPays' = prunedPays
  BY <1>3, <1>4, <1>6, <1>9 DEF PayPendingBalance, Pay, Quiet
<1>11. PaysOK'
  <2>1. pays' = pays \cup {Pay(nextTx, merchant, amount, fee, owner, 0, ts)} /\ fee \in Int
    BY <1>8, <1>9, <1>10
  <2> QED
    BY <1>1, <1>2, <1>5, <1>6, <1>7, <2>1, PaysPut
<1>12. IDsGrow /\ WrapsOK'
  <2>1. IDsGrow
    BY <1>1, <1>6 DEF IDsGrow
  <2> QED
    BY <1>6, <2>1, RestStays
<1>13. Documents'
  BY <1>7, <1>11, <1>12 DEF Documents
<1>14. PrunesStay
  BY <1>6, <1>10 DEF PrunesStay, Quiet
<1>15. AmountSum(Uncollected') = AmountSum(Uncollected) + amount
  <2>1. new.amount \in Int /\ nextTx \in Nat
    BY <1>1, <1>7, <1>10
  <2> QED
    BY <1>1, <1>10, <2>1, UncollectedPut
<1>16. AmountSum(Open') = AmountSum(Open) /\ token'.supply = token.supply
  BY <1>6, AsideStays DEF Quiet
<1>17. SumsOK'
  BY <1>1, <1>7, <1>13, <1>14, <1>15, <1>16, SumsInt, SumsKept
<1> QED
  BY <1>7, <1>13, <1>14, <1>17 DEF Kept

(* The execute callback of a wrap.                                            *)
LEMMA ExecuteWrapKeeps ==
  ASSUME Inv, NEW c \in contracts, NEW ts \in Timestamps, executeWrap(c, ts),
         UNCHANGED <<payVars, feeVars>>
  PROVE  Kept
<1>1. /\ PaysOK /\ WrapsOK /\ ContractsOK /\ nextTx \in Nat \ {0} /\ token.supply \in Int
  BY InvFacts
<1>2. PICK pb \in pending :
        IsPendingOf(pb, c) /\ WrapPendingBalance(nextTx, pb, c.doc.sender, c.doc.ext)
  BY DEF executeWrap
<1>3. PICK sender, amount, ext :
        sender = c.doc.sender /\ amount = pb.amount /\ ext = c.doc.ext
  OBVIOUS
<1>4. sender \in Addr /\ ext \in ExtCode /\ c \in Contracted /\ c.type # "transfer"
  BY <1>1, <1>3, ContractForm DEF Contracted, executeWrap
<1>5. /\ Quiet /\ nextTx' = nextTx + 1 /\ UNCHANGED <<fees, bal, blog, pays>>
      /\ pending' = pending \ {pb} /\ CloseContract(c, "executed")
      /\ wraps' = wraps \cup {Wrap(nextTx, sender, amount, ext)}
  BY <1>2, <1>3 DEF executeWrap, WrapPendingBalance, UseTxID, Quiet, feeVars, payVars
<1>6. /\ ClockOK' /\ TokenOK' /\ PendingsOK' /\ ContractsOK' /\ FeesOK' /\ EscrowOK'
      /\ amount \in Nat \ {0}
      /\ Countable' /\ AuditTrail' /\ Money' = Money + (-amount) /\ Solvent
  BY <1>2, <1>3, <1>4, <1>5, DepositSpent
<1>7. WrapsOK'
  BY <1>1, <1>4, <1>5, <1>6, WrapsPut
<1>8. PaysOK'
  <2>1. IDsGrow
    BY <1>1, <1>5 DEF IDsGrow
  <2> QED
    BY <1>5, <2>1, RestStays
<1>9. Documents'
  BY <1>6, <1>7, <1>8 DEF Documents
<1>10. PrunesStay
  BY <1>5 DEF PrunesStay, Quiet
<1>11. AmountSum(Open') = AmountSum(Open) + amount
  <2>1. amount \in Int /\ nextTx \in Nat
    BY <1>1, <1>6
  <2> QED
    BY <1>1, <1>5, <2>1, OpenPut
<1>12. AmountSum(Uncollected') = AmountSum(Uncollected) /\ token'.supply = token.supply
  BY <1>5, AsideStays DEF Quiet
<1>13. SumsOK'
  BY <1>1, <1>6, <1>9, <1>10, <1>11, <1>12, SumsInt, SumsKept
<1> QED
  BY <1>6, <1>9, <1>10, <1>13 DEF Kept

(* The execute callback of a transfer: the amount reaches the receiver, or a  *)
(* pending balance of its own.                                                *)
LEMMA ExecuteTransferKeeps ==
  ASSUME Inv, NEW c \in contracts, c.type = "transfer", NEW ts \in Timestamps,
         executeTransfer(c, ts), UNCHANGED <<payVars, feeVars, wrapVars>>
  PROVE  Kept
<1>1. /\ PendingsOK /\ ContractsOK /\ FeesOK /\ EscrowOK /\ Countable /\ AuditTrail
      /\ Fresh(nextTx) /\ nextTx \in Nat \ {0} /\ now \in Nat /\ now >= StartTime
      /\ bal \in [Addr -> Int] /\ token.supply \in Int
  BY InvFacts
<1>2. ts \in Nat
  BY <1>1, TimestampNat
<1>3. PICK pb \in pending :
        /\ IsPendingOf(pb, c)
        /\ LET lock == IF c.doc.orderID.kind = "number" THEN c.doc.orderID.secs ELSE 0
           IN TransferPendingBalance(nextTx, pb, c.doc.sender, c.doc.receiver, lock, ts)
  BY DEF executeTransfer
<1>4. PICK sender, receiver, lock :
        /\ sender = c.doc.sender /\ receiver = c.doc.receiver
        /\ lock = IF c.doc.orderID.kind = "number" THEN c.doc.orderID.secs ELSE 0
  OBVIOUS
<1>5. c \in Contracted /\ sender \in Addr /\ receiver \in Addr /\ lock \in Nat
  BY <1>1, <1>4, ContractForm DEF Contracted, OrderID
<1>6. TransferPendingBalance(nextTx, pb, sender, receiver, lock, ts)
  BY <1>3, <1>4
<1>7. /\ Quiet /\ nextTx' = nextTx + 1 /\ UNCHANGED <<pays, wraps>> /\ CloseContract(c, "executed")
  BY DEF executeTransfer, UseTxID, Quiet, payVars, feeVars, wrapVars
<1>8. IDsGrow
  BY <1>1, <1>7 DEF IDsGrow
<1>9. ClockOK' /\ TokenOK' /\ Later /\ PaysOK' /\ WrapsOK'
  BY <1>7, <1>8, RestStays
<1>10. ContractsOK'
  BY <1>1, <1>7, <1>8, ContractsClosed DEF Status
<1>11. PICK owner, amount, fee : owner = pb.account /\ amount = pb.amount /\ fee = pb.fee
  OBVIOUS
<1>12. owner \in Addr /\ amount \in Nat \ {0} /\ fee \in Nat
  BY <1>1, <1>11 DEF PendingsOK, PendingBalance
<1>13. PICK p : p = Pending(nextTx, "account", receiver, sender, amount, 0, lock)
  OBVIOUS
<1>14. /\ pending' = pending \ {pb} \/ pending' = (pending \ {pb}) \cup {p}
       /\ CreateFee(owner, fee, ts, nextTx)
  BY <1>6, <1>11, <1>13 DEF TransferPendingBalance
<1>15. PendingsOK'
  <2>1. pending' \subseteq pending \cup {Pending(nextTx, "account", receiver, sender, amount, 0, lock)}
    BY <1>13, <1>14
  <2> QED
    BY <1>1, <1>5, <1>7, <1>12, <2>1, PendingsPut
<1>16. FeesOK'
  <2>1. nextTx < nextTx' /\ nextTx \in Nat /\ fee \in Int /\ ts \in Int
    BY <1>1, <1>2, <1>7, <1>12
  <2> QED
    BY <1>1, <1>8, <1>12, <1>14, <2>1, FeesPut
<1>17. Documents'
  BY <1>9, <1>10, <1>15, <1>16 DEF Documents
<1>18. EscrowOK'
  <2>1. p.type = "account" /\ p.id = nextTx
    BY <1>13 DEF Pending
  <2>2. p # pb
    BY <1>3, <2>1 DEF IsPendingOf
  <2>3. /\ pending \ {pb} \subseteq pending' /\ pb \notin pending'
        /\ \A q \in pending' : q \in pending \/ q.type = "account"
    BY <1>14, <2>1, <2>2
  <2> QED
    BY <1>1, <1>3, <1>5, <1>7, <1>9, <2>3, EscrowClosed
<1>19. Countable' /\ AuditTrail' /\ Money' = Money
  <2>1. lock \in Int /\ ts \in Int
    BY <1>2, <1>5
  <2> QED
    BY <1>1, <1>5, <1>6, <2>1, TransferPendingMoves
<1>20. PrunesStay
  <2>1. Fee(owner, fee, ts, nextTx).tx = nextTx
    BY DEF Fee
  <2> QED
    BY <1>7, <1>14, <2>1 DEF PrunesStay, Quiet, CreateFee
<1>21. /\ AmountSum(Uncollected') = AmountSum(Uncollected) /\ AmountSum(Open') = AmountSum(Open)
       /\ token'.supply = token.supply
  BY <1>7, AsideStays DEF Quiet
<1>22. SumsOK'
  BY <1>17, <1>19, <1>20, <1>21, SumsInt, SumsKept
<1>23. Solvent
  BY <1>1, <1>5, <1>6, <1>11, <1>12 DEF TransferPendingBalance, Solvent
<1> QED
  BY <1>17, <1>18, <1>20, <1>22, <1>23 DEF Kept

(* Contracts of mints and burns close without a deposit.                      *)
LEMMA KntClosed ==
  ASSUME Inv, NEW c \in contracts, c.type \in {"token/mint", "token/burn"}, nextTx' = nextTx,
         NEW status \in {"executed", "canceled"}, CloseContract(c, status)
  PROVE  IDsGrow /\ ContractsOK' /\ Contracted' = Contracted
<1>1. ContractsOK /\ nextTx \in Nat \ {0}
  BY InvFacts
<1>2. IDsGrow
  BY <1>1 DEF IDsGrow
<1>3. ContractsOK'
  BY <1>1, <1>2, ContractsClosed DEF Status
<1>4. PICK closed : closed = [c EXCEPT !.status = status]
  OBVIOUS
<1>5. closed.type = c.type
  BY <1>1, <1>4, ClosedForm DEF Status
<1>6. contracts' = (contracts \ {c}) \cup {closed}
  BY <1>4 DEF CloseContract
<1>7. Contracted' = Contracted
  BY <1>5, <1>6 DEF Contracted
<1> QED
  BY <1>2, <1>3, <1>7

(* contract/execute.                                                          *)
LEMMA ExecuteStepKeeps ==
  ASSUME Inv, ExecuteStep
  PROVE  Kept
<1>1. PICK c \in contracts, ts \in Timestamps :
        /\ OpenContract(c)
        /\ \/ /\ c.type = "transfer" /\ executeTransfer(c, ts)
              /\ UNCHANGED <<relations, payVars, feeVars, wrapVars>>
           \/ /\ c.type = "pay" /\ executePay(c, ts)
              /\ UNCHANGED <<relations, feeVars, wrapVars>>
           \/ /\ executeWrap(c, ts)
              /\ UNCHANGED <<relations, payVars, feeVars>>
           \/ /\ executeTokenMint(c, ts) \/ executeTokenBurn(c, ts)
              /\ UNCHANGED <<now, fees, payVars, feeVars, wrapVars>>
  BY DEF ExecuteStep
<1>2. CASE /\ c.type = "transfer" /\ executeTransfer(c, ts)
           /\ UNCHANGED <<relations, payVars, feeVars, wrapVars>>
  BY <1>2, ExecuteTransferKeeps
<1>3. CASE /\ c.type = "pay" /\ executePay(c, ts)
           /\ UNCHANGED <<relations, feeVars, wrapVars>>
  BY <1>3, ExecutePayKeeps
<1>4. CASE executeWrap(c, ts) /\ UNCHANGED <<relations, payVars, feeVars>>
  BY <1>4, ExecuteWrapKeeps
<1>5. CASE /\ executeTokenMint(c, ts) \/ executeTokenBurn(c, ts)
           /\ UNCHANGED <<now, fees, payVars, feeVars, wrapVars>>
  <2>1. /\ c.type \in {"token/mint", "token/burn"} /\ CloseContract(c, "executed")
        /\ nextTx' = nextTx
        /\ Mint(c.doc.amount, ts) \/ Burn(c.doc.amount, ts)
    BY <1>5 DEF executeTokenMint, executeTokenBurn
  <2>2. PICK amount : amount = c.doc.amount
    OBVIOUS
  <2>3. amount \in Nat
    BY <2>1, <2>2, InvFacts, ContractForm
  <2>4. IDsGrow /\ ContractsOK' /\ Contracted' = Contracted
    BY <2>1, KntClosed
  <2>5. /\ UNCHANGED <<now, fees, pays, wraps>>
        /\ UNCHANGED <<payCursor, prunedPays, feeCursor, prunedFees>>
    BY <1>5 DEF payVars, feeVars, wrapVars
  <2> QED
    BY <2>1, <2>2, <2>3, <2>4, <2>5, MintKeeps, BurnKeeps
<1> QED
  BY <1>1, <1>2, <1>3, <1>4, <1>5

(* contract/cancel.                                                           *)
LEMMA CancelStepKeeps ==
  ASSUME Inv, CancelStep
  PROVE  Kept
<1>1. PICK c \in contracts, ts \in Timestamps :
        /\ OpenContract(c)
        /\ \/ /\ c.type \in {"transfer", "pay", "wrap"} /\ cancelTransfer(c, ts)
              /\ UNCHANGED relations
           \/ /\ c.type \in {"token/mint", "token/burn"} /\ contractVoid(c)
              /\ UNCHANGED <<now, token, pending, blog, fees>>
        /\ UNCHANGED <<payVars, feeVars, wrapVars>>
  BY DEF CancelStep
<1>2. /\ ClockOK /\ TokenOK /\ PendingsOK /\ ContractsOK /\ EscrowOK /\ nextTx \in Nat \ {0}
      /\ now \in Nat
  BY InvFacts
<1>3. UNCHANGED <<pays, wraps, payCursor, prunedPays, feeCursor, prunedFees>>
  BY <1>1 DEF payVars, feeVars, wrapVars
<1>4. CASE c.type \in {"transfer", "pay", "wrap"} /\ cancelTransfer(c, ts)
  <2>1. PICK pb \in pending : IsPendingOf(pb, c) /\ Withdraw(pb, ts)
    BY <1>4 DEF cancelTransfer
  <2>2. /\ Quiet /\ UNCHANGED <<nextTx, fees>> /\ CloseContract(c, "canceled")
        /\ c \in Contracted
    BY <1>3, <1>4 DEF cancelTransfer, Quiet, txVars, Contracted
  <2>3. IDsGrow /\ Later
    BY <1>2, <2>2 DEF IDsGrow, Later, Quiet
  <2>4. ContractsOK'
    BY <1>2, <2>2, <2>3, ContractsClosed DEF Status
  <2>5. pending' = pending \ {pb}
    BY <2>1 DEF Withdraw
  <2>6. EscrowOK'
    <3>1. /\ pending \ {pb} \subseteq pending' /\ pb \notin pending'
          /\ \A p \in pending' : p \in pending \/ p.type = "account"
      BY <2>5
    <3> QED
      BY <1>2, <2>1, <2>2, <2>3, <3>1, EscrowClosed
  <2> QED
    BY <1>3, <2>1, <2>2, <2>4, <2>6, WithdrawnKeeps
<1>5. CASE /\ c.type \in {"token/mint", "token/burn"} /\ contractVoid(c)
           /\ UNCHANGED <<now, token, pending, blog, fees>>
  <2>1. CloseContract(c, "canceled") /\ UNCHANGED <<nextTx, account, bal>>
    BY <1>5 DEF contractVoid
  <2>2. IDsGrow /\ ContractsOK' /\ Contracted' = Contracted
    BY <1>5, <2>1, KntClosed
  <2>3. Quiet /\ Later
    BY <1>2, <1>3, <1>5, <2>1 DEF Quiet, Later
  <2>4. ClockOK' /\ TokenOK'
    BY <1>2, <2>2, <2>3, QuietKeeps
  <2> QED
    BY <1>3, <1>5, <2>1, <2>2, <2>3, <2>4, UnmovedKeeps
<1> QED
  BY <1>1, <1>4, <1>5

(* All requests, callbacks and the clock.                                     *)
LEMMA RequestKeeps ==
  ASSUME Inv, Request
  PROVE  Kept
BY TransferStepKeeps, PayStepKeeps, RefundStepKeeps, WrapStepKeeps, CompleteStepKeeps,
   UnwrapStepKeeps, WithdrawStepKeeps, IssueStepKeeps, UpdateStepKeeps, IdleStepKeeps,
   ExecuteStepKeeps, CancelStepKeeps DEF Request

-----------------------------------------------------------------------------
(* Prunes.                                                                    *)

(* The id of the next transaction never goes back.                            *)
LEMMA RequestIDs ==
  ASSUME Inv, Request
  PROVE  IDsGrow
<1>1. nextTx \in Nat \ {0}
  BY InvFacts
<1>2. CASE TransferStep \/ PayStep \/ RefundStep
  BY <1>1, <1>2 DEF TransferStep, PayStep, RefundStep, transfer, pay, payRefund, UseTxID, IDsGrow
<1>3. CASE WrapStep \/ CompleteStep \/ UnwrapStep
  BY <1>1, <1>3 DEF WrapStep, CompleteStep, UnwrapStep, wrap, wrapComplete, unwrap, UseTxID,
                    txVars, IDsGrow
<1>4. CASE WithdrawStep \/ UpdateStep
  BY <1>1, <1>4 DEF WithdrawStep, UpdateStep, balancePendingWithdraw, txVars, IDsGrow
<1>5. CASE MintStep \/ BurnStep
  BY <1>1, <1>5 DEF MintStep, BurnStep, tokenMint, tokenBurn, ProposeTo, UseTxID, IDsGrow
<1>6. CASE SuspendStep \/ (\E kid \in Suspendable : UnsuspendStep(kid)) \/ TickStep
  BY <1>1, <1>6 DEF SuspendStep, UnsuspendStep, TickStep, AccountUnchangedElsewhere, txVars, IDsGrow
<1>7. CASE ExecuteStep
  BY <1>1, <1>7 DEF ExecuteStep, executeTransfer, executePay, executeWrap, executeTokenMint,
                    executeTokenBurn, UseTxID, IDsGrow
<1>8. CASE CancelStep
  BY <1>1, <1>8 DEF CancelStep, cancelTransfer, contractVoid, txVars, IDsGrow
<1> QED
  BY <1>2, <1>3, <1>4, <1>5, <1>6, <1>7, <1>8 DEF Request

(* What a range query may add up is part of what it finds.                    *)
LEMMA BatchFound ==
  ASSUME NEW found, NEW limit, NEW batch \in Batches(found, limit)
  PROVE  batch \subseteq found
BY DEF Batches, kSubset

(* The last time added up is that of a document, and the latest.              *)
LEMMA EndTimeLatest ==
  ASSUME NEW batch, IsFiniteSet(batch), batch # {}, \A d \in batch : d.ts \in Int
  PROVE  /\ EndTime(batch) \in Int /\ \A d \in batch : d.ts <= EndTime(batch)
         /\ \E d \in batch : d.ts = EndTime(batch)
BY LatestTime DEF EndTime

(* The fees of a batch add up.                                                *)
LEMMA FeeSumInt ==
  ASSUME PaysOK, NEW batch \in SUBSET pays
  PROVE  FeeSum(batch) \in Int /\ IsFiniteSet(batch) /\ \A p \in batch : p.ts \in Int
<1>1. IsFiniteSet(batch)
  BY FS_Subset DEF PaysOK
<1>2. \A p \in batch : p.fee \in Int /\ p.ts \in Int
  BY DEF PaysOK, PayDocument
<1> DEFINE fee == [p \in batch |-> p.fee]
<1>3. fee \in [batch -> Int] /\ FeeSum(batch) = SumFunction(fee)
  BY <1>2 DEF FeeSum
<1> HIDE DEF fee
<1> QED
  BY <1>1, <1>2, <1>3, SumFunctionInt

(* A step that is no prune keeps what was pruned behind the cursors.          *)
LEMMA PrunesOKStays ==
  ASSUME Inv, PrunesStay
  PROVE  PrunesOK'
<1>1. PrunesOK /\ PaysOK
  BY InvFacts
<1>2. \A p \in pays : p.tx \in Int /\ p.tx < nextTx
  BY <1>1 DEF PaysOK, PayDocument
<1>3. nextTx \notin prunedPays
  BY <1>1, <1>2 DEF PrunesOK
<1>4. /\ payCursor' = payCursor /\ feeCursor' = feeCursor
      /\ prunedPays' = prunedPays /\ prunedFees' = prunedFees /\ fees \subseteq fees'
  BY DEF PrunesStay
<1>5. (prunedPays \subseteq {p.tx : p \in pays})'
  BY <1>1, <1>4 DEF PrunesOK, PrunesStay
<1>6. ASSUME NEW q \in pays', q.tx \in prunedPays
      PROVE  q.ts <= payCursor[q.merchant]
  <2>1. PICK p \in pays : p.tx = q.tx /\ p.merchant = q.merchant /\ p.ts = q.ts
    BY <1>3, <1>6 DEF PrunesStay
  <2> QED
    BY <1>1, <1>6, <2>1 DEF PrunesOK
<1> QED
  BY <1>1, <1>4, <1>5, <1>6 DEF PrunesOK

(* An endorsed prune survives with all it was endorsed on; its id is not used *)
(* by anybody else.                                                           *)
LEMMA SurvivorsOK ==
  ASSUME EndorsedOK, IDsGrow, endorsed' = Survivors,
         \A f \in fees' : f \in fees \/ \A e \in Survivors : FeeSum(e.batch) # 0 => e.tx # f.tx
  PROVE  EndorsedOK'
<1>1. Survivors \subseteq endorsed
  BY DEF Survivors
<1>2. ASSUME NEW e \in Survivors
      PROVE  EndorsementOK(e)'
  <2>1. EndorsementOK(e) /\ e \in endorsed
    BY <1>1 DEF EndorsedOK
  <2>2. /\ account'[e.account] = account[e.account] /\ payCursor'[e.account] = payCursor[e.account]
        /\ bal'[e.account] = bal[e.account]
        /\ e.batch \subseteq pays'
    BY DEF Survivors
  <2> QED
    BY <2>1, <2>2 DEF EndorsementOK, Active, AccountExists, IsSuspended
<1>3. ASSUME NEW e \in Survivors, FeeSum(e.batch) # 0
      PROVE  e.tx < nextTx' /\ \A f \in fees' : f.tx # e.tx
  <2>1. e.tx < nextTx /\ e.tx \in Nat /\ \A f \in fees : f.tx # e.tx
    BY <1>1, <1>3 DEF EndorsedOK, EndorsementOK
  <2> QED
    BY <1>3, <2>1 DEF IDsGrow
<1> QED
  BY <1>1, <1>2, <1>3 DEF EndorsedOK

(* So does an endorsed fee prune.                                             *)
LEMMA FeeSurvivorsOK ==
  ASSUME EndorsedFeesOK, endorsedFees' = FeeSurvivors, fees \subseteq fees'
  PROVE  EndorsedFeesOK'
<1>1. ASSUME NEW e \in FeeSurvivors
      PROVE  /\ e \in endorsedFees /\ token' = token /\ feeCursor' = feeCursor
             /\ bal'[e.account] = bal[e.account]
  BY DEF FeeSurvivors
<1> QED
  BY <1>1 DEF EndorsedFeesOK

(* Requests, callbacks and the clock.                                         *)
LEMMA RequestInv ==
  ASSUME Inv, Request, Committed
  PROVE  Inv'
<1>1. Documents' /\ EscrowOK' /\ SumsOK' /\ PrunesStay
  BY RequestKeeps DEF Kept
<1>2. EndorsedOK /\ EndorsedFeesOK
  BY DEF Inv, PrunesInv
<1>3. PrunesOK'
  BY <1>1, PrunesOKStays
<1>4. EndorsedOK'
  <2>1. ASSUME NEW f \in fees', f \notin fees, NEW e \in Survivors, FeeSum(e.batch) # 0
        PROVE  e.tx # f.tx
    <3>1. f.tx = nextTx
      BY <1>1, <2>1 DEF PrunesStay
    <3>2. e.tx < nextTx /\ e.tx \in Nat
      BY <1>2, <2>1 DEF Survivors, EndorsedOK, EndorsementOK
    <3> QED
      BY <3>1, <3>2, InvFacts
  <2> QED
    BY <1>2, <2>1, RequestIDs, SurvivorsOK DEF Committed
<1>5. EndorsedFeesOK'
  BY <1>1, <1>2, FeeSurvivorsOK DEF Committed, PrunesStay
<1> QED
  BY <1>1, <1>3, <1>4, <1>5 DEF Inv, PrunesInv

(* What an endorsement leaves alone: everything but the endorsements.         *)
OnlyEndorses ==
  /\ UNCHANGED <<now, token, account, fees, balanceVars, contracts, payVars, feeVars, wrapVars>>
  /\ IDsGrow

(* It keeps the documents and the sums.                                       *)
LEMMA EndorsesInv ==
  ASSUME Inv, OnlyEndorses
  PROVE  Documents' /\ EscrowOK' /\ PrunesOK' /\ SumsOK'
<1>1. /\ Quiet /\ IDsGrow /\ UNCHANGED <<bal, pending, blog, contracts, fees, pays, wraps>>
  BY DEF OnlyEndorses, Quiet, balanceVars, payVars, feeVars, wrapVars
<1>2. PrunesOK /\ ContractsOK /\ EscrowOK /\ Countable /\ AuditTrail
  BY InvFacts
<1>3. /\ ClockOK' /\ TokenOK' /\ Later /\ PendingsOK' /\ ContractsOK' /\ FeesOK' /\ PaysOK'
      /\ WrapsOK'
  BY <1>1, RestStays
<1>4. Documents'
  BY <1>3 DEF Documents
<1>5. EscrowOK'
  <2>1. Contracted' = Contracted
    BY <1>1 DEF Contracted
  <2> QED
    BY <1>1, <1>2, <1>3, <2>1, EscrowStays
<1>6. PrunesStay
  BY <1>1 DEF PrunesStay, Quiet
<1>7. PrunesOK'
  BY <1>6, PrunesOKStays
<1>8. Countable' /\ AuditTrail' /\ Money' = Money
  BY <1>1, <1>2 DEF Countable, AuditTrail, LogsOf, Money
<1>9. /\ AmountSum(Uncollected') = AmountSum(Uncollected) /\ AmountSum(Open') = AmountSum(Open)
      /\ token'.supply = token.supply
  BY <1>1, AsideStays DEF Quiet
<1>10. SumsOK'
  BY <1>4, <1>6, <1>8, <1>9, SumsInt, SumsKept
<1> QED
  BY <1>4, <1>5, <1>7, <1>10

(* pay/prune, endorsed.                                                       *)
LEMMA PayPruneInv ==
  ASSUME Inv, PayPruneStep
  PROVE  Inv'
<1>1. PICK kid \in Kid, a \in Addr, safely \in PruneFlags, end \in EndTimes, ts \in Timestamps :
        payPrune(kid, a, safely, end, ts) /\ UNCHANGED <<relations, feeVars, endorsedFees, wrapVars>>
  BY DEF PayPruneStep
<1>2. /\ EndorsedOK /\ EndorsedFeesOK /\ PaysOK /\ FeesOK /\ nextTx \in Nat \ {0} /\ now \in Nat
  BY InvFacts DEF Inv, PrunesInv
<1>3. PICK batch \in PayBatches(a, payCursor[a], PruneEnd(safely, end, ts)) :
        /\ batch # {}
        /\ IF FeeSum(batch) = 0 THEN UNCHANGED nextTx ELSE UseTxID
        /\ endorsed' = endorsed \cup
             {[account |-> a, ts |-> ts, tx |-> nextTx, at |-> now, bal |-> bal[a],
              batch |-> batch]}
  BY <1>1 DEF payPrune
<1>4. PICK new : new = [account |-> a, ts |-> ts, tx |-> nextTx, at |-> now, bal |-> bal[a],
                      batch |-> batch]
  OBVIOUS
<1>5. /\ new.account = a /\ new.ts = ts /\ new.tx = nextTx /\ new.batch = batch
      /\ new.bal = bal[a]
      /\ endorsed' = endorsed \cup {new}
  BY <1>3, <1>4
<1>6. nextTx' = IF FeeSum(batch) = 0 THEN nextTx ELSE nextTx + 1
  BY <1>3 DEF UseTxID
<1>7. OnlyEndorses
  BY <1>1, <1>2, <1>6 DEF OnlyEndorses, payPrune, payVars, IDsGrow
<1>8. Documents' /\ EscrowOK' /\ PrunesOK' /\ SumsOK'
  BY <1>7, EndorsesInv
<1>9. UNCHANGED <<token, account, bal, fees, pays, payCursor, feeCursor, endorsedFees>>
  BY <1>1, <1>7 DEF OnlyEndorses, balanceVars, payVars, feeVars
<1>10. \A e : EndorsementOK(e)' <=> EndorsementOK(e)
  BY <1>9 DEF EndorsementOK, Active, AccountExists, IsSuspended
<1>11. EndorsementOK(new)
  <2>1. Active(a) /\ ts \in Int
    BY <1>1, <1>2, ContextAssumption DEF payPrune
  <2>2. batch \subseteq pays /\ \A p \in batch : p.merchant = a /\ payCursor[a] < p.ts
    BY <1>3, BatchFound DEF PayBatches, QueryPrunePays, InRange
  <2> QED
    BY <1>2, <1>3, <1>5, <2>1, <2>2 DEF EndorsementOK
<1>12. \A f \in fees : f.tx # nextTx
  BY <1>2 DEF FeesOK, FeeDoc
<1>13. \A e \in endorsed : EndorsementOK(e) /\ e.tx \in Nat
  BY <1>2 DEF EndorsedOK, EndorsementOK
<1>14. EndorsedOK'
  <2>1. (\A e \in endorsed : EndorsementOK(e))'
    BY <1>5, <1>10, <1>11, <1>13
  <2>2. (\A e \in endorsed : FeeSum(e.batch) # 0 => e.tx < nextTx /\ \A f \in fees : f.tx # e.tx)'
    BY <1>2, <1>5, <1>6, <1>9, <1>12, <1>13 DEF EndorsedOK
  <2>3. \A e \in endorsed : FeeSum(e.batch) # 0 => e.tx # nextTx
    BY <1>2, <1>13 DEF EndorsedOK
  <2>4. (\A e, d \in endorsed :
           FeeSum(e.batch) # 0 /\ FeeSum(d.batch) # 0 /\ e.tx = d.tx => e = d)'
    BY <1>2, <1>5, <2>3 DEF EndorsedOK
  <2> QED
    BY <2>1, <2>2, <2>4 DEF EndorsedOK
<1>15. EndorsedFeesOK'
  BY <1>2, <1>9 DEF EndorsedFeesOK
<1> QED
  BY <1>8, <1>14, <1>15 DEF Inv, PrunesInv

(* fee/prune, endorsed.                                                       *)
LEMMA FeePruneInv ==
  ASSUME Inv, FeePruneStep
  PROVE  Inv'
<1>1. PICK kid \in Kid, safely \in PruneFlags, end \in EndTimes, ts \in Timestamps :
        feePrune(kid, safely, end, ts) /\ UNCHANGED <<relations, payVars, endorsed, wrapVars>>
  BY DEF FeePruneStep
<1>2. /\ EndorsedOK /\ EndorsedFeesOK /\ TokenOK /\ nextTx \in Nat \ {0} /\ now \in Nat
  BY InvFacts DEF Inv, PrunesInv
<1>3. PICK target : target = token.policy.target
  OBVIOUS
<1>4. PICK batch \in FeeBatches(feeCursor, PruneEnd(safely, end, ts)) :
        /\ batch # {}
        /\ endorsedFees' = endorsedFees \cup
             {[account |-> target, ts |-> ts, at |-> now, bal |-> bal[target],
              batch |-> batch]}
  BY <1>1, <1>3 DEF feePrune
<1>5. PICK new : new = [account |-> target, ts |-> ts, at |-> now, bal |-> bal[target],
                     batch |-> batch]
  OBVIOUS
<1>6. /\ new.account = target /\ new.ts = ts /\ new.batch = batch /\ new.bal = bal[target]
      /\ endorsedFees' = endorsedFees \cup {new}
  BY <1>4, <1>5
<1>7. OnlyEndorses
  BY <1>1, <1>2 DEF OnlyEndorses, feePrune, txVars, IDsGrow
<1>8. Documents' /\ EscrowOK' /\ PrunesOK' /\ SumsOK'
  BY <1>7, EndorsesInv
<1>9. UNCHANGED <<nextTx, token, account, bal, fees, pays, payCursor, feeCursor, endorsed>>
  BY <1>1, <1>7 DEF OnlyEndorses, balanceVars, payVars, feeVars, feePrune, txVars
<1>10. target \in Addr /\ ts \in Int
  BY <1>1, <1>2, <1>3, ContextAssumption DEF feePrune, TokenOK
<1>11. batch \subseteq fees /\ \A f \in batch : feeCursor < f.ts
  BY <1>4, BatchFound DEF FeeBatches, QueryPruneFee, InRange
<1>12. EndorsedFeesOK'
  BY <1>2, <1>3, <1>4, <1>6, <1>9, <1>10, <1>11 DEF EndorsedFeesOK
<1>13. EndorsedOK'
  BY <1>2, <1>9 DEF EndorsedOK, EndorsementOK, Active, AccountExists, IsSuspended
<1> QED
  BY <1>8, <1>12, <1>13 DEF Inv, PrunesInv

(* All documents together conserve the supply: Conservation in a next state.  *)
LEMMA SumsNow ==
  ASSUME Countable', AuditTrail', PaysOK', WrapsOK', (prunedFees \subseteq fees)',
         Circulating' = token'.supply
  PROVE  SumsOK'
BY ConservationNext DEF SumsOK

(* What an endorsed prune adds up has not been collected: it lies beyond the  *)
(* cursor, which moves to its end.                                            *)
LEMMA PayBatchUncollected ==
  ASSUME Inv, NEW e \in endorsed
  PROVE  /\ e.account \in Addr /\ Active(e.account) /\ e.tx \in Nat /\ e.ts \in Int
         /\ e.batch \in SUBSET pays /\ e.batch \subseteq Uncollected
         /\ EndTime(e.batch) \in Int /\ payCursor[e.account] < EndTime(e.batch)
         /\ \A p \in e.batch : p.merchant = e.account /\ p.ts <= EndTime(e.batch)
<1>1. /\ PrunesOK /\ PaysOK /\ EndorsementOK(e)
  BY InvFacts DEF Inv, PrunesInv, EndorsedOK
<1>2. /\ e.account \in Addr /\ Active(e.account) /\ e.tx \in Nat /\ e.ts \in Int
      /\ e.batch \in SUBSET pays /\ e.batch # {}
      /\ \A p \in e.batch : p.merchant = e.account /\ payCursor[e.account] < p.ts
  BY <1>1 DEF EndorsementOK
<1>3. payCursor[e.account] \in Int
  BY <1>1, <1>2 DEF PrunesOK
<1>4. ASSUME NEW p \in e.batch, p.tx \in prunedPays
      PROVE  FALSE
  <2>1. p \in pays /\ p.ts \in Int
    BY <1>1, <1>2 DEF PaysOK, PayDocument
  <2>2. p.ts <= payCursor[e.account] /\ payCursor[e.account] < p.ts
    BY <1>1, <1>2, <1>4, <2>1 DEF PrunesOK
  <2> QED
    BY <1>3, <2>1, <2>2
<1>5. e.batch \subseteq Uncollected
  BY <1>2, <1>4 DEF Uncollected
<1>6. IsFiniteSet(e.batch) /\ \A p \in e.batch : p.ts \in Int
  BY <1>1, <1>2, FeeSumInt
<1>7. PICK batch : batch = e.batch
  OBVIOUS
<1>8. /\ EndTime(batch) \in Int /\ \A d \in batch : d.ts <= EndTime(batch)
  BY <1>2, <1>6, <1>7, EndTimeLatest
<1>9. PICK p \in batch : TRUE
  BY <1>2, <1>7
<1>10. payCursor[e.account] < EndTime(batch)
  BY <1>2, <1>3, <1>6, <1>7, <1>8, <1>9
<1> QED
  BY <1>2, <1>5, <1>7, <1>8, <1>10

(* The commit of a pay prune.                                                 *)
LEMMA PayCommitInv ==
  ASSUME Inv, PayCommitStep
  PROVE  Inv'
<1>1. PICK e \in endorsed :
        payPruneCommit(e) /\ UNCHANGED <<relations, feeVars, wrapVars>> /\ Committed
  BY DEF PayCommitStep
<1>2. /\ ClockOK /\ TokenOK /\ PendingsOK /\ ContractsOK /\ FeesOK /\ PaysOK /\ WrapsOK
      /\ EscrowOK /\ PrunesOK /\ EndorsedOK /\ EndorsedFeesOK /\ Countable /\ AuditTrail
      /\ nextTx \in Nat \ {0} /\ now \in Nat /\ token.supply \in Int /\ prunedFees \subseteq fees
  BY InvFacts DEF Inv, PrunesInv
<1>3. PICK a, ts, tx, batch, end :
        a = e.account /\ ts = e.ts /\ tx = e.tx /\ batch = e.batch /\ end = EndTime(e.batch)
  OBVIOUS
<1>4. /\ a \in Addr /\ tx \in Nat /\ ts \in Int
      /\ batch \in SUBSET pays /\ batch \subseteq Uncollected
      /\ end \in Int /\ payCursor[a] < end
      /\ \A p \in batch : p.merchant = a /\ p.ts <= end
  BY <1>3, PayBatchUncollected
<1>5. PICK fee, sum, applied : fee = FeeSum(batch) /\ sum = AmountSum(batch) /\ applied = sum - fee
  OBVIOUS
<1>6. fee \in Int
  BY <1>2, <1>4, <1>5, FeeSumInt
<1>7. /\ payCursor' = [payCursor EXCEPT ![a] = end]
      /\ prunedPays' = prunedPays \cup {p.tx : p \in batch}
      /\ CreateFee(a, fee, ts, tx) /\ PutBalanceLogs({Log(a, ts, applied, 0)})
      /\ bal' = [bal EXCEPT ![a] = bal[a] + applied]
  <2>1. e.bal = bal[a]
    BY <1>2, <1>3 DEF EndorsedOK, EndorsementOK
  <2> QED
    BY <1>1, <1>2, <1>3, <1>4, <1>5, <2>1 DEF payPruneCommit, Sum, AmountSum, Countable
<1>8. /\ UNCHANGED <<now, nextTx, token, account, pending, contracts, pays, wraps>>
      /\ UNCHANGED <<feeCursor, prunedFees>>
  BY <1>1 DEF payPruneCommit, txVars, feeVars, wrapVars
<1>9. IDsGrow /\ Later
  BY <1>2, <1>8 DEF IDsGrow, Later
<1>10. fee # 0 => tx < nextTx /\ \A f \in fees : f.tx # tx
  BY <1>2, <1>3, <1>5 DEF EndorsedOK
<1>11. Documents'
  <2>1. ClockOK' /\ TokenOK'
    BY <1>2, <1>8 DEF ClockOK, TokenOK, IsSuspended
  <2>2. PendingsOK' /\ ContractsOK' /\ PaysOK' /\ WrapsOK'
    BY <1>2, <1>8, <1>9, PendingsStay, ContractsStay, PaysStay, WrapsStay
  <2>3. FeesOK'
    <3>1. fee # 0 => tx < nextTx'
      BY <1>8, <1>10
    <3> QED
      BY <1>2, <1>4, <1>6, <1>7, <1>9, <3>1, FeesPut
  <2> QED
    BY <2>1, <2>2, <2>3 DEF Documents
<1>12. EscrowOK'
  <2>1. Contracted' = Contracted
    BY <1>8 DEF Contracted
  <2> QED
    BY <1>2, <1>8, <1>9, <2>1, EscrowStays
<1>13. fees \subseteq fees' /\ \A f \in fees' : f \in fees \/ (fee # 0 /\ f.tx = tx)
  BY <1>7 DEF CreateFee, Fee
<1>14. PrunesOK'
  <2>1. payCursor \in [Addr -> Int] /\ prunedPays \subseteq {p.tx : p \in pays}
    BY <1>2 DEF PrunesOK
  <2>2. /\ payCursor' \in [Addr -> Int] /\ payCursor'[a] = end
        /\ \A b \in Addr \ {a} : payCursor'[b] = payCursor[b]
    BY <1>4, <1>7, <2>1
  <2>3. prunedPays' \subseteq {p.tx : p \in pays'}
    BY <1>4, <1>7, <1>8, <2>1
  <2>4. ASSUME NEW p \in pays, p.tx \in prunedPays'
        PROVE  p.ts <= payCursor'[p.merchant]
    <3>1. p.ts \in Int /\ p.merchant \in Addr
      BY <1>2 DEF PaysOK, PayDocument
    <3>2. CASE p.tx \in prunedPays
      <4>1. p.ts <= payCursor[p.merchant]
        BY <1>2, <3>2 DEF PrunesOK
      <4>2. CASE p.merchant = a
        <5>1. payCursor[a] \in Int
          BY <1>4, <2>1
        <5> QED
          BY <1>4, <2>2, <3>1, <4>1, <4>2, <5>1
      <4>3. CASE p.merchant # a
        BY <2>2, <3>1, <4>1, <4>3
      <4> QED
        BY <4>2, <4>3
    <3>3. CASE p.tx \notin prunedPays
      <4>1. PICK q \in batch : q.tx = p.tx
        BY <1>7, <2>4, <3>3
      <4>2. q = p
        BY <1>2, <1>4, <4>1 DEF PaysOK
      <4> QED
        BY <1>4, <2>2, <4>1, <4>2
    <3> QED
      BY <3>2, <3>3
  <2>5. feeCursor' = feeCursor /\ prunedFees' = prunedFees /\ prunedFees \subseteq fees'
    BY <1>2, <1>8, <1>13
  <2>6. \A p \in pays' : p.tx \in prunedPays' => p.ts <= payCursor'[p.merchant]
    BY <1>8, <2>4
  <2>7. feeCursor' \in Int /\ \A f \in prunedFees' : f.ts <= feeCursor'
    BY <1>2, <2>5 DEF PrunesOK
  <2> QED
    BY <2>2, <2>3, <2>5, <2>6, <2>7 DEF PrunesOK
<1>15. EndorsedOK'
  <2>1. ASSUME NEW f \in fees', f \notin fees, NEW d \in Survivors, FeeSum(d.batch) # 0
        PROVE  d.tx # f.tx
    <3>1. f.tx = tx /\ fee # 0
      BY <1>13, <2>1
    <3>2. d \in endorsed /\ payCursor'[d.account] = payCursor[d.account]
      BY <2>1 DEF Survivors
    <3>3. d # e
      <4>1. payCursor'[a] # payCursor[a]
        BY <1>2, <1>4, <1>7 DEF PrunesOK
      <4> QED
        BY <1>3, <3>2, <4>1
    <3> QED
      BY <1>2, <1>3, <1>5, <2>1, <3>1, <3>2, <3>3 DEF EndorsedOK
  <2> QED
    BY <1>1, <1>2, <1>9, <2>1, SurvivorsOK DEF Committed
<1>16. EndorsedFeesOK'
  BY <1>1, <1>2, <1>13, FeeSurvivorsOK DEF Committed
<1>17. /\ sum \in Int /\ AmountSum(Uncollected') = AmountSum(Uncollected) - sum
  BY <1>2, <1>4, <1>5, <1>7, <1>8, UncollectedPruned
<1>18. Countable' /\ AuditTrail' /\ Money' = Money + applied + fee
  <2>1. applied \in Int
    BY <1>5, <1>6, <1>17
  <2>2. IsFiniteSet(fees') /\ IntAmounts(fees') /\ AmountSum(fees') = AmountSum(fees) + fee
    <3>1. CASE fee = 0
      <4>1. fees' = fees
        BY <1>7, <3>1 DEF CreateFee
      <4>2. AmountSum(fees) \in Int
        BY <1>2, MoneyInt
      <4> QED
        BY <1>2, <3>1, <4>1, <4>2 DEF Countable
    <3>2. CASE fee # 0
      BY <1>2, <1>6, <1>7, <1>10, <3>2, FeeCharged DEF Countable
    <3> QED
      BY <3>1, <3>2
  <2>3. PICK zero : zero = 0
    OBVIOUS
  <2>4. zero \in Int /\ applied = applied - zero /\ PutBalanceLogs({Log(a, ts, applied, zero)})
    BY <1>7, <2>1, <2>3
  <2>5. /\ bal' \in [Addr -> Int] /\ SumFunction(bal') = SumFunction(bal) + applied
        /\ AuditTrail' /\ IsFiniteSet(blog') /\ IntLogs(blog')
    BY <1>2, <1>4, <1>7, <2>1, <2>4, OneLogged
  <2> QED
    BY <1>2, <1>6, <1>8, <2>1, <2>2, <2>5, OneMoves
<1>19. SumsOK'
  <2>1. /\ Money \in Int /\ AmountSum(prunedFees) \in Int /\ AmountSum(Uncollected) \in Int
        /\ AmountSum(Open) \in Int /\ Circulating = token.supply
    BY SumsInt
  <2>2. AmountSum(prunedFees') = AmountSum(prunedFees) /\ AmountSum(Open') = AmountSum(Open)
    BY <1>8, AsideStays
  <2>3. Circulating' = Money' - AmountSum(prunedFees') + AmountSum(Uncollected') + AmountSum(Open')
    BY DEF Circulating
  <2>4. Circulating = Money - AmountSum(prunedFees) + AmountSum(Uncollected) + AmountSum(Open)
    BY DEF Circulating
  <2>5. Circulating' = Circulating /\ token'.supply = token.supply
    BY <1>5, <1>6, <1>8, <1>17, <1>18, <2>1, <2>2, <2>3, <2>4
  <2>6. PaysOK' /\ WrapsOK' /\ prunedFees' \subseteq fees'
    BY <1>2, <1>8, <1>11, <1>13 DEF Documents
  <2> QED
    BY <1>18, <2>1, <2>5, <2>6, SumsNow
<1> QED
  BY <1>11, <1>12, <1>14, <1>15, <1>16, <1>19 DEF Inv, PrunesInv

(* Nor has a fee been collected that an endorsed fee prune adds up.           *)
LEMMA FeeBatchUncollected ==
  ASSUME Inv, NEW e \in endorsedFees
  PROVE  /\ e.account = token.policy.target /\ e.account \in Addr /\ e.ts \in Int
         /\ e.batch # {} /\ e.batch \in SUBSET fees /\ e.batch \cap prunedFees = {}
         /\ EndTime(e.batch) \in Int /\ feeCursor < EndTime(e.batch)
         /\ \A f \in e.batch : f.ts <= EndTime(e.batch)
<1>1. PrunesOK /\ FeesOK /\ IsFiniteSet(fees)
  BY InvFacts DEF Countable
<1>2. /\ e.account = token.policy.target /\ e.account \in Addr /\ e.ts \in Int
      /\ e.batch # {} /\ e.batch \in SUBSET fees /\ \A f \in e.batch : feeCursor < f.ts
  BY DEF Inv, PrunesInv, EndorsedFeesOK
<1>3. feeCursor \in Int /\ \A f \in fees : f.ts \in Int
  BY <1>1 DEF PrunesOK, FeesOK, FeeDoc
<1>4. e.batch \cap prunedFees = {}
  BY <1>1, <1>2, <1>3 DEF PrunesOK
<1>5. IsFiniteSet(e.batch)
  BY <1>1, <1>2, FS_Subset
<1>6. PICK batch : batch = e.batch
  OBVIOUS
<1>7. /\ EndTime(batch) \in Int /\ \A d \in batch : d.ts <= EndTime(batch)
  BY <1>2, <1>3, <1>5, <1>6, EndTimeLatest
<1>8. PICK f \in batch : TRUE
  BY <1>2, <1>6
<1>9. feeCursor < EndTime(batch)
  BY <1>2, <1>3, <1>6, <1>7, <1>8
<1> QED
  BY <1>2, <1>4, <1>6, <1>7, <1>9

(* The commit of a fee prune.                                                 *)
LEMMA FeeCommitInv ==
  ASSUME Inv, FeeCommitStep
  PROVE  Inv'
<1>1. PICK e \in endorsedFees :
        feePruneCommit(e) /\ UNCHANGED <<relations, payVars, wrapVars>> /\ Committed
  BY DEF FeeCommitStep
<1>2. /\ ClockOK /\ TokenOK /\ PendingsOK /\ ContractsOK /\ FeesOK /\ PaysOK /\ WrapsOK
      /\ EscrowOK /\ PrunesOK /\ EndorsedOK /\ EndorsedFeesOK /\ Countable /\ AuditTrail
      /\ nextTx \in Nat \ {0} /\ now \in Nat /\ token.supply \in Int /\ prunedFees \subseteq fees
  BY InvFacts DEF Inv, PrunesInv
<1>3. PICK a, ts, batch, end :
        a = e.account /\ ts = e.ts /\ batch = e.batch /\ end = EndTime(e.batch)
  OBVIOUS
<1>4. /\ a \in Addr /\ ts \in Int /\ batch \in SUBSET fees /\ batch \cap prunedFees = {}
      /\ end \in Int /\ feeCursor < end /\ \A f \in batch : f.ts <= end
  BY <1>3, FeeBatchUncollected
<1>5. PICK sum : sum = AmountSum(batch)
  OBVIOUS
<1>6. /\ feeCursor' = end /\ prunedFees' = prunedFees \cup batch
      /\ PutBalanceLogs({Log(a, ts, sum, 0)})
      /\ bal' = [bal EXCEPT ![a] = bal[a] + sum]
  <2>1. e.bal = bal[a]
    BY <1>2, <1>3 DEF EndorsedFeesOK
  <2> QED
    BY <1>1, <1>2, <1>3, <1>4, <1>5, <2>1 DEF feePruneCommit, Sum, AmountSum, Countable
<1>7. UNCHANGED <<now, nextTx, token, account, pending, contracts, fees, pays, wraps, payCursor, prunedPays>>
  BY <1>1 DEF feePruneCommit, txVars, payVars, wrapVars
<1>8. IDsGrow /\ Later
  BY <1>2, <1>7 DEF IDsGrow, Later
<1>9. Documents'
  <2>1. ClockOK' /\ TokenOK'
    BY <1>2, <1>7 DEF ClockOK, TokenOK, IsSuspended
  <2>2. PendingsOK' /\ ContractsOK' /\ PaysOK' /\ WrapsOK' /\ FeesOK'
    BY <1>2, <1>7, <1>8, PendingsStay, ContractsStay, PaysStay, WrapsStay, FeesStay
  <2> QED
    BY <2>1, <2>2 DEF Documents
<1>10. EscrowOK'
  <2>1. Contracted' = Contracted
    BY <1>7 DEF Contracted
  <2> QED
    BY <1>2, <1>7, <1>8, <2>1, EscrowStays
<1>11. PrunesOK'
  <2>1. \A f \in prunedFees : f.ts \in Int /\ f.ts <= feeCursor /\ feeCursor \in Int
    BY <1>2 DEF PrunesOK, FeesOK, FeeDoc
  <2>2. \A f \in prunedFees' : f.ts <= end
    BY <1>4, <1>6, <2>1
  <2>3. prunedFees' \subseteq fees'
    BY <1>2, <1>4, <1>6, <1>7
  <2> QED
    BY <1>2, <1>4, <1>6, <1>7, <2>2, <2>3 DEF PrunesOK
<1>12. EndorsedOK'
  BY <1>1, <1>2, <1>7, <1>8, SurvivorsOK DEF Committed
<1>13. EndorsedFeesOK'
  BY <1>1, <1>2, <1>7, FeeSurvivorsOK DEF Committed
<1>14. IsFiniteSet(fees) /\ IntAmounts(fees)
  BY <1>2 DEF Countable
<1>15. /\ sum \in Int /\ AmountSum(prunedFees') = AmountSum(prunedFees) + sum
  <2>1. PICK all : all = prunedFees \cup batch
    OBVIOUS
  <2>2. all \in SUBSET fees /\ IsFiniteSet(all) /\ IntAmounts(all)
    BY <1>2, <1>4, <1>14, <2>1, FS_Subset DEF IntAmounts
  <2>3. prunedFees \subseteq all /\ all \ prunedFees = batch
    BY <1>4, <2>1
  <2>4. /\ AmountSum(prunedFees) \in Int /\ AmountSum(batch) \in Int
        /\ AmountSum(all) = AmountSum(prunedFees) + AmountSum(batch)
    BY <2>2, <2>3, AmountSumSplit
  <2> QED
    BY <1>5, <1>6, <2>1, <2>4
<1>16. Countable' /\ AuditTrail' /\ Money' = Money + sum
  BY <1>2, <1>4, <1>6, <1>7, <1>15, OneMovesFree
<1>17. SumsOK'
  <2>1. /\ Money \in Int /\ AmountSum(prunedFees) \in Int /\ AmountSum(Uncollected) \in Int
        /\ AmountSum(Open) \in Int /\ Circulating = token.supply
    BY SumsInt
  <2>2. AmountSum(Uncollected') = AmountSum(Uncollected) /\ AmountSum(Open') = AmountSum(Open)
    BY <1>7, AsideStays
  <2>3. Circulating' = Money' - AmountSum(prunedFees') + AmountSum(Uncollected') + AmountSum(Open')
    BY DEF Circulating
  <2>4. Circulating = Money - AmountSum(prunedFees) + AmountSum(Uncollected) + AmountSum(Open)
    BY DEF Circulating
  <2>5. Circulating' = Circulating /\ token'.supply = token.supply
    BY <1>7, <1>15, <1>16, <2>1, <2>2, <2>3, <2>4
  <2>6. PaysOK' /\ WrapsOK' /\ prunedFees' \subseteq fees'
    BY <1>2, <1>4, <1>6, <1>7, <1>9 DEF Documents
  <2> QED
    BY <1>16, <2>1, <2>5, <2>6, SumsNow
<1> QED
  BY <1>9, <1>10, <1>11, <1>12, <1>13, <1>17 DEF Inv, PrunesInv

-----------------------------------------------------------------------------
(* The theorems.                                                              *)

(* The opening ledger: nothing is set aside, earlier pays are collected.      *)
LEMMA InvInit == Init => Inv
<1> SUFFICES ASSUME Init PROVE Inv
  OBVIOUS
<1>1. /\ bal \in InitialBalances /\ pending = {} /\ fees = {} /\ contracts = {}
      /\ blog = {Log(a, 0, bal[a], 0) : a \in Addr}
      /\ now = StartTime /\ nextTx = 1
      /\ account = [a \in Addr |-> [holders |-> InitialHolders[a], suspended |-> FALSE]]
      /\ pays = EarlierPays /\ prunedPays = {p.tx : p \in EarlierPays}
      /\ payCursor = [a \in Addr |-> 0] /\ endorsed = {}
      /\ feeCursor = 0 /\ prunedFees = {} /\ endorsedFees = {} /\ wraps = {}
  BY DEF Init, LedgerInit, TxInit
<1>2. PICK policy \in InitialPolicies :
        token = [genesis |-> Genesis, supply |-> InitialSupply, max |-> InitialSupply,
                 policy |-> policy, wrap |-> NoBridge]
  BY DEF Init, LedgerInit
<1>3. ClockOK
  BY <1>1, ContextAssumption DEF ClockOK, StartTime
<1>4. TokenOK
  <2>1. NoBridge \in WrapBridge
    BY DEF NoBridge, WrapBridge
  <2>2. token \in Token
    BY <1>2, <2>1, LedgerAssumption DEF Token, Addr
  <2>3. token.genesis \in Joint /\ (token.policy.installed => token.policy.target \in Addr)
    BY <1>2, LedgerAssumption
  <2>4. account \in [Addr -> Account] /\ \A a \in Joint : ~IsSuspended(a)
    BY <1>1, LedgerAssumption DEF Account, IsSuspended, Addr
  <2> QED
    BY <2>2, <2>3, <2>4 DEF TokenOK
<1>5. PendingsOK /\ ContractsOK /\ FeesOK
  BY <1>1 DEF PendingsOK, ContractsOK, FeesOK, Contracted
<1>6. PaysOK
  <2>1. /\ IsFiniteSet(pays) /\ pays \subseteq EarlierPay /\ \A p \in pays : p.tx < 0
        /\ \A p, q \in pays : p.tx = q.tx => p = q
    BY <1>1, SystemAssumption
  <2>2. ASSUME NEW p \in pays
        PROVE  p \in PayDocument /\ (p.parent = 0 <=> p.amount > 0) /\ p.tx < nextTx
    <3>1. p \in EarlierPay /\ p.tx < 0
      BY <2>1
    <3>2. p.tx \in Int /\ p.parent = 0 /\ p.amount \in Nat \ {0}
      BY <3>1 DEF EarlierPay
    <3>3. p \in PayDocument
      BY <3>1 DEF EarlierPay, PayDocument
    <3> QED
      BY <1>1, <3>1, <3>2, <3>3
  <2> QED
    BY <2>1, <2>2 DEF PaysOK
<1>7. WrapsOK
  BY <1>1, FS_EmptySet DEF WrapsOK
<1>8. EscrowOK
  BY <1>1 DEF EscrowOK, DepositsOK, Contracted
<1>9. PrunesOK
  <2>1. \A p \in pays : p.ts = 0 /\ p.merchant \in Addr
    BY <1>1, SystemAssumption DEF EarlierPay
  <2> QED
    BY <1>1, <2>1 DEF PrunesOK
<1>10. EndorsedOK /\ EndorsedFeesOK
  BY <1>1 DEF EndorsedOK, EndorsedFeesOK
<1>11. /\ bal \in [Addr -> Int] /\ SumFunction(bal) = InitialSupply /\ InitialSupply \in Int
       /\ token.supply = InitialSupply
  BY <1>1, <1>2, LedgerAssumption
<1>12. Countable /\ AuditTrail /\ Money = SumFunction(bal)
  BY <1>1, <1>11, OpeningSums
<1>13. AmountSum({}) = 0
  BY FS_EmptySet, AmountSumTake DEF IntAmounts
<1>14. Uncollected = {} /\ Open = {}
  BY <1>1 DEF Uncollected, Open
<1>15. Circulating = token.supply
  BY <1>1, <1>11, <1>12, <1>13, <1>14 DEF Circulating
<1>16. Conservation
  BY <1>1, <1>6, <1>7, <1>12, <1>15, ConservationIs
<1> QED
  BY <1>3, <1>4, <1>5, <1>6, <1>7, <1>8, <1>9, <1>10, <1>12, <1>16
  DEF Inv, Documents, PrunesInv, SumsOK

(* Nothing happens.                                                           *)
LEMMA InvStutters ==
  ASSUME Inv, UNCHANGED vars
  PROVE  Inv'
<1>1. OnlyEndorses /\ UNCHANGED <<endorsed, endorsedFees>>
  <2>1. nextTx \in Nat \ {0}
    BY InvFacts
  <2> QED
    BY <2>1 DEF vars, OnlyEndorses, IDsGrow, txVars
<1>2. Documents' /\ EscrowOK' /\ PrunesOK' /\ SumsOK'
  BY <1>1, EndorsesInv
<1>3. /\ UNCHANGED <<nextTx, token, account, bal, fees, pays, payCursor, feeCursor>>
      /\ UNCHANGED <<endorsed, endorsedFees>>
  BY DEF vars, txVars, balanceVars, payVars, feeVars
<1>4. EndorsedOK /\ EndorsedFeesOK
  BY DEF Inv, PrunesInv
<1>5. EndorsedOK'
  BY <1>3, <1>4 DEF EndorsedOK, EndorsementOK, Active, AccountExists, IsSuspended
<1>6. EndorsedFeesOK'
  BY <1>3, <1>4 DEF EndorsedFeesOK
<1> QED
  BY <1>2, <1>5, <1>6 DEF Inv, PrunesInv

(* The invariant is inductive: whatever clients ask for, however callbacks,   *)
(* withdrawals, prunes endorsed earlier and the clock interleave.             *)
THEOREM ChaincodeInvariant == Spec => []Inv
<1>1. Inv /\ [Next]_vars => Inv'
  BY RequestInv, PayPruneInv, PayCommitInv, FeePruneInv, FeeCommitInv, InvStutters DEF Next
<1> QED
  BY <1>1, InvInit, PTL DEF Spec

(* Documents keep their form while they pass from one component to another:   *)
(* no zero fee, no empty amount set aside, ids that name one document.        *)
THEOREM TypeCorrect == Spec => []TypeOK
<1>1. Inv => TypeOK
  <2> SUFFICES ASSUME Inv PROVE TypeOK
    OBVIOUS
  <2>1. /\ TokenOK /\ PendingsOK /\ FeesOK /\ PaysOK /\ WrapsOK /\ PrunesOK
        /\ bal \in [Addr -> Int]
    BY InvFacts
  <2>2. /\ \A pb \in pending : pb.account \in Addr /\ pb.amount > 0 /\ pb.fee >= 0 /\ pb.id < nextTx
        /\ \A pb, qb \in pending : pb.id = qb.id => pb = qb
    BY <2>1 DEF PendingsOK, PendingBalance
  <2>3. \A f \in fees : f.amount # 0 /\ f.tx < nextTx
    BY <2>1 DEF FeesOK, FeeDoc
  <2>4. \A w \in wraps : w.amount > 0 /\ w.id < nextTx
    BY <2>1 DEF WrapsOK, WrapDocument
  <2> QED
    BY <2>1, <2>2, <2>3, <2>4 DEF TypeOK, TokenOK, PaysOK, WrapsOK, PrunesOK
<1> QED
  BY <1>1, ChaincodeInvariant, PTL

(* Money is neither made nor lost on its way through transfers, pays, wraps,  *)
(* deposits, fees and prunes: it adds up to the supply that mints and burns   *)
(* have left.                                                                 *)
THEOREM MoneyConserved == Spec => []Conservation
<1>1. Inv => Conservation
  BY InvFacts
<1> QED
  BY <1>1, ChaincodeInvariant, PTL

(* The balance logs of every account explain its balance.                     *)
THEOREM LogsComplete == Spec => []AuditTrail
<1>1. Inv => AuditTrail
  BY InvFacts
<1> QED
  BY <1>1, ChaincodeInvariant, PTL

(* A deposit is there exactly while its own contract is open, or until the    *)
(* expiry time: whichever of the three kinds of contract it belongs to.       *)
THEOREM DepositsMatchContracts == Spec => []EscrowMatchesContract
<1>1. EscrowOK => EscrowMatchesContract
  BY DEF EscrowOK, DepositsOK, EscrowMatchesContract
<1>2. Inv => EscrowOK
  BY InvFacts
<1> QED
  BY <1>1, <1>2, ChaincodeInvariant, PTL

(* Whose balance a step may lower: an account that has the money and is not   *)
(* suspended, a merchant in its prune, or the target of the fees in theirs.   *)
MerchantPrunes ==
  \E a \in Addr : /\ ~IsSuspended(a) /\ payCursor'[a] # payCursor[a] /\ prunedFees' = prunedFees
                  /\ \A b \in Addr \ {a} : bal'[b] = bal[b]
TargetPrunes ==
  /\ prunedFees' # prunedFees
  /\ \A b \in Addr \ {token.policy.target} : bal'[b] = bal[b]

(* Every step is of one of these kinds.                                       *)
LEMMA BalancesMove ==
  ASSUME Inv, [Next]_vars
  PROVE  (Solvent /\ prunedFees' = prunedFees) \/ MerchantPrunes \/ TargetPrunes
<1>1. bal \in [Addr -> Int] /\ PrunesOK
  BY InvFacts
<1>2. CASE Request
  BY <1>2, RequestKeeps DEF Kept, PrunesStay
<1>3. CASE PayPruneStep \/ FeePruneStep \/ UNCHANGED vars
  <2>1. bal' = bal /\ prunedFees' = prunedFees
    BY <1>3 DEF PayPruneStep, FeePruneStep, payPrune, feePrune, vars, balanceVars, feeVars
  <2> QED
    BY <1>1, <2>1 DEF Solvent
<1>4. CASE PayCommitStep
  <2>1. PICK e \in endorsed : payPruneCommit(e) /\ UNCHANGED feeVars
    BY <1>4 DEF PayCommitStep
  <2>2. PICK a, end, applied :
          /\ a = e.account /\ end = EndTime(e.batch) /\ applied = Sum(e.batch) - FeeSum(e.batch)
    OBVIOUS
  <2>3. a \in Addr /\ ~IsSuspended(a) /\ end \in Int /\ payCursor[a] < end
    BY <2>2, PayBatchUncollected DEF Active
  <2>4. /\ payCursor' = [payCursor EXCEPT ![a] = end]
        /\ bal' = [bal EXCEPT ![a] = e.bal + applied] /\ prunedFees' = prunedFees
    BY <1>1, <2>1, <2>2, <2>3 DEF payPruneCommit, feeVars
  <2>5. payCursor'[a] # payCursor[a]
    BY <1>1, <2>3, <2>4 DEF PrunesOK
  <2> QED
    BY <1>1, <2>3, <2>4, <2>5 DEF MerchantPrunes
<1>5. CASE FeeCommitStep
  <2>1. PICK e \in endorsedFees : feePruneCommit(e)
    BY <1>5 DEF FeeCommitStep
  <2>2. PICK a, batch : a = e.account /\ batch = e.batch
    OBVIOUS
  <2>3. /\ a = token.policy.target /\ a \in Addr
        /\ batch # {} /\ batch \cap prunedFees = {}
    BY <2>2, FeeBatchUncollected
  <2>4. /\ prunedFees' = prunedFees \cup batch
        /\ \A b \in Addr \ {a} : bal'[b] = bal[b]
    BY <1>1, <2>1, <2>2, <2>3 DEF feePruneCommit
  <2> QED
    BY <2>3, <2>4 DEF TargetPrunes
<1> QED
  BY <1>2, <1>3, <1>4, <1>5 DEF Next

(* A balance becomes negative only by a prune: a merchant's own, or that of   *)
(* the fees' target.  All others pay, transfer, wrap and burn what they have. *)
THEOREM OverdraftByPruneOnly == Spec => OnlyPrunesOverdraw
<1>1. Inv /\ [Next]_vars =>
        [\A a \in Addr : bal'[a] < bal[a] /\ bal'[a] < 0 =>
           \/ payCursor'[a] # payCursor[a]
           \/ a = token.policy.target /\ prunedFees' # prunedFees]_vars
  <2> SUFFICES ASSUME Inv, [Next]_vars, NEW a \in Addr, bal'[a] < bal[a], bal'[a] < 0
               PROVE  \/ payCursor'[a] # payCursor[a]
                      \/ a = token.policy.target /\ prunedFees' # prunedFees
    OBVIOUS
  <2>1. bal[a] \in Int /\ bal'[a] \in Int
    <3>1. Inv'
      BY RequestInv, PayPruneInv, PayCommitInv, FeePruneInv, FeeCommitInv, InvStutters DEF Next
    <3>2. Countable /\ Countable'
      BY <3>1, InvFacts DEF Inv, SumsOK
    <3> QED
      BY <3>2 DEF Countable
  <2>2. CASE Solvent
    BY <2>1, <2>2 DEF Solvent
  <2>3. CASE MerchantPrunes
    BY <2>1, <2>3 DEF MerchantPrunes
  <2>4. CASE TargetPrunes
    BY <2>1, <2>4 DEF TargetPrunes
  <2> QED
    BY <2>2, <2>3, <2>4, BalancesMove
<1> QED
  BY <1>1, ChaincodeInvariant, PTL DEF Spec, OnlyPrunesOverdraw

(* The balance of a suspended account is not lowered, also not by a prune     *)
(* endorsed before the suspension; the fees' target is the exception.         *)
THEOREM SuspensionHolds == Spec => SuspendedKeepsBalance
<1>1. Inv /\ [Next]_vars =>
        [\A a \in Addr : IsSuspended(a) /\ bal'[a] < bal[a] =>
           a = token.policy.target /\ prunedFees' # prunedFees]_vars
  <2> SUFFICES ASSUME Inv, [Next]_vars, NEW a \in Addr, IsSuspended(a), bal'[a] < bal[a]
               PROVE  a = token.policy.target /\ prunedFees' # prunedFees
    OBVIOUS
  <2>1. bal'[a] # bal[a]
    <3>1. bal[a] \in Int
      BY InvFacts
    <3> QED
      BY <3>1
  <2>2. CASE Solvent
    BY <2>2 DEF Solvent
  <2>3. CASE MerchantPrunes
    BY <2>1, <2>3 DEF MerchantPrunes
  <2>4. CASE TargetPrunes
    BY <2>1, <2>4 DEF TargetPrunes
  <2> QED
    BY <2>2, <2>3, <2>4, BalancesMove
<1> QED
  BY <1>1, ChaincodeInvariant, PTL DEF Spec, SuspendedKeepsBalance

(* Fees reach the account that is the target when the prune commits: an       *)
(* update in between invalidates the prune of a former target.                *)
THEOREM FeesReachTarget == Spec => OnlyTargetCollects
<1>1. Inv /\ [Next]_vars =>
        [prunedFees' # prunedFees =>
           \A a \in Addr \ {token.policy.target} : bal'[a] = bal[a]]_<<bal, feeVars>>
  BY BalancesMove DEF MerchantPrunes, TargetPrunes
<1> QED
  BY <1>1, ChaincodeInvariant, PTL DEF Spec, OnlyTargetCollects

-----------------------------------------------------------------------------
(* What ten_minutes_flag is for.  If all prunes use it and what it subtracts  *)
(* covers the tolerance of timestamps on both sides and the latency of a      *)
(* commit, they stay behind any pay or fee that may still come.  The code's   *)
(* ten minutes cover the tolerances alone: Safe = 2 * Skew.                   *)
Margin == Safe >= 2 * Skew + Latency /\ PruneFlags \subseteq {TRUE}

(* The earliest timestamp a step may have.                                    *)
Past == now - Skew - Latency

(* An endorsed prune adds up whatever lies between the cursor and its end.    *)
Complete(docs, cursor, batch) ==
  \A d \in docs : cursor < d.ts /\ d.ts < EndTime(batch) => d \in batch

(* Its end lies in the past; the fee document it will leave does not.         *)
PrunePast(e) ==
  /\ EndTime(e.batch) <= Past
  /\ e.at \in Int /\ now - e.at <= Latency /\ e.at - Skew <= e.ts
  /\ Complete({p \in pays : p.merchant = e.account}, payCursor[e.account], e.batch)
FeePrunePast(e) == EndTime(e.batch) <= Past /\ Complete(fees, feeCursor, e.batch)

CursorsPast == (\A a \in Addr : payCursor[a] <= Past) /\ feeCursor <= Past
PastInv ==
  /\ CursorsPast
  /\ \A e \in endorsed : PrunePast(e)
  /\ \A e \in endorsedFees : FeePrunePast(e)

(* Pays and fees that a step adds are not older than its timestamp may be; a  *)
(* refunded pay remains in its place.                                         *)
PaysCome ==
  \A q \in pays' : \/ q.ts >= Past
                   \/ \E p \in pays : p.tx = q.tx /\ p.merchant = q.merchant /\ p.ts = q.ts
FeesCome == \A f \in fees' : f \in fees \/ f.ts >= Past

(* What bears the id of the transaction bears its timestamp.                  *)
NewPaysTimely == \A q \in pays' : q.tx = nextTx => q.ts >= Past
NewFeesTimely == \A f \in fees' : f.tx = nextTx => f.ts >= Past

(* The integers these comparisons are about.                                  *)
LEMMA PastFacts ==
  ASSUME Inv
  PROVE  /\ Past \in Int /\ now \in Nat /\ Skew \in Nat /\ Latency \in Nat /\ Safe \in Nat
         /\ payCursor \in [Addr -> Int] /\ feeCursor \in Int
         /\ \A p \in pays : p.ts \in Int /\ p.tx \in Int /\ p.tx < nextTx /\ p.merchant \in Addr
         /\ \A f \in fees : f.ts \in Int /\ f.tx < nextTx
         /\ nextTx \in Nat \ {0} /\ \A ts \in Timestamps : ts \in Int /\ ts >= Past
<1>1. PaysOK /\ FeesOK /\ PrunesOK /\ now \in Nat /\ nextTx \in Nat \ {0}
  BY InvFacts
<1>2. Past \in Int /\ Skew \in Nat /\ Latency \in Nat /\ Safe \in Nat
  BY <1>1, ContextAssumption, SystemAssumption DEF Past
<1>3. /\ \A p \in pays : p.ts \in Int /\ p.tx \in Int /\ p.tx < nextTx /\ p.merchant \in Addr
      /\ \A f \in fees : f.ts \in Int /\ f.tx < nextTx
  BY <1>1 DEF PaysOK, PayDocument, FeesOK, FeeDoc
<1>4. \A ts \in Timestamps : ts \in Int /\ ts >= Past
  BY <1>1, <1>2 DEF Timestamps, Past
<1> QED
  BY <1>1, <1>2, <1>3, <1>4 DEF PrunesOK

(* A charge.                                                                  *)
LEMMA FeeTimely ==
  ASSUME Inv, NEW a, NEW fee, NEW ts, ts >= Past, NEW tx, CreateFee(a, fee, ts, tx)
  PROVE  NewFeesTimely
<1>1. \A f \in fees : f.tx # nextTx
  BY PastFacts, InvFacts DEF FeesOK, FeeDoc
<1> QED
  BY <1>1 DEF CreateFee, Fee, NewFeesTimely

(* No charge, no pay.                                                         *)
LEMMA NothingNew ==
  ASSUME Inv
  PROVE  /\ fees' = fees => NewFeesTimely
         /\ pays' = pays => NewPaysTimely
<1>1. \A f \in fees : f.tx # nextTx
  BY InvFacts DEF FeesOK, FeeDoc
<1>2. \A p \in pays : p.tx # nextTx
  BY PastFacts
<1> QED
  BY <1>1, <1>2 DEF NewFeesTimely, NewPaysTimely

(* A pay.                                                                     *)
LEMMA PayTimely ==
  ASSUME Inv, NEW a, NEW amount, NEW fee, NEW rid, NEW ts, ts >= Past,
         pays' = pays \cup {Pay(nextTx, a, amount, fee, rid, 0, ts)}
  PROVE  NewPaysTimely
<1>1. \A p \in pays : p.tx # nextTx
  BY PastFacts
<1> QED
  BY <1>1 DEF Pay, NewPaysTimely

(* A refund: the pay it belongs to keeps its id.                              *)
LEMMA RefundTimely ==
  ASSUME Inv, NEW parent \in pays, NEW amount, NEW fee, NEW ts, ts >= Past,
         Refund(nextTx, parent, amount, fee, ts)
  PROVE  NewPaysTimely
<1>1. \A p \in pays : p.tx # nextTx
  BY PastFacts
<1>2. PICK old : old = Refunded(parent, amount)
  OBVIOUS
<1>3. PICK new : new = Pay(nextTx, parent.merchant, -amount, -fee, parent.rid, parent.tx, ts)
  OBVIOUS
<1>4. pays' = (pays \ {parent}) \cup {old, new}
  BY <1>2, <1>3 DEF Refund, Refunded
<1>5. old.tx = parent.tx
  BY <1>2, InvFacts DEF Refunded, PaysOK, PayDocument
<1>6. new.ts = ts
  BY <1>3 DEF Pay
<1> QED
  BY <1>1, <1>4, <1>5, <1>6 DEF NewPaysTimely

(* What a request or a callback adds has its timestamp.                       *)
LEMMA RequestTimely ==
  ASSUME Inv, Request
  PROVE  NewPaysTimely /\ NewFeesTimely /\ Later
<1>1. now \in Nat /\ \A ts \in Timestamps : ts >= Past
  BY PastFacts
<1>2. pays' = pays => NewPaysTimely
  BY NothingNew
<1>3. fees' = fees => NewFeesTimely
  BY NothingNew
<1>4. now' = now => Later
  BY <1>1 DEF Later
<1>5. CASE TransferStep
  <2>1. PICK r \in TransferRequests, ts \in Timestamps :
          /\ transfer(r.kid, r.sender, r.receiver, r.amount, r.orderID, r.asked, r.duration, r.extra, ts)
          /\ UNCHANGED <<relations, payVars, feeVars, wrapVars>>
    BY <1>5 DEF TransferStep
  <2>2. pays' = pays /\ now' = now
    BY <2>1 DEF transfer, payVars
  <2>3. fees' = fees \/ CreateFee(r.sender, CalcFee(r.sender, "transfer", r.amount), ts, nextTx)
    BY <2>1 DEF transfer, Transfer
  <2> QED
    BY <1>1, <1>2, <1>3, <1>4, <2>2, <2>3, FeeTimely
<1>6. CASE PayStep
  <2>1. PICK r \in PayRequests, ts \in Timestamps :
          pay(r.kid, r.sender, r.receiver, r.amount, r.duration, ts)
    BY <1>6 DEF PayStep
  <2>2. fees' = fees /\ now' = now
    BY <2>1 DEF pay
  <2>3. \/ pays' = pays
        \/ pays' = pays \cup {Pay(nextTx, r.receiver, r.amount,
                                  CalcFee(r.receiver, "pay", r.amount), r.sender, 0, ts)}
    BY <2>1 DEF pay, PayNow
  <2>4. NewPaysTimely
    BY <1>1, <1>2, <2>3, PayTimely
  <2> QED
    BY <1>3, <1>4, <2>2, <2>4
<1>7. CASE RefundStep
  <2>1. PICK kid \in Kid, parent \in pays, amount \in RefundAmounts, ts \in Timestamps :
          payRefund(kid, parent, amount, ts)
    BY <1>7 DEF RefundStep
  <2>2. fees' = fees /\ now' = now /\ Refund(nextTx, parent, amount, RefundFee(parent, amount), ts)
    BY <2>1 DEF payRefund
  <2>3. NewPaysTimely
    BY <1>1, <2>2, RefundTimely
  <2> QED
    BY <1>3, <1>4, <2>2, <2>3
<1>8. CASE WrapStep \/ UnwrapStep
  <2>1. fees' = fees /\ pays' = pays /\ now' = now
    BY <1>8 DEF WrapStep, UnwrapStep, wrap, unwrap, payVars, txVars
  <2> QED
    BY <1>2, <1>3, <1>4, <2>1
<1>9. CASE CompleteStep
  <2>1. PICK kid \in Kid, w \in wraps, fee \in BridgeFees, done \in BOOLEAN, ts \in Timestamps :
          wrapComplete(kid, w, fee, done, ts) /\ UNCHANGED <<relations, payVars, feeVars>>
    BY <1>9 DEF CompleteStep
  <2>2. pays' = pays /\ now' = now
    BY <2>1 DEF wrapComplete, payVars
  <2>3. CreateFee(WrapAccount(w.ext), IF done THEN fee ELSE 0, ts, nextTx)
    BY <2>1 DEF wrapComplete, WrapComplete
  <2>4. NewFeesTimely
    BY <1>1, <2>3, FeeTimely
  <2> QED
    BY <1>2, <1>4, <2>2, <2>4
<1>10. CASE WithdrawStep \/ UpdateStep \/ CancelStep
  <2>1. fees' = fees /\ pays' = pays /\ now' = now
    BY <1>10 DEF WithdrawStep, UpdateStep, CancelStep, balancePendingWithdraw, cancelTransfer,
                 payVars, txVars
  <2> QED
    BY <1>2, <1>3, <1>4, <2>1
<1>11. CASE MintStep \/ BurnStep
  <2>1. fees' = fees /\ pays' = pays /\ now' = now
    BY <1>11 DEF MintStep, BurnStep, payVars
  <2> QED
    BY <1>2, <1>3, <1>4, <2>1
<1>12. CASE SuspendStep \/ (\E kid \in Suspendable : UnsuspendStep(kid)) \/ TickStep
  <2>1. fees' = fees /\ pays' = pays /\ now' \in {now, now + 1}
    BY <1>12 DEF SuspendStep, UnsuspendStep, TickStep, Tick, AccountUnchangedElsewhere, payVars, txVars
  <2>2. Later
    BY <1>1, <2>1 DEF Later
  <2> QED
    BY <1>2, <1>3, <2>1, <2>2
<1>13. CASE ExecuteStep
  <2>1. PICK c \in contracts, ts \in Timestamps :
          \/ executeTransfer(c, ts) /\ UNCHANGED payVars
          \/ executePay(c, ts)
          \/ executeWrap(c, ts) /\ UNCHANGED payVars
          \/ UNCHANGED <<now, fees, payVars>>
    BY <1>13 DEF ExecuteStep
  <2>2. CASE executeTransfer(c, ts) /\ UNCHANGED payVars
    <3>1. PICK pb \in pending : CreateFee(pb.account, pb.fee, ts, nextTx)
      BY <2>2 DEF executeTransfer, TransferPendingBalance
    <3>2. pays' = pays /\ now' = now
      BY <2>2 DEF executeTransfer, payVars
    <3>3. NewFeesTimely
      BY <1>1, <3>1, FeeTimely
    <3> QED
      BY <1>2, <1>4, <3>2, <3>3
  <2>3. CASE executePay(c, ts)
    <3>1. PICK pb \in pending :
            pays' = pays \cup {Pay(nextTx, c.doc.receiver, pb.amount,
                                   CalcFee(c.doc.receiver, "pay", pb.amount), pb.account, 0, ts)}
      BY <2>3 DEF executePay, PayPendingBalance
    <3>2. fees' = fees /\ now' = now
      BY <2>3 DEF executePay
    <3>3. NewPaysTimely
      BY <1>1, <3>1, PayTimely
    <3> QED
      BY <1>3, <1>4, <3>2, <3>3
  <2>4. CASE executeWrap(c, ts) /\ UNCHANGED payVars
    BY <1>2, <1>3, <1>4, <2>4 DEF executeWrap, payVars
  <2>5. CASE UNCHANGED <<now, fees, payVars>>
    BY <1>2, <1>3, <1>4, <2>5 DEF payVars
  <2> QED
    BY <2>1, <2>2, <2>3, <2>4, <2>5
<1> QED
  BY <1>5, <1>6, <1>7, <1>8, <1>9, <1>10, <1>11, <1>12, <1>13 DEF Request

(* So it does not come behind the past, nor behind a cursor.                  *)
LEMMA RequestComes ==
  ASSUME Inv, Request
  PROVE  PaysCome /\ FeesCome /\ Later /\ UNCHANGED <<payCursor, feeCursor, prunedPays, prunedFees>>
<1>1. PrunesStay
  BY RequestKeeps DEF Kept
<1>2. NewPaysTimely /\ NewFeesTimely /\ Later
  BY RequestTimely
<1> QED
  BY <1>1, <1>2 DEF PrunesStay, NewPaysTimely, NewFeesTimely, PaysCome, FeesCome

(* A complete batch remains so while the documents in it do.                  *)
LEMMA CompleteStays ==
  ASSUME Inv, Inv', PaysCome, NEW a \in Addr, NEW batch \in SUBSET pays, batch \subseteq pays',
         EndTime(batch) \in Int, EndTime(batch) <= Past, payCursor'[a] = payCursor[a],
         Complete({p \in pays : p.merchant = a}, payCursor[a], batch)
  PROVE  Complete({p \in pays : p.merchant = a}, payCursor[a], batch)'
<1>1. PICK end : end = EndTime(batch)
  OBVIOUS
<1>2. EndTime(batch)' = end
  BY <1>1 DEF EndTime
<1>3. ASSUME NEW q \in pays', q.merchant = a, payCursor[a] < q.ts, q.ts < end
      PROVE  q \in batch
  <2>1. PaysOK' /\ q.ts \in Int /\ Past \in Int
    <3>1. PaysOK'
      BY DEF Inv, Documents
    <3> QED
      BY <3>1, PastFacts DEF PaysOK, PayDocument
  <2>2. ~(q.ts >= Past)
    BY <1>1, <1>3, <2>1
  <2>3. PICK p \in pays : p.tx = q.tx /\ p.merchant = q.merchant /\ p.ts = q.ts
    BY <2>2 DEF PaysCome
  <2>4. p \in batch
    BY <1>1, <1>3, <2>3 DEF Complete
  <2> QED
    BY <2>1, <2>3, <2>4 DEF PaysOK
<1> QED
  BY <1>2, <1>3 DEF Complete

(* The clock moves on, the past with it.                                      *)
LEMMA PastGrows ==
  ASSUME Inv, Inv', Later
  PROVE  Past' \in Int /\ Past \in Int /\ Past <= Past' /\ now' \in Int
<1>1. now \in Nat /\ Skew \in Nat /\ Latency \in Nat
  BY PastFacts
<1>2. now' \in Nat /\ now <= now'
  BY <1>1 DEF Later
<1>3. Past = now - Skew - Latency /\ Past' = now' - Skew - Latency
  BY DEF Past
<1>4. ASSUME NEW n \in Int, now' = n
      PROVE  now - Skew - Latency <= n - Skew - Latency
  BY <1>1, <1>2, <1>4
<1>5. now' \in Int /\ Past \in Int
  BY <1>1, <1>2, <1>3
<1>6. Past' \in Int
  BY <1>1, <1>2, <1>3
<1>7. Past <= Past'
  BY <1>3, <1>4, <1>5
<1> QED
  BY <1>5, <1>6, <1>7

(* Endorsed prunes that survive a step keep their place in time.              *)
LEMMA SurvivorsPast ==
  ASSUME Inv, Inv', Later, PaysCome, FeesCome, Committed, PastInv
  PROVE  /\ \A e \in endorsed' : PrunePast(e)'
         /\ \A e \in endorsedFees' : FeePrunePast(e)'
<1>1. Past' \in Int /\ Past \in Int /\ Past <= Past'
  BY PastGrows
<1>2. ASSUME NEW e \in Survivors
      PROVE  PrunePast(e)'
  <2>1. PICK a, batch : a = e.account /\ batch = e.batch
    OBVIOUS
  <2>2. /\ e \in endorsed /\ payCursor'[a] = payCursor[a] /\ batch \subseteq pays'
        /\ now' - e.at <= Latency
    BY <2>1 DEF Survivors
  <2>3. a \in Addr /\ batch \in SUBSET pays /\ EndTime(batch) \in Int
    BY <2>1, <2>2, PayBatchUncollected
  <2>4. /\ EndTime(batch) <= Past /\ e.at \in Int /\ e.at - Skew <= e.ts
        /\ Complete({p \in pays : p.merchant = a}, payCursor[a], batch)
    BY <2>1, <2>2 DEF PrunePast, PastInv
  <2>5. Complete({p \in pays : p.merchant = a}, payCursor[a], batch)'
    BY <2>2, <2>3, <2>4, CompleteStays
  <2>6. EndTime(batch) <= Past'
    BY <1>1, <2>3, <2>4
  <2>7. EndTime(e.batch)' = EndTime(batch)
    BY <2>1 DEF EndTime
  <2> QED
    BY <2>1, <2>2, <2>4, <2>5, <2>6, <2>7 DEF PrunePast
<1>3. ASSUME NEW e \in FeeSurvivors
      PROVE  FeePrunePast(e)'
  <2>1. e \in endorsedFees /\ feeCursor' = feeCursor
    BY <1>3 DEF FeeSurvivors
  <2>2. PICK end : end = EndTime(e.batch)
    OBVIOUS
  <2>3. end \in Int /\ EndTime(e.batch)' = end
    BY <2>1, <2>2, FeeBatchUncollected DEF EndTime
  <2>4. end <= Past /\ \A f \in fees : feeCursor < f.ts /\ f.ts < end => f \in e.batch
    BY <2>1, <2>2 DEF PastInv, FeePrunePast, Complete
  <2>5. ASSUME NEW f \in fees', feeCursor < f.ts, f.ts < end
        PROVE  f \in e.batch
    <3>1. FeesOK'
      BY DEF Inv, Documents
    <3>2. f.ts \in Int
      BY <3>1 DEF FeesOK, FeeDoc
    <3>3. f \in fees
      BY <1>1, <2>3, <2>4, <2>5, <3>2 DEF FeesCome
    <3> QED
      BY <2>4, <2>5, <3>3
  <2>6. end <= Past'
    BY <1>1, <2>3, <2>4
  <2> QED
    BY <2>1, <2>3, <2>5, <2>6 DEF FeePrunePast, Complete
<1> QED
  BY <1>2, <1>3 DEF Committed

(* A batch is complete up to its last document when it is formed: the query's *)
(* result is added up in the order of time.                                   *)
LEMMA BatchComplete ==
  ASSUME NEW docs, IsFiniteSet(docs), \A d \in docs : d.ts \in Int, NEW cursor \in Int,
         NEW end \in Int, NEW limit,
         NEW batch \in Batches({d \in docs : InRange(d, cursor, end)}, limit), batch # {}
  PROVE  Complete(docs, cursor, batch) /\ EndTime(batch) \in Int /\ EndTime(batch) <= end
<1>1. PICK found : found = {d \in docs : InRange(d, cursor, end)}
  OBVIOUS
<1>2. batch \subseteq found /\ \A d \in batch, e \in found \ batch : d.ts <= e.ts
  BY <1>1, BatchFound DEF Batches
<1>3. batch \subseteq docs /\ \A d \in batch : d.ts \in Int /\ d.ts <= end
  BY <1>1, <1>2 DEF InRange
<1>4. IsFiniteSet(batch)
  BY <1>3, FS_Subset
<1>5. PICK last \in batch : last.ts = EndTime(batch)
  BY <1>3, <1>4, EndTimeLatest
<1>6. ASSUME NEW d \in docs, cursor < d.ts, d.ts < EndTime(batch)
      PROVE  d \in batch
  <2>1. d.ts \in Int /\ last.ts \in Int /\ last.ts <= end /\ d.ts < last.ts
    BY <1>3, <1>5, <1>6
  <2>2. d \in found
    BY <1>1, <1>6, <2>1 DEF InRange
  <2> QED
    BY <1>2, <2>1, <2>2
<1> QED
  BY <1>3, <1>5, <1>6 DEF Complete

(* With ten_minutes_flag the range of the query ends in the past.             *)
LEMMA RangeEndsPast ==
  ASSUME Inv, Margin, NEW safely \in PruneFlags, NEW end \in EndTimes,
         NEW ts \in (now - Skew)..(now + Skew)
  PROVE  PruneEnd(safely, end, ts) \in Int /\ PruneEnd(safely, end, ts) <= Past
<1>1. now \in Nat /\ Skew \in Nat /\ Latency \in Nat /\ Safe \in Nat /\ end \in Int
  BY PastFacts, SystemAssumption
<1>2. safely = TRUE
  BY DEF Margin
<1>3. ts \in Int /\ ts <= now + Skew /\ Safe >= 2 * Skew + Latency
  BY <1>1 DEF Margin
<1>4. PICK etime : etime = IF end # 0 THEN end ELSE ts
  OBVIOUS
<1>5. etime \in Int
  BY <1>1, <1>3, <1>4
<1>6. PruneEnd(safely, end, ts) = IF etime > ts - Safe THEN ts - Safe ELSE etime
  BY <1>2, <1>4 DEF PruneEnd
<1>7. ts - Safe \in Int /\ ts - Safe <= Past
  BY <1>1, <1>3 DEF Past
<1>8. Past \in Int
  BY PastFacts
<1> QED
  BY <1>5, <1>6, <1>7, <1>8

(* An endorsement changes neither documents nor cursors nor the clock.        *)
LEMMA PastStays ==
  ASSUME UNCHANGED <<now, fees, pays, payCursor, feeCursor>>
  PROVE  /\ \A e : PrunePast(e)' <=> PrunePast(e)
         /\ \A e : FeePrunePast(e)' <=> FeePrunePast(e)
         /\ CursorsPast' <=> CursorsPast
BY DEF PrunePast, FeePrunePast, CursorsPast, Past, Complete, EndTime

(* pay/prune, endorsed.                                                       *)
LEMMA PayPrunePast ==
  ASSUME Inv, Margin, PastInv, PayPruneStep
  PROVE  PastInv'
<1>1. PICK kid \in Kid, a \in Addr, safely \in PruneFlags, end \in EndTimes, ts \in Timestamps :
        payPrune(kid, a, safely, end, ts) /\ UNCHANGED <<relations, feeVars, endorsedFees, wrapVars>>
  BY DEF PayPruneStep
<1>2. PICK range : range = PruneEnd(safely, end, ts)
  OBVIOUS
<1>3. PICK batch \in PayBatches(a, payCursor[a], range) :
        /\ batch # {}
        /\ endorsed' = endorsed \cup
             {[account |-> a, ts |-> ts, tx |-> nextTx, at |-> now, bal |-> bal[a],
              batch |-> batch]}
  BY <1>1, <1>2 DEF payPrune
<1>4. PICK new : new = [account |-> a, ts |-> ts, tx |-> nextTx, at |-> now, bal |-> bal[a],
                      batch |-> batch]
  OBVIOUS
<1>5. /\ new.account = a /\ new.ts = ts /\ new.at = now /\ new.batch = batch
      /\ endorsed' = endorsed \cup {new}
  BY <1>3, <1>4
<1>6. ts \in (now - Skew)..(now + Skew) /\ range \in Int /\ range <= Past
  BY <1>1, <1>2, RangeEndsPast DEF payPrune
<1>7. PICK own : own = {p \in pays : p.merchant = a}
  OBVIOUS
<1>8. /\ IsFiniteSet(own) /\ \A p \in own : p.ts \in Int
      /\ payCursor[a] \in Int /\ Past \in Int /\ now \in Nat /\ Skew \in Nat /\ Latency \in Nat
  BY <1>7, PastFacts, InvFacts, FS_Subset DEF PaysOK
<1>9. batch \in Batches({p \in own : InRange(p, payCursor[a], range)}, PaysPruneSize)
  <2>1. QueryPrunePays(a, payCursor[a], range) = {p \in own : InRange(p, payCursor[a], range)}
    BY <1>7 DEF QueryPrunePays
  <2> QED
    BY <1>3, <2>1 DEF PayBatches
<1>10. Complete(own, payCursor[a], batch) /\ EndTime(batch) \in Int /\ EndTime(batch) <= range
  BY <1>3, <1>6, <1>8, <1>9, BatchComplete
<1>11. EndTime(batch) <= Past /\ now - now <= Latency /\ now - Skew <= ts
  BY <1>6, <1>8, <1>10
<1>12. PrunePast(new)
  BY <1>5, <1>7, <1>8, <1>10, <1>11 DEF PrunePast
<1>13. UNCHANGED <<now, fees, pays, payCursor, feeCursor, endorsedFees>>
  BY <1>1 DEF payPrune, feeVars
<1> QED
  BY <1>5, <1>12, <1>13, PastStays DEF PastInv

(* fee/prune, endorsed.                                                       *)
LEMMA FeePruneStepPast ==
  ASSUME Inv, Margin, PastInv, FeePruneStep
  PROVE  PastInv'
<1>1. PICK kid \in Kid, safely \in PruneFlags, end \in EndTimes, ts \in Timestamps :
        feePrune(kid, safely, end, ts) /\ UNCHANGED <<relations, payVars, endorsed, wrapVars>>
  BY DEF FeePruneStep
<1>2. PICK target, range : target = token.policy.target /\ range = PruneEnd(safely, end, ts)
  OBVIOUS
<1>3. PICK batch \in FeeBatches(feeCursor, range) :
        /\ batch # {}
        /\ endorsedFees' = endorsedFees \cup
             {[account |-> target, ts |-> ts, at |-> now, bal |-> bal[target],
              batch |-> batch]}
  BY <1>1, <1>2 DEF feePrune
<1>4. PICK new : new = [account |-> target, ts |-> ts, at |-> now, bal |-> bal[target],
                     batch |-> batch]
  OBVIOUS
<1>5. new.batch = batch /\ endorsedFees' = endorsedFees \cup {new}
  BY <1>3, <1>4
<1>6. range \in Int /\ range <= Past
  BY <1>1, <1>2, RangeEndsPast DEF feePrune
<1>7. /\ IsFiniteSet(fees) /\ \A f \in fees : f.ts \in Int
      /\ feeCursor \in Int /\ Past \in Int
  BY PastFacts, InvFacts DEF Countable
<1>8. batch \in Batches({f \in fees : InRange(f, feeCursor, range)}, FeePruneSize)
  BY <1>3 DEF FeeBatches, QueryPruneFee
<1>9. Complete(fees, feeCursor, batch) /\ EndTime(batch) \in Int /\ EndTime(batch) <= range
  BY <1>3, <1>6, <1>7, <1>8, BatchComplete
<1>10. EndTime(batch) <= Past
  BY <1>6, <1>7, <1>9
<1>11. FeePrunePast(new)
  BY <1>5, <1>9, <1>10 DEF FeePrunePast
<1>12. UNCHANGED <<now, fees, pays, payCursor, feeCursor, endorsed>>
  BY <1>1 DEF feePrune, txVars, payVars, feeVars
<1> QED
  BY <1>5, <1>11, <1>12, PastStays DEF PastInv

(* A pay prune moves its merchant's cursor to the end of its batch.           *)
LEMMA PayCommitMoves ==
  ASSUME Inv, PayCommitStep
  PROVE  /\ UNCHANGED <<now, pays, feeCursor, prunedFees>> /\ Committed
         /\ \E e \in endorsed :
              /\ payCursor' = [payCursor EXCEPT ![e.account] = EndTime(e.batch)]
              /\ prunedPays' = prunedPays \cup {p.tx : p \in e.batch}
              /\ CreateFee(e.account, FeeSum(e.batch), e.ts, e.tx)
BY DEF PayCommitStep, payPruneCommit, txVars, feeVars

(* A fee prune moves the cursor of the fees.                                  *)
LEMMA FeeCommitMoves ==
  ASSUME Inv, FeeCommitStep
  PROVE  /\ UNCHANGED <<now, pays, fees, payCursor, prunedPays>> /\ Committed
         /\ \E e \in endorsedFees :
              feeCursor' = EndTime(e.batch) /\ prunedFees' = prunedFees \cup e.batch
BY DEF FeeCommitStep, feePruneCommit, txVars, payVars

(* The fee document of a pay prune does not come behind the past: the prune   *)
(* was endorsed no longer than Latency ago.                                   *)
LEMMA PayCommitComes ==
  ASSUME Inv, PastInv, PayCommitStep
  PROVE  PaysCome /\ FeesCome /\ Later
<1>1. PICK e \in endorsed : CreateFee(e.account, FeeSum(e.batch), e.ts, e.tx)
  BY PayCommitMoves
<1>2. UNCHANGED <<now, pays>>
  BY PayCommitMoves
<1>3. e.at \in Int /\ now - e.at <= Latency /\ e.at - Skew <= e.ts /\ e.ts \in Int
  BY PayBatchUncollected DEF PastInv, PrunePast
<1>4. now \in Nat /\ Skew \in Nat /\ Latency \in Nat
  BY PastFacts
<1>5. e.ts >= Past
  BY <1>3, <1>4 DEF Past
<1>6. FeesCome
  BY <1>1, <1>5 DEF CreateFee, Fee, FeesCome
<1> QED
  BY <1>2, <1>4, <1>6 DEF PaysCome, Later

(* Every step but an endorsement.                                             *)
LEMMA CommitPast ==
  ASSUME Inv, Inv', PastInv, (Request /\ Committed) \/ PayCommitStep \/ FeeCommitStep
  PROVE  PastInv'
<1>1. /\ Past \in Int /\ payCursor \in [Addr -> Int] /\ feeCursor \in Int
      /\ Past' \in Int /\ payCursor' \in [Addr -> Int] /\ feeCursor' \in Int
  <2>1. PrunesOK' /\ ClockOK'
    BY DEF Inv, PrunesInv, Documents
  <2> QED
    BY <2>1, PastFacts, ContextAssumption DEF PrunesOK, ClockOK, Past
<1>2. CASE Request /\ Committed
  <2>1. /\ PaysCome /\ FeesCome /\ Later /\ UNCHANGED <<payCursor, feeCursor>>
    BY <1>2, RequestComes
  <2>2. Past <= Past'
    BY <2>1, PastGrows
  <2>3. CursorsPast'
    BY <1>1, <2>1, <2>2 DEF PastInv, CursorsPast
  <2> QED
    BY <1>2, <2>1, <2>3, SurvivorsPast DEF PastInv
<1>3. CASE PayCommitStep
  <2>1. PaysCome /\ FeesCome /\ Later /\ Committed /\ UNCHANGED <<now, feeCursor>>
    BY <1>3, PayCommitComes, PayCommitMoves
  <2>2. PICK e \in endorsed : payCursor' = [payCursor EXCEPT ![e.account] = EndTime(e.batch)]
    BY <1>3, PayCommitMoves
  <2>3. EndTime(e.batch) <= Past
    BY DEF PastInv, PrunePast
  <2>4. Past' = Past
    BY <2>1 DEF Past
  <2>5. CursorsPast'
    BY <1>1, <2>1, <2>2, <2>3, <2>4 DEF PastInv, CursorsPast
  <2> QED
    BY <2>1, <2>5, SurvivorsPast DEF PastInv
<1>4. CASE FeeCommitStep
  <2>1. UNCHANGED <<now, pays, fees, payCursor>> /\ Committed
    BY <1>4, FeeCommitMoves
  <2>2. PaysCome /\ FeesCome /\ Later
    BY <2>1, PastFacts DEF PaysCome, FeesCome, Later
  <2>3. PICK e \in endorsedFees : feeCursor' = EndTime(e.batch)
    BY <1>4, FeeCommitMoves
  <2>4. EndTime(e.batch) <= Past /\ Past' = Past
    BY <2>1 DEF PastInv, FeePrunePast, Past
  <2>5. CursorsPast'
    BY <1>1, <2>1, <2>3, <2>4 DEF PastInv, CursorsPast
  <2> QED
    BY <2>1, <2>2, <2>5, SurvivorsPast DEF PastInv
<1> QED
  BY <1>2, <1>3, <1>4

(* The invariant of the margin.                                               *)
LEMMA PastStep == Margin /\ Inv /\ Inv' /\ PastInv /\ [Next]_vars => PastInv'
<1> SUFFICES ASSUME Margin, Inv, Inv', PastInv, [Next]_vars PROVE PastInv'
  OBVIOUS
<1>1. CASE UNCHANGED vars
  <2>1. UNCHANGED <<now, fees, pays, payCursor, feeCursor, endorsed, endorsedFees>>
    BY <1>1 DEF vars, txVars, payVars, feeVars
  <2> QED
    BY <2>1, PastStays DEF PastInv
<1> QED
  BY <1>1, CommitPast, PayPrunePast, FeePruneStepPast DEF Next

(* It holds at the start.                                                     *)
LEMMA PastStart == Init => PastInv
<1> SUFFICES ASSUME Init PROVE PastInv
  OBVIOUS
<1>1. /\ now = StartTime /\ payCursor = [a \in Addr |-> 0] /\ feeCursor = 0
      /\ endorsed = {} /\ endorsedFees = {}
  BY DEF Init, LedgerInit, TxInit
<1>2. Past = 1
  BY <1>1, ContextAssumption DEF Past, StartTime
<1> QED
  BY <1>1, <1>2 DEF PastInv, CursorsPast

(* With the margin nothing is late: what a step adds lies beyond every cursor *)
(* and every prune that is under way.                                         *)
THEOREM NothingIsLate ==
  ASSUME Margin
  PROVE  Spec => []PastInv
<1>1. Inv /\ Inv' /\ PastInv /\ [Next]_vars => PastInv'
  BY PastStep
<1> QED
  BY <1>1, PastStart, ChaincodeInvariant, PTL DEF Spec

(* A pay is pruned in its time: none comes behind the cursor.                 *)
LEMMA PayNotPassed ==
  ASSUME Inv, Inv', PastInv, [Next]_vars, NEW p \in pays', p.tx \notin prunedPays',
         p.ts < payCursor'[p.merchant], payVars' # payVars
  PROVE  p.ts <= payCursor[p.merchant] /\ \E q \in pays : q.tx = p.tx
<1>1. p.merchant \in Addr /\ p.ts \in Int
  <2>1. PaysOK'
    BY DEF Inv, Documents
  <2> QED
    BY <2>1 DEF PaysOK, PayDocument
<1>2. payCursor \in [Addr -> Int] /\ Past \in Int
  BY PastFacts
<1>3. CASE Request
  <2>1. PaysCome /\ payCursor' = payCursor
    BY <1>3, RequestComes
  <2>2. ~(p.ts >= Past)
    BY <1>1, <1>2, <2>1 DEF PastInv, CursorsPast
  <2> QED
    BY <1>1, <1>2, <2>1, <2>2 DEF PaysCome
<1>4. CASE PayCommitStep
  <2>1. PICK e \in endorsed :
          /\ payCursor' = [payCursor EXCEPT ![e.account] = EndTime(e.batch)]
          /\ prunedPays' = prunedPays \cup {q.tx : q \in e.batch}
    BY <1>4, PayCommitMoves
  <2>2. p \in pays
    BY <1>4, PayCommitMoves
  <2>3. p \notin e.batch
    BY <2>1
  <2>4. Complete({q \in pays : q.merchant = e.account}, payCursor[e.account], e.batch)
    BY DEF PastInv, PrunePast
  <2>5. CASE p.merchant = e.account
    <3>1. p.ts < EndTime(e.batch)
      BY <1>1, <1>2, <2>1, <2>5
    <3>2. ~(payCursor[e.account] < p.ts)
      BY <2>2, <2>3, <2>4, <2>5, <3>1 DEF Complete
    <3> QED
      BY <1>1, <1>2, <2>2, <2>5, <3>2
  <2>6. CASE p.merchant # e.account
    BY <1>1, <1>2, <2>1, <2>2, <2>6
  <2> QED
    BY <2>5, <2>6
<1>5. CASE PayPruneStep \/ FeePruneStep \/ FeeCommitStep \/ UNCHANGED vars
  BY <1>5 DEF PayPruneStep, payPrune, FeePruneStep, FeeCommitStep, vars, payVars
<1> QED
  BY <1>3, <1>4, <1>5 DEF Next

(* Neither is a fee, also not one that a pay prune leaves.                    *)
LEMMA FeeNotPassed ==
  ASSUME Inv, Inv', PastInv, [Next]_vars, NEW f \in fees' \ prunedFees', f.ts < feeCursor',
         <<fees, feeVars>>' # <<fees, feeVars>>
  PROVE  f \in fees /\ f.ts <= feeCursor
<1>1. f.ts \in Int
  <2>1. FeesOK'
    BY DEF Inv, Documents
  <2> QED
    BY <2>1 DEF FeesOK, FeeDoc
<1>2. feeCursor \in Int /\ Past \in Int /\ feeCursor <= Past
  BY PastFacts DEF PastInv, CursorsPast
<1>3. CASE Request \/ PayCommitStep
  <2>1. FeesCome /\ feeCursor' = feeCursor
    BY <1>3, RequestComes, PayCommitComes, PayCommitMoves
  <2> QED
    BY <1>1, <1>2, <2>1 DEF FeesCome
<1>4. CASE FeeCommitStep
  <2>1. PICK e \in endorsedFees :
          feeCursor' = EndTime(e.batch) /\ prunedFees' = prunedFees \cup e.batch
    BY <1>4, FeeCommitMoves
  <2>2. f \in fees /\ f \notin e.batch
    BY <1>4, <2>1, FeeCommitMoves
  <2>3. ~(feeCursor < f.ts)
    BY <2>1, <2>2 DEF PastInv, FeePrunePast, Complete
  <2> QED
    BY <1>1, <1>2, <2>2, <2>3
<1>5. CASE PayPruneStep \/ FeePruneStep \/ UNCHANGED vars
  BY <1>5 DEF PayPruneStep, FeePruneStep, feePrune, payPrune, vars, feeVars
<1> QED
  BY <1>3, <1>4, <1>5 DEF Next

(* With the margin no pay gets behind its merchant's last pruned one.  Safe = *)
(* 2 * Skew of the code has the margin if a commit follows its endorsement at *)
(* once, and no longer: the finding pays_late.                                *)
THEOREM PaysWaitTheirTurn ==
  ASSUME Margin
  PROVE  Spec => NoPayPassedOver
<1>1. Inv /\ Inv' /\ PastInv /\ [Next]_vars =>
        [\A p \in pays' :
           p.tx \notin prunedPays' /\ p.ts < payCursor'[p.merchant] =>
             p.ts <= payCursor[p.merchant] /\ \E q \in pays : q.tx = p.tx]_payVars
  BY PayNotPassed
<1> QED
  BY <1>1, ChaincodeInvariant, NothingIsLate, PTL DEF Spec, NoPayPassedOver

(* Nor a fee behind the last pruned one.                                      *)
THEOREM FeesWaitTheirTurn ==
  ASSUME Margin
  PROVE  Spec => NoFeePassedOver
<1>1. Inv /\ Inv' /\ PastInv /\ [Next]_vars =>
        [\A f \in fees' \ prunedFees' :
           f.ts < feeCursor' => f \in fees /\ f.ts <= feeCursor]_<<fees, feeVars>>
  BY FeeNotPassed
<1> QED
  BY <1>1, ChaincodeInvariant, NothingIsLate, PTL DEF Spec, NoFeePassedOver
=============================================================================

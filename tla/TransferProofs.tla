--------------------------- MODULE TransferProofs ---------------------------
(* Theorems of TransferSystem, for every set of accounts, every policy, any   *)
(* skew and latency, and any number of transactions.                          *)
EXTENDS TransferSystem, BalanceProofs

-----------------------------------------------------------------------------
(* The operations of BalanceStub keep the documents well-formed.              *)

BalanceTypeOK ==
  /\ bal \in [Addr -> Int]
  /\ pending \subseteq PendingBalance
  /\ blog \subseteq BalanceLog
  /\ fees \subseteq FeeDoc

(* Fee documents keep their form.                                             *)
LEMMA CreateFeeType ==
  ASSUME fees \subseteq FeeDoc, NEW a \in Addr, NEW fee \in Nat, NEW ts \in Nat, NEW tx \in Nat,
         CreateFee(a, fee, ts, tx)
  PROVE  fees' \subseteq FeeDoc
<1>1. fee # 0 => Fee(a, fee, ts, tx) \in FeeDoc
  BY DEF Fee, FeeDoc
<1> QED
  BY <1>1 DEF CreateFee

(* A balance log has its form.                                                *)
LEMMA LogType ==
  ASSUME NEW a \in Addr, NEW ts \in Nat, NEW diff \in Int, NEW fee \in Nat
  PROVE  Log(a, ts, diff, fee) \in BalanceLog
BY DEF Log, BalanceLog

(* The balance logs keep their form.                                          *)
LEMMA PutBalanceLogsType ==
  ASSUME blog \subseteq BalanceLog, NEW logs \in SUBSET BalanceLog, PutBalanceLogs(logs)
  PROVE  blog' \subseteq BalanceLog
BY DEF PutBalanceLogs

(* A pending balance has its form.                                            *)
LEMMA PendingType ==
  ASSUME NEW id \in Nat, NEW type \in {"account", "contract"}, NEW owner \in Addr,
         NEW rid \in Addr \cup Nat, NEW amount \in Nat \ {0}, NEW fee \in Nat, NEW time \in Nat
  PROVE  Pending(id, type, owner, rid, amount, fee, time) \in PendingBalance
BY DEF Pending, PendingBalance

(* Transfer keeps the form of all documents it touches.                       *)
LEMMA TransferType ==
  ASSUME BalanceTypeOK, NEW tx \in Nat, NEW sender \in Addr, NEW receiver \in Addr,
         NEW amount \in Nat \ {0}, NEW fee \in Nat, NEW lock \in Nat, NEW ts \in Nat,
         Transfer(tx, sender, receiver, amount, fee, lock, ts)
  PROVE  BalanceTypeOK'
<1>1. fees' \subseteq FeeDoc
  BY CreateFeeType DEF Transfer, BalanceTypeOK
<1>2. CASE lock > ts
  <2>1. Pending(tx, "account", receiver, sender, amount, 0, lock) \in PendingBalance
    BY PendingType
  <2>2. Log(sender, ts, -amount, fee) \in BalanceLog
    BY LogType
  <2>3. blog' \subseteq BalanceLog
    BY <1>2, <2>2, PutBalanceLogsType DEF Transfer, BalanceTypeOK
  <2> QED
    BY <1>1, <1>2, <2>1, <2>3 DEF Transfer, BalanceTypeOK
<1>3. CASE lock <= ts
  <2>1. Log(sender, ts, -amount, fee) \in BalanceLog /\ Log(receiver, ts, amount, 0) \in BalanceLog
    BY LogType
  <2>2. blog' \subseteq BalanceLog
    BY <1>3, <2>1, PutBalanceLogsType DEF Transfer, BalanceTypeOK
  <2> QED
    BY <1>1, <1>3, <2>2 DEF Transfer, BalanceTypeOK
<1> QED
  BY <1>2, <1>3

(* So does Deposit.                                                           *)
LEMMA DepositType ==
  ASSUME BalanceTypeOK, NEW tx \in Nat, NEW sender \in Addr, NEW cid \in Nat, NEW expiry \in Nat,
         NEW amount \in Nat \ {0}, NEW fee \in Nat, NEW ts \in Nat,
         Deposit(tx, sender, cid, expiry, amount, fee, ts), UNCHANGED fees
  PROVE  BalanceTypeOK'
<1>1. Pending(tx, "contract", sender, cid, amount, fee, expiry) \in PendingBalance
  BY PendingType
<1>2. Log(sender, ts, -amount, fee) \in BalanceLog
  BY LogType
<1>3. blog' \subseteq BalanceLog
  BY <1>2, PutBalanceLogsType DEF Deposit, BalanceTypeOK
<1> QED
  BY <1>1, <1>3 DEF Deposit, BalanceTypeOK

(* So does Withdraw.                                                          *)
LEMMA WithdrawType ==
  ASSUME BalanceTypeOK, NEW pb \in pending, NEW ts \in Nat, Withdraw(pb, ts), UNCHANGED fees
  PROVE  BalanceTypeOK'
<1>1. pb \in PendingBalance
  BY DEF BalanceTypeOK
<1>2. pb.account \in Addr /\ pb.amount \in Nat /\ pb.fee \in Nat
  BY <1>1 DEF PendingBalance
<1>3. Log(pb.account, ts, pb.amount + pb.fee, 0) \in BalanceLog
  BY <1>2, LogType
<1>4. blog' \subseteq BalanceLog
  BY <1>3, PutBalanceLogsType DEF Withdraw, BalanceTypeOK
<1> QED
  BY <1>2, <1>4 DEF Withdraw, BalanceTypeOK

(* So does TransferPendingBalance.                                            *)
LEMMA TransferPendingType ==
  ASSUME BalanceTypeOK, NEW tx \in Nat, NEW pb \in pending, NEW sender \in Addr,
         NEW receiver \in Addr, NEW lock \in Nat, NEW ts \in Nat,
         TransferPendingBalance(tx, pb, sender, receiver, lock, ts)
  PROVE  BalanceTypeOK'
<1>1. pb \in PendingBalance
  BY DEF BalanceTypeOK
<1>2. pb.account \in Addr /\ pb.amount \in Nat \ {0} /\ pb.fee \in Nat
  BY <1>1 DEF PendingBalance
<1>3. fees' \subseteq FeeDoc
  BY <1>2, CreateFeeType DEF TransferPendingBalance, BalanceTypeOK
<1>4. CASE lock > ts
  <2>1. Pending(tx, "account", receiver, sender, pb.amount, 0, lock) \in PendingBalance
    BY <1>2, PendingType
  <2> QED
    BY <1>3, <1>4, <2>1 DEF TransferPendingBalance, BalanceTypeOK
<1>5. CASE lock <= ts
  <2>1. Log(receiver, ts, pb.amount, 0) \in BalanceLog
    BY <1>2, LogType
  <2>2. blog' \subseteq BalanceLog
    BY <1>5, <2>1, PutBalanceLogsType DEF TransferPendingBalance, BalanceTypeOK
  <2> QED
    BY <1>2, <1>3, <1>5, <2>2 DEF TransferPendingBalance, BalanceTypeOK
<1> QED
  BY <1>4, <1>5

-----------------------------------------------------------------------------
(* Contracts keep their form: a new one, and one whose status changes.        *)

(* A contract with a document of a transfer has its form.                     *)
LEMMA CreateContractType ==
  ASSUME contracts \subseteq TransferContract, NEW id \in Nat, NEW doc \in TransferDocs,
         NEW expiry \in Nat, NEW signers, CreateContract(id, "transfer", doc, expiry, signers)
  PROVE  contracts' \subseteq TransferContract
<1>1. [id |-> id, type |-> "transfer", doc |-> doc, expiry |-> expiry, status |-> "open"]
        \in TransferContract
  BY DEF TransferContract
<1> QED
  BY <1>1 DEF CreateContract

(* Closing a contract keeps its form.                                         *)
LEMMA CloseContractType ==
  ASSUME contracts \subseteq TransferContract, NEW c \in contracts,
         NEW status \in {"executed", "canceled"}, CloseContract(c, status)
  PROVE  contracts' \subseteq TransferContract
BY DEF CloseContract, TransferContract

-----------------------------------------------------------------------------
(* Each handler, and each step of the system, preserves TypeOK.               *)

(* The parameters a transfer passes on to BalanceStub.                        *)
LEMMA TransferStepType ==
  ASSUME TypeOK, TransferStep
  PROVE  TypeOK'
<1>1. PICK kid \in Kid, sender \in Addr, receiver \in Addr, amount \in Amounts,
           orderID \in OrderIDs, asked \in PendingTimes, duration \in Durations,
           extra \in Extras, ts \in Timestamps :
        transfer(kid, sender, receiver, amount, orderID, asked, duration, extra, ts)
  BY DEF TransferStep
<1> DEFINE fee == CalcFee(sender, "transfer", amount)
           pendingTime == IF asked > ts THEN asked ELSE 0
           last == IF pendingTime # 0 THEN orderID ELSE Zero
           signers == Signers(kid, sender, extra)
           doc == TransferDoc(nextTx, sender, receiver, orderID, last, pendingTime)
<1>2. /\ amount \in Nat \ {0} /\ amount \in Int /\ orderID \in OrderID
      /\ asked \in Nat /\ duration \in Nat
  BY SystemAssumption
<1>3. ts \in Nat
  BY TimestampNat DEF TypeOK
<1>4. fee \in Nat
  BY <1>2, CalcFeeNat DEF TypeOK, Token, FeeFn
<1>5. nextTx \in Nat /\ nextTx' \in Nat \ {0}
  BY <1>1 DEF TypeOK, transfer, UseTxID
<1>6. pendingTime \in Nat /\ ts + duration \in Nat
  BY <1>2, <1>3
<1>7. doc \in TransferDocs
  <2>1. last \in OrderID
    BY <1>2 DEF Zero, OrderID
  <2> QED
    BY <1>2, <1>5, <1>6, <2>1 DEF TransferDoc, TransferDocs
<1>8. BalanceTypeOK
  BY DEF TypeOK, BalanceTypeOK
<1>9. /\ UNCHANGED <<now, token, account>>
      /\ \/ /\ CreateContract(nextTx, "transfer", doc, ts + duration, signers)
            /\ Deposit(nextTx, sender, nextTx, ts + duration, amount, fee, ts)
            /\ UNCHANGED fees
         \/ /\ Transfer(nextTx, sender, receiver, amount, fee, pendingTime, ts)
            /\ UNCHANGED contracts
  BY <1>1 DEF transfer
<1> HIDE DEF fee, pendingTime, last, signers, doc
<1>10. CASE CreateContract(nextTx, "transfer", doc, ts + duration, signers)
            /\ Deposit(nextTx, sender, nextTx, ts + duration, amount, fee, ts)
            /\ UNCHANGED fees
  <2>1. contracts' \subseteq TransferContract
    BY <1>5, <1>6, <1>7, <1>10, CreateContractType DEF TypeOK
  <2>2. BalanceTypeOK'
    BY <1>2, <1>3, <1>4, <1>5, <1>6, <1>8, <1>10, DepositType
  <2> QED
    BY <1>5, <1>9, <2>1, <2>2 DEF TypeOK, BalanceTypeOK
<1>11. CASE Transfer(nextTx, sender, receiver, amount, fee, pendingTime, ts)
            /\ UNCHANGED contracts
  <2>1. BalanceTypeOK'
    BY <1>2, <1>3, <1>4, <1>5, <1>6, <1>8, <1>11, TransferType
  <2> QED
    BY <1>5, <1>9, <1>11, <2>1 DEF TypeOK, BalanceTypeOK
<1> QED
  BY <1>9, <1>10, <1>11

(* The cancel callback keeps the types.                                       *)
LEMMA CancelStepType ==
  ASSUME TypeOK, CancelStep
  PROVE  TypeOK'
<1>1. PICK c \in contracts, ts \in Timestamps : cancelTransfer(c, ts)
  BY DEF CancelStep
<1>2. PICK pb \in pending : Withdraw(pb, ts)
  BY <1>1 DEF cancelTransfer
<1>3. UNCHANGED <<txVars, token, account, fees>>
  BY <1>1 DEF cancelTransfer
<1>4. BalanceTypeOK'
  BY <1>2, <1>3, TimestampNat, WithdrawType DEF TypeOK, BalanceTypeOK
<1>5. contracts' \subseteq TransferContract
  BY <1>1, CloseContractType DEF cancelTransfer, TypeOK
<1> QED
  BY <1>3, <1>4, <1>5 DEF TypeOK, BalanceTypeOK, txVars

(* The execute callback keeps the types, whatever number the order id is.     *)
LEMMA ExecuteStepType ==
  ASSUME TypeOK, ExecuteStep
  PROVE  TypeOK'
<1>1. PICK c \in contracts, ts \in Timestamps : executeTransfer(c, ts)
  BY DEF ExecuteStep
<1> DEFINE lock == IF c.doc.orderID.kind = "number" THEN c.doc.orderID.secs ELSE 0
<1>2. PICK pb \in pending :
        TransferPendingBalance(nextTx, pb, c.doc.sender, c.doc.receiver, lock, ts)
  BY <1>1 DEF executeTransfer
<1>3. UNCHANGED <<now, token, account>> /\ nextTx \in Nat /\ nextTx' \in Nat \ {0}
  BY <1>1 DEF executeTransfer, UseTxID, TypeOK
<1>4. c.doc.sender \in Addr /\ c.doc.receiver \in Addr /\ lock \in Nat
  BY DEF TypeOK, TransferContract, TransferDocs, OrderID
<1>5. BalanceTypeOK'
  BY <1>2, <1>3, <1>4, TimestampNat, TransferPendingType DEF TypeOK, BalanceTypeOK
<1>6. contracts' \subseteq TransferContract
  BY <1>1, CloseContractType DEF executeTransfer, TypeOK
<1> QED
  BY <1>3, <1>5, <1>6 DEF TypeOK, BalanceTypeOK

(* balance/pending/withdraw keeps the types.                                  *)
LEMMA WithdrawStepType ==
  ASSUME TypeOK, NEW kid \in Kid, WithdrawStep(kid)
  PROVE  TypeOK'
<1>1. PICK pb \in pending, ts \in Timestamps : balancePendingWithdraw(kid, pb, ts)
  BY DEF WithdrawStep
<1>2. Withdraw(pb, ts) /\ UNCHANGED <<txVars, token, account, contracts, fees>>
  BY <1>1 DEF balancePendingWithdraw, BalancePendingWithdraw
<1>3. BalanceTypeOK'
  BY <1>2, TimestampNat, WithdrawType DEF TypeOK, BalanceTypeOK
<1> QED
  BY <1>2, <1>3 DEF TypeOK, BalanceTypeOK, txVars

(* Suspension keeps the types.                                                *)
LEMMA SuspendStepType ==
  ASSUME TypeOK, SuspendStep \/ \E kid \in Kid : UnsuspendStep(kid)
  PROVE  TypeOK'
<1>1. /\ \E kid \in Kid : SuspendAccount(kid) \/ UnsuspendAccount(kid)
      /\ UNCHANGED <<txVars, token, fees, balanceVars, contracts>>
  BY DEF SuspendStep, UnsuspendStep, accountSuspend, accountUnsuspend
<1> QED
  BY <1>1, SuspensionType DEF TypeOK, txVars, balanceVars

(* token/update keeps the types, whatever policy and bridge it brings.        *)
LEMMA UpdateStepType ==
  ASSUME TypeOK, UpdateStep
  PROVE  TypeOK'
<1>1. PICK meta \in Metas : tokenUpdate(meta)
                           /\ UNCHANGED <<txVars, account, fees, balanceVars, contracts>>
  BY DEF UpdateStep
<1>2. meta \in TokenMeta
  BY SystemAssumption
<1>3. token' \in Token
  BY <1>1, <1>2, TokenUpdateType DEF TypeOK
<1> QED
  BY <1>1, <1>3 DEF TypeOK, txVars, balanceVars

(* The clock keeps the types.                                                 *)
LEMMA TickStepType ==
  ASSUME TypeOK, TickStep
  PROVE  TypeOK'
BY ContextAssumption DEF TypeOK, TickStep, Tick, balanceVars, StartTime

(* The ledger of the start is typed.                                          *)
LEMMA InitType ==
  ASSUME Init
  PROVE  TypeOK
<1>1. now \in Nat /\ now >= StartTime /\ nextTx \in Nat \ {0}
  BY ContextAssumption DEF Init, LedgerInit, TxInit, StartTime
<1>2. token \in Token
  <2>1. NoBridge \in WrapBridge
    BY DEF NoBridge, WrapBridge
  <2> QED
    BY <2>1, LedgerAssumption DEF Init, LedgerInit, Token, Addr
<1>3. account \in [Addr -> Account]
  BY LedgerAssumption DEF Init, LedgerInit, Account, Addr
<1>4. bal \in [Addr -> Nat] /\ bal \in [Addr -> Int]
  BY LedgerAssumption DEF Init, LedgerInit
<1>5. blog \subseteq BalanceLog
  BY <1>4, LogType DEF Init, LedgerInit
<1> QED
  BY <1>1, <1>2, <1>3, <1>4, <1>5 DEF Init, LedgerInit, TypeOK

(* Every step keeps the types.                                                *)
LEMMA TypeStep ==
  ASSUME TypeOK, [Next]_vars
  PROVE  TypeOK'
<1>1. CASE TransferStep
  BY <1>1, TransferStepType
<1>2. CASE CancelStep
  BY <1>2, CancelStepType
<1>3. CASE ExecuteStep
  BY <1>3, ExecuteStepType
<1>4. CASE \E kid \in Kid : WithdrawStep(kid)
  BY <1>4, WithdrawStepType
<1>5. CASE SuspendStep \/ \E kid \in Kid : UnsuspendStep(kid)
  BY <1>5, SuspendStepType
<1>6. CASE UpdateStep
  BY <1>6, UpdateStepType
<1>7. CASE TickStep
  BY <1>7, TickStepType
<1>8. CASE UNCHANGED vars
  BY <1>8 DEF vars, TypeOK, txVars, balanceVars
<1> QED
  BY <1>1, <1>2, <1>3, <1>4, <1>5, <1>6, <1>7, <1>8 DEF Next

(* Type correctness: documents keep their form under every interleaving of    *)
(* requests, callbacks, suspensions and policy updates.                       *)
THEOREM TypeCorrect == Spec => []TypeOK
<1>1. Init => TypeOK
  BY InitType
<1>2. TypeOK /\ [Next]_vars => TypeOK'
  BY TypeStep
<1> QED
  BY <1>1, <1>2, PTL DEF Spec

-----------------------------------------------------------------------------
(* Unique ids.  A step adds at most one pending balance, under the id of its  *)
(* own transaction, and the contracts keep their ids when they are closed.    *)

PendingIDs(set, bound) ==
  /\ \A p, q \in set : p.id = q.id => p = q
  /\ \A p \in set : p.id < bound

ContractIDs(set, bound) ==
  /\ \A c, d \in set : c.id = d.id => c = d
  /\ \A c \in set : c.id < bound /\ c.doc.pb = c.id

(* What the proofs know of ids: each is the number of a transaction, used     *)
(* once, and a contract names its deposit by its own.                         *)
UniqueIDs ==
  /\ \A p, q \in pending : p.id = q.id => p = q
  /\ \A c, d \in contracts : c.id = d.id => c = d
  /\ \A pb \in pending : pb.id < nextTx
  /\ \A c \in contracts : c.id < nextTx /\ c.doc.pb = c.id

(* UniqueIDs speaks of pending balances and contracts separately.             *)
LEMMA UniqueIDsParts == UniqueIDs <=> PendingIDs(pending, nextTx) /\ ContractIDs(contracts, nextTx)
BY DEF UniqueIDs, PendingIDs, ContractIDs

(* A pending balance under a new id keeps ids unique.                         *)
LEMMA AddPendingID ==
  ASSUME NEW set \in SUBSET PendingBalance, NEW bound \in Nat, PendingIDs(set, bound),
         NEW p, p.id = bound
  PROVE  PendingIDs(set \cup {p}, bound + 1)
BY DEF PendingIDs, PendingBalance

(* So does removing pending balances.                                         *)
LEMMA KeepPendingIDs ==
  ASSUME NEW set \in SUBSET PendingBalance, NEW bound \in Nat, PendingIDs(set, bound),
         NEW subset \in SUBSET set
  PROVE  PendingIDs(subset, bound) /\ PendingIDs(subset, bound + 1)
BY DEF PendingIDs, PendingBalance

(* So does closing a contract.                                                *)
LEMMA CloseContractIDs ==
  ASSUME contracts \subseteq TransferContract, NEW bound \in Nat, ContractIDs(contracts, bound),
         NEW c \in contracts, NEW status, CloseContract(c, status)
  PROVE  ContractIDs(contracts', bound) /\ ContractIDs(contracts', bound + 1)
<1> DEFINE closed == [c EXCEPT !.status = status]
<1>1. closed.id = c.id /\ closed.doc = c.doc
  BY DEF TransferContract
<1>2. contracts' = (contracts \ {c}) \cup {closed}
  BY DEF CloseContract
<1>3. \A d \in contracts : d.id \in Nat
  BY DEF TransferContract
<1> HIDE DEF closed
<1> QED
  BY <1>1, <1>2, <1>3 DEF ContractIDs

(* So does a contract under a new id.                                         *)
LEMMA AddContractIDs ==
  ASSUME contracts \subseteq TransferContract, NEW bound \in Nat, ContractIDs(contracts, bound),
         NEW doc, doc.pb = bound, NEW expiry, NEW signers,
         CreateContract(bound, "transfer", doc, expiry, signers)
  PROVE  ContractIDs(contracts', bound + 1)
<1> DEFINE new ==
      [id |-> bound, type |-> "transfer", doc |-> doc, expiry |-> expiry, status |-> "open"]
<1>1. new.id = bound /\ new.doc.pb = bound
  OBVIOUS
<1>2. contracts' = contracts \cup {new}
  BY DEF CreateContract
<1>3. \A d \in contracts : d.id \in Nat
  BY DEF TransferContract
<1> HIDE DEF new
<1> QED
  BY <1>1, <1>2, <1>3 DEF ContractIDs

(* Every step keeps the ids unique.                                           *)
LEMMA UniqueIDsStep ==
  ASSUME TypeOK, UniqueIDs, [Next]_vars
  PROVE  UniqueIDs'
<1> USE DEF TypeOK
<1>0. PendingIDs(pending, nextTx) /\ ContractIDs(contracts, nextTx)
  BY UniqueIDsParts
<1> SUFFICES PendingIDs(pending', nextTx') /\ ContractIDs(contracts', nextTx')
  BY DEF UniqueIDs, PendingIDs, ContractIDs
<1>1. CASE TransferStep
  <2>1. PICK kid \in Kid, sender \in Addr, receiver \in Addr, amount \in Amounts,
             orderID \in OrderIDs, asked \in PendingTimes, duration \in Durations,
             extra \in Extras, ts \in Timestamps :
          transfer(kid, sender, receiver, amount, orderID, asked, duration, extra, ts)
    BY <1>1 DEF TransferStep
  <2>2. nextTx' = nextTx + 1
    BY <2>1 DEF transfer, UseTxID
  <2>3. PendingIDs(pending', nextTx')
    <3>1. \/ pending' = pending
          \/ \E type, owner, rid, fee, time :
               pending' = pending \cup {Pending(nextTx, type, owner, rid, amount, fee, time)}
      BY <2>1 DEF transfer, Transfer, Deposit
    <3>2. ASSUME NEW type, NEW owner, NEW rid, NEW fee, NEW time
          PROVE  Pending(nextTx, type, owner, rid, amount, fee, time).id = nextTx
      BY DEF Pending
    <3> QED
      BY <1>0, <2>2, <3>1, <3>2, AddPendingID, KeepPendingIDs
  <2>4. CASE UNCHANGED contracts
    <3>1. \A c \in contracts : c.id \in Nat
      BY DEF TransferContract
    <3> QED
      BY <1>0, <2>2, <2>3, <2>4, <3>1 DEF ContractIDs
  <2>5. CASE contracts' # contracts
    <3>1. PICK last, pendingTime, signers :
            CreateContract(nextTx, "transfer",
              TransferDoc(nextTx, sender, receiver, orderID, last, pendingTime),
              ts + duration, signers)
      BY <2>1, <2>5 DEF transfer
    <3>2. TransferDoc(nextTx, sender, receiver, orderID, last, pendingTime).pb = nextTx
      BY DEF TransferDoc
    <3> QED
      BY <1>0, <2>2, <2>3, <3>1, <3>2, AddContractIDs
  <2> QED
    BY <2>4, <2>5
<1>2. CASE CancelStep
  <2>1. PICK c \in contracts, ts \in Timestamps : cancelTransfer(c, ts)
    BY <1>2 DEF CancelStep
  <2>2. pending' \subseteq pending /\ nextTx' = nextTx /\ CloseContract(c, "canceled")
    BY <2>1 DEF cancelTransfer, Withdraw, txVars
  <2> QED
    BY <1>0, <2>2, KeepPendingIDs, CloseContractIDs
<1>3. CASE ExecuteStep
  <2>1. PICK c \in contracts, ts \in Timestamps : executeTransfer(c, ts)
    BY <1>3 DEF ExecuteStep
  <2>2. nextTx' = nextTx + 1 /\ CloseContract(c, "executed")
    BY <2>1 DEF executeTransfer, UseTxID
  <2>3. PendingIDs(pending', nextTx')
    <3>1. PICK pb \in pending :
            \/ pending' = pending \ {pb}
            \/ \E owner, rid, amount, time :
                 pending' = (pending \ {pb}) \cup
                              {Pending(nextTx, "account", owner, rid, amount, 0, time)}
      BY <2>1 DEF executeTransfer, TransferPendingBalance
    <3>2. ASSUME NEW owner, NEW rid, NEW amount, NEW time
          PROVE  Pending(nextTx, "account", owner, rid, amount, 0, time).id = nextTx
      BY DEF Pending
    <3>3. pending \ {pb} \in SUBSET PendingBalance /\ PendingIDs(pending \ {pb}, nextTx)
      BY <1>0, KeepPendingIDs
    <3> QED
      BY <1>0, <2>2, <3>1, <3>2, <3>3, AddPendingID, KeepPendingIDs
  <2> QED
    BY <1>0, <2>2, <2>3, CloseContractIDs
<1>4. CASE \E kid \in Kid : WithdrawStep(kid)
  <2>1. pending' \subseteq pending /\ nextTx' = nextTx /\ contracts' = contracts
    BY <1>4 DEF WithdrawStep, balancePendingWithdraw, BalancePendingWithdraw, Withdraw, txVars
  <2> QED
    BY <1>0, <2>1, KeepPendingIDs
<1>5. CASE UNCHANGED <<pending, contracts, nextTx>>
  BY <1>0, <1>5
<1>6. SuspendStep \/ (\E kid \in Kid : UnsuspendStep(kid)) \/ UpdateStep \/ TickStep \/ UNCHANGED vars
        => UNCHANGED <<pending, contracts, nextTx>>
  BY DEF SuspendStep, UnsuspendStep, UpdateStep, TickStep, vars, txVars, balanceVars
<1> QED
  BY <1>1, <1>2, <1>3, <1>4, <1>5, <1>6 DEF Next

-----------------------------------------------------------------------------
(* No overdraft.  Only the transfer handler takes from a balance, and it has  *)
(* checked that amount and fee are there; everything else gives.              *)

(* No step overdraws an account.                                              *)
LEMMA NonNegativeStep ==
  ASSUME TypeOK, NonNegative, [Next]_vars
  PROVE  NonNegative'
<1>0. bal \in [Addr -> Int] /\ \A a \in Addr : bal[a] >= 0
  BY DEF TypeOK, NonNegative
<1>1. CASE TransferStep
  <2>1. PICK kid \in Kid, sender \in Addr, receiver \in Addr, amount \in Amounts,
             orderID \in OrderIDs, asked \in PendingTimes, duration \in Durations,
             extra \in Extras, ts \in Timestamps :
          transfer(kid, sender, receiver, amount, orderID, asked, duration, extra, ts)
    BY <1>1 DEF TransferStep
  <2> DEFINE fee == CalcFee(sender, "transfer", amount)
  <2>2. amount \in Nat /\ amount \in Int
    BY SystemAssumption
  <2>3. fee \in Nat
    BY <2>2, CalcFeeNat DEF TypeOK, Token, FeeFn
  <2>4. bal[sender] >= amount + fee /\ sender # receiver
    BY <2>1 DEF transfer, Covers
  <2>5. \/ bal' = [bal EXCEPT ![sender] = @ - (amount + fee)]
        \/ bal' = [bal EXCEPT ![sender] = @ - amount - fee]
        \/ bal' = [bal EXCEPT ![receiver] = @ + amount, ![sender] = @ - amount - fee]
    BY <2>1 DEF transfer, Deposit, Transfer
  <2> HIDE DEF fee
  <2> QED
    BY <1>0, <2>2, <2>3, <2>4, <2>5 DEF NonNegative
<1>2. ASSUME NEW pb \in pending, NEW ts, Withdraw(pb, ts)
      PROVE  NonNegative'
  <2>1. pb.account \in Addr /\ pb.amount \in Nat /\ pb.fee \in Nat
    BY DEF TypeOK, PendingBalance
  <2>2. bal' = [bal EXCEPT ![pb.account] = @ + pb.amount + pb.fee]
    BY <1>2 DEF Withdraw
  <2> QED
    BY <1>0, <2>1, <2>2 DEF NonNegative
<1>3. CASE ExecuteStep
  <2>1. PICK c \in contracts, ts \in Timestamps : executeTransfer(c, ts)
    BY <1>3 DEF ExecuteStep
  <2>2. PICK pb \in pending :
          bal' = bal \/ bal' = [bal EXCEPT ![c.doc.receiver] = @ + pb.amount]
    BY <2>1 DEF executeTransfer, TransferPendingBalance
  <2>3. c.doc.receiver \in Addr /\ pb.amount \in Nat
    BY DEF TypeOK, PendingBalance, TransferContract, TransferDocs
  <2> QED
    BY <1>0, <2>2, <2>3 DEF NonNegative
<1>4. CASE CancelStep
  BY <1>2, <1>4 DEF CancelStep, cancelTransfer
<1>5. CASE \E kid \in Kid : WithdrawStep(kid)
  BY <1>2, <1>5 DEF WithdrawStep, balancePendingWithdraw, BalancePendingWithdraw
<1>6. SuspendStep \/ (\E kid \in Kid : UnsuspendStep(kid)) \/ UpdateStep \/ TickStep \/ UNCHANGED vars
        => bal' = bal
  BY DEF SuspendStep, UnsuspendStep, UpdateStep, TickStep, vars, balanceVars
<1> QED
  BY <1>0, <1>1, <1>3, <1>4, <1>5, <1>6 DEF Next, NonNegative

-----------------------------------------------------------------------------
(* Deposits and open contracts.  The two parts of EscrowMatchesContract say   *)
(* of one pending balance, and of one contract, that it has its counterpart.  *)

HasContract(pb) ==
  \E c \in contracts : c.status = "open" /\ IsPendingOf(pb, c)
                       /\ c.doc.sender = pb.account /\ c.expiry = pb.time
HasDeposit(c) == (\E pb \in pending : IsPendingOf(pb, c)) \/ c.expiry <= now + Skew

(* EscrowMatchesContract in two directions.                                   *)
LEMMA EscrowParts ==
  EscrowMatchesContract <=> /\ \A pb \in pending : pb.type = "contract" => HasContract(pb)
                            /\ \A c \in contracts : c.status = "open" => HasDeposit(c)
BY DEF EscrowMatchesContract, HasContract, HasDeposit

(* A callback removes the contract it closes from the open ones together with *)
(* the one pending balance that waits for it, and touches no other deposit.   *)
LEMMA CallbackKeepsEscrow ==
  ASSUME TypeOK, UniqueIDs, EscrowMatchesContract,
         NEW c \in contracts, NEW pb \in pending, IsPendingOf(pb, c),
         NEW status \in {"executed", "canceled"}, CloseContract(c, status),
         pending \ {pb} \subseteq pending', pb \notin pending',
         \A p \in pending' : p \in pending \/ p.type = "account", now' = now
  PROVE  EscrowMatchesContract'
<1> DEFINE closed == [c EXCEPT !.status = status]
<1>1. closed.status # "open" /\ contracts' = (contracts \ {c}) \cup {closed}
  BY DEF CloseContract, TypeOK, TransferContract
<1> HIDE DEF closed
<1>2. ASSUME NEW p \in pending', p.type = "contract"
      PROVE  HasContract(p)'
  <2>1. p \in pending /\ p # pb
    BY <1>2
  <2>2. PICK d \in contracts : d.status = "open" /\ IsPendingOf(p, d)
                               /\ d.doc.sender = p.account /\ d.expiry = p.time
    BY <1>2, <2>1, EscrowParts DEF HasContract
  <2>3. d # c
    BY <2>1, <2>2 DEF IsPendingOf, UniqueIDs
  <2> QED
    BY <1>1, <2>2, <2>3 DEF HasContract, IsPendingOf
<1>3. ASSUME NEW d \in contracts', d.status = "open"
      PROVE  HasDeposit(d)'
  <2>1. d \in contracts /\ d # c
    BY <1>1, <1>3
  <2>2. CASE d.expiry <= now + Skew
    BY <2>2 DEF HasDeposit
  <2>3. CASE \E p \in pending : IsPendingOf(p, d)
    <3>1. PICK p \in pending : IsPendingOf(p, d)
      BY <2>3
    <3>2. p # pb
      BY <2>1, <3>1 DEF IsPendingOf, UniqueIDs
    <3> QED
      BY <3>1, <3>2 DEF HasDeposit, IsPendingOf
  <2> QED
    BY <1>3, <2>1, <2>2, <2>3, EscrowParts DEF HasDeposit
<1> QED
  BY <1>2, <1>3 DEF EscrowMatchesContract, HasContract, HasDeposit, IsPendingOf

(* A withdrawal takes a deposit from its contract only at the expiry time.    *)
LEMMA WithdrawKeepsEscrow ==
  ASSUME TypeOK, UniqueIDs, EscrowMatchesContract,
         NEW kid \in Kid, WithdrawStep(kid)
  PROVE  EscrowMatchesContract'
<1>1. PICK pb \in pending, ts \in Timestamps : balancePendingWithdraw(kid, pb, ts)
  BY DEF WithdrawStep
<1>2. /\ pb.time <= ts /\ pending' = pending \ {pb}
      /\ contracts' = contracts /\ now' = now
  BY <1>1 DEF balancePendingWithdraw, BalancePendingWithdraw, Withdraw, txVars
<1>3. pb.time <= now + Skew
  BY <1>2, TimestampNat, ContextAssumption DEF TypeOK, PendingBalance
<1>4. ASSUME NEW p \in pending', p.type = "contract"
      PROVE  HasContract(p)'
  BY <1>2, <1>4, EscrowParts DEF HasContract, IsPendingOf
<1>5. ASSUME NEW c \in contracts', c.status = "open"
      PROVE  HasDeposit(c)'
  <2>1. CASE IsPendingOf(pb, c)
    <3>1. PICK d \in contracts : IsPendingOf(pb, d) /\ d.expiry = pb.time
      BY <2>1, EscrowParts DEF HasContract, IsPendingOf
    <3>2. d = c
      BY <1>2, <2>1, <3>1 DEF IsPendingOf, UniqueIDs
    <3> QED
      BY <1>2, <1>3, <3>1, <3>2 DEF HasDeposit
  <2>2. CASE ~IsPendingOf(pb, c)
    BY <1>2, <1>5, <2>2, EscrowParts DEF HasDeposit, IsPendingOf
  <2> QED
    BY <2>1, <2>2
<1> QED
  BY <1>4, <1>5 DEF EscrowMatchesContract, HasContract, HasDeposit, IsPendingOf

(* A new contract comes with its deposit; an instant transfer brings neither. *)
LEMMA TransferKeepsEscrow ==
  ASSUME TypeOK, EscrowMatchesContract, TransferStep
  PROVE  EscrowMatchesContract'
<1>1. PICK kid \in Kid, sender \in Addr, receiver \in Addr, amount \in Amounts,
           orderID \in OrderIDs, asked \in PendingTimes, duration \in Durations,
           extra \in Extras, ts \in Timestamps :
        transfer(kid, sender, receiver, amount, orderID, asked, duration, extra, ts)
  BY DEF TransferStep
<1>2. now' = now
  BY <1>1 DEF transfer
<1>3. CASE contracts' = contracts /\ pending' = pending
  BY <1>2, <1>3 DEF EscrowMatchesContract, IsPendingOf
<1>4. CASE \E owner, rid, fee, time :
             /\ contracts' = contracts
             /\ pending' = pending \cup
                             {Pending(nextTx, "account", owner, rid, amount, fee, time)}
  <2>1. PICK p : p.type = "account" /\ pending' = pending \cup {p}
    BY <1>4 DEF Pending
  <2> QED
    BY <1>2, <1>4, <2>1 DEF EscrowMatchesContract, IsPendingOf
<1>5. CASE \E last, pendingTime, fee, expiry, signers :
             /\ CreateContract(nextTx, "transfer",
                  TransferDoc(nextTx, sender, receiver, orderID, last, pendingTime),
                  expiry, signers)
             /\ pending' = pending \cup
                             {Pending(nextTx, "contract", sender, nextTx, amount, fee, expiry)}
  <2>1. PICK last, pendingTime, fee, expiry, signers :
             /\ CreateContract(nextTx, "transfer",
                  TransferDoc(nextTx, sender, receiver, orderID, last, pendingTime),
                  expiry, signers)
             /\ pending' = pending \cup
                             {Pending(nextTx, "contract", sender, nextTx, amount, fee, expiry)}
    BY <1>5
  <2> DEFINE p == Pending(nextTx, "contract", sender, nextTx, amount, fee, expiry)
             c == [id |-> nextTx, type |-> "transfer", expiry |-> expiry, status |-> "open",
                   doc |-> TransferDoc(nextTx, sender, receiver, orderID, last, pendingTime)]
  <2>2. /\ c.status = "open" /\ c.doc.sender = p.account /\ c.expiry = p.time
        /\ IsPendingOf(p, c)
    BY DEF Pending, TransferDoc, IsPendingOf
  <2>3. pending' = pending \cup {p} /\ contracts' = contracts \cup {c}
    BY <2>1 DEF CreateContract
  <2> HIDE DEF p, c
  <2> QED
    BY <1>2, <2>2, <2>3 DEF EscrowMatchesContract, IsPendingOf
<1> QED
  BY <1>1, <1>3, <1>4, <1>5 DEF transfer, Transfer, Deposit

(* Every step keeps deposits and open contracts together.                     *)
LEMMA EscrowStep ==
  ASSUME TypeOK, UniqueIDs, EscrowMatchesContract, [Next]_vars
  PROVE  EscrowMatchesContract'
<1>1. CASE TransferStep
  BY <1>1, TransferKeepsEscrow
<1>2. CASE CancelStep
  <2>1. PICK c \in contracts, ts \in Timestamps : cancelTransfer(c, ts)
    BY <1>2 DEF CancelStep
  <2>2. PICK pb \in pending : IsPendingOf(pb, c) /\ pending' = pending \ {pb}
    BY <2>1 DEF cancelTransfer, Withdraw
  <2>3. CloseContract(c, "canceled") /\ now' = now
    BY <2>1 DEF cancelTransfer, txVars
  <2> QED
    BY <2>2, <2>3, CallbackKeepsEscrow
<1>3. CASE ExecuteStep
  <2>1. PICK c \in contracts, ts \in Timestamps : executeTransfer(c, ts)
    BY <1>3 DEF ExecuteStep
  <2>2. PICK pb \in pending :
          /\ IsPendingOf(pb, c)
          /\ \/ pending' = pending \ {pb}
             \/ \E owner, rid, amount, time :
                  pending' = (pending \ {pb}) \cup
                               {Pending(nextTx, "account", owner, rid, amount, 0, time)}
    BY <2>1 DEF executeTransfer, TransferPendingBalance
  <2>3. CloseContract(c, "executed") /\ now' = now
    BY <2>1 DEF executeTransfer
  <2>4. pb.id < nextTx /\ pb.id \in Nat /\ nextTx \in Nat
    BY DEF UniqueIDs, TypeOK, PendingBalance
  <2>5. CASE pending' = pending \ {pb}
    BY <2>2, <2>3, <2>5, CallbackKeepsEscrow
  <2>6. CASE pending' # pending \ {pb}
    <3>1. PICK p : /\ p.id = nextTx /\ p.type = "account"
                   /\ pending' = (pending \ {pb}) \cup {p}
      BY <2>2, <2>6 DEF Pending
    <3>2. p # pb
      BY <2>4, <3>1
    <3> QED
      BY <2>2, <2>3, <3>1, <3>2, CallbackKeepsEscrow
  <2> QED
    BY <2>5, <2>6
<1>4. CASE \E kid \in Kid : WithdrawStep(kid)
  BY <1>4, WithdrawKeepsEscrow
<1>5. CASE UNCHANGED <<pending, contracts>> /\ now' \in {now, now + 1}
  <2>1. \A c \in contracts : c.expiry \in Nat
    BY DEF TypeOK, TransferContract
  <2>2. \A c \in contracts : c.expiry <= now + Skew => c.expiry <= now' + Skew
    BY <1>5, <2>1, ContextAssumption DEF TypeOK
  <2> QED
    BY <1>5, <2>2 DEF EscrowMatchesContract, IsPendingOf
<1>6. SuspendStep \/ (\E kid \in Kid : UnsuspendStep(kid)) \/ UpdateStep \/ TickStep \/ UNCHANGED vars
        => UNCHANGED <<pending, contracts>> /\ now' \in {now, now + 1}
  BY DEF SuspendStep, UnsuspendStep, UpdateStep, TickStep, Tick, vars, txVars, balanceVars
<1> QED
  BY <1>1, <1>2, <1>3, <1>4, <1>5, <1>6 DEF Next, TypeOK

-----------------------------------------------------------------------------
(* The inductive invariant: EscrowMatchesContract needs the uniqueness of ids,*)
(* everything needs the types.                                                *)
TransferInv == TypeOK /\ UniqueIDs /\ NonNegative /\ EscrowMatchesContract

(* The ledger of the start satisfies the invariant.                           *)
LEMMA TransferInvInit == Init => TransferInv
<1> SUFFICES ASSUME Init
             PROVE  TransferInv
  OBVIOUS
<1>1. TypeOK
  BY InitType
<1>2. UniqueIDs /\ EscrowMatchesContract
  BY DEF Init, LedgerInit, UniqueIDs, EscrowMatchesContract
<1>3. NonNegative
  BY LedgerAssumption DEF Init, LedgerInit, NonNegative
<1> QED
  BY <1>1, <1>2, <1>3 DEF TransferInv

(* Every step keeps it.                                                       *)
LEMMA TransferInvStep == TransferInv /\ [Next]_vars => TransferInv'
<1> SUFFICES ASSUME TransferInv, [Next]_vars
             PROVE  TransferInv'
  OBVIOUS
<1>1. TypeOK'
  BY TypeStep DEF TransferInv
<1>2. UniqueIDs'
  BY UniqueIDsStep DEF TransferInv
<1>3. NonNegative'
  BY NonNegativeStep DEF TransferInv
<1>4. EscrowMatchesContract'
  BY EscrowStep DEF TransferInv
<1> QED
  BY <1>1, <1>2, <1>3, <1>4 DEF TransferInv

(* Types, ids, balances and deposits hold together in every reachable         *)
(* state.                                                                     *)
THEOREM TransferInvariant == Spec => []TransferInv
BY TransferInvInit, TransferInvStep, PTL DEF Spec

(* No overdraft, whatever policies, signers and callbacks do between the      *)
(* balance check of a transfer and its execution.                             *)
THEOREM NoOverdraft == Spec => []NonNegative
<1>1. TransferInv => NonNegative
  BY DEF TransferInv
<1> QED
  BY <1>1, TransferInvariant, PTL

(* A deposit and its open contract come and go together, up to the withdrawal *)
(* of the deposit at its expiry time.                                         *)
THEOREM DepositsMatchContracts == Spec => []EscrowMatchesContract
<1>1. TransferInv => EscrowMatchesContract
  BY DEF TransferInv
<1> QED
  BY <1>1, TransferInvariant, PTL

(* The time lock of a transfer, and the expiry time of a deposit, hold.       *)
THEOREM TimesHold == Spec => NoEarlyExit
<1> DEFINE Kept == \A pb \in pending : pb \notin pending' /\ pb.time > now + Skew =>
                     \E c \in contracts : IsPendingOf(pb, c) /\ c \notin contracts'
<1>1. TypeOK /\ [Next]_vars => [Kept]_vars
  <2> SUFFICES ASSUME TypeOK, Next,
                      NEW pb \in pending, pb \notin pending', pb.time > now + Skew
               PROVE  \E c \in contracts : IsPendingOf(pb, c) /\ c \notin contracts'
    OBVIOUS
  <2>1. ASSUME NEW c \in contracts, NEW status, status # c.status, CloseContract(c, status)
        PROVE  c \notin contracts'
    BY <2>1 DEF CloseContract, TypeOK, TransferContract
  <2>2. CASE TransferStep
    BY <2>2 DEF TransferStep, transfer, Transfer, Deposit
  <2>3. CASE CancelStep
    <3>1. PICK c \in contracts, ts \in Timestamps : OpenContract(c) /\ cancelTransfer(c, ts)
      BY <2>3 DEF CancelStep
    <3>2. IsPendingOf(pb, c)
      BY <3>1 DEF cancelTransfer, Withdraw
    <3> QED
      BY <2>1, <3>1, <3>2 DEF cancelTransfer, OpenContract
  <2>4. CASE ExecuteStep
    <3>1. PICK c \in contracts, ts \in Timestamps : OpenContract(c) /\ executeTransfer(c, ts)
      BY <2>4 DEF ExecuteStep
    <3>2. IsPendingOf(pb, c)
      BY <3>1 DEF executeTransfer, TransferPendingBalance
    <3> QED
      BY <2>1, <3>1, <3>2 DEF executeTransfer, OpenContract
  <2>5. CASE \E kid \in Kid : WithdrawStep(kid)
    <3>1. PICK q \in pending, ts \in Timestamps : q.time <= ts /\ pending' = pending \ {q}
      BY <2>5 DEF WithdrawStep, balancePendingWithdraw, BalancePendingWithdraw, Withdraw
    <3>2. q.time <= now + Skew
      BY <3>1, TimestampNat, ContextAssumption DEF TypeOK, PendingBalance
    <3> QED
      BY <3>1, <3>2, ContextAssumption DEF TypeOK, PendingBalance
  <2>6. SuspendStep \/ (\E kid \in Kid : UnsuspendStep(kid)) \/ UpdateStep \/ TickStep
          => pending' = pending
    BY DEF SuspendStep, UnsuspendStep, UpdateStep, TickStep, balanceVars
  <2> QED
    BY <2>2, <2>3, <2>4, <2>5, <2>6 DEF Next
<1> QED
  BY <1>1, TypeCorrect, PTL DEF Spec, NoEarlyExit

(* Suspension holds: only an account that is not suspended is debited, also   *)
(* by contracts that were made before the suspension.                         *)
THEOREM SuspensionHolds == Spec => SuspendedKeepsBalance
<1> DEFINE Kept == \A a \in Addr : IsSuspended(a) => bal'[a] >= bal[a]
<1>1. TypeOK /\ [Next]_vars => [Kept]_vars
  <2> SUFFICES ASSUME TypeOK, Next, NEW a \in Addr, IsSuspended(a)
               PROVE  bal'[a] >= bal[a]
    OBVIOUS
  <2>0. bal \in [Addr -> Int] /\ bal[a] \in Int
    BY DEF TypeOK
  <2>1. ASSUME NEW pb \in pending, NEW ts, Withdraw(pb, ts)
        PROVE  bal'[a] >= bal[a]
    <3>1. pb.amount \in Nat /\ pb.fee \in Nat
      BY DEF TypeOK, PendingBalance
    <3> QED
      BY <2>0, <2>1, <3>1 DEF Withdraw
  <2>2. CASE TransferStep
    <3>1. PICK kid \in Kid, sender \in Addr, receiver \in Addr, amount \in Amounts,
               orderID \in OrderIDs, asked \in PendingTimes, duration \in Durations,
               extra \in Extras, ts \in Timestamps :
            transfer(kid, sender, receiver, amount, orderID, asked, duration, extra, ts)
      BY <2>2 DEF TransferStep
    <3>2. a # sender /\ amount \in Nat
      BY <3>1, SystemAssumption DEF transfer, Active
    <3> QED
      BY <2>0, <3>1, <3>2 DEF transfer, Transfer, Deposit
  <2>3. CASE CancelStep
    BY <2>1, <2>3 DEF CancelStep, cancelTransfer
  <2>4. CASE ExecuteStep
    <3>1. PICK pb \in pending :
            bal' = bal \/ \E b \in Addr : bal' = [bal EXCEPT ![b] = @ + pb.amount]
      BY <2>4 DEF ExecuteStep, executeTransfer, TransferPendingBalance, TypeOK,
                  TransferContract, TransferDocs, OpenContract
    <3>2. pb.amount \in Nat
      BY DEF TypeOK, PendingBalance
    <3> QED
      BY <2>0, <3>1, <3>2
  <2>5. CASE \E kid \in Kid : WithdrawStep(kid)
    BY <2>1, <2>5 DEF WithdrawStep, balancePendingWithdraw, BalancePendingWithdraw
  <2>6. SuspendStep \/ (\E kid \in Kid : UnsuspendStep(kid)) \/ UpdateStep \/ TickStep
          => bal' = bal
    BY DEF SuspendStep, UnsuspendStep, UpdateStep, TickStep, balanceVars
  <2> QED
    BY <2>0, <2>2, <2>3, <2>4, <2>5, <2>6 DEF Next
<1> QED
  BY <1>1, TypeCorrect, PTL DEF Spec, SuspendedKeepsBalance

-----------------------------------------------------------------------------
(* The sums.  That they stay what they are takes finitely many documents, and *)
(* a transaction id that no fee has used before: two fees of one account that *)
(* were stored under one id would be one document.                            *)
SumsInv ==
  /\ Countable
  /\ AuditTrail
  /\ Conservation
  /\ \A f \in fees : f.tx < nextTx

(* Conservation, in the sums of BalanceProofs.                                *)
LEMMA ConservationIsMoney ==
  /\ Conservation <=> Money = token.supply
  /\ Conservation' <=> Money' = token'.supply
BY DEF Conservation, Money, Applied, Collected, DepositSum, AmountSum

(* What a step needs to be shown of: the supply does not change.              *)
LEMMA SumsKept ==
  ASSUME SumsInv, Countable', AuditTrail', Money' = Money, token'.supply = token.supply,
         \A f \in fees' : f.tx < nextTx'
  PROVE  SumsInv'
BY ConservationIsMoney DEF SumsInv

(* A fee document is stored under the id of its transaction.                  *)
LEMMA FeesAreOld ==
  ASSUME SumsInv, nextTx \in Nat, NEW a, NEW fee, NEW ts, CreateFee(a, fee, ts, nextTx),
         nextTx' = nextTx + 1, fees \subseteq FeeDoc
  PROVE  \A f \in fees' : f.tx < nextTx'
<1>1. \A f \in fees : f.tx \in Nat /\ f.tx < nextTx
  BY DEF SumsInv, FeeDoc
<1>2. Fee(a, fee, ts, nextTx).tx = nextTx
  BY DEF Fee
<1> QED
  BY <1>1, <1>2 DEF CreateFee

(* The next transaction id is new.                                            *)
LEMMA NextIsFresh ==
  ASSUME TypeOK, UniqueIDs, SumsInv
  PROVE  Fresh(nextTx) /\ nextTx \in Nat
<1>1. nextTx \in Nat /\ \A pb \in pending : pb.id \in Nat /\ pb.id < nextTx
  BY DEF TypeOK, UniqueIDs, PendingBalance
<1>2. \A f \in fees : f.tx \in Nat /\ f.tx < nextTx
  BY DEF TypeOK, SumsInv, FeeDoc
<1> QED
  BY <1>1, <1>2 DEF Fresh

(* The supply is not a transfer's business.                                   *)
LEMMA TransferSums ==
  ASSUME TypeOK, UniqueIDs, SumsInv, TransferStep
  PROVE  SumsInv'
<1>1. PICK kid \in Kid, sender \in Addr, receiver \in Addr, amount \in Amounts,
           orderID \in OrderIDs, asked \in PendingTimes, duration \in Durations,
           extra \in Extras, ts \in Timestamps :
        transfer(kid, sender, receiver, amount, orderID, asked, duration, extra, ts)
  BY DEF TransferStep
<1> DEFINE fee == CalcFee(sender, "transfer", amount)
           pendingTime == IF asked > ts THEN asked ELSE 0
<1>2. amount \in Int /\ asked \in Nat /\ ts \in Int /\ pendingTime \in Int
  BY SystemAssumption, TimestampNat DEF TypeOK
<1>3. fee \in Int
  BY <1>2, CalcFeeNat DEF TypeOK, Token, FeeFn
<1>4. /\ sender # receiver /\ nextTx' = nextTx + 1 /\ token' = token
      /\ \/ /\ Deposit(nextTx, sender, nextTx, ts + duration, amount, fee, ts)
            /\ fees' = fees
         \/ Transfer(nextTx, sender, receiver, amount, fee, pendingTime, ts)
  BY <1>1 DEF transfer, UseTxID
<1>5. Fresh(nextTx) /\ nextTx \in Nat /\ Countable /\ AuditTrail
  BY NextIsFresh DEF SumsInv
<1> HIDE DEF fee, pendingTime
<1>6. Countable' /\ AuditTrail' /\ Money' = Money
  BY <1>2, <1>3, <1>4, <1>5, TransferMoves, DepositMoves
<1>7. \A f \in fees' : f.tx < nextTx'
  <2>1. CASE fees' = fees
    <3>1. \A f \in fees : f.tx \in Nat /\ f.tx < nextTx
      BY DEF SumsInv, TypeOK, FeeDoc
    <3> QED
      BY <1>4, <1>5, <2>1, <3>1
  <2>2. CASE CreateFee(sender, fee, ts, nextTx)
    BY <1>4, <1>5, <2>2, FeesAreOld DEF TypeOK
  <2> QED
    BY <1>4, <2>1, <2>2 DEF Transfer
<1> QED
  BY <1>4, <1>6, <1>7, SumsKept

(* Every step keeps the sums.                                                 *)
LEMMA SumsStep ==
  ASSUME TypeOK, UniqueIDs, SumsInv, [Next]_vars
  PROVE  SumsInv'
<1>0. Countable /\ AuditTrail
  BY DEF SumsInv
<1>1. CASE TransferStep
  BY <1>1, TransferSums
<1>2. ASSUME NEW pb \in pending, NEW ts, Withdraw(pb, ts), UNCHANGED <<txVars, token, fees>>
      PROVE  SumsInv'
  <2>1. Countable' /\ AuditTrail' /\ Money' = Money
    BY <1>0, <1>2, WithdrawMoves
  <2>2. \A f \in fees' : f.tx < nextTx'
    BY <1>2 DEF txVars, SumsInv
  <2> QED
    BY <1>2, <2>1, <2>2, SumsKept
<1>3. CASE CancelStep
  BY <1>2, <1>3 DEF CancelStep, cancelTransfer
<1>4. CASE ExecuteStep
  <2>1. PICK c \in contracts, ts \in Timestamps : executeTransfer(c, ts)
    BY <1>4 DEF ExecuteStep
  <2> DEFINE lock == IF c.doc.orderID.kind = "number" THEN c.doc.orderID.secs ELSE 0
             receiver == c.doc.receiver
  <2>2. PICK pb \in pending :
          TransferPendingBalance(nextTx, pb, c.doc.sender, receiver, lock, ts)
    BY <2>1 DEF executeTransfer
  <2>3. ts \in Int /\ lock \in Int /\ receiver \in Addr
    BY TimestampNat DEF TypeOK, TransferContract, TransferDocs, OrderID
  <2>4. Fresh(nextTx) /\ nextTx \in Nat
    BY NextIsFresh
  <2>5. nextTx' = nextTx + 1 /\ token' = token
    BY <2>1 DEF executeTransfer, UseTxID
  <2> HIDE DEF lock, receiver
  <2>6. Countable' /\ AuditTrail' /\ Money' = Money
    BY <1>0, <2>2, <2>3, <2>4, TransferPendingMoves
  <2>7. CreateFee(pb.account, pb.fee, ts, nextTx)
    BY <2>2 DEF TransferPendingBalance
  <2>8. \A f \in fees' : f.tx < nextTx'
    BY <2>4, <2>5, <2>7, FeesAreOld DEF TypeOK
  <2> QED
    BY <2>5, <2>6, <2>8, SumsKept
<1>5. CASE \E kid \in Kid : WithdrawStep(kid)
  BY <1>2, <1>5 DEF WithdrawStep, balancePendingWithdraw, BalancePendingWithdraw
<1>6. CASE UNCHANGED <<nextTx, fees, balanceVars>> /\ token'.supply = token.supply
  <2>1. Countable' /\ AuditTrail' /\ Money' = Money
    BY <1>0, <1>6 DEF balanceVars, Countable, AuditTrail, LogsOf, Money
  <2>2. \A f \in fees' : f.tx < nextTx'
    BY <1>6 DEF SumsInv
  <2> QED
    BY <1>6, <2>1, <2>2, SumsKept
<1>7. UpdateStep => token'.supply = token.supply
  BY DEF UpdateStep, tokenUpdate, TypeOK, Token
<1>8. SuspendStep \/ (\E kid \in Kid : UnsuspendStep(kid)) \/ UpdateStep \/ TickStep \/ UNCHANGED vars
        => UNCHANGED <<nextTx, fees, balanceVars>> /\ token'.supply = token.supply
  BY <1>7 DEF SuspendStep, UnsuspendStep, UpdateStep, TickStep, vars, txVars
<1> QED
  BY <1>1, <1>3, <1>4, <1>5, <1>6, <1>8 DEF Next

(* The opening balances add up to the supply, and have their logs.            *)
LEMMA SumsInit ==
  ASSUME Init
  PROVE  SumsInv
<1>1. /\ bal \in [Addr -> Int] /\ SumFunction(bal) = InitialSupply
      /\ token.supply = InitialSupply
  BY LedgerAssumption DEF Init, LedgerInit
<1>2. Countable /\ AuditTrail /\ Money = SumFunction(bal)
  BY <1>1, OpeningSums DEF Init, LedgerInit
<1> QED
  BY <1>1, <1>2, ConservationIsMoney DEF Init, LedgerInit, SumsInv

(* Types, ids and sums together are inductive.                                *)
LEMMA SumsInvariant == Spec => [](TypeOK /\ UniqueIDs /\ SumsInv)
<1>1. Init => TypeOK /\ UniqueIDs /\ SumsInv
  BY TransferInvInit, SumsInit DEF TransferInv
<1>2. (TypeOK /\ UniqueIDs /\ SumsInv) /\ [Next]_vars => (TypeOK /\ UniqueIDs /\ SumsInv)'
  BY TypeStep, UniqueIDsStep, SumsStep
<1> QED
  BY <1>1, <1>2, PTL DEF Spec

(* Money is neither made nor lost by any interleaving of transfers, deposits, *)
(* callbacks and withdrawals, of any number of accounts.                      *)
THEOREM MoneyConserved == Spec => []Conservation
<1>1. SumsInv => Conservation
  BY DEF SumsInv
<1> QED
  BY <1>1, SumsInvariant, PTL

(* The logs of an account always explain its balance.                         *)
THEOREM LogsComplete == Spec => []AuditTrail
<1>1. SumsInv => AuditTrail
  BY DEF SumsInv
<1> QED
  BY <1>1, SumsInvariant, PTL

-----------------------------------------------------------------------------
(* TransferSystem implements IdealTransfer.                                   *)

(* What it takes: the invariants above, and that nobody transfers to himself. *)
Parties == \A c \in contracts : c.doc.sender # c.doc.receiver
IdealInv == TransferInv /\ SumsInv /\ Parties

Waiting == {p \in pending : p.type = "contract"}
Target(pb) == (CHOOSE c \in contracts : c.id = pb.rid).doc.receiver
Promise(pb) == [id |-> pb.id, from |-> pb.account, amount |-> pb.amount, fee |-> pb.fee,
                to |-> Target(pb)]

(* The mapping in terms of the sums of BalanceProofs.                         *)
LEMMA MappingIs ==
  /\ Wealth = [a \in Addr |-> bal[a] + DepositSum(Owned(pending, a))]
  /\ Wealth' = [a \in Addr |-> bal'[a] + DepositSum(Owned(pending', a))]
  /\ Promises = {Promise(pb) : pb \in Waiting}
  /\ Promises' = {Promise(pb)' : pb \in Waiting'}
  /\ Collected = AmountSum(fees) /\ Collected' = AmountSum(fees')
BY DEF Wealth, PendingOf, Applied, Owned, DepositSum, Promises, Promise, Waiting, Target, Collected,
       AmountSum

(* A deposit is promised to the receiver of its contract.                     *)
LEMMA TargetIs ==
  ASSUME UniqueIDs, NEW c \in contracts, NEW pb, IsPendingOf(pb, c)
  PROVE  Target(pb) = c.doc.receiver
BY DEF UniqueIDs, IsPendingOf, Target

(* Contracts that keep id and document keep every promise.                    *)
LEMMA PromiseKept ==
  ASSUME TransferInv, TransferInv', NEW pb \in Waiting,
         \A c \in contracts : \E d \in contracts' : d.id = c.id /\ d.doc = c.doc
  PROVE  Promise(pb)' = Promise(pb)
<1>1. PICK c \in contracts : IsPendingOf(pb, c)
  BY DEF Waiting, TransferInv, EscrowMatchesContract
<1>2. PICK d \in contracts' : d.id = c.id /\ d.doc = c.doc
  OBVIOUS
<1>3. Target(pb) = c.doc.receiver
  BY <1>1, TargetIs DEF TransferInv
<1>4. Target(pb)' = d.doc.receiver
  BY <1>1, <1>2 DEF TransferInv, UniqueIDs, IsPendingOf, Target
<1> QED
  BY <1>2, <1>3, <1>4 DEF Promise

(* A sum is the same inside the instance of IdealTransfer.                    *)
LEMMA IdealSum ==
  ASSUME NEW g
  PROVE  Ideal!SumFunction(g) = SumFunction(g)
BY DEF SumFunction, SumFunctionOnSet, FoldFunctionOnSet, MapThenFoldSet,
       Ideal!SumFunction, Ideal!SumFunctionOnSet, Ideal!FoldFunctionOnSet, Ideal!MapThenFoldSet

(* What an account has promised is less than what it owns in pending          *)
(* balances, so all of its balance is free.                                   *)
LEMMA BalanceIsFree ==
  ASSUME IdealInv, NEW a \in Addr
  PROVE  Ideal!Free(a) \in Int /\ bal[a] \in Nat /\ bal[a] <= Ideal!Free(a)
<1> DEFINE own == Owned(pending, a)
           deposits == Owned(Waiting, a)
           h == [pb \in deposits |-> Promise(pb)]
           f == [pb \in own |-> pb.amount + pb.fee]
           d == [pb \in deposits |-> pb.amount + pb.fee]
           promised == {p \in Promises : p.from = a}
           g == [p \in promised |-> p.amount + p.fee]
<1>1. IsFiniteSet(own) /\ deposits \in SUBSET own /\ own \subseteq pending
  BY FS_Subset DEF IdealInv, SumsInv, Countable, Owned, Waiting
<1>2. \A pb \in own : pb.amount \in Nat /\ pb.fee \in Nat
  BY <1>1 DEF IdealInv, TransferInv, TypeOK, PendingBalance
<1>3. f \in [own -> Nat] /\ d \in [deposits -> Nat] /\ d \in [deposits -> Int]
      /\ IsFiniteSet(deposits)
  BY <1>1, <1>2, FS_Subset
<1>4. Image(h, deposits) = promised
  <2>1. Image(h, deposits) = {Promise(pb) : pb \in deposits}
    BY DEF Image
  <2>2. \A pb \in Waiting : Promise(pb).from = pb.account
    BY DEF Promise
  <2>3. Promises = {Promise(pb) : pb \in Waiting}
    BY MappingIs
  <2>4. \A pb : pb \in deposits <=> pb \in Waiting /\ pb.account = a
    BY DEF Owned
  <2> QED
    BY <2>1, <2>2, <2>3, <2>4
<1>5. \A pb \in deposits : h[pb] = Promise(pb) /\ h[pb].id = pb.id
                           /\ h[pb].amount = pb.amount /\ h[pb].fee = pb.fee
  BY DEF Promise
<1>6. \A p, q \in deposits : h[p] = h[q] => p = q
  BY <1>1, <1>5 DEF IdealInv, TransferInv, UniqueIDs
<1>7. g \in [Image(h, deposits) -> Int] /\ \A pb \in deposits : g[h[pb]] = d[pb]
  <2>1. \A p \in promised : p.amount + p.fee \in Int
    BY <1>1, <1>2, <1>4, <1>5 DEF Image
  <2>2. \A pb \in deposits : h[pb] \in promised
    BY <1>4 DEF Image
  <2> QED
    BY <1>4, <1>5, <2>1, <2>2
<1>8. \A pb \in deposits : d[pb] = f[pb]
  BY <1>1
<1>9. Wealth[a] = bal[a] + SumFunction(f)
  BY MappingIs DEF DepositSum
<1>10. Ideal!Free(a) = Wealth[a] - SumFunction(g)
  <2>1. Ideal!Promised(a) = SumFunction(g)
    BY IdealSum DEF Ideal!Promised, Ideal!PromisesOf
  <2> QED
    BY <2>1 DEF Ideal!Free
<1> HIDE DEF own, deposits, h, f, d, promised, g
<1>11. SumFunction(g) = SumFunction(d)
  BY <1>3, <1>6, <1>7, SumFunctionImage
<1>12. /\ SumFunction(d) \in Nat /\ SumFunction(f) \in Nat
       /\ SumFunction(d) <= SumFunction(f)
  <2>1. IsFiniteSet(own) /\ deposits \in SUBSET own
    BY <1>1
  <2> QED
    BY <2>1, <1>3, <1>8, SumFunctionPart
<1>13. bal[a] \in Nat
  BY DEF IdealInv, TransferInv, TypeOK, NonNegative
<1> QED
  BY <1>9, <1>10, <1>11, <1>12, <1>13

(* The promises after a step that keeps all contracts and makes one more      *)
(* deposit, takes one away or leaves them alone.                              *)
ContractsStay == \A c \in contracts : \E d \in contracts' : d.id = c.id /\ d.doc = c.doc

(* One more deposit is one more promise.                                      *)
LEMMA PromisesPut ==
  ASSUME TransferInv, TransferInv', ContractsStay, NEW p, Waiting' = Waiting \cup {p}
  PROVE  Promises' = Promises \cup {Promise(p)'}
<1>1. \A pb \in Waiting : Promise(pb)' = Promise(pb)
  BY PromiseKept DEF ContractsStay
<1>2. Promises = {Promise(pb) : pb \in Waiting} /\ Promises' = {Promise(pb)' : pb \in Waiting'}
  BY MappingIs
<1> QED
  BY <1>1, <1>2

(* One deposit less is one promise less.                                      *)
LEMMA PromisesTaken ==
  ASSUME TransferInv, TransferInv', ContractsStay, NEW p \in Waiting, Waiting' = Waiting \ {p}
  PROVE  Promises' = Promises \ {Promise(p)}
<1>1. \A pb \in Waiting : Promise(pb)' = Promise(pb)
  BY PromiseKept DEF ContractsStay
<1>2. Promises = {Promise(pb) : pb \in Waiting} /\ Promises' = {Promise(pb)' : pb \in Waiting'}
  BY MappingIs
<1>3. \A pb \in Waiting : Promise(pb).id = pb.id
  BY DEF Promise
<1>4. \A pb \in Waiting : pb.id = p.id => pb = p
  BY DEF Waiting, TransferInv, UniqueIDs
<1>5. \A pb \in Waiting : Promise(pb) = Promise(p) => pb = p
  BY <1>3, <1>4
<1>6. Promises' = {Promise(pb) : pb \in Waiting \ {p}}
  BY <1>1, <1>2
<1> QED
  BY <1>2, <1>5, <1>6

(* The same deposits are the same promises.                                   *)
LEMMA PromisesStay ==
  ASSUME TransferInv, TransferInv', ContractsStay, Waiting' = Waiting
  PROVE  Promises' = Promises
<1>1. \A pb \in Waiting : Promise(pb)' = Promise(pb)
  BY PromiseKept DEF ContractsStay
<1>2. Promises = {Promise(pb) : pb \in Waiting} /\ Promises' = {Promise(pb)' : pb \in Waiting'}
  BY MappingIs
<1> QED
  BY <1>1, <1>2

(* An account's wealth is its worth.                                          *)
LEMMA WealthIs ==
  /\ Wealth = [a \in Addr |-> Worth(a)]
  /\ Wealth' = [a \in Addr |-> Worth(a)']
BY MappingIs DEF Worth

(* What both the new and the old documents satisfy.                           *)
LEMMA IdealFacts ==
  ASSUME IdealInv
  PROVE  /\ Fresh(nextTx) /\ nextTx \in Nat /\ Countable /\ TypeOK /\ UniqueIDs
         /\ IsFiniteSet(fees) /\ IntAmounts(fees) /\ AmountSum(fees) \in Int
<1>1. TypeOK /\ UniqueIDs /\ SumsInv
  BY DEF IdealInv, TransferInv
<1>2. Countable /\ IsFiniteSet(fees) /\ IntAmounts(fees)
  BY <1>1 DEF SumsInv, Countable
<1> QED
  BY <1>1, <1>2, NextIsFresh, AmountSumTake

(* A transfer at once or with a time lock is a gift, one that waits for its   *)
(* signers a promise.                                                         *)
LEMMA TransferImplements ==
  ASSUME IdealInv, TransferInv', TransferStep
  PROVE  Ideal!Give \/ Ideal!Promise
<1>1. PICK kid \in Kid, sender \in Addr, receiver \in Addr, amount \in Amounts,
           orderID \in OrderIDs, asked \in PendingTimes, duration \in Durations,
           extra \in Extras, ts \in Timestamps :
        transfer(kid, sender, receiver, amount, orderID, asked, duration, extra, ts)
  BY DEF TransferStep
<1> DEFINE fee == CalcFee(sender, "transfer", amount)
           pendingTime == IF asked > ts THEN asked ELSE 0
           last == IF pendingTime # 0 THEN orderID ELSE Zero
           doc == TransferDoc(nextTx, sender, receiver, orderID, last, pendingTime)
           signers == Signers(kid, sender, extra)
           new == [id |-> nextTx, type |-> "transfer", doc |-> doc,
                   expiry |-> ts + duration, status |-> "open"]
<1>2. amount \in Nat \ {0} /\ amount \in Int /\ fee \in Nat /\ fee \in Int
  <2>1. amount \in Nat \ {0}
    BY SystemAssumption
  <2> QED
    BY <2>1, CalcFeeNat DEF IdealInv, TransferInv, TypeOK, Token, FeeFn
<1>3. /\ sender # receiver /\ bal[sender] >= amount + fee
      /\ \/ /\ contracts' = contracts \cup {new}
            /\ Deposit(nextTx, sender, nextTx, ts + duration, amount, fee, ts)
            /\ fees' = fees
         \/ /\ Transfer(nextTx, sender, receiver, amount, fee, pendingTime, ts)
            /\ contracts' = contracts
  BY <1>1 DEF transfer, CreateContract, Covers
<1>4. /\ Ideal!Free(sender) \in Int /\ bal[sender] \in Nat /\ bal[sender] <= Ideal!Free(sender)
  BY BalanceIsFree
<1>5. /\ Fresh(nextTx) /\ nextTx \in Nat /\ Countable
      /\ IsFiniteSet(fees) /\ IntAmounts(fees) /\ AmountSum(fees) \in Int
  BY IdealFacts
<1>6. new.id = nextTx /\ new.doc.receiver = receiver
  BY DEF TransferDoc
<1>11. PICK p : p = Pending(nextTx, "contract", sender, nextTx, amount, fee, ts + duration)
  OBVIOUS
<1>7. /\ p.id = nextTx /\ p.type = "contract" /\ p.account = sender /\ p.rid = nextTx
      /\ p.amount = amount /\ p.fee = fee
  BY <1>11 DEF Pending
<1>8. TransferInv
  BY DEF IdealInv
<1> HIDE DEF fee, pendingTime, signers, doc, last, new
<1>9. ASSUME contracts' = contracts \cup {new},
             Deposit(nextTx, sender, nextTx, ts + duration, amount, fee, ts), fees' = fees
      PROVE  Ideal!Promise
  <2>1. Wealth' = Wealth
    <3>1. \A a \in Addr : Worth(a)' = Worth(a)
      BY <1>2, <1>5, <1>9, DepositKeepsWorth
    <3> QED
      BY <3>1, WealthIs
  <2>2. pending' = pending \cup {p}
    BY <1>9, <1>11 DEF Deposit
  <2>3. Waiting' = Waiting \cup {p}
    BY <1>7, <2>2 DEF Waiting
  <2>4. ContractsStay
    BY <1>9 DEF ContractsStay
  <2>5. Promises' = Promises \cup {Promise(p)'}
    BY <1>8, <2>3, <2>4, PromisesPut
  <2>6. Target(p)' = receiver
    <3>1. new \in contracts' /\ \A d \in contracts' : d.id = new.id => d = new
      BY <1>9 DEF TransferInv, UniqueIDs
    <3> QED
      BY <1>6, <1>7, <3>1 DEF Target
  <2> DEFINE q == [id |-> nextTx, from |-> sender, amount |-> amount, fee |-> fee, to |-> receiver]
  <2>7. Promise(p)' = q
    BY <1>7, <2>6 DEF Promise
  <2>8. q.id = nextTx /\ q.from = sender /\ q.amount = amount /\ q.fee = fee /\ q.to = receiver
    OBVIOUS
  <2>9. \A r \in Promises : r.id # nextTx
    <3>1. \A pb \in Waiting : Promise(pb).id = pb.id /\ pb.id # nextTx
      BY <1>5 DEF Promise, Waiting, Fresh
    <3> QED
      BY <3>1, MappingIs
  <2> HIDE DEF q
  <2>10. q \in Promises' \ Promises /\ Promises \subseteq Promises'
         /\ Promises' = Promises \cup {q} /\ \A r \in Promises : r.id # q.id
    BY <2>5, <2>7, <2>8, <2>9
  <2>11. q.amount > 0 /\ q.fee >= 0 /\ q.amount + q.fee <= Ideal!Free(q.from)
    BY <1>2, <1>3, <1>4, <2>8
  <2>12. q.from # q.to
    BY <1>3, <2>8
  <2>13. Collected' = Collected
    BY <1>9, MappingIs
  <2> QED
    BY <2>1, <2>10, <2>11, <2>12, <2>13 DEF Ideal!Promise
<1>10. ASSUME Transfer(nextTx, sender, receiver, amount, fee, pendingTime, ts),
              contracts' = contracts
       PROVE  Ideal!Give
  <2>1. Wealth' = [Wealth EXCEPT ![sender] = @ - amount - fee, ![receiver] = @ + amount]
    <3>1. \A a \in Addr : Worth(a)' = IF a = sender THEN Worth(a) - amount - fee
                                      ELSE IF a = receiver THEN Worth(a) + amount ELSE Worth(a)
      BY <1>2, <1>3, <1>5, <1>10, TransferMovesWorth
    <3> QED
      BY <1>3, <3>1, WealthIs
  <2>2. Waiting' = Waiting
    BY <1>10 DEF Transfer, Pending, Waiting
  <2>3. Promises' = Promises
    <3>1. ContractsStay
      BY <1>10 DEF ContractsStay
    <3> QED
      BY <1>8, <2>2, <3>1, PromisesStay
  <2>4. Collected' = Collected + fee
    BY <1>2, <1>5, <1>10, MappingIs, FeeCharged DEF Transfer, Fresh
  <2>5. amount \in 1..Ideal!Free(sender) /\ fee \in 0..(Ideal!Free(sender) - amount)
    BY <1>2, <1>3, <1>4
  <2>6. Ideal!Move(sender, receiver, amount, fee)
    BY <1>3, <2>1, <2>4 DEF Ideal!Move
  <2> QED
    BY <2>3, <2>5, <2>6 DEF Ideal!Give
<1> QED
  BY <1>3, <1>9, <1>10

(* A contract that is closed keeps its document, so all promises stand.       *)
LEMMA CloseKeepsContracts ==
  ASSUME NEW c \in contracts, NEW status, CloseContract(c, status), c.status = "open",
         TypeOK
  PROVE  ContractsStay
<1> DEFINE closed == [c EXCEPT !.status = status]
<1>1. closed.id = c.id /\ closed.doc = c.doc
  BY DEF TypeOK, TransferContract
<1>2. contracts' = (contracts \ {c}) \cup {closed}
  BY DEF CloseContract
<1> HIDE DEF closed
<1> QED
  BY <1>1, <1>2 DEF ContractsStay

(* A deposit that goes back to its owner is a promise dropped.                *)
LEMMA WithdrawDrops ==
  ASSUME IdealInv, TransferInv', ContractsStay, NEW pb \in Waiting, NEW ts, Withdraw(pb, ts),
         fees' = fees
  PROVE  Promise(pb) \in Promises /\ Ideal!Drop(Promise(pb))
<1>1. Wealth' = Wealth
  <2>1. pb \in pending /\ Countable
    BY IdealFacts DEF Waiting
  <2>2. \A a \in Addr : Worth(a)' = Worth(a)
    BY <2>1, WithdrawKeepsWorth
  <2> QED
    BY <2>2, WealthIs
<1>2. Waiting' = Waiting \ {pb}
  BY DEF Withdraw, Waiting
<1>3. Promises' = Promises \ {Promise(pb)} /\ Promise(pb) \in Promises
  BY <1>2, PromisesTaken, MappingIs DEF IdealInv
<1>4. Collected' = Collected
  BY MappingIs
<1> QED
  BY <1>1, <1>3, <1>4 DEF Ideal!Drop

(* A cancellation drops a promise.                                            *)
LEMMA CancelImplements ==
  ASSUME IdealInv, TransferInv', CancelStep
  PROVE  \E p \in Promises : Ideal!Drop(p)
<1>1. PICK c \in contracts, ts \in Timestamps : OpenContract(c) /\ cancelTransfer(c, ts)
  BY DEF CancelStep
<1>2. PICK pb \in pending : IsPendingOf(pb, c) /\ Withdraw(pb, ts)
  BY <1>1 DEF cancelTransfer
<1>3. pb \in Waiting /\ fees' = fees
  BY <1>1, <1>2 DEF IsPendingOf, Waiting, cancelTransfer
<1>4. ContractsStay
  BY <1>1, CloseKeepsContracts DEF cancelTransfer, OpenContract, IdealInv, TransferInv
<1> QED
  BY <1>2, <1>3, <1>4, WithdrawDrops

(* A withdrawal drops one, or takes a time locked amount that has been given  *)
(* already.                                                                   *)
LEMMA WithdrawImplements ==
  ASSUME IdealInv, TransferInv', NEW kid \in Kid, WithdrawStep(kid)
  PROVE  (\E p \in Promises : Ideal!Drop(p)) \/ UNCHANGED Ideal!idealVars
<1>1. PICK pb \in pending, ts \in Timestamps : Withdraw(pb, ts)
  BY DEF WithdrawStep, balancePendingWithdraw, BalancePendingWithdraw
<1>2. fees' = fees /\ ContractsStay
  BY DEF WithdrawStep, balancePendingWithdraw, ContractsStay
<1>3. CASE pb \in Waiting
  BY <1>1, <1>2, <1>3, WithdrawDrops
<1>4. CASE pb \notin Waiting
  <2>1. Waiting' = Waiting
    BY <1>1, <1>4 DEF Withdraw, Waiting
  <2>2. Promises' = Promises
    BY <1>2, <2>1, PromisesStay DEF IdealInv
  <2>3. \A a \in Addr : Worth(a)' = Worth(a)
    BY <1>1, IdealFacts, WithdrawKeepsWorth
  <2>4. Wealth' = Wealth /\ Collected' = Collected
    BY <1>2, <2>3, WealthIs, MappingIs
  <2> QED
    BY <2>2, <2>4 DEF Ideal!idealVars
<1> QED
  BY <1>3, <1>4

(* An execution keeps a promise, locked or not.                               *)
LEMMA ExecuteImplements ==
  ASSUME IdealInv, TransferInv', ExecuteStep
  PROVE  \E p \in Promises : Ideal!Keep(p)
<1>1. PICK c \in contracts, ts \in Timestamps : OpenContract(c) /\ executeTransfer(c, ts)
  BY DEF ExecuteStep
<1> DEFINE lock == IF c.doc.orderID.kind = "number" THEN c.doc.orderID.secs ELSE 0
           receiver == c.doc.receiver
<1>2. PICK pb \in pending : /\ IsPendingOf(pb, c)
                            /\ TransferPendingBalance(nextTx, pb, c.doc.sender, receiver, lock, ts)
  BY <1>1 DEF executeTransfer
<1>3. TransferInv /\ UniqueIDs /\ TypeOK
  BY DEF IdealInv, TransferInv
<1>4. pb \in Waiting
  BY <1>2 DEF IsPendingOf, Waiting
<1>5. Target(pb) = receiver
  BY <1>2, <1>3, TargetIs
<1>6. c.doc.sender = pb.account
  <2>1. PICK d \in contracts : IsPendingOf(pb, d) /\ d.doc.sender = pb.account
    BY <1>3, <1>4 DEF Waiting, TransferInv, EscrowMatchesContract
  <2>2. d = c
    BY <1>2, <1>3, <2>1 DEF IsPendingOf, UniqueIDs
  <2> QED
    BY <2>1, <2>2
<1>7. receiver \in Addr /\ pb.account \in Addr /\ pb.amount \in Nat \ {0} /\ pb.fee \in Nat
  BY <1>3 DEF TypeOK, TransferContract, TransferDocs, PendingBalance
<1>8. pb.account # receiver
  BY <1>6 DEF IdealInv, Parties
<1>9. ContractsStay
  BY <1>1, <1>3, CloseKeepsContracts DEF executeTransfer, OpenContract
<1>10. Fresh(nextTx) /\ Countable /\ IsFiniteSet(fees) /\ IntAmounts(fees)
  BY IdealFacts
<1> HIDE DEF lock, receiver
<1> DEFINE sender == pb.account
           amount == pb.amount
           fee == pb.fee
<1>11. Wealth' = [Wealth EXCEPT ![sender] = @ - amount - fee, ![receiver] = @ + amount]
  <2>1. \A a \in Addr : Worth(a)' = IF a = pb.account THEN Worth(a) - pb.amount - pb.fee
                                    ELSE IF a = receiver THEN Worth(a) + pb.amount ELSE Worth(a)
    BY <1>2, <1>7, <1>8, <1>10, TransferPendingMovesWorth
  <2> QED
    BY <1>8, <2>1, WealthIs
<1>12. Waiting' = Waiting \ {pb}
  BY <1>2 DEF TransferPendingBalance, Pending, Waiting
<1>13. Promises' = Promises \ {Promise(pb)} /\ Promise(pb) \in Promises
  BY <1>3, <1>4, <1>9, <1>12, PromisesTaken, MappingIs
<1>14. Collected' = Collected + fee
  <2>1. CreateFee(sender, fee, ts, nextTx) /\ fee \in Nat /\ fee \in Int
        /\ \A f \in fees : f.tx # nextTx
    BY <1>2, <1>6, <1>7, <1>10 DEF TransferPendingBalance, Fresh
  <2> HIDE DEF sender, fee
  <2> QED
    BY <1>10, <2>1, MappingIs, FeeCharged
<1>15. /\ Promise(pb).from = sender /\ Promise(pb).to = receiver
       /\ Promise(pb).amount = amount /\ Promise(pb).fee = fee
  BY <1>5 DEF Promise
<1>16. sender # receiver
  BY <1>8
<1> HIDE DEF sender, amount, fee
<1>17. Ideal!Move(sender, receiver, amount, fee)
  BY <1>11, <1>14, <1>16 DEF Ideal!Move
<1>18. Ideal!Keep(Promise(pb))
  BY <1>13, <1>15, <1>17 DEF Ideal!Keep
<1> QED
  BY <1>13, <1>18

(* The parties of a contract differ, whatever happens to it.                  *)
LEMMA PartiesStep ==
  ASSUME IdealInv, [Next]_vars
  PROVE  Parties'
<1>1. CASE TransferStep
  <2>1. PICK kid \in Kid, sender \in Addr, receiver \in Addr, amount \in Amounts,
             orderID \in OrderIDs, asked \in PendingTimes, duration \in Durations,
             extra \in Extras, ts \in Timestamps :
          transfer(kid, sender, receiver, amount, orderID, asked, duration, extra, ts)
    BY <1>1 DEF TransferStep
  <2> QED
    BY <2>1 DEF transfer, CreateContract, TransferDoc, IdealInv, Parties
<1>2. CASE CancelStep \/ ExecuteStep
  <2>1. PICK c \in contracts, status \in {"canceled", "executed"} : CloseContract(c, status)
    BY <1>2 DEF CancelStep, ExecuteStep, cancelTransfer, executeTransfer, OpenContract
  <2> DEFINE closed == [c EXCEPT !.status = status]
  <2>2. closed.doc = c.doc
    BY DEF IdealInv, TransferInv, TypeOK, TransferContract
  <2>3. contracts' = (contracts \ {c}) \cup {closed}
    BY <2>1 DEF CloseContract
  <2> HIDE DEF closed
  <2> QED
    BY <2>2, <2>3 DEF IdealInv, Parties
<1>3. CASE (\E kid \in Kid : WithdrawStep(kid) \/ UnsuspendStep(kid)) \/ SuspendStep \/ UpdateStep
           \/ TickStep \/ UNCHANGED vars
  <2>1. contracts' = contracts
    BY <1>3 DEF WithdrawStep, balancePendingWithdraw, SuspendStep, UnsuspendStep, UpdateStep,
                TickStep, vars
  <2> QED
    BY <2>1 DEF IdealInv, Parties
<1> QED
  BY <1>1, <1>2, <1>3 DEF Next

(* Every step of the system is one of the ideal, or none.                     *)
LEMMA StepImplements ==
  ASSUME IdealInv, TransferInv', [Next]_vars
  PROVE  Ideal!IdealNext \/ UNCHANGED Ideal!idealVars
<1>1. CASE TransferStep
  BY <1>1, TransferImplements DEF Ideal!IdealNext
<1>2. CASE CancelStep
  BY <1>2, CancelImplements DEF Ideal!IdealNext
<1>3. CASE ExecuteStep
  BY <1>3, ExecuteImplements DEF Ideal!IdealNext
<1>4. ASSUME NEW kid \in Kid, WithdrawStep(kid)
      PROVE  Ideal!IdealNext \/ UNCHANGED Ideal!idealVars
  BY <1>4, WithdrawImplements DEF Ideal!IdealNext
<1>5. CASE SuspendStep \/ (\E kid \in Kid : UnsuspendStep(kid)) \/ UpdateStep \/ TickStep
           \/ UNCHANGED vars
  <2>1. UNCHANGED <<bal, pending, fees, contracts>>
    BY <1>5 DEF SuspendStep, UnsuspendStep, UpdateStep, TickStep, vars, balanceVars
  <2>2. Wealth' = Wealth
    BY <2>1, WealthIs DEF Worth, Owned, DepositSum
  <2>3. Promises' = Promises
    BY <2>1 DEF Promises
  <2> QED
    BY <2>1, <2>2, <2>3, MappingIs DEF Ideal!idealVars
<1> QED
  BY <1>1, <1>2, <1>3, <1>4, <1>5 DEF Next

(* The opening ledger is an initial state of the ideal.                       *)
LEMMA InitImplements == Init => Ideal!IdealInit
<1> SUFFICES ASSUME Init PROVE Ideal!IdealInit
  OBVIOUS
<1>1. bal \in InitialBalances /\ pending = {} /\ fees = {}
  BY DEF Init, LedgerInit
<1>2. bal \in [Addr -> Nat]
  BY <1>1, LedgerAssumption
<1>3. AmountSum({}) = 0 /\ DepositSum({}) = 0
  BY FS_EmptySet, AmountSumTake, DepositSumTake DEF IntAmounts, IntDeposits
<1>4. \A a \in Addr : Owned({}, a) = {}
  BY DEF Owned
<1>5. Wealth = bal
  <2>1. \A a \in Addr : Worth(a) = bal[a]
    BY <1>1, <1>2, <1>3, <1>4 DEF Worth
  <2>2. Wealth = [a \in Addr |-> bal[a]]
    BY <2>1, WealthIs
  <2> QED
    BY <1>2, <2>2
<1>6. Collected = 0 /\ Promises = {}
  BY <1>1, <1>3, MappingIs DEF Waiting
<1> QED
  BY <1>1, <1>5, <1>6 DEF Ideal!IdealInit

(* What the refinement needs holds throughout.                                *)
LEMMA IdealInvariant == Spec => [](IdealInv)
<1>1. Init => IdealInv
  BY TransferInvInit, SumsInit DEF IdealInv, Parties, Init, LedgerInit
<1>2. IdealInv /\ [Next]_vars => IdealInv'
  BY TransferInvStep, SumsStep, PartiesStep DEF IdealInv, TransferInv
<1> QED
  BY <1>1, <1>2, PTL DEF Spec

(* Transfers in one step and in several, with deposits, callbacks and time    *)
(* locks, are gifts and promises kept or dropped: for any number of accounts, *)
(* each execution pays exactly what was promised to whom it was promised, at  *)
(* most once, and what is promised is always covered.                         *)
THEOREM ImplementsIdealTransfer == Spec => ImplementsIdeal
<1>1. IdealInv /\ IdealInv' /\ [Next]_vars => [Ideal!IdealNext]_Ideal!idealVars
  BY StepImplements DEF IdealInv
<1> QED
  BY <1>1, InitImplements, IdealInvariant, PTL DEF Spec, ImplementsIdeal, Ideal!IdealSpec
=============================================================================

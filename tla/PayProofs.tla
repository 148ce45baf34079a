----------------------------- MODULE PayProofs -----------------------------
(* Theorems of PaySystem: pays, refunds and prunes of any number of merchants *)
(* and customers, whatever the policies, the amounts and the batch size.      *)
EXTENDS PaySystem, BalanceProofs

-----------------------------------------------------------------------------
(* Sums over pays: of the amounts and of the fees.                            *)

PaySet(S) == IsFiniteSet(S) /\ \A p \in S : p.amount \in Int /\ p.fee \in Int

(* They are integers; a pay less takes its amount and its fee from them.      *)
LEMMA PaySumsTake ==
  ASSUME NEW S, PaySet(S)
  PROVE  /\ Sum(S) \in Int /\ FeeSum(S) \in Int
         /\ S = {} => Sum(S) = 0 /\ FeeSum(S) = 0
         /\ \A x \in S : /\ PaySet(S \ {x})
                         /\ Sum(S \ {x}) = Sum(S) - x.amount /\ FeeSum(S \ {x}) = FeeSum(S) - x.fee
<1> DEFINE f == [p \in S |-> p.fee]
<1>1. f \in [S -> Int] /\ IsFiniteSet(S) /\ IntAmounts(S)
  BY DEF PaySet, IntAmounts
<1>2. \A x \in S : f[x] = x.fee
  OBVIOUS
<1>3. FeeSum(S) = SumFunction(f)
  BY DEF FeeSum
<1> HIDE DEF f
<1>4. FeeSum(S) \in Int /\ (S = {} => FeeSum(S) = 0)
  BY <1>1, <1>3, SumFunctionInt
<1>5. ASSUME NEW x \in S
      PROVE  FeeSum(S \ {x}) = FeeSum(S) - x.fee
  <2> DEFINE e == [p \in S \ {x} |-> p.fee]
  <2>1. e \in [S \ {x} -> Int] /\ \A y \in S \ {x} : e[y] = f[y]
    BY <1>1, <1>2
  <2>2. FeeSum(S \ {x}) = SumFunction(e)
    BY DEF FeeSum
  <2> HIDE DEF e
  <2>3. SumFunction(f) = f[x] + SumFunction(e)
    BY <1>1, <2>1, SumFunctionTake
  <2>4. SumFunction(e) \in Int /\ f[x] = x.fee /\ f[x] \in Int
    BY <1>1, <1>2, <2>1, FS_RemoveElement, SumFunctionInt
  <2> QED
    BY <1>3, <2>2, <2>3, <2>4
<1>6. \A T : Sum(T) = AmountSum(T)
  BY DEF Sum, AmountSum
<1>7. \A x \in S : PaySet(S \ {x})
  BY FS_RemoveElement DEF PaySet
<1> QED
  BY <1>1, <1>4, <1>5, <1>6, <1>7, AmountSumTake

(* A pay more adds its own.                                                   *)
LEMMA PaySumsPut ==
  ASSUME NEW S, PaySet(S), NEW x, x.amount \in Int, x.fee \in Int, x \notin S
  PROVE  /\ PaySet(S \cup {x})
         /\ Sum(S \cup {x}) = Sum(S) + x.amount /\ FeeSum(S \cup {x}) = FeeSum(S) + x.fee
<1>1. PICK T : T = S \cup {x}
  OBVIOUS
<1>2. PaySet(T) /\ x \in T /\ S = T \ {x}
  BY <1>1, FS_AddElement DEF PaySet
<1>3. /\ Sum(T) \in Int /\ FeeSum(T) \in Int
      /\ Sum(S) = Sum(T) - x.amount /\ FeeSum(S) = FeeSum(T) - x.fee
  BY <1>2, PaySumsTake
<1> QED
  BY <1>1, <1>2, <1>3

(* A pay in the place of another one of the same amount and fee.              *)
LEMMA PaySumsChange ==
  ASSUME NEW S, PaySet(S), NEW x \in S, NEW y, y \notin S, y.amount = x.amount, y.fee = x.fee
  PROVE  /\ PaySet((S \ {x}) \cup {y})
         /\ Sum((S \ {x}) \cup {y}) = Sum(S) /\ FeeSum((S \ {x}) \cup {y}) = FeeSum(S)
<1>1. PICK rest : rest = S \ {x}
  OBVIOUS
<1>2. /\ PaySet(rest) /\ Sum(rest) = Sum(S) - x.amount /\ FeeSum(rest) = FeeSum(S) - x.fee
      /\ Sum(S) \in Int /\ FeeSum(S) \in Int
  BY <1>1, PaySumsTake
<1>3. x.amount \in Int /\ x.fee \in Int
  BY DEF PaySet
<1>4. /\ PaySet(rest \cup {y})
      /\ Sum(rest \cup {y}) = Sum(rest) + y.amount /\ FeeSum(rest \cup {y}) = FeeSum(rest) + y.fee
  BY <1>1, <1>2, <1>3, PaySumsPut
<1> QED
  BY <1>1, <1>2, <1>3, <1>4

(* A batch and the rest.                                                      *)
LEMMA PaySumsSplit ==
  ASSUME NEW S, PaySet(S), NEW P, P \subseteq S
  PROVE  /\ PaySet(P) /\ PaySet(S \ P)
         /\ Sum(P) \in Int /\ FeeSum(P) \in Int
         /\ Sum(S \ P) = Sum(S) - Sum(P) /\ FeeSum(S \ P) = FeeSum(S) - FeeSum(P)
<1> DEFINE f == [p \in S |-> p.fee]
           part == [p \in P |-> p.fee]
           rest == [p \in S \ P |-> p.fee]
<1>1. f \in [S -> Int] /\ part \in [P -> Int] /\ rest \in [S \ P -> Int]
  BY DEF PaySet
<1>2. (\A y \in P : part[y] = f[y]) /\ (\A y \in S \ P : rest[y] = f[y])
  OBVIOUS
<1>3. /\ IsFiniteSet(S) /\ IsFiniteSet(P) /\ IsFiniteSet(S \ P) /\ IntAmounts(S)
      /\ PaySet(P) /\ PaySet(S \ P)
  BY FS_Subset DEF PaySet, IntAmounts
<1>4. /\ FeeSum(S) = SumFunction(f) /\ FeeSum(P) = SumFunction(part)
      /\ FeeSum(S \ P) = SumFunction(rest)
  BY DEF FeeSum
<1> HIDE DEF f, part, rest
<1>5. SumFunction(f) = SumFunction(part) + SumFunction(rest)
  <2>1. IsFiniteSet(S) /\ P \in SUBSET S
    BY <1>3
  <2> QED
    BY ONLY <1>1, <1>2, <2>1, SumFunctionSplit
<1>6. SumFunction(f) \in Int /\ SumFunction(part) \in Int /\ SumFunction(rest) \in Int
  BY <1>1, <1>3, SumFunctionInt
<1>7. \A T : Sum(T) = AmountSum(T)
  BY DEF Sum, AmountSum
<1>8. /\ AmountSum(S) \in Int /\ AmountSum(P) \in Int /\ AmountSum(S \ P) \in Int
      /\ AmountSum(S) = AmountSum(P) + AmountSum(S \ P)
  BY <1>3, AmountSumSplit
<1> QED
  BY <1>3, <1>4, <1>5, <1>6, <1>7, <1>8

-----------------------------------------------------------------------------
(* CalcFee charges for a pay what FeeDue says, under any policy.              *)
LEMMA CalcFeeDue ==
  ASSUME token.policy \in FeePolicy, NEW merchant, NEW amount \in Nat \ {0}
  PROVE  FeeDue(CalcFee(merchant, "pay", amount), merchant, amount)
<1>1. PICK rate : rate = token.policy.rates["pay"]
  OBVIOUS
<1>2. PICK num, den, max : num = rate.num /\ den = rate.den /\ max = rate.max
  OBVIOUS
<1>3. num \in Int /\ den \in Nat \ {0} /\ max \in Int
  BY <1>1, <1>2 DEF FeePolicy, FeeRate, FeeFn
<1>4. PICK due : due = amount * num
  OBVIOUS
<1>5. PICK fee : fee = due \div den
  OBVIOUS
<1>6. due \in Int
  BY <1>3, <1>4
<1>7. fee \in Int /\ fee * den <= due /\ due < (fee + 1) * den
  BY <1>3, <1>5, <1>6
<1>8. PICK free : free = (~token.policy.installed \/ merchant \in {token.genesis, token.policy.target})
  OBVIOUS
<1>9. PICK charged : charged = CalcFee(merchant, "pay", amount)
  OBVIOUS
<1>10. charged = IF free \/ fee < 0 THEN 0 ELSE IF max > 0 /\ fee > max THEN max ELSE fee
  BY <1>1, <1>2, <1>4, <1>5, <1>8, <1>9 DEF CalcFee, MulRat
<1>11. ASSUME ~free
       PROVE  /\ charged >= 0
              /\ max > 0 => charged <= max
              /\ charged > 0 => charged * den <= due
              /\ (charged + 1) * den <= due => max > 0 /\ charged = max
  <2>1. CASE fee < 0
    <3>1. charged = 0
      BY <1>10, <2>1
    <3>2. (fee + 1) * den <= 0
      BY <1>3, <1>7, <2>1
    <3>3. ~((0 + 1) * den <= due)
      BY <1>3, <1>6, <1>7, <3>2
    <3> QED
      BY <1>3, <3>1, <3>3
  <2>2. CASE ~(fee < 0) /\ max > 0 /\ fee > max
    <3>1. charged = max
      BY <1>10, <1>11, <2>2
    <3>2. max * den <= fee * den
      BY <1>3, <1>7, <2>2
    <3>3. max * den <= due
      BY <1>3, <1>6, <1>7, <3>2
    <3> QED
      BY <1>3, <2>2, <3>1, <3>3
  <2>3. CASE ~(fee < 0) /\ ~(max > 0 /\ fee > max)
    <3>1. charged = fee
      BY <1>10, <1>11, <2>3
    <3>2. ~((fee + 1) * den <= due)
      BY <1>3, <1>6, <1>7
    <3> QED
      BY <1>3, <1>7, <2>3, <3>1, <3>2
  <2> QED
    BY <2>1, <2>2, <2>3
<1>12. free => charged = 0
  BY <1>10
<1> QED
  BY <1>1, <1>2, <1>4, <1>8, <1>9, <1>11, <1>12 DEF FeeDue

(* Refund fees: the share of the fee a refund returns is never more than its  *)
(* proportion, and all of it with the whole amount.                           *)
LEMMA RefundFeeShare ==
  ASSUME NEW parent, parent.amount \in Nat \ {0}, parent.fee \in Nat,
         NEW amount \in Nat \ {0}, amount <= parent.amount
  PROVE  /\ RefundFee(parent, amount) \in Nat
         /\ RefundFee(parent, amount) * parent.amount <= amount * parent.fee
         /\ amount = parent.amount => RefundFee(parent, amount) = parent.fee
<1>1. PICK whole, fee : whole = parent.amount /\ fee = parent.fee
  OBVIOUS
<1>2. whole \in Nat \ {0} /\ fee \in Nat /\ amount <= whole
  BY <1>1
<1>3. CASE amount = whole
  <2>1. RefundFee(parent, amount) = fee
    BY <1>1, <1>3 DEF RefundFee
  <2>2. fee * whole <= whole * fee
    BY <1>2
  <2> QED
    BY <1>1, <1>2, <1>3, <2>1, <2>2
<1>4. CASE amount # whole
  <2>1. PICK product : product = amount * fee
    OBVIOUS
  <2>2. product \in Nat
    BY <1>2, <2>1
  <2>3. RefundFee(parent, amount) = product \div whole
    BY <1>1, <1>4, <2>1 DEF RefundFee, MulRat
  <2>4. PICK share : share = product \div whole
    OBVIOUS
  <2>5. share \in Nat /\ share * whole <= product
    BY <1>2, <2>2, <2>4
  <2> QED
    BY <1>1, <1>4, <2>1, <2>3, <2>4, <2>5
<1> QED
  BY <1>3, <1>4

(* A share of the fee that is not more than the share of the amount.          *)
InProportion(returned, refunded, fee, whole) == returned * whole <= refunded * fee

(* Shares given one after the other stay within the fee, however rounded.     *)
LEMMA SharesAddUp ==
  ASSUME NEW whole \in Nat \ {0}, NEW fee \in Nat, NEW refunded \in Nat, NEW returned \in Int,
         InProportion(returned, refunded, fee, whole), NEW amount \in Nat, NEW share \in Int,
         InProportion(share, amount, fee, whole), refunded + amount <= whole
  PROVE  /\ InProportion(returned + share, refunded + amount, fee, whole)
         /\ returned + share <= fee
<1>1. (returned + share) * whole = returned * whole + share * whole
  OBVIOUS
<1>2. (refunded + amount) * fee = refunded * fee + amount * fee
  OBVIOUS
<1>3. /\ returned * whole \in Int /\ share * whole \in Int
      /\ refunded * fee \in Int /\ amount * fee \in Int
  OBVIOUS
<1>4. (returned + share) * whole <= (refunded + amount) * fee
  BY <1>1, <1>2, <1>3 DEF InProportion
<1>5. (refunded + amount) * fee <= whole * fee
  OBVIOUS
<1>6. PICK all : all = returned + share
  OBVIOUS
<1>7. all \in Int /\ all * whole <= whole * fee
  BY <1>4, <1>5, <1>6
<1>8. ASSUME all > fee
      PROVE  FALSE
  <2>1. all >= fee + 1
    BY <1>7, <1>8
  <2>2. (all - fee) * whole >= whole
    BY <1>7, <2>1
  <2>3. all * whole - fee * whole >= whole
    BY <1>7, <2>2
  <2> QED
    BY <1>7, <2>3
<1> QED
  BY <1>4, <1>6, <1>7, <1>8 DEF InProportion

-----------------------------------------------------------------------------
(* The inductive invariant.  The form of the documents first.                 *)

BalanceLog == [addr : Addr, ts : Nat, diff : Int, fee : {0}]
FeeDocument == [account : Addr, amount : Int \ {0}, ts : Nat, tx : Nat]

ClockOK == now \in Nat /\ now >= StartTime /\ nextTx \in Nat \ {0}
TokenOK == token \in Token /\ account \in [Addr -> Account]
PendingsOK == pending \subseteq PendingBalance /\ \A pb \in pending : pb.id < nextTx

(* A deposit is of the sender of its contract, who is not the receiver.       *)
ContractsOK ==
  /\ contracts \subseteq PayContract
  /\ \A c \in contracts : /\ c.id < nextTx /\ c.doc.pb = c.id
                          /\ c.doc.sender # c.doc.receiver
  /\ \A c \in contracts, pb \in pending : IsPendingOf(pb, c) => pb.account = c.doc.sender
LogsOK == blog \subseteq BalanceLog
FeesOK == fees \subseteq FeeDocument /\ \A f \in fees : f.tx < nextTx

Refunds(tx) == {r \in pays : r.parent = tx}

PaysOK ==
  /\ IsFiniteSet(pays) /\ pays \subseteq PayRecord
  /\ \A p \in pays : /\ p.parent = 0 <=> p.amount > 0
                     /\ p.tx > 0 /\ p.tx < nextTx /\ p.parent < nextTx
                     /\ p.merchant # p.rid
                     /\ p.parent = 0 => p.fee >= 0
  /\ \A p, q \in pays : p.tx = q.tx => p = q

(* What refunds have returned of a pay: the fee in proportion, at most.       *)
RefundsOf(p) ==
  /\ p.parent = 0 => /\ p.refunded = -Sum(Refunds(p.tx)) /\ p.refunded <= p.amount
                     /\ -FeeSum(Refunds(p.tx)) * p.amount <= p.refunded * p.fee
                     /\ -FeeSum(Refunds(p.tx)) <= p.fee
  /\ p.parent # 0 => p.refunded = 0 /\ Refunds(p.tx) = {}
RefundsOK == \A p \in pays : RefundsOf(p)

Documents ==
  /\ ClockOK /\ TokenOK /\ PendingsOK /\ ContractsOK /\ LogsOK /\ FeesOK /\ PaysOK /\ RefundsOK
  /\ Countable /\ AuditTrail

(* What has been pruned lies behind the cursor, what an endorsed prune adds   *)
(* up before it.  The balance it has read is still the one of its account;    *)
(* the fee document it will store has an id of its own.                       *)
PrunesOK ==
  /\ payCursor \in [Addr -> Nat]
  /\ prunedPays \subseteq {p.tx : p \in pays}
  /\ \A p \in pays : p.tx \in prunedPays => p.ts <= payCursor[p.merchant]

EndorsementOK(e) ==
  /\ e \in Endorsement /\ e.batch # {} /\ e.batch \subseteq pays
  /\ e.bal = bal[e.account]
  /\ \A p \in e.batch : p.merchant = e.account /\ payCursor[e.account] < p.ts
EndorsedOK ==
  /\ \A e \in endorsed : EndorsementOK(e)
  /\ \A e \in endorsed : FeeSum(e.batch) # 0 => e.tx < nextTx /\ \A f \in fees : f.tx # e.tx
  /\ \A e, d \in endorsed : FeeSum(e.batch) # 0 /\ FeeSum(d.batch) # 0 /\ e.tx = d.tx => e = d

Inv == Documents /\ PrunesOK /\ EndorsedOK

(* What it says of the numbers in the state.                                  *)
LEMMA InvFacts ==
  ASSUME Inv
  PROVE  /\ ClockOK /\ TokenOK /\ PendingsOK /\ ContractsOK /\ LogsOK /\ FeesOK /\ PaysOK
         /\ RefundsOK /\ Countable /\ AuditTrail /\ PrunesOK /\ EndorsedOK
         /\ nextTx \in Nat \ {0} /\ now \in Nat /\ now >= StartTime
         /\ bal \in [Addr -> Int] /\ token.policy \in FeePolicy /\ Fresh(nextTx)
<1>1. /\ ClockOK /\ TokenOK /\ PendingsOK /\ ContractsOK /\ LogsOK /\ FeesOK /\ PaysOK
      /\ RefundsOK /\ Countable /\ AuditTrail /\ PrunesOK /\ EndorsedOK
  BY DEF Inv, Documents
<1>2. /\ nextTx \in Nat \ {0} /\ now \in Nat /\ now >= StartTime
      /\ bal \in [Addr -> Int] /\ token.policy \in FeePolicy
  BY <1>1 DEF ClockOK, TokenOK, Token, Countable
<1>3. \A pb \in pending : pb.id \in Nat /\ pb.id < nextTx
  BY <1>1 DEF PendingsOK, PendingBalance
<1>4. \A f \in fees : f.tx \in Nat /\ f.tx < nextTx
  BY <1>1 DEF FeesOK, FeeDocument
<1>5. Fresh(nextTx)
  BY <1>2, <1>3, <1>4 DEF Fresh
<1> QED
  BY <1>1, <1>2, <1>5

(* What a pay is made of.                                                     *)
LEMMA PayForm ==
  ASSUME PaysOK, NEW p \in pays
  PROVE  /\ p.tx \in Nat \ {0} /\ p.tx < nextTx /\ p.merchant \in Addr /\ p.rid \in Addr
         /\ p.merchant # p.rid /\ p.amount \in Int \ {0} /\ p.fee \in Int
         /\ p.refunded \in Nat /\ p.parent \in Nat /\ p.parent < nextTx /\ p.ts \in Nat
         /\ p.parent = 0 <=> p.amount > 0
         /\ p.parent = 0 => p.fee >= 0
BY DEF PaysOK, PayRecord

(* Any part of the pays adds up.                                              *)
LEMMA PaysAddUp ==
  ASSUME PaysOK, NEW S, S \subseteq pays
  PROVE  PaySet(S)
BY PayForm, FS_Subset DEF PaySet, PaysOK

-----------------------------------------------------------------------------
(* What a step other than a prune keeps, and what it leaves to the prunes.    *)

IDsGrow == nextTx \in Nat \ {0} /\ nextTx' \in {nextTx, nextTx + 1}

PrunesStay ==
  /\ UNCHANGED <<payCursor, prunedPays, fees>>
  /\ \A p \in pays : \E q \in pays' : q.tx = p.tx
  /\ \A q \in pays' : \/ q.tx = nextTx
                      \/ \E p \in pays : p.tx = q.tx /\ p.merchant = q.merchant /\ p.ts = q.ts

(* Money is taken from accounts that have it.                                 *)
Solvent == \A a \in Addr : bal'[a] < bal[a] => bal'[a] >= 0

Kept == Documents' /\ IDsGrow /\ PrunesStay /\ Solvent

(* Documents that stay, while ids grow.                                       *)
LEMMA PendingsStay ==
  ASSUME PendingsOK, IDsGrow, pending' \subseteq pending
  PROVE  PendingsOK'
<1>1. \A pb \in pending : pb.id \in Nat
  BY DEF PendingsOK, PendingBalance
<1> QED
  BY <1>1 DEF PendingsOK, IDsGrow

(* What a contract is made of.                                                *)
LEMMA ContractForm ==
  ASSUME ContractsOK, NEW c \in contracts
  PROVE  /\ c.id \in Nat /\ c.id < nextTx /\ c.doc.pb = c.id
         /\ c.doc.sender \in Addr /\ c.doc.receiver \in Addr /\ c.doc.sender # c.doc.receiver
         /\ c.expiry \in Nat
BY DEF ContractsOK, PayContract

(* Contracts that stay.                                                       *)
LEMMA ContractsStay ==
  ASSUME ContractsOK, IDsGrow, contracts' = contracts, pending' \subseteq pending
  PROVE  ContractsOK'
<1>1. \A c \in contracts : c.id \in Nat /\ c.id < nextTx
  BY ContractForm
<1>2. (\A c \in contracts : c.id < nextTx)'
  BY <1>1 DEF IDsGrow
<1> QED
  BY <1>2 DEF ContractsOK, IsPendingOf

(* A closed contract is the same contract in another state.                   *)
LEMMA ContractsClosed ==
  ASSUME ContractsOK, IDsGrow, NEW c \in contracts, NEW status \in {"open", "executed", "canceled"},
         CloseContract(c, status), pending' \subseteq pending
  PROVE  ContractsOK'
<1>1. PICK closed : closed = [c EXCEPT !.status = status]
  OBVIOUS
<1>2. closed \in PayContract /\ closed.id = c.id /\ closed.doc = c.doc
  BY <1>1 DEF ContractsOK, PayContract
<1>3. contracts' = (contracts \ {c}) \cup {closed}
  BY <1>1 DEF CloseContract
<1>4. \A d \in contracts : d.id \in Nat /\ d.id < nextTx
  BY ContractForm
<1>5. \A d \in contracts' : \E b \in contracts : d.id = b.id /\ d.doc = b.doc
  BY <1>2, <1>3
<1>6. (\A d \in contracts : /\ d.id < nextTx /\ d.doc.pb = d.id
                            /\ d.doc.sender # d.doc.receiver)'
  BY <1>4, <1>5 DEF ContractsOK, IDsGrow
<1>7. (\A d \in contracts, pb \in pending : IsPendingOf(pb, d) => pb.account = d.doc.sender)'
  BY <1>5 DEF ContractsOK, IsPendingOf
<1> QED
  BY <1>2, <1>3, <1>6, <1>7 DEF ContractsOK

(* Fees and logs.                                                             *)
LEMMA FeesStay ==
  ASSUME FeesOK, IDsGrow, fees' = fees
  PROVE  FeesOK'
<1>1. \A f \in fees : f.tx \in Nat
  BY DEF FeesOK, FeeDocument
<1> QED
  BY <1>1 DEF FeesOK, IDsGrow

(* A log of a step.                                                           *)
LEMMA LogPut ==
  ASSUME LogsOK, NEW a \in Addr, NEW ts \in Nat, NEW diff \in Int,
         PutBalanceLogs({Log(a, ts, diff, 0)})
  PROVE  LogsOK'
<1>1. Log(a, ts, diff, 0) \in BalanceLog
  BY DEF Log, BalanceLog
<1> QED
  BY <1>1 DEF LogsOK, PutBalanceLogs

(* Pays that stay, with what has been refunded of them.                       *)
LEMMA PaysStay ==
  ASSUME PaysOK, RefundsOK, IDsGrow, pays' = pays
  PROVE  PaysOK' /\ RefundsOK'
<1>1. \A p \in pays : p.tx \in Nat /\ p.tx < nextTx /\ p.parent \in Nat /\ p.parent < nextTx
  BY PayForm
<1>2. (\A p \in pays : p.tx < nextTx /\ p.parent < nextTx)'
  BY <1>1 DEF IDsGrow
<1>3. PaysOK'
  BY <1>2 DEF PaysOK
<1> QED
  BY <1>3 DEF RefundsOK, RefundsOf, Refunds

(* The clock and the token.                                                   *)
LEMMA RestStays ==
  ASSUME ClockOK, TokenOK, IDsGrow, UNCHANGED <<now, token, account>>
  PROVE  ClockOK' /\ TokenOK'
BY DEF ClockOK, TokenOK, IDsGrow

(* Where one balance changes, solvency is a matter of that account.           *)
LEMMA SolventOne ==
  ASSUME bal \in [Addr -> Int], NEW a \in Addr, NEW d \in Int, bal' = [bal EXCEPT ![a] = bal[a] + d],
         d >= 0 \/ bal[a] + d >= 0
  PROVE  Solvent
BY DEF Solvent

-----------------------------------------------------------------------------
(* What pays not yet collected bring: to their merchants, and in fees.        *)

Waiting(S) == {p \in S : p.tx \notin prunedPays}
Owed(S, a) == {p \in Waiting(S) : p.merchant = a}
Due(S, a) == Sum(Owed(S, a)) - FeeSum(Owed(S, a))
Charge(S) == FeeSum(Waiting(S))

(* The sums are integers.                                                     *)
LEMMA DueInt ==
  ASSUME NEW S, PaySet(S)
  PROVE  /\ Charge(S) \in Int /\ PaySet(Waiting(S))
         /\ \A a : Due(S, a) \in Int /\ PaySet(Owed(S, a))
<1>1. PaySet(Waiting(S)) /\ Charge(S) \in Int
  <2>1. Waiting(S) \subseteq S
    BY DEF Waiting
  <2> QED
    BY <2>1, PaySumsSplit DEF Charge
<1>2. ASSUME NEW a
      PROVE  Due(S, a) \in Int /\ PaySet(Owed(S, a))
  <2>1. Owed(S, a) \subseteq S
    BY DEF Owed, Waiting
  <2>2. PICK T : T = Owed(S, a)
    OBVIOUS
  <2>3. PaySet(T) /\ Sum(T) \in Int /\ FeeSum(T) \in Int
    BY <2>1, <2>2, PaySumsSplit
  <2> QED
    BY <2>2, <2>3 DEF Due
<1> QED
  BY <1>1, <1>2

(* A pay more.                                                                *)
LEMMA DuePut ==
  ASSUME NEW S, PaySet(S), NEW x, x.amount \in Int, x.fee \in Int, x \notin S,
         x.tx \notin prunedPays
  PROVE  /\ PaySet(S \cup {x}) /\ Charge(S \cup {x}) = Charge(S) + x.fee
         /\ \A a : Due(S \cup {x}, a) = Due(S, a) + (IF a = x.merchant THEN x.amount - x.fee ELSE 0)
<1>1. PICK T : T = S \cup {x}
  OBVIOUS
<1>2. PaySet(T)
  BY <1>1, PaySumsPut
<1>3. Waiting(T) = Waiting(S) \cup {x} /\ x \notin Waiting(S) /\ PaySet(Waiting(S))
  BY <1>1, DueInt DEF Waiting
<1>4. Charge(T) = Charge(S) + x.fee
  BY <1>3, PaySumsPut DEF Charge
<1>5. ASSUME NEW a
      PROVE  Due(T, a) = Due(S, a) + (IF a = x.merchant THEN x.amount - x.fee ELSE 0)
  <2>1. PICK old : old = Owed(S, a)
    OBVIOUS
  <2>2. /\ PaySet(old) /\ x \notin old /\ Due(S, a) = Sum(old) - FeeSum(old)
        /\ Sum(old) \in Int /\ FeeSum(old) \in Int
    <3>1. PaySet(old) /\ x \notin old
      BY <1>3, <2>1, DueInt DEF Owed
    <3>2. Due(S, a) = Sum(old) - FeeSum(old)
      BY <2>1 DEF Due
    <3> QED
      BY <3>1, <3>2, PaySumsTake
  <2>3. CASE a = x.merchant
    <3>1. Owed(T, a) = old \cup {x}
      BY <1>3, <2>1, <2>3 DEF Owed
    <3>2. /\ Sum(old \cup {x}) = Sum(old) + x.amount /\ FeeSum(old \cup {x}) = FeeSum(old) + x.fee
      BY <2>2, PaySumsPut
    <3>3. Due(T, a) = (Sum(old) + x.amount) - (FeeSum(old) + x.fee)
      BY <3>1, <3>2 DEF Due
    <3> QED
      BY <2>2, <2>3, <3>3
  <2>4. CASE a # x.merchant
    <3>1. Owed(T, a) = old
      BY <1>3, <2>1, <2>4 DEF Owed
    <3> QED
      BY <2>2, <2>4, <3>1 DEF Due
  <2> QED
    BY <2>3, <2>4
<1> QED
  BY <1>1, <1>2, <1>4, <1>5

(* A pay in the place of another one that brings the same.                    *)
LEMMA DueChanged ==
  ASSUME NEW S, PaySet(S), NEW x \in S, NEW y, y \notin S, y.amount = x.amount, y.fee = x.fee,
         y.tx = x.tx, y.merchant = x.merchant
  PROVE  /\ PaySet((S \ {x}) \cup {y}) /\ Charge((S \ {x}) \cup {y}) = Charge(S)
         /\ \A a : Due((S \ {x}) \cup {y}, a) = Due(S, a)
<1>1. PICK T : T = (S \ {x}) \cup {y}
  OBVIOUS
<1>2. PaySet(T)
  BY <1>1, PaySumsChange
<1>3. PaySet(Waiting(S)) /\ \A a : PaySet(Owed(S, a))
  BY DueInt
<1>4. CASE x.tx \in prunedPays
  <2>1. Waiting(T) = Waiting(S)
    BY <1>1, <1>4 DEF Waiting
  <2> QED
    BY <1>1, <1>2, <2>1 DEF Charge, Due, Owed
<1>5. CASE x.tx \notin prunedPays
  <2>1. Waiting(T) = (Waiting(S) \ {x}) \cup {y} /\ x \in Waiting(S) /\ y \notin Waiting(S)
    BY <1>1, <1>5 DEF Waiting
  <2>2. Charge(T) = Charge(S)
    BY <1>3, <2>1, PaySumsChange DEF Charge
  <2>3. ASSUME NEW a
        PROVE  Due(T, a) = Due(S, a)
    <3>1. CASE a = x.merchant
      <4>1. PICK old : old = Owed(S, a)
        OBVIOUS
      <4>2. Owed(T, a) = (old \ {x}) \cup {y} /\ x \in old /\ y \notin old
        BY <2>1, <3>1, <4>1 DEF Owed
      <4>3. PaySet(old)
        BY <1>3, <4>1
      <4>4. /\ Sum((old \ {x}) \cup {y}) = Sum(old) /\ FeeSum((old \ {x}) \cup {y}) = FeeSum(old)
        BY <4>2, <4>3, PaySumsChange
      <4> QED
        BY <4>1, <4>2, <4>4 DEF Due
    <3>2. CASE a # x.merchant
      <4>1. Owed(T, a) = Owed(S, a)
        BY <2>1, <3>2 DEF Owed
      <4> QED
        BY <4>1 DEF Due
    <3> QED
      BY <3>1, <3>2
  <2> QED
    BY <1>1, <1>2, <2>2, <2>3
<1> QED
  BY <1>4, <1>5

-----------------------------------------------------------------------------
(* The mapping to IdealPay.                                                   *)

Sale(p) ==
  [id |-> p.tx, buyer |-> p.rid, seller |-> p.merchant, amount |-> p.amount, fee |-> p.fee,
   left |-> p.amount - p.refunded, feeLeft |-> p.fee + FeeSum(Refunds(p.tx))]
Sold == {p \in pays : p.parent = 0}

Value(a) == Worth(a) + Due(pays, a)

IdealStep == Ideal!IdealNext \/ UNCHANGED Ideal!idealVars

(* Deposits for pays carry no fee: what they hold is their amounts.           *)
LEMMA WealthIs ==
  ASSUME PendingsOK, Countable, PaysOK
  PROVE  /\ Wealth = [a \in Addr |-> Value(a)]
         /\ Sales = {Sale(p) : p \in Sold}
         /\ Sum(fees) + FeeSum(Uncollected) = AmountSum(fees) + Charge(pays)
<1>1. ASSUME NEW a \in Addr
      PROVE  /\ Sum({pb \in pending : pb.account = a}) = DepositSum(Owned(pending, a))
             /\ DepositSum(Owned(pending, a)) \in Int
  <2>1. \A pb \in pending : pb.fee = 0 /\ pb.amount \in Nat
    BY DEF PendingsOK, PendingBalance
  <2>2. PICK own : own = Owned(pending, a)
    OBVIOUS
  <2>3. [pb \in own |-> pb.amount + pb.fee] = [pb \in own |-> pb.amount]
    BY <2>1, <2>2 DEF Owned
  <2>4. IsFiniteSet(own) /\ IntDeposits(own)
    BY <2>2, FS_Subset DEF Owned, Countable, IntDeposits
  <2>5. DepositSum(own) \in Int
    BY <2>4, DepositSumTake
  <2> QED
    BY <2>2, <2>3, <2>5 DEF Sum, DepositSum, Owned
<1>2. Uncollected = Waiting(pays) /\ \A a : {p \in Uncollected : p.merchant = a} = Owed(pays, a)
  BY DEF Uncollected, Waiting, Owed
<1>3. PaySet(pays)
  BY PaysAddUp
<1>4. ASSUME NEW a \in Addr
      PROVE  Wealth[a] = Value(a)
  <2>1. PICK own, due, charge : /\ own = DepositSum(Owned(pending, a))
                                /\ due = Sum(Owed(pays, a)) /\ charge = FeeSum(Owed(pays, a))
    OBVIOUS
  <2>2. Wealth[a] = bal[a] + own + due - charge
    BY <1>1, <1>2, <2>1 DEF Wealth
  <2>3. PICK owed : owed = Owed(pays, a)
    OBVIOUS
  <2>4. PaySet(owed)
    BY <1>3, <2>3, DueInt
  <2>5. bal[a] \in Int /\ own \in Int /\ due \in Int /\ charge \in Int
    BY <1>1, <2>1, <2>3, <2>4, PaySumsTake DEF Countable
  <2>6. Value(a) = (bal[a] + own) + (due - charge)
    BY <2>1 DEF Value, Worth, Due
  <2> QED
    BY <2>2, <2>5, <2>6
<1>5. DOMAIN Wealth = Addr /\ Wealth = [a \in Addr |-> Wealth[a]]
  BY DEF Wealth
<1>6. Sales = {Sale(p) : p \in Sold}
  BY DEF Sales, Sale, Sold, Refunds
<1>7. Sum(fees) + FeeSum(Uncollected) = AmountSum(fees) + Charge(pays)
  BY <1>2 DEF Sum, AmountSum, Charge
<1> QED
  BY <1>4, <1>5, <1>6, <1>7

(* The same after a step.                                                     *)
LEMMA WealthNext ==
  (PendingsOK /\ Countable /\ PaysOK =>
     /\ Wealth = [a \in Addr |-> Value(a)]
     /\ Sales = {Sale(p) : p \in Sold}
     /\ Sum(fees) + FeeSum(Uncollected) = AmountSum(fees) + Charge(pays))'
<1>1. PendingsOK /\ Countable /\ PaysOK =>
        /\ Wealth = [a \in Addr |-> Value(a)]
        /\ Sales = {Sale(p) : p \in Sold}
        /\ Sum(fees) + FeeSum(Uncollected) = AmountSum(fees) + Charge(pays)
  BY WealthIs
<1> QED
  BY <1>1, PTL

(* A step that moves no money between what is counted, and no sales.          *)
LEMMA IdealStays ==
  ASSUME Documents, Documents', Sales' = Sales, \A a \in Addr : Value(a)' = Value(a),
         AmountSum(fees') + Charge(pays)' = AmountSum(fees) + Charge(pays)
  PROVE  IdealStep
<1>1. /\ PendingsOK /\ Countable /\ PaysOK /\ PendingsOK' /\ Countable' /\ PaysOK'
  BY DEF Documents
<1>2. /\ Wealth' = Wealth
      /\ (Sum(fees) + FeeSum(Uncollected))' = Sum(fees) + FeeSum(Uncollected)
  BY <1>1, WealthIs, WealthNext
<1> QED
  BY <1>2 DEF IdealStep, Ideal!idealVars

-----------------------------------------------------------------------------
(* A new pay.                                                                 *)

NewPay(p) ==
  /\ p \in PayRecord /\ p.tx = nextTx /\ p.parent = 0 /\ p.amount > 0 /\ p.fee >= 0
  /\ p.refunded = 0 /\ p.merchant # p.rid

(* Pays keep their form, and their refunds.                                   *)
LEMMA PaysPut ==
  ASSUME PaysOK, RefundsOK, nextTx \in Nat \ {0}, nextTx' = nextTx + 1,
         NEW p, NewPay(p), pays' = pays \cup {p}
  PROVE  /\ PaysOK' /\ RefundsOK'
         /\ \A q \in pays : Refunds(q.tx)' = Refunds(q.tx)
         /\ Refunds(p.tx)' = {} /\ FeeSum({}) = 0
<1>1. \A q \in pays : /\ q.tx \in Nat \ {0} /\ q.tx < nextTx
                      /\ q.parent \in Nat /\ q.parent < nextTx
  BY PayForm
<1>2. PaysOK'
  <2>1. IsFiniteSet(pays')
    BY FS_AddElement DEF PaysOK
  <2>2. pays' \subseteq PayRecord
    BY DEF PaysOK, NewPay
  <2>3. (\A q \in pays : /\ q.parent = 0 <=> q.amount > 0
                         /\ q.tx > 0 /\ q.tx < nextTx /\ q.parent < nextTx
                         /\ q.merchant # q.rid
                         /\ q.parent = 0 => q.fee >= 0)'
    <3>1. ASSUME NEW q \in pays
          PROVE  /\ q.parent = 0 <=> q.amount > 0
                 /\ q.tx > 0 /\ q.tx < nextTx + 1 /\ q.parent < nextTx + 1
                 /\ q.merchant # q.rid
                 /\ q.parent = 0 => q.fee >= 0
      BY <1>1 DEF PaysOK
    <3>2. /\ p.parent = 0 <=> p.amount > 0
          /\ p.tx > 0 /\ p.tx < nextTx + 1 /\ p.parent < nextTx + 1
          /\ p.merchant # p.rid
          /\ p.parent = 0 => p.fee >= 0
      BY DEF NewPay
    <3> QED
      BY <3>1, <3>2
  <2>4. (\A q, r \in pays : q.tx = r.tx => q = r)'
    BY <1>1 DEF PaysOK, NewPay
  <2> QED
    BY <2>1, <2>2, <2>3, <2>4 DEF PaysOK
<1>3. \A q \in pays : Refunds(q.tx)' = Refunds(q.tx)
  BY <1>1 DEF Refunds, NewPay
<1>4. Refunds(p.tx)' = {}
  BY <1>1 DEF Refunds, NewPay
<1>5. PaySet({})
  BY FS_EmptySet DEF PaySet
<1>6. Sum({}) = 0 /\ FeeSum({}) = 0
  BY <1>5, PaySumsTake
<1>7. \A q \in pays : RefundsOf(q)'
  BY <1>3 DEF RefundsOK, RefundsOf
<1>8. RefundsOf(p)'
  <2>1. p.parent = 0 /\ p.refunded = 0 /\ p.amount \in Nat \ {0} /\ p.fee \in Nat
    BY DEF NewPay, PayRecord
  <2>2. PICK sum, returned : /\ sum = Sum(Refunds(p.tx)') /\ sum \in Int /\ sum <= 0 /\ sum >= 0
                             /\ returned = -FeeSum(Refunds(p.tx)') /\ returned \in Int
                             /\ FeeSum(Refunds(p.tx)') \in Int
                             /\ FeeSum(Refunds(p.tx)') <= 0 /\ FeeSum(Refunds(p.tx)') >= 0
    BY <1>4, <1>6
  <2>3. PICK back : back = -sum
    OBVIOUS
  <2>4. back = 0 /\ returned = 0
    BY <2>2, <2>3
  <2>5. \A n \in Nat : 0 * n = 0 /\ 0 <= n
    OBVIOUS
  <2>6. /\ p.refunded = back /\ p.refunded <= p.amount
        /\ returned * p.amount <= p.refunded * p.fee /\ returned <= p.fee
    BY <2>1, <2>4, <2>5
  <2> QED
    BY <2>1, <2>2, <2>3, <2>6 DEF RefundsOf
<1>9. RefundsOK'
  BY <1>7, <1>8 DEF RefundsOK
<1> QED
  BY <1>2, <1>3, <1>4, <1>6, <1>9

(* It is a sale, if its buyer has paid what it is worth.                      *)
LEMMA PaySells ==
  ASSUME Inv, nextTx' = nextTx + 1, NEW p, NewPay(p), pays' = pays \cup {p},
         prunedPays' = prunedPays, fees' = fees, PendingsOK', Countable',
         \A a \in Addr : /\ Worth(a) \in Int
                         /\ Worth(a)' = IF a = p.rid THEN Worth(a) - p.amount ELSE Worth(a)
  PROVE  PaysOK' /\ RefundsOK' /\ IdealStep
<1>1. /\ PaysOK /\ RefundsOK /\ PendingsOK /\ Countable /\ PrunesOK /\ nextTx \in Nat \ {0}
  BY InvFacts
<1>2. /\ PaysOK' /\ RefundsOK'
      /\ \A q \in pays : Refunds(q.tx)' = Refunds(q.tx)
      /\ Refunds(p.tx)' = {} /\ FeeSum({}) = 0
  BY <1>1, PaysPut
<1>3. /\ p.tx = nextTx /\ p.parent = 0 /\ p.amount \in Nat \ {0} /\ p.fee \in Nat /\ p.refunded = 0
      /\ p.merchant # p.rid /\ p.merchant \in Addr /\ p.rid \in Addr
  BY DEF NewPay, PayRecord
<1>4. \A q \in pays : q.tx \in Nat /\ q.tx < nextTx /\ q.tx # p.tx
  BY <1>1, <1>3, PayForm
<1>5. p \notin pays /\ p.tx \notin prunedPays
  BY <1>1, <1>4 DEF PrunesOK
<1>6. PaySet(pays)
  BY <1>1, PaysAddUp
<1>7. PICK T : T = pays \cup {p}
  OBVIOUS
<1>8. /\ Charge(T) = Charge(pays) + p.fee /\ Charge(pays) \in Int
      /\ \A a : /\ Due(T, a) = Due(pays, a) + (IF a = p.merchant THEN p.amount - p.fee ELSE 0)
                /\ Due(pays, a) \in Int
  BY <1>3, <1>5, <1>6, <1>7, DuePut, DueInt
<1>9. Charge(pays)' = Charge(T) /\ \A a : Due(pays, a)' = Due(T, a)
  BY <1>7 DEF Charge, Due, Owed, Waiting
<1>10. \A a \in Addr : /\ Value(a) = Worth(a) + Due(pays, a)
                       /\ Value(a)' = Worth(a)' + Due(T, a)
  BY <1>9 DEF Value
<1>11. \A a \in Addr :
         Value(a)' = IF a = p.rid THEN Value(a) - p.amount
                     ELSE IF a = p.merchant THEN Value(a) + p.amount - p.fee ELSE Value(a)
  BY <1>3, <1>8, <1>10
<1>12. PICK s : s = [id |-> p.tx, buyer |-> p.rid, seller |-> p.merchant, amount |-> p.amount,
                     fee |-> p.fee, left |-> p.amount, feeLeft |-> p.fee]
  OBVIOUS
<1>13. Sale(p)' = s
  BY <1>2, <1>3, <1>12 DEF Sale
<1>14. \A q \in pays : Sale(q)' = Sale(q) /\ Sale(q).id = q.tx
  BY <1>2 DEF Sale
<1>15. /\ Wealth = [a \in Addr |-> Value(a)]
       /\ Sales = {Sale(q) : q \in Sold}
       /\ Sum(fees) + FeeSum(Uncollected) = AmountSum(fees) + Charge(pays)
  BY <1>1, WealthIs
<1>16. /\ Wealth' = [a \in Addr |-> Value(a)']
       /\ Sales' = {Sale(q)' : q \in Sold'}
       /\ (Sum(fees) + FeeSum(Uncollected))' = AmountSum(fees) + Charge(T)
  BY <1>2, <1>9, WealthNext
<1>17. Sold' = Sold \cup {p} /\ Sold \subseteq pays
  BY <1>3 DEF Sold
<1>18. Sales' = Sales \cup {s}
  BY <1>13, <1>14, <1>15, <1>16, <1>17
<1>19. \A r \in Sales : r.id # s.id
  BY <1>4, <1>12, <1>14, <1>15, <1>17
<1>20. s \in Sales' \ Sales
  BY <1>18, <1>19
<1>21. Wealth' = [Wealth EXCEPT ![s.buyer] = @ - s.amount, ![s.seller] = @ + s.amount - s.fee]
  BY <1>3, <1>11, <1>12, <1>15, <1>16
<1>22. (Sum(fees) + FeeSum(Uncollected))' = Sum(fees) + FeeSum(Uncollected) + s.fee
  <2>1. AmountSum(fees) \in Int
    BY <1>1, MoneyInt
  <2> QED
    BY <1>3, <1>8, <1>12, <1>15, <1>16, <2>1
<1>23. Ideal!Sell
  <2>1. /\ s.buyer # s.seller /\ s.amount > 0 /\ s.fee >= 0 /\ s.left = s.amount /\ s.feeLeft = s.fee
    BY <1>3, <1>12
  <2> QED
    BY <1>18, <1>19, <1>20, <1>21, <1>22, <2>1 DEF Ideal!Sell, Ideal!Move
<1> QED
  BY <1>2, <1>23 DEF IdealStep, Ideal!IdealNext

-----------------------------------------------------------------------------
(* A refund: what becomes of the pay, and the new document.                   *)
Returns(parent, amount, fee, old, new) ==
  /\ old \in PayRecord /\ new \in PayRecord
  /\ old.tx = parent.tx /\ old.amount = parent.amount /\ old.fee = parent.fee
  /\ old.merchant = parent.merchant /\ old.rid = parent.rid /\ old.parent = 0
  /\ old.ts = parent.ts /\ old.refunded = parent.refunded + amount
  /\ new.tx = nextTx /\ new.amount = -amount /\ new.fee = -fee /\ new.merchant = parent.merchant
  /\ new.rid = parent.rid /\ new.parent = parent.tx /\ new.refunded = 0

(* Only pays are refunded, not refunds.                                       *)
LEMMA RefundForm ==
  ASSUME PaysOK, NEW parent \in pays, nextTx \in Nat \ {0}, NEW amount \in Nat \ {0},
         NEW fee \in Int, NEW ts \in Nat, parent.refunded + amount <= parent.amount,
         NEW old, old = [parent EXCEPT !.refunded = @ + amount],
         NEW new, new = Pay(nextTx, parent.merchant, -amount, -fee, parent.rid, parent.tx, ts)
  PROVE  Returns(parent, amount, fee, old, new) /\ parent.parent = 0
<1>1. parent \in PayRecord
  BY DEF PaysOK
<1>2. /\ parent.tx \in Nat \ {0} /\ parent.merchant \in Addr /\ parent.rid \in Addr
      /\ parent.amount \in Int \ {0} /\ parent.refunded \in Nat
  BY PayForm
<1>3. parent.amount > 0
  BY <1>2
<1>4. parent.parent = 0
  BY <1>3, PayForm
<1>5. /\ old \in PayRecord
      /\ old.tx = parent.tx /\ old.amount = parent.amount /\ old.fee = parent.fee
      /\ old.merchant = parent.merchant /\ old.rid = parent.rid /\ old.parent = 0
      /\ old.ts = parent.ts /\ old.refunded = parent.refunded + amount
  BY <1>1, <1>4 DEF PayRecord
<1>6. -amount \in Int \ {0} /\ -fee \in Int
  OBVIOUS
<1>7. new \in PayRecord
  BY <1>2, <1>6 DEF Pay, PayRecord
<1>8. /\ new.tx = nextTx /\ new.amount = -amount /\ new.fee = -fee /\ new.merchant = parent.merchant
      /\ new.rid = parent.rid /\ new.parent = parent.tx /\ new.refunded = 0
  BY DEF Pay
<1> QED
  BY <1>4, <1>5, <1>7, <1>8 DEF Returns

(* What had been refunded of a pay, and the amount that is added now.         *)
LEMMA RefundsPut ==
  ASSUME PaysOK, nextTx \in Nat \ {0}, NEW parent \in pays, parent.parent = 0,
         NEW amount, NEW fee, NEW old, NEW new, Returns(parent, amount, fee, old, new),
         pays' = (pays \ {parent}) \cup {old, new}
  PROVE  /\ \A q \in pays : q.tx # parent.tx => Refunds(q.tx)' = Refunds(q.tx)
         /\ Refunds(parent.tx)' = Refunds(parent.tx) \cup {new} /\ new \notin Refunds(parent.tx)
         /\ Refunds(new.tx)' = {}
<1>1. \A q \in pays : q.tx \in Nat \ {0} /\ q.tx < nextTx /\ q.parent \in Nat /\ q.parent < nextTx
  BY PayForm
<1>2. old.parent = 0 /\ new.parent = parent.tx /\ new.tx = nextTx
  BY DEF Returns
<1>3. \A tx : tx # 0 => Refunds(tx)' = Refunds(tx) \cup (IF tx = parent.tx THEN {new} ELSE {})
  BY <1>2 DEF Refunds
<1>4. new \notin pays
  BY <1>1, <1>2
<1>5. Refunds(new.tx) = {} /\ new.tx # parent.tx /\ new.tx # 0
  BY <1>1, <1>2 DEF Refunds
<1>6. \A q \in pays : q.tx # parent.tx => Refunds(q.tx)' = Refunds(q.tx)
  BY <1>1, <1>3
<1>7. Refunds(parent.tx)' = Refunds(parent.tx) \cup {new} /\ new \notin Refunds(parent.tx)
  BY <1>1, <1>3, <1>4 DEF Refunds
<1>8. Refunds(new.tx)' = {}
  BY <1>1, <1>3, <1>5
<1> QED
  BY <1>6, <1>7, <1>8

(* Pays keep their form under a refund.                                       *)
LEMMA PaysRefunded ==
  ASSUME PaysOK, nextTx \in Nat \ {0}, nextTx' = nextTx + 1, NEW parent \in pays, parent.parent = 0,
         NEW amount \in Nat \ {0}, NEW fee \in Nat, NEW old, NEW new,
         Returns(parent, amount, fee, old, new),
         pays' = (pays \ {parent}) \cup {old, new}
  PROVE  PaysOK'
<1>1. \A q \in pays : q.tx \in Nat \ {0} /\ q.tx < nextTx /\ q.parent \in Nat /\ q.parent < nextTx
  BY PayForm
<1>2. IsFiniteSet(pays')
  <2>1. IsFiniteSet(pays \ {parent}) /\ IsFiniteSet({old, new})
    BY FS_RemoveElement, PairFinite DEF PaysOK
  <2> QED
    BY <2>1, FS_Union
<1>3. pays' \subseteq PayRecord
  BY DEF PaysOK, Returns
<1>4. \A q \in pays : /\ q.parent = 0 <=> q.amount > 0
                      /\ q.tx > 0 /\ q.tx < nextTx + 1 /\ q.parent < nextTx + 1
                      /\ q.merchant # q.rid
                      /\ q.parent = 0 => q.fee >= 0
  BY <1>1 DEF PaysOK
<1>5. /\ old.parent = 0 <=> old.amount > 0
      /\ old.tx > 0 /\ old.tx < nextTx + 1 /\ old.parent < nextTx + 1
      /\ old.merchant # old.rid
      /\ old.parent = 0 => old.fee >= 0
  BY <1>1, <1>4 DEF Returns
<1>6. /\ new.parent = 0 <=> new.amount > 0
      /\ new.tx > 0 /\ new.tx < nextTx + 1 /\ new.parent < nextTx + 1
      /\ new.merchant # new.rid
      /\ new.parent = 0 => new.fee >= 0
  <2>1. /\ new.tx = nextTx /\ new.parent = parent.tx /\ new.amount = -amount
        /\ new.merchant = parent.merchant /\ new.rid = parent.rid
    BY DEF Returns
  <2>2. /\ parent.tx \in Nat \ {0} /\ parent.tx < nextTx /\ parent.merchant # parent.rid
    BY <1>1, <1>4
  <2>3. ~(new.amount > 0) /\ new.parent # 0
    BY <2>1, <2>2
  <2>4. new.tx > 0 /\ new.tx < nextTx + 1 /\ new.parent < nextTx + 1
    BY <2>1, <2>2
  <2> QED
    BY <2>1, <2>2, <2>3, <2>4
<1>7. (\A q \in pays : /\ q.parent = 0 <=> q.amount > 0
                       /\ q.tx > 0 /\ q.tx < nextTx /\ q.parent < nextTx
                       /\ q.merchant # q.rid
                       /\ q.parent = 0 => q.fee >= 0)'
  BY <1>4, <1>5, <1>6
<1>8. (\A q, r \in pays : q.tx = r.tx => q = r)'
  BY <1>1 DEF PaysOK, Returns
<1> QED
  BY <1>2, <1>3, <1>7, <1>8 DEF PaysOK

(* A refund returns a share of the fee that is still there.                   *)
LEMMA RefundsWithin ==
  ASSUME PaysOK, RefundsOK, nextTx \in Nat \ {0}, nextTx' = nextTx + 1,
         NEW parent \in pays, parent.parent = 0,
         NEW amount \in Nat \ {0}, NEW fee \in Nat, fee * parent.amount <= amount * parent.fee,
         parent.refunded + amount <= parent.amount,
         NEW old, NEW new, Returns(parent, amount, fee, old, new),
         pays' = (pays \ {parent}) \cup {old, new}
  PROVE  /\ RefundsOK'
         /\ FeeSum(Refunds(parent.tx)) \in Int
         /\ FeeSum(Refunds(parent.tx)') = FeeSum(Refunds(parent.tx)) - fee
         /\ fee <= parent.fee + FeeSum(Refunds(parent.tx))
<1>1. /\ \A q \in pays : q.tx # parent.tx => Refunds(q.tx)' = Refunds(q.tx)
      /\ Refunds(parent.tx)' = Refunds(parent.tx) \cup {new} /\ new \notin Refunds(parent.tx)
      /\ Refunds(new.tx)' = {}
  BY RefundsPut
<1>2. PICK S : S = Refunds(parent.tx)
  OBVIOUS
<1>3. PaySet(S)
  BY <1>2, PaysAddUp DEF Refunds
<1>4. new.amount = -amount /\ new.fee = -fee /\ new.amount \in Int /\ new.fee \in Int
  BY DEF Returns
<1>5. /\ Sum(S \cup {new}) = Sum(S) + new.amount /\ FeeSum(S \cup {new}) = FeeSum(S) + new.fee
      /\ Sum(S) \in Int /\ FeeSum(S) \in Int
  BY <1>1, <1>2, <1>3, <1>4, PaySumsPut, PaySumsTake
<1>6. PICK whole, all, refunded, returned :
        /\ whole = parent.amount /\ all = parent.fee /\ refunded = parent.refunded
        /\ returned = -FeeSum(S)
  OBVIOUS
<1>7. /\ whole \in Nat \ {0} /\ all \in Nat /\ refunded \in Nat /\ returned \in Int
      /\ refunded = -Sum(S) /\ returned * whole <= refunded * all
      /\ refunded + amount <= whole /\ fee * whole <= amount * all
  BY <1>2, <1>5, <1>6, PayForm DEF RefundsOK, RefundsOf
<1>8. /\ (returned + fee) * whole <= (refunded + amount) * all /\ returned + fee <= all
  <2>1. /\ InProportion(returned, refunded, all, whole) /\ InProportion(fee, amount, all, whole)
        /\ fee \in Int /\ amount \in Nat
    BY <1>7 DEF InProportion
  <2>2. InProportion(returned + fee, refunded + amount, all, whole) /\ returned + fee <= all
    BY <1>7, <2>1, SharesAddUp
  <2> QED
    BY <2>2 DEF InProportion
<1>9. PICK sum, charge : sum = Sum(S \cup {new}) /\ charge = FeeSum(S \cup {new})
  OBVIOUS
<1>10. /\ -sum = refunded + amount /\ -charge = returned + fee /\ charge = FeeSum(S) - fee
       /\ fee <= all + FeeSum(S)
  <2>1. PICK before, charged : before = Sum(S) /\ charged = FeeSum(S)
    OBVIOUS
  <2>2. /\ before \in Int /\ charged \in Int /\ sum = before + (-amount) /\ charge = charged + (-fee)
        /\ refunded = -before /\ returned = -charged
    BY <1>4, <1>5, <1>6, <1>7, <1>9, <2>1
  <2>3. -sum = refunded + amount
    BY <2>2
  <2>4. -charge = returned + fee /\ charge = charged - fee /\ fee <= all + charged
    BY <1>7, <1>8, <2>2
  <2> QED
    BY <2>1, <2>3, <2>4
<1>11. RefundsOf(old)'
  <2>1. /\ old.tx = parent.tx /\ old.parent = 0 /\ old.refunded = refunded + amount
        /\ old.amount = whole /\ old.fee = all
    BY <1>6 DEF Returns
  <2>2. Refunds(old.tx)' = S \cup {new}
    BY <1>1, <1>2, <2>1
  <2>3. /\ old.refunded = -sum /\ old.refunded <= old.amount
        /\ -charge * old.amount <= old.refunded * old.fee /\ -charge <= old.fee
    BY <1>7, <1>8, <1>10, <2>1
  <2> QED
    BY <1>9, <2>1, <2>2, <2>3 DEF RefundsOf
<1>12. RefundsOf(new)'
  <2>1. parent.tx # 0
    BY PayForm
  <2> QED
    BY <1>1, <2>1 DEF RefundsOf, Returns, PayRecord
<1>13. ASSUME NEW q \in pays, q # parent
       PROVE  RefundsOf(q)'
  <2>1. q.tx # parent.tx
    BY <1>13 DEF PaysOK
  <2> QED
    BY <1>1, <2>1 DEF RefundsOK, RefundsOf
<1>14. RefundsOK'
  BY <1>11, <1>12, <1>13 DEF RefundsOK
<1> QED
  BY <1>1, <1>2, <1>5, <1>6, <1>9, <1>10, <1>14

(* It gives back part of the sale.                                            *)
LEMMA RefundGivesBack ==
  ASSUME Inv, nextTx' = nextTx + 1, NEW parent \in pays, parent.parent = 0,
         NEW amount \in Nat \ {0}, NEW fee \in Nat, fee * parent.amount <= amount * parent.fee,
         amount = parent.amount => fee = parent.fee,
         parent.refunded + amount <= parent.amount,
         NEW old, NEW new, Returns(parent, amount, fee, old, new),
         pays' = (pays \ {parent}) \cup {old, new},
         prunedPays' = prunedPays, fees' = fees, PendingsOK', Countable',
         \A a \in Addr : /\ Worth(a) \in Int
                         /\ Worth(a)' = IF a = parent.rid THEN Worth(a) + amount ELSE Worth(a)
  PROVE  PaysOK' /\ RefundsOK' /\ IdealStep
<1>1. /\ PaysOK /\ RefundsOK /\ PendingsOK /\ Countable /\ PrunesOK /\ nextTx \in Nat \ {0}
  BY InvFacts
<1>2. PaysOK'
  BY <1>1, PaysRefunded
<1>3. /\ RefundsOK'
      /\ FeeSum(Refunds(parent.tx)) \in Int
      /\ FeeSum(Refunds(parent.tx)') = FeeSum(Refunds(parent.tx)) - fee
      /\ fee <= parent.fee + FeeSum(Refunds(parent.tx))
  BY <1>1, RefundsWithin
<1>4. \A q \in pays : q.tx # parent.tx => Refunds(q.tx)' = Refunds(q.tx)
  BY <1>1, RefundsPut
<1>5. /\ parent.tx \in Nat \ {0} /\ parent.tx < nextTx /\ parent.merchant \in Addr
      /\ parent.rid \in Addr /\ parent.merchant # parent.rid
      /\ parent.amount \in Int /\ parent.fee \in Int /\ parent.refunded \in Nat
  BY <1>1, PayForm
<1>6. /\ old.tx = parent.tx /\ old.amount = parent.amount /\ old.fee = parent.fee
      /\ old.merchant = parent.merchant /\ old.rid = parent.rid /\ old.parent = 0
      /\ old.refunded = parent.refunded + amount
      /\ new.tx = nextTx /\ new.amount = -amount /\ new.fee = -fee /\ new.merchant = parent.merchant
      /\ new.parent = parent.tx /\ new.amount \in Int /\ new.fee \in Int
  BY DEF Returns
<1>7. \A q \in pays : q.tx \in Nat /\ q.tx < nextTx
  BY <1>1, PayForm
<1>8. old \notin pays
  <2>1. \A q \in pays : q.tx = parent.tx => q = parent
    BY <1>1 DEF PaysOK
  <2>2. old.refunded # parent.refunded
    BY <1>5, <1>6
  <2> QED
    BY <1>6, <2>1, <2>2
<1>9. PICK S : S = (pays \ {parent}) \cup {old}
  OBVIOUS
<1>10. /\ PaySet(pays) /\ PaySet(S) /\ Charge(S) = Charge(pays)
       /\ \A a : Due(S, a) = Due(pays, a) /\ Due(pays, a) \in Int
       /\ Charge(pays) \in Int
  <2>1. PaySet(pays)
    BY <1>1, PaysAddUp
  <2>2. PICK all : all = pays
    OBVIOUS
  <2>3. PaySet(all) /\ parent \in all /\ old \notin all /\ S = (all \ {parent}) \cup {old}
    BY <1>8, <1>9, <2>1, <2>2
  <2>4. PaySet(S) /\ Charge(S) = Charge(all) /\ \A a : Due(S, a) = Due(all, a)
    BY <1>6, <2>3, DueChanged
  <2>5. Charge(all) \in Int /\ \A a : Due(all, a) \in Int
    BY <2>3, DueInt
  <2> QED
    BY <2>1, <2>2, <2>4, <2>5
<1>11. new \notin S /\ new.tx \notin prunedPays
  BY <1>1, <1>5, <1>6, <1>7, <1>9 DEF PrunesOK
<1>12. PICK T : T = S \cup {new}
  OBVIOUS
<1>13. /\ Charge(T) = Charge(S) + new.fee
       /\ \A a : Due(T, a) = Due(S, a) + (IF a = new.merchant THEN new.amount - new.fee ELSE 0)
  <2>1. PaySet(S) /\ new.amount \in Int /\ new.fee \in Int /\ new \notin S /\ new.tx \notin prunedPays
    BY <1>6, <1>10, <1>11
  <2> QED
    BY ONLY <2>1, <1>12, DuePut
<1>14. Charge(pays)' = Charge(T) /\ \A a : Due(pays, a)' = Due(T, a)
  <2>1. pays' = T
    BY <1>9, <1>12
  <2> QED
    BY <2>1 DEF Charge, Due, Owed, Waiting
<1>15. \A a \in Addr : /\ Value(a) = Worth(a) + Due(pays, a)
                       /\ Value(a)' = Worth(a)' + Due(T, a)
  BY <1>14 DEF Value
<1>16. PICK less, lessFee : less = -amount /\ lessFee = -fee
  OBVIOUS
<1>17. less \in Int /\ lessFee \in Int /\ amount = -less /\ fee = -lessFee
  BY <1>16
<1>18. \A a \in Addr :
         Value(a)' = IF a = parent.rid THEN Value(a) - less
                     ELSE IF a = parent.merchant THEN Value(a) + less - lessFee ELSE Value(a)
  <2> SUFFICES ASSUME NEW a \in Addr
               PROVE  Value(a)' = IF a = parent.rid THEN Value(a) - less
                                  ELSE IF a = parent.merchant THEN Value(a) + less - lessFee
                                  ELSE Value(a)
    OBVIOUS
  <2>1. PICK worth, due, extra :
          /\ worth = Worth(a) /\ due = Due(pays, a)
          /\ extra = IF a = parent.merchant THEN less - lessFee ELSE 0
    OBVIOUS
  <2>2. worth \in Int /\ due \in Int /\ Value(a) = worth + due
    BY <1>10, <1>15, <2>1
  <2>3. Due(T, a) = due + extra
    BY <1>6, <1>10, <1>13, <1>16, <2>1
  <2>4. Worth(a)' = IF a = parent.rid THEN worth + amount ELSE worth
    BY <2>1
  <2>5. Value(a)' = Worth(a)' + (due + extra)
    BY <1>15, <2>3
  <2>6. CASE a = parent.rid
    <3>1. extra = 0 /\ Value(a)' = (worth + amount) + (due + extra)
      BY <1>5, <2>1, <2>4, <2>5, <2>6
    <3> QED
      BY <1>17, <2>2, <2>6, <3>1
  <2>7. CASE a = parent.merchant
    <3>1. extra = less - lessFee /\ Value(a)' = worth + (due + extra) /\ a # parent.rid
      BY <1>5, <2>1, <2>4, <2>5, <2>7
    <3> QED
      BY <1>17, <2>2, <2>7, <3>1
  <2>8. CASE a # parent.rid /\ a # parent.merchant
    <3>1. extra = 0 /\ Value(a)' = worth + (due + extra)
      BY <2>1, <2>4, <2>5, <2>8
    <3> QED
      BY <2>2, <2>8, <3>1
  <2> QED
    BY <2>6, <2>7, <2>8
<1>19. PICK s : s = Sale(parent)
  OBVIOUS
<1>20. /\ s.id = parent.tx /\ s.buyer = parent.rid /\ s.seller = parent.merchant
       /\ s.amount = parent.amount /\ s.fee = parent.fee
       /\ s.left = parent.amount - parent.refunded
       /\ s.feeLeft = parent.fee + FeeSum(Refunds(parent.tx))
  BY <1>19 DEF Sale
<1>21. PICK t : t = [s EXCEPT !.left = @ - amount, !.feeLeft = @ - fee]
  OBVIOUS
<1>22. Sale(old)' = t
  <2>1. PICK returned : returned = FeeSum(Refunds(parent.tx))
    OBVIOUS
  <2>2. FeeSum(Refunds(parent.tx)') = returned - fee /\ returned \in Int
    BY <1>3, <2>1
  <2>3. parent.amount - old.refunded = (parent.amount - parent.refunded) - amount
    BY <1>5, <1>6
  <2>4. parent.fee + (returned - fee) = (parent.fee + returned) - fee
    BY <1>5, <2>2
  <2>5. s = [id |-> parent.tx, buyer |-> parent.rid, seller |-> parent.merchant,
             amount |-> parent.amount, fee |-> parent.fee,
             left |-> parent.amount - parent.refunded, feeLeft |-> parent.fee + returned]
    BY <1>19, <2>1 DEF Sale
  <2>6. t = [id |-> parent.tx, buyer |-> parent.rid, seller |-> parent.merchant,
             amount |-> parent.amount, fee |-> parent.fee,
             left |-> (parent.amount - parent.refunded) - amount,
             feeLeft |-> (parent.fee + returned) - fee]
    BY <1>21, <2>5
  <2>7. Sale(old)' = [id |-> parent.tx, buyer |-> parent.rid, seller |-> parent.merchant,
                      amount |-> parent.amount, fee |-> parent.fee,
                      left |-> parent.amount - old.refunded,
                      feeLeft |-> parent.fee + (returned - fee)]
    BY <1>6, <2>2 DEF Sale
  <2> QED
    BY <2>3, <2>4, <2>6, <2>7
<1>23. \A q \in pays : /\ q.tx # parent.tx => Sale(q)' = Sale(q)
                       /\ Sale(q).id = q.tx
  BY <1>4 DEF Sale
<1>24. /\ Wealth = [a \in Addr |-> Value(a)]
       /\ Sales = {Sale(q) : q \in Sold}
       /\ Sum(fees) + FeeSum(Uncollected) = AmountSum(fees) + Charge(pays)
  BY <1>1, WealthIs
<1>25. /\ Wealth' = [a \in Addr |-> Value(a)']
       /\ Sales' = {Sale(q)' : q \in Sold'}
       /\ (Sum(fees) + FeeSum(Uncollected))' = AmountSum(fees) + Charge(T)
  BY <1>2, <1>14, WealthNext
<1>26. Sold' = (Sold \ {parent}) \cup {old} /\ Sold \subseteq pays /\ parent \in Sold
  <2>1. new.parent # 0
    BY <1>5, <1>6
  <2> QED
    BY <1>6, <2>1 DEF Sold
<1>27. \A q \in Sold \ {parent} : q.tx # parent.tx /\ Sale(q)' = Sale(q) /\ Sale(q) # s
  BY <1>1, <1>20, <1>23, <1>26 DEF PaysOK
<1>28. Sales' = (Sales \ {s}) \cup {t}
  <2>1. Sales \ {s} = {Sale(q) : q \in Sold \ {parent}}
    BY <1>19, <1>24, <1>26, <1>27
  <2>2. Sales' = {Sale(q)' : q \in Sold \ {parent}} \cup {t}
    BY <1>22, <1>25, <1>26
  <2>3. {Sale(q)' : q \in Sold \ {parent}} = {Sale(q) : q \in Sold \ {parent}}
    BY <1>27
  <2> QED
    BY <2>1, <2>2, <2>3
<1>29. s \in Sales
  BY <1>19, <1>24, <1>26
<1>30. Wealth' = [Wealth EXCEPT ![s.buyer] = @ - less, ![s.seller] = @ + less - lessFee]
  BY <1>5, <1>18, <1>20, <1>24, <1>25
<1>31. (Sum(fees) + FeeSum(Uncollected))' = Sum(fees) + FeeSum(Uncollected) + lessFee
  <2>1. AmountSum(fees) \in Int
    BY <1>1, MoneyInt
  <2> QED
    BY <1>6, <1>10, <1>13, <1>16, <1>17, <1>24, <1>25, <2>1
<1>32. Ideal!GiveBack(s)
  <2>1. amount \in 1..s.left /\ fee \in 0..s.feeLeft
    BY <1>3, <1>5, <1>20
  <2>2. fee * s.amount <= amount * s.fee /\ (amount = s.amount => fee = s.fee)
    BY <1>20
  <2>3. Ideal!Move(s, -amount, -fee)
    BY <1>16, <1>30, <1>31 DEF Ideal!Move
  <2> QED
    BY <1>21, <1>28, <2>1, <2>2, <2>3 DEF Ideal!GiveBack
<1> QED
  BY <1>2, <1>3, <1>29, <1>32 DEF IdealStep, Ideal!IdealNext

-----------------------------------------------------------------------------
(* The steps, one after the other: each keeps the documents in order, and     *)
(* maps to a step of IdealPay, or to none.                                    *)

(* No pay, no fee, and every account is worth what it was.                    *)
LEMMA NothingSold ==
  ASSUME Documents, Documents', UNCHANGED <<pays, prunedPays, fees>>,
         \A a \in Addr : Worth(a)' = Worth(a)
  PROVE  IdealStep
<1>1. Sales' = Sales
  BY DEF Sales
<1>2. \A a \in Addr : Value(a)' = Value(a)
  BY DEF Value, Due, Owed, Waiting
<1>3. AmountSum(fees') + Charge(pays)' = AmountSum(fees) + Charge(pays)
  BY DEF Charge, Waiting
<1> QED
  BY <1>1, <1>2, <1>3, IdealStays

(* pay.                                                                       *)
LEMMA PayStepKeeps ==
  ASSUME Inv, PayStep
  PROVE  Kept /\ IdealStep
<1>1. PICK kid \in Kid, sender \in Addr, receiver \in Merchants, amount \in Amounts,
           duration \in Durations, ts \in Timestamps :
        pay(kid, sender, receiver, amount, duration, ts)
  BY DEF PayStep
<1>2. /\ ClockOK /\ TokenOK /\ PendingsOK /\ ContractsOK /\ LogsOK /\ FeesOK /\ PaysOK
      /\ RefundsOK /\ Countable /\ AuditTrail
      /\ nextTx \in Nat \ {0} /\ now \in Nat /\ now >= StartTime
      /\ bal \in [Addr -> Int] /\ token.policy \in FeePolicy /\ Fresh(nextTx)
  BY InvFacts
<1>3. /\ receiver \in Addr /\ amount \in Nat \ {0} /\ duration \in Nat /\ ts \in Nat
      /\ -amount \in Int
  BY <1>2, SystemAssumption, TimestampNat
<1>4. PICK fee : fee = CalcFee(receiver, "pay", amount)
  OBVIOUS
<1>5. fee \in Nat
  BY <1>2, <1>3, <1>4, CalcFeeNat DEF FeeFn
<1>6. /\ sender # receiver /\ bal[sender] >= amount /\ nextTx' = nextTx + 1
      /\ UNCHANGED <<now, token, account, fees, payCursor, prunedPays>>
  BY <1>1 DEF pay, Covers, UseTxID
<1>7. IDsGrow
  BY <1>2, <1>6 DEF IDsGrow
<1>8. ClockOK' /\ TokenOK' /\ FeesOK'
  BY <1>2, <1>6, <1>7, RestStays, FeesStay
<1>9. /\ bal[sender] \in Int /\ bal[sender] + (-amount) >= 0
      /\ bal[sender] - amount = bal[sender] + (-amount)
      /\ bal[sender] - (amount + 0) = bal[sender] + (-amount)
  BY <1>2, <1>3, <1>6
<1>10. ASSUME bal' = [bal EXCEPT ![sender] = bal[sender] + (-amount)]
       PROVE  Solvent
  BY <1>2, <1>3, <1>9, <1>10, SolventOne
<1>11. ASSUME PutBalanceLogs({Log(sender, ts, -amount, 0)})
       PROVE  LogsOK'
  BY <1>2, <1>3, <1>11, LogPut
<1>12. CASE /\ CreateContract(nextTx, "pay", PayDoc(nextTx, sender, receiver), ts + duration,
                  Signers(kid, sender, {}))
            /\ Deposit(nextTx, sender, nextTx, ts + duration, amount, 0, ts)
            /\ UNCHANGED pays
  <2>1. PICK expiry : expiry = ts + duration
    OBVIOUS
  <2>2. expiry \in Nat /\ Deposit(nextTx, sender, nextTx, expiry, amount, 0, ts)
    BY <1>3, <1>12, <2>1
  <2>3. PICK c : c = [id |-> nextTx, type |-> "pay", expiry |-> expiry, status |-> "open",
                      doc |-> PayDoc(nextTx, sender, receiver)]
    OBVIOUS
  <2>4. /\ c \in PayContract /\ c.id = nextTx /\ c.doc.pb = nextTx
        /\ c.doc.sender = sender /\ c.doc.receiver = receiver
    BY <1>2, <1>3, <2>2, <2>3 DEF PayContract, PayDoc
  <2>5. contracts' = contracts \cup {c}
    BY <1>12, <2>1, <2>3 DEF CreateContract
  <2>6. PICK pb : pb = Pending(nextTx, "contract", sender, nextTx, amount, 0, expiry)
    OBVIOUS
  <2>7. pb \in PendingBalance /\ pb.id = nextTx /\ pb.account = sender
    BY <1>2, <1>3, <2>2, <2>6 DEF Pending, PendingBalance
  <2>8. /\ pending' = pending \cup {pb}
        /\ bal' = [bal EXCEPT ![sender] = bal[sender] + (-amount)]
        /\ PutBalanceLogs({Log(sender, ts, -amount, 0)})
    BY <1>2, <1>9, <2>2, <2>6 DEF Deposit
  <2>9. \A p \in pending : p.id \in Nat /\ p.id < nextTx
    BY <1>2 DEF PendingsOK, PendingBalance
  <2>10. PendingsOK'
    <3>1. (\A p \in pending : p.id < nextTx)'
      BY <1>2, <1>6, <2>7, <2>8, <2>9
    <3> QED
      BY <1>2, <2>7, <2>8, <3>1 DEF PendingsOK
  <2>11. \A d \in contracts : d.id \in Nat /\ d.id < nextTx /\ d.doc.pb = d.id
    BY <1>2, ContractForm
  <2>12. ContractsOK'
    <3>1. (\A d \in contracts : /\ d.id < nextTx /\ d.doc.pb = d.id
                                /\ d.doc.sender # d.doc.receiver)'
      BY <1>2, <1>6, <2>4, <2>5, <2>11 DEF ContractsOK
    <3>2. ASSUME NEW d \in contracts', NEW p \in pending', IsPendingOf(p, d)
          PROVE  p.account = d.doc.sender
      <4>1. p.id = d.doc.pb
        BY <3>2 DEF IsPendingOf
      <4>2. CASE d = c
        <5>1. p = pb
          BY <1>2, <2>4, <2>8, <2>9, <4>1, <4>2
        <5> QED
          BY <2>4, <2>7, <4>2, <5>1
      <4>3. CASE d \in contracts
        <5>1. p \in pending
          BY <2>7, <2>8, <2>11, <4>1, <4>3
        <5> QED
          BY <1>2, <3>2, <4>3, <5>1 DEF ContractsOK
      <4> QED
        BY <2>5, <4>2, <4>3
    <3>3. contracts' \subseteq PayContract
      BY <1>2, <2>4, <2>5 DEF ContractsOK
    <3> QED
      BY <3>1, <3>2, <3>3 DEF ContractsOK, IsPendingOf
  <2>13. LogsOK' /\ Solvent
    BY <1>10, <1>11, <2>8
  <2>14. PaysOK' /\ RefundsOK'
    BY <1>2, <1>7, <1>12, PaysStay
  <2>15. Countable' /\ AuditTrail'
    <3>1. amount \in Int /\ 0 \in Int /\ fees' = fees
      BY <1>3, <1>6
    <3> QED
      BY <1>2, <2>2, <3>1, DepositMoves
  <2>16. Documents'
    BY <1>8, <2>10, <2>12, <2>13, <2>14, <2>15 DEF Documents
  <2>17. \A a \in Addr : Worth(a)' = Worth(a)
    <3>1. amount \in Int /\ 0 \in Int
      BY <1>3
    <3> QED
      BY <1>2, <2>2, <3>1, DepositKeepsWorth
  <2>18. PrunesStay
    BY <1>6, <1>12 DEF PrunesStay
  <2>19. IdealStep
    BY <1>6, <1>12, <2>16, <2>17, NothingSold DEF Inv
  <2> QED
    BY <1>7, <2>13, <2>16, <2>18, <2>19 DEF Kept
<1>13. CASE PayNow(nextTx, sender, receiver, amount, fee, ts) /\ UNCHANGED contracts
  <2>1. PICK new : new = Pay(nextTx, receiver, amount, fee, sender, 0, ts)
    OBVIOUS
  <2>2. /\ pays' = pays \cup {new} /\ pending' = pending
        /\ bal' = [bal EXCEPT ![sender] = bal[sender] + (-amount)]
        /\ PutBalanceLogs({Log(sender, ts, -amount, 0)})
    BY <1>2, <1>9, <1>13, <2>1 DEF PayNow
  <2>3. NewPay(new) /\ new.tx = nextTx /\ new.amount = amount /\ new.rid = sender
    BY <1>2, <1>3, <1>5, <1>6, <2>1 DEF NewPay, Pay, PayRecord
  <2>4. PendingsOK' /\ ContractsOK'
    BY <1>2, <1>7, <1>13, <2>2, PendingsStay, ContractsStay
  <2>5. LogsOK' /\ Solvent
    BY <1>10, <1>11, <2>2
  <2>6. Countable' /\ AuditTrail'
    BY <1>2, <1>3, <1>6, <2>2, OneMovesFree
  <2>7. ASSUME NEW a \in Addr
        PROVE  /\ Worth(a) \in Int
               /\ Worth(a)' = IF a = new.rid THEN Worth(a) - new.amount ELSE Worth(a)
    <3>1. bal[a] \in Int /\ bal'[a] = bal[a] + (IF a = sender THEN -amount ELSE 0)
      BY <1>2, <1>3, <2>2
    <3>2. bal'[a] \in Int /\ bal'[a] - bal[a] = IF a = sender THEN -amount ELSE 0
      BY <1>3, <3>1
    <3>3. Worth(a) \in Int /\ Worth(a)' = Worth(a) + (bal'[a] - bal[a])
      BY <1>2, <2>2, <3>2, WorthStays
    <3> QED
      BY <1>3, <2>3, <3>2, <3>3
  <2>8. PaysOK' /\ RefundsOK' /\ IdealStep
    BY <1>6, <2>2, <2>3, <2>4, <2>6, <2>7, PaySells
  <2>9. Documents'
    BY <1>8, <2>4, <2>5, <2>6, <2>8 DEF Documents
  <2>10. PrunesStay
    BY <1>6, <2>2, <2>3 DEF PrunesStay
  <2> QED
    BY <1>7, <2>5, <2>8, <2>9, <2>10 DEF Kept
<1> QED
  BY <1>1, <1>4, <1>12, <1>13 DEF pay

(* pay/refund.                                                                *)
LEMMA RefundStepKeeps ==
  ASSUME Inv, RefundStep
  PROVE  Kept /\ IdealStep
<1>1. PICK kid \in Kid, parent \in pays, amount \in Amounts, ts \in Timestamps :
        payRefund(kid, parent, amount, ts)
  BY DEF RefundStep
<1>2. /\ ClockOK /\ TokenOK /\ PendingsOK /\ ContractsOK /\ LogsOK /\ FeesOK /\ PaysOK
      /\ RefundsOK /\ Countable /\ AuditTrail
      /\ nextTx \in Nat \ {0} /\ now \in Nat /\ now >= StartTime /\ bal \in [Addr -> Int]
  BY InvFacts
<1>3. amount \in Nat \ {0} /\ ts \in Nat
  BY <1>2, SystemAssumption, TimestampNat
<1>4. PICK fee : fee = RefundFee(parent, amount)
  OBVIOUS
<1>5. /\ parent.refunded + amount <= parent.amount /\ nextTx' = nextTx + 1
      /\ UNCHANGED <<now, token, account, fees, contracts, payCursor, prunedPays>>
      /\ Refund(nextTx, parent, amount, fee, ts)
  BY <1>1, <1>4 DEF payRefund, UseTxID
<1>6. /\ parent.rid \in Addr /\ parent.merchant \in Addr /\ parent.tx \in Nat \ {0}
      /\ parent.amount \in Int \ {0} /\ parent.fee \in Int /\ parent.refunded \in Nat
  BY <1>2, PayForm
<1>7. parent.amount \in Nat \ {0} /\ amount <= parent.amount
  BY <1>3, <1>5, <1>6
<1>8. parent.parent = 0 /\ parent.fee \in Nat
  <2>1. parent.parent = 0
    BY <1>2, <1>7, PayForm
  <2>2. parent.fee >= 0
    BY <1>2, <2>1, PayForm
  <2> QED
    BY <1>6, <2>1, <2>2
<1>9. /\ fee \in Nat /\ fee * parent.amount <= amount * parent.fee
      /\ amount = parent.amount => fee = parent.fee
  BY <1>3, <1>4, <1>7, <1>8, RefundFeeShare
<1>10. PICK old : old = [parent EXCEPT !.refunded = @ + amount]
  OBVIOUS
<1>11. PICK new : new = Pay(nextTx, parent.merchant, -amount, -fee, parent.rid, parent.tx, ts)
  OBVIOUS
<1>12. Returns(parent, amount, fee, old, new)
  <2>1. fee \in Int
    BY <1>9
  <2> QED
    BY <1>2, <1>3, <1>5, <1>10, <1>11, <2>1, RefundForm
<1>13. PICK customer : customer = parent.rid
  OBVIOUS
<1>14. /\ pays' = (pays \ {parent}) \cup {old, new} /\ pending' = pending
       /\ PutBalanceLogs({Log(customer, ts, amount, 0)}) /\ customer \in Addr
       /\ bal' = [bal EXCEPT ![customer] = bal[customer] + amount]
  BY <1>5, <1>6, <1>10, <1>11, <1>13 DEF Refund
<1>15. IDsGrow
  BY <1>2, <1>5 DEF IDsGrow
<1>16. ClockOK' /\ TokenOK' /\ FeesOK' /\ PendingsOK' /\ ContractsOK'
  BY <1>2, <1>5, <1>14, <1>15, RestStays, FeesStay, PendingsStay, ContractsStay
<1>17. LogsOK' /\ Solvent
  <2>1. amount \in Int /\ amount >= 0
    BY <1>3
  <2> QED
    BY <1>2, <1>3, <1>14, <2>1, LogPut, SolventOne
<1>18. Countable' /\ AuditTrail'
  <2>1. amount \in Int /\ fees' = fees
    BY <1>3, <1>5
  <2> QED
    BY <1>2, <1>14, <2>1, OneMovesFree
<1>19. ASSUME NEW a \in Addr
       PROVE  /\ Worth(a) \in Int
              /\ Worth(a)' = IF a = parent.rid THEN Worth(a) + amount ELSE Worth(a)
  <2>1. bal[a] \in Int /\ bal'[a] = bal[a] + (IF a = customer THEN amount ELSE 0)
    BY <1>2, <1>3, <1>14
  <2>2. bal'[a] \in Int /\ bal'[a] - bal[a] = IF a = customer THEN amount ELSE 0
    BY <1>3, <2>1
  <2>3. Worth(a) \in Int /\ Worth(a)' = Worth(a) + (bal'[a] - bal[a])
    BY <1>2, <1>14, <2>2, WorthStays
  <2> QED
    BY <1>3, <1>13, <2>2, <2>3
<1>20. PaysOK' /\ RefundsOK' /\ IdealStep
  <2>1. prunedPays' = prunedPays /\ fees' = fees
    BY <1>5
  <2> QED
    BY <1>3, <1>5, <1>8, <1>9, <1>12, <1>14, <1>16, <1>18, <1>19, <2>1, RefundGivesBack
<1>21. Documents'
  BY <1>16, <1>17, <1>18, <1>20 DEF Documents
<1>22. PrunesStay
  BY <1>5, <1>12, <1>14 DEF PrunesStay, Returns
<1> QED
  BY <1>15, <1>17, <1>20, <1>21, <1>22 DEF Kept

(* The execute callback.                                                      *)
LEMMA ExecuteStepKeeps ==
  ASSUME Inv, ExecuteStep
  PROVE  Kept /\ IdealStep
<1>1. PICK c \in contracts, ts \in Timestamps : executePay(c, ts)
  BY DEF ExecuteStep
<1>2. /\ ClockOK /\ TokenOK /\ PendingsOK /\ ContractsOK /\ LogsOK /\ FeesOK /\ PaysOK
      /\ RefundsOK /\ Countable /\ AuditTrail /\ token.policy \in FeePolicy
      /\ nextTx \in Nat \ {0} /\ now \in Nat /\ now >= StartTime /\ bal \in [Addr -> Int]
  BY InvFacts
<1>3. ts \in Nat
  BY <1>2, TimestampNat
<1>4. PICK pb \in pending :
        /\ IsPendingOf(pb, c)
        /\ PayPendingBalance(nextTx, pb, CalcFee(c.doc.receiver, "pay", pb.amount),
                             c.doc.receiver, ts)
  BY <1>1 DEF executePay
<1>5. PICK merchant, fee : /\ merchant = c.doc.receiver
                           /\ fee = CalcFee(c.doc.receiver, "pay", pb.amount)
  OBVIOUS
<1>6. /\ pb.account \in Addr /\ pb.amount \in Nat \ {0} /\ pb.fee = 0
      /\ merchant \in Addr /\ merchant # pb.account
  <2>1. pb.account \in Addr /\ pb.amount \in Nat \ {0} /\ pb.fee = 0
    BY <1>2 DEF PendingsOK, PendingBalance
  <2>2. pb.account = c.doc.sender
    BY <1>2, <1>4 DEF ContractsOK
  <2> QED
    BY <1>2, <1>5, <2>1, <2>2, ContractForm
<1>7. fee \in Nat
  <2>1. pb.amount \in Int
    BY <1>6
  <2> QED
    BY <1>2, <1>5, <2>1, CalcFeeNat DEF FeeFn
<1>8. PICK new : new = Pay(nextTx, merchant, pb.amount, fee, pb.account, 0, ts)
  OBVIOUS
<1>9. /\ nextTx' = nextTx + 1 /\ pays' = pays \cup {new} /\ pending' = pending \ {pb}
      /\ CloseContract(c, "executed")
      /\ UNCHANGED <<now, token, account, fees, bal, blog, payCursor, prunedPays>>
  BY <1>1, <1>4, <1>5, <1>8 DEF executePay, UseTxID, PayPendingBalance
<1>10. NewPay(new) /\ new.tx = nextTx /\ new.amount = pb.amount /\ new.rid = pb.account
  BY <1>2, <1>3, <1>6, <1>7, <1>8 DEF NewPay, Pay, PayRecord
<1>11. IDsGrow /\ pending' \subseteq pending
  BY <1>2, <1>9 DEF IDsGrow
<1>12. ClockOK' /\ TokenOK' /\ FeesOK' /\ PendingsOK' /\ ContractsOK' /\ LogsOK'
  <2>1. ContractsOK'
    BY <1>2, <1>9, <1>11, ContractsClosed
  <2>2. LogsOK'
    BY <1>2, <1>9 DEF LogsOK
  <2> QED
    BY <1>2, <1>9, <1>11, <2>1, <2>2, RestStays, FeesStay, PendingsStay
<1>13. Countable' /\ AuditTrail'
  <2>1. IsFiniteSet(pending') /\ IntDeposits(pending')
    BY <1>2, <1>9, PendingTaken DEF Countable
  <2>2. Countable'
    BY <1>2, <1>9, <2>1 DEF Countable
  <2>3. AuditTrail'
    BY <1>2, <1>9 DEF AuditTrail, LogsOf
  <2> QED
    BY <2>2, <2>3
<1>14. ASSUME NEW a \in Addr
       PROVE  /\ Worth(a) \in Int
              /\ Worth(a)' = IF a = new.rid THEN Worth(a) - new.amount ELSE Worth(a)
  <2>1. bal'[a] \in Int /\ bal'[a] - bal[a] = 0
    BY <1>2, <1>9
  <2>2. /\ Worth(a) \in Int
        /\ Worth(a)' = Worth(a) + (bal'[a] - bal[a])
                         - (IF pb.account = a THEN pb.amount + pb.fee ELSE 0)
    BY <1>2, <1>9, <2>1, WorthTaken
  <2>3. pb.amount + pb.fee = pb.amount /\ pb.amount \in Int
    BY <1>6
  <2> QED
    BY <1>10, <2>1, <2>2, <2>3
<1>15. PaysOK' /\ RefundsOK' /\ IdealStep
  BY <1>9, <1>10, <1>12, <1>13, <1>14, PaySells
<1>16. Documents'
  BY <1>12, <1>13, <1>15 DEF Documents
<1>17. PrunesStay
  BY <1>9, <1>10 DEF PrunesStay
<1>18. Solvent
  BY <1>2, <1>9 DEF Solvent
<1> QED
  BY <1>11, <1>15, <1>16, <1>17, <1>18 DEF Kept

(* A pending balance goes back to its owner, the contracts being in order.    *)
LEMMA WithdrawnKeeps ==
  ASSUME Inv, NEW pb \in pending, NEW ts \in Timestamps, Withdraw(pb, ts), ContractsOK',
         UNCHANGED <<txVars, token, account, fees, payVars>>
  PROVE  Kept /\ IdealStep
<1>1. /\ ClockOK /\ TokenOK /\ PendingsOK /\ LogsOK /\ FeesOK /\ PaysOK
      /\ RefundsOK /\ Countable /\ AuditTrail
      /\ nextTx \in Nat \ {0} /\ now \in Nat /\ now >= StartTime /\ bal \in [Addr -> Int]
  BY InvFacts
<1>2. /\ IDsGrow /\ pending' \subseteq pending
      /\ UNCHANGED <<now, pays, payCursor, prunedPays, fees>>
  BY <1>1 DEF IDsGrow, txVars, payVars, Withdraw
<1>3. pb.account \in Addr /\ pb.amount \in Nat \ {0} /\ pb.fee = 0
  BY <1>1 DEF PendingsOK, PendingBalance
<1>4. PICK owner, held : owner = pb.account /\ held = pb.amount + pb.fee
  OBVIOUS
<1>5. owner \in Addr /\ held \in Int /\ held >= 0 /\ ts \in Nat
  BY <1>1, <1>3, <1>4, TimestampNat
<1>6. /\ PutBalanceLogs({Log(owner, ts, held, 0)})
      /\ bal' = [bal EXCEPT ![owner] = bal[owner] + held]
  <2>1. bal[owner] + pb.amount + pb.fee = bal[owner] + held
    BY <1>1, <1>3, <1>4, <1>5
  <2> QED
    BY <1>1, <1>4, <1>5, <2>1 DEF Withdraw
<1>7. ClockOK' /\ TokenOK' /\ FeesOK' /\ PendingsOK' /\ LogsOK' /\ PaysOK' /\ RefundsOK'
  BY <1>1, <1>2, <1>5, <1>6, RestStays, FeesStay, PendingsStay, LogPut, PaysStay
<1>8. Countable' /\ AuditTrail'
  BY <1>1, <1>2, WithdrawMoves
<1>9. Documents'
  BY <1>7, <1>8 DEF Documents
<1>10. \A a \in Addr : Worth(a)' = Worth(a)
  BY <1>1, WithdrawKeepsWorth
<1>11. IdealStep
  BY <1>2, <1>9, <1>10, NothingSold DEF Inv
<1>12. PrunesStay
  BY <1>2 DEF PrunesStay
<1>13. Solvent
  BY <1>1, <1>5, <1>6, SolventOne
<1> QED
  BY <1>2, <1>9, <1>11, <1>12, <1>13 DEF Kept

(* The cancel callback and balance/pending/withdraw.                          *)
LEMMA ReturnStepKeeps ==
  ASSUME Inv, CancelStep \/ WithdrawStep
  PROVE  Kept /\ IdealStep
<1>1. ContractsOK /\ nextTx \in Nat \ {0}
  BY InvFacts
<1>2. CASE CancelStep
  <2>1. PICK c \in contracts, ts \in Timestamps : cancelTransfer(c, ts) /\ UNCHANGED payVars
    BY <1>2 DEF CancelStep
  <2>2. PICK pb \in pending : Withdraw(pb, ts)
    BY <2>1 DEF cancelTransfer
  <2>3. CloseContract(c, "canceled") /\ UNCHANGED <<txVars, token, account, fees>>
    BY <2>1 DEF cancelTransfer
  <2>4. IDsGrow /\ pending' \subseteq pending
    BY <1>1, <2>2, <2>3 DEF IDsGrow, txVars, Withdraw
  <2>5. ContractsOK'
    BY <1>1, <2>3, <2>4, ContractsClosed
  <2> QED
    BY <2>1, <2>2, <2>3, <2>5, WithdrawnKeeps
<1>3. CASE WithdrawStep
  <2>1. PICK kid \in Kid, pb \in pending, ts \in Timestamps :
          balancePendingWithdraw(kid, pb, ts) /\ UNCHANGED payVars
    BY <1>3 DEF WithdrawStep
  <2>2. Withdraw(pb, ts) /\ UNCHANGED <<txVars, token, account, contracts, fees>>
    BY <2>1 DEF balancePendingWithdraw, BalancePendingWithdraw
  <2>3. IDsGrow /\ pending' \subseteq pending
    BY <1>1, <2>2 DEF IDsGrow, txVars, Withdraw
  <2>4. ContractsOK'
    BY <1>1, <2>2, <2>3, ContractsStay
  <2> QED
    BY <2>1, <2>2, <2>4, WithdrawnKeeps
<1> QED
  BY <1>2, <1>3

(* A step that moves nothing.                                                 *)
LEMMA UnmovedKeeps ==
  ASSUME Inv, IDsGrow, ClockOK', TokenOK',
         UNCHANGED <<fees, bal, pending, blog, contracts, pays, payCursor, prunedPays>>
  PROVE  Kept /\ IdealStep
<1>1. /\ PendingsOK /\ ContractsOK /\ LogsOK /\ FeesOK /\ PaysOK
      /\ RefundsOK /\ Countable /\ AuditTrail /\ bal \in [Addr -> Int]
  BY InvFacts
<1>2. FeesOK' /\ PendingsOK' /\ ContractsOK' /\ PaysOK' /\ RefundsOK'
  BY <1>1, FeesStay, PendingsStay, ContractsStay, PaysStay
<1>3. LogsOK' /\ Countable' /\ AuditTrail'
  BY <1>1 DEF LogsOK, Countable, AuditTrail, LogsOf
<1>4. Documents'
  BY <1>2, <1>3 DEF Documents
<1>5. \A a \in Addr : Worth(a)' = Worth(a)
  BY DEF Worth, Owned
<1>6. IdealStep
  BY <1>4, <1>5, NothingSold DEF Inv
<1>7. PrunesStay
  BY DEF PrunesStay
<1>8. Solvent
  BY <1>1 DEF Solvent
<1> QED
  BY <1>4, <1>6, <1>7, <1>8 DEF Kept

(* token/update and the clock; and nothing at all.                            *)
LEMMA IdleStepKeeps ==
  ASSUME Inv, UpdateStep \/ TickStep \/ UNCHANGED vars
  PROVE  Kept /\ IdealStep
<1>1. ClockOK /\ TokenOK /\ nextTx \in Nat \ {0} /\ now \in Nat
  BY InvFacts
<1>2. UNCHANGED <<nextTx, account, fees, bal, pending, blog, contracts, pays, payCursor, prunedPays>>
  BY DEF UpdateStep, TickStep, Tick, vars, txVars, balanceVars, payVars
<1>3. IDsGrow
  BY <1>1, <1>2 DEF IDsGrow
<1>4. ClockOK' /\ TokenOK'
  <2>1. CASE UpdateStep
    <3>1. PICK meta \in Metas : tokenUpdate(meta) /\ UNCHANGED txVars
      BY <2>1 DEF UpdateStep
    <3>2. token' \in Token
      BY <1>1, <3>1, SystemAssumption, TokenUpdateType DEF TokenOK
    <3> QED
      BY <1>1, <1>2, <3>1, <3>2 DEF ClockOK, TokenOK, txVars
  <2>2. CASE TickStep
    BY <1>1, <1>2, <2>2, ContextAssumption DEF TickStep, Tick, ClockOK, TokenOK, StartTime
  <2>3. CASE UNCHANGED vars
    BY <1>1, <2>3 DEF vars, txVars, ClockOK, TokenOK
  <2> QED
    BY <2>1, <2>2, <2>3
<1> QED
  BY <1>2, <1>3, <1>4, UnmovedKeeps

(* All of them.                                                               *)
Collects == PayStep \/ CancelStep \/ ExecuteStep \/ WithdrawStep \/ RefundStep \/ UpdateStep \/ TickStep

(* Whatever is committed but a prune.                                         *)
LEMMA CommitKeeps ==
  ASSUME Inv, Collects
  PROVE  Kept /\ IdealStep
BY PayStepKeeps, RefundStepKeeps, ExecuteStepKeeps, ReturnStepKeeps, IdleStepKeeps DEF Collects

-----------------------------------------------------------------------------
(* Prunes, endorsed and committed.                                            *)

(* A step that is no prune keeps what was pruned behind the cursors.          *)
LEMMA PrunesOKStays ==
  ASSUME Inv, PrunesStay
  PROVE  PrunesOK'
<1>1. PrunesOK /\ PaysOK
  BY InvFacts
<1>2. \A p \in pays : p.tx \in Nat /\ p.tx < nextTx
  BY <1>1, PayForm
<1>3. nextTx \notin prunedPays
  BY <1>1, <1>2 DEF PrunesOK
<1>4. payCursor' = payCursor /\ prunedPays' = prunedPays
  BY DEF PrunesStay
<1>5. (prunedPays \subseteq {p.tx : p \in pays})'
  BY <1>1, <1>4 DEF PrunesOK, PrunesStay
<1>6. ASSUME NEW q \in pays', q.tx \in prunedPays
      PROVE  q.ts <= payCursor[q.merchant]
  <2>1. PICK p \in pays : p.tx = q.tx /\ p.merchant = q.merchant /\ p.ts = q.ts
    BY <1>3, <1>6 DEF PrunesStay
  <2> QED
    BY <1>1, <1>6, <2>1 DEF PrunesOK
<1> QED
  BY <1>1, <1>4, <1>5, <1>6 DEF PrunesOK

(* An endorsed prune survives with the pays it was endorsed on; its id is not *)
(* used by anybody else.                                                      *)
LEMMA SurvivorsOK ==
  ASSUME EndorsedOK, IDsGrow, endorsed' = Survivors,
         \A f \in fees' : f \in fees \/ \A e \in Survivors : FeeSum(e.batch) # 0 => e.tx # f.tx
  PROVE  EndorsedOK'
<1>1. Survivors \subseteq endorsed
  BY DEF Survivors
<1>2. ASSUME NEW e \in Survivors
      PROVE  EndorsementOK(e)'
  <2>1. EndorsementOK(e)
    BY <1>1 DEF EndorsedOK
  <2>2. /\ payCursor'[e.account] = payCursor[e.account] /\ e.batch \subseteq pays'
        /\ bal'[e.account] = bal[e.account]
    BY DEF Survivors
  <2> QED
    BY <2>1, <2>2 DEF EndorsementOK
<1>3. ASSUME NEW e \in Survivors, FeeSum(e.batch) # 0
      PROVE  e.tx < nextTx' /\ \A f \in fees' : f.tx # e.tx
  <2>1. e.tx < nextTx /\ e.tx \in Nat /\ \A f \in fees : f.tx # e.tx
    BY <1>1, <1>3 DEF EndorsedOK, EndorsementOK, Endorsement
  <2> QED
    BY <1>3, <2>1 DEF IDsGrow
<1> QED
  BY <1>1, <1>2, <1>3 DEF EndorsedOK

(* pay/prune, endorsed: it moves nothing yet.                                 *)
LEMMA PruneStepInv ==
  ASSUME Inv, PruneStep
  PROVE  Inv' /\ IdealStep /\ bal' = bal
<1>1. PICK kid \in Kid, a \in Merchants, safely \in PruneFlags, end \in EndTimes, ts \in Timestamps :
        payPrune(kid, a, safely, end, ts)
  BY DEF PruneStep
<1>2. /\ ClockOK /\ TokenOK /\ EndorsedOK /\ PrunesOK /\ PaysOK /\ FeesOK
      /\ nextTx \in Nat \ {0} /\ now \in Nat /\ now >= StartTime
  BY InvFacts
<1>3. PICK batch \in PayBatches(a, payCursor[a], PruneEnd(safely, end, ts)) :
        /\ batch # {}
        /\ IF FeeSum(batch) = 0 THEN UNCHANGED nextTx ELSE UseTxID
        /\ endorsed' = endorsed \cup
             {[account |-> a, ts |-> ts, tx |-> nextTx, at |-> now, bal |-> bal[a],
               batch |-> batch]}
  BY <1>1 DEF payPrune
<1>4. PICK new : new = [account |-> a, ts |-> ts, tx |-> nextTx, at |-> now, bal |-> bal[a],
                        batch |-> batch]
  OBVIOUS
<1>5. /\ new.account = a /\ new.ts = ts /\ new.tx = nextTx /\ new.batch = batch
      /\ new.bal = bal[a]
      /\ endorsed' = endorsed \cup {new}
  BY <1>3, <1>4
<1>6. nextTx' = IF FeeSum(batch) = 0 THEN nextTx ELSE nextTx + 1
  BY <1>3 DEF UseTxID
<1>7. /\ UNCHANGED <<now, token, account, fees, bal, pending, blog, contracts>>
      /\ UNCHANGED <<pays, payCursor, prunedPays>>
  BY <1>1 DEF payPrune, balanceVars
<1>8. IDsGrow
  BY <1>2, <1>6 DEF IDsGrow
<1>9. Kept /\ IdealStep
  <2>1. ClockOK' /\ TokenOK'
    BY <1>2, <1>7, <1>8, RestStays
  <2> QED
    BY <1>7, <1>8, <2>1, UnmovedKeeps
<1>10. \A e : EndorsementOK(e)' <=> EndorsementOK(e)
  BY <1>7 DEF EndorsementOK
<1>11. EndorsementOK(new)
  <2>1. a \in Addr /\ ts \in Nat /\ bal[a] \in Int
    <3>1. bal \in [Addr -> Int]
      BY InvFacts
    <3> QED
      BY <1>2, <3>1, SystemAssumption, TimestampNat
  <2>2. batch \subseteq QueryPrunePays(a, payCursor[a], PruneEnd(safely, end, ts))
    BY <1>3 DEF PayBatches, Batches, kSubset
  <2>3. batch \subseteq pays /\ \A p \in batch : p.merchant = a /\ payCursor[a] < p.ts
    BY <2>2 DEF QueryPrunePays, InRange
  <2>4. batch \subseteq PayRecord
    BY <1>2, <2>3 DEF PaysOK
  <2>5. new \in Endorsement
    BY <1>2, <1>4, <2>1, <2>4 DEF Endorsement
  <2> QED
    BY <1>3, <1>5, <2>3, <2>5 DEF EndorsementOK
<1>12. \A f \in fees : f.tx # nextTx
  BY <1>2 DEF FeesOK, FeeDocument
<1>13. \A e \in endorsed : EndorsementOK(e) /\ e.tx \in Nat
  BY <1>2 DEF EndorsedOK, EndorsementOK, Endorsement
<1>14. EndorsedOK'
  <2>1. (\A e \in endorsed : EndorsementOK(e))'
    BY <1>5, <1>10, <1>11, <1>13
  <2>2. (\A e \in endorsed : FeeSum(e.batch) # 0 => e.tx < nextTx /\ \A f \in fees : f.tx # e.tx)'
    BY <1>2, <1>5, <1>6, <1>7, <1>12, <1>13 DEF EndorsedOK
  <2>3. \A e \in endorsed : FeeSum(e.batch) # 0 => e.tx # nextTx
    BY <1>2, <1>13 DEF EndorsedOK
  <2>4. (\A e, d \in endorsed :
           FeeSum(e.batch) # 0 /\ FeeSum(d.batch) # 0 /\ e.tx = d.tx => e = d)'
    BY <1>2, <1>5, <2>3 DEF EndorsedOK
  <2> QED
    BY <2>1, <2>2, <2>4 DEF EndorsedOK
<1> QED
  BY <1>7, <1>9, <1>14, PrunesOKStays DEF Inv, Kept

(* What a prune takes from the pays still waiting.                            *)
LEMMA DuePruned ==
  ASSUME PaysOK, NEW a, NEW batch \in SUBSET pays, batch \subseteq Waiting(pays),
         \A p \in batch : p.merchant = a,
         prunedPays' = prunedPays \cup {p.tx : p \in batch}, pays' = pays
  PROVE  /\ Sum(batch) \in Int /\ FeeSum(batch) \in Int
         /\ Charge(pays)' = Charge(pays) - FeeSum(batch)
         /\ Due(pays, a)' = Due(pays, a) - (Sum(batch) - FeeSum(batch))
         /\ \A b : b # a => Due(pays, b)' = Due(pays, b)
<1>1. Waiting(pays)' = Waiting(pays) \ batch
  BY DEF Waiting, PaysOK
<1>2. PaySet(pays)
  BY PaysAddUp
<1>3. PICK waiting, owed : waiting = Waiting(pays) /\ owed = Owed(pays, a)
  OBVIOUS
<1>4. /\ PaySet(waiting) /\ PaySet(owed) /\ batch \subseteq waiting /\ batch \subseteq owed
  BY <1>2, <1>3, DueInt DEF Owed
<1>5. /\ Sum(batch) \in Int /\ FeeSum(batch) \in Int
      /\ FeeSum(waiting \ batch) = FeeSum(waiting) - FeeSum(batch)
      /\ Sum(owed \ batch) = Sum(owed) - Sum(batch)
      /\ FeeSum(owed \ batch) = FeeSum(owed) - FeeSum(batch)
      /\ Sum(owed) \in Int /\ FeeSum(owed) \in Int
  BY <1>4, PaySumsSplit, PaySumsTake
<1>6. Charge(pays)' = Charge(pays) - FeeSum(batch)
  BY <1>1, <1>3, <1>5 DEF Charge
<1>7. Due(pays, a)' = Due(pays, a) - (Sum(batch) - FeeSum(batch))
  <2>1. Owed(pays, a)' = owed \ batch
    BY <1>1, <1>3 DEF Owed
  <2>2. Due(pays, a)' = (Sum(owed) - Sum(batch)) - (FeeSum(owed) - FeeSum(batch))
    BY <1>5, <2>1 DEF Due
  <2>3. Due(pays, a) = Sum(owed) - FeeSum(owed)
    BY <1>3 DEF Due
  <2> QED
    BY <1>5, <2>2, <2>3
<1>8. ASSUME NEW b, b # a
      PROVE  Due(pays, b)' = Due(pays, b)
  <2>1. Owed(pays, b)' = Owed(pays, b)
    BY <1>1, <1>8 DEF Owed
  <2> QED
    BY <2>1 DEF Due
<1> QED
  BY <1>5, <1>6, <1>7, <1>8

(* What an endorsed prune adds up has not been collected: it lies beyond the  *)
(* cursor, which moves to its end.                                            *)
LEMMA BatchWaits ==
  ASSUME Inv, NEW e \in endorsed
  PROVE  /\ e.account \in Addr /\ e.tx \in Nat /\ e.ts \in Nat
         /\ e.batch \in SUBSET pays /\ e.batch \subseteq Waiting(pays)
         /\ EndTime(e.batch) \in Nat /\ payCursor[e.account] < EndTime(e.batch)
         /\ \A p \in e.batch : p.merchant = e.account /\ p.ts <= EndTime(e.batch)
<1>1. PrunesOK /\ PaysOK /\ EndorsementOK(e)
  BY InvFacts DEF Inv, EndorsedOK
<1>2. /\ e.account \in Addr /\ e.tx \in Nat /\ e.ts \in Nat
      /\ e.batch \in SUBSET pays /\ e.batch # {}
      /\ \A p \in e.batch : p.merchant = e.account /\ payCursor[e.account] < p.ts
  BY <1>1 DEF EndorsementOK, Endorsement
<1>3. payCursor[e.account] \in Nat
  BY <1>1, <1>2 DEF PrunesOK
<1>4. \A p \in e.batch : p.ts \in Nat
  BY <1>1, <1>2, PayForm
<1>5. ASSUME NEW p \in e.batch, p.tx \in prunedPays
      PROVE  FALSE
  <2>1. p \in pays /\ p.ts \in Nat
    BY <1>2, <1>4
  <2>2. p.ts <= payCursor[e.account] /\ payCursor[e.account] < p.ts
    BY <1>1, <1>2, <1>5, <2>1 DEF PrunesOK
  <2> QED
    BY <1>3, <2>1, <2>2
<1>6. e.batch \subseteq Waiting(pays)
  BY <1>2, <1>5 DEF Waiting
<1>7. PICK batch : batch = e.batch
  OBVIOUS
<1>8. IsFiniteSet(batch) /\ batch # {} /\ \A d \in batch : d.ts \in Int
  BY <1>1, <1>2, <1>4, <1>7, FS_Subset DEF PaysOK
<1>9. PICK end : end = EndTime(batch)
  OBVIOUS
<1>10. end \in Int /\ (\A d \in batch : d.ts <= end) /\ \E d \in batch : d.ts = end
  BY <1>8, <1>9, LatestTime DEF EndTime
<1>11. PICK d \in batch : d.ts = end
  BY <1>10
<1>12. end \in Nat /\ payCursor[e.account] < end
  BY <1>2, <1>4, <1>7, <1>11
<1> QED
  BY <1>2, <1>6, <1>7, <1>9, <1>10, <1>12

(* The commit of a prune: what the merchant was owed becomes its balance, the *)
(* fees become a fee document, and no one is worth more or less.              *)
LEMMA CommitStepInv ==
  ASSUME Inv, CommitStep, endorsed' = Survivors
  PROVE  /\ Inv' /\ IdealStep
         /\ \E a \in Addr : payCursor'[a] # payCursor[a] /\ \A b \in Addr \ {a} : bal'[b] = bal[b]
<1>1. PICK e \in endorsed : payPruneCommit(e)
  BY DEF CommitStep
<1>2. /\ ClockOK /\ TokenOK /\ PendingsOK /\ ContractsOK /\ LogsOK /\ FeesOK /\ PaysOK
      /\ RefundsOK /\ Countable /\ AuditTrail /\ PrunesOK /\ EndorsedOK
      /\ nextTx \in Nat \ {0} /\ now \in Nat /\ bal \in [Addr -> Int]
  BY InvFacts
<1>3. PICK a, ts, tx, batch, end :
        a = e.account /\ ts = e.ts /\ tx = e.tx /\ batch = e.batch /\ end = EndTime(e.batch)
  OBVIOUS
<1>4. /\ a \in Addr /\ tx \in Nat /\ ts \in Nat
      /\ batch \in SUBSET pays /\ batch \subseteq Waiting(pays)
      /\ end \in Nat /\ payCursor[a] < end
      /\ \A p \in batch : p.merchant = a /\ p.ts <= end
  BY <1>3, BatchWaits
<1>5. PICK fee, sum, applied : fee = FeeSum(batch) /\ sum = Sum(batch) /\ applied = sum - fee
  OBVIOUS
<1>6. /\ payCursor' = [payCursor EXCEPT ![a] = end]
      /\ prunedPays' = prunedPays \cup {p.tx : p \in batch}
      /\ CreateFee(a, fee, ts, tx) /\ PutBalanceLogs({Log(a, ts, applied, 0)})
      /\ bal' = [bal EXCEPT ![a] = bal[a] + applied]
  <2>1. e.bal = bal[a]
    BY <1>2, <1>3 DEF EndorsedOK, EndorsementOK
  <2> QED
    BY <1>1, <1>2, <1>3, <1>4, <1>5, <2>1 DEF payPruneCommit
<1>7. UNCHANGED <<now, nextTx, token, account, pending, contracts, pays>>
  BY <1>1 DEF payPruneCommit, txVars
<1>8. /\ sum \in Int /\ fee \in Int
      /\ Charge(pays)' = Charge(pays) - fee
      /\ Due(pays, a)' = Due(pays, a) - (sum - fee)
      /\ \A b : b # a => Due(pays, b)' = Due(pays, b)
  BY <1>2, <1>4, <1>5, <1>6, <1>7, DuePruned
<1>9. applied \in Int
  BY <1>5, <1>8
<1>10. IDsGrow
  BY <1>2, <1>7 DEF IDsGrow
<1>11. fee # 0 => tx < nextTx /\ \A f \in fees : f.tx # tx
  BY <1>2, <1>3, <1>5 DEF EndorsedOK
<1>12. FeesOK'
  <2>1. \A f \in fees : f.tx \in Nat /\ f.tx < nextTx
    BY <1>2 DEF FeesOK, FeeDocument
  <2>2. CASE fee = 0
    BY <1>2, <1>6, <1>7, <2>1, <2>2 DEF FeesOK, CreateFee
  <2>3. CASE fee # 0
    <3>1. Fee(a, fee, ts, tx) \in FeeDocument /\ Fee(a, fee, ts, tx).tx = tx
      BY <1>4, <1>8, <2>3 DEF Fee, FeeDocument
    <3> QED
      BY <1>2, <1>6, <1>7, <1>11, <2>1, <2>3, <3>1 DEF FeesOK, CreateFee
  <2> QED
    BY <2>2, <2>3
<1>13. /\ ClockOK' /\ TokenOK' /\ PendingsOK' /\ ContractsOK' /\ LogsOK' /\ PaysOK' /\ RefundsOK'
  BY <1>2, <1>4, <1>6, <1>7, <1>9, <1>10, RestStays, PendingsStay, ContractsStay, LogPut, PaysStay
<1>14. /\ bal' \in [Addr -> Int] /\ AuditTrail' /\ IsFiniteSet(blog') /\ IntLogs(blog')
  <2>1. applied = applied - 0 /\ 0 \in Int
    BY <1>9
  <2> QED
    BY <1>2, <1>4, <1>6, <1>9, <2>1, OneLogged
<1>15. IsFiniteSet(fees') /\ IntAmounts(fees') /\ AmountSum(fees') = AmountSum(fees) + fee
  <2>1. IsFiniteSet(fees) /\ IntAmounts(fees) /\ AmountSum(fees) \in Int
    BY <1>2, MoneyInt DEF Countable
  <2>2. CASE fee = 0
    <3>1. fees' = fees
      BY <1>6, <2>2 DEF CreateFee
    <3> QED
      BY <2>1, <2>2, <3>1
  <2>3. CASE fee # 0
    BY <1>6, <1>8, <1>11, <2>1, <2>3, FeeCharged
  <2> QED
    BY <2>2, <2>3
<1>16. Countable'
  BY <1>2, <1>7, <1>14, <1>15 DEF Countable
<1>17. Documents'
  BY <1>12, <1>13, <1>14, <1>16 DEF Documents
<1>18. PrunesOK'
  <2>1. payCursor \in [Addr -> Nat] /\ prunedPays \subseteq {p.tx : p \in pays}
    BY <1>2 DEF PrunesOK
  <2>2. /\ payCursor' \in [Addr -> Nat] /\ payCursor'[a] = end
        /\ \A b \in Addr \ {a} : payCursor'[b] = payCursor[b]
    BY <1>4, <1>6, <2>1
  <2>3. prunedPays' \subseteq {p.tx : p \in pays'}
    BY <1>4, <1>6, <1>7, <2>1
  <2>4. ASSUME NEW p \in pays, p.tx \in prunedPays'
        PROVE  p.ts <= payCursor'[p.merchant]
    <3>1. p.ts \in Nat /\ p.merchant \in Addr
      BY <1>2, PayForm
    <3>2. CASE p.tx \in prunedPays
      <4>1. p.ts <= payCursor[p.merchant]
        BY <1>2, <3>2 DEF PrunesOK
      <4>2. CASE p.merchant = a
        <5>1. payCursor[a] \in Nat
          BY <1>4, <2>1
        <5> QED
          BY <1>4, <2>2, <3>1, <4>1, <4>2, <5>1
      <4>3. CASE p.merchant # a
        BY <2>2, <3>1, <4>1, <4>3
      <4> QED
        BY <4>2, <4>3
    <3>3. CASE p.tx \notin prunedPays
      <4>1. PICK q \in batch : q.tx = p.tx
        BY <1>6, <2>4, <3>3
      <4>2. q = p
        BY <1>2, <1>4, <4>1 DEF PaysOK
      <4> QED
        BY <1>4, <2>2, <4>1, <4>2
    <3> QED
      BY <3>2, <3>3
  <2>5. \A p \in pays' : p.tx \in prunedPays' => p.ts <= payCursor'[p.merchant]
    BY <1>7, <2>4
  <2> QED
    BY <2>2, <2>3, <2>5 DEF PrunesOK
<1>19. payCursor'[a] # payCursor[a]
  BY <1>2, <1>4, <1>6 DEF PrunesOK
<1>20. EndorsedOK'
  <2>1. ASSUME NEW f \in fees', f \notin fees, NEW d \in Survivors, FeeSum(d.batch) # 0
        PROVE  d.tx # f.tx
    <3>1. f.tx = tx /\ fee # 0
      BY <1>6, <2>1 DEF CreateFee, Fee
    <3>2. d \in endorsed /\ payCursor'[d.account] = payCursor[d.account]
      BY <2>1 DEF Survivors
    <3>3. d # e
      BY <1>3, <1>19, <3>2
    <3> QED
      BY <1>2, <1>3, <1>5, <2>1, <3>1, <3>2, <3>3 DEF EndorsedOK
  <2> QED
    BY <1>2, <1>10, <2>1, SurvivorsOK
<1>21. ASSUME NEW b \in Addr
       PROVE  Value(b)' = Value(b)
  <2>1. PICK worth, due, moved : /\ worth = Worth(b) /\ due = Due(pays, b)
                                 /\ moved = IF b = a THEN applied ELSE 0
    OBVIOUS
  <2>2. bal[b] \in Int /\ bal'[b] = bal[b] + moved /\ moved \in Int
    BY <1>2, <1>6, <1>9, <2>1
  <2>3. bal'[b] \in Int /\ bal'[b] - bal[b] = moved
    BY <2>2
  <2>4. worth \in Int /\ Worth(b)' = worth + moved
    BY <1>2, <1>7, <2>1, <2>3, WorthStays
  <2>5. due \in Int
    BY <1>2, <2>1, PaysAddUp, DueInt
  <2>6. Due(pays, b)' = due - moved
    BY <1>5, <1>8, <2>1, <2>5
  <2>7. Value(b) = worth + due /\ Value(b)' = Worth(b)' + Due(pays, b)'
    BY <2>1 DEF Value
  <2> QED
    BY <2>2, <2>4, <2>5, <2>6, <2>7
<1>22. IdealStep
  <2>1. Sales' = Sales
    BY <1>7 DEF Sales
  <2>2. Charge(pays) \in Int /\ AmountSum(fees) \in Int
    BY <1>2, PaysAddUp, DueInt, MoneyInt
  <2>3. AmountSum(fees') + Charge(pays)' = AmountSum(fees) + Charge(pays)
    BY <1>8, <1>15, <2>2
  <2> QED
    BY <1>17, <1>21, <2>1, <2>3, IdealStays DEF Inv
<1>23. \A b \in Addr \ {a} : bal'[b] = bal[b]
  BY <1>2, <1>6
<1> QED
  BY <1>4, <1>17, <1>18, <1>19, <1>20, <1>22, <1>23 DEF Inv

-----------------------------------------------------------------------------
(* The theorems.                                                              *)

(* The opening ledger: no pays, nothing set aside, each balance explained by  *)
(* one log.                                                                   *)
LEMMA InvInit == Init => Inv
<1> SUFFICES ASSUME Init PROVE Inv
  OBVIOUS
<1>1. /\ bal \in InitialBalances /\ pending = {} /\ fees = {} /\ contracts = {}
      /\ blog = {Log(a, 0, bal[a], 0) : a \in Addr}
      /\ now = StartTime /\ nextTx = 1
      /\ account = [a \in Addr |-> [holders |-> InitialHolders[a], suspended |-> FALSE]]
      /\ pays = {} /\ payCursor = [a \in Addr |-> 0] /\ prunedPays = {} /\ endorsed = {}
  BY DEF Init, LedgerInit, TxInit
<1>2. PICK policy \in InitialPolicies :
        token = [genesis |-> Genesis, supply |-> InitialSupply, max |-> InitialSupply,
                 policy |-> policy, wrap |-> NoBridge]
  BY DEF Init, LedgerInit
<1>3. bal \in [Addr -> Nat]
  BY <1>1, LedgerAssumption
<1>4. ClockOK
  BY <1>1, ContextAssumption DEF ClockOK, StartTime
<1>5. TokenOK
  <2>1. NoBridge \in WrapBridge
    BY DEF NoBridge, WrapBridge
  <2>2. token \in Token
    BY <1>2, <2>1, LedgerAssumption DEF Token, Addr
  <2>3. account \in [Addr -> Account]
    BY <1>1, LedgerAssumption DEF Account, Addr
  <2> QED
    BY <2>2, <2>3 DEF TokenOK
<1>6. PendingsOK /\ ContractsOK /\ FeesOK
  BY <1>1 DEF PendingsOK, ContractsOK, FeesOK
<1>7. LogsOK
  <2>1. ASSUME NEW a \in Addr
        PROVE  Log(a, 0, bal[a], 0) \in BalanceLog
    BY <1>3 DEF Log, BalanceLog
  <2> QED
    BY <1>1, <2>1 DEF LogsOK
<1>8. PaysOK /\ RefundsOK
  BY <1>1, FS_EmptySet DEF PaysOK, RefundsOK
<1>9. Countable /\ AuditTrail
  BY <1>1, <1>3, OpeningSums
<1>10. PrunesOK /\ EndorsedOK
  BY <1>1 DEF PrunesOK, EndorsedOK
<1> QED
  BY <1>4, <1>5, <1>6, <1>7, <1>8, <1>9, <1>10 DEF Inv, Documents

(* Each step keeps the invariant and maps to one of IdealPay, or to none.     *)
LEMMA InvStep ==
  ASSUME Inv, [Next]_vars
  PROVE  Inv' /\ IdealStep
<1>1. CASE PruneStep
  BY <1>1, PruneStepInv
<1>2. CASE CommitStep /\ endorsed' = Survivors
  BY <1>2, CommitStepInv
<1>3. CASE Collects /\ endorsed' = Survivors
  <2>1. Kept /\ IdealStep
    BY <1>3, CommitKeeps
  <2>2. PrunesOK'
    BY <2>1, PrunesOKStays DEF Kept
  <2>3. EndorsedOK'
    BY <1>3, <2>1, SurvivorsOK DEF Inv, Kept, PrunesStay
  <2> QED
    BY <2>1, <2>2, <2>3 DEF Inv, Kept
<1>4. CASE UNCHANGED vars
  <2>1. Kept /\ IdealStep
    BY <1>4, IdleStepKeeps
  <2>2. PrunesOK'
    BY <2>1, PrunesOKStays DEF Kept
  <2>3. UNCHANGED <<nextTx, fees, bal, pays, payCursor, endorsed>>
    BY <1>4 DEF vars, txVars, balanceVars, payVars
  <2>4. EndorsedOK'
    BY <2>3 DEF Inv, EndorsedOK, EndorsementOK
  <2> QED
    BY <2>1, <2>2, <2>4 DEF Inv, Kept
<1> QED
  BY <1>1, <1>2, <1>3, <1>4 DEF Next, Commit, Collects

(* The invariant is inductive: pays, refunds, callbacks and prunes endorsed   *)
(* earlier interleave in any order.                                           *)
THEOREM PayInvariant == Spec => []Inv
<1>1. Inv /\ [Next]_vars => Inv'
  BY InvStep
<1> QED
  BY <1>1, InvInit, PTL DEF Spec

(* Documents keep their form: pays are positive, refunds negative, and no one *)
(* pays a fee on a deposit for a pay.                                         *)
THEOREM TypeCorrect == Spec => []TypeOK
<1>1. Inv => TypeOK
  <2> SUFFICES ASSUME Inv PROVE TypeOK
    OBVIOUS
  <2>1. /\ ClockOK /\ TokenOK /\ PendingsOK /\ ContractsOK /\ LogsOK /\ FeesOK /\ PaysOK
        /\ PrunesOK /\ EndorsedOK /\ bal \in [Addr -> Int]
    BY InvFacts
  <2>2. prunedPays \subseteq Nat
    BY <2>1, PayForm DEF PrunesOK
  <2>3. endorsed \subseteq Endorsement
    BY <2>1 DEF EndorsedOK, EndorsementOK
  <2>4. \A p \in pays : p.parent = 0 <=> p.amount > 0
    BY <2>1, PayForm
  <2> QED
    BY <2>1, <2>2, <2>3, <2>4
    DEF TypeOK, ClockOK, TokenOK, PendingsOK, ContractsOK, LogsOK, FeesOK, PaysOK, PrunesOK,
        BalanceLog, FeeDocument
<1> QED
  BY <1>1, PayInvariant, PTL

(* No split of the amount gets more out of a pay than was paid, nor more of   *)
(* its fee, although each refund's share of the fee is rounded by itself.     *)
THEOREM RefundsStayWithin == Spec => []RefundsWithinPay
<1>1. Inv => RefundsWithinPay
  BY InvFacts DEF RefundsOK, RefundsOf, Refunds, RefundsWithinPay
<1> QED
  BY <1>1, PayInvariant, PTL

(* A pay that is made owes what the policy of that step charges.              *)
LEMMA NewPayDue ==
  ASSUME Inv, PayStep \/ ExecuteStep, NEW p \in pays', p \notin pays
  PROVE  (\A q \in pays : q.tx # p.tx) /\ FeeDue(p.fee, p.merchant, p.amount)
<1>1. /\ PendingsOK /\ PaysOK /\ token.policy \in FeePolicy
  BY InvFacts
<1>2. p.tx = nextTx /\ p.amount \in Nat \ {0} /\ p.fee = CalcFee(p.merchant, "pay", p.amount)
  <2>1. CASE PayStep
    <3>1. PICK kid \in Kid, sender \in Addr, receiver \in Merchants, amount \in Amounts,
               duration \in Durations, ts \in Timestamps :
            pay(kid, sender, receiver, amount, duration, ts)
      BY <2>1 DEF PayStep
    <3>2. amount \in Nat \ {0}
      BY SystemAssumption
    <3>3. pays' # pays
      OBVIOUS
    <3>4. PayNow(nextTx, sender, receiver, amount, CalcFee(receiver, "pay", amount), ts)
      BY <3>1, <3>3 DEF pay
    <3>5. PICK fee : fee = CalcFee(receiver, "pay", amount)
      OBVIOUS
    <3>6. p = Pay(nextTx, receiver, amount, fee, sender, 0, ts)
      BY <3>4, <3>5 DEF PayNow
    <3>7. p.tx = nextTx /\ p.merchant = receiver /\ p.amount = amount /\ p.fee = fee
      BY <3>6 DEF Pay
    <3> QED
      BY <3>2, <3>5, <3>7
  <2>2. CASE ExecuteStep
    <3>1. PICK c \in contracts, ts \in Timestamps : executePay(c, ts)
      BY <2>2 DEF ExecuteStep
    <3>2. PICK pb \in pending :
            PayPendingBalance(nextTx, pb, CalcFee(c.doc.receiver, "pay", pb.amount),
                              c.doc.receiver, ts)
      BY <3>1 DEF executePay
    <3>3. pb.amount \in Nat \ {0}
      BY <1>1 DEF PendingsOK, PendingBalance
    <3>4. PICK merchant, amount, fee : /\ merchant = c.doc.receiver /\ amount = pb.amount
                                       /\ fee = CalcFee(merchant, "pay", amount)
      OBVIOUS
    <3>5. p = Pay(nextTx, merchant, amount, fee, pb.account, 0, ts)
      BY <3>2, <3>4 DEF PayPendingBalance
    <3>6. p.tx = nextTx /\ p.merchant = merchant /\ p.amount = amount /\ p.fee = fee
      BY <3>5 DEF Pay
    <3> QED
      BY <3>3, <3>4, <3>6
  <2> QED
    BY <2>1, <2>2
<1>3. \A q \in pays : q.tx # nextTx
  <2>1. nextTx \in Nat
    BY InvFacts
  <2> QED
    BY <1>1, <2>1, PayForm
<1> QED
  BY <1>1, <1>2, <1>3, CalcFeeDue

(* The fee of a pay is the one of the policy in force when it is made, by a   *)
(* request or by the callback of a contract that was agreed to earlier, for   *)
(* any policies and updates; no later step changes it.                        *)
THEOREM FeeSettledOnce == Spec => FeeOfPolicyInForce
<1>1. Inv /\ [Next]_vars =>
        [\A p \in pays' : p.parent = 0 =>
           \/ \E q \in pays : q.tx = p.tx /\ q.fee = p.fee
           \/ (\A q \in pays : q.tx # p.tx) /\ FeeDue(p.fee, p.merchant, p.amount)]_vars
  <2> SUFFICES ASSUME Inv, [Next]_vars, NEW p \in pays', p.parent = 0
               PROVE  \/ \E q \in pays : q.tx = p.tx /\ q.fee = p.fee
                      \/ (\A q \in pays : q.tx # p.tx) /\ FeeDue(p.fee, p.merchant, p.amount)
    OBVIOUS
  <2>1. CASE p \in pays
    BY <2>1
  <2>2. CASE p \notin pays /\ (PayStep \/ ExecuteStep)
    BY <2>2, NewPayDue
  <2>3. CASE RefundStep
    <3>1. PICK kid \in Kid, parent \in pays, amount \in Amounts, ts \in Timestamps :
            payRefund(kid, parent, amount, ts)
      BY <2>3 DEF RefundStep
    <3>2. PICK fee : fee = RefundFee(parent, amount)
      OBVIOUS
    <3>3. Refund(nextTx, parent, amount, fee, ts)
      BY <3>1, <3>2 DEF payRefund
    <3>4. parent.tx \in Nat \ {0}
      BY InvFacts, PayForm
    <3>5. PICK new : new = Pay(nextTx, parent.merchant, -amount, -fee, parent.rid, parent.tx, ts)
      OBVIOUS
    <3>6. new.parent # 0
      BY <3>4, <3>5 DEF Pay
    <3>7. PICK old : old = [parent EXCEPT !.refunded = @ + amount]
      OBVIOUS
    <3>8. old.tx = parent.tx /\ old.fee = parent.fee
      <4>1. parent \in PayRecord
        BY InvFacts DEF PaysOK
      <4> QED
        BY <3>7, <4>1 DEF PayRecord
    <3>9. pays' = (pays \ {parent}) \cup {old, new}
      BY <3>3, <3>5, <3>7 DEF Refund
    <3> QED
      BY <3>6, <3>8, <3>9
  <2>4. CASE ~(PayStep \/ ExecuteStep \/ RefundStep)
    <3>1. UNCHANGED pays
      BY <2>4
      DEF Next, Commit, vars, payVars, PruneStep, payPrune, CommitStep, payPruneCommit,
          CancelStep, WithdrawStep, UpdateStep, TickStep
    <3> QED
      BY <3>1
  <2> QED
    BY <2>1, <2>2, <2>3, <2>4
<1> QED
  BY <1>1, PayInvariant, PTL DEF Spec, FeeOfPolicyInForce

(* The balance logs explain the balances, those of prunes endorsed on an      *)
(* earlier state included.                                                    *)
THEOREM LogsComplete == Spec => []AuditTrail
<1>1. Inv => AuditTrail
  BY InvFacts
<1> QED
  BY <1>1, PayInvariant, PTL

(* Only a merchant's own prune takes its balance below zero: refunds paid     *)
(* since the last one may exceed the pays.                                    *)
THEOREM OverdraftByPruneOnly == Spec => OnlyPruneOverdraws
<1>1. Inv /\ [Next]_vars =>
        [\A a \in Addr : bal'[a] < bal[a] /\ bal'[a] < 0 => payCursor'[a] # payCursor[a]]_vars
  <2> SUFFICES ASSUME Inv, [Next]_vars, NEW a \in Addr, bal'[a] < bal[a], bal'[a] < 0
               PROVE  payCursor'[a] # payCursor[a]
    OBVIOUS
  <2>1. bal[a] \in Int /\ bal'[a] \in Int
    <3>1. Inv'
      BY InvStep
    <3>2. Countable /\ Countable'
      BY <3>1 DEF Inv, Documents
    <3> QED
      BY <3>2 DEF Countable
  <2>2. ~(bal'[a] >= 0) /\ bal'[a] # bal[a]
    BY <2>1
  <2>3. CASE PruneStep
    BY <2>2, <2>3, PruneStepInv
  <2>4. CASE CommitStep /\ endorsed' = Survivors
    BY <2>2, <2>4, CommitStepInv
  <2>5. CASE Collects
    <3>1. Solvent
      BY <2>5, CommitKeeps DEF Kept
    <3> QED
      BY <2>2, <3>1 DEF Solvent
  <2>6. CASE UNCHANGED vars
    BY <2>2, <2>6 DEF vars, balanceVars
  <2> QED
    BY <2>3, <2>4, <2>5, <2>6 DEF Next, Commit, Collects
<1> QED
  BY <1>1, PayInvariant, PTL DEF Spec, OnlyPruneOverdraws

(* The opening ledger is an initial state of IdealPay.                        *)
LEMMA InitImplements == Init => Ideal!IdealInit
<1> SUFFICES ASSUME Init PROVE Ideal!IdealInit
  OBVIOUS
<1>1. bal \in InitialBalances /\ pending = {} /\ fees = {} /\ pays = {}
  BY DEF Init, LedgerInit
<1>2. bal \in [Addr -> Nat] /\ PendingsOK /\ Countable /\ PaysOK
  BY <1>1, InvInit, InvFacts, LedgerAssumption
<1>3. PICK none : none = {}
  OBVIOUS
<1>4. PaySet(none) /\ IsFiniteSet(none) /\ IntAmounts(none) /\ IntDeposits(none)
  BY <1>3, FS_EmptySet DEF PaySet, IntAmounts, IntDeposits
<1>5. Sum(none) = 0 /\ FeeSum(none) = 0 /\ AmountSum(none) = 0 /\ DepositSum(none) = 0
  BY <1>3, <1>4, PaySumsTake, AmountSumTake, DepositSumTake
<1>6. Waiting(pays) = none /\ \A a : Owed(pays, a) = none /\ Owned(pending, a) = none
  BY <1>1, <1>3 DEF Waiting, Owed, Owned
<1>7. Wealth = bal
  <2>1. \A a \in Addr : Value(a) = bal[a]
    BY <1>2, <1>5, <1>6 DEF Value, Worth, Due
  <2> QED
    BY <1>2, <2>1, WealthIs
<1>8. Sales = {}
  BY <1>1 DEF Sales
<1>9. Sum(fees) + FeeSum(Uncollected) = 0
  <2>1. AmountSum(fees) + Charge(pays) = 0
    BY <1>1, <1>3, <1>5, <1>6 DEF Charge
  <2> QED
    BY <1>2, <2>1, WealthIs
<1> QED
  BY <1>1, <1>7, <1>8, <1>9 DEF Ideal!IdealInit

(* Pays and refunds are sales and their returns: for any number of merchants  *)
(* each pay is counted once, however prunes endorsed on one state are         *)
(* committed on another, deposits and prunes move nothing, and what is        *)
(* returned stays within the pay and its fee.                                 *)
THEOREM ImplementsIdealPay == Spec => ImplementsIdeal
<1>1. Inv /\ [Next]_vars => [Ideal!IdealNext]_Ideal!idealVars
  BY InvStep DEF IdealStep
<1> QED
  BY <1>1, InitImplements, PayInvariant, PTL DEF Spec, ImplementsIdeal, Ideal!IdealSpec
=============================================================================

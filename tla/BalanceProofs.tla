---------------------------- MODULE BalanceProofs ----------------------------
(* Lemmas about the operations of BalanceStub and the documents they work on, *)
(* for every system built from them: what they charge, what they move and     *)
(* what they log.                                                             *)
EXTENDS TransferTx, TokenTx, SumProofs

(* MulRat yields an integer.                                                  *)
LEMMA MulRatInt ==
  ASSUME NEW amount \in Int, NEW num \in Int, NEW den \in Nat \ {0}
  PROVE  MulRat(amount, num, den) \in Int
<1> DEFINE product == amount * num
<1>1. product \in Int
  OBVIOUS
<1> HIDE DEF product
<1>2. product \div den \in Int
  BY <1>1
<1> QED
  BY <1>2 DEF MulRat, product

(* What CalcFee charges is never negative, and an integer.                    *)
LEMMA CalcFeeNat ==
  ASSUME token.policy \in FeePolicy, NEW payer, NEW fn \in FeeFn, NEW amount \in Int
  PROVE  CalcFee(payer, fn, amount) \in Nat
<1> DEFINE rate == token.policy.rates[fn]
<1> DEFINE fee == MulRat(amount, rate.num, rate.den)
<1>1. rate.num \in Int /\ rate.den \in Nat \ {0} /\ rate.max \in Int
  BY DEF FeePolicy, FeeRate
<1>2. fee \in Int
  BY <1>1, MulRatInt
<1> HIDE DEF fee
<1>3. \/ CalcFee(payer, fn, amount) = 0
      \/ CalcFee(payer, fn, amount) = rate.max /\ rate.max > 0
      \/ CalcFee(payer, fn, amount) = fee /\ ~(fee < 0)
  BY DEF CalcFee, fee
<1> QED
  BY <1>1, <1>2, <1>3

(* A timestamp a handler runs under is positive, and at most Skew ahead.      *)
LEMMA TimestampNat ==
  ASSUME now \in Nat, now >= StartTime, NEW ts \in Timestamps
  PROVE  ts \in Nat \ {0} /\ ts <= now + Skew
BY ContextAssumption DEF Timestamps, StartTime

(* There are finitely many accounts.                                          *)
LEMMA AddrFinite == IsFiniteSet(Addr)
BY AddressAssumption, FS_Union DEF Addr

(* An account document keeps its form when suspended or unsuspended.          *)
LEMMA SuspensionType ==
  ASSUME account \in [Addr -> Account], NEW kid \in Kid,
         SuspendAccount(kid) \/ UnsuspendAccount(kid)
  PROVE  account' \in [Addr -> Account]
BY DEF SuspendAccount, UnsuspendAccount, Account, Addr

(* token/update keeps the form of the token document, whatever policy and     *)
(* bridge it brings.                                                          *)
LEMMA TokenUpdateType ==
  ASSUME token \in Token, NEW meta \in TokenMeta, tokenUpdate(meta)
  PROVE  token' \in Token
<1>1. PICK policy \in NewPolicies(meta), wrap \in NewBridges(meta) :
        token' = [token EXCEPT !.policy = policy, !.wrap = wrap]
  BY DEF tokenUpdate
<1>2. DefaultTarget \in Addr \cup {NoAddr} /\ NoRates \in [FeeFn -> FeeRate]
  BY DEF Token, FeePolicy, DefaultTarget, NoRates, NoRate, FeeRate
<1>3. policy \in FeePolicy
  <2>1. CASE meta.policy = {}
    <3>1. policy = [token.policy EXCEPT !.rates = NoRates] /\ token.policy \in FeePolicy
      BY <2>1 DEF NewPolicies, Token
    <3> QED
      BY <1>2, <3>1 DEF FeePolicy
  <2>2. CASE meta.policy # {}
    <3>1. PICK p \in meta.policy :
            policy = [installed |-> TRUE, rates |-> p.rates,
                      target |-> IF p.target = NoAddr THEN DefaultTarget ELSE p.target]
      BY <2>2 DEF NewPolicies
    <3>2. p.target \in Addr \cup {NoAddr} /\ p.rates \in [FeeFn -> FeeRate]
      BY DEF TokenMeta, MetaPolicy
    <3> QED
      BY <1>2, <3>1, <3>2 DEF FeePolicy
  <2> QED
    BY <2>1, <2>2
<1>4. wrap \in WrapBridge
  BY DEF NewBridges, TokenMeta, Token
<1> QED
  BY <1>1, <1>3, <1>4 DEF Token

-----------------------------------------------------------------------------
(* Sums over documents.                                                       *)

IntAmounts(docs) == \A d \in docs : d.amount \in Int
IntDeposits(pbs) == \A pb \in pbs : pb.amount \in Int /\ pb.fee \in Int
IntLogs(logs) == \A l \in logs : l.diff \in Int /\ l.fee \in Int

AmountSum(docs) == SumFunction([d \in docs |-> d.amount])
DepositSum(pbs) == SumFunction([pb \in pbs |-> pb.amount + pb.fee])
LogSum(logs) == SumFunction([l \in logs |-> l.diff - l.fee])

(* Amounts add up to an integer; a document less takes its amount from the    *)
(* sum.                                                                       *)
LEMMA AmountSumTake ==
  ASSUME NEW S, IsFiniteSet(S), IntAmounts(S)
  PROVE  /\ AmountSum(S) \in Int
         /\ S = {} => AmountSum(S) = 0
         /\ \A x \in S : AmountSum(S \ {x}) = AmountSum(S) - x.amount
<1> DEFINE f == [d \in S |-> d.amount]
<1>0. f \in [S -> Int]
  BY DEF IntAmounts
<1>1. \A x \in S : f[x] = x.amount
  OBVIOUS
<1>2. AmountSum(S) = SumFunction(f)
  BY DEF AmountSum
<1> HIDE DEF f
<1>3. AmountSum(S) \in Int /\ (S = {} => AmountSum(S) = 0)
  BY <1>0, <1>2, SumFunctionInt
<1>4. ASSUME NEW x \in S
      PROVE  AmountSum(S \ {x}) = AmountSum(S) - x.amount
  <2> DEFINE e == [d \in S \ {x} |-> d.amount]
  <2>1. e \in [S \ {x} -> Int] /\ \A y \in S \ {x} : e[y] = f[y]
    BY <1>0, <1>1
  <2>2. AmountSum(S \ {x}) = SumFunction(e)
    BY DEF AmountSum
  <2> HIDE DEF e
  <2>3. SumFunction(f) = f[x] + SumFunction(e)
    BY <1>0, <2>1, SumFunctionTake
  <2>4. SumFunction(e) \in Int /\ f[x] = x.amount /\ f[x] \in Int
    BY <1>0, <1>1, <2>1, FS_RemoveElement, SumFunctionInt
  <2> QED
    BY <1>2, <2>2, <2>3, <2>4
<1> QED
  BY <1>3, <1>4

(* A document more adds its amount.                                           *)
LEMMA AmountSumAdd ==
  ASSUME NEW S, IsFiniteSet(S), IntAmounts(S),
         NEW x, x.amount \in Int, x \notin S
  PROVE  IsFiniteSet(S \cup {x}) /\ AmountSum(S \cup {x}) = AmountSum(S) + x.amount
<1> DEFINE T == S \cup {x}
<1>1. IsFiniteSet(T) /\ T \ {x} = S /\ x \in T
  BY FS_AddElement
<1>2. IntAmounts(T)
  BY DEF IntAmounts
<1> HIDE DEF T
<1>3. AmountSum(T) \in Int /\ AmountSum(S) = AmountSum(T) - x.amount
  BY <1>1, <1>2, AmountSumTake
<1>4. x.amount \in Int
  OBVIOUS
<1> QED
  BY <1>1, <1>3, <1>4 DEF T

(* The same for what pending balances hold.                                   *)
LEMMA DepositSumTake ==
  ASSUME NEW S, IsFiniteSet(S), IntDeposits(S)
  PROVE  /\ DepositSum(S) \in Int
         /\ S = {} => DepositSum(S) = 0
         /\ \A x \in S : DepositSum(S \ {x}) = DepositSum(S) - (x.amount + x.fee)
<1> DEFINE f == [d \in S |-> d.amount + d.fee]
<1>0. f \in [S -> Int]
  BY DEF IntDeposits
<1>1. \A x \in S : f[x] = x.amount + x.fee
  OBVIOUS
<1>2. DepositSum(S) = SumFunction(f)
  BY DEF DepositSum
<1> HIDE DEF f
<1>3. DepositSum(S) \in Int /\ (S = {} => DepositSum(S) = 0)
  BY <1>0, <1>2, SumFunctionInt
<1>4. ASSUME NEW x \in S
      PROVE  DepositSum(S \ {x}) = DepositSum(S) - (x.amount + x.fee)
  <2> DEFINE e == [d \in S \ {x} |-> d.amount + d.fee]
  <2>1. e \in [S \ {x} -> Int] /\ \A y \in S \ {x} : e[y] = f[y]
    BY <1>0, <1>1
  <2>2. DepositSum(S \ {x}) = SumFunction(e)
    BY DEF DepositSum
  <2> HIDE DEF e
  <2>3. SumFunction(f) = f[x] + SumFunction(e)
    BY <1>0, <2>1, SumFunctionTake
  <2>4. SumFunction(e) \in Int /\ f[x] = x.amount + x.fee /\ f[x] \in Int
    BY <1>0, <1>1, <2>1, FS_RemoveElement, SumFunctionInt
  <2> QED
    BY <1>2, <2>2, <2>3, <2>4
<1> QED
  BY <1>3, <1>4

(* And one more.                                                              *)
LEMMA DepositSumAdd ==
  ASSUME NEW S, IsFiniteSet(S), IntDeposits(S),
         NEW x, x.amount \in Int, x.fee \in Int, x \notin S
  PROVE  IsFiniteSet(S \cup {x}) /\ DepositSum(S \cup {x}) = DepositSum(S) + (x.amount + x.fee)
<1> DEFINE T == S \cup {x}
<1>1. IsFiniteSet(T) /\ T \ {x} = S /\ x \in T
  BY FS_AddElement
<1>2. IntDeposits(T)
  BY DEF IntDeposits
<1> HIDE DEF T
<1>3. DepositSum(T) \in Int /\ DepositSum(S) = DepositSum(T) - (x.amount + x.fee)
  BY <1>1, <1>2, DepositSumTake
<1>4. x.amount + x.fee \in Int
  OBVIOUS
<1> QED
  BY <1>1, <1>3, <1>4 DEF T

(* The same for what balance logs tell.                                       *)
LEMMA LogSumTake ==
  ASSUME NEW S, IsFiniteSet(S), IntLogs(S)
  PROVE  /\ LogSum(S) \in Int
         /\ S = {} => LogSum(S) = 0
         /\ \A x \in S : LogSum(S \ {x}) = LogSum(S) - (x.diff - x.fee)
<1> DEFINE f == [d \in S |-> d.diff - d.fee]
<1>0. f \in [S -> Int]
  BY DEF IntLogs
<1>1. \A x \in S : f[x] = x.diff - x.fee
  OBVIOUS
<1>2. LogSum(S) = SumFunction(f)
  BY DEF LogSum
<1> HIDE DEF f
<1>3. LogSum(S) \in Int /\ (S = {} => LogSum(S) = 0)
  BY <1>0, <1>2, SumFunctionInt
<1>4. ASSUME NEW x \in S
      PROVE  LogSum(S \ {x}) = LogSum(S) - (x.diff - x.fee)
  <2> DEFINE e == [d \in S \ {x} |-> d.diff - d.fee]
  <2>1. e \in [S \ {x} -> Int] /\ \A y \in S \ {x} : e[y] = f[y]
    BY <1>0, <1>1
  <2>2. LogSum(S \ {x}) = SumFunction(e)
    BY DEF LogSum
  <2> HIDE DEF e
  <2>3. SumFunction(f) = f[x] + SumFunction(e)
    BY <1>0, <2>1, SumFunctionTake
  <2>4. SumFunction(e) \in Int /\ f[x] = x.diff - x.fee /\ f[x] \in Int
    BY <1>0, <1>1, <2>1, FS_RemoveElement, SumFunctionInt
  <2> QED
    BY <1>2, <2>2, <2>3, <2>4
<1> QED
  BY <1>3, <1>4

(* And one more.                                                              *)
LEMMA LogSumAdd ==
  ASSUME NEW S, IsFiniteSet(S), IntLogs(S),
         NEW x, x.diff \in Int, x.fee \in Int, x \notin S
  PROVE  IsFiniteSet(S \cup {x}) /\ LogSum(S \cup {x}) = LogSum(S) + (x.diff - x.fee)
<1> DEFINE T == S \cup {x}
<1>1. IsFiniteSet(T) /\ T \ {x} = S /\ x \in T
  BY FS_AddElement
<1>2. IntLogs(T)
  BY DEF IntLogs
<1> HIDE DEF T
<1>3. LogSum(T) \in Int /\ LogSum(S) = LogSum(T) - (x.diff - x.fee)
  BY <1>1, <1>2, LogSumTake
<1>4. x.diff - x.fee \in Int
  OBVIOUS
<1> QED
  BY <1>1, <1>3, <1>4 DEF T

(* The sum of a set is that of a part and of the rest.                        *)
LEMMA AmountSumSplit ==
  ASSUME NEW S, IsFiniteSet(S), IntAmounts(S), NEW P, P \subseteq S
  PROVE  /\ AmountSum(S) \in Int /\ AmountSum(P) \in Int /\ AmountSum(S \ P) \in Int
         /\ AmountSum(S) = AmountSum(P) + AmountSum(S \ P)
<1> DEFINE f == [d \in S |-> d.amount]
           part == [d \in P |-> d.amount]
           rest == [d \in S \ P |-> d.amount]
<1>1. f \in [S -> Int] /\ part \in [P -> Int] /\ rest \in [S \ P -> Int]
  BY DEF IntAmounts
<1>2. \A y \in P : part[y] = f[y]
  OBVIOUS
<1>3. \A y \in S \ P : rest[y] = f[y]
  OBVIOUS
<1>4. IsFiniteSet(P) /\ IsFiniteSet(S \ P)
  BY FS_Subset
<1>5. /\ AmountSum(S) = SumFunction(f) /\ AmountSum(P) = SumFunction(part)
      /\ AmountSum(S \ P) = SumFunction(rest)
  BY DEF AmountSum
<1> HIDE DEF f, part, rest
<1>6. SumFunction(f) = SumFunction(part) + SumFunction(rest)
  <2>1. IsFiniteSet(S) /\ P \in SUBSET S
    OBVIOUS
  <2> QED
    BY ONLY <1>1, <1>2, <1>3, <2>1, SumFunctionSplit
<1>7. SumFunction(f) \in Int /\ SumFunction(part) \in Int /\ SumFunction(rest) \in Int
  BY <1>1, <1>4, SumFunctionInt
<1> QED
  BY <1>5, <1>6, <1>7

-----------------------------------------------------------------------------
(* The audit trail.                                                           *)

(* If every balance changes by what one new log says of it, or not at all     *)
(* when no log is about it, the logs still explain the balances: their keys   *)
(* keep old logs from being overwritten.                                      *)
LEMMA LogsExplain ==
  ASSUME IsFiniteSet(blog), IntLogs(blog), AuditTrail,
         NEW logs, IntLogs(logs), PutBalanceLogs(logs),
         \A l, m \in logs : l.addr = m.addr => l = m,
         \A l \in logs : l.addr \in Addr => bal'[l.addr] = bal[l.addr] + l.diff - l.fee,
         \A a \in Addr : (\A l \in logs : l.addr # a) => bal'[a] = bal[a]
  PROVE  AuditTrail'
<1> SUFFICES ASSUME NEW a \in Addr
             PROVE  bal'[a] = LogSum({l \in blog' : l.addr = a})
  BY DEF AuditTrail, LogsOf, LogSum
<1> DEFINE old == {l \in blog : l.addr = a}
           new == {l \in blog' : l.addr = a}
<1>1. bal[a] = LogSum(old)
  BY DEF AuditTrail, LogsOf, LogSum
<1>2. IsFiniteSet(old) /\ IntLogs(old)
  BY FS_Subset DEF IntLogs
<1>3. blog' = blog \cup logs
  BY DEF PutBalanceLogs
<1>4. CASE \A l \in logs : l.addr # a
  <2>1. new = old
    BY <1>3, <1>4
  <2> QED
    BY <1>1, <1>4, <2>1
<1>5. CASE \E l \in logs : l.addr = a
  <2>1. PICK l \in logs : l.addr = a
    BY <1>5
  <2>2. l \notin old
    BY <2>1 DEF PutBalanceLogs
  <2>3. new = old \cup {l}
    BY <1>3, <2>1
  <2>4. l.diff \in Int /\ l.fee \in Int /\ bal'[a] = bal[a] + l.diff - l.fee
    BY <2>1 DEF IntLogs
  <2> HIDE DEF old, new
  <2>5. LogSum(old \cup {l}) = LogSum(old) + (l.diff - l.fee) /\ LogSum(old) \in Int
    BY <1>2, <2>2, <2>4, LogSumAdd, LogSumTake
  <2>6. bal'[a] = LogSum(new)
    BY <1>1, <2>3, <2>4, <2>5
  <2> QED
    BY <2>6 DEF new
<1> QED
  BY <1>4, <1>5

-----------------------------------------------------------------------------
(* What the operations of BalanceStub move.                                   *)

(* The documents the sums range over: finitely many, with integers in them.   *)
Countable ==
  /\ bal \in [Addr -> Int]
  /\ IsFiniteSet(pending) /\ IntDeposits(pending) /\ \A pb \in pending : pb.account \in Addr
  /\ IsFiniteSet(blog) /\ IntLogs(blog)
  /\ IsFiniteSet(fees) /\ IntAmounts(fees)

(* Every balance is the sum of its logs, and all money there is.              *)
Money == SumFunction(bal) + DepositSum(pending) + AmountSum(fees)

(* A new transaction id is in no document.                                    *)
Fresh(tx) == (\A pb \in pending : pb.id # tx) /\ (\A f \in fees : f.tx # tx)

(* All sums are integers.                                                     *)
LEMMA MoneyInt ==
  ASSUME Countable
  PROVE  SumFunction(bal) \in Int /\ DepositSum(pending) \in Int /\ AmountSum(fees) \in Int
BY AddrFinite, SumFunctionInt, DepositSumTake, AmountSumTake DEF Countable

(* One balance changes.                                                       *)
LEMMA BalanceChange ==
  ASSUME bal \in [Addr -> Int], NEW a \in Addr, NEW amount \in Int,
         bal' \in [Addr -> Int], bal'[a] = bal[a] + amount,
         \A b \in Addr \ {a} : bal'[b] = bal[b]
  PROVE  SumFunction(bal') = SumFunction(bal) + amount
<1> DEFINE new == bal'
<1>1. /\ new \in [Addr -> Int] /\ new[a] = bal[a] + amount /\ bal[a] \in Int
      /\ \A b \in Addr \ {a} : new[b] = bal[b]
  OBVIOUS
<1>2. SumFunction(bal) \in Int
  BY AddrFinite, SumFunctionInt
<1> HIDE DEF new
<1>3. SumFunction(new) = SumFunction(bal) - bal[a] + new[a]
  BY <1>1, AddrFinite, SumFunctionChange
<1>4. SumFunction(new) = SumFunction(bal) + amount
  BY <1>1, <1>2, <1>3
<1> QED
  BY <1>1, <1>4 DEF new

(* Two balances change.                                                       *)
LEMMA BalanceMove ==
  ASSUME bal \in [Addr -> Int], NEW a \in Addr, NEW b \in Addr, a # b,
         NEW take \in Int, NEW give \in Int,
         bal' \in [Addr -> Int], bal'[a] = bal[a] - take, bal'[b] = bal[b] + give,
         \A x \in Addr \ {a, b} : bal'[x] = bal[x]
  PROVE  SumFunction(bal') = SumFunction(bal) - take + give
<1> DEFINE new == bal'
<1>1. /\ new \in [Addr -> Int] /\ new[a] = bal[a] - take /\ new[b] = bal[b] + give
      /\ bal[a] \in Int /\ bal[b] \in Int
      /\ \A x \in Addr \ {a, b} : new[x] = bal[x]
  OBVIOUS
<1>2. SumFunction(bal) \in Int
  BY AddrFinite, SumFunctionInt
<1> HIDE DEF new
<1>3. SumFunction(new) = SumFunction(bal) - bal[a] - bal[b] + new[a] + new[b]
  BY <1>1, AddrFinite, SumFunctionMove
<1>4. SumFunction(new) = SumFunction(bal) - take + give
  BY <1>1, <1>2, <1>3
<1> QED
  BY <1>4 DEF new

(* Sets of one and of two are finite.                                         *)
LEMMA PairFinite ==
  ASSUME NEW x, NEW y
  PROVE  IsFiniteSet({x}) /\ IsFiniteSet({x, y})
<1>1. IsFiniteSet({x}) /\ IsFiniteSet({y})
  BY FS_Singleton
<1>2. {x, y} = {x} \cup {y}
  OBVIOUS
<1> QED
  BY <1>1, <1>2, FS_Union

(* Logs written.                                                              *)
LEMMA LogsPut ==
  ASSUME IsFiniteSet(blog), IntLogs(blog),
         NEW logs, IsFiniteSet(logs), IntLogs(logs), PutBalanceLogs(logs)
  PROVE  IsFiniteSet(blog') /\ IntLogs(blog')
BY FS_Union DEF PutBalanceLogs, IntLogs

(* A fee charged under a new transaction id.                                  *)
LEMMA FeeCharged ==
  ASSUME IsFiniteSet(fees), IntAmounts(fees),
         NEW a, NEW fee \in Int, NEW ts, NEW tx, CreateFee(a, fee, ts, tx),
         \A f \in fees : f.tx # tx
  PROVE  IsFiniteSet(fees') /\ IntAmounts(fees') /\ AmountSum(fees') = AmountSum(fees) + fee
<1>1. AmountSum(fees) \in Int
  BY AmountSumTake
<1>2. CASE fee = 0
  BY <1>1, <1>2 DEF CreateFee
<1>3. CASE fee # 0
  <2> DEFINE f == Fee(a, fee, ts, tx)
  <2>1. f.amount = fee /\ f \notin fees
    BY DEF Fee
  <2>2. fees' = fees \cup {f}
    BY <1>3 DEF CreateFee
  <2> HIDE DEF f
  <2>3. IsFiniteSet(fees \cup {f}) /\ AmountSum(fees \cup {f}) = AmountSum(fees) + f.amount
    BY <2>1, AmountSumAdd
  <2>4. IntAmounts(fees \cup {f})
    BY <2>1 DEF IntAmounts
  <2> QED
    BY <2>1, <2>2, <2>3, <2>4
<1> QED
  BY <1>2, <1>3

(* A pending balance put under a new id.                                      *)
LEMMA PendingPut ==
  ASSUME NEW pbs, IsFiniteSet(pbs), IntDeposits(pbs), NEW tx, \A pb \in pbs : pb.id # tx,
         NEW type, NEW owner, NEW rid, NEW amount \in Int, NEW fee \in Int, NEW time,
         NEW new, new = pbs \cup {Pending(tx, type, owner, rid, amount, fee, time)}
  PROVE  /\ IsFiniteSet(new) /\ IntDeposits(new)
         /\ DepositSum(new) = DepositSum(pbs) + (amount + fee)
<1> DEFINE p == Pending(tx, type, owner, rid, amount, fee, time)
<1>1. p.amount = amount /\ p.fee = fee /\ p \notin pbs
  BY DEF Pending
<1>2. new = pbs \cup {p}
  OBVIOUS
<1> HIDE DEF p
<1>3. /\ IsFiniteSet(pbs \cup {p})
      /\ DepositSum(pbs \cup {p}) = DepositSum(pbs) + (p.amount + p.fee)
  BY <1>1, DepositSumAdd
<1>4. IntDeposits(pbs \cup {p})
  BY <1>1 DEF IntDeposits
<1> QED
  BY <1>1, <1>2, <1>3, <1>4

(* A pending balance taken.                                                   *)
LEMMA PendingTaken ==
  ASSUME NEW pbs, IsFiniteSet(pbs), IntDeposits(pbs), NEW pb \in pbs, NEW new, new = pbs \ {pb}
  PROVE  /\ IsFiniteSet(new) /\ IntDeposits(new)
         /\ DepositSum(new) = DepositSum(pbs) - (pb.amount + pb.fee)
BY FS_RemoveElement, DepositSumTake DEF IntDeposits

(* What an account owns of a set of pending balances.                         *)
Owned(pbs, a) == {pb \in pbs : pb.account = a}

(* Its sums, when one is put ...                                              *)
LEMMA OwnedPut ==
  ASSUME NEW pbs, IsFiniteSet(pbs), IntDeposits(pbs),
         NEW p, p \notin pbs, p.amount \in Int, p.fee \in Int, NEW a
  PROVE  /\ AmountSum(Owned(pbs, a)) \in Int /\ DepositSum(Owned(pbs, a)) \in Int
         /\ p.account = a =>
              /\ AmountSum(Owned(pbs \cup {p}, a)) = AmountSum(Owned(pbs, a)) + p.amount
              /\ DepositSum(Owned(pbs \cup {p}, a)) = DepositSum(Owned(pbs, a)) + (p.amount + p.fee)
         /\ p.account # a => Owned(pbs \cup {p}, a) = Owned(pbs, a)
<1> DEFINE own == Owned(pbs, a)
<1>1. own \subseteq pbs /\ IsFiniteSet(own)
  BY FS_Subset DEF Owned
<1>2. IntDeposits(own) /\ IntAmounts(own) /\ p \notin own
  BY <1>1 DEF IntDeposits, IntAmounts
<1>3. AmountSum(own) \in Int /\ DepositSum(own) \in Int
  BY <1>1, <1>2, AmountSumTake, DepositSumTake
<1>4. /\ p.account = a => Owned(pbs \cup {p}, a) = own \cup {p}
      /\ p.account # a => Owned(pbs \cup {p}, a) = own
  BY DEF Owned
<1> HIDE DEF own
<1>5. /\ AmountSum(own \cup {p}) = AmountSum(own) + p.amount
      /\ DepositSum(own \cup {p}) = DepositSum(own) + (p.amount + p.fee)
  BY <1>1, <1>2, AmountSumAdd, DepositSumAdd
<1> QED
  BY <1>3, <1>4, <1>5 DEF own

(* ... and when one is taken.                                                 *)
LEMMA OwnedTaken ==
  ASSUME NEW pbs, IsFiniteSet(pbs), IntDeposits(pbs), NEW p \in pbs, NEW a
  PROVE  /\ AmountSum(Owned(pbs, a)) \in Int /\ DepositSum(Owned(pbs, a)) \in Int
         /\ p.account = a =>
              /\ AmountSum(Owned(pbs \ {p}, a)) = AmountSum(Owned(pbs, a)) - p.amount
              /\ DepositSum(Owned(pbs \ {p}, a)) = DepositSum(Owned(pbs, a)) - (p.amount + p.fee)
         /\ p.account # a => Owned(pbs \ {p}, a) = Owned(pbs, a)
<1> DEFINE rest == pbs \ {p}
           whole == rest \cup {p}
<1>1. whole = pbs /\ rest = pbs \ {p} /\ p \notin rest
  OBVIOUS
<1>2. IsFiniteSet(rest) /\ IntDeposits(rest) /\ p.amount \in Int /\ p.fee \in Int
  BY FS_RemoveElement DEF IntDeposits
<1> HIDE DEF rest
<1>3. /\ AmountSum(Owned(rest, a)) \in Int /\ DepositSum(Owned(rest, a)) \in Int
      /\ p.account = a =>
           /\ AmountSum(Owned(whole, a)) = AmountSum(Owned(rest, a)) + p.amount
           /\ DepositSum(Owned(whole, a)) = DepositSum(Owned(rest, a)) + (p.amount + p.fee)
      /\ p.account # a => Owned(whole, a) = Owned(rest, a)
  BY <1>1, <1>2, OwnedPut
<1> HIDE DEF whole
<1>4. /\ AmountSum(Owned(rest, a)) \in Int /\ DepositSum(Owned(rest, a)) \in Int
      /\ p.account = a =>
           /\ AmountSum(Owned(pbs, a)) = AmountSum(Owned(rest, a)) + p.amount
           /\ DepositSum(Owned(pbs, a)) = DepositSum(Owned(rest, a)) + (p.amount + p.fee)
      /\ p.account # a => Owned(pbs, a) = Owned(rest, a)
  BY <1>1, <1>3
<1> DEFINE sum == AmountSum(Owned(rest, a))
           deposits == DepositSum(Owned(rest, a))
           all == AmountSum(Owned(pbs, a))
           allDeposits == DepositSum(Owned(pbs, a))
<1>5. /\ sum \in Int /\ deposits \in Int
      /\ p.account = a => all = sum + p.amount /\ allDeposits = deposits + (p.amount + p.fee)
      /\ p.account # a => all = sum /\ allDeposits = deposits
  BY <1>4
<1> HIDE DEF sum, deposits, all, allDeposits
<1>6. /\ all \in Int /\ allDeposits \in Int
      /\ p.account = a => sum = all - p.amount /\ deposits = allDeposits - (p.amount + p.fee)
  BY <1>2, <1>5
<1> QED
  BY <1>1, <1>4, <1>6 DEF sum, deposits, all, allDeposits

(* A single log about an address of which the balance changes accordingly.    *)
LEMMA LogExplains ==
  ASSUME Countable, AuditTrail, NEW a \in Addr, NEW ts, NEW diff \in Int, NEW fee \in Int,
         PutBalanceLogs({Log(a, ts, diff, fee)}),
         bal'[a] = bal[a] + diff - fee, \A b \in Addr \ {a} : bal'[b] = bal[b]
  PROVE  AuditTrail' /\ IsFiniteSet(blog') /\ IntLogs(blog')
<1> DEFINE logs == {Log(a, ts, diff, fee)}
<1>0. IsFiniteSet(logs)
  BY PairFinite
<1>1. /\ IntLogs(logs) /\ PutBalanceLogs(logs)
      /\ \A l, m \in logs : l.addr = m.addr => l = m
  BY DEF Log, IntLogs
<1>2. \A l \in logs : l.addr \in Addr => bal'[l.addr] = bal[l.addr] + l.diff - l.fee
  BY DEF Log
<1>3. \A b \in Addr : (\A l \in logs : l.addr # b) => bal'[b] = bal[b]
  BY DEF Log
<1> HIDE DEF logs
<1> QED
  BY <1>0, <1>1, <1>2, <1>3, LogsPut, LogsExplain DEF Countable

(* Two logs.                                                                  *)
LEMMA LogsOfBoth ==
  ASSUME Countable, AuditTrail, NEW a \in Addr, NEW b \in Addr, a # b, NEW ts,
         NEW give \in Int, NEW diff \in Int, NEW fee \in Int,
         PutBalanceLogs({Log(b, ts, give, 0), Log(a, ts, diff, fee)}),
         bal'[a] = bal[a] + diff - fee, bal'[b] = bal[b] + give,
         \A x \in Addr \ {a, b} : bal'[x] = bal[x]
  PROVE  AuditTrail' /\ IsFiniteSet(blog') /\ IntLogs(blog')
<1> DEFINE logs == {Log(b, ts, give, 0), Log(a, ts, diff, fee)}
<1>0. IsFiniteSet(logs)
  BY PairFinite
<1>1. /\ IntLogs(logs) /\ PutBalanceLogs(logs)
      /\ \A l, m \in logs : l.addr = m.addr => l = m
  BY DEF Log, IntLogs
<1>2. \A l \in logs : l.addr \in Addr => bal'[l.addr] = bal[l.addr] + l.diff - l.fee
  <2>1. bal[b] \in Int
    BY DEF Countable
  <2> QED
    BY <2>1 DEF Log
<1>3. \A x \in Addr : (\A l \in logs : l.addr # x) => bal'[x] = bal[x]
  BY DEF Log
<1> HIDE DEF logs
<1> QED
  BY <1>0, <1>1, <1>2, <1>3, LogsPut, LogsExplain DEF Countable

-----------------------------------------------------------------------------

(* One balance changes by what one log says.                                  *)
LEMMA OneLogged ==
  ASSUME Countable, AuditTrail, NEW a \in Addr, NEW d \in Int, NEW diff \in Int, NEW fee \in Int,
         d = diff - fee, NEW ts, PutBalanceLogs({Log(a, ts, diff, fee)}),
         bal' = [bal EXCEPT ![a] = bal[a] + d]
  PROVE  /\ bal' \in [Addr -> Int] /\ SumFunction(bal') = SumFunction(bal) + d
         /\ AuditTrail' /\ IsFiniteSet(blog') /\ IntLogs(blog')
<1>2. bal \in [Addr -> Int] /\ bal[a] \in Int
  BY DEF Countable
<1>3. /\ bal' \in [Addr -> Int] /\ bal'[a] = bal[a] + d
      /\ \A x \in Addr \ {a} : bal'[x] = bal[x]
  BY <1>2
<1>4. SumFunction(bal') = SumFunction(bal) + d
  BY <1>2, <1>3, BalanceChange
<1>5. bal'[a] = bal[a] + diff - fee
  BY <1>2, <1>3
<1>6. AuditTrail' /\ IsFiniteSet(blog') /\ IntLogs(blog')
  BY <1>3, <1>5, LogExplains
<1> QED
  BY <1>3, <1>4, <1>6

(* Together with a fee that is charged, or none.                              *)
LEMMA OneMoves ==
  ASSUME Countable, NEW d \in Int, NEW charged \in Int, pending' = pending,
         bal' \in [Addr -> Int], SumFunction(bal') = SumFunction(bal) + d,
         IsFiniteSet(blog'), IntLogs(blog'),
         IsFiniteSet(fees'), IntAmounts(fees'), AmountSum(fees') = AmountSum(fees) + charged
  PROVE  Countable' /\ Money' = Money + d + charged
<1>1. SumFunction(bal) \in Int /\ DepositSum(pending) \in Int /\ AmountSum(fees) \in Int
  BY MoneyInt
<1> QED
  BY <1>1 DEF Countable, Money

(* One balance changes, and nothing is charged.                               *)
LEMMA OneMovesFree ==
  ASSUME Countable, AuditTrail, NEW a \in Addr, NEW d \in Int, NEW ts,
         PutBalanceLogs({Log(a, ts, d, 0)}),
         bal' = [bal EXCEPT ![a] = bal[a] + d], pending' = pending, fees' = fees
  PROVE  Countable' /\ AuditTrail' /\ Money' = Money + d
<1>1. PICK zero : zero = 0
  OBVIOUS
<1>2. zero \in Int /\ d = d - zero /\ PutBalanceLogs({Log(a, ts, d, zero)})
  BY <1>1
<1>3. /\ bal' \in [Addr -> Int] /\ SumFunction(bal') = SumFunction(bal) + d
      /\ AuditTrail' /\ IsFiniteSet(blog') /\ IntLogs(blog')
  BY <1>2, OneLogged
<1>4. SumFunction(bal) \in Int /\ DepositSum(pending) \in Int /\ AmountSum(fees) \in Int
  BY MoneyInt
<1> QED
  BY <1>3, <1>4 DEF Countable, Money

(* Transfer moves the amount, to the receiver or to a pending balance, and    *)
(* the fee; every balance it changes has its log.                             *)
LEMMA TransferMoves ==
  ASSUME Countable, AuditTrail, NEW tx, Fresh(tx),
         NEW sender \in Addr, NEW receiver \in Addr, sender # receiver,
         NEW amount \in Int, NEW fee \in Int, NEW lock \in Int, NEW ts \in Int,
         Transfer(tx, sender, receiver, amount, fee, lock, ts)
  PROVE  Countable' /\ AuditTrail' /\ Money' = Money
<1>1. SumFunction(bal) \in Int /\ DepositSum(pending) \in Int /\ AmountSum(fees) \in Int
  BY MoneyInt
<1>2. IsFiniteSet(fees') /\ IntAmounts(fees') /\ AmountSum(fees') = AmountSum(fees) + fee
  BY FeeCharged DEF Transfer, Countable, Fresh
<1>3. bal \in [Addr -> Int] /\ \A a \in Addr : bal[a] \in Int
  BY DEF Countable
<1>4. CASE lock > ts
  <2>1. /\ bal' \in [Addr -> Int] /\ -amount - fee \in Int
        /\ bal'[sender] = bal[sender] + (-amount - fee)
        /\ \A b \in Addr \ {sender} : bal'[b] = bal[b]
    BY <1>3, <1>4 DEF Transfer
  <2>2. SumFunction(bal') = SumFunction(bal) + (-amount - fee)
    BY <1>3, <2>1, BalanceChange
  <2>3. bal'[sender] = bal[sender] + -amount - fee
    BY <1>3, <2>1
  <2>4. PutBalanceLogs({Log(sender, ts, -amount, fee)}) /\ -amount \in Int
    BY <1>4 DEF Transfer
  <2>5. AuditTrail' /\ IsFiniteSet(blog') /\ IntLogs(blog')
    BY <2>1, <2>3, <2>4, LogExplains
  <2>6. pending' = pending \cup {Pending(tx, "account", receiver, sender, amount, 0, lock)}
    BY <1>4 DEF Transfer
  <2>7. /\ IsFiniteSet(pending') /\ IntDeposits(pending')
        /\ DepositSum(pending') = DepositSum(pending) + (amount + 0)
    BY <2>6, PendingPut DEF Countable, Fresh
  <2>8. \A pb \in pending' : pb.account \in Addr
    BY <2>6 DEF Pending, Countable
  <2> QED
    BY <1>1, <1>2, <2>1, <2>2, <2>5, <2>7, <2>8 DEF Countable, Money
<1>5. CASE lock <= ts
  <2>1. /\ bal' \in [Addr -> Int]
        /\ bal'[sender] = bal[sender] - (amount + fee) /\ bal'[receiver] = bal[receiver] + amount
        /\ \A b \in Addr \ {sender, receiver} : bal'[b] = bal[b]
    BY <1>3, <1>5 DEF Transfer
  <2>2. SumFunction(bal') = SumFunction(bal) - (amount + fee) + amount
    BY <1>3, <2>1, BalanceMove
  <2>3. bal'[sender] = bal[sender] + -amount - fee /\ -amount \in Int
    BY <1>3, <2>1
  <2>4. PutBalanceLogs({Log(receiver, ts, amount, 0), Log(sender, ts, -amount, fee)})
    BY <1>5 DEF Transfer
  <2>5. AuditTrail' /\ IsFiniteSet(blog') /\ IntLogs(blog')
    BY <2>1, <2>3, <2>4, LogsOfBoth
  <2>6. pending' = pending
    BY <1>5 DEF Transfer
  <2> QED
    BY <1>1, <1>2, <2>1, <2>2, <2>5, <2>6 DEF Countable, Money
<1> QED
  BY <1>4, <1>5

(* Deposit moves amount and fee to the pending balance.                       *)
LEMMA DepositMoves ==
  ASSUME Countable, AuditTrail, NEW tx, Fresh(tx), NEW sender \in Addr, NEW cid, NEW expiry,
         NEW amount \in Int, NEW fee \in Int, NEW ts,
         Deposit(tx, sender, cid, expiry, amount, fee, ts), fees' = fees
  PROVE  Countable' /\ AuditTrail' /\ Money' = Money
<1>1. SumFunction(bal) \in Int /\ DepositSum(pending) \in Int /\ AmountSum(fees) \in Int
  BY MoneyInt
<1>2. bal \in [Addr -> Int] /\ \A a \in Addr : bal[a] \in Int
  BY DEF Countable
<1>3. /\ bal' \in [Addr -> Int] /\ -amount - fee \in Int
      /\ bal'[sender] = bal[sender] + (-amount - fee)
      /\ \A b \in Addr \ {sender} : bal'[b] = bal[b]
  BY <1>2 DEF Deposit
<1>4. SumFunction(bal') = SumFunction(bal) + (-amount - fee)
  BY <1>2, <1>3, BalanceChange
<1>5. bal'[sender] = bal[sender] + -amount - fee
  BY <1>2, <1>3
<1>6. PutBalanceLogs({Log(sender, ts, -amount, fee)}) /\ -amount \in Int
  BY DEF Deposit
<1>7. AuditTrail' /\ IsFiniteSet(blog') /\ IntLogs(blog')
  BY <1>3, <1>5, <1>6, LogExplains
<1>8. pending' = pending \cup {Pending(tx, "contract", sender, cid, amount, fee, expiry)}
  BY DEF Deposit
<1>9. /\ IsFiniteSet(pending') /\ IntDeposits(pending')
      /\ DepositSum(pending') = DepositSum(pending) + (amount + fee)
  BY <1>8, PendingPut DEF Countable, Fresh
<1>10. \A pb \in pending' : pb.account \in Addr
  BY <1>8 DEF Pending, Countable
<1> QED
  BY <1>1, <1>3, <1>4, <1>7, <1>9, <1>10 DEF Countable, Money

(* Withdraw moves them back.                                                  *)
LEMMA WithdrawMoves ==
  ASSUME Countable, AuditTrail, NEW pb \in pending, NEW ts, Withdraw(pb, ts), fees' = fees
  PROVE  Countable' /\ AuditTrail' /\ Money' = Money
<1>1. SumFunction(bal) \in Int /\ DepositSum(pending) \in Int /\ AmountSum(fees) \in Int
  BY MoneyInt
<1>2. bal \in [Addr -> Int] /\ \A a \in Addr : bal[a] \in Int
  BY DEF Countable
<1>3. pb.account \in Addr /\ pb.amount \in Int /\ pb.fee \in Int
  BY DEF Countable, IntDeposits
<1> DEFINE owner == pb.account
           held == pb.amount + pb.fee
<1>4. /\ owner \in Addr /\ held \in Int
      /\ bal' \in [Addr -> Int] /\ bal'[owner] = bal[owner] + held
      /\ \A b \in Addr \ {owner} : bal'[b] = bal[b]
  BY <1>2, <1>3 DEF Withdraw
<1>7. PutBalanceLogs({Log(owner, ts, held, 0)})
  BY DEF Withdraw
<1>9. pending' = pending \ {pb}
  BY DEF Withdraw
<1>10. /\ IsFiniteSet(pending') /\ IntDeposits(pending')
       /\ DepositSum(pending') = DepositSum(pending) - held
  BY <1>9, PendingTaken DEF Countable
<1> HIDE DEF owner, held
<1>5. SumFunction(bal') = SumFunction(bal) + held
  BY <1>2, <1>4, BalanceChange
<1>6. bal'[owner] = bal[owner] + held - 0
  BY <1>2, <1>4
<1>8. AuditTrail' /\ IsFiniteSet(blog') /\ IntLogs(blog')
  BY <1>4, <1>6, <1>7, LogExplains
<1> QED
  BY <1>1, <1>4, <1>5, <1>8, <1>9, <1>10 DEF Countable, Money

(* TransferPendingBalance moves a deposited amount on.                        *)
LEMMA TransferPendingMoves ==
  ASSUME Countable, AuditTrail, NEW tx, Fresh(tx), NEW pb \in pending,
         NEW sender, NEW receiver \in Addr, NEW lock \in Int, NEW ts \in Int,
         TransferPendingBalance(tx, pb, sender, receiver, lock, ts)
  PROVE  Countable' /\ AuditTrail' /\ Money' = Money
<1>1. SumFunction(bal) \in Int /\ DepositSum(pending) \in Int /\ AmountSum(fees) \in Int
  BY MoneyInt
<1>2. bal \in [Addr -> Int] /\ \A a \in Addr : bal[a] \in Int
  BY DEF Countable
<1>3. pb.account \in Addr /\ pb.amount \in Int /\ pb.fee \in Int
  BY DEF Countable, IntDeposits
<1>4. IsFiniteSet(fees') /\ IntAmounts(fees') /\ AmountSum(fees') = AmountSum(fees) + pb.fee
  BY <1>3, FeeCharged DEF TransferPendingBalance, Countable, Fresh
<1> DEFINE rest == pending \ {pb}
<1>5. /\ IsFiniteSet(rest) /\ IntDeposits(rest)
      /\ DepositSum(rest) = DepositSum(pending) - (pb.amount + pb.fee)
  BY PendingTaken DEF Countable
<1>6. CASE lock > ts
  <2>1. /\ pending' = rest \cup {Pending(tx, "account", receiver, sender, pb.amount, 0, lock)}
        /\ UNCHANGED <<bal, blog>>
    BY <1>6 DEF TransferPendingBalance
  <2>2. \A p \in rest : p.id # tx
    BY DEF Fresh
  <2>3. \A p \in pending' : p.account \in Addr
    BY <2>1 DEF Pending, Countable
  <2> DEFINE amount == pb.amount
  <2>6. /\ pending' = rest \cup {Pending(tx, "account", receiver, sender, amount, 0, lock)}
        /\ amount \in Int
    BY <1>3, <2>1
  <2> HIDE DEF rest, amount
  <2>7. /\ IsFiniteSet(pending') /\ IntDeposits(pending')
        /\ DepositSum(pending') = DepositSum(rest) + (amount + 0)
    BY <1>5, <2>2, <2>6, PendingPut
  <2>4. /\ IsFiniteSet(pending') /\ IntDeposits(pending')
        /\ DepositSum(pending') = DepositSum(rest) + (pb.amount + 0)
    BY <2>7 DEF amount
  <2>5. AuditTrail'
    BY <2>1 DEF AuditTrail, LogsOf
  <2> QED
    BY <1>1, <1>3, <1>4, <1>5, <2>1, <2>3, <2>4, <2>5 DEF Countable, Money
<1>7. CASE lock <= ts
  <2> DEFINE amount == pb.amount
  <2>1. pending' = rest
    BY <1>7 DEF TransferPendingBalance
  <2>2. /\ bal' \in [Addr -> Int] /\ bal'[receiver] = bal[receiver] + amount /\ amount \in Int
        /\ \A b \in Addr \ {receiver} : bal'[b] = bal[b]
    BY <1>2, <1>3, <1>7 DEF TransferPendingBalance
  <2>4. PutBalanceLogs({Log(receiver, ts, amount, 0)})
    BY <1>7 DEF TransferPendingBalance
  <2> HIDE DEF amount
  <2>3. SumFunction(bal') = SumFunction(bal) + amount
    BY <1>2, <2>2, BalanceChange
  <2>7. bal'[receiver] = bal[receiver] + amount - 0
    BY <1>2, <2>2
  <2>5. AuditTrail' /\ IsFiniteSet(blog') /\ IntLogs(blog')
    BY <2>2, <2>4, <2>7, LogExplains
  <2>6. \A p \in pending' : p.account \in Addr
    BY <2>1 DEF Countable
  <2> HIDE DEF rest
  <2> QED
    BY <1>1, <1>3, <1>4, <1>5, <2>1, <2>2, <2>3, <2>5, <2>6 DEF Countable, Money, amount
<1> QED
  BY <1>6, <1>7

(* Supply adds the amount.                                                    *)
LEMMA SupplyMoves ==
  ASSUME Countable, AuditTrail, NEW a \in Addr, NEW amount \in Int, NEW ts,
         Supply(a, amount, ts), fees' = fees
  PROVE  Countable' /\ AuditTrail' /\ Money' = Money + amount
<1>1. SumFunction(bal) \in Int /\ DepositSum(pending) \in Int /\ AmountSum(fees) \in Int
  BY MoneyInt
<1>2. bal \in [Addr -> Int] /\ \A b \in Addr : bal[b] \in Int
  BY DEF Countable
<1>3. /\ bal' \in [Addr -> Int] /\ bal'[a] = bal[a] + amount
      /\ \A b \in Addr \ {a} : bal'[b] = bal[b]
  BY <1>2 DEF Supply
<1>6. SumFunction(bal') = SumFunction(bal) + amount
  BY <1>2, <1>3, BalanceChange
<1>4. bal'[a] = bal[a] + amount - 0
  BY <1>2, <1>3
<1>5. AuditTrail' /\ IsFiniteSet(blog') /\ IntLogs(blog')
  BY <1>3, <1>4, LogExplains DEF Supply
<1> QED
  BY <1>1, <1>3, <1>5, <1>6 DEF Countable, Money, Supply

(* Where nothing is negative, no balance exceeds the money there is.          *)
LEMMA MoneyCovers ==
  ASSUME Countable, \A b \in Addr : bal[b] >= 0, \A pb \in pending : pb.amount >= 0 /\ pb.fee >= 0,
         \A f \in fees : f.amount >= 0, NEW a \in Addr
  PROVE  bal[a] \in Int /\ bal[a] <= Money
<1> DEFINE deposits == [pb \in pending |-> pb.amount + pb.fee]
           charges == [f \in fees |-> f.amount]
<1>1. bal \in [Addr -> Nat] /\ bal[a] \in Int
  BY DEF Countable
<1>2. deposits \in [pending -> Nat] /\ charges \in [fees -> Nat]
  BY DEF Countable, IntDeposits, IntAmounts
<1>3. IsFiniteSet(pending) /\ IsFiniteSet(fees)
  BY DEF Countable
<1>4. DepositSum(pending) = SumFunction(deposits) /\ AmountSum(fees) = SumFunction(charges)
  BY DEF DepositSum, AmountSum
<1> HIDE DEF deposits, charges
<1>5. SumFunction(deposits) \in Nat /\ SumFunction(charges) \in Nat
  BY <1>2, <1>3, SumFunctionNat
<1>6. bal[a] <= SumFunction(bal) /\ SumFunction(bal) \in Nat
  BY <1>1, AddrFinite, SumFunctionBounds, SumFunctionNat
<1> QED
  BY <1>1, <1>4, <1>5, <1>6 DEF Money

-----------------------------------------------------------------------------
(* The start: a log tells each balance, and the balances are all money.       *)
LEMMA OpeningSums ==
  ASSUME bal \in [Addr -> Int], blog = {Log(a, 0, bal[a], 0) : a \in Addr},
         pending = {}, fees = {}
  PROVE  Countable /\ AuditTrail /\ Money = SumFunction(bal)
<1>1. IsFiniteSet(blog)
  <2> DEFINE log == [a \in Addr |-> Log(a, 0, bal[a], 0)]
  <2>1. log \in Surjection(Addr, blog)
    BY DEF Surjection
  <2> HIDE DEF log
  <2> QED
    BY <2>1, AddrFinite, FS_Surjection
<1>2. IntLogs(blog)
  BY DEF IntLogs, Log
<1>3. IsFiniteSet({}) /\ IntDeposits({}) /\ IntAmounts({}) /\ IntLogs({})
  BY FS_EmptySet DEF IntDeposits, IntAmounts, IntLogs
<1>4. Countable
  BY <1>1, <1>2, <1>3 DEF Countable
<1>5. SumFunction(bal) \in Int /\ Money = SumFunction(bal)
  BY <1>3, AddrFinite, SumFunctionInt, DepositSumTake, AmountSumTake DEF Money
<1>6. ASSUME NEW a \in Addr
      PROVE  bal[a] = LogSum(LogsOf(a))
  <2> DEFINE log == Log(a, 0, bal[a], 0)
  <2>1. LogsOf(a) = {} \cup {log}
    BY DEF LogsOf, Log
  <2>2. log.diff = bal[a] /\ log.fee = 0 /\ bal[a] \in Int
    BY DEF Log
  <2> HIDE DEF log
  <2>3. LogSum({} \cup {log}) = LogSum({}) + (log.diff - log.fee) /\ LogSum({}) = 0
    BY <1>3, <2>2, LogSumAdd, LogSumTake
  <2> QED
    BY <2>1, <2>2, <2>3
<1>7. AuditTrail
  BY <1>6 DEF AuditTrail, LogSum
<1> QED
  BY <1>4, <1>5, <1>7
-----------------------------------------------------------------------------
(* What an account is worth: its balance and the pending balances it owns.    *)
Worth(a) == bal[a] + DepositSum(Owned(pending, a))

(* Of an account that gets a new pending balance.                             *)
LEMMA WorthPut ==
  ASSUME Countable, NEW a \in Addr, NEW p, p \notin pending, p.amount \in Int, p.fee \in Int,
         pending' = pending \cup {p}, bal'[a] \in Int
  PROVE  /\ Worth(a) \in Int
         /\ Worth(a)' = Worth(a) + (bal'[a] - bal[a])
                          + (IF p.account = a THEN p.amount + p.fee ELSE 0)
<1>1. IsFiniteSet(pending) /\ IntDeposits(pending) /\ bal[a] \in Int
  BY DEF Countable
<1>2. /\ DepositSum(Owned(pending, a)) \in Int
      /\ p.account = a =>
           DepositSum(Owned(pending \cup {p}, a)) = DepositSum(Owned(pending, a)) + (p.amount + p.fee)
      /\ p.account # a => Owned(pending \cup {p}, a) = Owned(pending, a)
  BY <1>1, OwnedPut
<1>3. /\ Worth(a) = bal[a] + DepositSum(Owned(pending, a))
      /\ Worth(a)' = bal'[a] + DepositSum(Owned(pending \cup {p}, a))
  BY DEF Worth, Owned, DepositSum
<1>4. CASE p.account = a
  BY <1>1, <1>2, <1>3, <1>4
<1>5. CASE p.account # a
  BY <1>1, <1>2, <1>3, <1>5
<1> QED
  BY <1>4, <1>5

(* Of an account that may lose one.                                           *)
LEMMA WorthTaken ==
  ASSUME Countable, NEW a \in Addr, NEW p \in pending, pending' = pending \ {p}, bal'[a] \in Int
  PROVE  /\ Worth(a) \in Int
         /\ Worth(a)' = Worth(a) + (bal'[a] - bal[a])
                          - (IF p.account = a THEN p.amount + p.fee ELSE 0)
<1>1. /\ IsFiniteSet(pending) /\ IntDeposits(pending) /\ bal[a] \in Int
      /\ p.amount \in Int /\ p.fee \in Int
  BY DEF Countable, IntDeposits
<1>2. /\ DepositSum(Owned(pending, a)) \in Int
      /\ p.account = a =>
           DepositSum(Owned(pending \ {p}, a)) = DepositSum(Owned(pending, a)) - (p.amount + p.fee)
      /\ p.account # a => Owned(pending \ {p}, a) = Owned(pending, a)
  BY <1>1, OwnedTaken
<1>3. /\ Worth(a) = bal[a] + DepositSum(Owned(pending, a))
      /\ Worth(a)' = bal'[a] + DepositSum(Owned(pending \ {p}, a))
  BY DEF Worth, Owned, DepositSum
<1>4. CASE p.account = a
  BY <1>1, <1>2, <1>3, <1>4
<1>5. CASE p.account # a
  BY <1>1, <1>2, <1>3, <1>5
<1> QED
  BY <1>4, <1>5

(* Of an account in a step that leaves all pending balances alone.            *)
LEMMA WorthStays ==
  ASSUME Countable, NEW a \in Addr, pending' = pending, bal'[a] \in Int
  PROVE  Worth(a) \in Int /\ Worth(a)' = Worth(a) + (bal'[a] - bal[a])
<1>1. IsFiniteSet(pending) /\ IntDeposits(pending) /\ bal[a] \in Int
  BY DEF Countable
<1>2. IsFiniteSet(Owned(pending, a)) /\ IntDeposits(Owned(pending, a))
  BY <1>1, FS_Subset DEF Owned, IntDeposits
<1>3. DepositSum(Owned(pending, a)) \in Int
  BY <1>2, DepositSumTake
<1>4. /\ Worth(a) = bal[a] + DepositSum(Owned(pending, a))
      /\ Worth(a)' = bal'[a] + DepositSum(Owned(pending, a))
  BY DEF Worth, Owned, DepositSum
<1> QED
  BY <1>1, <1>3, <1>4

(* Deposit takes from the balance what it puts into the pending balance.      *)
LEMMA DepositKeepsWorth ==
  ASSUME Countable, NEW tx, Fresh(tx), NEW sender \in Addr, NEW cid, NEW expiry,
         NEW amount \in Int, NEW fee \in Int, NEW ts,
         Deposit(tx, sender, cid, expiry, amount, fee, ts), NEW a \in Addr
  PROVE  Worth(a) \in Int /\ Worth(a)' = Worth(a)
<1> DEFINE p == Pending(tx, "contract", sender, cid, amount, fee, expiry)
<1>1. p.id = tx /\ p.account = sender /\ p.amount = amount /\ p.fee = fee
  BY DEF Pending
<1>2. pending' = pending \cup {p} /\ bal' = [bal EXCEPT ![sender] = @ - (amount + fee)]
  BY DEF Deposit
<1> HIDE DEF p
<1>3. p \notin pending /\ p.amount \in Int /\ p.fee \in Int
  BY <1>1 DEF Fresh
<1>4. /\ bal[a] \in Int /\ bal'[a] \in Int
      /\ bal'[a] - bal[a] = IF a = sender THEN -(amount + fee) ELSE 0
  BY <1>2 DEF Countable
<1>5. /\ Worth(a) \in Int
      /\ Worth(a)' = Worth(a) + (bal'[a] - bal[a])
                       + (IF p.account = a THEN p.amount + p.fee ELSE 0)
  BY <1>2, <1>3, <1>4, WorthPut
<1> QED
  BY <1>1, <1>4, <1>5

(* Withdraw gives it back.                                                    *)
LEMMA WithdrawKeepsWorth ==
  ASSUME Countable, NEW pb \in pending, NEW ts, Withdraw(pb, ts), NEW a \in Addr
  PROVE  Worth(a) \in Int /\ Worth(a)' = Worth(a)
<1>1. pb.account \in Addr /\ pb.amount \in Int /\ pb.fee \in Int
  BY DEF Countable, IntDeposits
<1>2. pending' = pending \ {pb} /\ bal' = [bal EXCEPT ![pb.account] = @ + pb.amount + pb.fee]
  BY DEF Withdraw
<1>3. /\ bal[a] \in Int /\ bal'[a] \in Int
      /\ bal'[a] - bal[a] = IF a = pb.account THEN pb.amount + pb.fee ELSE 0
  BY <1>1, <1>2 DEF Countable
<1>4. /\ Worth(a) \in Int
      /\ Worth(a)' = Worth(a) + (bal'[a] - bal[a])
                       - (IF pb.account = a THEN pb.amount + pb.fee ELSE 0)
  BY <1>2, <1>3, WorthTaken
<1> QED
  BY <1>1, <1>3, <1>4

(* Transfer takes amount and fee from the sender and gives the amount to the  *)
(* receiver, to be had at once or later.                                      *)
LEMMA TransferMovesWorth ==
  ASSUME Countable, NEW tx, Fresh(tx), NEW sender \in Addr, NEW receiver \in Addr,
         sender # receiver, NEW amount \in Int, NEW fee \in Int, NEW lock, NEW ts,
         Transfer(tx, sender, receiver, amount, fee, lock, ts), NEW a \in Addr
  PROVE  /\ Worth(a) \in Int
         /\ Worth(a)' = IF a = sender THEN Worth(a) - amount - fee
                        ELSE IF a = receiver THEN Worth(a) + amount ELSE Worth(a)
<1> DEFINE p == Pending(tx, "account", receiver, sender, amount, 0, lock)
<1>1. p.id = tx /\ p.account = receiver /\ p.amount = amount /\ p.fee = 0
  BY DEF Pending
<1>2. \/ /\ pending' = pending \cup {p}
         /\ bal' = [bal EXCEPT ![sender] = @ - amount - fee]
      \/ /\ pending' = pending
         /\ bal' = [bal EXCEPT ![receiver] = @ + amount, ![sender] = @ - amount - fee]
  BY DEF Transfer
<1> HIDE DEF p
<1>3. CASE /\ pending' = pending \cup {p}
           /\ bal' = [bal EXCEPT ![sender] = @ - amount - fee]
  <2>1. p \notin pending /\ p.amount \in Int /\ p.fee \in Int
    BY <1>1 DEF Fresh
  <2>2. /\ bal[a] \in Int /\ bal'[a] \in Int
        /\ bal'[a] - bal[a] = IF a = sender THEN -amount - fee ELSE 0
    BY <1>3 DEF Countable
  <2>3. /\ Worth(a) \in Int
        /\ Worth(a)' = Worth(a) + (bal'[a] - bal[a])
                         + (IF p.account = a THEN p.amount + p.fee ELSE 0)
    BY <1>3, <2>1, <2>2, WorthPut
  <2> QED
    BY <1>1, <2>2, <2>3
<1>4. CASE /\ pending' = pending
           /\ bal' = [bal EXCEPT ![receiver] = @ + amount, ![sender] = @ - amount - fee]
  <2>1. /\ bal[a] \in Int /\ bal'[a] \in Int
        /\ bal'[a] - bal[a] = IF a = sender THEN -amount - fee
                              ELSE IF a = receiver THEN amount ELSE 0
    BY <1>4 DEF Countable
  <2>2. Worth(a) \in Int /\ Worth(a)' = Worth(a) + (bal'[a] - bal[a])
    BY <1>4, <2>1, WorthStays
  <2> QED
    BY <2>1, <2>2
<1> QED
  BY <1>2, <1>3, <1>4

(* TransferPendingBalance does so with what its owner has set aside.          *)
LEMMA TransferPendingMovesWorth ==
  ASSUME Countable, NEW tx, Fresh(tx), NEW pb \in pending, NEW sender,
         NEW receiver \in Addr, pb.account # receiver, NEW lock, NEW ts,
         TransferPendingBalance(tx, pb, sender, receiver, lock, ts), NEW a \in Addr
  PROVE  /\ Worth(a) \in Int
         /\ Worth(a)' = IF a = pb.account THEN Worth(a) - pb.amount - pb.fee
                        ELSE IF a = receiver THEN Worth(a) + pb.amount ELSE Worth(a)
<1> DEFINE p == Pending(tx, "account", receiver, sender, pb.amount, 0, lock)
           rest == pending \ {pb}
           own == Owned(pending, a)
           kept == Owned(rest, a)
<1>1. p.id = tx /\ p.account = receiver /\ p.amount = pb.amount /\ p.fee = 0
  BY DEF Pending
<1>2. /\ IsFiniteSet(pending) /\ IntDeposits(pending) /\ bal[a] \in Int
      /\ pb.amount \in Int /\ pb.fee \in Int
  BY DEF Countable, IntDeposits
<1>3. IsFiniteSet(rest) /\ IntDeposits(rest) /\ p \notin rest
  BY <1>1, <1>2, FS_Subset DEF IntDeposits, Fresh
<1>4. /\ DepositSum(own) \in Int
      /\ pb.account = a => DepositSum(kept) = DepositSum(own) - (pb.amount + pb.fee)
      /\ pb.account # a => kept = own
  BY <1>2, OwnedTaken
<1>5. \/ pending' = rest \cup {p} /\ bal' = bal
      \/ pending' = rest /\ bal' = [bal EXCEPT ![receiver] = @ + pb.amount]
  BY DEF TransferPendingBalance
<1>6. Worth(a) = bal[a] + DepositSum(own) /\ Worth(a)' = bal'[a] + DepositSum(Owned(pending', a))
  BY DEF Worth, Owned, DepositSum
<1>7. CASE pending' = rest \cup {p} /\ bal' = bal
  <2> HIDE DEF p, rest
  <2>1. p.amount \in Int /\ p.fee \in Int
    BY <1>1, <1>2
  <2>2. /\ DepositSum(Owned(rest, a)) \in Int
        /\ p.account = a =>
             DepositSum(Owned(rest \cup {p}, a)) = DepositSum(Owned(rest, a)) + (p.amount + p.fee)
        /\ p.account # a => Owned(rest \cup {p}, a) = Owned(rest, a)
    BY <1>3, <2>1, OwnedPut
  <2> HIDE DEF own
  <2>3. CASE a = pb.account
    BY <1>1, <1>2, <1>4, <1>6, <1>7, <2>2, <2>3
  <2>4. CASE a = receiver
    BY <1>1, <1>2, <1>4, <1>6, <1>7, <2>2, <2>4
  <2>5. CASE a # receiver /\ a # pb.account
    BY <1>1, <1>2, <1>4, <1>6, <1>7, <2>2, <2>5
  <2> QED
    BY <2>3, <2>4, <2>5
<1>8. CASE pending' = rest /\ bal' = [bal EXCEPT ![receiver] = @ + pb.amount]
  <2>1. bal'[a] = IF a = receiver THEN bal[a] + pb.amount ELSE bal[a]
    BY <1>8 DEF Countable
  <2> HIDE DEF rest, own
  <2>2. CASE a = pb.account
    BY <1>2, <1>4, <1>6, <1>8, <2>1, <2>2
  <2>3. CASE a # pb.account
    BY <1>2, <1>4, <1>6, <1>8, <2>1, <2>3
  <2> QED
    BY <2>2, <2>3
<1> QED
  BY <1>5, <1>7, <1>8
=============================================================================

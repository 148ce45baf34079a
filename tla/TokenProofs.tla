---------------------------- MODULE TokenProofs ----------------------------
(* Theorems of TokenSystem, for any number of founders, any policies and any  *)
(* order in which mints, burns, transfers and issues are approved.            *)
EXTENDS TokenSystem, BalanceProofs

TransferDocs ==
  [pb : Nat, sender : Addr, receiver : Addr, orderID : OrderID, last : OrderID, asked : Nat]
Status == {"open", "executed", "canceled"}
TransferContract ==
  [id : Nat, type : {"transfer"}, doc : TransferDocs, expiry : Nat, status : Status]
KntContract ==
  [id : Nat, type : {"token/create", "token/mint", "token/burn"},
   doc : [kids : SUBSET Kid, amount : Nat], expiry : Nat, status : Status]

(* What the documents of the system are about: accounts that exist, amounts   *)
(* that are not negative, transactions that have been.                        *)
ClockOK == now \in Nat /\ now >= StartTime /\ nextTx \in Nat
ContractsOK ==
  /\ contracts \subseteq TransferContract \cup KntContract
  /\ \A c \in contracts : c.type = "transfer" => AccountExists(c.doc.receiver)
  /\ \A c \in contracts : c.type = "token/create" => c.doc.kids # {}
PendingsOK ==
  \A pb \in pending : /\ pb.id \in Nat /\ pb.id < nextTx
                      /\ pb.account \in Addr /\ AccountExists(pb.account)
                      /\ pb.amount \in Nat /\ pb.fee \in Nat
FeesOK == \A f \in fees : f.tx \in Nat /\ f.tx < nextTx /\ f.amount \in Nat

(* An account that does not exist has no money, or its creation would lose it.*)
NothingNowhere == \A a \in Addr : ~AccountExists(a) => bal[a] = 0

(* The inductive invariant.  The supply stays above zero because no burn      *)
(* exceeds a balance, and no balance the supply: that takes Conservation and  *)
(* NonNegative.                                                               *)
LedgerOK ==
  /\ TypeOK /\ PendingsOK /\ FeesOK /\ NothingNowhere
  /\ Countable /\ AuditTrail /\ Conservation
  /\ SupplyWithinMax /\ NonNegative
TokenInv == ClockOK /\ ContractsOK /\ LedgerOK

(* Conservation, in the sums of BalanceProofs.                                *)
LEMMA ConservationIsMoney ==
  /\ Conservation <=> Money = token.supply
  /\ Conservation' <=> Money' = token'.supply
BY DEF Conservation, Money, DepositSum, AmountSum

(* The next transaction id is new.                                            *)
LEMMA NextIsFresh ==
  ASSUME TokenInv
  PROVE  Fresh(nextTx)
BY DEF TokenInv, LedgerOK, ClockOK, PendingsOK, FeesOK, Fresh

(* The token document is well-formed, issued or not.                          *)
LEMMA TokenForm ==
  ASSUME TypeOK
  PROVE  /\ token.genesis \in Addr \cup {NoAddr} /\ token.supply \in Int /\ token.max \in Int
         /\ token.policy \in FeePolicy /\ token.wrap \in WrapBridge
         /\ Issued => token \in Token /\ token.genesis \in Addr
<1>1. NotIssued.policy \in FeePolicy /\ NotIssued.wrap \in WrapBridge
  BY DEF NotIssued, NoPolicy, NoBridge, FeePolicy, WrapBridge, NoRates, NoRate, FeeRate
<1>2. /\ NotIssued.genesis = NoAddr /\ NotIssued.supply = 0 /\ NotIssued.max = 0
  BY DEF NotIssued
<1>3. CASE token \in Token
  BY <1>3, AddressAssumption DEF Token, Issued, Addr
<1>4. CASE token = NotIssued
  BY <1>1, <1>2, <1>4 DEF Issued
<1> QED
  BY <1>3, <1>4 DEF TypeOK

-----------------------------------------------------------------------------
(* Contracts.                                                                 *)

(* Accounts stay.                                                             *)
AccountsStay == \A a \in Addr : AccountExists(a) => AccountExists(a)'

(* A closed contract keeps its document.                                      *)
LEMMA ContractsClosed ==
  ASSUME ContractsOK, AccountsStay, NEW c \in contracts, NEW status \in Status,
         CloseContract(c, status)
  PROVE  ContractsOK'
<1> DEFINE closed == [c EXCEPT !.status = status]
<1>1. closed \in TransferContract \cup KntContract /\ closed.type = c.type /\ closed.doc = c.doc
  BY DEF ContractsOK, TransferContract, KntContract
<1>2. \A d \in contracts : d.type = "transfer" => d.doc.receiver \in Addr
  BY DEF ContractsOK, TransferContract, KntContract, TransferDocs
<1>3. contracts' = (contracts \ {c}) \cup {closed}
  BY DEF CloseContract
<1> HIDE DEF closed
<1>4. \A d \in contracts : d.type = "transfer" => AccountExists(d.doc.receiver)'
  BY <1>2 DEF ContractsOK, AccountsStay
<1> QED
  BY <1>1, <1>3, <1>4 DEF ContractsOK, AccountExists

(* So do the others.                                                          *)
LEMMA ContractsUnchanged ==
  ASSUME ContractsOK, AccountsStay, contracts' = contracts
  PROVE  ContractsOK'
<1>1. \A d \in contracts : d.type = "transfer" => d.doc.receiver \in Addr
  BY DEF ContractsOK, TransferContract, KntContract, TransferDocs
<1> QED
  BY <1>1 DEF ContractsOK, AccountsStay, AccountExists

(* A proposal about the token adds one well-formed contract and no more.      *)
LEMMA Proposed ==
  ASSUME TokenInv, NEW signers, NEW type \in {"token/create", "token/mint", "token/burn"},
         NEW kids \in SUBSET Kid, NEW amount \in Nat, type = "token/create" => kids # {},
         ProposeTo(signers, type, TokenDoc(kids, amount)), UNCHANGED <<now, fees>>
  PROVE  TokenInv'
<1> DEFINE c == [id |-> nextTx, type |-> type, doc |-> TokenDoc(kids, amount),
                 expiry |-> 0, status |-> "open"]
<1>1. c \in KntContract /\ c.type = type /\ c.doc.kids = kids
  BY DEF KntContract, TokenDoc, Status, TokenInv, ClockOK
<1>2. contracts' = contracts \cup {c} /\ nextTx' = nextTx + 1
  BY DEF ProposeTo, CreateContract, UseTxID
<1> HIDE DEF c
<1>3. UNCHANGED <<token, account, bal, pending, blog, fees, now>>
  BY DEF ProposeTo, balanceVars
<1>4. (ClockOK /\ ContractsOK /\ PendingsOK /\ FeesOK)'
  BY <1>1, <1>2, <1>3 DEF TokenInv, LedgerOK, ClockOK, ContractsOK, PendingsOK, FeesOK,
                          AccountExists
<1> QED
  BY <1>3, <1>4 DEF TokenInv, LedgerOK, TypeOK, NothingNowhere, Countable, AuditTrail, LogsOf,
       Conservation, SupplyWithinMax, NonNegative, Issued, AccountExists

-----------------------------------------------------------------------------
(* Mint, burn and issue.                                                      *)

(* A supply that changes with the balance of the genesis account.             *)
LEMMA SupplyLedger ==
  ASSUME LedgerOK, Issued, NEW amount \in Int, NEW ts, Supply(token.genesis, amount, ts),
         token' = [token EXCEPT !.supply = @ + amount],
         token.supply + amount <= token.max, bal[token.genesis] + amount >= 0,
         UNCHANGED <<account, fees, nextTx>>
  PROVE  LedgerOK' /\ AccountsStay
<1>1. token \in Token /\ token.genesis \in Addr /\ token.supply \in Int /\ token.max \in Int
  BY TokenForm DEF LedgerOK
<1>2. /\ token' \in Token /\ token'.supply = token.supply + amount /\ token'.max = token.max
      /\ token'.genesis = token.genesis /\ token'.policy = token.policy
  BY <1>1 DEF Token
<1>3. Countable' /\ AuditTrail' /\ Money' = Money + amount
  BY <1>1, SupplyMoves DEF LedgerOK
<1>4. Conservation'
  BY <1>2, <1>3, ConservationIsMoney DEF LedgerOK
<1>5. /\ bal \in [Addr -> Int] /\ AccountExists(token.genesis)
      /\ bal' = [bal EXCEPT ![token.genesis] = bal[token.genesis] + amount]
  BY DEF LedgerOK, TypeOK, Supply
<1>6. NonNegative' /\ NothingNowhere'
  BY <1>1, <1>5 DEF LedgerOK, NonNegative, NothingNowhere, AccountExists
<1>7. TypeOK'
  BY <1>1, <1>2, <1>5 DEF LedgerOK, TypeOK, Issued, AccountExists
<1>8. PendingsOK' /\ FeesOK' /\ AccountsStay
  BY DEF LedgerOK, PendingsOK, FeesOK, AccountsStay, AccountExists, Supply
<1>9. token.supply + amount >= 0
  <2>1. /\ \A pb \in pending : pb.amount >= 0 /\ pb.fee >= 0
        /\ \A f \in fees : f.amount >= 0
        /\ \A a \in Addr : bal[a] >= 0
    BY DEF LedgerOK, PendingsOK, FeesOK, NonNegative
  <2>2. bal[token.genesis] \in Int /\ bal[token.genesis] <= Money
    BY <1>1, <2>1, MoneyCovers DEF LedgerOK
  <2>3. Money = token.supply
    BY ConservationIsMoney DEF LedgerOK
  <2> QED
    BY <1>1, <2>2, <2>3
<1>10. SupplyWithinMax'
  BY <1>2, <1>9 DEF SupplyWithinMax
<1> QED
  BY <1>3, <1>4, <1>6, <1>7, <1>8, <1>10 DEF LedgerOK

(* Mint stays below the maximum.                                              *)
LEMMA MintLedger ==
  ASSUME LedgerOK, Issued, NEW amount \in Nat, NEW ts, Mint(amount, ts), UNCHANGED <<fees, nextTx>>
  PROVE  LedgerOK' /\ AccountsStay
<1> DEFINE supply == IF token.supply + amount > token.max THEN token.max ELSE token.supply + amount
           more == supply - token.supply
<1>1. token.supply \in Int /\ token.max \in Int /\ token.supply < token.max
  BY TokenForm DEF LedgerOK, Mint
<1>2. more \in Int /\ more >= 0 /\ token.supply + more <= token.max /\ supply = token.supply + more
  BY <1>1
<1>3. /\ token' = [token EXCEPT !.supply = supply] /\ UNCHANGED account
      /\ Supply(token.genesis, more, ts)
  BY DEF Mint
<1>4. bal[token.genesis] + more >= 0
  BY <1>2, TokenForm DEF LedgerOK, TypeOK, NonNegative
<1> HIDE DEF supply, more
<1> QED
  BY <1>2, <1>3, <1>4, SupplyLedger

(* Burn takes no more than the genesis account has.                           *)
LEMMA BurnLedger ==
  ASSUME LedgerOK, Issued, NEW amount \in Nat, NEW ts, Burn(amount, ts), UNCHANGED <<fees, nextTx>>
  PROVE  LedgerOK' /\ AccountsStay
<1> DEFINE real == IF bal[token.genesis] < amount THEN bal[token.genesis] ELSE amount
           less == -real
<1>1. /\ token.supply \in Int /\ token.max \in Int /\ token.supply <= token.max
      /\ bal[token.genesis] \in Int
  BY TokenForm DEF LedgerOK, SupplyWithinMax, TypeOK
<1>2. CASE real <= 0
  <2>1. UNCHANGED <<token, bal, pending, blog, account, fees, nextTx>>
    BY <1>1, <1>2 DEF Burn, balanceVars
  <2> QED
    BY <2>1 DEF LedgerOK, TypeOK, PendingsOK, FeesOK, NothingNowhere, Countable, AuditTrail,
         LogsOf, Conservation, SupplyWithinMax, NonNegative, Issued, AccountExists, AccountsStay
<1>3. CASE real > 0
  <2>1. /\ less \in Int /\ token.supply + less <= token.max /\ token.supply - real = token.supply + less
        /\ bal[token.genesis] + less >= 0
    BY <1>1, <1>3
  <2>2. token' = [token EXCEPT !.supply = token.supply - real] /\ UNCHANGED account
        /\ Supply(token.genesis, less, ts)
    BY <1>1, <1>3 DEF Burn
  <2> HIDE DEF real, less
  <2> QED
    BY <2>1, <2>2, SupplyLedger
<1> QED
  BY <1>1, <1>2, <1>3

(* The new genesis account was nobody's, so its empty balance is replaced by  *)
(* the supply without a loss.                                                 *)
LEMMA CreateLedger ==
  ASSUME LedgerOK, ~Issued, NEW kids \in SUBSET Kid, kids # {}, NEW issue \in TokenIssue, NEW ts,
         CreateToken(kids, issue, ts), UNCHANGED <<fees, nextTx>>
  PROVE  LedgerOK' /\ AccountsStay
<1>1. PICK genesis \in Joint, wrap \in FirstBridge(issue) : \E policy \in FirstPolicy(issue, genesis) :
        /\ CreateAccount(genesis, kids, issue.supply)
        /\ PutBalanceLogs(IF issue.supply > 0 THEN {Log(genesis, ts, issue.supply, 0)} ELSE {})
        /\ token' = [genesis |-> genesis, supply |-> issue.supply, max |-> issue.max,
                     policy |-> policy, wrap |-> wrap]
  BY DEF CreateToken
<1>2. PICK policy \in FirstPolicy(issue, genesis) :
        token' = [genesis |-> genesis, supply |-> issue.supply, max |-> issue.max,
                  policy |-> policy, wrap |-> wrap]
  BY <1>1
<1> DEFINE amount == issue.supply
<1>3. /\ amount \in Nat /\ issue.max \in Nat /\ amount <= issue.max
      /\ issue.policy \subseteq MetaPolicy /\ issue.wrap \subseteq WrapBridge
  BY DEF TokenIssue, CreateToken
<1>4. /\ token = NotIssued /\ token.supply = 0 /\ genesis \in Addr
      /\ \A a \in Joint : ~AccountExists(a)
  <2>1. token = NotIssued
    BY AddressAssumption DEF LedgerOK, TypeOK, Token, Issued, Addr
  <2> QED
    BY <2>1 DEF LedgerOK, TypeOK, NotIssued, Addr
<1>5. /\ account' = [account EXCEPT ![genesis] = [holders |-> kids, suspended |-> FALSE]]
      /\ bal' = [bal EXCEPT ![genesis] = amount]
      /\ account \in [Addr -> Account] /\ bal \in [Addr -> Int] /\ bal[genesis] = 0
  BY <1>1, <1>4 DEF CreateAccount, LedgerOK, TypeOK, NothingNowhere
<1>6. /\ account' \in [Addr -> Account] /\ AccountExists(genesis)' /\ AccountsStay
      /\ \A a \in Addr \ {genesis} : AccountExists(a)' <=> AccountExists(a)
  BY <1>4, <1>5 DEF Account, AccountExists, AccountsStay
<1>7. wrap \in WrapBridge
  BY <1>3 DEF FirstBridge, NoBridge, WrapBridge
<1>8. /\ policy \in FeePolicy
      /\ policy.installed => policy.target \in {a \in Addr : AccountExists(a)'}
  <2>1. CASE issue.policy = {}
    <3>1. NoRates \in [FeeFn -> FeeRate]
      BY DEF NoRates, NoRate, FeeRate
    <3>2. policy = NoPolicy
      BY <2>1 DEF FirstPolicy
    <3> QED
      BY <3>1, <3>2 DEF NoPolicy, FeePolicy
  <2>2. CASE issue.policy # {}
    <3>1. PICK p \in issue.policy :
            /\ p.target = NoAddr \/ AccountExists(p.target)
            /\ policy = [installed |-> TRUE, rates |-> p.rates,
                         target |-> IF p.target = NoAddr THEN genesis ELSE p.target]
      BY <2>2 DEF FirstPolicy
    <3>2. p.target \in Addr \cup {NoAddr} /\ p.rates \in [FeeFn -> FeeRate]
      BY <1>3 DEF MetaPolicy
    <3> QED
      BY <1>4, <1>6, <3>1, <3>2 DEF FeePolicy, AccountsStay
  <2> QED
    BY <2>1, <2>2
<1>9. /\ token' \in Token /\ token'.genesis = genesis /\ token'.policy = policy
      /\ token'.supply = amount /\ token'.max = issue.max /\ Issued'
  BY <1>2, <1>3, <1>4, <1>7, <1>8, AddressAssumption DEF Token, Issued, Addr
<1>10. TypeOK'
  BY <1>1, <1>4, <1>5, <1>6, <1>8, <1>9, <1>3 DEF TypeOK
<1>11. NonNegative' /\ NothingNowhere' /\ SupplyWithinMax'
  BY <1>3, <1>4, <1>5, <1>6, <1>9 DEF LedgerOK, NonNegative, NothingNowhere, SupplyWithinMax
<1>12. pending' = pending /\ fees' = fees
  BY DEF CreateToken
<1>13. PendingsOK' /\ FeesOK'
  BY <1>6, <1>12 DEF LedgerOK, PendingsOK, FeesOK, AccountsStay, AccountExists
<1>14. AuditTrail' /\ IsFiniteSet(blog') /\ IntLogs(blog')
  <2>1. Countable /\ AuditTrail
    BY DEF LedgerOK
  <2>2. CASE amount > 0
    <3>1. PutBalanceLogs({Log(genesis, ts, amount, 0)})
      BY <1>1, <2>2
    <3> HIDE DEF amount
    <3> QED
      BY <1>3, <1>4, <1>5, <2>1, <3>1, LogExplains
  <2>3. CASE ~(amount > 0)
    <3>1. blog' = blog /\ bal' = bal
      BY <1>1, <1>3, <1>5, <2>3 DEF PutBalanceLogs
    <3> QED
      BY <2>1, <3>1 DEF Countable, AuditTrail, LogsOf
  <2> QED
    BY <2>2, <2>3
<1>15. Countable'
  BY <1>4, <1>5, <1>3, <1>12, <1>14 DEF LedgerOK, Countable
<1>16. Conservation'
  <2>4. /\ bal' \in [Addr -> Int] /\ bal'[genesis] = bal[genesis] + amount
        /\ \A a \in Addr \ {genesis} : bal'[a] = bal[a]
    BY <1>3, <1>4, <1>5
  <2> HIDE DEF amount
  <2>1. SumFunction(bal') = SumFunction(bal) + amount
    BY <1>3, <1>4, <1>5, <2>4, BalanceChange
  <2>2. Money = 0
    BY <1>4, ConservationIsMoney DEF LedgerOK
  <2>3. SumFunction(bal) \in Int /\ DepositSum(pending) \in Int /\ AmountSum(fees) \in Int
    BY MoneyInt DEF LedgerOK
  <2> QED
    BY <1>3, <1>9, <1>12, <2>1, <2>2, <2>3, ConservationIsMoney DEF Money
<1> QED
  BY <1>6, <1>10, <1>11, <1>13, <1>14, <1>15, <1>16 DEF LedgerOK

-----------------------------------------------------------------------------
(* Transfers.                                                                 *)

(* What an operation that leaves token and accounts alone must keep.          *)
LEMMA LedgerKept ==
  ASSUME LedgerOK, UNCHANGED <<token, account>>, Countable', AuditTrail', Money' = Money,
         PendingsOK', FeesOK',
         \A a \in Addr : bal'[a] = bal[a] \/ (AccountExists(a) /\ bal'[a] >= 0)
  PROVE  LedgerOK' /\ AccountsStay
<1>1. Conservation'
  BY ConservationIsMoney DEF LedgerOK
<1>2. TypeOK'
  BY DEF LedgerOK, TypeOK, Issued, AccountExists, Countable
<1>3. SupplyWithinMax'
  BY DEF LedgerOK, SupplyWithinMax
<1>4. NonNegative' /\ NothingNowhere'
  BY DEF LedgerOK, NonNegative, NothingNowhere, AccountExists
<1> QED
  BY <1>1, <1>2, <1>3, <1>4 DEF LedgerOK, AccountsStay, AccountExists

(* A fee is stored under the id of its transaction.                           *)
LEMMA FeesAreOld ==
  ASSUME FeesOK, nextTx \in Nat, NEW a, NEW fee \in Nat, NEW ts, CreateFee(a, fee, ts, nextTx),
         nextTx' = nextTx + 1
  PROVE  FeesOK'
<1>1. Fee(a, fee, ts, nextTx).tx = nextTx /\ Fee(a, fee, ts, nextTx).amount = fee
  BY DEF Fee
<1> QED
  BY <1>1 DEF FeesOK, CreateFee

(* Fees that stay the same stay below a growing transaction id.               *)
LEMMA FeesKept ==
  ASSUME FeesOK, nextTx \in Nat, fees' = fees, nextTx' \in {nextTx, nextTx + 1}
  PROVE  FeesOK'
BY DEF FeesOK

(* A pending balance is owned by an account that exists.                      *)
LEMMA PendingsAreOwned ==
  ASSUME PendingsOK, nextTx \in Nat, nextTx' = nextTx + 1, UNCHANGED account,
         NEW type, NEW owner \in Addr, AccountExists(owner), NEW rid,
         NEW amount \in Nat, NEW fee \in Nat, NEW time,
         pending' \subseteq pending \cup {Pending(nextTx, type, owner, rid, amount, fee, time)}
  PROVE  PendingsOK'
<1> DEFINE p == Pending(nextTx, type, owner, rid, amount, fee, time)
<1>1. p.id = nextTx /\ p.account = owner /\ p.amount = amount /\ p.fee = fee
  BY DEF Pending
<1> HIDE DEF p
<1> QED
  BY <1>1 DEF PendingsOK, AccountExists, p

(* Taking one away, or none, leaves the others.                               *)
LEMMA PendingsKept ==
  ASSUME PendingsOK, nextTx \in Nat, nextTx' \in {nextTx, nextTx + 1}, AccountsStay,
         pending' \subseteq pending
  PROVE  PendingsOK'
BY DEF PendingsOK, AccountsStay, AccountExists

(* A transfer, instant or not, keeps the invariant.                           *)
LEMMA TransferInv ==
  ASSUME TokenInv, TransferStep
  PROVE  TokenInv'
<1> DEFINE order == [kind |-> "empty", secs |-> 0]
<1>1. PICK kid \in Kid, sender \in Addr, receiver \in Addr, amount \in Amounts,
           duration \in Durations, ts \in Timestamps :
        transfer(kid, sender, receiver, amount, order, 0, duration, {}, ts)
  BY DEF TransferStep
<1> DEFINE fee == CalcFee(sender, "transfer", amount)
           pendingTime == IF 0 > ts THEN 0 ELSE 0
           last == IF pendingTime # 0 THEN order ELSE Zero
           signers == Signers(kid, sender, {})
           doc == TransferDoc(nextTx, sender, receiver, order, last, pendingTime)
           expiry == ts + duration
<1>2. /\ amount \in Nat /\ amount \in Int /\ duration \in Nat /\ ts \in Nat /\ ts \in Int
      /\ nextTx \in Nat /\ pendingTime = 0 /\ expiry \in Nat /\ 0 \in Int
  BY IssueAssumption, TimestampNat DEF TokenInv, ClockOK
<1>3. fee \in Nat /\ fee \in Int
  BY <1>2, CalcFeeNat, TokenForm DEF TokenInv, LedgerOK, FeeFn
<1>4. /\ sender # receiver /\ AccountExists(sender) /\ AccountExists(receiver)
      /\ Covers(sender, amount + fee)
      /\ nextTx' = nextTx + 1 /\ UNCHANGED <<now, token, account>>
      /\ \/ /\ CreateContract(nextTx, "transfer", doc, expiry, signers)
            /\ Deposit(nextTx, sender, nextTx, expiry, amount, fee, ts)
            /\ fees' = fees
         \/ /\ Transfer(nextTx, sender, receiver, amount, fee, pendingTime, ts)
            /\ contracts' = contracts
  BY <1>1 DEF transfer, UseTxID, Active
<1>5. doc \in TransferDocs /\ doc.receiver = receiver
  BY <1>2 DEF doc, last, TransferDoc, TransferDocs, OrderID, Zero
<1> HIDE DEF fee, pendingTime, last, signers, doc, expiry, order
<1>6. Fresh(nextTx) /\ Countable /\ AuditTrail /\ bal \in [Addr -> Int]
      /\ PendingsOK /\ FeesOK /\ ContractsOK /\ LedgerOK /\ ClockOK
  BY NextIsFresh DEF TokenInv, LedgerOK, Countable
<1>7. AccountsStay
  BY <1>4 DEF AccountsStay, AccountExists
<1>8. ClockOK'
  BY <1>2, <1>4, <1>6 DEF ClockOK
<1>9. bal[sender] \in Int /\ bal[sender] >= amount + fee /\ bal[receiver] \in Int
      /\ \A a \in Addr : bal[a] >= 0
  BY <1>4, <1>6 DEF Covers, LedgerOK, NonNegative
<1>10. CASE /\ CreateContract(nextTx, "transfer", doc, expiry, signers)
            /\ Deposit(nextTx, sender, nextTx, expiry, amount, fee, ts)
            /\ fees' = fees
  <2>1. Countable' /\ AuditTrail' /\ Money' = Money
    BY <1>2, <1>3, <1>6, <1>10, DepositMoves
  <2>2. pending' \subseteq pending \cup {Pending(nextTx, "contract", sender, nextTx, amount, fee, expiry)}
    BY <1>10 DEF Deposit
  <2>3. PendingsOK'
    BY <1>2, <1>3, <1>4, <1>6, <2>2, PendingsAreOwned
  <2>4. FeesOK'
    BY <1>2, <1>4, <1>6, <1>10, FeesKept
  <2>5. \A a \in Addr : bal'[a] = bal[a] \/ (AccountExists(a) /\ bal'[a] >= 0)
    BY <1>2, <1>3, <1>4, <1>6, <1>9, <1>10 DEF Deposit
  <2>6. LedgerOK'
    BY <1>4, <1>6, <2>1, <2>3, <2>4, <2>5, LedgerKept
  <2>7. ContractsOK'
    <3> DEFINE c == [id |-> nextTx, type |-> "transfer", doc |-> doc,
                     expiry |-> expiry, status |-> "open"]
    <3>1. c \in TransferContract /\ c.type = "transfer" /\ c.doc.receiver = receiver
      BY <1>2, <1>5 DEF TransferContract, Status
    <3>2. contracts' = contracts \cup {c}
      BY <1>10 DEF CreateContract
    <3> HIDE DEF c
    <3> QED
      BY <1>4, <1>6, <3>1, <3>2 DEF ContractsOK, AccountExists
  <2> QED
    BY <1>8, <2>6, <2>7 DEF TokenInv
<1>11. CASE /\ Transfer(nextTx, sender, receiver, amount, fee, pendingTime, ts)
            /\ contracts' = contracts
  <2>0. CreateFee(sender, fee, ts, nextTx) /\ pendingTime <= ts /\ pendingTime \in Int
    BY <1>2, <1>11 DEF Transfer
  <2>1. Countable' /\ AuditTrail' /\ Money' = Money
    BY <1>2, <1>3, <1>4, <1>6, <1>11, <2>0, TransferMoves
  <2>2. pending' = pending
    BY <1>2, <1>11 DEF Transfer
  <2>3. PendingsOK'
    BY <1>2, <1>4, <1>6, <1>7, <2>2, PendingsKept
  <2>4. FeesOK'
    BY <1>2, <1>3, <1>4, <1>6, <2>0, FeesAreOld
  <2>5. \A a \in Addr : bal'[a] = bal[a] \/ (AccountExists(a) /\ bal'[a] >= 0)
    BY <1>2, <1>3, <1>4, <1>6, <1>9, <1>11 DEF Transfer
  <2>6. LedgerOK'
    BY <1>4, <1>6, <2>1, <2>3, <2>4, <2>5, LedgerKept
  <2>7. ContractsOK'
    BY <1>6, <1>7, <1>11, ContractsUnchanged
  <2> QED
    BY <1>8, <2>6, <2>7 DEF TokenInv
<1> QED
  BY <1>4, <1>10, <1>11

(* Executing a transfer moves the deposit on, canceling it gives it back.     *)
LEMMA ExecuteTransferInv ==
  ASSUME TokenInv, ExecuteTransferStep
  PROVE  TokenInv'
<1>1. PICK c \in contracts, ts \in Timestamps : c.type = "transfer" /\ executeTransfer(c, ts)
  BY DEF ExecuteTransferStep
<1> DEFINE lock == IF c.doc.orderID.kind = "number" THEN c.doc.orderID.secs ELSE 0
           sender == c.doc.sender
           receiver == c.doc.receiver
<1>2. PICK pb \in pending : TransferPendingBalance(nextTx, pb, sender, receiver, lock, ts)
  BY <1>1 DEF executeTransfer
<1>3. c.doc \in TransferDocs /\ AccountExists(receiver)
  BY <1>1 DEF TokenInv, ContractsOK, TransferContract, KntContract
<1>4. receiver \in Addr /\ lock \in Int
  BY <1>3 DEF TransferDocs, OrderID
<1>5. /\ nextTx' = nextTx + 1 /\ UNCHANGED <<now, token, account>>
      /\ CloseContract(c, "executed")
  BY <1>1 DEF executeTransfer, UseTxID
<1>6. Fresh(nextTx) /\ Countable /\ AuditTrail /\ bal \in [Addr -> Int]
      /\ PendingsOK /\ FeesOK /\ ContractsOK /\ LedgerOK /\ ClockOK /\ nextTx \in Nat
  BY NextIsFresh DEF TokenInv, LedgerOK, Countable, ClockOK
<1>7. ts \in Int
  BY TimestampNat DEF TokenInv, ClockOK
<1> HIDE DEF lock, sender, receiver
<1>8. Countable' /\ AuditTrail' /\ Money' = Money
  BY <1>2, <1>4, <1>6, <1>7, TransferPendingMoves
<1>9. AccountsStay
  BY <1>5 DEF AccountsStay, AccountExists
<1>10. pb.amount \in Nat /\ pb.fee \in Nat /\ 0 \in Nat
  BY <1>2, <1>6 DEF PendingsOK
<1>11. PendingsOK'
  <2>1. CASE pending' \subseteq pending
    BY <1>5, <1>6, <1>9, <2>1, PendingsKept
  <2>2. CASE pending' \subseteq pending \cup
               {Pending(nextTx, "account", receiver, sender, pb.amount, 0, lock)}
    BY <1>3, <1>4, <1>5, <1>6, <1>10, <2>2, PendingsAreOwned DEF receiver
  <2> QED
    BY <1>2, <2>1, <2>2 DEF TransferPendingBalance
<1>12. FeesOK'
  <2>1. CreateFee(pb.account, pb.fee, ts, nextTx)
    BY <1>2 DEF TransferPendingBalance
  <2> QED
    BY <1>5, <1>6, <1>10, <2>1, FeesAreOld
<1>13. \A a \in Addr : bal'[a] = bal[a] \/ (AccountExists(a) /\ bal'[a] >= 0)
  <2>1. \A a \in Addr : bal[a] \in Int /\ bal[a] >= 0
    BY <1>6 DEF LedgerOK, NonNegative
  <2>2. AccountExists(receiver)
    BY <1>3 DEF receiver
  <2> QED
    BY <1>2, <1>4, <1>6, <1>10, <2>1, <2>2 DEF TransferPendingBalance
<1>14. LedgerOK'
  BY <1>5, <1>6, <1>8, <1>11, <1>12, <1>13, LedgerKept
<1>15. ContractsOK'
  BY <1>1, <1>5, <1>6, <1>9, ContractsClosed DEF Status
<1>16. ClockOK'
  BY <1>5, <1>6 DEF ClockOK
<1> QED
  BY <1>14, <1>15, <1>16 DEF TokenInv

(* A disapproval closes the contract; that of a transfer returns its deposit. *)
LEMMA CancelInv ==
  ASSUME TokenInv, CancelStep
  PROVE  TokenInv'
<1>1. PICK c \in contracts, ts \in Timestamps :
        IF c.type = "transfer" THEN cancelTransfer(c, ts)
        ELSE contractVoid(c) /\ UNCHANGED <<now, token, fees, pending, blog>>
  BY DEF CancelStep
<1>2. /\ UNCHANGED <<now, nextTx, token, account, fees>>
      /\ CloseContract(c, "canceled")
  BY <1>1 DEF cancelTransfer, contractVoid, txVars
<1>3. Countable /\ AuditTrail /\ bal \in [Addr -> Int] /\ nextTx \in Nat
      /\ PendingsOK /\ FeesOK /\ ContractsOK /\ LedgerOK /\ ClockOK
  BY DEF TokenInv, LedgerOK, Countable, ClockOK
<1>4. AccountsStay
  BY <1>2 DEF AccountsStay, AccountExists
<1>5. ContractsOK' /\ ClockOK' /\ FeesOK'
  BY <1>2, <1>3, <1>4, ContractsClosed, FeesKept DEF Status, ClockOK
<1>6. LedgerOK'
  <2>1. CASE c.type = "transfer"
    <3>1. PICK pb \in pending : Withdraw(pb, ts)
      BY <1>1, <2>1 DEF cancelTransfer
    <3>2. Countable' /\ AuditTrail' /\ Money' = Money
      BY <1>2, <1>3, <3>1, WithdrawMoves
    <3>3. PendingsOK'
      <4>1. pending' \subseteq pending
        BY <3>1 DEF Withdraw
      <4> QED
        BY <1>2, <1>3, <1>4, <4>1, PendingsKept
    <3>4. \A a \in Addr : bal'[a] = bal[a] \/ (AccountExists(a) /\ bal'[a] >= 0)
      <4>1. \A a \in Addr : bal[a] \in Int /\ bal[a] >= 0
        BY <1>3 DEF LedgerOK, NonNegative
      <4>2. pb.account \in Addr /\ AccountExists(pb.account) /\ pb.amount \in Nat /\ pb.fee \in Nat
        BY <1>3 DEF PendingsOK
      <4> QED
        BY <1>3, <3>1, <4>1, <4>2 DEF Withdraw
    <3> QED
      BY <1>2, <1>3, <1>5, <3>2, <3>3, <3>4, LedgerKept
  <2>2. CASE c.type # "transfer"
    <3>1. UNCHANGED <<bal, pending, blog>>
      BY <1>1, <2>2 DEF contractVoid
    <3>2. Countable' /\ AuditTrail' /\ Money' = Money
      BY <1>2, <1>3, <3>1 DEF Countable, AuditTrail, LogsOf, Money
    <3>3. PendingsOK'
      BY <1>2, <1>3, <1>4, <3>1, PendingsKept
    <3> QED
      BY <1>2, <1>3, <1>5, <3>1, <3>2, <3>3, LedgerKept
  <2> QED
    BY <2>1, <2>2
<1> QED
  BY <1>5, <1>6 DEF TokenInv

-----------------------------------------------------------------------------
(* The operations on the token.                                               *)

(* Minting, proposed or at once.                                              *)
LEMMA MintInv ==
  ASSUME TokenInv, MintStep
  PROVE  TokenInv'
<1>1. PICK kid \in Kid, amount \in KntAmounts, ts \in Timestamps :
        tokenMint(kid, amount, ts) /\ UNCHANGED <<now, fees>>
  BY DEF MintStep
<1>2. amount \in Nat /\ {} \in SUBSET Kid
  BY IssueAssumption
<1>3. CASE ProposeTo(Holders, "token/mint", TokenDoc({}, amount))
  BY <1>1, <1>2, <1>3, Proposed
<1>4. CASE Mint(amount, ts) /\ UNCHANGED <<nextTx, contracts>>
  <2>1. LedgerOK' /\ AccountsStay
    BY <1>1, <1>2, <1>4, MintLedger DEF TokenInv, tokenMint
  <2>2. ContractsOK'
    BY <1>4, <2>1, ContractsUnchanged DEF TokenInv
  <2> QED
    BY <1>1, <1>4, <2>1, <2>2 DEF TokenInv, ClockOK
<1> QED
  BY <1>1, <1>3, <1>4 DEF tokenMint

(* Burning, proposed or at once.                                              *)
LEMMA BurnInv ==
  ASSUME TokenInv, BurnStep
  PROVE  TokenInv'
<1>1. PICK kid \in Kid, amount \in KntAmounts, ts \in Timestamps :
        tokenBurn(kid, amount, ts) /\ UNCHANGED <<now, fees>>
  BY DEF BurnStep
<1>2. amount \in Nat /\ {} \in SUBSET Kid
  BY IssueAssumption
<1>3. CASE ProposeTo(Holders, "token/burn", TokenDoc({}, amount))
  BY <1>1, <1>2, <1>3, Proposed
<1>4. CASE Burn(amount, ts) /\ UNCHANGED <<nextTx, contracts>>
  <2>1. LedgerOK' /\ AccountsStay
    BY <1>1, <1>2, <1>4, BurnLedger DEF TokenInv, tokenBurn
  <2>2. ContractsOK'
    BY <1>4, <2>1, ContractsUnchanged DEF TokenInv
  <2> QED
    BY <1>1, <1>4, <2>1, <2>2 DEF TokenInv, ClockOK
<1> QED
  BY <1>1, <1>3, <1>4 DEF tokenBurn

(* Issuing, proposed or at once.                                              *)
LEMMA CreateInv ==
  ASSUME TokenInv, CreateStep
  PROVE  TokenInv'
<1>1. PICK kid \in Kid, addrs \in Founders, issue \in Issues, ts \in Timestamps :
        tokenCreate(kid, addrs, issue, ts) /\ UNCHANGED <<now, fees>>
  BY DEF CreateStep
<1> DEFINE kids == {kid} \cup SignableIDs(addrs)
<1>2. kids \in SUBSET Kid /\ kids # {}
  <2>1. addrs \in SUBSET Addr /\ account \in [Addr -> Account]
    BY IssueAssumption DEF TokenInv, LedgerOK, TypeOK
  <2>2. \A a \in addrs : account[a].holders \subseteq Kid
    BY <2>1 DEF Account
  <2> QED
    BY <2>2 DEF SignableIDs
<1>3. issue \in TokenIssue /\ 0 \in Nat
  BY IssueAssumption
<1>4. /\ ~Issued
      /\ \/ ProposeTo(kids, "token/create", TokenDoc(kids, 0))
         \/ CreateToken(kids, issue, ts) /\ UNCHANGED <<nextTx, contracts>>
  BY <1>1 DEF tokenCreate
<1> HIDE DEF kids
<1>5. CASE ProposeTo(kids, "token/create", TokenDoc(kids, 0))
  BY <1>1, <1>2, <1>3, <1>5, Proposed
<1>6. CASE CreateToken(kids, issue, ts) /\ UNCHANGED <<nextTx, contracts>>
  <2>1. LedgerOK' /\ AccountsStay
    BY <1>1, <1>2, <1>3, <1>4, <1>6, CreateLedger DEF TokenInv
  <2>2. ContractsOK'
    BY <1>6, <2>1, ContractsUnchanged DEF TokenInv
  <2> QED
    BY <1>1, <1>6, <2>1, <2>2 DEF TokenInv, ClockOK
<1> QED
  BY <1>4, <1>5, <1>6

(* The callbacks of the three.                                                *)
LEMMA ExecuteTokenInv ==
  ASSUME TokenInv, ExecuteTokenStep
  PROVE  TokenInv'
<1>1. PICK c \in contracts, ts \in Timestamps :
        /\ \/ executeTokenMint(c, ts)
           \/ executeTokenBurn(c, ts)
           \/ \E issue \in Issues : executeTokenCreate(c, issue, ts)
        /\ UNCHANGED <<now, fees>>
  BY DEF ExecuteTokenStep
<1>2. c.type \in {"token/create", "token/mint", "token/burn"} /\ nextTx' = nextTx
      /\ CloseContract(c, "executed")
  BY <1>1 DEF executeTokenMint, executeTokenBurn, executeTokenCreate
<1>3. c.doc.kids \in SUBSET Kid /\ c.doc.amount \in Nat
      /\ (c.type = "token/create" => c.doc.kids # {})
  BY <1>2 DEF TokenInv, ContractsOK, TransferContract, KntContract
<1>4. LedgerOK' /\ AccountsStay
  <2>1. CASE executeTokenMint(c, ts)
    BY <1>1, <1>2, <1>3, <2>1, MintLedger DEF TokenInv, executeTokenMint
  <2>2. CASE executeTokenBurn(c, ts)
    BY <1>1, <1>2, <1>3, <2>2, BurnLedger DEF TokenInv, executeTokenBurn
  <2>3. CASE \E issue \in Issues : executeTokenCreate(c, issue, ts)
    <3>1. PICK issue \in Issues : executeTokenCreate(c, issue, ts)
      BY <2>3
    <3> QED
      BY <1>1, <1>2, <1>3, <3>1, IssueAssumption, CreateLedger DEF TokenInv, executeTokenCreate
  <2> QED
    BY <1>1, <2>1, <2>2, <2>3
<1>5. ContractsOK'
  BY <1>2, <1>4, ContractsClosed DEF TokenInv, Status
<1> QED
  BY <1>1, <1>2, <1>4, <1>5 DEF TokenInv, ClockOK

(* token/update changes neither supply nor genesis account, and a new target  *)
(* exists.                                                                    *)
LEMMA UpdateInv ==
  ASSUME TokenInv, UpdateStep
  PROVE  TokenInv'
<1>1. PICK meta \in Metas : Issued /\ tokenUpdate(meta)
  BY DEF UpdateStep
<1>2. UNCHANGED <<now, nextTx, account, fees, bal, pending, blog, contracts>>
  BY DEF UpdateStep, txVars, balanceVars
<1>3. meta \in TokenMeta /\ token \in Token /\ token.genesis \in Addr
  BY <1>1, IssueAssumption, TokenForm DEF TokenInv, LedgerOK
<1>4. PICK policy \in NewPolicies(meta), wrap \in NewBridges(meta) :
        token' = [token EXCEPT !.policy = policy, !.wrap = wrap]
  BY <1>1 DEF tokenUpdate
<1>5. token' \in Token
  BY <1>1, <1>3, TokenUpdateType
<1>6. /\ token'.genesis = token.genesis /\ token'.supply = token.supply
      /\ token'.max = token.max /\ token'.policy = policy
  BY <1>3, <1>4 DEF Token
<1>7. policy.installed => policy.target \in {a \in Addr : AccountExists(a)}
  <2>1. /\ token.policy.installed => token.policy.target \in {a \in Addr : AccountExists(a)}
        /\ AccountExists(token.genesis)
    BY <1>1 DEF TokenInv, LedgerOK, TypeOK
  <2>2. DefaultTarget \in {a \in Addr : AccountExists(a)}
    BY <1>3, <2>1 DEF DefaultTarget
  <2>3. CASE meta.policy = {}
    <3>1. policy = [token.policy EXCEPT !.rates = NoRates] /\ token.policy \in FeePolicy
      BY <1>3, <2>3 DEF NewPolicies, Token
    <3> QED
      BY <2>1, <3>1 DEF FeePolicy
  <2>4. CASE meta.policy # {}
    <3>1. PICK p \in meta.policy :
            /\ p.target = NoAddr \/ AccountExists(p.target)
            /\ policy = [installed |-> TRUE, rates |-> p.rates,
                         target |-> IF p.target = NoAddr THEN DefaultTarget ELSE p.target]
      BY <2>4 DEF NewPolicies
    <3>2. p.target \in Addr \cup {NoAddr}
      BY <1>3 DEF TokenMeta, MetaPolicy
    <3> QED
      BY <2>2, <3>1, <3>2
  <2> QED
    BY <2>3, <2>4
<1>8. TypeOK'
  BY <1>1, <1>2, <1>5, <1>6, <1>7 DEF TokenInv, LedgerOK, TypeOK, Issued, AccountExists
<1> QED
  BY <1>2, <1>6, <1>8 DEF TokenInv, LedgerOK, ClockOK, ContractsOK, PendingsOK, FeesOK,
       NothingNowhere, Countable, AuditTrail, LogsOf, Conservation, SupplyWithinMax, NonNegative,
       AccountExists

-----------------------------------------------------------------------------
(* The invariant.                                                             *)

(* The start: no account but personal ones, and no money.                     *)
LEMMA InvInit == Init => TokenInv
<1> SUFFICES ASSUME Init PROVE TokenInv
  OBVIOUS
<1>1. /\ token = NotIssued /\ bal = [a \in Addr |-> 0]
      /\ account = [a \in Addr |-> [holders |-> {a} \cap Kid, suspended |-> FALSE]]
      /\ pending = {} /\ blog = {} /\ fees = {} /\ contracts = {}
  BY DEF Init
<1>2. ClockOK
  BY ContextAssumption DEF Init, TxInit, ClockOK, StartTime
<1>3. ContractsOK /\ PendingsOK /\ FeesOK /\ NothingNowhere /\ NonNegative
  BY <1>1 DEF ContractsOK, PendingsOK, FeesOK, NothingNowhere, NonNegative
<1>4. token.genesis = NoAddr /\ token.supply = 0 /\ token.max = 0 /\ ~token.policy.installed
  BY <1>1 DEF NotIssued, NoPolicy
<1>5. TypeOK
  <2>1. account \in [Addr -> Account] /\ bal \in [Addr -> Int]
    BY <1>1 DEF Account
  <2>2. \A a \in Joint : ~AccountExists(a)
    BY <1>1, AddressAssumption DEF AccountExists, Addr
  <2> QED
    BY <1>1, <1>4, <2>1, <2>2 DEF TypeOK, Issued
<1>6. IsFiniteSet({}) /\ IntDeposits({}) /\ IntAmounts({}) /\ IntLogs({})
  BY FS_EmptySet DEF IntDeposits, IntAmounts, IntLogs
<1>7. Countable
  BY <1>1, <1>5, <1>6 DEF Countable, TypeOK
<1>8. AuditTrail
  <2>1. ASSUME NEW a \in Addr PROVE bal[a] = LogSum(LogsOf(a))
    <3>1. LogsOf(a) = {} /\ bal[a] = 0
      BY <1>1 DEF LogsOf
    <3>2. LogSum({}) = 0
      BY <1>6, LogSumTake
    <3> QED
      BY <3>1, <3>2
  <2> QED
    BY <2>1 DEF AuditTrail, LogSum
<1>9. Conservation
  <2>1. SumFunction(bal) = 0
    <3>1. bal \in [Addr -> {0}]
      BY <1>1
    <3> QED
      BY <3>1, AddrFinite, SumFunctionZero
  <2>2. DepositSum({}) = 0 /\ AmountSum({}) = 0
    BY <1>6, DepositSumTake, AmountSumTake
  <2> QED
    BY <1>1, <1>4, <2>1, <2>2, ConservationIsMoney DEF Money
<1> QED
  BY <1>2, <1>3, <1>4, <1>5, <1>7, <1>8, <1>9 DEF TokenInv, LedgerOK, SupplyWithinMax

(* Every step of the system keeps it.                                         *)
LEMMA InvStep == TokenInv /\ [Next]_vars => TokenInv'
<1> SUFFICES ASSUME TokenInv, [Next]_vars PROVE TokenInv'
  OBVIOUS
<1>1. CASE TickStep \/ UNCHANGED vars
  <2>1. UNCHANGED <<nextTx, token, account, fees, bal, pending, blog, contracts>>
    BY <1>1 DEF TickStep, vars, txVars, balanceVars
  <2>2. ClockOK'
    <3>1. now' = now + 1 \/ now' = now
      BY <1>1 DEF TickStep, Tick, vars, txVars
    <3>2. now \in Nat /\ now >= StartTime /\ nextTx \in Nat /\ StartTime \in Nat
      BY ContextAssumption DEF TokenInv, ClockOK, StartTime
    <3>3. now' \in Nat /\ now' >= StartTime
      BY <3>1, <3>2
    <3> QED
      BY <2>1, <3>2, <3>3 DEF ClockOK, StartTime
  <2> QED
    BY <2>1, <2>2 DEF TokenInv, LedgerOK, ContractsOK, PendingsOK, FeesOK, NothingNowhere,
         Countable, AuditTrail, LogsOf, Conservation, SupplyWithinMax, NonNegative, TypeOK, Issued,
         AccountExists
<1> QED
  BY <1>1, CreateInv, MintInv, BurnInv, UpdateInv, ExecuteTokenInv, ExecuteTransferInv,
     CancelInv, TransferInv DEF Next

(* The inductive invariant holds: the token document, the accounts and the    *)
(* money of the ledger stay consistent through every approval.                *)
THEOREM TokenInvariant == Spec => []TokenInv
BY InvInit, InvStep, PTL DEF Spec

(* Documents are well-formed, the token is issued exactly when a genesis      *)
(* account exists, and the target of its fees is an account.                  *)
THEOREM TypeCorrect == Spec => []TypeOK
<1>1. TokenInv => TypeOK
  BY DEF TokenInv, LedgerOK
<1> QED
  BY <1>1, TokenInvariant, PTL

(* Mints and burns approved in any order leave the supply between zero and    *)
(* the maximum.                                                               *)
THEOREM SupplyBounded == Spec => []SupplyWithinMax
<1>1. TokenInv => SupplyWithinMax
  BY DEF TokenInv, LedgerOK
<1> QED
  BY <1>1, TokenInvariant, PTL

(* A burn approved late takes no more than the genesis account still has, and *)
(* no transfer more than its sender: no balance is ever negative.             *)
THEOREM NoOverdraft == Spec => []NonNegative
<1>1. TokenInv => NonNegative
  BY DEF TokenInv, LedgerOK
<1> QED
  BY <1>1, TokenInvariant, PTL

(* Balances, deposits and charged fees always add up to the supply, whatever  *)
(* is issued, minted, burned and moved.                                       *)
THEOREM MoneyConserved == Spec => []Conservation
<1>1. TokenInv => Conservation
  BY DEF TokenInv, LedgerOK
<1> QED
  BY <1>1, TokenInvariant, PTL

(* The logs of an account, those of mints and burns among them, explain its   *)
(* balance.                                                                   *)
THEOREM LogsComplete == Spec => []AuditTrail
<1>1. TokenInv => AuditTrail
  BY DEF TokenInv, LedgerOK
<1> QED
  BY <1>1, TokenInvariant, PTL

(* One approved issue is the last: whatever further contracts to create the   *)
(* token wait, its genesis account and its maximum never change again.        *)
THEOREM IssuedForGood == Spec => IssuedOnce
<1>1. ASSUME TokenInv, [Next]_vars, Issued
      PROVE  token'.genesis = token.genesis /\ token'.max = token.max
  <2>1. token \in Token
    BY <1>1, TokenForm DEF TokenInv, LedgerOK
  <2>2. \/ token' = token
        \/ \E supply : token' = [token EXCEPT !.supply = supply]
        \/ \E policy, wrap : token' = [token EXCEPT !.policy = policy, !.wrap = wrap]
    <3>1. CASE CreateStep
      BY <1>1, <3>1 DEF CreateStep, tokenCreate
    <3>2. CASE MintStep
      BY <3>2 DEF MintStep, tokenMint, ProposeTo, Mint
    <3>3. CASE BurnStep
      BY <3>3 DEF BurnStep, tokenBurn, ProposeTo, Burn
    <3>4. CASE UpdateStep
      BY <3>4 DEF UpdateStep, tokenUpdate
    <3>5. CASE ExecuteTokenStep
      BY <1>1, <3>5 DEF ExecuteTokenStep, executeTokenMint, executeTokenBurn, executeTokenCreate,
           Mint, Burn
    <3>6. CASE ExecuteTransferStep
      BY <3>6 DEF ExecuteTransferStep, executeTransfer
    <3>7. CASE CancelStep
      BY <3>7 DEF CancelStep, cancelTransfer
    <3>8. CASE TransferStep
      BY <3>8 DEF TransferStep, transfer
    <3>9. CASE TickStep \/ UNCHANGED vars
      BY <3>9 DEF TickStep, vars
    <3> QED
      BY <1>1, <3>1, <3>2, <3>3, <3>4, <3>5, <3>6, <3>7, <3>8, <3>9 DEF Next
  <2> QED
    BY <2>1, <2>2 DEF Token
<1>2. TokenInv /\ [Next]_vars =>
        [Issued => token'.genesis = token.genesis /\ token'.max = token.max]_vars
  BY <1>1
<1> QED
  BY <1>2, TokenInvariant, PTL DEF Spec, IssuedOnce
=============================================================================

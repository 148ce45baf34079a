# TLA+ specifications of the kiesnet token chaincode

This directory holds TLA+ specifications of the chaincode in `src/`, the TLC
configurations that check them on small instances, and TLAPS proofs of their safety
properties for every instance. Modules, runs, mutations, the source lines each
definition stands for, findings, hazards and theorems are listed in
`PROJECT.json`.

    tlc -config MCTransfer.cfg MCTransfer      # any run of the table below
    tlapm TransferProofs.tla                   # all proofs of a module

## 1. The system

The chaincode keeps tokens: account documents, balances, and money that is on its
way. It runs on Hyperledger Fabric. A handler reads keys and writes keys in one
transaction; the writes are applied all or not at all, at the commit, and only if
nothing the handler read by key has changed since its endorsement. It has no
threads, no state in memory and no retries of its own. What makes it hard is what lies
*between* transactions:

* **Time.** The client picks the timestamp of a transaction; `txtime.GetTime`
  only wants it within five minutes of the clock of the endorsing peer. Expiry
  times, time locks, the keys of logs and the order of the prunes all depend on
  such timestamps, which may run backwards from one transaction to the next.
* **Contracts.** Whatever needs several signers becomes a document at the
  kiesnet-contract chaincode, which calls `contract/execute` or `contract/cancel`
  back, maybe much later, maybe after the expiry, maybe never. What the proposal
  checked (balance, supply, holders, limits, the policy) may have changed.
* **Deferred money.** An amount can be in a pending balance, a pay, a fee, or an
  open wrap before it is in a balance again. Each is a document of its own.
* **Prunes.** `pay/prune` and `fee/prune` add up documents by a range query of a rich
  index, which Fabric does not validate at commit: documents may appear in the range
  meanwhile.

### Components

| component | state | operations |
|---|---|---|
| Transaction context (`main.go`, txtime) | transaction id, timestamp | `GetTime`, `GetTxID` |
| Accounts (`account*.go`) | account document: holders, suspension; relations per holder (`HLD_`) | `account/create`, `account/holder/add`, `account/holder/remove`, `account/suspend`, `account/unsuspend`; three contracts |
| Balances (`balance*.go`) | balance, pending balances, balance logs | `Supply`, `Transfer`, `Deposit`, `Withdraw`, `TransferPendingBalance`; `balance/pending/withdraw` |
| Transfers (`transfer_tx.go`) | none of its own | `transfer`; a contract that is executed or canceled |
| Token (`token*.go`) | token document: genesis account, supply, maximum, fee policy, wrap bridge | `token/create`, `token/mint`, `token/burn`, `token/update`; three contracts |
| Fees (`fee*.go`, `last_prun*.go`, `amount.go`) | fee documents, last pruned fee id | `CalcFee`, `CreateFee`, `fee/prune` |
| Pays (`pay*.go`) | pay documents, `Balance.LastPrunedPayID` | `pay`, `pay/refund`, `pay/prune`; a contract |
| Wraps (`wrap*.go`) | wrap and unwrap documents | `wrap`, `wrap/complete`, `unwrap`; a contract |
| Contract callbacks (`contract_tx.go`) | none (documents are with kiesnet-contract) | `contract/execute`, `contract/cancel` |
| Queries and results (`queries.go`, `query_result.go`, ...) | none | lists and gets |

They meet in shared documents: everyone reads accounts and writes balances; the
token's fee policy prices transfers and pays, its bridge names the wrap account,
its genesis account mints; deposits of transfers, pays and wraps are all pending
balances that `balance/pending/withdraw` can take; `CreateFee` is called by transfers,
prunes and wrap completions, `fee/prune` collects them all.

### What makes each component correct

* *Accounts*: a joint account keeps at least two holders; nobody becomes a holder
  without having signed; adding stays within the limit; the two places holders are stored
  in agree.
* *Balances and transfers*: money is neither made nor lost; no overdraft; logs
  explain balances; a deposit and its open contract belong
  together; nothing leaves before its time but by its contract; what is set aside
  finds a way out; a suspended account is not debited.
* *Token*: issued once; the supply is what was issued and stays within the maximum,
  whichever mints and burns are approved when.
* *Fees*, *pays*: every document is collected at most once, by whom it belongs to;
  a pay costs what the policy asks for when it is made; refunds stay within their pay; no
  document is left behind the last pruned one.
* *Wraps*: an amount is in one place; every wrap and every external transaction
  is paid once, whatever the bridge repeats.

## 2. Modules

Modules follow the files of the source. A module `XStub` or `XTx` defines the
operations on one kind of document as operators over its variables; a module
`XSystem` composes the operations that interact most closely into a specification
with its properties; `Chaincode` composes all operations on money (all but creating
accounts, changing holders and issuing the token); `MCX` gives the constants
values. EXTENDS follows the calls.

    Address  Amount  Prune  TxContext  Contract
      TokenStub -> FeeStub        AccountStub
             \        \            /
              TokenTx  BalanceStub  <- Contract
                         |  PayStub  HolderTx  AccountTx
                         |
           TransferTx  PayTx  FeeTx  WrapTx  IssueTx
                \        |      |       |       /
      Ledger ->  TransferSystem  PaySystem  WrapSystem  Chaincode (all five)
                 AccountSystem  TokenSystem (from before the issue, no Ledger)

    TransferSystem, PaySystem and WrapSystem implement IdealTransfer, IdealPay and IdealWrap.

| module | stands for |
|---|---|
| `TxContext` | time, timestamps, transaction ids. A handler is one step at its commit, under any timestamp in `now - Skew - Latency .. now + Skew` |
| `Address`, `Amount` | addresses as model values; `MulRat` with the rounding of `big.Int.Div` |
| `AccountStub`, `AccountTx` | `account.go`, `account_stub.go`; suspending and unsuspending |
| `HolderTx` | `account_tx.go`: accounts and holders, and their contracts |
| `TokenStub`, `TokenTx`, `IssueTx` | the token document; `token/update`; creating, minting, burning |
| `FeeStub`, `FeeTx` | `CalcFee`, `CreateFee`; `fee/prune` |
| `BalanceStub` | `balance_stub.go` and `balance/pending/withdraw` |
| `Contract` | external: kiesnet-contract, as `contract_tx.go` and its client use it |
| `TransferTx`, `PayStub`, `PayTx`, `WrapTx` | the handlers of their files, with callbacks |
| `Prune` | what the two prunes share: end of the range, batches in the order of time up to a limit |
| `Ledger` | the initial states: any accounts, balances and policies a history may have left |
| `TransferSystem`, `PaySystem`, `WrapSystem`, `TokenSystem`, `AccountSystem` | a component with what it meets most: callbacks, withdrawals, policy changes, suspensions |
| `Chaincode` | every operation on money on one ledger, with suspensions and updates; liveness |
| `IdealTransfer`, `IdealPay`, `IdealWrap` | what transfers, pays and wraps promise: owners' wealth, promises to receivers, sales that are refunded, amounts that are away on the other chain; no pending balances, logs, prunes or contracts |
| `SumProofs`, `BalanceProofs` | lemmas: sums over finite sets; what the operations of `BalanceStub` do to money and logs |
| `TransferProofs`, `PayProofs`, `WrapProofs`, `TokenProofs`, `AccountProofs`, `ChaincodeProofs` | theorems of the systems (section 5) |

How state corresponds:

* `account[a].holders = {}` says that there is no document for `a`. The address of a
  personal account is its holder's kid. `relations` are the `HLD_` keys.
* `bal`, `pending`, `blog`, `fees`, `pays`, `wraps`, `unwraps` are the documents under
  `BLC_`, `PBLC_`, `BLOG_`, `FEE_`, `PAY_`, `WRAP_`, `UNWRAP_`. Ids made of a timestamp and a transaction id
  are two fields, `ts` and `tx`. `payCursor` and `feeCursor` are the times in the
  last pruned ids.
* `contracts` are the documents at kiesnet-contract with a status. The
  contract's id is the one of the transaction that created it; only equality of
  ids matters.
* `prunedPays`, `prunedFees` are history: which documents a prune has added up.
* In `Chaincode`, pays a merchant has collected before the start are in `EarlierPays`, with negative
  transaction ids, so that refunds of collected pays come within few steps. Fees collected before are
  left out: no operation reads them again. Accounts and their holders are fixed there; they
  are the subject of `AccountSystem`.
* `asked` in a transfer's document and `signers` in an account's are history too; no
  action reads them.

A handler is one action, with guards in place of its early returns. A step that
fails changes nothing and is no step. The callbacks are actions enabled for every open
contract, at any time. A few details deserve mention:

* **Prunes are two steps.** `payPrune` and `feePrune` are endorsements: they run the query and
  remember the batch and the balance they have read. The commit writes the balance that was computed from it, whatever
  the balance is by then. Any committed step in between drops the
  endorsements whose read set it has written (`Survivors`, `FeeSurvivors`), as Fabric's validation of
  read versions does; new pays or fees in the range do not, as range queries of
  rich indexes are not validated. Handlers that only read keys need no second
  step, since they commit only on the state they have read. `Survivors` compares values where Fabric
  compares versions, so a document that is written and gets its old value back keeps an endorsement alive: a few
  behaviours more than Fabric has, none less. Were the balance or the account not among what is compared, a
  commit would undo other operations, or debit an account suspended meanwhile: the mutations `SurvivorsOfWrites`,
  `FeeSurvivorsOfWrites` and `SurvivorsOfSuspensions` do, and violate `Conservation`, `AuditTrail` and `SuspendedKeepsBalance`.
* **Transaction ids are used up when something is stored under them**: a prune without a fee, a
  completion without a fee and a withdrawal leave no document of that name. An id that is not
  stored cannot meet another one.
* **A batch ends at a limit** and documents of one timestamp come in the order of
  their keys, transaction ids that are hashes: in any order.

Operators with a comment `mutation of X` are not part of a specification: no
definition uses them. They say how a plausible bug in `X` would look;
`PROJECT.json` pairs each property with one that violates it.

## 3. Runs

All runs fix a few accounts and bound two counters: `MaxTx`, the transaction ids
consumed (every handler that stores something under its id takes one), and
`MaxTime`, the clock. `StartTime = Skew + Latency + 1` keeps timestamps positive.

| run | instance and bounds | shows |
|---|---|---|
| `transfers` | alice, bob and their joint account; two transactions, time 1..3; a capped rate, then a negative one | instant, locked and multi-signature transfers in every order of callbacks, withdrawals, suspensions and a policy change keep `NonNegative`, `EscrowMatchesContract`, `Conservation`, `AuditTrail`, `NoEarlyExit`, `SuspendedKeepsBalance` and implement `IdealTransfer` |
| `transfers_lock` | as `transfers` | finding: `MultiSigLockHonoured` fails |
| `pays` | alice, carol, their joint account, a shop; the money is with alice or the joint account; the shop pays half as fee, or nothing as the target, and later all; four transactions, `Latency` 1, batches of 2 | pays, refunds, a policy change and concurrently endorsed prunes implement `IdealPay` and keep `RefundsWithinPay`, `FeeOfPolicyInForce` and `OnlyPruneOverdraws` |
| `pays_late` | two customers, `Skew` 1, `Latency` 1, all prunes with `ten_minutes_flag` (`Safe` 2) | finding: `NoPayPassedOver` fails |
| `pays_tie` | the same, `Latency` 0, batches of 1 | finding: `EveryPayCollectable` fails |
| `prunes` | `Chaincode` with alice, a shop and the genesis account; `Skew` 1, `Safe` 2, time 2..6, batches of 1; pays, refunds, transfers, both prunes up to the present or an explicit `end_time`, another fee target | `NoPayPassedOver`, `NoFeePassedOver`: nothing gets behind a last pruned document; `OnlyTargetCollects` |
| `chaincode` | `Chaincode` with every operation (the transfer is one of the joint account; locked ones are in `live`); a pay collected before, three transactions, time 1..3, `Latency` 1; the shop is merchant, wrap account and later fee target; alice and the shop may be suspended, the shop also while its prune is under way | `Conservation`, `AuditTrail`, `EscrowMatchesContract`, `OnlyPrunesOverdraw`, `SuspendedKeepsBalance` across components |
| `live` | `Chaincode`, `Skew` 1, `Safe` 2, time 2..4, two transactions; a locked transfer, a pay, a wrap the shop has to sign, a bridge that comes and goes, a shop that is suspended | `NothingStranded`, `WrapsSettle`, `PaysCollected`, `FeesCollected` |
| `accounts` | three holders of a joint account, dave without an account, one more joint address; limit 3; two contracts in flight | `NeverBelowTwo`, `RelationsMatch`, `NobodyJoinsUnasked`, `AddStaysInLimit` |
| `accounts_limit` | the same | finding: `HolderLimit` fails |
| `tokens` | nothing issued yet; two possible genesis accounts; maximum 3, amounts 0 and 2; four transactions | `SupplyWithinMax`, `NonNegative`, `Conservation`, `IssuedOnce` |
| `wraps` | alice, a bridge, a joint account; two external transactions; three transactions | `PaidOnce`, and wraps implement `IdealWrap` |

Every passing run also checks its module's `TypeOK` (but `prunes` and `live`,
which share their module with `chaincode`).

The refinements carry the conservation of money: in `IdealPay`, for example, a step is a sale, a
refund or nothing, and wealth, outstanding fees and sales change together, so a
prune that counted a pay twice or a withdrawal that lost a unit would be no step of
it. `Conservation` is stated on its own where several components or changes of the supply meet.

Why the bounds are enough:

* Amounts are few because arithmetic is exact. The values are chosen around a
  boundary: balances that cover one transfer with its fee but not two, a burn that exceeds
  what is left, a mint that passes the maximum, a fee rate of one half that rounds,
  a rate capped at one, a fee that eats the whole pay, a negative rate.
* Two transactions with ids are two transfers in flight, or one with a callback that
  stores under its own id; interferences in this code are between a
  document and one other operation. Pays need four: a pay, a refund and two prunes, or two pays.
* Two accounts of persons and one joint account give every role: single signer,
  several signers, an extra signer, sender and receiver who are alike in one holder.
* `Skew` 1 and `Safe` 2 keep the ratio of five to ten minutes. `Skew` is 0 where
  timestamps do not matter for the question, to pay for more transactions;
  timestamps that run backwards are in `prunes`, `live`, `pays_late` and
  `pays_tie`, and the proofs are for every `Skew`.
* `Chaincode` takes requests from small sets (`TransferRequests` and so on) in place of all
  combinations of parameters: each request is there to let two components meet. A refund of the
  earlier pay makes fees negative, so that `chaincode` does reach a target that is debited, a suspended one
  included; the component runs have the combinations.
* In `live` no two pays and no two fees can share a timestamp and a batch holds two, so the
  finding of `pays_tie` stays out; that of `pays_late` stays out with `Latency` 0. Two
  pays or two fees with a prune between them are in. The amount of the wrap does not exceed the fee of the bridge, the
  case in which only a completion without external transaction is possible.
* 128 signers and batches of 900 become 3, and 1 or 2: what matters is that the
  limit is reached.

`CHECK_DEADLOCK FALSE` is set in the runs `pays_late` and `pays_tie`, in which
nothing is left to do when time and transaction ids are used up (no policy
update and no suspension is among their actions). The others always have an update or a
suspension left.

### Fairness

Only `live` assumes any. `Fairness` itself is weak fairness of the clock, and weak fairness of a
suspended holder's `account/unsuspend`, which is always enabled for a suspended holder. Each
property then names, as its own premise, whose requests it counts on: strong fairness of
`balance/pending/withdraw` for `NothingStranded`, of `wrap/complete` for `WrapsSettle`, of endorsing and
committing prunes for `PaysCollected` and `FeesCollected`. These are requests of
clients, so the premise is about people: they keep asking for what they can have. Fairness has to be strong as
suspensions, bridge updates and writes to the same balances disable them time and again. The code owes that the
request then succeeds, which is what the properties test: that nothing a client did before has put the
document out of reach. Nothing is assumed of signers: `contract/execute` and `contract/cancel` may never
come. `WrapsSettle` has a second premise, that the bridge of the token is usable infinitely often: a token
whose operators remove the bridge for good keeps its open wraps open, and no handler gives them back.

The clock of the model stops at `MaxTime`, so the properties speak of pending balances whose time
comes before, and of pays and fees old enough for a safe prune by then. With the clock stopped only few timestamps are
left for new logs; the target of fees is an account nobody else uses, so that they suffice.

## 4. Findings

* **`transfers_lock`**, `transfer_tx.go:327`. The document of a multi-signature
  transfer ends with the order id where its comment promises the pending time
  (`transfer_tx.go:189` stores `params[4]`), and the callback reads the
  order id as a pending time. A locked multi-signature transfer credits the receiver at once; an order id of
  digits locks it by accident; any other order id makes every execution fail until
  the deposit expires. The model follows the code; `asked` keeps what was asked for.
* **`pays_late`**, `pay_tx.go:401`. Ten minutes cover the two tolerances of five
  minutes and nothing else: a pay that commits any time after its endorsement can still fall
  behind the last pruned pay. Section 5 has the margin that suffices.
* **`pays_tie`**, `queries.go:165`. A batch that ends between two pays of one
  timestamp leaves the second for ever, since the next query starts strictly after.
* **`accounts_limit`**, `account_tx.go:68`. The limit of holders at the creation counts addresses,
  without the invoker and before joint addresses are expanded.

## 5. Proofs

All theorems hold for every value of the constants that satisfies the named
assumptions: any number of accounts, holders, requests, policies, bridges and transactions, any batch
sizes, skew and latency. The assumptions are types and sanity of constants (`ContextAssumption`,
`SignersAssumption`, the `SystemAssumption` of each system, `IssueAssumption`) and these:

* `AddressAssumption`: kids and joint addresses are different and finite in number. `Joint` stands for addresses still to be created too, so
  finiteness says no more than that an instance has a bound; sums over balances need it.
* `LedgerAssumption`: initial balances are not negative and add up to the supply, a policy that is installed
  has a target, and it exists. `CreateToken` and `token/update` see to both.
* `HoldersAssumption` (accounts only): joint accounts of the start have at least two holders or do
  not exist. A genesis account issued by a single kid is the one exception in the code; it is
  covered by `tokens`, and `NeverBelowTwo` is not claimed for it.

Every safety property of a passing run is a theorem, for every instance:

| module | inductive invariant | theorems |
|---|---|---|
| `SumProofs`, `BalanceProofs` | | lemmas on sums; what each operation of `BalanceStub` does to money, logs and wealth |
| `TransferProofs` | `TransferInv`, `SumsInv` | `TypeOK`, `NonNegative`, `EscrowMatchesContract`, `Conservation`, `AuditTrail`, `NoEarlyExit`, `SuspendedKeepsBalance`, `ImplementsIdeal` |
| `PayProofs` | `Inv` | `TypeOK`, `RefundsWithinPay`, `FeeOfPolicyInForce`, `AuditTrail`, `OnlyPruneOverdraws`, `ImplementsIdeal` |
| `WrapProofs` | `WrapInv` | `TypeOK`, `PaidOnce`, `ImplementsIdeal` |
| `TokenProofs` | `TokenInv` | `TypeOK`, `SupplyWithinMax`, `NonNegative`, `Conservation`, `AuditTrail`, `IssuedOnce` |
| `AccountProofs` | `AccountInv` | `TypeOK`, `NeverBelowTwo`, `RelationsMatch`, `AddStaysInLimit`, `NobodyJoinsUnasked` |
| `ChaincodeProofs` | `Inv`, `PastInv` | `TypeOK`, `Conservation`, `AuditTrail`, `EscrowMatchesContract`, `OnlyPrunesOverdraw`, `SuspendedKeepsBalance`, `OnlyTargetCollects`; with a margin `NoPayPassedOver`, `NoFeePassedOver` |

**Sums.** `SumFunction` is a fold over a finite set, and the induction theorems of the library cannot be used
(their predicate is a parameter). `SumProofs` takes the smallest counterexample in their place: the strict subsets of a finite set
are well-founded, so if some set had no sum, a smallest one would, and one term less
gives it one after all. From there on sums are arithmetic: a term less, a term changed, a set split in two
(`SumFunctionTake`, `SumFunctionChange`, `SumFunctionSplit`). `BalanceProofs` has one lemma per operation of `balance_stub.go` (`TransferMoves`,
`DepositMoves`, `WithdrawMoves`, `TransferPendingMoves`, `SupplyMoves`): it keeps `AuditTrail` and changes `Money`, the sum of
balances, pending balances and fees, by what is said there.

**Transfers.** `TransferInv == TypeOK /\ UniqueIDs /\ NonNegative /\ EscrowMatchesContract` is
inductive, no conjunct is on its own. That a balance stays non-negative needs that fees
are not negative under any policy, rates of either sign included (`CalcFeeNat`), and that amounts set aside are
positive, both in `TypeOK`. That a callback finds the deposit of its own contract and removes no
other needs `UniqueIDs`, a strengthening defined with the proofs: ids are different and below
`nextTx`. `SumsInv` adds the money, on top of it.

**Pays.** `Inv == Documents /\ PrunesOK /\ EndorsedOK`. What keeps a pay from being collected twice is a relation of
three things that change in different steps: pays collected lie at or before the cursor (`PrunesOK`), pays in an endorsed
batch beyond it (`EndorsedOK`), and an endorsement whose cursor has moved is gone (`Survivors`). An endorsement
also reserves the id of the fee document it will leave, and the balance it has read is still its account's (`EndorsedOK`), which makes
writing that balance plus the batch the same as adding the batch. `RefundsWithinPay` is not inductive: that the fees of several
refunds, each rounded by itself, stay within the fee of the pay follows only if they are in proportion,
`-FeeSum(refunds) * amount <= refunded * fee`, which a step keeps as `big.Int.Div` rounds down.
`FeeOfPolicyInForce` compares the fee of every new pay with `FeeDue`, which states what the policy asks for without `CalcFee`'s
reductions; `CalcFeeDue` shows that they agree for every rate and limit, `NewPayDue` that a pay is made under the policy of its own step.

**Wraps and token.** `WrapInv` adds to the types that a contract finds no deposit but its own
sender's. `TokenInv` needs everything at once: that a burn leaves a supply of at least zero holds because no burn exceeds the
balance of the genesis account, and no balance exceeds the supply because money is conserved and no balance is
negative; that creating an account loses no money holds because nothing is sent to an
account that does not exist.

**Accounts.** `AccountInv == TypeOK /\ ContractsValid /\ NeverBelowTwo /\ RelationsMatch`.
`ContractsValid` is the strengthening: that an executed contract leaves two
holders depends on what it was proposed with, long before. `StepKinds` reduces every handler and
callback to one of five changes of accounts and three of contracts; each
conjunct has one lemma about those.

**Chaincode.** `Inv == Documents /\ EscrowOK /\ PrunesInv /\ SumsOK` combines the above on one ledger. Every handler and callback
has one lemma, which shows `Kept`: documents, deposits and sums hold again, cursors and history are untouched, new
documents have the id of the transaction, and whoever is debited has the money and is not suspended. What this says of
prunes under way is proved once for all of them (`SurvivorsOK`, `FeeSurvivorsOK`), and the commits of prunes follow.

`PastInv` is about time. Let `Margin == Safe >= 2 * Skew + Latency /\ PruneFlags \subseteq {TRUE}`: all prunes use
`ten_minutes_flag`, and what it subtracts covers the tolerance of timestamps on both sides and the latency of a commit. Then
cursors and the ends of endorsed batches stay at or before `now - Skew - Latency`, the earliest timestamp a step may
have, and an endorsed batch is complete up to its end; the fee document that a late commit of `pay/prune` leaves
is no exception, since its endorsement expires. From this follow `NoPayPassedOver` and
`NoFeePassedOver`. The code subtracts ten minutes for two tolerances of five, `Safe = 2 * Skew`: this is the margin exactly where
`Latency = 0`, and the finding `pays_late` shows that with `Latency = 1` the property fails. The premise cannot be dropped.

**Refinement.** `ImplementsIdealTransfer`, `ImplementsIdealPay` and `ImplementsIdealWrap` map the initial states and every
step under the inductive invariant: a step of the system is one step of the abstract specification, or leaves its variables alone. Instances are by
`INSTANCE ... WITH` in the systems, the same the runs check. For pays this is the strongest statement about prunes: commit and
endorsement both map to stuttering, so a batch takes from the uncollected pays precisely what it adds to the
balance and to the fees.

**Only model-checked**: the four liveness properties of `live`, which are beyond the prover. The properties
that findings violate have no theorems, being false.

## 6. Not modelled

* Queries (`*/get`, `*/list`, `balance/logs`): they change nothing and their results are for clients. The two range
  queries that prunes run are `QueryPrunePays` in `PayStub` and `QueryPruneFee` in `FeeTx`.
* Parsing, hashing and checksums of addresses and external transaction ids, JSON
  and routing: no state. Addresses of several tokens do not interact, so there is one token.
* The kiesnet-id, kiesnet-contract and `knt-<code>` chaincodes are not in the repository. The
  first authenticates; the second is `Contract`; answers of the third are inputs
  (`Metas`, `Issues`, `KntAmounts`).
* The migration of the last pruned fee id out of the token document at the first `fee/prune`
  (`fee_tx.go:167`): `feeCursor` stands for either place.
* Memos, and the time a document was updated.

## 7. Plan

Done, in this order: transfers with their balances, contracts and proofs; pays and their prunes; fees; accounts with
proofs; token; wraps; the abstract specifications of pays and wraps and their refinements; `Chaincode`, the
composition of all components, with liveness; lemmas on sums; proofs of the safety properties and refinements of all
systems, and of the margin that prunes need.

Next:

1. `Chaincode` implements `IdealPay` and `IdealWrap` at the same time: the refinements of the components, on the ledger they share.
2. The fee of a transfer against a reference definition, as `FeeOfPolicyInForce` has it for pays, and that of a refund.
3. Safety parts of the liveness properties as theorems: a pending balance whose time has come can be withdrawn whatever
   the state of its contract, up to the timestamps that logs have taken.

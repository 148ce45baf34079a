CONSTANTS
  alice = alice
  shop = shop
  joint = joint
  eth = eth
  x1 = x1
  Kid = {alice, shop}
  Joint = {joint}
  NoAddr = NoAddr
  ExtCode = {eth}
  ExtTx = {x1}
  Skew = 0
  Latency = 1
  Safe = 0
  MaxTime = 3
  MaxTx = 3
  MaxSigners = 128
  PaysPruneSize = 2
  FeePruneSize = 2
  Genesis = joint
  InitialHolders <- MCHolders
  InitialSupply = 7
  InitialBalances <- MCInitialBalances
  InitialPolicies <- MCInitialPolicies
  TransferRequests <- MCTransfers
  PayRequests <- MCPays
  WrapRequests <- MCWraps
  UnwrapRequests <- MCUnwraps
  RefundAmounts = {2}
  BridgeFees = {0}
  KntAmounts = {1}
  Metas <- MCMetas
  Suspendable = {alice, shop}
  PruneFlags = {FALSE}
  EndTimes = {0}
  EarlierPays <- MCEarlierPays
SPECIFICATION Spec
INVARIANTS TypeOK Conservation AuditTrail EscrowMatchesContract
PROPERTIES OnlyPrunesOverdraw SuspendedKeepsBalance

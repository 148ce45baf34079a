CONSTANTS
  alice = alice
  shop = shop
  joint = joint
  eth = eth
  x1 = x1
  Kid = {alice, shop}
  Joint = {joint}
  NoAddr = NoAddr
  ExtCode = {eth}
  ExtTx = {x1}
  Skew = 1
  Latency = 0
  Safe = 2
  MaxTime = 6
  MaxTx = 3
  MaxSigners = 128
  PaysPruneSize = 1
  FeePruneSize = 1
  Genesis = joint
  InitialHolders <- MCHolders
  InitialSupply = 7
  InitialBalances <- MCPruneBalances
  InitialPolicies <- MCInitialPolicies
  TransferRequests <- MCPruneTransfers
  PayRequests <- MCPrunePays
  WrapRequests = {}
  UnwrapRequests = {}
  RefundAmounts = {2}
  BridgeFees = {0}
  KntAmounts = {}
  Metas <- MCTargets
  Suspendable = {}
  PruneFlags = {TRUE}
  EndTimes = {0, 3}
  EarlierPays = {}
SPECIFICATION Spec
PROPERTIES NoPayPassedOver NoFeePassedOver OnlyTargetCollects

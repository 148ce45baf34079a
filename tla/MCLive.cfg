CONSTANTS
  alice = alice
  shop = shop
  joint = joint
  eth = eth
  x1 = x1
  Kid = {alice, shop}
  Joint = {joint}
  NoAddr = NoAddr
  ExtCode = {eth}
  ExtTx = {x1}
  Skew = 1
  Latency = 0
  Safe = 2
  MaxTime = 4
  MaxTx = 2
  MaxSigners = 128
  PaysPruneSize = 2
  FeePruneSize = 2
  Genesis = joint
  InitialHolders <- MCHolders
  InitialSupply = 8
  InitialBalances <- MCLiveBalances
  InitialPolicies <- MCLivePolicies
  TransferRequests <- MCLiveTransfers
  PayRequests <- MCLivePays
  WrapRequests <- MCLiveWraps
  UnwrapRequests = {}
  RefundAmounts = {}
  BridgeFees = {1}
  KntAmounts = {}
  Metas <- MCBridges
  Suspendable = {shop}
  PruneFlags = {TRUE}
  EndTimes = {0}
  EarlierPays = {}
SPECIFICATION FairSpec
PROPERTIES NothingStranded WrapsSettle PaysCollected FeesCollected

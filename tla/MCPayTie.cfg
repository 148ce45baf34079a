CONSTANTS
  alice = alice
  carol = carol
  shop = shop
  joint = joint
  Kid = {alice, carol, shop}
  Joint = {joint}
  NoAddr = NoAddr
  ExtCode = {}
  Skew = 1
  Latency = 0
  Safe = 2
  MaxTime = 5
  MaxTx = 5
  MaxSigners = 128
  PaysPruneSize = 1
  Genesis = joint
  InitialHolders <- MCHolders
  InitialSupply = 3
  InitialBalances <- MCTwoCustomers
  InitialPolicies <- MCInitialPolicies
  Merchants = {shop}
  Amounts = {1}
  Durations = {1}
  Metas = {}
  PruneFlags = {TRUE}
  EndTimes = {0}
SPECIFICATION Spec
INVARIANTS EveryPayCollectable
CHECK_DEADLOCK FALSE

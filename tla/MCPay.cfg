CONSTANTS
  alice = alice
  carol = carol
  shop = shop
  joint = joint
  Kid = {alice, carol, shop}
  Joint = {joint}
  NoAddr = NoAddr
  ExtCode = {}
  Skew = 0
  Latency = 1
  Safe = 0
  MaxTime = 4
  MaxTx = 4
  MaxSigners = 128
  PaysPruneSize = 2
  Genesis = joint
  InitialHolders <- MCHolders
  InitialSupply = 3
  InitialBalances <- MCInitialBalances
  InitialPolicies <- MCInitialPolicies
  Merchants = {shop}
  Amounts = {1, 2}
  Durations = {1}
  Metas <- MCMetas
  PruneFlags = {FALSE}
  EndTimes = {0}
SPECIFICATION Spec
INVARIANTS TypeOK RefundsWithinPay
PROPERTIES FeeOfPolicyInForce OnlyPruneOverdraws ImplementsIdeal

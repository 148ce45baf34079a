CONSTANTS
  alice = alice
  bridge = bridge
  joint = joint
  eth = eth
  x1 = x1
  x2 = x2
  Kid = {alice, bridge}
  Joint = {joint}
  NoAddr = NoAddr
  ExtCode = {eth}
  ExtTx = {x1, x2}
  Skew = 0
  Latency = 0
  MaxTime = 3
  MaxTx = 3
  MaxSigners = 128
  Genesis = joint
  InitialHolders <- MCHolders
  InitialSupply = 4
  InitialBalances <- MCInitialBalances
  InitialPolicies <- MCInitialPolicies
  Amounts = {2}
  BridgeFees = {1}
  Durations = {1}
  Extras <- MCExtras
  Metas <- MCMetas
SPECIFICATION Spec
INVARIANTS TypeOK
PROPERTIES PaidOnce ImplementsIdeal

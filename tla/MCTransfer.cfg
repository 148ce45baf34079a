CONSTANTS
  alice = alice
  bob = bob
  joint = joint
  Kid = {alice, bob}
  Joint = {joint}
  NoAddr = NoAddr
  ExtCode = {}
  Skew = 0
  Latency = 0
  MaxTime = 3
  MaxTx = 2
  MaxSigners = 128
  Genesis = joint
  InitialHolders <- MCHolders
  InitialSupply = 6
  InitialBalances <- MCInitialBalances
  InitialPolicies <- MCInitialPolicies
  Amounts = {2}
  OrderIDs <- MCOrderIDs
  PendingTimes = {0, 3}
  Durations = {1}
  Extras <- MCExtras
  Metas <- MCMetas
SPECIFICATION Spec
INVARIANTS TypeOK NonNegative EscrowMatchesContract Conservation AuditTrail
PROPERTIES NoEarlyExit SuspendedKeepsBalance ImplementsIdeal

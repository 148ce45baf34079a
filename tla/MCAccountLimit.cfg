CONSTANTS
  alice = alice
  bob = bob
  carol = carol
  dave = dave
  joint = joint
  club = club
  Kid = {alice, bob, carol, dave}
  Joint = {joint, club}
  NoAddr = NoAddr
  ExtCode = {}
  Skew = 0
  Latency = 0
  MaxTime = 1
  MaxTx = 2
  MaxSigners = 3
  Genesis = joint
  InitialHolders <- MCHolders
  InitialSupply = 2
  InitialBalances <- MCInitialBalances
  InitialPolicies <- MCInitialPolicies
  CoHolders <- MCCoHolders
SPECIFICATION Spec
INVARIANT HolderLimit

CONSTANTS
  alice = alice
  bob = bob
  vault = vault
  safe = safe
  Kid = {alice, bob}
  Joint = {vault, safe}
  NoAddr = NoAddr
  ExtCode = {}
  Skew = 0
  Latency = 0
  MaxTime = 4
  MaxTx = 4
  MaxSigners = 128
  Founders <- MCFounders
  Issues <- MCIssues
  KntAmounts = {0, 2}
  Metas <- MCMetas
  Amounts = {2}
  Durations = {2}
SPECIFICATION Spec
INVARIANTS TypeOK SupplyWithinMax NonNegative Conservation
PROPERTIES IssuedOnce

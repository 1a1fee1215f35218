CONSTANTS
  d1 = d1
  d2 = d2
  d3 = d3
  p1 = p1
  p2 = p2
  ann = ann
  bob = bob
  k1 = k1
  k2 = k2
  k3 = k3
  k4 = k4
  NoKey = NoKey
  MaxTransfer = 9
  Pot = pot
  Creator = ann
  Contributions = {d1, d2, d3}
  Payouts = {p1, p2}
  Keys = {k1, k2, k3, k4}
  Wallets = {pot, ann, bob}
  Member <- MCMember
  Amount <- MCAmount
  Key <- MCKey
  Opening <- MCOpening
  Target = 2
  Freezable = {bob}
  Faults = {"engine", "ack", "redis", "crash", "book"}
SPECIFICATION Spec
CHECK_DEADLOCK FALSE
INVARIANTS
  SettledPotNamesItsPayout
  FundedPotReachedItsTarget
  BreakdownMissesOnlyTheUnbooked
PROPERTIES
  PotNeverGoesBack

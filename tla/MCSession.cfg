CONSTANTS
  known = known
  new = new
  Accounts = {known, new}
  Hashes = {}
  None = None
  MaxBlock = 0
  Year2000Unix = 2
  Keys = {k1}
  MaxAttempts = 2
  Checks = {c1, c2}
  MaxReloads = 1
SPECIFICATION FairSessionSpec
INVARIANT ShownIsOnChain
PROPERTIES
  ConnectingEnds
  SeenAsSessionStep
CHECK_DEADLOCK FALSE

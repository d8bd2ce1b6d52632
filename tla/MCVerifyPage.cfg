CONSTANTS
  issuer = issuer
  holder = holder
  Accounts = {issuer, holder}
  Hashes = {h1}
  None = None
  MaxBlock = 0
  Year2000Unix = 2
  Expiries = {2}
  Now = 3
  Short = Short
  Lookups = {l1, l2}
  Cameras = {c1}
SPECIFICATION FairVerifySpec
INVARIANTS
  VerdictHonest
  ScannerOwnsCamera
PROPERTY LookupEnds

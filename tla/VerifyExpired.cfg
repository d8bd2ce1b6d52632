CONSTANTS
  issuer = issuer
  holder = holder
  Accounts = {issuer, holder}
  Hashes = {h1}
  None = None
  MaxBlock = 1
  Year2000Unix = 2
  Expiries = {0}
  Now = 3
  Short = Short
  Lookups = {l1, l2}
  Cameras = {c1}
SPECIFICATION MCVerifySpec
INVARIANT ExpiredNotShownValid

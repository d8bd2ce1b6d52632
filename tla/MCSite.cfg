CONSTANTS
  issuer = issuer
  user = user
  Accounts = {issuer, user}
  Hashes = {h1, h2}
  None = None
  MaxBlock = 0
  Year2000Unix = 2
  Now = 1
  Keys = {k1}
  Slots = {s1, s2}
  Sudo = user
  Days <- MCDays
  BlocksPerDay = 1
  Fetches = {f1, f2}
  AdminFetches = {f1, f2}
  ListFetches = {f1, f2}
  ProfileFetches = {f1, f2}
  StatsFetches = {f1, f2}
SPECIFICATION MCSiteSpec
INVARIANTS
  SiteTypeOK
  PastStep1Found
  ReviewedHasHash
  FormsSubmitOnce
  TakesEffectOnce
  RevokedShownIsRevoked
  HolderSeesChain
  VerifiedShownIsVerified
  InstitutionShownExists
SYMMETRY Symmetry
CHECK_DEADLOCK FALSE

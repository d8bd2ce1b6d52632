CONSTANTS
  k1 = k1
  Accounts = {a1, a2}
  Root = Root
  None = None
  MaxBlock = 2
  PublicKeys <- MCPublicKeys
  KeyIds <- MCKeyIds
  Blake2_256 <- MCBlake2
  KeyTypes = {"Sr25519"}
  Names = {"", "MIT"}
  EmptyName = ""
  MaxPublicKeys = 1
  Hashes = {h1}
  CredentialTypes = {"Degree"}
  Metadata = {m1, m2}
  MaxCredentialsPerHolder = 1
  CounterMax = 2
SPECIFICATION FairSettledSpec
PROPERTIES
  CredentialHistory
  VerdictFinal
  ExpiryTakesEffect

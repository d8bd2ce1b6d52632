CONSTANTS
  k1 = k1
  Accounts = {a1, a2}
  Root = Root
  None = None
  MaxBlock = 0
  PublicKeys <- MCPublicKeys
  KeyIds <- MCKeyIds
  Blake2_256 <- MCBlake2
  KeyTypes = {"Sr25519"}
  Names = {"", "MIT"}
  EmptyName = ""
  MaxPublicKeys = 1
  Hashes = {h1, h2, h3}
  CredentialTypes = {"Degree"}
  Metadata = {m1}
  MaxCredentialsPerHolder = 2
  CounterMax = 4
SYMMETRY MCSymmetry
SPECIFICATION CredentialSpec
INVARIANTS
  CredentialTypeOK
  OneCredentialPerCount
  IndexesExact
  CredentialHasParties
PROPERTY LedgerRefined

CONSTANTS
  k1 = k1
  k2 = k2
  k3 = k3
  Accounts = {a1, a2}
  Root = Root
  None = None
  MaxBlock = 1
  PublicKeys <- MCPublicKeys
  KeyIds <- MCKeyIds
  Blake2_256 <- MCBlake2
  KeyTypes = {"Sr25519"}
  Names = {"", "MIT"}
  EmptyName = ""
  MaxPublicKeys = 2
SYMMETRY MCSymmetry
SPECIFICATION DidSpec
INVARIANTS
  DidTypeOK
  KeysDistinctAndBounded
  InstitutionHasDid
PROPERTIES
  OwnerChangesDid
  OnlyRootVerifies
  NoKeyAddedWhileInactive

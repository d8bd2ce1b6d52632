CONSTANTS
  k1 = k1
  Accounts = {a1, a2, a3, a4}
  Root = Root
  None = None
  MaxBlock = 0
  PublicKeys <- MCPublicKeys
  KeyIds <- MCKeyIds
  Blake2_256 <- MCBlake2
  KeyTypes = {"Sr25519"}
  Names = {""}
  EmptyName = ""
  MaxPublicKeys = 1
  EndorsementTypes = {"Academic"}
  CommentSizes = {0}
  MaxCommentSize = 256
  Weights = {1}
  MaxEndorsements = 2
  U32Max = 60
  ScoreCap = 45
  MaxRecorded = 0
SYMMETRY MCSymmetry
SPECIFICATION SettledSpec
INVARIANT EndorsementsExact
PROPERTIES
  EndorserDecides

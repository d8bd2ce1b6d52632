CONSTANTS
  k1 = k1
  Accounts = {a1, a2}
  Root = Root
  None = None
  MaxBlock = 1
  PublicKeys <- MCPublicKeys
  KeyIds <- MCKeyIds
  Blake2_256 <- MCBlake2
  KeyTypes = {"Sr25519"}
  Names = {""}
  EmptyName = ""
  MaxPublicKeys = 1
  EndorsementTypes = {"Academic"}
  CommentSizes = {0, 257}
  MaxCommentSize = 256
  Weights = {0, 10}
  MaxEndorsements = 2
  U32Max = 60
  ScoreCap = 45
  MaxRecorded = 3
SYMMETRY MCSymmetry
SPECIFICATION ReputationSpec
INVARIANTS
  ReputationTypeOK
  ScoreCurrent
PROPERTIES
  ScoreFallsByWithdrawal

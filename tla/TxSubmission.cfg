CONSTANTS
  Submissions = {s1, s2}
  MaxForks = 1
SPECIFICATION FairTxSpec
INVARIANTS
  TxTypeOK
  SuccessIsFinal
  ShownAgrees
  FailureExplained
PROPERTIES
  VerdictKept
  FinalizedSettles
CHECK_DEADLOCK FALSE

CONSTANTS
  Submissions = {s1, s2}
  MaxForks = 1
SPECIFICATION FairTxSpec
PROPERTY WatchedSettles
CHECK_DEADLOCK FALSE

CONSTANTS
  Jobs = {j1, j2}
  Owners <- MCOwners3
  MaxCrashes = 2
  Circumstances <- MCBoth
  Orphans = TRUE
SPECIFICATION FairSpec
INVARIANTS
  TypeOK
  CompletionIsHonest
  VerifiedHasNoError
  EveryJobAccounted
PROPERTIES
  VerifiedIsFinal
  RestartsComplete
CHECK_DEADLOCK FALSE

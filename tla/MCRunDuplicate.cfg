CONSTANTS
  Jobs = {j1, j2}
  Owners <- MCOwners2
  MaxCrashes = 1
  Circumstances <- MCHasty
  Orphans = TRUE
SPECIFICATION Spec
INVARIANTS
  LiveJobNotDuplicated
CHECK_DEADLOCK FALSE

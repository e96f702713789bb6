CONSTANTS
  Full = 8
  Tolerance = 1
  Budgets = {2, 4}
  LimitIsStrict = TRUE
SPECIFICATION FairSpec
INVARIANTS
  TypeOK
  GrantWasScreened
  ValidMeansPairPass
  NearMaximalOnPrefix
PROPERTIES
  Returns
CHECK_DEADLOCK FALSE

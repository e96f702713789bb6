CONSTANTS
  Days = {d1, d2}
  FirstDays = {d1}
  RunSettings = {primary, lagOne}
  MaxStarts = 3
SPECIFICATION RunSpec
INVARIANTS
  TablesAreComplete
  VerifiedBundleIsOneRun
CHECK_DEADLOCK FALSE

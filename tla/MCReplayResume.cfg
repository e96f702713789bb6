CONSTANTS
  Days = {d1, d2}
  FirstDays = {d1}
  RunSettings = {primary}
  MaxStarts = 2
SPECIFICATION RunSpec
INVARIANTS
  ResumeFinalizesCompleteRun
CHECK_DEADLOCK FALSE

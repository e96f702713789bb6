CONSTANTS
  Participants <- TwoParticipants
  Capacity <- MCCapacity
  MaxUnits = 4
  Tolerance = 0
  BetaNum = 1
  BetaDen = 2
  FSum <- MCFSum
  ScaleSteps = 4
  NoPrevious = NoPrevious
  IntervalsPerDay = 2
  Cases <- MCCases
SPECIFICATION Spec
INVARIANTS
  TypeOK
  LowerBoundIsSound
  OnlyOverstatementStops
PROPERTIES
  RestrictionRecoversTruth
  KeepsPromise
CHECK_DEADLOCK FALSE

CONSTANTS
  Participants <- TwoParticipants
  Capacity <- MCCapacityGate
  MaxUnits = 4
  Tolerance = 0
  BetaNum = 1
  BetaDen = 2
  FSum <- MCFSum
  NoPrevious = NoPrevious
  IntervalsPerDay = 1
  ScaleSteps = 4
  TelemetrySettings <- ImperfectSettings
  CarryCeiling = TRUE
SPECIFICATION FairSpec
INVARIANTS
  TypeOK
  AccessNested
PROPERTIES
  RestrictionNeedsDisplacement
  KeepsPromise
  CeilingRecovers
  GateMeansRecovery
  LagDoesNotCrossDays

CONSTANTS
  Participants <- TwoParticipants
  Capacity <- MCCapacity
  MaxUnits = 1
  Tolerance = 0
  BetaNum = 1
  BetaDen = 2
  FSum <- MCFSum
  NoPrevious = NoPrevious
  ScaleSteps = 1
  Horizon = 2
  MaxCommands = 7
SPECIFICATION Spec
ACTION_CONSTRAINT Bounded
INVARIANTS
  TypeOK
  PairedControls
  CompleteMeansScreened
  ResultIsOfOneSource
  PackageMatchesItsRuns
PROPERTIES
  KeepsPromise
CHECK_DEADLOCK FALSE

CONSTANTS
  Participants <- TwoParticipants
  Capacity <- MCCapacity
  MaxUnits = 1
  Tolerance = 0
  BetaNum = 1
  BetaDen = 2
  FSum <- MCFSum
  NoPrevious = NoPrevious
  ScaleSteps = 1
  Horizon = 2
  MaxCommands = 2
SPECIFICATION Spec
INVARIANTS
  BlockedForAReason
CHECK_DEADLOCK FALSE

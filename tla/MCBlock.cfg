CONSTANTS
  LastDay = 3
  LastInterval = 2
  Branches = {NO_FEEDBACK, ECF, UNQUALIFIED}
  OpenLoop = NO_FEEDBACK
  Mode = "ADAPTIVE"
  MaxInterruptions = 3
SPECIFICATION FairSpec
INVARIANTS
  TypeOK
  ChoicesInTurn
PROPERTIES
  PublishesBlock
  BlockReturns
CHECK_DEADLOCK FALSE

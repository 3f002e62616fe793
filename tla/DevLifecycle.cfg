SPECIFICATION FairLifeSpec
CONSTANTS
  Clients = {c1, c2}
INVARIANTS OrderlyUse NothingOutlives StopReaches
PROPERTIES UnloadEnds
CHECK_DEADLOCK FALSE

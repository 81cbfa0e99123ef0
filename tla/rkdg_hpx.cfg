SPECIFICATION FairSpec
CONSTANTS
  a = a
  b = b
  c = c
  Unit <- Three
  Neigh <- TriangleNeigh
  CommTypes <- RkdgCommTypes
  CommIndex <- RkdgCommIndex
  UintRange = 8
  NumStages = 2
  NumSteps = 3
  WettingDrying = TRUE
  SlopeLimiting = TRUE
  MayBlowUp = TRUE
  MayThrow = TRUE
INVARIANTS
  FreshData
  NoChannelError
  ChannelBound
PROPERTIES
  SyncSpec
  Termination
CHECK_DEADLOCK FALSE

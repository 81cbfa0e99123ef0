SPECIFICATION Spec
CONSTANTS
  a = a
  b = b
  c = c
  Unit <- Three
  Neigh <- IslandNeigh
  CommTypes <- RkdgCommTypes
  CommIndex <- RkdgCommIndex
  UintRange = 8
  NumStages = 2
  NumSteps = 1
  WettingDrying = FALSE
  SlopeLimiting = FALSE
  MayBlowUp = FALSE
  MayThrow = TRUE
PROPERTIES
  NoStageAfterException
CHECK_DEADLOCK FALSE

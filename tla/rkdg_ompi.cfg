SPECIFICATION FairSpec
CONSTANTS
  a = a
  b = b
  c = c
  Unit <- Chain
  Neigh <- ChainNeigh
  Locality <- ChainLocality
  SubmeshId <- ChainSubmeshId
  CommTypes <- RkdgCommTypes
  ShortRange = 4
  NumThreads <- TwoThreads
  NumStages = 2
  NumSteps = 2
  WettingDrying = TRUE
  SlopeLimiting = TRUE
  MayBlowUp = TRUE
INVARIANTS
  TypeOK
  RequestDiscipline
  FreshData
  MpiCorrect
PROPERTIES
  SendBufferStable
  SyncSpec
  Termination

SPECIFICATION FairSpec
CONSTANTS
  a = a
  b = b
  c = c
  Unit <- Chain
  Neigh <- ChainNeigh
  Locality <- ChainLocality
  SubmeshId <- ChainSubmeshId
  InnerEdges <- ChainInner
  CommTypes <- GnCommTypes
  ShortRange = 4
  NumThreads <- TwoThreads
  NumStages = 1
  NumSteps = 2
  SlopeLimiting = TRUE
  MayBlowUp = TRUE
INVARIANTS
  FreshData
  OneSystem
  MpiCorrect
PROPERTIES
  Termination

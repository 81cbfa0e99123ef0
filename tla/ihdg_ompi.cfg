SPECIFICATION FairSpec
CONSTANTS
  a = a
  b = b
  c = c
  Unit <- Triangle
  Neigh <- ChainNeigh
  Locality <- TriangleLocality
  SubmeshId <- TriangleSubmeshId
  InnerEdges <- TriangleInner
  CommTypes <- IhdgCommTypes
  ShortRange = 4
  NumThreads <- TwoThreads
  NumSteps = 2
  MaxIter = 2
  SlopeLimiting = TRUE
  MayBlowUp = TRUE
INVARIANTS
  NumberingCorrect
  MasterAlone
  LockStep
  FreshData
  MpiCorrect
PROPERTIES
  NewtonSpec
  Termination

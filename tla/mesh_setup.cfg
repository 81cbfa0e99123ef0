SPECIFICATION Spec
CONSTANTS
  Inputs <- MCInputs
  Partitions <- MCPartitions
  NumNodes = 2
  RanksPerLocality = 2
INVARIANTS
  SerialMesh
  SameAsSerial
  MessagesMatch
  SameParameters

SPECIFICATION Spec
CONSTANTS
  a = a
  b = b
  c = c
  ab = ab
  bc = bc
  shore = shore
  wall = wall
  sea = sea
  h_o = 4
  h_o_threshold = 1
  Element <- Row
  Interface = {ab, bc}
  Distributed = {bc}
  In <- RowIn
  Ex <- RowEx
  Boundary = {shore, wall, sea}
  Land = {shore, wall}
  Side <- RowSide
  Bath <- RowBath
  Fluxes <- ThreeFluxes
  OpenFluxes <- Inflow
  Flows <- StillOrTilted
  InitialMeans <- Shallow
  MaxMean = 10
INVARIANTS
  TypeOK
  WettingDryingSound
PROPERTIES
  WaterKept
  DryKeepsWater
  LimiterFresh

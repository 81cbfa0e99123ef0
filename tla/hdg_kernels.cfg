SPECIFICATION Spec
CONSTANTS
  P = 19
  g = 5
  NGP = 2
  MaxIterations = 2
  Inputs <- MCInputs
INVARIANTS UpwindSplit FluxConserved
PROPERTIES NewtonUpdateExact EdgeUpdateExact

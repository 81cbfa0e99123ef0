SPECIFICATION Spec
CONSTANTS
  UintRange = 16
  Dt <- Step
  NumSteps = 4
  MeteoFrequencies <- NoneToThree
INVARIANTS
  MeteoLoaded

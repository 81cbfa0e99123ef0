SPECIFICATION Spec
CONSTANTS
  UintRange = 16
  Dt <- Step
  NumSteps = 5
  MeteoFrequencies <- NoneToThree
  OutputFrequencies <- OneToThree
INVARIANTS
  CurrentState
  MeteoLoaded
  OutputComplete

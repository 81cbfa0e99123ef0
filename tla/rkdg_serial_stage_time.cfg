SPECIFICATION Spec
CONSTANTS
  UintRange = 16
  Dt <- Step
  NumSteps = 1
  MeteoFrequencies <- NoneToThree
  OutputFrequencies <- OneToThree
INVARIANTS
  StageTime

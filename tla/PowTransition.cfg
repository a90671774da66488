SPECIFICATION Spec
CONSTANTS
  Base = 4
  Digits = 10
  Window = 3
  PowLimit = 4000
  Ramps <- FlatRamp
  NoRetargeting = FALSE
  MedianSpan = 3
  FactorRange = 65536
  Steps <- SolveSteps
  MaxLength = 7
INVARIANT RequiredIsPermitted
CHECK_DEADLOCK FALSE

SPECIFICATION Spec
CONSTANTS
  Base = 4
  Digits = 9
  Window = 3
  PowLimit = 2047
  Ramps <- FlatRamp
  NoRetargeting = FALSE
  MedianSpan = 3
  FactorRange = 65536
  Steps <- SolveSteps
  MaxLength = 7
INVARIANT NextTargetIsFormula
CHECK_DEADLOCK FALSE

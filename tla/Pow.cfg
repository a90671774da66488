SPECIFICATION Spec
CONSTANTS
  Base = 4
  Digits = 10
  Window = 2
  PowLimit = 4000
  Ramps <- ShrinkingRamps
  NoRetargeting = FALSE
  MedianSpan = 3
  FactorRange = 65536
  Steps <- SolveSteps
  MaxLength = 7
INVARIANTS TypeOK CompactRoundsDown LimitIsKept EasingIsBounded OnScheduleKeepsTarget SlowerIsNeverHarder
CHECK_DEADLOCK FALSE

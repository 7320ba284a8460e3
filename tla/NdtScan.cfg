SPECIFICATION ScanFairSpec
CONSTANTS
  Cycles = 2
  HalfTicksA = 3
  HalfTicksB = 4
  TimerMod = 32
  MaxJitter = 1
  StartTimers = {2, 9, 31}
  StartLevels = {"low", "high"}
  Samples = 3
  Period = 8
  Socs = 2
  Conv = 3
  MaxBody = 10
INVARIANTS
  InPhase
  RowsAreSweeps
  NeverOlder
PROPERTIES
  StartDelayExact
  NoShootThrough
  DriftFree
  CaptureReturns

SPECIFICATION MCSpec
CONSTANTS
  TrigSources = {"I2C"}
  SkipSettings = {TRUE}
  LatchSettings = {TRUE}
  Period = 1
  BlinkMs = 1
  MsMod = 2
  QDepth = 2
  SaveIds = {1, 2}
  BurstArgs = {1}
  r1 = r1
  r2 = r2
  Recs = {r1, r2}
  Rails = {"RAIL_5V", "RAIL_HV"}
  BurstMin = 2
  BurstMax = 2
SYMMETRY Symmetry
INVARIANTS
  BoardTypeOK
  ValidIsWhole
  ServedHeaderMatches
  SavedIdHoldsRecord
  BurstInOctalMode
  HvOnlyInScan
  OneBurstAfterHot

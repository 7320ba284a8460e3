SPECIFICATION SystemFairSpec
CONSTANTS
  r1 = r1
  r2 = r2
  TrigSources = {"I2C"}
  SkipSettings = {TRUE}
  LatchSettings = {TRUE}
  Period = 1
  BlinkMs = 1
  MsMod = 2
  QDepth = 2
  SaveIds = {1}
  BurstArgs = {9}
  Recs = {r1, r2}
  Rails = {"RAIL_5V"}
  BurstMin = 2
  BurstMax = 2
PROPERTIES
  SessionReadsOneRecord
  ReadSideReopens
  HotShutsDown

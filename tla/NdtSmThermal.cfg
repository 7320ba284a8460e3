SPECIFICATION SmFairSpec
CONSTANTS
  TrigSources = {"I2C"}
  SkipSettings = {TRUE}
  LatchSettings = {TRUE}
  Period = 1
  BlinkMs = 1
  MsMod = 2
  QDepth = 4
  SaveIds = {1}
  BurstArgs = {1}
PROPERTIES
  ThermalDrainsCommands

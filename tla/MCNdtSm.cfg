SPECIFICATION BoundedFairSpec
CONSTANTS
  TrigSources = {"I2C", "PERIODIC", "BOTH"}
  SkipSettings = {TRUE, FALSE}
  LatchSettings = {TRUE, FALSE}
  Period = 2
  BlinkMs = 2
  MsMod = 8
  QDepth = 2
  SaveIds = {1}
  BurstArgs = {1}
  MaxScan = 1
  MaxLag = 6
INVARIANTS
  SmTypeOK
PROPERTIES
  PeriodicPace
  BlinkPace
  PeriodicFires
  CommandsServed
  FaultLatched

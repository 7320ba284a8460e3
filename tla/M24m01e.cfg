SPECIFICATION FairSpec
CONSTANTS
  AddrBytes = 2
  PageSize = 2
  HalfSize = 4
  Size = 8
  PollTries = 2
  MaxFaults = 2
  Starts = {0, 1, 3, 7}
  Lengths = {0, 1, 3}
  MaxCalls = 2
INVARIANTS
  TypeOK
  WriteLandsExactly
  ReadDeliversRange
PROPERTIES
  CallsReturn
  BusReleased

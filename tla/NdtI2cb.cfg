SPECIFICATION Spec
CONSTANTS
  Bytes = {0, 1, 3, 4, 6, 8}
  WaveChannels = 2
  WaveSamples = 2
  TapCount = 1
  HdrLen = 3
  MaxWrite = 3
  MaxRead = 5
INVARIANTS
  TypeOK
  CommandsAsSent
PROPERTIES
  ReadInOrder

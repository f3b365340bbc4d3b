\* A read to the end into a string with a capacity above Growup.
SPECIFICATION Spec
CONSTANTS
  Sources <- MCSources
  MaxStall = 2
  ReadSizes = {1}
  BufferCapas = {0, 5}
  ChunkSize = 2
  Growup = 1
  GrowupLimit = 2
INVARIANT ReadAllReachesEof

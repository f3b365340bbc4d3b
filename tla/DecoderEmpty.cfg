\* A frame without data, read to the end.
SPECIFICATION Spec
CONSTANTS
  Sources <- MCSources
  MaxStall = 2
  ReadSizes = {0, 1, 3}
  BufferCapas = {0, 1}
  ChunkSize = 2
  Growup = 1
  GrowupLimit = 2
INVARIANT DecodeGivesString

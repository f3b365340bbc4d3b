\* Two threads that read from one decoder, an inport that lets others run.
SPECIFICATION SharedFairSpec
CONSTANTS
  r1 = r1
  r2 = r2
  Readers = {r1, r2}
  PortWaits = TRUE
  Sources <- MCSources
  MaxStall = 2
  ReadSizes = {2}
  BufferCapas = {0}
  ChunkSize = 2
  Growup = 2
  GrowupLimit = 2
INVARIANTS InputConserved SharedOutputConserved NoFalseEof NoFalseError
PROPERTY SharedReadEnds

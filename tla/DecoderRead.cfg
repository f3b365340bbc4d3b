\* Reads of fixed sizes and to the end, with new or small result strings.
SPECIFICATION FairSpec
CONSTANTS
  Sources <- MCSources
  MaxStall = 2
  ReadSizes = {0, 1, 3}
  BufferCapas = {0, 1}
  ChunkSize = 2
  Growup = 1
  GrowupLimit = 2
INVARIANTS TypeOK InputConserved OutputConserved NoFalseEof ShortOnlyAtEof ReadAllReachesEof EofHasEverything
PROPERTY ReadEnds

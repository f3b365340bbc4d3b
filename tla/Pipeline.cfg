\* A writer and a reader of either kind, with exceptions in reads.
SPECIFICATION PipeFairSpec
CONSTANTS
  c1 = c1
  Callers = {c1}
  Writer = c1
  BlockSize = 2
  Overhead = 1
  HeaderSize = 0
  EpilogueSize = 1
  OutSize = 5
  Sizes = {1, 3}
  Pledges = {}
  AtomicPort = FALSE
  MaxMade = 99
  MaxPut = 2
  MaxStall = 2
  ReadSizes = {1}
  BufferCapas = {0}
  ChunkSize = 2
  Growup = 2
  GrowupLimit = 2
  Amounts = {2}
INVARIANTS PipeTypeOK NoReadFails
PROPERTIES Implements ArrivedIsRead EndIsSeen

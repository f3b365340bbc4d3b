\* The block and a second caller, an outport that takes each chunk at once.
SPECIFICATION OpenFairSpec
CONSTANTS
  c1 = c1
  c2 = c2
  Body = c1
  Callers = {c1, c2}
  BlockSize = 2
  Overhead = 1
  HeaderSize = 1
  EpilogueSize = 1
  OutSize = 5
  Sizes = {1, 9}
  Pledges <- MCPledges
  AtomicPort = TRUE
  MaxMade = 6
INVARIANTS OpenTypeOK StreamWhole EofIsComplete LeavesFinishedStream NoExtraFrame
PROPERTY CallsEnd
\* open has returned, and clients may stop calling.
CHECK_DEADLOCK FALSE

\* One caller, a slow outport that freezes, refuses and raises.
SPECIFICATION Spec
CONSTANTS
  c1 = c1
  Callers = {c1}
  BlockSize = 2
  Overhead = 1
  HeaderSize = 1
  EpilogueSize = 1
  OutSize = 5
  Sizes = {1, 9}
  Pledges <- MCPledges
  AtomicPort = FALSE
  MaxMade = 16
INVARIANTS TypeOK StreamWhole
PROPERTY FlushDrains
\* The client may stop calling.
CHECK_DEADLOCK FALSE

\* Two strings, one frozen; ids of 16 values in a size_t of 64.
SPECIFICATION Spec
CONSTANTS
  s1 = s1
  s2 = s2
  Strings = {s1, s2}
  Frozen = {s2}
  Lengths = {0, 1, 3}
  Capacities <- MCCapacities
  Ids = {0, 1, 15}
  LeastSize = 2
  ErrorCodes = 3
  Word = 64
INVARIANTS TypeOK FitsCapacity
PROPERTY RaiseKeepsDict

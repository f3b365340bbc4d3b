\* Two encoders and a decoder, two callers, memory for three contexts.
SPECIFICATION Spec
CONSTANTS
  e1 = e1
  e2 = e2
  d1 = d1
  c1 = c1
  c2 = c2
  k1 = k1
  k2 = k2
  k3 = k3
  NULL = NULL
  Encoders = {e1, e2}
  Decoders = {d1}
  Callers = {c1, c2}
  Addresses = {k1, k2, k3}
SYMMETRY Interchangeable
INVARIANTS TypeOK OwnedOnce
PROPERTY ReadyKeepsContext

\* Two objects and two callers, an unsigned int of four bits.
SPECIFICATION Spec
SYMMETRY Interchangeable
CONSTANTS
  p1 = p1
  p2 = p2
  c1 = c1
  c2 = c2
  Objects = {p1, p2}
  Callers = {c1, c2}
  Numbers <- MCNumbers
  Flags <- MCFlags
  Negated = {"nodictid"}
  Levels = {0}
  NoLevel = NoLevel
  Preset <- MCPreset
  Options <- MCOptions
  Highest <- MCHighest
  Word = 16
INVARIANTS TypeOK AcceptedAsGiven InitializeOverlays

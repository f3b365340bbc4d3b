\* Calls on three strings, one of them frozen, in a small size_t.
SPECIFICATION Spec
CONSTANTS
  s1 = s1
  s2 = s2
  s3 = s3
  none = none
  few = few
  long = long
  huge = huge
  Nil = Nil
  Strings = {s1, s2, s3}
  Frozen = {s3}
  Texts = {none, few, long, huge}
  Size <- MCSize
  Blank = none
  Imports <- MCImports
  Limits <- MCLimits
  Capas = {0, 2}
  Overhead = 2
  Word = 16
  Field = 64
INVARIANTS TypeOK FitsBuffer DecodedIsWhole DefaultsSuffice

SPECIFICATION Spec
CONSTANTS
  c1 = c1
  c2 = c2
  c3 = c3
  b1 = b1
  b2 = b2
  Caller = {c1, c2, c3}
  Body = {b1, b2}
  Chunks = 2
SYMMETRY Swaps
INVARIANTS
  HandedOverStays
  FailsForCause
  QuietShelfWhole
CHECK_DEADLOCK FALSE

SPECIFICATION Spec
CONSTANTS
  r1 = r1
  r2 = r2
  Req = {r1, r2}
  Manager = Manager
  Outside = Outside
SYMMETRY Calls
INVARIANTS
  LaunchesUncapped
CHECK_DEADLOCK FALSE

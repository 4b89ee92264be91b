SPECIFICATION Spec
CONSTANTS
  c1 = c1
  c2 = c2
  c3 = c3
  p1 = p1
  p2 = p2
  NoCall = NoCall
  Call = {c1, c2, c3}
  Proc = {p1, p2}
  ProcOf <- TwoProcs
  Key <- MCKey
  KeysOf <- SharedTicket
  Bound = {c1, c2, c3}
  Lifetime = 2
  NamesDurable = FALSE
  Faults = {"power"}
  MaxClock = 3
  MaxCuts = 1
INVARIANT
  OnceInLifetime
CHECK_DEADLOCK FALSE

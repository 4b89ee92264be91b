SPECIFICATION FairSpec
CONSTANTS
  c1 = c1
  c2 = c2
  c3 = c3
  p1 = p1
  p2 = p2
  NoCall = NoCall
  Call = {c1, c2, c3}
  Proc = {p1, p2}
  ProcOf <- TwoProcs
  Key <- MCKey
  KeysOf <- SharedTicket
  Bound = {c1, c2}
  Lifetime = 2
  NamesDurable = TRUE
  Faults = {"io", "crash", "power"}
  MaxClock = 2
  MaxCuts = 1
INVARIANTS
  TypeOK
  OnceInLifetime
  TempsDoNotPile
  RefusedForCause
PROPERTIES
  CallsAnswered
CHECK_DEADLOCK FALSE

SPECIFICATION Spec
CONSTANTS
  r1 = r1
  r2 = r2
  p1 = p1
  p2 = p2
  None = None
  Req = {r1, r2}
  Proc = {p1, p2}
  Jail <- MCJail
  JailOf <- MCJailOf
  AllowGenesis = TRUE
  PriorRows = 0
  Settings <- Sound
INVARIANTS
  GenesisOnlyOnEmptyChain
CHECK_DEADLOCK FALSE

SPECIFICATION Spec
CONSTANTS
  t1 = t1
  t2 = t2
  t3 = t3
  p1 = p1
  p2 = p2
  NoThread = NoThread
  Thread = {t1, t2, t3}
  Proc = {p1, p2}
  ProcOf <- MCProcOf
  Entry = {a, blank}
  BadEntry = {blank}
  MaxCalls = 1
  MaxCuts = 0
PROPERTIES
  ReadersSeeWholeLines

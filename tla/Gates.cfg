SPECIFICATION GatesSpec
CONSTANTS
  MinId = 2
  MaxId = 3
  Cases <- CasesOf
  DefaultMax = 2
  HardCap = 3
  MaxReasons = 4
  MaxFilename = 3
  Home = {"u", "v", "w", "x", ""}
  Claims <- ClaimInputs
  Messages <- MessageInputs
  Calls <- CallInputs
  Reads <- ReadInputs
  Probes <- ProbeInputs
  r1 = r1
  r2 = r2
  Req = {r1, r2}
  Manager = Manager
  Outside = Outside
SYMMETRY Managed
INVARIANTS
  GravestReasonHolds
  NamesAreOpaque
  FilterIsPolicy
  ReadIsHonest
  VerdictIsRight
  NobodySteersRoot
  ReportTrue
  ManagerCanLaunch
  CappedByAnother
CHECK_DEADLOCK FALSE

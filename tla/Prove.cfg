SPECIFICATION FairSpec
CONSTANTS
  r1 = r1
  r2 = r2
  p1 = p1
  p2 = p2
  None = None
  Req = {r1, r2}
  Proc = {p1, p2}
  Jail <- MCJail
  JailOf <- MCJailOf
  AllowGenesis = FALSE
  PriorRows = 1
  Settings <- Mixed
INVARIANTS
  TypeOK
  ProvedMeansGone
  GuestOnRecord
  LeakOnRecord
  OneGuestAtATime
  AnswerBorneOut
  LaunchClosed
  AloneSucceeds
PROPERTIES
  EveryRequestAnswered
CHECK_DEADLOCK FALSE

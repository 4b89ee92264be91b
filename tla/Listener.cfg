SPECIFICATION FairSpec
CONSTANTS
  Timeout = 2
  HardenWait = 1
  BindWait = 1
  HelloWait = 1
  PushUnits = 2
  ReplyWait = 2
  DoorWaits = {1}
  MaxFrame = 2
  ReplyMax = 1
  MaxConn = 2
  MaxSend = 4
  MaxClock = 11
INVARIANTS
  TypeOK
  OneDeadline
  TakenIsSound
  NoListenerLeft
  RefusalOnRecord
  AnswerBorneOut
  StalledGuestTimesOut
PROPERTIES
  ListenersEnd
CHECK_DEADLOCK FALSE

SPECIFICATION MsgFairSpec
CONSTANTS
  None = None
  m1 = m1
  m2 = m2
  Msgs = {m1, m2}
  MayBe <- MCMayBe
  Windows = {tab, notification}
  Notification = notification
INVARIANTS
  MsgTypeOK
  AnswersAreTrue
PROPERTIES
  DecisionsStand
  DecidedIsSettled
CHECK_DEADLOCK FALSE

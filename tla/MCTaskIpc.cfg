SPECIFICATION Spec
CONSTANTS
  NUM_TASKS = 5
  FIRST_SPAWNABLE = 3
  SUPERVISED = {2}
  NET_TASK = 2
  SEND_RIGHTS <- MCSendRights
  MSG_QUEUE_DEPTH = 1
  MaxCall = 2
  MaxGeneration = 5
INVARIANTS CallIsAtItsServer AnswerIsToItsCall MailForThisOccupant RecvNeverSleepsOnMail
PROPERTY CallsKeepTheirPromise
CHECK_DEADLOCK FALSE

SPECIFICATION Spec
CONSTANTS
  NUM_TASKS = 6
  FIRST_SPAWNABLE = 4
  CON_TASK = 2
  OpenServers = {2}
  ServerSends <- ServerSendsMC
  Ids = {0, 1}
  RootIds = {0}
  Groups = {}
  Callers = {3, 4, 5}
  Logins = {4}
  Failing = {3}
  MaxGeneration = 7
CHECK_DEADLOCK FALSE
INVARIANTS RightsNameTheirOccupant Lineage StdoutIsReachable NoEscalation
PROPERTY RightsToServersLast

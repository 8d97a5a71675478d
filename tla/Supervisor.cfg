SPECIFICATION FairSpec
CONSTANTS
  NumServers = 2
  NetServers = {2}
  MSG_QUEUE_DEPTH = 1
  MAX_RESTARTS = 1
  WEDGE_TICKS = 2
  PING_INTERVAL = 1
  PING_TIMEOUT = 2
CHECK_DEADLOCK FALSE
INVARIANT LiveIsWatched
PROPERTIES IdleTripsOnlyUnseen StuckIsReplaced CallsEnd

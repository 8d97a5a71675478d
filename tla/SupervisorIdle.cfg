SPECIFICATION FairSpec
CONSTANTS
  NumServers = 2
  NetServers = {}
  MSG_QUEUE_DEPTH = 1
  MAX_RESTARTS = 1
  WEDGE_TICKS = 3
  PING_INTERVAL = 2
  PING_TIMEOUT = 2
CHECK_DEADLOCK FALSE
PROPERTY HealthyIdleNeverTrips

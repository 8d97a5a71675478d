SPECIFICATION FairSpec
CONSTANTS
  NUM_TASKS = 4
  FIRST_SPAWNABLE = 3
  SUPERVISED = {2}
  NET_TASK = 2
  NUM_CORES = 2
  BOOT = 0
  Started = {1}
  Kickable = {0}
  Halting = {1}
  MAX_RESTARTS = 1
  MaxGeneration = 2
PROPERTIES DoomedEnds RunnableComesRound

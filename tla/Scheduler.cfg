SPECIFICATION Spec
CONSTANTS
  NUM_TASKS = 5
  FIRST_SPAWNABLE = 3
  SUPERVISED = {}
  NET_TASK = 2
  NUM_CORES = 3
  BOOT = 0
  Started = {1, 2}
  Kickable = {1, 2}
  Halting = {}
  MAX_RESTARTS = 0
  MaxGeneration = 2
INVARIANTS SchedInv WorkHasBeenKicked

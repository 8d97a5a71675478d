SPECIFICATION Spec
CONSTANTS
  NUM_TASKS = 3
  FIRST_SPAWNABLE = 2
  Failing = {1}
  Blobs = {"argv", "env"}
  Latched = {"env"}
  Size <- SizeMC
  RamBlocks = 3
  MaxAsked = 1
  MaxGeneration = 5
INVARIANTS ChildIsItsSpawners StagerLives RegionsAreDisjoint

SPECIFICATION FairSpec
CONSTANTS
  NUM_TASKS = 2
  FIRST_SPAWNABLE = 1
  QUEUE_LEN = 1
  LineMax = 2
  Typed = {"key", "int", "quit"}
  Modes = {TRUE}
  Commands = {TRUE, FALSE}
  Receivers = {0, 1}
  MaxGeneration = 3
INVARIANT KeyboardInv
PROPERTIES MarkedReadsNothing QuitTakesTheKeyboard BootWaitIsInterruptible

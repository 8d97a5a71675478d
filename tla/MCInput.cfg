SPECIFICATION MCSpec
CONSTANTS
  QUEUE_LEN = 3
  SerialKeys <- SerialKeysMC
  UsbKeys <- UsbKeysMC
  EscAlone = 1
  UsbAlone = 2
  MaxKeys = 4
CHECK_DEADLOCK FALSE
INVARIANTS KeysStayWhole UsbIsSound
PROPERTIES OnlyCutKeysAreDropped TypeAheadStays

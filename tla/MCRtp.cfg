SPECIFICATION PartsSpec
CONSTANTS
  NoPacket = NoPacket
  NoLayer = NoLayer
INVARIANTS InSendOrder WindowExact AssembledExactly NoSplice
PROPERTIES GapsClose
CHECK_DEADLOCK FALSE

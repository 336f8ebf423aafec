SPECIFICATION PartsSpec
CONSTANTS
  None = None
  Modes <- Encoders
  Lanes = {l1, l2}
  Writer = w
  MaxRows = 3
  Cols = 2
  SpinBudget = 1
  MaxFrames = 2
  MaxFails = 1
INVARIANTS SameBytes ReferenceReturned ContextsSerial
PROPERTIES EncoderEnds
CHECK_DEADLOCK FALSE

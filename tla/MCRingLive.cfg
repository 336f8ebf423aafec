SPECIFICATION FairSpec
CONSTANTS
  RefFrames = 1
  N = 2
  Surfaces <- MCSurfaces
  None = None
  MaxEvents = 1
  Inputs = {"show", "serial", "newseq", "reset", "close"}
ACTION_CONSTRAINT Canonical
PROPERTIES
  TailsFinish
  CallsReturn
